---------------------------- MODULE Login_proof -----------------------------
(***************************************************************************)
(* Proofs about Login, for any number of replicas, addresses, accounts,    *)
(* tokens and requests: what a signed-out token still gets (Sessions), how *)
(* many sessions a login at the identity provider gives, and how many      *)
(* wrong passwords get past the limiter (SharedStore).                     *)
(***************************************************************************)
EXTENDS Login, FiniteSetTheorems, TLAPS

-----------------------------------------------------------------------------
(* Sessions: the inductive invariant.                                      *)

RequestType ==
  [op : Ops, pc : Checks \cup Handling, j : Jtis, target : Jtis,
   left : SUBSET Jtis, list : SUBSET Jtis, known : SUBSET Jtis,
   out : BOOLEAN, off : BOOLEAN]

SessionTypes ==
  /\ issued \subseteq Jtis /\ denied \subseteq Jtis /\ signedOut \subseteq issued
  /\ row \in [Jtis -> {"none", "live", "revoked"}]
  /\ \A j \in Jtis \ issued : row[j] = "none"
  /\ active \in BOOLEAN /\ upsets \in Nat
  /\ req \in [Requests -> RequestType \cup {NoRequest}]
  /\ \A p \in Requests : Running(p) =>
       /\ req[p].j \in issued /\ req[p].target \in issued
       /\ req[p].known \subseteq issued /\ req[p].list \subseteq issued
       /\ req[p].left \subseteq req[p].list

\* Both safeguards of a token that is out are in place, but for the writes
\* that failed.
Handled(j) ==
  /\ j \in denied \/ upsets >= 1
  /\ row[j] = "revoked" \/ upsets >= 1
  /\ j \in denied \/ row[j] = "revoked" \/ upsets >= 2

\* Somebody is at work on signing j out.
Busy(j) == \E q \in Requests : Running(q) /\ j \in req[q].list

\* The denylist knows j, or a write failed, or somebody will see to it.
Known(j) == j \in denied \/ upsets >= 1 \/ Busy(j)

AllAtWork == {"revokeAll", "denyAll"}

\* What holds of a request between its steps.
Work(p) ==
  LET q == req[p] IN
  /\ q.off => ~active /\ q.pc \notin Handling
  /\ q.out => Handled(q.j)
  /\ q.out /\ q.pc = "row" => upsets >= 1 /\ (row[q.j] = "revoked" \/ upsets >= 2)
  /\ q.out /\ q.pc \in Handling \cup {"user"} => upsets >= IF q.op = "mcp" THEN 1 ELSE 2
  /\ q.j \notin q.known
  /\ \A i \in q.known : row[i] # "none"
  /\ q.pc \in {"row", "denyIdle", "revokeIdle"} => q.op # "mcp"
  /\ q.pc \notin AllAtWork => q.list = {}
  /\ q.pc \in {"denyIdle", "revokeIdle"} => row[q.j] # "none"
  /\ q.pc = "revokeIdle" => q.j \in denied \/ upsets >= 1
  /\ q.pc = "revoke" =>
       q.target \in denied \/ upsets >= IF row[q.target] = "none" THEN 2 ELSE 1
  /\ q.pc \in AllAtWork =>
       /\ \A i \in q.known \ q.list : row[i] = "revoked"
       /\ \A i \in q.list : row[i] # "none"
       /\ \A i \in q.list \ q.left : row[i] = "revoked" \/ upsets >= 1
  /\ q.pc = "denyAll" =>
       /\ \A i \in q.list : row[i] = "revoked" \/ upsets >= 1
       /\ \A i \in q.list \ q.left : Handled(i)

SignedOff(j) ==
  /\ Known(j)
  /\ row[j] = "revoked" \/ upsets >= 1
  /\ j \in denied \/ row[j] = "revoked" \/ upsets >= 2

SessionInv ==
  /\ SessionTypes
  /\ \A p \in Requests : Running(p) => Work(p)
  /\ \A j \in issued : row[j] = "none" => upsets >= 1
  /\ \A j \in issued : row[j] = "revoked" => Known(j)
  /\ \A j \in signedOut : SignedOff(j)

\* Nothing that signs a token out is ever taken back.
Onward ==
  /\ issued \subseteq issued' /\ denied \subseteq denied'
  /\ upsets <= upsets' /\ (active' => active)
  /\ \A j \in Jtis : /\ row[j] = "revoked" => row'[j] = "revoked"
                     /\ row[j] # "none" => row'[j] # "none"

\* A step of the requests in S, or of what is around them, done right.
Moves(S) ==
  /\ SessionTypes' /\ Onward
  /\ \A p \in Requests \ S : req'[p] = req[p]
  /\ \A p \in S :
       /\ Running(p)' => Work(p)'
       /\ Running(p) => \A j \in req[p].list :
            j \in denied' \/ upsets' >= 1 \/ (Running(p)' /\ j \in req'[p].list)
  /\ \A j \in issued' \ issued :
       row'[j] # "revoked" /\ (row'[j] = "none" => upsets' >= 1)
  /\ \A j \in issued : row'[j] = "revoked" => row[j] = "revoked" \/ Known(j)'
  /\ \A j \in signedOut' \ signedOut : SignedOff(j)'

\* Whoever is known to be out, or at work on it, is so after the step.
LEMMA KnownStays ==
  ASSUME SessionInv, NEW S \in SUBSET Requests, Moves(S), NEW j, Known(j)
  PROVE  Known(j)'
<1>1. CASE j \in denied \/ upsets >= 1
  BY <1>1 DEF Known, Moves, Onward, SessionInv, SessionTypes
<1>2. ASSUME NEW q \in Requests, Running(q), j \in req[q].list PROVE Known(j)'
  <2>1. CASE q \in S
    BY <1>2, <2>1 DEF Known, Busy, Moves
  <2>2. CASE q \notin S
    BY <1>2, <2>2 DEF Known, Busy, Moves, Running
  <2>. QED BY <2>1, <2>2
<1>. QED BY <1>1, <1>2 DEF Known, Busy

LEMMA WorkStays ==
  ASSUME SessionInv, NEW S \in SUBSET Requests, Moves(S),
         NEW p \in Requests \ S, Running(p)
  PROVE  Work(p)'
<1>1. req'[p] = req[p] /\ req[p] \in RequestType /\ Work(p)
  BY DEF Moves, SessionInv, SessionTypes, Running
<1>. DEFINE q == req[p]
<1>2. /\ q.j \in Jtis /\ q.target \in Jtis
      /\ q.known \subseteq Jtis /\ q.list \subseteq Jtis
  BY <1>1 DEF RequestType
<1>3. upsets \in Nat /\ upsets' \in Nat
  BY DEF Moves, SessionInv, SessionTypes
<1>4. \A j \in Jtis : Handled(j) => Handled(j)'
  BY <1>3 DEF Handled, Moves, Onward
<1>. HIDE DEF q
<1>. QED BY <1>1, <1>2, <1>3, <1>4 DEF Work, q, Moves, Onward

LEMMA MovesInv ==
  ASSUME SessionInv, NEW S \in SUBSET Requests, Moves(S)
  PROVE  SessionInv'
<1>. USE DEF SessionInv
<1>1. SessionTypes'
  BY DEF Moves
<1>2. \A p \in Requests : Running(p)' => Work(p)'
  <2>. SUFFICES ASSUME NEW p \in Requests, Running(p)' PROVE Work(p)'
    OBVIOUS
  <2>1. CASE p \in S
    BY <2>1 DEF Moves
  <2>2. CASE p \notin S
    <3>1. Running(p)
      BY <2>2 DEF Running, Moves
    <3>. QED BY <2>2, <3>1, WorkStays
  <2>. QED BY <2>1, <2>2
<1>3. \A j \in issued' : row'[j] = "none" => upsets' >= 1
  BY DEF Moves, Onward, SessionTypes
<1>4. \A j \in issued' : row'[j] = "revoked" => Known(j)'
  BY KnownStays DEF Moves
<1>5. \A j \in signedOut' : SignedOff(j)'
  <2>. SUFFICES ASSUME NEW j \in signedOut, j \in signedOut' PROVE SignedOff(j)'
    BY DEF Moves
  <2>1. SignedOff(j) /\ j \in Jtis
    BY DEF SessionTypes
  <2>2. Known(j)'
    BY <2>1, KnownStays DEF SignedOff
  <2>. QED BY <2>1, <2>2 DEF SignedOff, Moves, Onward, SessionTypes
<1>. QED BY <1>1, <1>2, <1>3, <1>4, <1>5

-----------------------------------------------------------------------------
(* Sessions: each step keeps it.                                           *)

LEMMA RequestFields ==
  ASSUME SessionInv, NEW p \in Requests, Running(p)
  PROVE  /\ req[p] \in RequestType /\ Work(p)
         /\ req[p].j \in issued /\ req[p].target \in issued
         /\ req[p].known \subseteq issued /\ req[p].list \subseteq issued
         /\ req[p].left \subseteq req[p].list
BY DEF SessionInv, SessionTypes, Running

LEMMA Runs ==
  ASSUME NEW p \in Requests, req[p] \in RequestType
  PROVE  Running(p)
BY DEF RequestType, Running, NoRequest, Checks, Handling

\* A request that goes on changes its place alone.
LEMMA GotoFields ==
  ASSUME SessionInv, NEW p \in Requests, Running(p),
         NEW c \in Checks \cup Handling, Goto(p, c)
  PROVE  /\ req' \in [Requests -> RequestType \cup {NoRequest}]
         /\ Running(p)' /\ req'[p] \in RequestType /\ req'[p].pc = c
         /\ req'[p].op = req[p].op /\ req'[p].j = req[p].j
         /\ req'[p].target = req[p].target /\ req'[p].left = req[p].left
         /\ req'[p].list = req[p].list /\ req'[p].known = req[p].known
         /\ req'[p].out = req[p].out /\ req'[p].off = req[p].off
         /\ \A q \in Requests \ {p} : req'[q] = req[q]
<1>1. req[p] \in RequestType /\ req \in [Requests -> RequestType \cup {NoRequest}]
  BY RequestFields DEF SessionInv, SessionTypes
<1>. DEFINE new == [req[p] EXCEPT !.pc = c]
<1>2. req' = [req EXCEPT ![p] = new]
  BY DEF Goto
<1>3. /\ new \in RequestType /\ new.pc = c
      /\ new.op = req[p].op /\ new.j = req[p].j
      /\ new.target = req[p].target /\ new.left = req[p].left
      /\ new.list = req[p].list /\ new.known = req[p].known
      /\ new.out = req[p].out /\ new.off = req[p].off
  BY <1>1 DEF RequestType
<1>. HIDE DEF new
<1>4. /\ req'[p] = new /\ req' \in [Requests -> RequestType \cup {NoRequest}]
      /\ \A q \in Requests \ {p} : req'[q] = req[q]
  BY <1>1, <1>2, <1>3
<1>5. Running(p)'
  BY <1>3, <1>4 DEF RequestType, Running, NoRequest, Checks, Handling
<1>. QED BY <1>3, <1>4, <1>5

LEMMA EndFields ==
  ASSUME SessionInv, NEW p \in Requests, End(p)
  PROVE  /\ req' \in [Requests -> RequestType \cup {NoRequest}]
         /\ ~Running(p)'
         /\ \A q \in Requests \ {p} : req'[q] = req[q]
BY DEF SessionInv, SessionTypes, End, Running

\* Requests that did not move are typed as long as issued only grows.
LEMMA TypesKept ==
  ASSUME SessionInv, NEW p \in Requests, issued \subseteq issued',
         \A q \in Requests \ {p} : req'[q] = req[q],
         Running(p)' => /\ req'[p].j \in issued /\ req'[p].target \in issued
                        /\ req'[p].known \subseteq issued
                        /\ req'[p].list \subseteq issued
                        /\ req'[p].left \subseteq req'[p].list
  PROVE  \A q \in Requests : Running(q)' =>
           /\ req'[q].j \in issued' /\ req'[q].target \in issued'
           /\ req'[q].known \subseteq issued' /\ req'[q].list \subseteq issued'
           /\ req'[q].left \subseteq req'[q].list
<1>. SUFFICES ASSUME NEW q \in Requests, Running(q)'
     PROVE  /\ req'[q].j \in issued' /\ req'[q].target \in issued'
            /\ req'[q].known \subseteq issued' /\ req'[q].list \subseteq issued'
            /\ req'[q].left \subseteq req'[q].list
  OBVIOUS
<1>1. CASE q = p
  BY <1>1
<1>2. CASE q # p
  BY <1>2 DEF SessionInv, SessionTypes, Running
<1>. QED BY <1>1, <1>2

LEMMA EndMoves ==
  ASSUME SessionInv, NEW p \in Requests, Running(p), End(p),
         UNCHANGED <<issued, row, denied, active, signedOut>>,
         upsets' \in Nat, upsets <= upsets',
         req[p].pc \notin AllAtWork \/ upsets' >= 1
  PROVE  Moves({p})
<1>1. req[p].list = {} \/ upsets' >= 1
  BY RequestFields DEF Work
<1>2. SessionTypes'
  BY EndFields, TypesKept DEF SessionInv, SessionTypes
<1>. QED BY <1>1, <1>2, EndFields DEF Moves, Onward, SessionInv, SessionTypes

\* A step inside a request that leaves the rows alone.
LEMMA GotoMoves ==
  ASSUME SessionInv, NEW p \in Requests, Running(p),
         NEW c \in Checks \cup Handling, Goto(p, c),
         UNCHANGED <<issued, row, active, signedOut>>,
         denied \subseteq denied', denied' \subseteq Jtis,
         upsets' \in Nat, upsets <= upsets', Work(p)'
  PROVE  Moves({p})
<1>1. SessionTypes'
  BY GotoFields, RequestFields, TypesKept DEF SessionInv, SessionTypes
<1>. QED BY <1>1, GotoFields DEF Moves, Onward, SessionInv, SessionTypes

LEMMA CheckDeniedMoves ==
  ASSUME SessionInv, NEW p \in Requests, CheckDenied(p)
  PROVE  Moves({p})
<1>. USE DEF CheckDenied, At, SessionInv
<1>1. /\ Running(p) /\ req[p].pc = "denied" /\ Work(p)
      /\ req[p] \in RequestType /\ req[p].j \in Jtis /\ upsets \in Nat
  BY RequestFields DEF SessionTypes
<1>2. CASE End(p)
  BY <1>1, <1>2, EndMoves DEF AllAtWork
<1>3. CASE ~End(p)
  <2>. DEFINE c == IF req[p].op = "mcp" THEN "user" ELSE "row"
  <2>1. Goto(p, c) /\ c \in Checks /\ req[p].j \notin denied /\ UNCHANGED upsets
    BY <1>3 DEF Checks
  <2>2. Work(p)'
    BY <1>1, <2>1, GotoFields DEF Work, Handled, Checks, Handling, AllAtWork
  <2>. QED BY <1>1, <2>1, <2>2, GotoMoves DEF SessionTypes
<1>. QED BY <1>2, <1>3

LEMMA CheckRowMoves ==
  ASSUME SessionInv, NEW p \in Requests, CheckRow(p)
  PROVE  Moves({p})
<1>. USE DEF CheckRow, At, SessionInv
<1>1. /\ Running(p) /\ req[p].pc = "row" /\ Work(p)
      /\ req[p] \in RequestType /\ req[p].j \in Jtis /\ upsets \in Nat
  BY RequestFields DEF SessionTypes
<1>2. CASE End(p)
  BY <1>1, <1>2, EndMoves DEF AllAtWork
<1>3. ASSUME Goto(p, "denyIdle"), row[req[p].j] = "live", UNCHANGED upsets
      PROVE  Moves({p})
  <2>1. Work(p)'
    BY <1>1, <1>3, GotoFields DEF Work, Handled, Checks, Handling, AllAtWork
  <2>. QED BY <1>1, <1>3, <2>1, GotoMoves DEF SessionTypes, Checks
<1>4. ASSUME Goto(p, "user"), upsets' \in Nat, upsets <= upsets',
             row[req[p].j] # "revoked" \/ upsets' = upsets + 1
      PROVE  Moves({p})
  <2>1. Work(p)'
    BY <1>1, <1>4, GotoFields DEF Work, Handled, Checks, Handling, AllAtWork
  <2>. QED BY <1>1, <1>4, <2>1, GotoMoves DEF SessionTypes, Checks
<1>. QED BY <1>1, <1>2, <1>3, <1>4

LEMMA DenyIdleMoves ==
  ASSUME SessionInv, NEW p \in Requests, DenyIdle(p)
  PROVE  Moves({p})
<1>. USE DEF DenyIdle, At, SessionInv
<1>1. /\ Running(p) /\ req[p].pc = "denyIdle" /\ Work(p)
      /\ req[p] \in RequestType /\ req[p].j \in Jtis /\ upsets \in Nat
  BY RequestFields DEF SessionTypes
<1>2. /\ denied \subseteq denied' /\ denied' \subseteq Jtis
      /\ upsets' \in Nat /\ upsets <= upsets'
      /\ req[p].j \in denied' \/ upsets' >= 1
  BY <1>1 DEF Denied, SessionTypes
<1>3. Work(p)'
  BY <1>1, <1>2, GotoFields DEF Work, Handled, Checks, Handling, AllAtWork
<1>. QED BY <1>1, <1>2, <1>3, GotoMoves DEF Checks

LEMMA CheckUserMoves ==
  ASSUME SessionInv, NEW p \in Requests, CheckUser(p)
  PROVE  Moves({p})
<1>. USE DEF CheckUser, At, SessionInv
<1>1. /\ Running(p) /\ req[p].pc = "user" /\ Work(p)
      /\ req[p] \in RequestType /\ req[p].j \in Jtis /\ upsets \in Nat
  BY RequestFields DEF SessionTypes
<1>2. CASE End(p)
  BY <1>1, <1>2, EndMoves DEF AllAtWork
<1>3. CASE active /\ Goto(p, FirstStep(req[p].op))
  <2>. DEFINE c == FirstStep(req[p].op)
  <2>1. c \in {"admitted", "deny", "select", "issue"}
    BY <1>1 DEF FirstStep, RequestType, Ops
  <2>. HIDE DEF c
  <2>2. c \in Checks \cup Handling /\ Goto(p, c)
    BY <1>3, <2>1 DEF Handling, c
  <2>3. Work(p)'
    BY <1>1, <1>3, <2>1, <2>2, GotoFields DEF Work, Handled, Checks, Handling, AllAtWork
  <2>. QED BY <1>1, <2>2, <2>3, GotoMoves DEF SessionTypes
<1>. QED BY <1>2, <1>3

LEMMA ServeMoves ==
  ASSUME SessionInv, NEW p \in Requests, Serve(p)
  PROVE  Moves({p})
BY EndMoves DEF Serve, At, AllAtWork, SessionInv, SessionTypes

LEMMA StopMoves ==
  ASSUME SessionInv, NEW p \in Requests, Stop(p)
  PROVE  Moves({p})
BY EndMoves DEF Stop, SessionInv, SessionTypes

LEMMA DenyMoves ==
  ASSUME SessionInv, NEW p \in Requests, Deny(p)
  PROVE  Moves({p})
<1>. USE DEF Deny, At, SessionInv
<1>1. /\ Running(p) /\ req[p].pc = "deny" /\ Work(p)
      /\ req[p] \in RequestType /\ req[p].target \in issued /\ upsets \in Nat
  BY RequestFields DEF SessionTypes
<1>2. CASE End(p) /\ UNCHANGED <<denied, upsets>>
  BY <1>1, <1>2, EndMoves DEF AllAtWork
<1>3. CASE Denied(req[p].target) /\ Goto(p, "revoke")
  <2>1. /\ denied \subseteq denied' /\ denied' \subseteq Jtis
        /\ upsets' \in Nat /\ upsets <= upsets'
        /\ req[p].target \in denied' \/ upsets' = upsets + 1
    BY <1>1, <1>3 DEF Denied, SessionTypes
  <2>2. row[req[p].target] = "none" => upsets >= 1
    BY <1>1
  <2>3. Work(p)'
    BY <1>1, <1>3, <2>1, <2>2, GotoFields DEF Work, Handled, Checks, Handling, AllAtWork
  <2>. QED BY <1>1, <1>3, <2>1, <2>3, GotoMoves DEF Handling
<1>. QED BY <1>2, <1>3

\* The row of j is revoked if there is one and the write works.
LEMMA RowFields ==
  ASSUME SessionInv, NEW j \in issued, RowRevoked(j)
  PROVE  /\ row' \in [Jtis -> {"none", "live", "revoked"}]
         /\ \A i \in Jtis : /\ i # j => row'[i] = row[i]
                            /\ row[i] = "none" <=> row'[i] = "none"
                            /\ row[i] = "revoked" => row'[i] = "revoked"
         /\ upsets \in Nat /\ upsets' \in Nat /\ upsets <= upsets'
         /\ row'[j] = "revoked" \/ upsets' >= 1
         /\ row'[j] = "revoked" \/ upsets' = upsets + 1 \/ row[j] = "none"
BY DEF RowRevoked, RowSet, SessionInv, SessionTypes

\* A token whose entry in the denylist came first is signed out with its row.
LEMMA RevokedLast ==
  ASSUME SessionInv, NEW p \in Requests, Running(p), req[p].pc \notin AllAtWork,
         NEW j \in issued, RowRevoked(j), End(p),
         j \in denied \/ upsets >= IF row[j] = "none" THEN 2 ELSE 1,
         signedOut' = signedOut \cup {j},
         UNCHANGED <<issued, denied, active>>
  PROVE  Moves({p})
<1>1. req[p].list = {} /\ j \in Jtis /\ upsets \in Nat
  BY RequestFields DEF Work, SessionInv, SessionTypes
<1>2. SessionTypes'
  BY RowFields, EndFields, TypesKept DEF SessionInv, SessionTypes
<1>3. j \in denied' \/ upsets' >= 1
  BY RowFields, <1>1
<1>4. SignedOff(j)'
  BY RowFields, <1>1, <1>3 DEF SignedOff, Known
<1>5. \A i \in issued : row'[i] = "revoked" => row[i] = "revoked" \/ Known(i)'
  BY RowFields, <1>3 DEF Known, SessionInv, SessionTypes
<1>. QED BY <1>1, <1>2, <1>4, <1>5, RowFields, EndFields DEF Moves, Onward, SessionTypes

LEMMA RevokeIdleMoves ==
  ASSUME SessionInv, NEW p \in Requests, RevokeIdle(p)
  PROVE  Moves({p})
BY RequestFields, RevokedLast DEF RevokeIdle, At, Work, AllAtWork

LEMMA RevokeMoves ==
  ASSUME SessionInv, NEW p \in Requests, Revoke(p)
  PROVE  Moves({p})
BY RequestFields, RevokedLast DEF Revoke, At, Work, AllAtWork

\* AllOut, once every token of the list has been seen to.
LEMMA AllOutMoves ==
  ASSUME SessionInv, NEW p \in Requests, Running(p), AllOut(p),
         UNCHANGED <<issued, row, active>>,
         denied \subseteq denied', denied' \subseteq Jtis,
         upsets' \in Nat, upsets <= upsets',
         \A i \in req[p].list : Handled(i)',
         \A i \in req[p].known \ req[p].list : row[i] = "revoked"
  PROVE  Moves({p})
<1>1. /\ req[p].list \subseteq issued /\ req[p].known \subseteq issued
      /\ upsets \in Nat /\ issued \subseteq Jtis /\ signedOut \subseteq issued
  BY RequestFields DEF SessionInv, SessionTypes
<1>2. SessionTypes'
  BY <1>1, EndFields, TypesKept DEF AllOut, SessionInv, SessionTypes
<1>3. ASSUME NEW i \in req[p].known PROVE SignedOff(i)'
  <2>1. CASE i \in req[p].list
    BY <2>1 DEF Handled, SignedOff, Known
  <2>2. CASE i \notin req[p].list
    <3>1. row[i] = "revoked" /\ row'[i] = "revoked" /\ Known(i)
      BY <1>1, <2>2 DEF SessionInv
    <3>2. Known(i)'
      <4>1. CASE i \in denied \/ upsets >= 1
        BY <1>1, <4>1 DEF Known
      <4>2. ASSUME NEW q \in Requests, Running(q), i \in req[q].list PROVE Known(i)'
        BY <2>2, <4>2, EndFields DEF AllOut, Known, Busy, Running
      <4>. QED BY <3>1, <4>1, <4>2 DEF Known, Busy
    <3>. QED BY <3>1, <3>2 DEF SignedOff
  <2>. QED BY <2>1, <2>2
<1>. QED BY <1>1, <1>2, <1>3, EndFields DEF Moves, Onward, AllOut, Handled

\* The tokens revoke-others has selected become the list.
LEMMA SelectMoves ==
  ASSUME SessionInv, NEW p \in Requests, Select(p)
  PROVE  Moves({p})
<1>. DEFINE live == { j \in issued : row[j] = "live" } \ {req[p].j}
<1>1. /\ Running(p) /\ req[p].pc = "select"
      /\ UNCHANGED <<issued, row, denied, idle, touching, active, upsets>>
  BY Zenon DEF Select, At
<1>2. /\ Work(p) /\ req[p].list = {}
      /\ req[p] \in RequestType /\ req[p].j \in issued /\ req[p].target \in issued
      /\ req[p].known \subseteq issued /\ upsets \in Nat /\ issued \subseteq Jtis
      /\ denied \subseteq Jtis /\ signedOut \subseteq issued
  BY <1>1, RequestFields DEF SessionInv, SessionTypes, Work, AllAtWork
<1>3. \A i \in req[p].known \ live : row[i] = "revoked"
  BY <1>2 DEF Work, SessionInv, SessionTypes
<1>4. CASE live = {} /\ AllOut(p)
  BY <1>1, <1>2, <1>3, <1>4, AllOutMoves
<1>5. live \subseteq issued /\ \A i \in live : row[i] = "live"
  OBVIOUS
<1>. HIDE DEF live
<1>. DEFINE new == [req[p] EXCEPT !.pc = "revokeAll", !.left = live, !.list = live]
<1>6. CASE req' = [req EXCEPT ![p] = new] /\ UNCHANGED signedOut
  <2>1. /\ new \in RequestType /\ new.pc = "revokeAll" /\ new.left = live /\ new.list = live
        /\ new.op = req[p].op /\ new.j = req[p].j /\ new.target = req[p].target
        /\ new.known = req[p].known /\ new.out = req[p].out /\ new.off = req[p].off
    BY <1>2, <1>5 DEF RequestType, Handling
  <2>. HIDE DEF new
  <2>2. /\ req'[p] = new /\ req' \in [Requests -> RequestType \cup {NoRequest}]
        /\ \A q \in Requests \ {p} : req'[q] = req[q]
    BY <1>6, <2>1 DEF SessionInv, SessionTypes
  <2>3. Work(p)'
    BY <1>1, <1>2, <1>3, <1>5, <2>1, <2>2 DEF Work, Handled, AllAtWork, Handling
  <2>4. SessionTypes'
    BY <1>1, <1>2, <1>5, <1>6, <2>1, <2>2, TypesKept DEF SessionInv, SessionTypes
  <2>. QED BY <1>1, <1>2, <1>6, <2>2, <2>3, <2>4 DEF Moves, Onward
<1>. QED BY <1>4, <1>6 DEF Select, live

\* The next token of the list loses its row.
LEMMA RevokeNextMoves ==
  ASSUME SessionInv, NEW p \in Requests, RevokeNext(p)
  PROVE  Moves({p})
<1>1. /\ Running(p) /\ req[p].pc = "revokeAll"
      /\ UNCHANGED <<issued, denied, idle, touching, active, signedOut>>
  BY Zenon DEF RevokeNext, At
<1>2. /\ Work(p) /\ req[p].list \subseteq issued /\ req[p].left \subseteq req[p].list
      /\ req[p] \in RequestType /\ req[p].j \in issued /\ req[p].target \in issued
      /\ req[p].known \subseteq issued /\ upsets \in Nat /\ issued \subseteq Jtis
      /\ denied \subseteq Jtis /\ signedOut \subseteq issued
  BY <1>1, RequestFields DEF SessionInv, SessionTypes
<1>3. PICK j \in req[p].left :
        /\ RowRevoked(j)
        /\ req' = [req EXCEPT ![p] =
             IF req[p].left = {j}
             THEN [@ EXCEPT !.pc = "denyAll", !.left = req[p].list]
             ELSE [@ EXCEPT !.left = req[p].left \ {j}]]
  BY Zenon DEF RevokeNext
<1>. DEFINE new == IF req[p].left = {j}
                   THEN [req[p] EXCEPT !.pc = "denyAll", !.left = req[p].list]
                   ELSE [req[p] EXCEPT !.left = req[p].left \ {j}]
<1>4. /\ new \in RequestType
      /\ new.op = req[p].op /\ new.j = req[p].j /\ new.target = req[p].target
      /\ new.known = req[p].known /\ new.out = req[p].out /\ new.off = req[p].off
      /\ new.list = req[p].list
      /\ \/ new.pc = "denyAll" /\ req[p].left = {j} /\ new.left = new.list
         \/ new.pc = "revokeAll" /\ new.left = req[p].left \ {j}
  BY <1>1, <1>2 DEF RequestType, Handling
<1>. HIDE DEF new
<1>5. /\ req'[p] = new /\ req' \in [Requests -> RequestType \cup {NoRequest}]
      /\ \A q \in Requests \ {p} : req'[q] = req[q]
  <2>1. req' = [req EXCEPT ![p] = new]
    BY Zenon, <1>3 DEF new
  <2>. QED BY <2>1, <1>4 DEF SessionInv, SessionTypes
<1>6. Running(p)'
  BY <1>4, <1>5 DEF RequestType, Running, NoRequest, Checks, Handling
<1>7. /\ j \in issued /\ j \in req'[p].list
      /\ row' \in [Jtis -> {"none", "live", "revoked"}]
      /\ \A i \in Jtis : /\ i # j => row'[i] = row[i]
                         /\ row[i] = "none" <=> row'[i] = "none"
                         /\ row[i] = "revoked" => row'[i] = "revoked"
      /\ upsets' \in Nat /\ upsets <= upsets'
      /\ row'[j] = "revoked" \/ upsets' >= 1
  BY <1>2, <1>3, <1>4, <1>5, RowFields
<1>8. Known(j)'
  BY <1>6, <1>7 DEF Known, Busy
<1>9. Work(p)'
  BY <1>1, <1>2, <1>4, <1>5, <1>7 DEF Work, Handled, AllAtWork, Handling
<1>10. SessionTypes'
  BY <1>1, <1>2, <1>4, <1>5, <1>7, TypesKept DEF SessionInv, SessionTypes
<1>. QED BY <1>1, <1>2, <1>4, <1>5, <1>6, <1>7, <1>8, <1>9, <1>10 DEF Moves, Onward

\* The next token of the list enters the denylist.
LEMMA DenyNextMoves ==
  ASSUME SessionInv, NEW p \in Requests, DenyNext(p)
  PROVE  Moves({p})
<1>1. /\ Running(p) /\ req[p].pc = "denyAll"
      /\ UNCHANGED <<issued, row, idle, touching, active>>
  BY Zenon DEF DenyNext, At
<1>2. /\ Work(p) /\ req[p].list \subseteq issued /\ req[p].left \subseteq req[p].list
      /\ req[p] \in RequestType /\ req[p].j \in issued /\ req[p].target \in issued
      /\ req[p].known \subseteq issued /\ upsets \in Nat /\ issued \subseteq Jtis
      /\ denied \subseteq Jtis /\ signedOut \subseteq issued
  BY <1>1, RequestFields DEF SessionInv, SessionTypes
<1>. DEFINE next(j) == [req[p] EXCEPT !.left = @ \ {j}]
<1>3. PICK j \in req[p].left :
        /\ Denied(j)
        /\ \/ req[p].left = {j} /\ AllOut(p)
           \/ req' = [req EXCEPT ![p] = next(j)] /\ UNCHANGED signedOut
  BY Zenon DEF DenyNext
<1>. DEFINE new == next(j)
<1>4. /\ j \in issued /\ denied \subseteq denied' /\ denied' \subseteq Jtis
      /\ upsets' \in Nat /\ upsets <= upsets'
      /\ j \in denied' \/ upsets' = upsets + 1
  BY <1>2, <1>3 DEF Denied
<1>5. Handled(j)' /\ \A i \in req[p].list \ req[p].left : Handled(i)'
  BY <1>1, <1>2, <1>4 DEF Work, Handled
<1>6. CASE req[p].left = {j} /\ AllOut(p)
  BY <1>1, <1>2, <1>4, <1>5, <1>6, AllOutMoves DEF Work, AllAtWork
<1>7. CASE req' = [req EXCEPT ![p] = new] /\ UNCHANGED signedOut
  <2>1. /\ new \in RequestType
        /\ new.op = req[p].op /\ new.j = req[p].j /\ new.target = req[p].target
        /\ new.known = req[p].known /\ new.out = req[p].out /\ new.off = req[p].off
        /\ new.list = req[p].list /\ new.pc = "denyAll" /\ new.left = req[p].left \ {j}
    BY <1>1, <1>2 DEF RequestType
  <2>. HIDE DEF new
  <2>2. /\ req'[p] = new /\ req' \in [Requests -> RequestType \cup {NoRequest}]
        /\ \A q \in Requests \ {p} : req'[q] = req[q]
    BY <1>7, <2>1 DEF SessionInv, SessionTypes
  <2>3. Running(p)'
    BY <2>1, <2>2 DEF RequestType, Running, NoRequest, Checks, Handling
  <2>4. Work(p)'
    BY <1>1, <1>2, <1>4, <1>5, <2>1, <2>2 DEF Work, Handled, AllAtWork, Handling
  <2>5. SessionTypes'
    BY <1>1, <1>2, <1>4, <1>7, <2>1, <2>2, TypesKept DEF SessionInv, SessionTypes
  <2>. QED BY <1>1, <1>2, <1>4, <1>7, <2>1, <2>2, <2>3, <2>4, <2>5 DEF Moves, Onward
<1>. QED BY <1>3, <1>6, <1>7

\* A token is issued, with its row if that write works.
LEMMA IssueFields ==
  ASSUME SessionInv, NEW j \in Jtis, Issue(j)
  PROVE  /\ j \notin issued /\ issued' = issued \cup {j}
         /\ row' \in [Jtis -> {"none", "live", "revoked"}]
         /\ \A i \in Jtis \ {j} : row'[i] = row[i]
         /\ row[j] = "none" /\ row'[j] # "revoked"
         /\ row'[j] = "none" => upsets' >= 1
         /\ upsets' \in Nat /\ upsets <= upsets'
BY DEF Issue, RowSet, SessionInv, SessionTypes

LEMMA SignInMoves ==
  ASSUME SessionInv, NEW j \in Jtis, Issue(j),
         UNCHANGED <<denied, active, req, signedOut>>
  PROVE  Moves({})
<1>1. SessionTypes'
  BY IssueFields DEF SessionInv, SessionTypes, Running
<1>. QED BY <1>1, IssueFields DEF Moves, Onward, SessionInv, SessionTypes

LEMMA RefreshMoves ==
  ASSUME SessionInv, NEW p \in Requests, Refresh(p)
  PROVE  Moves({p})
<1>1. /\ Running(p) /\ req[p].pc = "issue" /\ UNCHANGED <<denied, active, signedOut>>
      /\ Work(p) /\ req[p] \in RequestType /\ upsets \in Nat /\ denied \subseteq Jtis
      /\ req[p].j \in Jtis /\ req[p].known \subseteq issued /\ issued \subseteq Jtis
      /\ req[p].list = {}
  BY RequestFields DEF Refresh, At, SessionInv, SessionTypes, Work, AllAtWork
<1>2. CASE End(p) /\ UNCHANGED <<issued, row, upsets>>
  BY <1>1, <1>2, EndMoves DEF AllAtWork
<1>3. ASSUME NEW j \in Jtis, Issue(j), Goto(p, "deny") PROVE Moves({p})
  <2>1. SessionTypes'
    BY <1>1, <1>3, IssueFields, GotoFields, RequestFields, TypesKept
       DEF Handling, SessionInv, SessionTypes
  <2>2. Work(p)'
    BY <1>1, <1>3, IssueFields, GotoFields DEF Work, Handled, Checks, Handling, AllAtWork
  <2>3. Onward
    BY <1>1, <1>3, IssueFields DEF Onward
  <2>. QED BY <1>1, <1>3, <2>1, <2>2, <2>3, IssueFields, GotoFields
           DEF Moves, SessionInv, SessionTypes, Handling
<1>. QED BY <1>2, <1>3 DEF Refresh

\* What a request that starts may count on about its own token.
LEMMA StartMoves ==
  ASSUME SessionInv, NEW p \in Requests, NEW op, NEW j, NEW target, Start(p, op, j, target)
  PROVE  Moves({p})
<1>. DEFINE new == [op |-> op, pc |-> "denied", j |-> j, target |-> target,
                    left |-> {}, list |-> {},
                    known |-> { i \in issued : row[i] # "none" } \ {j},
                    out |-> j \in signedOut /\ Settled(j), off |-> ~active]
<1>1. /\ ~Running(p) /\ op \in Ops /\ j \in issued /\ target \in issued
      /\ req' = [req EXCEPT ![p] = new]
      /\ UNCHANGED <<issued, row, denied, idle, touching, active, signedOut, upsets>>
  BY DEF Start
<1>2. /\ issued \subseteq Jtis /\ denied \subseteq Jtis /\ active \in BOOLEAN
      /\ req \in [Requests -> RequestType \cup {NoRequest}] /\ upsets \in Nat
  BY DEF SessionInv, SessionTypes
<1>3. /\ new.op = op /\ new.pc = "denied" /\ new.j = j /\ new.target = target
      /\ new.left = {} /\ new.list = {} /\ new.off = ~active
      /\ new.out = (j \in signedOut /\ Settled(j))
      /\ new.known \subseteq issued /\ j \notin new.known
      /\ \A i \in new.known : row[i] # "none"
  OBVIOUS
<1>4. new \in RequestType
  <2>1. /\ new.out \in BOOLEAN /\ new.off \in BOOLEAN
        /\ new.known \in SUBSET Jtis
    BY <1>2, <1>3
  <2>. QED BY <1>1, <1>2, <2>1 DEF RequestType, Checks
<1>. HIDE DEF new
<1>5. /\ req'[p] = new /\ req' \in [Requests -> RequestType \cup {NoRequest}]
      /\ \A q \in Requests \ {p} : req'[q] = req[q]
  BY <1>1, <1>2, <1>4
<1>6. new.out => Handled(j)
  BY <1>3 DEF Settled, SessionInv, SignedOff, Known, Busy, Handled
<1>7. Work(p)'
  BY <1>1, <1>3, <1>5, <1>6 DEF Work, Handled, AllAtWork, Handling
<1>8. SessionTypes'
  BY <1>1, <1>3, <1>5, TypesKept DEF SessionInv, SessionTypes
<1>. QED BY <1>1, <1>2, <1>5, <1>7, <1>8 DEF Moves, Onward

\* Around the requests, nothing that matters changes.
LEMMA AroundMoves ==
  ASSUME SessionInv,
         UNCHANGED <<issued, row, denied, req, signedOut, upsets>>,
         active' \in BOOLEAN, active' => active
  PROVE  Moves({})
<1>1. SessionTypes'
  BY DEF SessionInv, SessionTypes, Running
<1>. QED BY <1>1 DEF Moves, Onward, SessionInv, SessionTypes

LEMMA RequestStepMoves ==
  ASSUME SessionInv, NEW p \in Requests, RequestStep(p) \/ Stop(p)
  PROVE  Moves({p})
BY CheckDeniedMoves, CheckRowMoves, DenyIdleMoves, RevokeIdleMoves, CheckUserMoves,
   ServeMoves, DenyMoves, RevokeMoves, SelectMoves, RevokeNextMoves, DenyNextMoves,
   RefreshMoves, StopMoves DEF RequestStep

LEMMA SessionInitInv ==
  ASSUME NEW S \in SUBSET Jtis, SessionsInit(S)
  PROVE  SessionInv
BY DEF SessionsInit, SessionInv, SessionTypes, Running, NoRequest

LEMMA SessionNextInv == SessionInv /\ [Next]_vars => SessionInv'
<1>. SUFFICES ASSUME SessionInv, [Next]_vars PROVE SessionInv'
  OBVIOUS
<1>1. CASE UNCHANGED sessionVars
  BY <1>1, AroundMoves, MovesInv DEF sessionVars, SessionInv, SessionTypes
<1>2. ASSUME NEW j \in Jtis, SignIn(j) PROVE SessionInv'
  BY <1>2, SignInMoves, MovesInv DEF SignIn
<1>3. ASSUME NEW a \in Attempts, Attempt(a) PROVE SessionInv'
  <2>1. CASE PreBlock(a)
    <3>1. UNCHANGED <<sessionVars, failures, crossed, ssoVars>>
      BY Zenon, <2>1 DEF PreBlock
    <3>. QED BY <1>1, <3>1
  <2>2. CASE ~PreBlock(a)
    BY <1>1, <1>2, <1>3, <2>2 DEF Attempt, StartAttempt, Verify, RecordIp, RecordEmail,
                                  ClearIp, ClearEmail, PasswordToken
  <2>. QED BY <2>1, <2>2
<1>4. ASSUME SingleSignOn PROVE SessionInv'
  <2>1. ASSUME NEW c \in Callbacks, exchange(c) PROVE SessionInv'
    BY <1>1, <1>2, <2>1 DEF exchange, sessionVars
  <2>2. ASSUME ~(\E c \in Callbacks : exchange(c)) PROVE SessionInv'
    BY <1>1, <1>4, <2>2 DEF SingleSignOn, oauthStart, StartCallback, oauthCallback,
                            StartExchange, Expire
  <2>. QED BY <2>1, <2>2
<1>5. ASSUME StartRequest PROVE SessionInv'
  BY <1>5, StartMoves, MovesInv DEF StartRequest
<1>6. ASSUME NEW p \in Requests, Request(p) PROVE SessionInv'
  BY <1>6, RequestStepMoves, MovesInv DEF Request
<1>7. ASSUME NEW j \in Jtis, Clock(j) PROVE SessionInv'
  BY <1>7, AroundMoves, MovesInv DEF Clock, Touch, Lapse, SessionInv, SessionTypes
<1>8. CASE Disabled
  BY <1>8, AroundMoves, MovesInv DEF Disabled, Disable
<1>9. ASSUME NEW r \in Replicas, Outage(r) \/ Recovery(r) PROVE SessionInv'
  BY <1>1, <1>9 DEF Outage, Recovery
<1>10. CASE UNCHANGED vars
  BY <1>1, <1>10 DEF vars
<1>. QED BY <1>3, <1>4, <1>5, <1>6, <1>7, <1>8, <1>9, <1>10 DEF Next

\* Every request's standing with the denylist, the rows and the account is
\* what Work says, at every point between two awaits (auth/plugin.ts,
\* auth.routes.ts).
THEOREM SessionInvariance == Spec => []SessionInv
<1>1. Init => SessionInv
  BY SessionInitInv DEF Init
<1>. QED BY <1>1, SessionNextInv, PTL DEF Spec

\* A token somebody was told is signed out is served again only where two
\* of its safeguards failed (one, for the MCP and A2A endpoints), and a
\* disabled account never.
THEOREM SignedOutTokens == Spec => []SignedOutStaysOut
<1>1. SessionInv => SignedOutStaysOut
  BY DEF SessionInv, SignedOutStaysOut, Work
<1>. QED BY <1>1, SessionInvariance, PTL

-----------------------------------------------------------------------------
(* The stores: what a command may come to, and the types.                  *)

StoreType == [count : [Keys -> Nat], kv : SUBSET Values]

AttemptType ==
  [pc : {"peek", "verify", "failIp", "failEmail", "clearIp", "clearEmail", "issue"},
   r : Replicas, email : Emails, ok : BOOLEAN, via : {"none", "redis", "memory"}]

CallbackType ==
  [pc : {"take"}, r : Replicas, v : Values] \cup [pc : {"issue"}, r : {None}, v : Values]

Types ==
  /\ StoreTypeOK
  /\ attempt \in [Attempts -> AttemptType \cup {None}]
  /\ callback \in [Callbacks -> CallbackType \cup {None}]
  /\ failures \in Nat /\ crossed \in Nat
  /\ codes \in [Values -> Nat] /\ logins \in [Values -> Nat]

LEMMA StoresTyped ==
  ASSUME StoreTypeOK, NEW r \in Replicas
  PROVE  shared \in StoreType /\ local[r] \in StoreType
BY DEF StoreTypeOK, StoreType

LEMMA IncrFields ==
  ASSUME NEW s \in StoreType, NEW k \in Keys
  PROVE  /\ incr(s, k).store \in StoreType
         /\ incr(s, k).store.kv = s.kv
         /\ incr(s, k).store.count[k] = s.count[k] + 1
         /\ \A i \in Keys \ {k} : incr(s, k).store.count[i] = s.count[i]
<1>. DEFINE t == [s EXCEPT !.count[k] = @ + 1]
<1>1. t = [s EXCEPT !.count = [s.count EXCEPT ![k] = s.count[k] + 1]]
  BY DEF StoreType
<1>. QED BY <1>1 DEF StoreType, incr

LEMMA KvFields ==
  ASSUME NEW s \in StoreType, NEW v \in Values
  PROVE  /\ take(s, v).store \in StoreType /\ set(s, v).store \in StoreType
         /\ take(s, v).store.count = s.count /\ set(s, v).store.count = s.count
         /\ take(s, v).store.kv = s.kv \ {v} /\ set(s, v).store.kv = s.kv \cup {v}
         /\ take(s, v).out = (v \in s.kv)
BY DEF StoreType, take, set

LEMMA ClearFields ==
  ASSUME NEW s \in StoreType, NEW k \in Keys
  PROVE  /\ without(s, k) \in StoreType
         /\ without(s, k).kv = s.kv
         /\ without(s, k).count[k] = 0
         /\ \A i \in Keys \ {k} : without(s, k).count[i] = s.count[i]
BY DEF StoreType, without

\* Any command leaves typed stores and touches the memory of one replica.
LEMMA SettleFields ==
  ASSUME StoreTypeOK, NEW r \in Replicas, NEW o, Settle(r, o),
         o.shared \in StoreType, o.mine \in StoreType, o.open \in BOOLEAN
  PROVE  /\ StoreTypeOK'
         /\ shared' = o.shared /\ local'[r] = o.mine
         /\ \A q \in Replicas \ {r} : local'[q] = local[q]
BY DEF StoreTypeOK, StoreType, Settle

LEMMA CountStep ==
  ASSUME StoreTypeOK, NEW r \in Replicas, NEW k \in Keys, NEW f,
         NEW o \in run(r, incr(shared, k), incr(local[r], k), f), Settle(r, o)
  PROVE  /\ StoreTypeOK'
         /\ shared'.kv = shared.kv /\ \A q \in Replicas : local'[q].kv = local[q].kv
         /\ \A i \in Keys \ {k} : /\ shared'.count[i] = shared.count[i]
                                 /\ \A q \in Replicas : local'[q].count[i] = local[q].count[i]
         /\ \A q \in Replicas \ {r} : local'[q] = local[q]
         /\ \/ /\ o.via = "redis"
               /\ shared'.count[k] = shared.count[k] + 1 /\ local'[r] = local[r]
            \/ /\ o.via = "memory"
               /\ shared'.count[k] \in {shared.count[k], shared.count[k] + 1}
               /\ local'[r].count[k] = local[r].count[k] + 1
<1>. DEFINE A == incr(shared, k)
            B == incr(local[r], k)
<1>1. shared \in StoreType /\ local[r] \in StoreType
  BY StoresTyped
<1>2. A.store \in StoreType /\ B.store \in StoreType
  BY <1>1, IncrFields
<1>. HIDE DEF A, B
<1>3. \/ /\ o.via = "redis" /\ o.shared = A.store /\ o.mine = local[r] /\ o.open = FALSE
      \/ /\ o.via = "memory" /\ o.shared \in {shared, A.store} /\ o.mine = B.store /\ o.open = TRUE
  BY DEF run, A, B
<1>4. /\ StoreTypeOK'
      /\ shared' = o.shared /\ local'[r] = o.mine
      /\ \A q \in Replicas \ {r} : local'[q] = local[q]
  BY <1>1, <1>2, <1>3, SettleFields
<1>5. /\ A.store.kv = shared.kv /\ A.store.count[k] = shared.count[k] + 1
      /\ \A i \in Keys \ {k} : A.store.count[i] = shared.count[i]
      /\ B.store.kv = local[r].kv /\ B.store.count[k] = local[r].count[k] + 1
      /\ \A i \in Keys \ {k} : B.store.count[i] = local[r].count[i]
  BY <1>1, IncrFields DEF A, B
<1>. QED BY <1>3, <1>4, <1>5

LEMMA PeekStep ==
  ASSUME StoreTypeOK, NEW r \in Replicas, NEW k \in Keys, NEW f,
         NEW o \in run(r, peek(shared, k), peek(local[r], k), f), Settle(r, o)
  PROVE  /\ shared' = shared /\ local' = local /\ StoreTypeOK'
         /\ \/ o.via = "redis" /\ o.out = shared.count[k]
            \/ o.via = "memory" /\ o.out = local[r].count[k]
<1>1. shared \in StoreType /\ local[r] \in StoreType
  BY StoresTyped
<1>. DEFINE A == peek(shared, k)
            B == peek(local[r], k)
<1>2. /\ A.store = shared /\ A.out = shared.count[k]
      /\ B.store = local[r] /\ B.out = local[r].count[k]
  BY DEF peek
<1>. HIDE DEF A, B
<1>3. \/ /\ o.via = "redis" /\ o.shared = A.store /\ o.mine = local[r]
         /\ o.open = FALSE /\ o.out = A.out
      \/ /\ o.via = "memory" /\ o.shared \in {shared, A.store} /\ o.mine = B.store
         /\ o.open = TRUE /\ o.out = B.out
  BY DEF run, A, B
<1>4. StoreTypeOK'
  BY <1>1, <1>2, <1>3, SettleFields
<1>5. shared' = shared /\ local' = local
  BY <1>2, <1>3 DEF Settle, StoreTypeOK
<1>. QED BY <1>2, <1>3, <1>4, <1>5

LEMMA ClearStep ==
  ASSUME StoreTypeOK, NEW r \in Replicas, NEW k \in Keys, NEW f,
         NEW o \in del(r, k, f), Settle(r, o)
  PROVE  /\ StoreTypeOK'
         /\ shared'.kv = shared.kv /\ \A q \in Replicas : local'[q].kv = local[q].kv
         /\ \A i \in Keys \ {k} : /\ shared'.count[i] = shared.count[i]
                                 /\ \A q \in Replicas : local'[q].count[i] = local[q].count[i]
         /\ \A q \in Replicas \ {r} : local'[q] = local[q]
         /\ local'[r].count[k] = 0
<1>. DEFINE A == without(shared, k)
            B == without(local[r], k)
<1>1. shared \in StoreType /\ local[r] \in StoreType
  BY StoresTyped
<1>. HIDE DEF A, B
<1>2. o.shared \in {shared, A} /\ o.mine = B /\ (o.open = TRUE \/ o.open = FALSE)
  BY DEF del, A, B
<1>3. /\ A \in StoreType /\ B \in StoreType
      /\ A.kv = shared.kv /\ \A i \in Keys \ {k} : A.count[i] = shared.count[i]
      /\ B.kv = local[r].kv /\ \A i \in Keys \ {k} : B.count[i] = local[r].count[i]
      /\ B.count[k] = 0
  BY <1>1, ClearFields DEF A, B
<1>4. /\ StoreTypeOK'
      /\ shared' = o.shared /\ local'[r] = o.mine
      /\ \A q \in Replicas \ {r} : local'[q] = local[q]
  BY <1>1, <1>2, <1>3, SettleFields
<1>. QED BY <1>2, <1>3, <1>4

-----------------------------------------------------------------------------
(* Single sign-on and the limiter: the inductive invariants.               *)

\* The exchanges about to give a session for login v, and its spent codes.
Pending(v) ==
  { c \in Callbacks : callback[c] # None /\ callback[c].pc = "issue" /\ callback[c].v = v }
Spent(v) == { n \in 1..codes[v] : <<v, n>> \in used }

InMemory(v) == \E r \in Replicas : v \in local[r].kv

\* Every copy of a pending login is taken once, every code is spent once.
Copies(v) == (IF v \in shared.kv THEN 1 ELSE 0) + (IF InMemory(v) THEN 1 ELSE 0)
OneMemory(v) == \A q, r \in Replicas : v \in local[q].kv /\ v \in local[r].kv => q = r

OnceInv ==
  \A v \in Values :
    /\ codes[v] + Copies(v) <= IF v \in torn THEN 2 ELSE 1
    /\ OneMemory(v)
    /\ IsFiniteSet(Pending(v))
    /\ logins[v] + Cardinality(Pending(v)) <= Cardinality(Spent(v))

Bound == MaxAttempts + Cardinality(Attempts) - 1

\* The attempts one store has let through and not yet counted.
Admitted(via) ==
  { a \in Attempts : /\ attempt[a] # None /\ attempt[a].pc \in {"verify", "failIp"}
                     /\ attempt[a].via = via }
AdmittedBy(r) == { a \in Admitted("memory") : attempt[a].r = r }

Marks(f) == { m \in Replicas \X (1..failures) : m[2] <= f[m[1]] }
CountingReplicas == { r \in Replicas : local[r].count[IpKey] > 0 }

\* Each failed attempt since the address was cleared is put down to the store
\* that looked it up and counted it, f[r] to the memory of r and g to Redis;
\* only those that crossed over are not.
PutDown(f, g) ==
  /\ IsFiniteSet(Marks(f)) /\ failures = Cardinality(Marks(f)) + g + crossed
  /\ \A r \in Replicas : /\ f[r] <= local[r].count[IpKey]
                         /\ f[r] + Cardinality(AdmittedBy(r)) <= Bound
  /\ g <= shared.count[IpKey]
  /\ g + Cardinality(Admitted("redis")) <= Bound

BoundInv ==
  /\ IsFiniteSet(CountingReplicas)
  /\ \E f \in [Replicas -> 0..failures], g \in 0..failures : PutDown(f, g)

LEMMA TypesInit == Init => Types
<1>. SUFFICES ASSUME Init PROVE Types
  OBVIOUS
<1>1. StoreTypeOK
  BY DEF Init, StoreInit, StoreTypeOK, EmptyStore
<1>. QED BY <1>1 DEF Init, Types

\* A password attempt goes on, or gets its answer.
LEMMA AttemptGoesOn ==
  ASSUME Types, NEW a \in Attempts, NEW p, attempt[a] # None,
         p \in {"peek", "verify", "failIp", "failEmail", "clearIp", "clearEmail", "issue"},
         Proceed(a, p)
  PROVE  /\ attempt' \in [Attempts -> AttemptType \cup {None}]
         /\ attempt'[a].pc = p /\ attempt'[a].via = attempt[a].via
         /\ attempt'[a].r = attempt[a].r
         /\ \A b \in Attempts \ {a} : attempt'[b] = attempt[b]
<1>1. attempt[a] \in AttemptType
  BY DEF Types
<1>. DEFINE new == [attempt[a] EXCEPT !.pc = p]
<1>2. new \in AttemptType /\ new.pc = p /\ new.via = attempt[a].via /\ new.r = attempt[a].r
  BY <1>1 DEF AttemptType
<1>3. attempt' = [attempt EXCEPT ![a] = new]
  BY DEF Proceed
<1>. HIDE DEF new
<1>. QED BY <1>2, <1>3 DEF Types

LEMMA AnswerFields ==
  ASSUME Types, NEW a \in Attempts, Answer(a)
  PROVE  /\ attempt' \in [Attempts -> AttemptType \cup {None}] /\ attempt'[a] = None
         /\ \A b \in Attempts \ {a} : attempt'[b] = attempt[b]
BY DEF Types, Answer

\* PreBlock: the stores stay; an attempt that is let in remembers the store.
LEMMA PreBlockStep ==
  ASSUME Types, NEW a \in Attempts, PreBlock(a)
  PROVE  /\ UNCHANGED <<shared, local, callback, failures, crossed, torn, used, codes, logins>>
         /\ StoreTypeOK'
         /\ attempt' \in [Attempts -> AttemptType \cup {None}]
         /\ attempt[a] # None /\ attempt[a].pc = "peek"
         /\ \A b \in Attempts \ {a} : attempt'[b] = attempt[b]
         /\ \/ attempt'[a] = None
            \/ /\ attempt'[a].pc = "verify" /\ attempt'[a].via = "redis"
               /\ shared.count[IpKey] < MaxAttempts
            \/ /\ attempt'[a].pc = "verify" /\ attempt'[a].via = "memory"
               /\ attempt'[a].r = attempt[a].r
               /\ local[attempt[a].r].count[IpKey] < MaxAttempts
<1>. DEFINE r == attempt[a].r
<1>1. /\ attempt[a] # None /\ attempt[a].pc = "peek"
      /\ UNCHANGED <<sessionVars, failures, crossed, ssoVars>>
  BY Zenon DEF PreBlock, On
<1>2. attempt[a] \in AttemptType /\ r \in Replicas /\ IpKey \in Keys
  BY <1>1, LoginConstants DEF Types, AttemptType
<1>3. PICK o \in run(r, peek(shared, IpKey), peek(local[r], IpKey), MayFail) :
        /\ Settle(r, o)
        /\ attempt' = [attempt EXCEPT ![a] =
             IF blockedFor(o.out) THEN None ELSE [@ EXCEPT !.pc = "verify", !.via = o.via]]
  BY Zenon DEF PreBlock
<1>. DEFINE new == [attempt[a] EXCEPT !.pc = "verify", !.via = o.via]
<1>4. attempt' = [attempt EXCEPT ![a] = IF blockedFor(o.out) THEN None ELSE new]
  BY Zenon, <1>3
<1>. HIDE DEF r
<1>5. /\ UNCHANGED <<shared, local>> /\ StoreTypeOK'
      /\ \/ o.via = "redis" /\ o.out = shared.count[IpKey]
         \/ o.via = "memory" /\ o.out = local[r].count[IpKey]
  BY <1>2, <1>3, PeekStep DEF Types
<1>6. /\ new \in AttemptType /\ new.pc = "verify" /\ new.via = o.via /\ new.r = r
  BY <1>2, <1>5 DEF AttemptType, r
<1>7. shared.count[IpKey] \in Nat /\ local[r].count[IpKey] \in Nat /\ MaxAttempts \in Nat
  BY <1>2, LoginConstants DEF Types, StoreTypeOK
<1>. HIDE DEF new
<1>8. attempt' \in [Attempts -> AttemptType \cup {None}]
  BY <1>4, <1>6 DEF Types
<1>9. \A b \in Attempts \ {a} : attempt'[b] = attempt[b]
  BY <1>4 DEF Types
<1>10. /\ blockedFor(o.out) => attempt'[a] = None
       /\ ~blockedFor(o.out) => attempt'[a] = new
  BY <1>4 DEF Types
<1>. QED BY <1>1, <1>5, <1>6, <1>7, <1>8, <1>9, <1>10 DEF ssoVars, blockedFor, r

LEMMA OnceKept ==
  ASSUME OnceInv, shared'.kv = shared.kv, \A r \in Replicas : local'[r].kv = local[r].kv,
         UNCHANGED <<callback, torn, used, codes, logins>>
  PROVE  OnceInv'
BY DEF OnceInv, Copies, OneMemory, InMemory, Pending, Spent

LEMMA AdmittedFinite ==
  ASSUME NEW S \in SUBSET Attempts
  PROVE  IsFiniteSet(S) /\ Cardinality(S) \in Nat /\ Cardinality(S) <= Cardinality(Attempts)
BY LoginConstants, FS_Subset, FS_CardinalityType

LEMMA BoundFacts ==
  /\ MaxAttempts \in Nat /\ MaxAttempts >= 1 /\ Cardinality(Attempts) \in Nat
  /\ Bound \in Nat /\ Bound = MaxAttempts + Cardinality(Attempts) - 1
<1>1. Cardinality(Attempts) \in Nat
  BY LoginConstants, FS_CardinalityType
<1>. QED BY <1>1, LoginConstants DEF Bound

\* Nobody is admitted, nothing is counted or cleared.
LEMMA BoundKept ==
  ASSUME Types, Types', BoundInv, shared'.count[IpKey] = shared.count[IpKey],
         \A r \in Replicas : local'[r].count[IpKey] = local[r].count[IpKey],
         UNCHANGED <<failures, crossed>>,
         \A a \in Attempts : attempt'[a] # attempt[a] =>
           attempt'[a] = None \/ attempt'[a].pc \notin {"verify", "failIp"}
             \/ (/\ attempt[a] # None /\ attempt[a].pc \in {"verify", "failIp"}
                 /\ attempt'[a].via = attempt[a].via /\ attempt'[a].r = attempt[a].r)
  PROVE  BoundInv'
<1>1. /\ Admitted("redis")' \subseteq Admitted("redis")
      /\ \A r \in Replicas : AdmittedBy(r)' \subseteq AdmittedBy(r)
  BY DEF Admitted, AdmittedBy
<1>2. /\ Cardinality(Admitted("redis")') <= Cardinality(Admitted("redis"))
      /\ Cardinality(Admitted("redis")') \in Nat /\ Cardinality(Admitted("redis")) \in Nat
  BY <1>1, AdmittedFinite, FS_Subset DEF Admitted
<1>3. \A r \in Replicas :
        /\ Cardinality(AdmittedBy(r)') <= Cardinality(AdmittedBy(r))
        /\ Cardinality(AdmittedBy(r)') \in Nat /\ Cardinality(AdmittedBy(r)) \in Nat
  BY <1>1, AdmittedFinite, FS_Subset DEF Admitted, AdmittedBy
<1>4. PICK f \in [Replicas -> 0..failures], g \in 0..failures : PutDown(f, g)
  BY DEF BoundInv
<1>5. Marks(f)' = Marks(f) /\ CountingReplicas' = CountingReplicas
  BY DEF Marks, CountingReplicas
<1>6. PutDown(f, g)'
  BY <1>2, <1>3, <1>4, <1>5, BoundFacts DEF PutDown, Types
<1>. QED BY <1>4, <1>5, <1>6 DEF BoundInv

LEMMA RecordIpTypes ==
  ASSUME Types, NEW a \in Attempts, RecordIp(a)
  PROVE  Types' /\ shared'.kv = shared.kv /\ \A q \in Replicas : local'[q].kv = local[q].kv
<1>1. attempt[a] # None /\ attempt[a].r \in Replicas /\ IpKey \in Keys
  BY LoginConstants DEF RecordIp, On, Types, AttemptType
<1>. DEFINE r == attempt[a].r
<1>2. PICK o \in run(r, incr(shared, IpKey), incr(local[r], IpKey), MayFail) :
        Settle(r, o) /\ crossed' = crossed + IF o.via = attempt[a].via THEN 0 ELSE 1
  BY DEF RecordIp
<1>. HIDE DEF r
<1>3. /\ StoreTypeOK' /\ shared'.kv = shared.kv
      /\ \A q \in Replicas : local'[q].kv = local[q].kv
  BY <1>1, <1>2, CountStep DEF Types, r
<1>4. attempt' \in [Attempts -> AttemptType \cup {None}]
  BY <1>1, AttemptGoesOn DEF RecordIp
<1>. QED BY <1>2, <1>3, <1>4 DEF Types, RecordIp, ssoVars

\* A failed attempt is counted: by the store that let it in, or it crossed.
LEMMA RecordIpBound ==
  ASSUME Types, BoundInv, NEW a \in Attempts, RecordIp(a)
  PROVE  BoundInv'
<1>0. PICK r \in Replicas : r = attempt[a].r
  BY DEF RecordIp, On, Types, AttemptType
<1>1. /\ attempt[a] # None /\ attempt[a].pc = "failIp" /\ IpKey \in Keys
      /\ attempt[a].via \in {"none", "redis", "memory"} /\ failures' = failures + 1
      /\ failures \in Nat /\ crossed \in Nat
  BY LoginConstants DEF RecordIp, On, Types, AttemptType
<1>2. PICK o \in run(r, incr(shared, IpKey), incr(local[r], IpKey), MayFail) :
        Settle(r, o) /\ crossed' = crossed + IF o.via = attempt[a].via THEN 0 ELSE 1
  BY <1>0 DEF RecordIp
<1>3. /\ \A q \in Replicas \ {r} : local'[q] = local[q]
      /\ \/ /\ o.via = "redis"
            /\ shared'.count[IpKey] = shared.count[IpKey] + 1 /\ local'[r] = local[r]
         \/ /\ o.via = "memory"
            /\ shared'.count[IpKey] \in {shared.count[IpKey], shared.count[IpKey] + 1}
            /\ local'[r].count[IpKey] = local[r].count[IpKey] + 1
  BY <1>1, <1>2, CountStep DEF Types
<1>4. /\ shared.count[IpKey] \in Nat /\ \A q \in Replicas : local[q].count[IpKey] \in Nat
  BY <1>1 DEF Types, StoreTypeOK
<1>5. /\ attempt'[a].pc = "failEmail" /\ \A b \in Attempts \ {a} : attempt'[b] = attempt[b]
  BY <1>1, AttemptGoesOn DEF RecordIp
<1>6. /\ Admitted("redis")' = Admitted("redis") \ {a}
      /\ \A q \in Replicas : AdmittedBy(q)' = AdmittedBy(q) \ {a}
      /\ attempt[a].via = "redis" => a \in Admitted("redis")
      /\ attempt[a].via = "memory" => a \in AdmittedBy(r)
  BY <1>0, <1>1, <1>5 DEF Admitted, AdmittedBy
<1>7. /\ Cardinality(Admitted("redis")') \in Nat /\ Cardinality(Admitted("redis")) \in Nat
      /\ Cardinality(Admitted("redis")') <= Cardinality(Admitted("redis"))
      /\ attempt[a].via = "redis" =>
           Cardinality(Admitted("redis")') = Cardinality(Admitted("redis")) - 1
  <2>1. PICK A \in SUBSET Attempts : A = Admitted("redis")
    BY DEF Admitted
  <2>2. Admitted("redis")' = A \ {a} /\ (attempt[a].via = "redis" => a \in A)
    BY <1>6, <2>1
  <2>3. IsFiniteSet(A) /\ Cardinality(A) \in Nat
    BY AdmittedFinite
  <2>4. /\ Cardinality(A \ {a}) \in Nat /\ Cardinality(A \ {a}) <= Cardinality(A)
        /\ a \in A => Cardinality(A \ {a}) = Cardinality(A) - 1
    <3>1. CASE a \in A
      <4>1. Cardinality(A \ {a}) = Cardinality(A) - 1
        BY <2>3, <3>1, FS_RemoveElement
      <4>2. A \ {a} \in SUBSET Attempts
        OBVIOUS
      <4>3. Cardinality(A \ {a}) \in Nat
        BY <4>2, AdmittedFinite
      <4>. QED BY <2>3, <4>1, <4>3
    <3>2. CASE a \notin A
      <4>1. A \ {a} = A
        BY <3>2
      <4>. QED BY <2>3, <3>2, <4>1
    <3>. QED BY <3>1, <3>2
  <2>. HIDE DEF Admitted
  <2>. QED BY <2>1, <2>2, <2>3, <2>4
<1>8. /\ \A q \in Replicas :
           /\ Cardinality(AdmittedBy(q)') \in Nat /\ Cardinality(AdmittedBy(q)) \in Nat
           /\ Cardinality(AdmittedBy(q)') <= Cardinality(AdmittedBy(q))
      /\ attempt[a].via = "memory" =>
           Cardinality(AdmittedBy(r)') = Cardinality(AdmittedBy(r)) - 1
  <2>1. \A q \in Replicas : AdmittedBy(q) \subseteq Attempts
    BY DEF Admitted, AdmittedBy
  <2>. QED BY <1>1, <1>6, <2>1, AdmittedFinite, FS_RemoveElement
<1>9. IsFiniteSet(CountingReplicas)'
  <2>1. CountingReplicas' \subseteq CountingReplicas \cup {r}
    BY <1>3 DEF CountingReplicas
  <2>2. IsFiniteSet(CountingReplicas \cup {r})
    BY FS_AddElement DEF BoundInv
  <2>. QED BY <2>1, <2>2, FS_Subset
<1>10. PICK f \in [Replicas -> 0..failures], g \in 0..failures : PutDown(f, g)
  BY DEF BoundInv
<1>11. f \in [Replicas -> 0..failures'] /\ g \in 0..failures'
  BY <1>1
<1>12. Marks(f)' = Marks(f) /\ Cardinality(Marks(f)) \in Nat
  BY <1>1, <1>10, FS_CardinalityType DEF Marks, PutDown
<1>13. CASE o.via # attempt[a].via
  <2>1. PutDown(f, g)'
    BY <1>1, <1>2, <1>3, <1>4, <1>7, <1>8, <1>10, <1>11, <1>12, <1>13, BoundFacts DEF PutDown
  <2>. QED BY <1>9, <1>11, <2>1 DEF BoundInv
<1>14. CASE o.via = "redis" /\ attempt[a].via = "redis"
  <2>1. PutDown(f, g + 1)'
    BY <1>1, <1>2, <1>3, <1>4, <1>7, <1>8, <1>10, <1>11, <1>12, <1>14, BoundFacts DEF PutDown
  <2>. QED BY <1>1, <1>9, <1>11, <2>1 DEF BoundInv
<1>15. CASE o.via = "memory" /\ attempt[a].via = "memory"
  <2>. DEFINE h == [f EXCEPT ![r] = @ + 1]
  <2>1. /\ h \in [Replicas -> 0..failures'] /\ h[r] = f[r] + 1
        /\ \A q \in Replicas \ {r} : h[q] = f[q]
    BY <1>1
  <2>. HIDE DEF h
  <2>2. Marks(h)' = Marks(f) \cup {<<r, f[r] + 1>>} /\ <<r, f[r] + 1>> \notin Marks(f)
    BY <1>1, <2>1 DEF Marks
  <2>3. IsFiniteSet(Marks(h)') /\ Cardinality(Marks(h)') = Cardinality(Marks(f)) + 1
    BY <1>10, <2>2, FS_AddElement DEF PutDown
  <2>4. PutDown(h, g)'
    <3>1. failures' = Cardinality(Marks(h)') + g + crossed'
      BY <1>1, <1>2, <1>10, <1>12, <1>15, <2>3 DEF PutDown
    <3>2. ASSUME NEW q \in Replicas
          PROVE  h[q] <= local'[q].count[IpKey] /\ h[q] + Cardinality(AdmittedBy(q)') <= Bound
      <4>1. CASE q = r
        BY <1>1, <1>3, <1>4, <1>7, <1>8, <1>10, <1>15, <2>1, <4>1, BoundFacts DEF PutDown
      <4>2. CASE q # r
        BY <1>1, <1>3, <1>4, <1>7, <1>8, <1>10, <1>15, <2>1, <4>2, BoundFacts DEF PutDown
      <4>. QED BY <4>1, <4>2
    <3>3. g <= shared'.count[IpKey] /\ g + Cardinality(Admitted("redis")') <= Bound
      BY <1>1, <1>3, <1>4, <1>7, <1>8, <1>10, <1>15, BoundFacts DEF PutDown
    <3>. QED BY <2>3, <3>1, <3>2, <3>3 DEF PutDown, Bound
  <2>. QED BY <1>9, <1>11, <2>1, <2>4 DEF BoundInv
<1>. QED BY <1>1, <1>3, <1>13, <1>14, <1>15

\* A right password: the failures before it are forgotten.
LEMMA ClearIpStep ==
  ASSUME Types, NEW a \in Attempts, ClearIp(a)
  PROVE  /\ Types' /\ shared'.kv = shared.kv
         /\ \A q \in Replicas : local'[q].kv = local[q].kv
         /\ failures' = 0 /\ crossed' = 0
         /\ CountingReplicas' \subseteq CountingReplicas
<1>0. PICK r \in Replicas : r = attempt[a].r
  BY DEF ClearIp, On, Types, AttemptType
<1>1. attempt[a] # None /\ IpKey \in Keys
  BY LoginConstants DEF ClearIp, On
<1>2. PICK o \in del(r, IpKey, MayFail) : Settle(r, o)
  BY <1>0 DEF ClearIp
<1>3. /\ StoreTypeOK' /\ shared'.kv = shared.kv
      /\ \A q \in Replicas : local'[q].kv = local[q].kv
      /\ \A q \in Replicas \ {r} : local'[q] = local[q]
      /\ local'[r].count[IpKey] = 0
  BY <1>1, <1>2, ClearStep DEF Types
<1>4. attempt' \in [Attempts -> AttemptType \cup {None}]
  BY <1>1, AttemptGoesOn DEF ClearIp
<1>5. CountingReplicas' \subseteq CountingReplicas
  BY <1>3 DEF CountingReplicas
<1>. QED BY <1>3, <1>4, <1>5 DEF Types, ClearIp, ssoVars

LEMMA ClearIpBound ==
  ASSUME Types, BoundInv, NEW a \in Attempts, ClearIp(a)
  PROVE  BoundInv'
<1>1. Types' /\ failures' = 0 /\ crossed' = 0 /\ CountingReplicas' \subseteq CountingReplicas
  BY ClearIpStep
<1>2. IpKey \in Keys
  BY LoginConstants
<1>3. /\ shared'.count[IpKey] \in Nat /\ \A r \in Replicas : local'[r].count[IpKey] \in Nat
  BY <1>1, <1>2 DEF Types, StoreTypeOK
<1>4. IsFiniteSet(CountingReplicas)'
  BY <1>1, FS_Subset DEF BoundInv
<1>. DEFINE f == [r \in Replicas |-> 0]
<1>5. Marks(f)' = {}
  BY <1>1 DEF Marks
<1>6. /\ Cardinality(Admitted("redis")') \in Nat
      /\ Cardinality(Admitted("redis")') <= Cardinality(Attempts)
      /\ \A r \in Replicas : /\ Cardinality(AdmittedBy(r)') \in Nat
                             /\ Cardinality(AdmittedBy(r)') <= Cardinality(Attempts)
  BY AdmittedFinite DEF Admitted, AdmittedBy
<1>7. PutDown(f, 0)'
  BY <1>1, <1>3, <1>5, <1>6, BoundFacts, FS_EmptySet DEF PutDown
<1>8. f \in [Replicas -> 0..failures'] /\ 0 \in 0..failures'
  BY <1>1
<1>. QED BY <1>4, <1>7, <1>8 DEF BoundInv

\* An attempt is let in: the store that looked it up has counted less than
\* the maximum, and no more attempts than there are can be under way.
LEMMA PreBlockBound ==
  ASSUME Types, BoundInv, NEW a \in Attempts, PreBlock(a)
  PROVE  BoundInv'
<1>1. /\ UNCHANGED <<shared, local, failures, crossed>>
      /\ attempt[a].pc = "peek"
      /\ \A b \in Attempts \ {a} : attempt'[b] = attempt[b]
      /\ \/ attempt'[a] = None
         \/ /\ attempt'[a].pc = "verify" /\ attempt'[a].via = "redis"
            /\ shared.count[IpKey] < MaxAttempts
         \/ /\ attempt'[a].pc = "verify" /\ attempt'[a].via = "memory"
            /\ attempt'[a].r = attempt[a].r
            /\ local[attempt[a].r].count[IpKey] < MaxAttempts
  BY PreBlockStep
<1>2. PICK f \in [Replicas -> 0..failures], g \in 0..failures : PutDown(f, g)
  BY DEF BoundInv
<1>3. Marks(f)' = Marks(f) /\ CountingReplicas' = CountingReplicas
  BY <1>1 DEF Marks, CountingReplicas
<1>4. /\ Cardinality(Admitted("redis")') \in Nat /\ Cardinality(Admitted("redis")) \in Nat
      /\ Cardinality(Admitted("redis")') <= Cardinality(Attempts)
  BY AdmittedFinite DEF Admitted
<1>5. \A r \in Replicas :
        /\ Cardinality(AdmittedBy(r)') \in Nat /\ Cardinality(AdmittedBy(r)) \in Nat
        /\ Cardinality(AdmittedBy(r)') <= Cardinality(Attempts)
  BY AdmittedFinite DEF Admitted, AdmittedBy
<1>6. IpKey \in Keys
  BY LoginConstants
<1>7. /\ shared.count[IpKey] \in Nat /\ \A r \in Replicas : local[r].count[IpKey] \in Nat
  BY <1>6 DEF Types, StoreTypeOK
<1>8. g + Cardinality(Admitted("redis")') <= Bound
  <2>1. CASE Admitted("redis")' \subseteq Admitted("redis")
    <3>1. Cardinality(Admitted("redis")') <= Cardinality(Admitted("redis"))
      BY <2>1, AdmittedFinite, FS_Subset DEF Admitted
    <3>. QED BY <1>2, <1>4, <3>1, BoundFacts DEF PutDown
  <2>2. CASE shared.count[IpKey] < MaxAttempts
    BY <1>2, <1>4, <1>7, <2>2, BoundFacts DEF PutDown
  <2>. QED BY <1>1, <2>1, <2>2 DEF Admitted
<1>9. ASSUME NEW r \in Replicas PROVE f[r] + Cardinality(AdmittedBy(r)') <= Bound
  <2>1. CASE AdmittedBy(r)' \subseteq AdmittedBy(r)
    <3>1. Cardinality(AdmittedBy(r)') <= Cardinality(AdmittedBy(r))
      BY <2>1, AdmittedFinite, FS_Subset DEF Admitted, AdmittedBy
    <3>. QED BY <1>2, <1>5, <3>1, BoundFacts DEF PutDown
  <2>2. CASE local[r].count[IpKey] < MaxAttempts
    BY <1>2, <1>5, <1>7, <2>2, BoundFacts DEF PutDown
  <2>. QED BY <1>1, <2>1, <2>2 DEF Admitted, AdmittedBy
<1>10. PutDown(f, g)'
  BY <1>1, <1>2, <1>3, <1>8, <1>9 DEF PutDown, Bound
<1>. QED BY <1>1, <1>2, <1>3, <1>10 DEF BoundInv

LoginInv == Types /\ OnceInv /\ BoundInv

\* The failure on the account is counted under its own key.
LEMMA RecordEmailStep ==
  ASSUME LoginInv, NEW a \in Attempts, RecordEmail(a)
  PROVE  LoginInv'
<1>0. PICK r \in Replicas, e \in Emails : r = attempt[a].r /\ e = attempt[a].email
  BY DEF RecordEmail, On, LoginInv, Types, AttemptType
<1>1. e \in Keys /\ IpKey \in Keys \ {e} /\ attempt[a].pc = "failEmail" /\ attempt[a] # None
  BY LoginConstants DEF RecordEmail, On
<1>2. PICK o \in run(r, incr(shared, e), incr(local[r], e), MayFail) : Settle(r, o)
  BY <1>0 DEF RecordEmail
<1>3. /\ StoreTypeOK' /\ shared'.kv = shared.kv
      /\ \A q \in Replicas : local'[q].kv = local[q].kv
      /\ shared'.count[IpKey] = shared.count[IpKey]
      /\ \A q \in Replicas : local'[q].count[IpKey] = local[q].count[IpKey]
  BY <1>1, <1>2, CountStep DEF LoginInv, Types
<1>4. /\ attempt' \in [Attempts -> AttemptType \cup {None}] /\ attempt'[a] = None
      /\ \A b \in Attempts \ {a} : attempt'[b] = attempt[b]
  BY AnswerFields DEF RecordEmail, LoginInv
<1>5. UNCHANGED <<failures, crossed, callback, torn, used, codes, logins>>
  BY DEF RecordEmail, ssoVars
<1>6. Types'
  BY <1>3, <1>4, <1>5 DEF LoginInv, Types
<1>7. OnceInv'
  BY <1>3, <1>5, OnceKept DEF LoginInv
<1>8. BoundInv'
  BY <1>3, <1>4, <1>5, <1>6, BoundKept DEF LoginInv
<1>. QED BY <1>6, <1>7, <1>8 DEF LoginInv

LEMMA ClearEmailStep ==
  ASSUME LoginInv, NEW a \in Attempts, ClearEmail(a)
  PROVE  LoginInv'
<1>0. PICK r \in Replicas, e \in Emails : r = attempt[a].r /\ e = attempt[a].email
  BY DEF ClearEmail, On, LoginInv, Types, AttemptType
<1>1. e \in Keys /\ IpKey \in Keys \ {e} /\ attempt[a].pc = "clearEmail" /\ attempt[a] # None
  BY LoginConstants DEF ClearEmail, On
<1>2. PICK o \in del(r, e, MayFail) : Settle(r, o)
  BY <1>0 DEF ClearEmail
<1>3. /\ StoreTypeOK' /\ shared'.kv = shared.kv
      /\ \A q \in Replicas : local'[q].kv = local[q].kv
      /\ shared'.count[IpKey] = shared.count[IpKey]
      /\ \A q \in Replicas : local'[q].count[IpKey] = local[q].count[IpKey]
  BY <1>1, <1>2, ClearStep DEF LoginInv, Types
<1>4. /\ attempt' \in [Attempts -> AttemptType \cup {None}] /\ attempt'[a].pc = "issue"
      /\ \A b \in Attempts \ {a} : attempt'[b] = attempt[b]
  BY <1>1, AttemptGoesOn DEF ClearEmail, LoginInv
<1>5. UNCHANGED <<failures, crossed, callback, torn, used, codes, logins>>
  BY DEF ClearEmail, ssoVars
<1>6. Types'
  BY <1>3, <1>4, <1>5 DEF LoginInv, Types
<1>7. OnceInv'
  BY <1>3, <1>5, OnceKept DEF LoginInv
<1>8. BoundInv'
  BY <1>3, <1>4, <1>5, <1>6, BoundKept DEF LoginInv
<1>. QED BY <1>6, <1>7, <1>8 DEF LoginInv

\* Steps of an attempt that leave the stores alone.
LEMMA QuietAttempt ==
  ASSUME LoginInv, NEW a \in Attempts, UNCHANGED <<storeVars, failures, crossed, ssoVars>>,
         attempt' \in [Attempts -> AttemptType \cup {None}],
         \A b \in Attempts \ {a} : attempt'[b] = attempt[b],
         attempt'[a] = None \/ attempt'[a].pc \notin {"verify", "failIp"}
           \/ (/\ attempt[a] # None /\ attempt[a].pc \in {"verify", "failIp"}
               /\ attempt'[a].via = attempt[a].via /\ attempt'[a].r = attempt[a].r)
  PROVE  LoginInv'
<1>1. StoreTypeOK' /\ UNCHANGED <<shared, local, callback, torn, used, codes, logins>>
  BY DEF LoginInv, Types, storeVars, ssoVars, StoreTypeOK
<1>2. Types'
  BY <1>1 DEF LoginInv, Types
<1>3. OnceInv'
  BY <1>1, OnceKept DEF LoginInv
<1>4. BoundInv'
  BY <1>1, <1>2, BoundKept DEF LoginInv
<1>. QED BY <1>2, <1>3, <1>4 DEF LoginInv

LEMMA AttemptStep ==
  ASSUME LoginInv, NEW a \in Attempts, Attempt(a)
  PROVE  LoginInv'
<1>1. ASSUME NEW r \in Replicas, NEW e \in Emails, NEW ok \in BOOLEAN, StartAttempt(a, r, e, ok)
      PROVE  LoginInv'
  <2>. DEFINE new == [pc |-> "peek", r |-> r, email |-> e, ok |-> ok, via |-> "none"]
  <2>1. new \in AttemptType /\ new.pc = "peek"
    BY DEF AttemptType
  <2>2. attempt' = [attempt EXCEPT ![a] = new] /\ UNCHANGED <<storeVars, failures, crossed, ssoVars>>
    BY <1>1 DEF StartAttempt
  <2>. HIDE DEF new
  <2>. QED BY <2>1, <2>2, QuietAttempt DEF LoginInv, Types
<1>2. CASE PreBlock(a)
  <2>1. /\ StoreTypeOK' /\ attempt' \in [Attempts -> AttemptType \cup {None}]
        /\ UNCHANGED <<shared, local, callback, failures, crossed, torn, used, codes, logins>>
    BY <1>2, PreBlockStep DEF LoginInv
  <2>. QED BY <1>2, <2>1, OnceKept, PreBlockBound DEF LoginInv, Types
<1>3. CASE Verify(a)
  <2>1. attempt[a] # None /\ attempt[a].pc = "verify" /\ UNCHANGED <<storeVars, failures, crossed, ssoVars>>
    BY <1>3 DEF Verify, On
  <2>2. CASE Answer(a)
    BY <2>1, <2>2, AnswerFields, QuietAttempt DEF LoginInv
  <2>3. ASSUME NEW p \in {"failIp", "clearIp"}, Proceed(a, p) PROVE LoginInv'
    BY <2>1, <2>3, AttemptGoesOn, QuietAttempt DEF LoginInv
  <2>. QED BY <1>3, <2>2, <2>3 DEF Verify
<1>4. CASE RecordIp(a)
  <2>1. UNCHANGED <<callback, torn, used, codes, logins>>
    BY <1>4 DEF RecordIp, ssoVars
  <2>. QED BY <1>4, <2>1, RecordIpTypes, RecordIpBound, OnceKept DEF LoginInv
<1>5. CASE RecordEmail(a)
  BY <1>5, RecordEmailStep
<1>6. CASE ClearIp(a)
  <2>1. UNCHANGED <<callback, torn, used, codes, logins>>
    BY <1>6 DEF ClearIp, ssoVars
  <2>. QED BY <1>6, <2>1, ClearIpStep, ClearIpBound, OnceKept DEF LoginInv
<1>7. CASE ClearEmail(a)
  BY <1>7, ClearEmailStep
<1>8. CASE PasswordToken(a)
  BY <1>8, AnswerFields, QuietAttempt DEF PasswordToken, LoginInv
<1>. QED BY <1>1, <1>2, <1>3, <1>4, <1>5, <1>6, <1>7, <1>8 DEF Attempt

LEMMA SpentFinite ==
  ASSUME NEW n \in Nat, NEW S \in SUBSET (1..n)
  PROVE  IsFiniteSet(S) /\ Cardinality(S) \in Nat /\ Cardinality(S) <= n
<1>1. IsFiniteSet(1..n) /\ Cardinality(1..n) = IF 1 > n THEN 0 ELSE n - 1 + 1
  BY FS_Interval
<1>2. IsFiniteSet(S) /\ Cardinality(S) <= Cardinality(1..n)
  BY <1>1, FS_Subset
<1>. QED BY <1>1, <1>2, FS_CardinalityType

LEMMA SsoBound ==
  ASSUME LoginInv, Types', shared'.count = shared.count,
         \A r \in Replicas : local'[r].count = local[r].count, UNCHANGED limiterVars
  PROVE  BoundInv'
BY BoundKept DEF LoginInv, limiterVars

\* A login starts: its state is in one store, or torn between two.
LEMMA StartStep ==
  ASSUME LoginInv, NEW r \in Replicas, NEW v \in Values, oauthStart(r, v)
  PROVE  LoginInv'
<1>0. PICK A, B : A = set(shared, v) /\ B = set(local[r], v)
  OBVIOUS
<1>1. /\ v \notin shared.kv /\ \A q \in Replicas : v \notin local[q].kv
      /\ codes[v] = 0
      /\ UNCHANGED <<limiterVars, callback, codes, used, logins>>
  BY DEF oauthStart
<1>2. PICK o \in run(r, A, B, TRUE) :
        /\ Settle(r, o)
        /\ torn' = IF v \in o.shared.kv /\ v \in o.mine.kv THEN torn \cup {v} ELSE torn
  BY <1>0 DEF oauthStart
<1>3. /\ A.store \in StoreType /\ A.store.count = shared.count /\ A.store.kv = shared.kv \cup {v}
      /\ B.store \in StoreType /\ B.store.count = local[r].count /\ B.store.kv = local[r].kv \cup {v}
  BY <1>0, StoresTyped, KvFields DEF LoginInv, Types
<1>4. /\ StoreTypeOK' /\ shared'.count = shared.count
      /\ \A q \in Replicas : local'[q].count = local[q].count
      /\ \A q \in Replicas \ {r} : local'[q] = local[q]
      /\ shared' = o.shared /\ local'[r] = o.mine
      /\ \/ shared' = A.store /\ local'[r] = local[r]
         \/ shared' \in {shared, A.store} /\ local'[r] = B.store
  <2>1. \/ /\ o.shared = A.store /\ o.mine = local[r] /\ o.open = FALSE
        \/ /\ o.shared \in {shared, A.store} /\ o.mine = B.store /\ o.open = TRUE
    BY <1>2 DEF run
  <2>2. /\ o.shared \in StoreType /\ o.shared.count = shared.count
        /\ o.mine \in StoreType /\ o.mine.count = local[r].count /\ o.open \in BOOLEAN
    BY <1>0, <1>3, <2>1, StoresTyped DEF LoginInv, Types
  <2>3. /\ StoreTypeOK' /\ shared' = o.shared /\ local'[r] = o.mine
        /\ \A q \in Replicas \ {r} : local'[q] = local[q]
    BY <1>2, <2>2, SettleFields DEF LoginInv, Types
  <2>. QED BY <2>1, <2>2, <2>3
<1>5. Types'
  BY <1>1, <1>4 DEF LoginInv, Types, limiterVars
<1>6. ASSUME NEW w \in Values
      PROVE  /\ codes'[w] + Copies(w)' <= IF w \in torn' THEN 2 ELSE 1
             /\ OneMemory(w)'
  <2>1. CASE w = v
    <3>1. Copies(v)' = (IF v \in shared'.kv THEN 1 ELSE 0) + (IF v \in local'[r].kv THEN 1 ELSE 0)
      BY <1>1, <1>4 DEF Copies, InMemory
    <3>2. OneMemory(v)'
      BY <1>1, <1>4 DEF OneMemory
    <3>3. v \in shared'.kv /\ v \in local'[r].kv => v \in torn'
      BY <1>2, <1>4
    <3>. QED BY <1>1, <2>1, <3>1, <3>2, <3>3
  <2>2. CASE w # v
    <3>1. /\ w \in shared'.kv <=> w \in shared.kv
          /\ \A q \in Replicas : w \in local'[q].kv <=> w \in local[q].kv
          /\ w \in torn' <=> w \in torn
      BY <1>2, <1>3, <1>4, <2>2
    <3>2. Copies(w)' = Copies(w) /\ OneMemory(w)'
      BY <3>1 DEF Copies, InMemory, OneMemory, LoginInv, OnceInv
    <3>. QED BY <1>1, <3>1, <3>2 DEF LoginInv, OnceInv
  <2>. QED BY <2>1, <2>2
<1>7. \A w \in Values : Pending(w)' = Pending(w) /\ Spent(w)' = Spent(w)
  BY <1>1 DEF Pending, Spent
<1>8. OnceInv'
  BY <1>1, <1>6, <1>7 DEF LoginInv, OnceInv
<1>9. BoundInv'
  BY <1>1, <1>4, <1>5, SsoBound
<1>. QED BY <1>5, <1>8, <1>9 DEF LoginInv

\* A callback takes the state from wherever it finds it: for one copy less,
\* one code more.
LEMMA CallbackStep ==
  ASSUME LoginInv, NEW c \in Callbacks, oauthCallback(c)
  PROVE  LoginInv'
<1>1. /\ callback[c] # None /\ callback[c].pc = "take"
      /\ callback' = [callback EXCEPT ![c] = None]
      /\ UNCHANGED <<limiterVars, torn, used, logins>>
  BY DEF oauthCallback
<1>2. PICK r \in Replicas, v \in Values : r = callback[c].r /\ v = callback[c].v
  BY <1>1 DEF LoginInv, Types, CallbackType
<1>0. PICK A, B : A = take(shared, v) /\ B = take(local[r], v)
  OBVIOUS
<1>3. PICK o \in run(r, A, B, MayFail) :
        /\ Settle(r, o)
        /\ \/ o.out /\ codes' = [codes EXCEPT ![v] = @ + 1]
           \/ UNCHANGED codes
  BY <1>2, <1>0 DEF oauthCallback
<1>4. /\ A.store \in StoreType /\ A.store.count = shared.count /\ A.store.kv = shared.kv \ {v}
      /\ B.store \in StoreType /\ B.store.count = local[r].count /\ B.store.kv = local[r].kv \ {v}
      /\ A.out = (v \in shared.kv) /\ B.out = (v \in local[r].kv)
  BY <1>0, StoresTyped, KvFields DEF LoginInv, Types
<1>5. \/ o.shared = A.store /\ o.mine = local[r] /\ o.open = FALSE /\ o.out = A.out
      \/ /\ o.shared \in {shared, A.store} /\ o.mine = B.store /\ o.open = TRUE
         /\ o.out = B.out
  BY <1>3 DEF run
<1>6. /\ StoreTypeOK' /\ shared'.count = shared.count
      /\ \A q \in Replicas : local'[q].count = local[q].count
      /\ \A q \in Replicas \ {r} : local'[q] = local[q]
      /\ shared' = o.shared /\ local'[r] = o.mine
  <2>1. /\ o.shared \in StoreType /\ o.shared.count = shared.count
        /\ o.mine \in StoreType /\ o.mine.count = local[r].count /\ o.open \in BOOLEAN
    BY <1>4, <1>5, StoresTyped DEF LoginInv, Types
  <2>2. /\ StoreTypeOK' /\ shared' = o.shared /\ local'[r] = o.mine
        /\ \A q \in Replicas \ {r} : local'[q] = local[q]
    BY <1>3, <2>1, SettleFields DEF LoginInv, Types
  <2>. QED BY <2>1, <2>2
<1>7. Types'
  BY <1>1, <1>3, <1>6 DEF LoginInv, Types, limiterVars
<1>8. \A w \in Values : Pending(w)' = Pending(w)
  BY <1>1 DEF Pending, LoginInv, Types
<1>9. \A w \in Values : Spent(w) \subseteq Spent(w)'
  BY <1>1, <1>3 DEF Spent, LoginInv, Types
<1>10. \A w \in Values : Cardinality(Spent(w)) <= Cardinality(Spent(w)')
                        /\ Cardinality(Spent(w)') \in Nat /\ Cardinality(Spent(w)) \in Nat
  <2>. TAKE w \in Values
  <2>1. /\ codes[w] \in Nat /\ Spent(w) \in SUBSET (1..codes[w])
        /\ codes'[w] \in Nat /\ Spent(w)' \in SUBSET (1..codes'[w])
    BY <1>7 DEF LoginInv, Types, Spent
  <2>. QED BY <1>9, <2>1, SpentFinite, FS_Subset
<1>11. ASSUME NEW w \in Values
       PROVE  /\ codes'[w] + Copies(w)' <= IF w \in torn THEN 2 ELSE 1
              /\ OneMemory(w)'
  <2>1. OneMemory(w)'
    BY <1>4, <1>5, <1>6 DEF OneMemory, LoginInv, OnceInv
  <2>2. /\ w \in shared'.kv => w \in shared.kv
        /\ \A q \in Replicas : w \in local'[q].kv => w \in local[q].kv
    BY <1>4, <1>5, <1>6
  <2>3. CASE codes'[w] = codes[w]
    <3>1. /\ codes[w] \in Nat /\ codes[w] + Copies(w) <= IF w \in torn THEN 2 ELSE 1
      BY DEF LoginInv, OnceInv, Types
    <3>2. Copies(w)' <= Copies(w) /\ Copies(w) \in Nat /\ Copies(w)' \in Nat
      BY <2>2 DEF Copies, InMemory
    <3>. QED BY <2>1, <2>3, <3>1, <3>2
  <2>4. CASE codes'[w] = codes[w] + 1 /\ w = v /\ o.out
    <3>1. CASE o.shared = A.store /\ o.out = A.out
      <4>1. v \in shared.kv /\ v \notin shared'.kv
        BY <1>4, <1>6, <2>4, <3>1
      <4>. QED BY <2>1, <2>2, <2>4, <4>1 DEF Copies, InMemory, LoginInv, OnceInv, Types
    <3>2. CASE o.mine = B.store /\ o.out = B.out
      <4>1. InMemory(v) /\ ~InMemory(v)'
        BY <1>4, <1>6, <2>4, <3>2 DEF InMemory, OneMemory, LoginInv, OnceInv
      <4>. QED BY <2>1, <2>2, <2>4, <4>1 DEF Copies, LoginInv, OnceInv, Types
    <3>. QED BY <1>5, <3>1, <3>2
  <2>. QED BY <1>3, <2>3, <2>4 DEF LoginInv, Types
<1>12. OnceInv'
  BY <1>1, <1>8, <1>10, <1>11, FS_CardinalityType DEF LoginInv, OnceInv, Types
<1>13. BoundInv'
  BY <1>1, <1>6, <1>7, SsoBound
<1>. QED BY <1>7, <1>12, <1>13 DEF LoginInv

\* Exchanges and their codes; the stores are left alone.
LEMMA StoresKept ==
  ASSUME LoginInv, UNCHANGED <<storeVars, limiterVars, torn, codes>>,
         callback' \in [Callbacks -> CallbackType \cup {None}],
         logins' \in [Values -> Nat],
         \A v \in Values :
           /\ IsFiniteSet(Pending(v)')
           /\ logins'[v] + Cardinality(Pending(v)') <= Cardinality(Spent(v)')
  PROVE  LoginInv'
<1>1. UNCHANGED <<shared, local, torn, codes>> /\ Types'
  BY DEF LoginInv, Types, storeVars, limiterVars, StoreTypeOK
<1>2. OnceInv'
  BY <1>1 DEF LoginInv, OnceInv, Copies, InMemory, OneMemory
<1>3. BoundInv'
  BY <1>1, SsoBound
<1>. QED BY <1>1, <1>2, <1>3 DEF LoginInv

LEMMA StartCallbackStep ==
  ASSUME LoginInv, NEW c \in Callbacks, NEW r \in Replicas, NEW v \in Values,
         StartCallback(c, r, v)
  PROVE  LoginInv'
<1>. DEFINE new == [pc |-> "take", r |-> r, v |-> v]
<1>1. /\ callback[c] = None /\ callback' = [callback EXCEPT ![c] = new]
      /\ UNCHANGED <<storeVars, limiterVars, torn, used, codes, logins>>
  BY DEF StartCallback
<1>2. new \in CallbackType /\ new.pc = "take"
  BY DEF CallbackType
<1>. HIDE DEF new
<1>3. callback' \in [Callbacks -> CallbackType \cup {None}]
  BY <1>1, <1>2 DEF LoginInv, Types
<1>4. \A w \in Values : Pending(w)' = Pending(w) /\ Spent(w)' = Spent(w)
  BY <1>1, <1>2 DEF Pending, Spent, LoginInv, Types
<1>. QED BY <1>1, <1>3, <1>4, StoresKept DEF LoginInv, OnceInv, Types

LEMMA StartExchangeStep ==
  ASSUME LoginInv, NEW c \in Callbacks, NEW v \in Values, NEW n, StartExchange(c, v, n)
  PROVE  LoginInv'
<1>. DEFINE new == [pc |-> "issue", r |-> None, v |-> v]
<1>1. /\ callback[c] = None /\ n \in 1..codes[v]
      /\ UNCHANGED <<storeVars, limiterVars, torn, codes, logins>>
      /\ \/ /\ <<v, n>> \notin used /\ used' = used \cup {<<v, n>>}
            /\ callback' = [callback EXCEPT ![c] = new]
         \/ used' \in {used, used \cup {<<v, n>>}} /\ UNCHANGED callback
  BY DEF StartExchange
<1>2. new \in CallbackType /\ new.pc = "issue" /\ new.v = v
  BY DEF CallbackType
<1>. HIDE DEF new
<1>3. callback' \in [Callbacks -> CallbackType \cup {None}] /\ logins' \in [Values -> Nat]
  BY <1>1, <1>2 DEF LoginInv, Types
<1>4. ASSUME NEW w \in Values
      PROVE  /\ IsFiniteSet(Pending(w)')
             /\ logins'[w] + Cardinality(Pending(w)') <= Cardinality(Spent(w)')
  <2>0. /\ codes[w] \in Nat /\ logins[w] \in Nat /\ logins'[w] = logins[w]
        /\ Spent(w) \in SUBSET (1..codes[w]) /\ Spent(w)' \in SUBSET (1..codes[w])
    BY <1>1 DEF LoginInv, Types, Spent
  <2>1. /\ IsFiniteSet(Pending(w)) /\ Cardinality(Pending(w)) \in Nat
        /\ IsFiniteSet(Spent(w)) /\ Cardinality(Spent(w)) \in Nat
        /\ IsFiniteSet(Spent(w)') /\ Cardinality(Spent(w)') \in Nat
        /\ logins[w] + Cardinality(Pending(w)) <= Cardinality(Spent(w))
    BY <2>0, SpentFinite, FS_CardinalityType DEF LoginInv, OnceInv
  <2>2. CASE Pending(w)' = Pending(w) /\ Spent(w) \subseteq Spent(w)'
    <3>1. Cardinality(Spent(w)) <= Cardinality(Spent(w)')
      BY <2>1, <2>2, FS_Subset
    <3>. QED BY <2>0, <2>1, <2>2, <3>1
  <2>3. CASE /\ Pending(w)' = Pending(w) \cup {c} /\ c \notin Pending(w)
             /\ Spent(w)' = Spent(w) \cup {n} /\ n \notin Spent(w)
    <3>1. /\ IsFiniteSet(Pending(w)')
          /\ Cardinality(Pending(w)') = Cardinality(Pending(w)) + 1
          /\ Cardinality(Spent(w)') = Cardinality(Spent(w)) + 1
      BY <2>1, <2>3, FS_AddElement
    <3>. QED BY <2>0, <2>1, <3>1
  <2>4. CASE UNCHANGED callback
    BY <1>1, <2>2, <2>4 DEF Pending, Spent
  <2>5. CASE /\ <<v, n>> \notin used /\ used' = used \cup {<<v, n>>}
             /\ callback' = [callback EXCEPT ![c] = new]
    <3>1. CASE w # v
      BY <1>1, <1>2, <2>2, <2>5, <3>1 DEF Pending, Spent, LoginInv, Types
    <3>2. CASE w = v /\ new # None
      <4>1. Pending(w)' = Pending(w) \cup {c} /\ c \notin Pending(w)
        BY <1>1, <1>2, <2>5, <3>2 DEF Pending, LoginInv, Types
      <4>2. Spent(w)' = Spent(w) \cup {n} /\ n \notin Spent(w)
        BY <1>1, <2>5, <3>2 DEF Spent
      <4>. QED BY <2>3, <4>1, <4>2
    <3>3. CASE w = v /\ new = None
      BY <1>1, <2>2, <2>5, <3>3 DEF Pending, Spent, LoginInv, Types
    <3>. QED BY <3>1, <3>2, <3>3
  <2>. QED BY <1>1, <2>4, <2>5
<1>. QED BY <1>1, <1>3, <1>4, StoresKept

LEMMA ExchangeStep ==
  ASSUME LoginInv, NEW c \in Callbacks, exchange(c)
  PROVE  LoginInv'
<1>1. /\ callback[c] # None /\ callback[c].pc = "issue"
      /\ callback' = [callback EXCEPT ![c] = None]
      /\ UNCHANGED <<storeVars, limiterVars, torn, codes, used>>
      /\ \/ logins' = [logins EXCEPT ![callback[c].v] = @ + 1]
         \/ UNCHANGED logins
  BY DEF exchange
<1>2. PICK v \in Values : v = callback[c].v
  BY <1>1 DEF LoginInv, Types, CallbackType
<1>3. callback' \in [Callbacks -> CallbackType \cup {None}] /\ logins' \in [Values -> Nat]
  BY <1>1, <1>2 DEF LoginInv, Types
<1>4. ASSUME NEW w \in Values
      PROVE  /\ IsFiniteSet(Pending(w)')
             /\ logins'[w] + Cardinality(Pending(w)') <= Cardinality(Spent(w)')
  <2>1. /\ IsFiniteSet(Pending(w)) /\ Cardinality(Pending(w)) \in Nat /\ logins[w] \in Nat
        /\ logins[w] + Cardinality(Pending(w)) <= Cardinality(Spent(w))
        /\ Spent(w)' = Spent(w) /\ codes[w] \in Nat
    BY <1>1, FS_CardinalityType DEF LoginInv, OnceInv, Types, Spent
  <2>2. Cardinality(Spent(w)) \in Nat
    BY <2>1, SpentFinite DEF Spent
  <2>3. Pending(w)' = Pending(w) \ {c}
    BY <1>1 DEF Pending, LoginInv, Types
  <2>4. /\ IsFiniteSet(Pending(w)')
        /\ Cardinality(Pending(w)') = IF c \in Pending(w) THEN Cardinality(Pending(w)) - 1
                                      ELSE Cardinality(Pending(w))
    BY <2>1, <2>3, FS_RemoveElement
  <2>5. CASE w = v
    <3>1. c \in Pending(w) /\ logins'[w] \in {logins[w], logins[w] + 1}
      BY <1>1, <1>2, <2>5 DEF Pending, LoginInv, Types
    <3>. QED BY <2>1, <2>2, <2>4, <3>1
  <2>6. CASE w # v
    <3>1. c \notin Pending(w) /\ logins'[w] = logins[w]
      BY <1>1, <1>2, <2>6 DEF Pending, LoginInv, Types
    <3>. QED BY <2>1, <2>2, <2>4, <3>1
  <2>. QED BY <2>5, <2>6
<1>. QED BY <1>1, <1>3, <1>4, StoresKept

\* The pending state of a login lapses: in every store at once.
LEMMA ExpireStep ==
  ASSUME LoginInv, NEW v \in Values, Expire(v)
  PROVE  LoginInv'
<1>1. /\ shared' = [shared EXCEPT !.kv = @ \ {v}]
      /\ local' = [r \in Replicas |-> [local[r] EXCEPT !.kv = @ \ {v}]]
      /\ UNCHANGED <<open, limiterVars, callback, torn, codes, used, logins>>
  BY DEF Expire, ssoVars
<1>2. shared \in StoreType /\ \A r \in Replicas : local[r] \in StoreType
  BY DEF LoginInv, Types, StoreTypeOK, StoreType
<1>3. /\ shared' \in StoreType /\ shared'.count = shared.count /\ shared'.kv = shared.kv \ {v}
  BY <1>1, <1>2 DEF StoreType
<1>4. \A r \in Replicas : /\ local'[r] \in StoreType /\ local'[r].count = local[r].count
                          /\ local'[r].kv = local[r].kv \ {v}
  BY <1>1, <1>2 DEF StoreType
<1>5. Types'
  <2>1. StoreTypeOK'
    BY <1>1, <1>3, <1>4 DEF StoreTypeOK, StoreType, LoginInv, Types
  <2>. QED BY <1>1, <2>1 DEF LoginInv, Types, limiterVars
<1>6. \A w \in Values : Pending(w)' = Pending(w) /\ Spent(w)' = Spent(w)
  BY <1>1 DEF Pending, Spent
<1>7. ASSUME NEW w \in Values
      PROVE  codes'[w] + Copies(w)' <= (IF w \in torn' THEN 2 ELSE 1) /\ OneMemory(w)'
  <2>1. /\ w \in shared'.kv => w \in shared.kv
        /\ \A q \in Replicas : w \in local'[q].kv => w \in local[q].kv
    BY <1>3, <1>4
  <2>2. OneMemory(w)'
    BY <2>1 DEF OneMemory, LoginInv, OnceInv
  <2>3. Copies(w)' <= Copies(w) /\ Copies(w) \in Nat /\ Copies(w)' \in Nat
    BY <2>1 DEF Copies, InMemory
  <2>4. codes[w] \in Nat /\ codes[w] + Copies(w) <= IF w \in torn THEN 2 ELSE 1
    BY DEF LoginInv, OnceInv, Types
  <2>. QED BY <1>1, <2>2, <2>3, <2>4
<1>8. OnceInv'
  BY <1>1, <1>6, <1>7 DEF LoginInv, OnceInv
<1>9. BoundInv'
  BY <1>1, <1>3, <1>4, <1>5, SsoBound
<1>. QED BY <1>5, <1>8, <1>9 DEF LoginInv

LEMMA LoginInitInv == Init => LoginInv
<1>. SUFFICES ASSUME Init PROVE LoginInv
  OBVIOUS
<1>1. Types
  BY TypesInit
<1>2. /\ shared.kv = {} /\ \A r \in Replicas : local[r].kv = {}
      /\ IpKey \in Keys /\ shared.count[IpKey] = 0
      /\ \A r \in Replicas : local[r].count[IpKey] = 0
  BY LoginConstants DEF Init, StoreInit, EmptyStore
<1>3. OnceInv
  <2>. SUFFICES ASSUME NEW v \in Values
       PROVE  /\ codes[v] + Copies(v) <= IF v \in torn THEN 2 ELSE 1
              /\ OneMemory(v)
              /\ IsFiniteSet(Pending(v))
              /\ logins[v] + Cardinality(Pending(v)) <= Cardinality(Spent(v))
    BY DEF OnceInv
  <2>1. Copies(v) = 0 /\ OneMemory(v)
    BY <1>2 DEF Copies, InMemory, OneMemory
  <2>2. Pending(v) = {} /\ Spent(v) = {}
    BY DEF Init, Pending, Spent
  <2>. QED BY <2>1, <2>2, FS_EmptySet DEF Init
<1>4. BoundInv
  <2>. DEFINE f == [r \in Replicas |-> 0]
  <2>1. /\ CountingReplicas = {} /\ Marks(f) = {} /\ failures = 0 /\ crossed = 0
        /\ Admitted("redis") = {} /\ \A r \in Replicas : AdmittedBy(r) = {}
    BY <1>2 DEF Init, CountingReplicas, Marks, Admitted, AdmittedBy
  <2>2. f \in [Replicas -> 0..failures] /\ 0 \in 0..failures /\ \A r \in Replicas : f[r] = 0
    BY <2>1
  <2>. HIDE DEF f
  <2>3. Cardinality({}) = 0 /\ IsFiniteSet({})
    BY FS_EmptySet
  <2>4. PutDown(f, 0)
    <3>1. IsFiniteSet(Marks(f)) /\ failures = Cardinality(Marks(f)) + 0 + crossed
      BY <2>1, <2>3
    <3>2. \A r \in Replicas : /\ f[r] <= local[r].count[IpKey]
                             /\ f[r] + Cardinality(AdmittedBy(r)) <= Bound
      <4>. TAKE r \in Replicas
      <4>1. f[r] = 0 /\ AdmittedBy(r) = {} /\ local[r].count[IpKey] = 0
        BY <1>2, <2>1, <2>2
      <4>2. Cardinality(AdmittedBy(r)) = 0
        BY <2>3, <4>1
      <4>. QED BY <4>1, <4>2, BoundFacts
    <3>3. 0 <= shared.count[IpKey] /\ 0 + Cardinality(Admitted("redis")) <= Bound
      <4>1. shared.count[IpKey] = 0
        BY <1>2
      <4>2. Cardinality(Admitted("redis")) = 0
        BY <2>1, <2>3
      <4>3. Bound \in Nat
        BY BoundFacts
      <4>. HIDE DEF Bound, Admitted
      <4>. QED BY <4>1, <4>2, <4>3
    <3>. QED BY <3>1, <3>2, <3>3 DEF PutDown
  <2>. QED BY <2>1, <2>2, <2>3, <2>4 DEF BoundInv
<1>. QED BY <1>1, <1>3, <1>4 DEF LoginInv

LEMMA LoginNextInv == LoginInv /\ [Next]_vars => LoginInv'
<1>. SUFFICES ASSUME LoginInv, [Next]_vars PROVE LoginInv'
  OBVIOUS
<1>1. ASSUME UNCHANGED <<shared, local, limiterVars, ssoVars>>, open' \in [Replicas -> BOOLEAN]
      PROVE  LoginInv'
  <2>1. Types'
    BY <1>1 DEF LoginInv, Types, StoreTypeOK, limiterVars, ssoVars
  <2>. QED BY <1>1, <2>1, OnceKept, SsoBound DEF LoginInv, ssoVars
<1>2. open \in [Replicas -> BOOLEAN]
  BY DEF LoginInv, Types, StoreTypeOK
<1>3. CASE UNCHANGED <<storeVars, limiterVars, ssoVars>>
  BY <1>1, <1>2, <1>3 DEF storeVars
<1>4. ASSUME NEW a \in Attempts, Attempt(a) PROVE LoginInv'
  BY <1>4, AttemptStep
<1>5. ASSUME SingleSignOn PROVE LoginInv'
  BY <1>5, StartStep, StartCallbackStep, StartExchangeStep, CallbackStep, ExchangeStep,
     ExpireStep DEF SingleSignOn
<1>6. CASE StartRequest \/ (\E p \in Requests : Request(p))
             \/ (\E j \in Jtis : Clock(j)) \/ Disabled
  BY <1>3, <1>6 DEF StartRequest, Request, Clock, Disabled
<1>7. ASSUME NEW r \in Replicas, Outage(r) \/ Recovery(r) PROVE LoginInv'
  BY <1>1, <1>2, <1>7 DEF Outage, Recovery, trip, Recover
<1>8. CASE UNCHANGED vars
  BY <1>3, <1>8 DEF vars
<1>. QED BY <1>4, <1>5, <1>6, <1>7, <1>8 DEF Next

\* What the stores hold is what is left to take and what was counted, however
\* Redis comes and goes between two commands (cluster/shared-store.ts).
THEOREM LoginInvariance == Spec => []LoginInv
BY LoginInitInv, LoginNextInv, PTL DEF Spec

\* One login at the identity provider gives one session, and two only when
\* the command that stored its state failed after Redis had applied it
\* (auth.routes.ts, "exactly one concurrent/replayed callback").
THEOREM OneSession == Spec => []OneSessionPerLogin
<1>1. LoginInv => OneSessionPerLogin
  <2>. SUFFICES ASSUME LoginInv, NEW v \in Values
       PROVE  logins[v] <= IF v \in torn THEN 2 ELSE 1
    BY DEF OneSessionPerLogin
  <2>1. /\ codes[v] \in Nat /\ logins[v] \in Nat /\ Spent(v) \in SUBSET (1..codes[v])
    BY DEF LoginInv, Types, Spent
  <2>2. Cardinality(Spent(v)) \in Nat /\ Cardinality(Spent(v)) <= codes[v]
    BY <2>1, SpentFinite
  <2>3. /\ codes[v] + Copies(v) <= IF v \in torn THEN 2 ELSE 1
        /\ logins[v] + Cardinality(Pending(v)) <= Cardinality(Spent(v))
        /\ Cardinality(Pending(v)) \in Nat
    BY FS_CardinalityType DEF LoginInv, OnceInv
  <2>4. Copies(v) \in Nat
    BY DEF Copies
  <2>. QED BY <2>1, <2>2, <2>3, <2>4
<1>. QED BY <1>1, LoginInvariance, PTL

\* An address gets no more failed attempts than every store that counts it
\* would each let through, but for those that were looked up in one store and
\* counted in another (auth/rate-limit.ts).
THEOREM BoundedAttempts == Spec => []AttemptsAreBounded
<1>1. LoginInv => AttemptsAreBounded
  <2>. SUFFICES ASSUME LoginInv PROVE AttemptsAreBounded
    OBVIOUS
  <2>. DEFINE n == Cardinality(CountingReplicas)
              one == IF shared.count[IpKey] > 0 THEN 1 ELSE 0
  <2>1. PICK f \in [Replicas -> 0..failures], g \in 0..failures : PutDown(f, g)
    BY DEF LoginInv, BoundInv
  <2>2. failures \in Nat /\ crossed \in Nat /\ IpKey \in Keys
    BY LoginConstants DEF LoginInv, Types
  <2>3. /\ shared.count[IpKey] \in Nat /\ \A r \in Replicas : local[r].count[IpKey] \in Nat
    BY <2>2 DEF LoginInv, Types, StoreTypeOK
  <2>4. IsFiniteSet(CountingReplicas) /\ n \in Nat
    BY FS_CardinalityType DEF LoginInv, BoundInv
  <2>5. \A S \in SUBSET Attempts : Cardinality(S) \in Nat
    BY AdmittedFinite
  <2>6. \A r \in Replicas : f[r] \in 0..failures /\ f[r] <= Bound
    <3>. TAKE r \in Replicas
    <3>1. AdmittedBy(r) \in SUBSET Attempts /\ f[r] \in 0..failures
      BY <2>1 DEF Admitted, AdmittedBy
    <3>2. Cardinality(AdmittedBy(r)) \in Nat /\ f[r] + Cardinality(AdmittedBy(r)) <= Bound
      BY <2>1, <2>5, <3>1 DEF PutDown
    <3>. QED BY <2>2, <3>1, <3>2, BoundFacts
  <2>7. g <= Bound /\ (shared.count[IpKey] = 0 => g = 0)
    BY <2>1, <2>2, <2>3, <2>5, BoundFacts DEF PutDown, Admitted
  <2>8. Marks(f) \subseteq CountingReplicas \X (1..Bound)
    BY <2>1, <2>2, <2>3, <2>6, BoundFacts DEF Marks, CountingReplicas, PutDown
  <2>9. IsFiniteSet(1..Bound) /\ Cardinality(1..Bound) = Bound
    <3>1. Bound \in Nat
      BY BoundFacts
    <3>2. IsFiniteSet(1..Bound) /\ Cardinality(1..Bound) = IF 1 > Bound THEN 0 ELSE Bound - 1 + 1
      BY <3>1, FS_Interval
    <3>. QED BY <3>1, <3>2
  <2>10. /\ IsFiniteSet(CountingReplicas \X (1..Bound))
         /\ Cardinality(CountingReplicas \X (1..Bound)) = n * Bound
    BY <2>4, <2>9, FS_Product
  <2>11. Cardinality(Marks(f)) <= n * Bound /\ Cardinality(Marks(f)) \in Nat
    BY <2>1, <2>8, <2>10, FS_Subset, FS_CardinalityType DEF PutDown
  <2>12. failures <= n * Bound + g + crossed
    BY <2>1, <2>2, <2>4, <2>11, BoundFacts DEF PutDown
  <2>13. Counting = n + one
    BY DEF Counting, CountingReplicas
  <2>14. (n + one) * Bound = n * Bound + one * Bound
    BY <2>4, BoundFacts
  <2>15. g <= one * Bound
    BY <2>3, <2>7, BoundFacts
  <2>16. n * Bound \in Nat
    BY <2>4, BoundFacts
  <2>. QED BY <2>2, <2>12, <2>13, <2>14, <2>15, <2>16, BoundFacts DEF AttemptsAreBounded
<1>. QED BY <1>1, LoginInvariance, PTL

=============================================================================
