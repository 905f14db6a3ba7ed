---------------------------- MODULE Registry_proof ----------------------------
(***************************************************************************)
(* Proofs about Registry, for any number of replicas, definitions and      *)
(* operations under way, in every mode of the pinning.                     *)
(***************************************************************************)
EXTENDS Registry, SequenceTheorems, TLAPS

\* The steps of a job that is in the chain of its replica.
Chained == {"queued", "load", "list", "pin", "insert", "rest"}

LEMMA InitIndInv == Init => IndInv
<1>. SUFFICES ASSUME Init PROVE IndInv
  OBVIOUS
<1>1. Idle \in Job /\ Idle.pc = "idle" /\ Idle.prior = None
  BY DEF Idle, Job, Pcs
<1>2. \A r \in Replicas : chain[r] = <<>> /\ Len(chain[r]) = 0
  BY DEF Init
<1>3. TypeOK
  <2>1. chain \in [Replicas -> Seq(Jobs)] /\ job \in [Jobs -> Job]
    BY <1>1 DEF Init
  <2>. QED BY <2>1, RegistryConstants DEF Init, TypeOK
<1>4. Trust /\ Traced
  BY <1>1 DEF Init, Trust, Traced
<1>5. Serial
  BY <1>1 DEF Init, Serial, Syncing, At
<1>6. ChainMoves
  BY <1>2 DEF ChainMoves
<1>. QED BY <1>3, <1>4, <1>5, <1>6 DEF IndInv

-----------------------------------------------------------------------------
(* What the moves of a job do to it.                                       *)

LEMMA GotoFacts ==
  ASSUME TypeOK, NEW j \in Jobs, NEW pc \in Pcs, Goto(j, pc)
  PROVE  /\ job' \in [Jobs -> Job]
         /\ \A k \in Jobs \ {j} : job'[k] = job[k]
         /\ job'[j].pc = pc /\ job'[j].r = job[j].r
         /\ job'[j].def = job[j].def /\ job'[j].prior = job[j].prior
BY DEF TypeOK, Goto, Job

LEMMA LeaveFacts ==
  ASSUME TypeOK, NEW j \in Jobs, NEW pc \in Pcs, Leave(j, pc)
  PROVE  /\ job' \in [Jobs -> Job]
         /\ \A k \in Jobs \ {j} : job'[k] = job[k]
         /\ job'[j].pc = pc /\ job'[j].r = job[j].r
         /\ job'[j].def = None /\ job'[j].prior = None
BY DEF TypeOK, Leave, Job

LEMMA DoneFacts ==
  ASSUME TypeOK, NEW j \in Jobs, Done(j)
  PROVE  /\ job' \in [Jobs -> Job]
         /\ \A k \in Jobs \ {j} : job'[k] = job[k]
         /\ job'[j].pc = "idle" /\ job'[j].prior = None
BY DEF TypeOK, Done, Job, Idle, Pcs

LEMMA BeginFacts ==
  ASSUME TypeOK, NEW j \in Jobs, NEW kind \in {"sync", "invoke"}, NEW pc \in Pcs,
         NEW r \in Replicas, NEW d \in Defs \cup {None}, Begin(j, kind, pc, r, d)
  PROVE  /\ job' \in [Jobs -> Job]
         /\ \A k \in Jobs \ {j} : job'[k] = job[k]
         /\ job[j].pc = "idle" /\ job'[j].pc = pc /\ job'[j].r = r
         /\ job'[j].def = d /\ job'[j].prior = None
BY DEF TypeOK, Begin, At, Job

-----------------------------------------------------------------------------
(* The chains.                                                             *)

\* A job that neither joins a chain nor leaves one, in a step that stores no row.
LEMMA Elsewhere ==
  ASSUME IndInv, NEW j \in Jobs, job' \in [Jobs -> Job],
         \A k \in Jobs \ {j} : job'[k] = job[k],
         chain' = chain, tool' = None \/ tool' = tool
                      \/ (tool # None /\ tool' # None /\ tool'.by = tool.by),
         job[j].pc \in Chained <=> job'[j].pc \in Chained,
         job[j].pc \in Chained => job'[j].r = job[j].r,
         job'[j].pc # "idle" => job'[j].r \in Replicas,
         job'[j].pc \in Chained \ {"queued", "rest"} =>
           (tool' = None /\ Turn(j)) \/ job[j].pc \in Chained \ {"queued", "rest"},
         job'[j].pc = "rest" => job[j].pc \in Chained \ {"queued"}
  PROVE  Serial' /\ ChainMoves'
<1>. USE DEF Chained
<1>1. ChainMoves'
  <2>. SUFFICES ASSUME NEW r \in Replicas, NEW a \in 1 .. Len(chain[r]), NEW b \in 1 .. Len(chain[r])
                PROVE  /\ job'[chain[r][a]].r = r
                       /\ job'[chain[r][a]].pc \in Chained
                       /\ chain[r][a] = chain[r][b] => a = b
    BY DEF ChainMoves
  <2>1. chain[r][a] \in Jobs
    BY DEF IndInv, TypeOK
  <2>2. job[chain[r][a]].r = r /\ job[chain[r][a]].pc \in Chained
        /\ (chain[r][a] = chain[r][b] => a = b)
    BY DEF IndInv, ChainMoves
  <2>. QED BY <2>1, <2>2
<1>2. ASSUME NEW k \in Jobs
      PROVE  /\ job'[k].pc # "idle" => job'[k].r \in Replicas
             /\ At(k, "queued")' \/ k \in Syncing' =>
                  \E a \in 1 .. Len(chain[job'[k].r]) : chain[job'[k].r][a] = k
             /\ k \in Syncing' =>
                  /\ chain[job'[k].r][1] = k
                  /\ job'[k].pc # "rest" /\ tool' # None => tool'.by # job'[k].r
  <2>. USE DEF At
  <2>1. CASE k # j
    BY <2>1 DEF IndInv, Serial, Syncing
  <2>2. CASE k = j /\ job[j].pc \in Chained \ {"queued"}
    BY <2>2 DEF IndInv, Serial, Syncing
  <2>3. CASE k = j /\ job[j].pc = "queued" /\ job'[j].pc # "queued"
    <3>1. job[j].r \in Replicas /\ chain[job[j].r] \in Seq(Jobs)
      BY <2>3 DEF IndInv, Serial, TypeOK
    <3>2. \E a \in 1 .. Len(chain[job[j].r]) : chain[job[j].r][a] = j
      BY <2>3 DEF IndInv, Serial
    <3>3. Turn(j) => chain[job[j].r][1] = j
      BY <3>1, <3>2 DEF Turn
    <3>. QED BY <2>3, <3>2, <3>3 DEF IndInv, Serial, Syncing
  <2>4. CASE k = j /\ job[j].pc = "queued" /\ job'[j].pc = "queued"
    BY <2>4 DEF IndInv, Serial, Syncing
  <2>5. CASE k = j /\ job'[j].pc \notin Chained
    BY <2>5 DEF Syncing
  <2>. QED BY <2>1, <2>2, <2>3, <2>4, <2>5
<1>. QED BY <1>1, <1>2 DEF Serial

\* The first of a chain leaves it.
LEMMA Released ==
  ASSUME IndInv, NEW j \in Jobs, job' \in [Jobs -> Job],
         \A k \in Jobs \ {j} : job'[k] = job[k],
         job[j].pc \in Chained,
         At(j, "queued") => Turn(j),
         Release(j), tool' = tool,
         job'[j].pc \in {"online", "failed"}, job'[j].r = job[j].r
  PROVE  Serial' /\ ChainMoves' /\ chain' \in [Replicas -> Seq(Jobs)]
<1>. DEFINE R == job[j].r
<1>. USE DEF Chained, At
<1>1. R \in Replicas /\ chain \in [Replicas -> Seq(Jobs)]
  BY DEF IndInv, Serial, TypeOK
<1>2. Len(chain[R]) > 0 /\ chain[R][1] = j /\ chain[R] # <<>>
  <2>1. \E a \in 1 .. Len(chain[R]) : chain[R][a] = j
    BY DEF IndInv, Serial, Syncing
  <2>2. chain[R][1] = j
    BY <1>1, <2>1 DEF IndInv, Serial, Syncing, Turn
  <2>. QED BY <1>1, <2>1, <2>2
<1>3. /\ chain'[R] = Tail(chain[R]) /\ Tail(chain[R]) \in Seq(Jobs)
      /\ Len(Tail(chain[R])) = Len(chain[R]) - 1
      /\ \A i \in 1 .. Len(Tail(chain[R])) : Tail(chain[R])[i] = chain[R][i + 1]
      /\ \A q \in Replicas \ {R} : chain'[q] = chain[q]
      /\ chain' \in [Replicas -> Seq(Jobs)]
  <2>1. /\ Tail(chain[R]) \in Seq(Jobs)
        /\ Len(Tail(chain[R])) = Len(chain[R]) - 1
        /\ \A i \in 1 .. Len(Tail(chain[R])) : Tail(chain[R])[i] = chain[R][i + 1]
    BY <1>1, <1>2, HeadTailProperties
  <2>. QED BY <1>1, <2>1 DEF Release
<1>4. \A q \in Replicas : Len(chain[q]) \in Nat
  BY <1>1
<1>5. ChainMoves'
  <2>1. \A q \in Replicas : \A a, b \in 1 .. Len(chain[q]) :
          /\ chain[q][a] \in Jobs
          /\ job[chain[q][a]].r = q /\ job[chain[q][a]].pc \in Chained
          /\ chain[q][a] = chain[q][b] => a = b
    BY <1>1 DEF IndInv, ChainMoves
  <2>2. ASSUME NEW r \in Replicas, r # R, NEW a \in 1 .. Len(chain'[r]), NEW b \in 1 .. Len(chain'[r])
        PROVE  /\ job'[chain'[r][a]].r = r
               /\ job'[chain'[r][a]].pc \in Chained
               /\ chain'[r][a] = chain'[r][b] => a = b
    <3>1. chain'[r] = chain[r]
      BY <1>3, <2>2
    <3>2. chain[r][a] # j /\ chain[r][a] \in Jobs
      BY <2>1, <2>2, <3>1
    <3>. QED BY <2>1, <2>2, <3>1, <3>2
  <2>3. ASSUME NEW a \in 1 .. Len(chain'[R]), NEW b \in 1 .. Len(chain'[R])
        PROVE  /\ job'[chain'[R][a]].r = R
               /\ job'[chain'[R][a]].pc \in Chained
               /\ chain'[R][a] = chain'[R][b] => a = b
    <3>1. /\ a + 1 \in 1 .. Len(chain[R]) /\ b + 1 \in 1 .. Len(chain[R]) /\ 1 \in 1 .. Len(chain[R])
          /\ chain'[R][a] = chain[R][a + 1] /\ chain'[R][b] = chain[R][b + 1]
          /\ a + 1 # 1 /\ (a + 1 = b + 1 => a = b)
      BY <1>1, <1>2, <1>3, <1>4
    <3>2. chain[R][a + 1] # j
      BY <1>1, <1>2, <2>1, <3>1
    <3>. QED BY <1>1, <2>1, <3>1, <3>2, SMTT(30)
  <2>. QED BY <2>2, <2>3 DEF ChainMoves
<1>6. ASSUME NEW k \in Jobs
      PROVE  /\ job'[k].pc # "idle" => job'[k].r \in Replicas
             /\ At(k, "queued")' \/ k \in Syncing' =>
                  \E a \in 1 .. Len(chain'[job'[k].r]) : chain'[job'[k].r][a] = k
             /\ k \in Syncing' =>
                  /\ chain'[job'[k].r][1] = k
                  /\ job'[k].pc # "rest" /\ tool' # None => tool'.by # job'[k].r
  <2>1. CASE k = j
    BY <1>1, <2>1 DEF Syncing
  <2>2. CASE k # j /\ job[k].r = R
    <3>1. k \notin Syncing
      BY <1>2, <2>2 DEF IndInv, Serial
    <3>2. ASSUME job[k].pc = "queued"
          PROVE  \E a \in 1 .. Len(chain'[R]) : chain'[R][a] = k
      <4>1. PICK a \in 1 .. Len(chain[R]) : chain[R][a] = k
        BY <2>2, <3>2 DEF IndInv, Serial
      <4>2. a # 1
        BY <1>2, <2>2, <4>1
      <4>3. a - 1 \in 1 .. Len(chain'[R]) /\ (a - 1) + 1 = a
        BY <1>1, <1>3, <1>4, <4>1, <4>2
      <4>. QED BY <1>3, <4>1, <4>3
    <3>. QED BY <1>1, <2>2, <3>1, <3>2 DEF Syncing
  <2>3. CASE k # j /\ job[k].r # R
    BY <1>3, <2>3 DEF IndInv, Serial, Syncing
  <2>. QED BY <2>1, <2>2, <2>3
<1>. QED BY <1>3, <1>5, <1>6 DEF Serial

\* A new job joins the chain of its replica.
LEMMA Joined ==
  ASSUME IndInv, NEW j \in Jobs, job' \in [Jobs -> Job],
         \A k \in Jobs \ {j} : job'[k] = job[k],
         At(j, "open"), job'[j].pc = "queued", job'[j].r = job[j].r,
         chain' = [chain EXCEPT ![job[j].r] = Append(@, j)], tool' = tool
  PROVE  Serial' /\ ChainMoves' /\ chain' \in [Replicas -> Seq(Jobs)]
<1>. DEFINE R == job[j].r
<1>. USE DEF Chained, At
<1>1. R \in Replicas /\ chain \in [Replicas -> Seq(Jobs)]
  BY DEF IndInv, Serial, TypeOK
<1>2. /\ chain'[R] = Append(chain[R], j) /\ chain'[R] \in Seq(Jobs)
      /\ Len(chain'[R]) = Len(chain[R]) + 1
      /\ \A i \in 1 .. Len(chain[R]) : chain'[R][i] = chain[R][i]
      /\ chain'[R][Len(chain[R]) + 1] = j
      /\ \A q \in Replicas \ {R} : chain'[q] = chain[q]
      /\ chain' \in [Replicas -> Seq(Jobs)]
  BY <1>1, AppendProperties
<1>3. \A q \in Replicas : Len(chain[q]) \in Nat
  BY <1>1
<1>4. \A q \in Replicas : \A a \in 1 .. Len(chain[q]) :
        /\ chain[q][a] \in Jobs /\ chain[q][a] # j
        /\ job'[chain[q][a]].r = q /\ job'[chain[q][a]].pc \in Chained
  BY <1>1 DEF IndInv, ChainMoves
<1>5. ChainMoves'
  <2>. SUFFICES ASSUME NEW r \in Replicas, NEW a \in 1 .. Len(chain'[r]), NEW b \in 1 .. Len(chain'[r])
                PROVE  /\ job'[chain'[r][a]].r = r
                       /\ job'[chain'[r][a]].pc \in Chained
                       /\ chain'[r][a] = chain'[r][b] => a = b
    BY DEF ChainMoves
  <2>1. CASE r # R
    BY <1>2, <1>4, <2>1 DEF IndInv, ChainMoves
  <2>2. CASE r = R
    <3>1. \A c \in 1 .. Len(chain'[R]) : c \in 1 .. Len(chain[R]) \/ c = Len(chain[R]) + 1
      BY <1>1, <1>2, <1>3
    <3>2. job'[chain'[R][a]].r = R /\ job'[chain'[R][a]].pc \in Chained
      BY <1>2, <1>4, <2>2, <3>1, <1>1
    <3>3. chain'[R][a] = chain'[R][b] => a = b
      BY <1>1, <1>2, <1>4, <2>2, <3>1 DEF IndInv, ChainMoves
    <3>. QED BY <2>2, <3>2, <3>3
  <2>. QED BY <2>1, <2>2
<1>6. ASSUME NEW k \in Jobs
      PROVE  /\ job'[k].pc # "idle" => job'[k].r \in Replicas
             /\ At(k, "queued")' \/ k \in Syncing' =>
                  \E a \in 1 .. Len(chain'[job'[k].r]) : chain'[job'[k].r][a] = k
             /\ k \in Syncing' =>
                  /\ chain'[job'[k].r][1] = k
                  /\ job'[k].pc # "rest" /\ tool' # None => tool'.by # job'[k].r
  <2>1. CASE k = j
    <3>1. Len(chain[R]) + 1 \in 1 .. Len(chain'[R])
      BY <1>1, <1>2, <1>3
    <3>. QED BY <1>1, <1>2, <2>1, <3>1 DEF Syncing
  <2>2. CASE k # j /\ job[k].r = R
    <3>1. \A a \in 1 .. Len(chain[R]) : a \in 1 .. Len(chain'[R]) /\ 1 \in 1 .. Len(chain[R])
      BY <1>1, <1>2, <1>3
    <3>. QED BY <1>1, <1>2, <2>2, <3>1 DEF IndInv, Serial, Syncing
  <2>3. CASE k # j /\ job[k].r # R
    BY <1>2, <2>3 DEF IndInv, Serial, Syncing
  <2>. QED BY <2>1, <2>2, <2>3
<1>. QED BY <1>2, <1>5, <1>6 DEF Serial

-----------------------------------------------------------------------------
(* The steps of a job.                                                     *)

LEMMA ResumeFacts ==
  ASSUME TypeOK, NEW j \in Jobs, Resume(j)
  PROVE  /\ job' \in [Jobs -> Job]
         /\ \A k \in Jobs \ {j} : job'[k] = job[k]
         /\ job'[j].prior \in {None, job[j].prior}
         /\ job'[j].pc = "idle" \/ (job'[j].pc = "call" /\ job'[j].r = job[j].r)
<1>1. CASE Goto(j, "call")
  BY <1>1, GotoFacts DEF Pcs
<1>2. CASE Done(j)
  BY <1>2, DoneFacts
<1>. QED BY <1>1, <1>2 DEF Resume

\* A baseline is never invented, and a definition goes into the catalog only
\* after it has been pinned.
LEMMA Trusted ==
  ASSUME IndInv, NEW j \in Jobs,
         \A k \in Jobs \ {j} : job'[k] = job[k],
         job'[j].prior \in {None, job[j].prior, fp},
         trusted \subseteq trusted', loose \subseteq loose',
         fp' = None \/ fp'.approved \in trusted',
         job'[j].pc \in {"pin", "insert", "approve"} => job'[j].def \in Defs,
         Mode = "enforce" /\ job'[j].pc = "insert" => job'[j].def \in trusted' \cup loose',
         \/ tool' = None \/ tool' = tool
         \/ tool # None /\ tool'.def = tool.def
         \/ job[j].pc = "insert" /\ tool'.def = job[j].def
  PROVE  Trust' /\ Traced'
<1>1. Traced'
  BY DEF IndInv, Trust, Traced
<1>2. ASSUME NEW k \in Jobs
      PROVE  /\ job'[k].prior # None => job'[k].prior.approved \in trusted'
             /\ job'[k].pc \in {"pin", "insert", "approve"} => job'[k].def \in Defs
             /\ Mode = "enforce" /\ job'[k].pc = "insert" => job'[k].def \in trusted' \cup loose'
  BY DEF IndInv, Trust
<1>. QED BY <1>1, <1>2 DEF Trust

LEMMA Connection ==
  ASSUME IndInv, NEW j \in Jobs,
         Start(j) \/ Connecting(j) \/ Authorize(j) \/ Open(j) \/ Finish(j) \/ Call(j)
  PROVE  IndInv'
<1>. USE DEF Pcs, Chained, At, env, rows, history
<1>0. TypeOK /\ (job[j].pc # "idle" => job[j].r \in Replicas)
      /\ (fp = None \/ fp.approved \in trusted)
  BY DEF IndInv, Serial, Trust
<1>1. CASE Start(j)
  <2>1. /\ job' \in [Jobs -> Job]
        /\ \A k \in Jobs \ {j} : job'[k] = job[k]
        /\ job'[j].prior \in {None, job[j].prior}
        /\ \/ job'[j].pc = "idle"
           \/ job'[j].pc \in {"call", "connecting"} /\ job'[j].r = job[j].r
    BY <1>0, <1>1, GotoFacts, ResumeFacts DEF Start
  <2>2. Serial' /\ ChainMoves'
    BY <1>0, <1>1, <2>1, Elsewhere DEF Start
  <2>3. Trust' /\ Traced'
    BY <1>0, <1>1, <2>1, Trusted DEF Start
  <2>. QED BY <1>0, <1>1, <2>1, <2>2, <2>3 DEF Start, TypeOK, IndInv
<1>2. CASE Connecting(j)
  <2>1. /\ job' \in [Jobs -> Job]
        /\ \A k \in Jobs \ {j} : job'[k] = job[k]
        /\ job'[j].prior = job[j].prior
        /\ job'[j].pc = "auth" /\ job'[j].r = job[j].r
    BY <1>0, <1>2, GotoFacts DEF Connecting
  <2>2. Serial' /\ ChainMoves'
    BY <1>0, <1>2, <2>1, Elsewhere DEF Connecting
  <2>3. Trust' /\ Traced'
    BY <1>0, <1>2, <2>1, Trusted DEF Connecting
  <2>. QED BY <1>0, <1>2, <2>1, <2>2, <2>3 DEF Connecting, SetStatus, TypeOK, IndInv
<1>3. CASE Open(j)
  <2>1. CASE conn' = [conn EXCEPT ![job[j].r] = TRUE] /\ Goto(j, "queued")
             /\ chain' = [chain EXCEPT ![job[j].r] = Append(@, j)]
    <3>1. /\ job' \in [Jobs -> Job]
          /\ \A k \in Jobs \ {j} : job'[k] = job[k]
          /\ job'[j].prior = job[j].prior
          /\ job'[j].pc = "queued" /\ job'[j].r = job[j].r
      BY <1>0, <2>1, GotoFacts
    <3>2. Serial' /\ ChainMoves' /\ chain' \in [Replicas -> Seq(Jobs)]
      BY <1>3, <2>1, <3>1, Joined DEF Open
    <3>3. Trust' /\ Traced'
      BY <1>0, <1>3, <3>1, Trusted DEF Open
    <3>. QED BY <1>0, <1>3, <2>1, <3>1, <3>2, <3>3 DEF Open, TypeOK, IndInv
  <2>2. CASE Leave(j, "failed") /\ UNCHANGED <<conn, chain>>
    <3>1. /\ job' \in [Jobs -> Job]
          /\ \A k \in Jobs \ {j} : job'[k] = job[k]
          /\ job'[j].prior = None
          /\ job'[j].pc = "failed" /\ job'[j].r = job[j].r
      BY <1>0, <2>2, LeaveFacts
    <3>2. Serial' /\ ChainMoves'
      BY <1>0, <1>3, <2>2, <3>1, Elsewhere DEF Open
    <3>3. Trust' /\ Traced'
      BY <1>0, <1>3, <3>1, Trusted DEF Open
    <3>. QED BY <1>0, <1>3, <2>2, <3>1, <3>2, <3>3 DEF Open, TypeOK, IndInv
  <2>. QED BY <1>3, <2>1, <2>2 DEF Open
<1>4. CASE Finish(j)
  <2>1. /\ job' \in [Jobs -> Job]
        /\ \A k \in Jobs \ {j} : job'[k] = job[k]
        /\ job'[j].prior \in {None, job[j].prior}
        /\ job'[j].pc = "idle" \/ (job'[j].pc = "call" /\ job'[j].r = job[j].r)
    BY <1>0, <1>4, ResumeFacts DEF Finish
  <2>2. Serial' /\ ChainMoves'
    BY <1>0, <1>4, <2>1, Elsewhere DEF Finish
  <2>3. Trust' /\ Traced'
    BY <1>0, <1>4, <2>1, Trusted DEF Finish
  <2>. QED BY <1>0, <1>4, <2>1, <2>2, <2>3 DEF Finish, SetStatus, Outcome, TypeOK, IndInv
<1>5. CASE Call(j)
  <2>1. /\ job' \in [Jobs -> Job]
        /\ \A k \in Jobs \ {j} : job'[k] = job[k]
        /\ job'[j].prior = None /\ job'[j].pc = "idle"
    BY <1>0, <1>5, DoneFacts DEF Call
  <2>2. Serial' /\ ChainMoves'
    BY <1>0, <1>5, <2>1, Elsewhere DEF Call
  <2>3. Trust' /\ Traced'
    BY <1>0, <1>5, <2>1, Trusted DEF Call
  <2>. QED BY <1>0, <1>5, <2>1, <2>2, <2>3 DEF Call, TypeOK, IndInv
<1>6. CASE Authorize(j)
  <2>1. /\ job' \in [Jobs -> Job]
        /\ \A k \in Jobs \ {j} : job'[k] = job[k]
        /\ job'[j].prior \in {None, job[j].prior}
        /\ job'[j].pc \in {"open", "failed"} /\ job'[j].r = job[j].r
    BY <1>0, <1>6, GotoFacts, LeaveFacts DEF Authorize
  <2>2. Serial' /\ ChainMoves'
    BY <1>0, <1>6, <2>1, Elsewhere DEF Authorize
  <2>3. Trust' /\ Traced'
    BY <1>0, <1>6, <2>1, Trusted DEF Authorize
  <2>. QED BY <1>0, <1>6, <2>1, <2>2, <2>3 DEF Authorize, TypeOK, IndInv
<1>. QED BY <1>1, <1>2, <1>3, <1>4, <1>5, <1>6

\* The INSERT of the catalog row, by the only sync of the replica under way.
LEMMA Inserting ==
  ASSUME IndInv, NEW j \in Jobs, InsertTool(j)
  PROVE  IndInv'
<1>. USE DEF Pcs, Chained, At, env, rows, history
<1>0. TypeOK /\ job[j].r \in Replicas /\ job[j].def \in Defs
      /\ (fp = None \/ fp.approved \in trusted)
  BY DEF IndInv, Serial, Trust, InsertTool
<1>1. /\ job' \in [Jobs -> Job]
      /\ \A k \in Jobs \ {j} : job'[k] = job[k]
      /\ job'[j].prior = None /\ job'[j].pc = "rest" /\ job'[j].r = job[j].r
  BY <1>0, LeaveFacts DEF InsertTool
<1>2. Trust' /\ Traced'
  BY <1>0, <1>1, Trusted DEF InsertTool
<1>3. ChainMoves'
  BY <1>1 DEF InsertTool, IndInv, ChainMoves, TypeOK
<1>4. ASSUME NEW k \in Jobs
      PROVE  /\ job'[k].pc # "idle" => job'[k].r \in Replicas
             /\ At(k, "queued")' \/ k \in Syncing' =>
                  \E a \in 1 .. Len(chain'[job'[k].r]) : chain'[job'[k].r][a] = k
             /\ k \in Syncing' =>
                  /\ chain'[job'[k].r][1] = k
                  /\ job'[k].pc # "rest" /\ tool' # None => tool'.by # job'[k].r
  <2>1. CASE k = j
    BY <1>0, <1>1, <2>1 DEF InsertTool, IndInv, Serial, Syncing
  <2>2. CASE k # j
    <3>1. k \in Syncing => job[k].r # job[j].r
      BY <2>2 DEF InsertTool, IndInv, Serial, Syncing
    <3>2. tool' = tool \/ tool'.by = job[j].r
      BY DEF InsertTool
    <3>. QED BY <1>1, <2>2, <3>1, <3>2 DEF InsertTool, IndInv, Serial, Syncing
  <2>. QED BY <2>1, <2>2
<1>5. TypeOK'
  <2>1. tool' \in Row \cup {None}
    BY <1>0 DEF InsertTool, TypeOK, Row
  <2>. QED BY <1>0, <1>1, <2>1 DEF InsertTool, TypeOK
<1>. QED BY <1>2, <1>3, <1>4, <1>5 DEF IndInv, Serial

LEMMA Synchronising ==
  ASSUME IndInv, NEW j \in Jobs,
         DeleteTools(j) \/ LoadFingerprints(j) \/ ListTools(j) \/ PinTool(j) \/ Rest(j)
  PROVE  IndInv'
<1>. USE DEF Pcs, Chained, At, env, rows, history
<1>0. TypeOK /\ (job[j].pc # "idle" => job[j].r \in Replicas)
      /\ (fp = None \/ fp.approved \in trusted)
      /\ (job[j].prior = None \/ job[j].prior.approved \in trusted)
  BY DEF IndInv, Serial, Trust
<1>1. CASE DeleteTools(j)
  <2>1. /\ job' \in [Jobs -> Job]
        /\ \A k \in Jobs \ {j} : job'[k] = job[k]
        /\ job'[j].prior = job[j].prior
        /\ job'[j].pc = "load" /\ job'[j].r = job[j].r
    BY <1>0, <1>1, GotoFacts DEF DeleteTools
  <2>2. Serial' /\ ChainMoves'
    BY <1>0, <1>1, <2>1, Elsewhere DEF DeleteTools
  <2>3. Trust' /\ Traced'
    BY <1>0, <1>1, <2>1, Trusted DEF DeleteTools
  <2>. QED BY <1>0, <1>1, <2>1, <2>2, <2>3 DEF DeleteTools, TypeOK, IndInv
<1>2. CASE LoadFingerprints(j)
  <2>1. /\ job' \in [Jobs -> Job]
        /\ \A k \in Jobs \ {j} : job'[k] = job[k]
        /\ job'[j].prior \in {None, fp}
        /\ job'[j].pc = "list" /\ job'[j].r = job[j].r
    <3>1. PICK p \in Fingerprint \cup {None} :
            p \in {None, fp} /\ job' = [job EXCEPT ![j].pc = "list", ![j].prior = p]
      <4>1. fp \in Fingerprint \cup {None}
        BY <1>0 DEF TypeOK
      <4>. QED BY <1>2, <4>1 DEF LoadFingerprints, Baseline
    <3>2. job \in [Jobs -> Job]
      BY <1>0 DEF TypeOK
    <3>. QED BY <3>1, <3>2, ZenonT(40) DEF Job
  <2>2. Serial' /\ ChainMoves'
    BY <1>0, <1>2, <2>1, Elsewhere DEF LoadFingerprints
  <2>3. Trust' /\ Traced'
    BY <1>0, <1>2, <2>1, Trusted DEF LoadFingerprints
  <2>. QED BY <1>0, <1>2, <2>1, <2>2, <2>3 DEF LoadFingerprints, TypeOK, IndInv
<1>3. CASE ListTools(j)
  <2>1. CASE /\ live \in Defs /\ UNCHANGED chain
             /\ job' = [job EXCEPT ![j].pc = IF Mode = "off" THEN "insert" ELSE "pin",
                                   ![j].def = live]
    <3>1. /\ job' \in [Jobs -> Job]
          /\ \A k \in Jobs \ {j} : job'[k] = job[k]
          /\ job'[j].prior = job[j].prior /\ job'[j].def = live
          /\ job'[j].pc \in {"insert", "pin"} /\ job'[j].r = job[j].r
          /\ (Mode = "enforce" => job'[j].pc = "pin")
      <4>1. job \in [Jobs -> Job] /\ job[j] \in Job
        BY <1>0 DEF TypeOK
      <4>2. job'[j] = [job[j] EXCEPT !.pc = IF Mode = "off" THEN "insert" ELSE "pin", !.def = live]
        BY <2>1, <4>1
      <4>3. job'[j] \in Job
        BY <2>1, <4>1, <4>2 DEF Job
      <4>4. job' = [job EXCEPT ![j] = job'[j]]
        BY <2>1, <4>1
      <4>5. job' \in [Jobs -> Job] /\ \A k \in Jobs \ {j} : job'[k] = job[k]
        BY <4>1, <4>3, <4>4
      <4>. QED BY <4>1, <4>2, <4>5 DEF Job
    <3>2. Serial' /\ ChainMoves'
      BY <1>0, <1>3, <2>1, <3>1, Elsewhere DEF ListTools
    <3>3. Trust' /\ Traced'
      BY <1>0, <1>3, <2>1, <3>1, Trusted DEF ListTools
    <3>. QED BY <1>0, <1>3, <2>1, <3>1, <3>2, <3>3 DEF ListTools, TypeOK, IndInv
  <2>2. CASE Leave(j, "rest") /\ UNCHANGED chain
    <3>1. /\ job' \in [Jobs -> Job]
          /\ \A k \in Jobs \ {j} : job'[k] = job[k]
          /\ job'[j].prior = None
          /\ job'[j].pc = "rest" /\ job'[j].r = job[j].r
      BY <1>0, <2>2, LeaveFacts
    <3>2. Serial' /\ ChainMoves'
      BY <1>0, <1>3, <2>2, <3>1, Elsewhere DEF ListTools
    <3>3. Trust' /\ Traced'
      BY <1>0, <1>3, <3>1, Trusted DEF ListTools
    <3>. QED BY <1>0, <1>3, <2>2, <3>1, <3>2, <3>3 DEF ListTools, TypeOK, IndInv
  <2>3. CASE Leave(j, "failed") /\ Release(j)
    <3>1. /\ job' \in [Jobs -> Job]
          /\ \A k \in Jobs \ {j} : job'[k] = job[k]
          /\ job'[j].prior = None
          /\ job'[j].pc = "failed" /\ job'[j].r = job[j].r
      BY <1>0, <2>3, LeaveFacts
    <3>2. Serial' /\ ChainMoves' /\ chain' \in [Replicas -> Seq(Jobs)]
      BY <1>0, <1>3, <2>3, <3>1, Released DEF ListTools
    <3>3. Trust' /\ Traced'
      BY <1>0, <1>3, <3>1, Trusted DEF ListTools
    <3>. QED BY <1>0, <1>3, <2>3, <3>1, <3>2, <3>3 DEF ListTools, TypeOK, IndInv
  <2>. QED BY <1>3, <2>1, <2>2, <2>3 DEF ListTools
<1>4. CASE PinTool(j)
  <2>1. job[j].def \in Defs
    BY <1>4 DEF PinTool, IndInv, Trust
  <2>2. /\ job' \in [Jobs -> Job]
        /\ \A k \in Jobs \ {j} : job'[k] = job[k]
        /\ job'[j].prior \in {None, job[j].prior} /\ job'[j].r = job[j].r
        /\ \/ job'[j].pc = "rest"
           \/ job'[j].pc = "insert" /\ job'[j].def = job[j].def
    BY <1>0, <1>4, GotoFacts, LeaveFacts DEF PinTool, PinFirst, PinSame, PinChanged
  <2>3. /\ trusted \subseteq trusted' /\ trusted' \subseteq Defs
        /\ loose \subseteq loose' /\ loose' \subseteq Defs
        /\ fp' \in Fingerprint \cup {None}
        /\ fp' = None \/ fp'.approved \in trusted'
    <3>1. fp = None \/ (fp \in Fingerprint /\ fp.approved \in trusted)
      BY <1>0 DEF TypeOK
    <3>2. \A d \in Defs \cup {None} : SetPending(d) =>
            fp' = None \/ (fp' \in Fingerprint /\ fp'.approved \in trusted)
      BY <3>1 DEF SetPending, Fingerprint
    <3>3. CASE PinFirst(j)
      BY <1>0, <1>4, <2>1, <3>1, <3>3 DEF PinTool, PinFirst, TypeOK, Fingerprint
    <3>4. CASE PinSame(j)
      BY <1>0, <3>1, <3>2, <3>4 DEF PinSame, TypeOK
    <3>5. CASE PinChanged(j)
      BY <1>0, <2>1, <3>1, <3>2, <3>5 DEF PinChanged, TypeOK
    <3>. QED BY <1>4, <3>3, <3>4, <3>5 DEF PinTool
  <2>4. Mode = "enforce" /\ job'[j].pc = "insert" => job[j].def \in trusted' \cup loose'
    <3>1. CASE PinFirst(j)
      BY <1>0, <3>1 DEF PinFirst
    <3>2. CASE PinSame(j)
      BY <1>0, <3>2 DEF PinSame
    <3>3. CASE PinChanged(j)
      BY <1>0, <2>2, <3>3, LeaveFacts DEF PinChanged, Quarantined
    <3>. QED BY <1>4, <3>1, <3>2, <3>3 DEF PinTool
  <2>5. Serial' /\ ChainMoves'
    BY <1>0, <1>4, <2>2, Elsewhere DEF PinTool
  <2>6. Trust' /\ Traced'
    BY <1>0, <1>4, <2>1, <2>2, <2>3, <2>4, Trusted DEF PinTool
  <2>. QED BY <1>0, <1>4, <2>2, <2>3, <2>5, <2>6 DEF PinTool, TypeOK, IndInv
<1>5. CASE Rest(j)
  <2>1. /\ job' \in [Jobs -> Job]
        /\ \A k \in Jobs \ {j} : job'[k] = job[k]
        /\ job'[j].prior \in {None, job[j].prior}
        /\ job'[j].pc \in {"online", "failed"} /\ job'[j].r = job[j].r
    BY <1>0, <1>5, GotoFacts, LeaveFacts DEF Rest
  <2>2. Serial' /\ ChainMoves' /\ chain' \in [Replicas -> Seq(Jobs)]
    BY <1>0, <1>5, <2>1, Released DEF Rest
  <2>3. Trust' /\ Traced'
    BY <1>0, <1>5, <2>1, Trusted DEF Rest
  <2>. QED BY <1>0, <1>5, <2>1, <2>2, <2>3 DEF Rest, TypeOK, IndInv
<1>. QED BY <1>1, <1>2, <1>3, <1>4, <1>5

-----------------------------------------------------------------------------
(* What starts an operation, and the operations on the rows.               *)

LEMMA Beginnings ==
  ASSUME IndInv, NEW j \in Jobs, NEW r \in Replicas,
         Sync(j, r) \/ Invoke(j, r) \/ Approve(j, r) \/ Update(j, r) \/ DeleteServer(j, r)
  PROVE  IndInv'
<1>. USE DEF Pcs, Chained, At, env, rows, history
<1>0. TypeOK /\ (fp = None \/ fp.approved \in trusted)
  BY DEF IndInv, Trust
<1>1. PICK kind \in {"sync", "invoke"},
           pc \in {"start", "call", "approve", "edited", "delTools"}, d \in Defs \cup {None} :
             Begin(j, kind, pc, r, d) /\ (pc = "approve" => d \in Defs)
  <2>1. CASE Sync(j, r)
    BY <2>1 DEF Sync
  <2>2. CASE Invoke(j, r)
    BY <2>2 DEF Invoke
  <2>3. CASE Approve(j, r)
    <3>1. fp \in Fingerprint /\ fp.pending \in Defs
      BY <1>0, <2>3 DEF Approve, TypeOK, Fingerprint
    <3>. QED BY <2>3, <3>1 DEF Approve
  <2>4. CASE Update(j, r)
    BY <2>4 DEF Update
  <2>5. CASE DeleteServer(j, r)
    BY <2>5 DEF DeleteServer
  <2>. QED BY <2>1, <2>2, <2>3, <2>4, <2>5
<1>2. /\ job' \in [Jobs -> Job]
      /\ \A k \in Jobs \ {j} : job'[k] = job[k]
      /\ job[j].pc = "idle" /\ job'[j].pc = pc /\ job'[j].r = r
      /\ job'[j].def = d /\ job'[j].prior = None
  BY <1>0, <1>1, BeginFacts
<1>3. /\ UNCHANGED <<live, status, tool, fp, chain, trusted, loose, overlap, changes, faults>>
      /\ server' \in {"enabled", "disabled", "gone"}
      /\ conn' \in [Replicas -> BOOLEAN] /\ edits' \in Nat
  <2>1. CASE Sync(j, r) \/ Invoke(j, r) \/ Approve(j, r)
    BY <1>0, <2>1 DEF Sync, Invoke, Approve, TypeOK
  <2>2. CASE Update(j, r)
    BY <1>0, <2>2 DEF Update, TypeOK
  <2>3. CASE DeleteServer(j, r)
    BY <1>0, <2>3 DEF DeleteServer, TypeOK
  <2>. QED BY <2>1, <2>2, <2>3
<1>4. Serial' /\ ChainMoves'
  BY <1>1, <1>2, <1>3, Elsewhere
<1>5. Trust' /\ Traced'
  BY <1>0, <1>1, <1>2, <1>3, Trusted
<1>. QED BY <1>0, <1>2, <1>3, <1>4, <1>5 DEF TypeOK, IndInv

LEMMA Operations ==
  ASSUME IndInv, NEW j \in Jobs,
         ApproveWrite(j) \/ Updated(j) \/ TurnOff(j) \/ DeleteRows(j)
  PROVE  IndInv'
<1>. USE DEF Pcs, Chained, At, env, rows, history
<1>0. TypeOK /\ (job[j].pc # "idle" => job[j].r \in Replicas)
      /\ (fp = None \/ fp.approved \in trusted)
  BY DEF IndInv, Serial, Trust
<1>1. /\ job' \in [Jobs -> Job]
      /\ \A k \in Jobs \ {j} : job'[k] = job[k]
      /\ job[j].pc \in {"approve", "edited", "off", "delTools", "delServer", "delFps"}
      /\ job'[j].prior \in {None, job[j].prior}
      /\ \/ job'[j].pc = "idle"
         \/ job'[j].pc \in {"start", "off", "delServer", "delFps"} /\ job'[j].r = job[j].r
  <2>1. CASE ApproveWrite(j)
    BY <1>0, <2>1, LeaveFacts DEF ApproveWrite
  <2>2. CASE Updated(j)
    BY <1>0, <2>2, GotoFacts DEF Updated
  <2>3. CASE TurnOff(j)
    BY <1>0, <2>3, DoneFacts DEF TurnOff
  <2>4. CASE DeleteRows(j)
    BY <1>0, <2>4, GotoFacts, DoneFacts DEF DeleteRows
  <2>. QED BY <2>1, <2>2, <2>3, <2>4
<1>2. /\ fp' \in Fingerprint \cup {None}
      /\ fp' = None \/ fp'.approved \in trusted'
      /\ trusted \subseteq trusted' /\ trusted' \subseteq Defs
  <2>1. CASE ApproveWrite(j)
    <3>1. job[j].def \in Defs
      BY <2>1 DEF ApproveWrite, IndInv, Trust
    <3>. QED BY <1>0, <2>1, <3>1 DEF ApproveWrite, TypeOK, Fingerprint
  <2>2. CASE Updated(j) \/ TurnOff(j) \/ DeleteRows(j)
    BY <1>0, <2>2 DEF Updated, TurnOff, DeleteRows, TypeOK
  <2>. QED BY <2>1, <2>2
<1>3. /\ UNCHANGED <<live, chain, loose, overlap, changes, edits, faults>>
      /\ tool' \in {None, tool}
      /\ server' \in {server, "gone"}
      /\ status' \in {status, "disabled"}
      /\ conn' \in [Replicas -> BOOLEAN]
  BY <1>0 DEF ApproveWrite, Updated, TurnOff, DeleteRows, SetStatus, TypeOK
<1>4. Serial' /\ ChainMoves'
  BY <1>0, <1>1, <1>3, Elsewhere
<1>5. Trust' /\ Traced'
  BY <1>1, <1>2, <1>3, Trusted
<1>. QED BY <1>0, <1>1, <1>2, <1>3, <1>4, <1>5 DEF TypeOK, IndInv

-----------------------------------------------------------------------------
(* Failures and restarts.                                                  *)

LEMMA Failing ==
  ASSUME IndInv, NEW j \in Jobs, Fault(j)
  PROVE  IndInv'
<1>. USE DEF Pcs, Chained, At, env, rows, history
<1>0. TypeOK /\ (job[j].pc # "idle" => job[j].r \in Replicas)
      /\ (fp = None \/ fp.approved \in trusted)
  BY DEF IndInv, Serial, Trust
<1>1. /\ UNCHANGED <<live, changes, server, status, tool, fp, conn, trusted, overlap, edits>>
      /\ faults' \in Nat
  BY <1>0 DEF Fault, TypeOK
<1>2. CASE /\ job[j].pc \in {"start", "connecting", "failed", "edited", "off",
                             "delTools", "delServer", "delFps"}
           /\ Done(j) /\ UNCHANGED <<chain, loose>>
  <2>1. /\ job' \in [Jobs -> Job]
        /\ \A k \in Jobs \ {j} : job'[k] = job[k]
        /\ job'[j].prior = None /\ job'[j].pc = "idle"
    BY <1>0, <1>2, DoneFacts
  <2>2. Serial' /\ ChainMoves'
    BY <1>1, <1>2, <2>1, Elsewhere
  <2>3. Trust' /\ Traced'
    BY <1>0, <1>1, <1>2, <2>1, Trusted
  <2>. QED BY <1>0, <1>1, <1>2, <2>1, <2>2, <2>3 DEF TypeOK, IndInv
<1>3. CASE At(j, "queued") /\ Turn(j) /\ Leave(j, "failed") /\ Release(j) /\ UNCHANGED loose
  <2>1. /\ job' \in [Jobs -> Job]
        /\ \A k \in Jobs \ {j} : job'[k] = job[k]
        /\ job'[j].prior = None /\ job'[j].pc = "failed" /\ job'[j].r = job[j].r
    BY <1>0, <1>3, LeaveFacts
  <2>2. Serial' /\ ChainMoves' /\ chain' \in [Replicas -> Seq(Jobs)]
    BY <1>1, <1>3, <2>1, Released
  <2>3. Trust' /\ Traced'
    BY <1>0, <1>1, <1>3, <2>1, Trusted
  <2>. QED BY <1>0, <1>1, <1>3, <2>1, <2>2, <2>3 DEF TypeOK, IndInv
<1>4. CASE At(j, "load") /\ Goto(j, "list") /\ UNCHANGED <<chain, loose>>
  <2>1. /\ job' \in [Jobs -> Job]
        /\ \A k \in Jobs \ {j} : job'[k] = job[k]
        /\ job'[j].prior = job[j].prior /\ job'[j].pc = "list" /\ job'[j].r = job[j].r
    BY <1>0, <1>4, GotoFacts
  <2>2. Serial' /\ ChainMoves'
    BY <1>0, <1>1, <1>4, <2>1, Elsewhere
  <2>3. Trust' /\ Traced'
    BY <1>0, <1>1, <1>4, <2>1, Trusted
  <2>. QED BY <1>0, <1>1, <1>4, <2>1, <2>2, <2>3 DEF TypeOK, IndInv
<1>5. CASE /\ At(j, "pin") /\ Goto(j, "insert") /\ UNCHANGED chain
           /\ loose \subseteq loose' /\ loose' \subseteq loose \cup {job[j].def}
           /\ Mode = "enforce" => job[j].def \in trusted \cup loose'
  <2>1. /\ job' \in [Jobs -> Job]
        /\ \A k \in Jobs \ {j} : job'[k] = job[k]
        /\ job'[j].prior = job[j].prior /\ job'[j].def = job[j].def
        /\ job'[j].pc = "insert" /\ job'[j].r = job[j].r
    BY <1>0, <1>5, GotoFacts
  <2>2. job[j].def \in Defs
    BY <1>5 DEF IndInv, Trust
  <2>3. Serial' /\ ChainMoves'
    BY <1>0, <1>1, <1>5, <2>1, Elsewhere
  <2>4. Trust' /\ Traced'
    BY <1>0, <1>1, <1>5, <2>1, <2>2, Trusted
  <2>. QED BY <1>0, <1>1, <1>5, <2>1, <2>2, <2>3, <2>4 DEF TypeOK, IndInv
<1>6. CASE job[j].pc \in {"pin", "insert"} /\ Leave(j, "rest") /\ UNCHANGED <<chain, loose>>
  <2>1. /\ job' \in [Jobs -> Job]
        /\ \A k \in Jobs \ {j} : job'[k] = job[k]
        /\ job'[j].prior = None /\ job'[j].pc = "rest" /\ job'[j].r = job[j].r
    BY <1>0, <1>6, LeaveFacts
  <2>2. Serial' /\ ChainMoves'
    BY <1>0, <1>1, <1>6, <2>1, Elsewhere
  <2>3. Trust' /\ Traced'
    BY <1>0, <1>1, <1>6, <2>1, Trusted
  <2>. QED BY <1>0, <1>1, <1>6, <2>1, <2>2, <2>3 DEF TypeOK, IndInv
<1>7. CASE \E pc \in {"failed", "start"} :
             /\ job[j].pc \in {"online", "approve"} /\ Leave(j, pc) /\ UNCHANGED <<chain, loose>>
  <2>1. /\ job' \in [Jobs -> Job]
        /\ \A k \in Jobs \ {j} : job'[k] = job[k]
        /\ job'[j].prior = None /\ job'[j].pc \in {"failed", "start"} /\ job'[j].r = job[j].r
    BY <1>0, <1>7, LeaveFacts
  <2>2. Serial' /\ ChainMoves'
    BY <1>0, <1>1, <1>7, <2>1, Elsewhere
  <2>3. Trust' /\ Traced'
    BY <1>0, <1>1, <1>7, <2>1, Trusted
  <2>. QED BY <1>0, <1>1, <1>7, <2>1, <2>2, <2>3 DEF TypeOK, IndInv
<1>8. ASSUME At(j, "pin"), job[j].prior # None, Goto(j, "insert"), UNCHANGED loose,
             ~ (job[j].prior.approved # job[j].def /\ Quarantined(Mode))
      PROVE  Mode = "enforce" => job[j].def \in trusted \cup loose'
  BY <1>8 DEF Quarantined, IndInv, Trust
<1>. QED BY <1>2, <1>3, <1>4, <1>5, <1>6, <1>7, <1>8 DEF Fault

LEMMA Crashing ==
  ASSUME IndInv, NEW r \in Replicas, Crash(r)
  PROVE  IndInv'
<1>. USE DEF Pcs, At, env, rows, history
<1>1. /\ Idle \in Job /\ Idle.pc = "idle" /\ Idle.prior = None
      /\ \A k \in Jobs : job'[k] = IF job[k].r = r THEN Idle ELSE job[k]
      /\ chain'[r] = <<>> /\ Len(chain'[r]) = 0
      /\ \A q \in Replicas \ {r} : chain'[q] = chain[q]
  BY DEF Crash, Idle, Job, IndInv, TypeOK
<1>2. TypeOK'
  <2>1. chain' \in [Replicas -> Seq(Jobs)] /\ job' \in [Jobs -> Job]
    BY <1>1 DEF Crash, IndInv, TypeOK
  <2>. QED BY <2>1 DEF Crash, IndInv, TypeOK
<1>3. Trust' /\ Traced'
  BY <1>1 DEF Crash, IndInv, Trust, Traced
<1>4. Serial'
  BY <1>1 DEF Crash, IndInv, Serial, Syncing
<1>5. ChainMoves'
  <2>1. \A q \in Replicas : \A a \in 1 .. Len(chain[q]) : chain[q][a] \in Jobs
    BY DEF IndInv, TypeOK
  <2>. QED BY <1>1, <2>1 DEF IndInv, ChainMoves
<1>. QED BY <1>2, <1>3, <1>4, <1>5 DEF IndInv

-----------------------------------------------------------------------------
(* Every step keeps the invariant.                                         *)

LEMMA StepIndInv == IndInv /\ [Next]_vars => IndInv'
<1>. SUFFICES ASSUME IndInv, [Next]_vars PROVE IndInv'
  OBVIOUS
<1>. USE DEF env, rows, history
<1>1. ASSUME NEW j \in Jobs, Step(j) PROVE IndInv'
  BY <1>1, Connection, Synchronising, Inserting, Operations DEF Step
<1>2. CASE SetToolEnabled
  <2>1. tool' # None => tool # None /\ tool'.def = tool.def /\ tool'.by = tool.by /\ tool' \in Row
    BY <1>2 DEF SetToolEnabled, IndInv, TypeOK, Row
  <2>2. TypeOK'
    BY <1>2, <2>1 DEF SetToolEnabled, IndInv, TypeOK
  <2>3. Trust' /\ Traced' /\ Serial' /\ ChainMoves'
    BY <1>2, <2>1 DEF SetToolEnabled, IndInv, Trust, Traced, Serial, Syncing,
                      ChainMoves, At
  <2>. QED BY <2>2, <2>3 DEF IndInv
<1>3. CASE ChangeTool
  BY <1>3 DEF ChangeTool, IndInv, TypeOK, Trust, Traced, Serial, Syncing, ChainMoves, At
<1>4. CASE UNCHANGED vars
  BY <1>4 DEF vars, IndInv, TypeOK, Trust, Traced, Serial, Syncing, ChainMoves, At
<1>. QED BY <1>1, <1>2, <1>3, <1>4, Failing, Beginnings, Crashing DEF Next

\* The inductive invariant holds in every reachable state.
THEOREM Invariance == Spec => []IndInv
BY InitIndInv, StepIndInv, PTL DEF Spec

-----------------------------------------------------------------------------
(* The ways that fail open.                                                *)

\* A step that starts no sync, gives no baseline and lets nothing through.
LEMMA Excused ==
  ASSUME TypeOK, Accident, NEW j \in Jobs,
         \A k \in Jobs \ {j} : job'[k] = job[k],
         overlap => overlap', faults > 0 => faults' > 0,
         j \in Syncing' => j \in Syncing \/ overlap' \/ Syncing = {},
         fp' = None \/ fp # None,
         job'[j].pc = "pin" => Mode # "off",
         job'[j].pc \in {"list", "pin"} /\ job'[j].prior = None =>
           Mode = "off" \/ fp' = None \/ faults' > 0 \/ overlap'
             \/ (job[j].pc \in {"list", "pin"} /\ job[j].prior = None),
         loose' = loose \/ faults' > 0 \/ overlap'
  PROVE  Accident'
<1>. USE DEF Accident, At
<1>1. \A k, m \in Syncing' : k = m \/ overlap'
  BY DEF Syncing
<1>2. \A k \in Jobs : job'[k].pc = "pin" => Mode # "off"
  OBVIOUS
<1>3. \A k \in Jobs :
        job'[k].pc \in {"list", "pin"} /\ job'[k].prior = None =>
          Mode = "off" \/ fp' = None \/ faults' > 0 \/ overlap'
  OBVIOUS
<1>. QED BY <1>1, <1>2, <1>3

\* The first of two pins gives the baseline; the other overlaps.
LEMMA PinningIsExcused ==
  ASSUME TypeOK, Accident, NEW j \in Jobs, At(j, "pin"), PinFirst(j),
         UNCHANGED <<overlap, faults>>
  PROVE  Accident'
<1>. USE DEF At, PinFirst
<1>1. /\ \A k \in Jobs \ {j} : job'[k] = job[k]
      /\ job'[j].pc = "insert"
  BY GotoFacts DEF Pcs
<1>2. j \in Syncing
  BY DEF Syncing
<1>3. CASE fp # None
  <2>1. faults > 0 \/ overlap
    BY <1>3 DEF Accident
  <2>. QED BY <1>1, <1>2, <1>3, <2>1, Excused
<1>4. CASE fp = None
  <2>1. \A k \in Jobs : job'[k].pc \in {"list", "pin"} => overlap
    BY <1>1, <1>2 DEF Accident, Syncing
  <2>2. \A k, m \in Syncing' : k = m \/ overlap'
    BY <1>1, <1>2 DEF Accident, Syncing
  <2>. QED BY <1>1, <1>4, <2>1, <2>2 DEF Accident
<1>. QED BY <1>3, <1>4

LEMMA StepAccident == TypeOK /\ Accident /\ [Next]_vars => Accident'
<1>. SUFFICES ASSUME TypeOK, Accident, [Next]_vars PROVE Accident'
  OBVIOUS
<1>. USE DEF Pcs, At, env, rows, history
<1>0. faults \in Nat
  BY DEF TypeOK
<1>1. ASSUME NEW j \in Jobs, Step(j) PROVE Accident'
  <2>1. CASE DeleteTools(j)
    <3>1. (\A k \in Jobs \ {j} : job'[k] = job[k]) /\ job'[j].pc = "load"
      BY <2>1, GotoFacts DEF DeleteTools
    <3>. QED BY <2>1, <3>1, Excused DEF DeleteTools
  <2>2. CASE LoadFingerprints(j)
    <3>1. /\ \A k \in Jobs \ {j} : job'[k] = job[k]
          /\ job'[j].pc = "list" /\ (job'[j].prior = None => Mode = "off" \/ fp' = None)
          /\ j \in Syncing
      BY <2>2 DEF LoadFingerprints, Baseline, TypeOK, Job, Syncing
    <3>. QED BY <2>2, <3>1, Excused DEF LoadFingerprints
  <2>3. CASE ListTools(j)
    <3>1. CASE job' = [job EXCEPT ![j].pc = IF Mode = "off" THEN "insert" ELSE "pin",
                                  ![j].def = live]
      <4>1. /\ \A k \in Jobs \ {j} : job'[k] = job[k]
            /\ job'[j].pc = "pin" => Mode # "off"
            /\ job'[j].prior = job[j].prior
        BY <3>1 DEF TypeOK, Job
      <4>. QED BY <2>3, <4>1, Excused DEF ListTools, Syncing
    <3>2. CASE Leave(j, "rest") \/ Leave(j, "failed")
      <4>1. (\A k \in Jobs \ {j} : job'[k] = job[k]) /\ job'[j].pc \in {"rest", "failed"}
        BY <3>2, LeaveFacts
      <4>. QED BY <2>3, <4>1, Excused DEF ListTools, Syncing
    <3>. QED BY <2>3, <3>1, <3>2 DEF ListTools
  <2>4. CASE PinTool(j)
    <3>1. CASE PinFirst(j)
      BY <2>4, <3>1, PinningIsExcused DEF PinTool
    <3>2. CASE PinSame(j) \/ PinChanged(j)
      <4>1. (\A k \in Jobs \ {j} : job'[k] = job[k]) /\ job'[j].pc \in {"insert", "rest"}
        BY <3>2, GotoFacts, LeaveFacts DEF PinSame, PinChanged
      <4>2. fp' = None \/ fp # None
        BY <3>2 DEF PinSame, PinChanged, SetPending
      <4>3. UNCHANGED <<loose, overlap, faults>> /\ j \in Syncing
        BY <2>4, <3>2 DEF PinTool, PinSame, PinChanged, Syncing
      <4>. QED BY <4>1, <4>2, <4>3, Excused
    <3>. QED BY <2>4, <3>1, <3>2 DEF PinTool
  <2>5. CASE InsertTool(j) \/ Rest(j)
    <3>1. /\ \A k \in Jobs \ {j} : job'[k] = job[k]
          /\ job'[j].pc \in {"rest", "online", "failed"}
          /\ j \in Syncing
      BY <2>5, LeaveFacts, GotoFacts DEF InsertTool, Rest, Syncing
    <3>. QED BY <2>5, <3>1, Excused DEF InsertTool, Rest
  <2>6. CASE Start(j) \/ Connecting(j) \/ Authorize(j) \/ Open(j) \/ Finish(j) \/ Call(j)
             \/ ApproveWrite(j) \/ Updated(j) \/ TurnOff(j) \/ DeleteRows(j)
    <3>1. /\ \A k \in Jobs \ {j} : job'[k] = job[k]
          /\ job'[j].pc \in {"idle", "connecting", "auth", "open", "queued", "failed", "call",
                             "start", "off", "delServer", "delFps"}
      BY <2>6, GotoFacts, LeaveFacts, DoneFacts
         DEF Start, Connecting, Authorize, Open, Finish, Call, Resume, ApproveWrite, Updated,
             TurnOff, DeleteRows
    <3>2. (fp' = None \/ fp # None) /\ UNCHANGED <<loose, overlap, faults>>
      BY <2>6 DEF Start, Connecting, Authorize, Open, Finish, Call, ApproveWrite, Updated,
                  TurnOff, DeleteRows
    <3>. QED BY <3>1, <3>2, Excused DEF Syncing
  <2>. QED BY <1>1, <2>1, <2>2, <2>3, <2>4, <2>5, <2>6 DEF Step
<1>2. ASSUME NEW j \in Jobs, Fault(j) PROVE Accident'
  <2>1. /\ \A k \in Jobs \ {j} : job'[k] = job[k]
        /\ job'[j].pc = "idle" \/ j \in Syncing \/ job'[j].pc \in {"failed", "start"}
        /\ job'[j].pc # "pin"
    BY <1>2, GotoFacts, LeaveFacts, DoneFacts DEF Fault, Syncing
  <2>2. faults' > 0 /\ UNCHANGED <<fp, overlap>>
    BY <1>0, <1>2 DEF Fault
  <2>. QED BY <2>1, <2>2, Excused DEF Syncing
<1>3. ASSUME NEW j \in Jobs, NEW r \in Replicas,
             Sync(j, r) \/ Invoke(j, r) \/ Approve(j, r) \/ Update(j, r) \/ DeleteServer(j, r)
      PROVE  Accident'
  <2>1. /\ \A k \in Jobs \ {j} : job'[k] = job[k]
        /\ job'[j].pc \in {"start", "call", "approve", "edited", "delTools"}
    BY <1>3 DEF Sync, Invoke, Approve, Update, DeleteServer, Begin, TypeOK, Job
  <2>2. UNCHANGED <<fp, loose, overlap, faults>>
    BY <1>3 DEF Sync, Invoke, Approve, Update, DeleteServer
  <2>. QED BY <2>1, <2>2, Excused DEF Syncing
<1>4. ASSUME NEW r \in Replicas, Crash(r) PROVE Accident'
  <2>1. \A k \in Jobs : job'[k] = job[k] \/ job'[k].pc = "idle"
    BY <1>4 DEF Crash, Idle, TypeOK
  <2>2. faults' > 0 /\ UNCHANGED <<fp, loose, overlap>>
    BY <1>0, <1>4 DEF Crash
  <2>. QED BY <2>1, <2>2 DEF Accident, Syncing
<1>5. CASE SetToolEnabled \/ ChangeTool \/ UNCHANGED vars
  BY <1>5 DEF SetToolEnabled, ChangeTool, vars, Accident, Syncing
<1>. QED BY <1>1, <1>2, <1>3, <1>4, <1>5 DEF Next

\* The ways that fail open are taken only after a failure or by two replicas
\* that synchronise together.
LEMMA Accidents == Spec => []Accident
<1>1. Init => Accident
  BY DEF Init, Idle, Accident, Syncing, At
<1>2. IndInv => TypeOK
  BY DEF IndInv
<1>. QED BY <1>1, <1>2, StepAccident, Invariance, PTL DEF Spec

\* Under enforce, nothing reaches the catalog that has not been a baseline, but
\* for a failure or two replicas that synchronise together (pinTool).
THEOREM CatalogTrusted == Spec => []AdvertisedWasTrusted
<1>1. IndInv /\ Accident => AdvertisedWasTrusted
  BY DEF IndInv, Traced, Accident, AdvertisedWasTrusted
<1>. QED BY <1>1, Invariance, Accidents, PTL

\* No sync finds in its way a row its own replica has stored (syncCatalog).
THEOREM DeleteBeforeInserts == Spec => []NoDuplicateKey
<1>1. IndInv => NoDuplicateKey
  BY DEF IndInv, Serial, Syncing, NoDuplicateKey, At
<1>. QED BY <1>1, Invariance, PTL

\* The chain of a replica holds its waiting and running syncs, each of them once.
THEOREM ChainsMove == Spec => []ChainMoves
<1>1. IndInv => ChainMoves
  BY DEF IndInv
<1>. QED BY <1>1, Invariance, PTL

-----------------------------------------------------------------------------
(* The status.                                                             *)

\* The steps after which the status is set to how the attempt ended.
AtWork == {"auth", "open", "queued", "load", "list", "pin", "insert", "rest", "online", "failed"}

\* A step that leaves the status alone and gives up no attempt.
LEMMA StillAtWork ==
  ASSUME StatusSettles, NEW j \in Jobs,
         \A k \in Jobs \ {j} : job'[k] = job[k],
         UNCHANGED <<status, faults>>,
         server' = server \/ server # "gone" \/ server' = "gone",
         job[j].pc \in AtWork => job'[j].pc \in AtWork
  PROVE  StatusSettles'
BY DEF StatusSettles, AtWork

LEMMA SettleStep == TypeOK /\ StatusSettles /\ [Next]_vars => StatusSettles'
<1>. SUFFICES ASSUME TypeOK, StatusSettles, [Next]_vars PROVE StatusSettles'
  OBVIOUS
<1>. USE DEF Pcs, At, env, rows, history
<1>1. ASSUME NEW j \in Jobs, Connecting(j) PROVE StatusSettles'
  <2>1. job'[j].pc = "auth"
    BY <1>1, GotoFacts DEF Connecting
  <2>. QED BY <2>1 DEF StatusSettles
<1>2. ASSUME NEW j \in Jobs, Finish(j) PROVE StatusSettles'
  <2>1. server' = server /\ (server # "gone" => status' \in {"online", "error"})
    BY <1>2 DEF Finish, SetStatus, Outcome
  <2>. QED BY <2>1 DEF StatusSettles
<1>3. ASSUME NEW j \in Jobs, TurnOff(j) PROVE StatusSettles'
  BY <1>3 DEF TurnOff, SetStatus, StatusSettles
<1>4. ASSUME NEW j \in Jobs,
             \/ Start(j) \/ Call(j) \/ ApproveWrite(j) \/ Updated(j) \/ DeleteRows(j)
      PROVE  StatusSettles'
  <2>1. (\A k \in Jobs \ {j} : job'[k] = job[k]) /\ job[j].pc \notin AtWork
    BY <1>4, GotoFacts, LeaveFacts, DoneFacts
       DEF Start, Call, ApproveWrite, Updated, DeleteRows, Resume, AtWork
  <2>2. UNCHANGED <<status, faults>> /\ (server' = server \/ server' = "gone")
    BY <1>4 DEF Start, Call, ApproveWrite, Updated, DeleteRows
  <2>. QED BY <2>1, <2>2, StillAtWork
<1>5. ASSUME NEW j \in Jobs,
             \/ Authorize(j) \/ Open(j) \/ DeleteTools(j) \/ InsertTool(j) \/ Rest(j)
      PROVE  StatusSettles'
  <2>1. (\A k \in Jobs \ {j} : job'[k] = job[k]) /\ job'[j].pc \in AtWork
    BY <1>5, GotoFacts, LeaveFacts
       DEF Authorize, Open, DeleteTools, InsertTool, Rest, AtWork
  <2>2. UNCHANGED <<server, status, faults>>
    BY <1>5 DEF Authorize, Open, DeleteTools, InsertTool, Rest
  <2>. QED BY <2>1, <2>2, StillAtWork
<1>6. ASSUME NEW j \in Jobs, LoadFingerprints(j) \/ ListTools(j) PROVE StatusSettles'
  <2>1. (\A k \in Jobs \ {j} : job'[k] = job[k]) /\ job'[j].pc \in AtWork
    BY <1>6, LeaveFacts DEF LoadFingerprints, ListTools, AtWork, TypeOK, Job
  <2>2. UNCHANGED <<server, status, faults>>
    BY <1>6 DEF LoadFingerprints, ListTools
  <2>. QED BY <2>1, <2>2, StillAtWork
<1>7. ASSUME NEW j \in Jobs, PinTool(j) PROVE StatusSettles'
  <2>1. (\A k \in Jobs \ {j} : job'[k] = job[k]) /\ job'[j].pc \in AtWork
    BY <1>7, GotoFacts, LeaveFacts DEF PinTool, PinFirst, PinSame, PinChanged, AtWork
  <2>2. UNCHANGED <<server, status, faults>>
    BY <1>7 DEF PinTool
  <2>. QED BY <2>1, <2>2, StillAtWork
<1>8. ASSUME NEW j \in Jobs, Fault(j) PROVE StatusSettles'
  BY <1>8 DEF Fault, TypeOK, StatusSettles
<1>9. ASSUME NEW j \in Jobs, NEW r \in Replicas,
             \/ Sync(j, r) \/ Invoke(j, r) \/ Approve(j, r) \/ Update(j, r)
             \/ DeleteServer(j, r)
      PROVE  StatusSettles'
  <2>1. (\A k \in Jobs \ {j} : job'[k] = job[k]) /\ job[j].pc \notin AtWork
    BY <1>9 DEF Sync, Invoke, Approve, Update, DeleteServer, Begin, AtWork, TypeOK
  <2>2. UNCHANGED <<status, faults>> /\ (server' = server \/ server # "gone")
    BY <1>9 DEF Sync, Invoke, Approve, Update, DeleteServer
  <2>. QED BY <2>1, <2>2, StillAtWork
<1>10. ASSUME NEW r \in Replicas, Crash(r) PROVE StatusSettles'
  BY <1>10 DEF Crash, TypeOK, StatusSettles
<1>11. CASE SetToolEnabled \/ ChangeTool \/ UNCHANGED vars
  BY <1>11 DEF SetToolEnabled, ChangeTool, vars, StatusSettles
<1>. QED BY <1>1, <1>2, <1>3, <1>4, <1>5, <1>6, <1>7, <1>8, <1>9, <1>10, <1>11 DEF Next, Step

\* As long as no statement fails and no replica stops, a server shown as
\* "connecting" is one that some operation is connecting, whatever raced.
THEOREM StatusComesToRest == Spec => []StatusSettles
<1>1. Init => StatusSettles
  BY DEF Init, StatusSettles
<1>2. IndInv => TypeOK
  BY DEF IndInv
<1>. QED BY <1>1, <1>2, SettleStep, Invariance, PTL DEF Spec
=============================================================================
