------------------------------- MODULE Registry -------------------------------
(***************************************************************************)
(* The catalog of one upstream MCP server (mcp/registry.service.ts): the   *)
(* connection of each replica, the synchronisation of the catalog, and the *)
(* pinning of tool definitions, on replicas that share the database.       *)
(*                                                                         *)
(* One tool stands for all of them: each has its own catalog row and its   *)
(* own fingerprint, and a sync treats them one after the other.  Resources *)
(* and prompts are stored in the same way and never pinned.                *)
(***************************************************************************)
EXTENDS Naturals, Sequences

CONSTANTS
  Replicas,
  Defs,        \* the definitions the upstream may give the tool
  Jobs,        \* operations under way, at most one per element, on any replica
  None,        \* no definition, no row
  Mode,        \* settings governance.toolPinning: "off", "audit" or "enforce"
  MaxChanges,  \* bound: changes of the definition at the upstream
  MaxEdits,    \* bound: edits of the server by an operator
  MaxFaults    \* bound: failed database statements and restarts

ASSUME RegistryConstants ==
  /\ None \notin Defs \cup Replicas
  /\ Mode \in {"off", "audit", "enforce"}
  /\ MaxChanges \in Nat /\ MaxEdits \in Nat /\ MaxFaults \in Nat

VARIABLES
  live,     \* the definition at the upstream; None when the tool is not offered
  server,   \* the servers row: "enabled", "disabled" or "gone"
  status,   \* its status column
  tool,     \* the tools row, None when there is none
  fp,       \* the tool_fingerprints row, None when there is none
  conn,     \* conn[r]: r has a connection to the upstream
  chain,    \* chain[r]: syncLocks, the syncs of r in the order they were asked for
  job,      \* job[j]: the operation j
  trusted,  \* the definitions that have been a baseline (history)
  loose,    \* the definitions let through without one (history)
  overlap,  \* two replicas have synchronised at the same time (history)
  changes, edits, faults

env == <<live, changes>>
rows == <<server, status, tool, fp>>
history == <<trusted, loose, overlap>>
vars == <<env, rows, conn, chain, job, history, edits, faults>>

Fingerprint == [approved : Defs, pending : Defs \cup {None}]
Row == [def : Defs, by : Replicas, on : BOOLEAN]   \* by: who stored it (history)

Pcs == {"idle", "start", "connecting", "auth", "open", "queued", "load", "list", "pin",
        "insert", "rest", "online", "failed", "call", "approve", "edited", "off",
        "delTools", "delServer", "delFps"}
Job == [kind : {"sync", "invoke"}, pc : Pcs, r : Replicas \cup {None},
        def : Defs \cup {None}, prior : Fingerprint \cup {None}]

TypeOK ==
  /\ live \in Defs \cup {None}
  /\ server \in {"enabled", "disabled", "gone"}
  /\ status \in {"unknown", "connecting", "online", "error", "disabled"}
  /\ tool \in Row \cup {None}
  /\ fp \in Fingerprint \cup {None}
  /\ conn \in [Replicas -> BOOLEAN]
  /\ chain \in [Replicas -> Seq(Jobs)]
  /\ job \in [Jobs -> Job]
  /\ trusted \subseteq Defs /\ loose \subseteq Defs
  /\ overlap \in BOOLEAN
  /\ changes \in Nat /\ edits \in Nat /\ faults \in Nat

Idle == [kind |-> "sync", pc |-> "idle", r |-> None, def |-> None, prior |-> None]

\* The server has just been created, enabled (createServer).
Init ==
  /\ live \in Defs
  /\ server = "enabled" /\ status = "unknown"
  /\ tool = None /\ fp = None
  /\ conn = [r \in Replicas |-> FALSE]
  /\ chain = [r \in Replicas |-> <<>>]
  /\ job = [j \in Jobs |-> Idle]
  /\ trusted = {} /\ loose = {} /\ overlap = FALSE
  /\ changes = 0 /\ edits = 0 /\ faults = 0

At(j, pc) == job[j].pc = pc
Goto(j, pc) == job' = [job EXCEPT ![j].pc = pc]
Done(j) == job' = [job EXCEPT ![j] = Idle]
\* On to a step that needs neither the definition nor the baseline any more.
Leave(j, pc) == job' = [job EXCEPT ![j].pc = pc, ![j].def = None, ![j].prior = None]

\* What a job that needed a connection does after connectAndSync.
Resume(j) ==
  IF job[j].kind = "invoke" /\ conn[job[j].r] THEN Goto(j, "call") ELSE Done(j)

\* The jobs that are inside doSyncCatalog, past its first statement.
Syncing == {j \in Jobs : job[j].pc \in {"load", "list", "pin", "insert", "rest"}}

-----------------------------------------------------------------------------
(* connectAndSync.                                                         *)

\* The server's row is read; a disabled one is left alone.
Start(j) ==
  /\ At(j, "start")
  /\ IF server = "enabled" THEN Goto(j, "connecting") ELSE Resume(j)
  /\ UNCHANGED <<env, rows, conn, chain, history, edits, faults>>

SetStatus(s) == status' = IF server = "gone" THEN status ELSE s

Connecting(j) ==
  /\ At(j, "connecting")
  /\ SetStatus("connecting")
  /\ Goto(j, "auth")
  /\ UNCHANGED <<env, server, tool, fp, conn, chain, history, edits, faults>>

\* The credentials are read, and refreshed, which may fail; then connect closes
\* the connection the replica has ...
Authorize(j) ==
  /\ At(j, "auth")
  /\ \/ conn' = [conn EXCEPT ![job[j].r] = FALSE] /\ Goto(j, "open")
     \/ Leave(j, "failed") /\ UNCHANGED conn
  /\ UNCHANGED <<env, rows, chain, history, edits, faults>>

\* ... and opens one, which may fail or time out.
Open(j) ==
  /\ At(j, "open")
  /\ \/ /\ conn' = [conn EXCEPT ![job[j].r] = TRUE]
        /\ chain' = [chain EXCEPT ![job[j].r] = Append(@, j)]
        /\ Goto(j, "queued")
     \/ /\ Leave(j, "failed")
        /\ UNCHANGED <<conn, chain>>
  /\ UNCHANGED <<env, rows, history, edits, faults>>

\* Mutant of Release: a sync that has ended stays in the chain.
ReleaseNone(j) == UNCHANGED chain

\* The next sync of the chain goes on, however this one, its first, has ended.
Release(j) == chain' = [chain EXCEPT ![job[j].r] = Tail(@)]

Turn(j) == Head(chain[job[j].r]) = j

DeleteTools(j) ==
  /\ At(j, "queued") /\ Turn(j)
  /\ tool' = None
  /\ overlap' = (overlap \/ Syncing # {})
  /\ Goto(j, "load")
  /\ UNCHANGED <<env, server, status, fp, conn, chain, trusted, loose, edits, faults>>

\* Mutant of Baseline: only the fingerprints in status 'approved' are read.
BaselineApproved == IF fp = None \/ fp.pending # None THEN None ELSE fp

Baseline == fp

LoadFingerprints(j) ==
  /\ At(j, "load")
  /\ job' = [job EXCEPT ![j].pc = "list",
                        ![j].prior = IF Mode = "off" THEN None ELSE Baseline]
  /\ UNCHANGED <<env, rows, conn, chain, history, edits, faults>>

\* listTools asks the upstream, which may fail to answer; a connection that
\* was dropped meanwhile is an error too.
ListTools(j) ==
  /\ At(j, "list")
  /\ \/ /\ conn[job[j].r] /\ live \in Defs
        /\ job' = [job EXCEPT ![j].pc = IF Mode = "off" THEN "insert" ELSE "pin",
                              ![j].def = live]
        /\ UNCHANGED chain
     \/ conn[job[j].r] /\ live = None /\ Leave(j, "rest") /\ UNCHANGED chain
     \/ Leave(j, "failed") /\ Release(j)
  /\ UNCHANGED <<env, rows, conn, history, edits, faults>>

-----------------------------------------------------------------------------
(* pinTool.                                                                *)

Quarantined(mode) == mode = "enforce"

\* Trust on first use.  Another replica may have been first: the INSERT fails,
\* which nobody is told of.
PinFirst(j) ==
  /\ job[j].prior = None
  /\ IF fp = None
     THEN /\ fp' = [approved |-> job[j].def, pending |-> None]
          /\ trusted' = trusted \cup {job[j].def}
          /\ UNCHANGED loose
     ELSE loose' = loose \cup {job[j].def} /\ UNCHANGED <<fp, trusted>>
  /\ Goto(j, "insert")

\* The statements on the fingerprint change nothing when the row is gone.
SetPending(d) == fp' = IF fp = None THEN None ELSE [fp EXCEPT !.pending = d]

PinSame(j) ==
  /\ job[j].prior # None /\ job[j].prior.approved = job[j].def
  /\ IF job[j].prior.pending # None THEN SetPending(None) ELSE UNCHANGED fp
  /\ Goto(j, "insert")
  /\ UNCHANGED <<trusted, loose>>

PinChanged(j) ==
  /\ job[j].prior # None /\ job[j].prior.approved # job[j].def
  /\ IF job[j].prior.pending # job[j].def THEN SetPending(job[j].def) ELSE UNCHANGED fp
  /\ IF Quarantined(Mode) THEN Leave(j, "rest") ELSE Goto(j, "insert")
  /\ UNCHANGED <<trusted, loose>>

PinTool(j) ==
  /\ At(j, "pin")
  /\ PinFirst(j) \/ PinSame(j) \/ PinChanged(j)
  /\ UNCHANGED <<env, server, status, tool, conn, chain, overlap, edits, faults>>

\* A row that is there already makes the INSERT fail: the item is skipped.
InsertTool(j) ==
  /\ At(j, "insert")
  /\ tool' = IF tool = None THEN [def |-> job[j].def, by |-> job[j].r, on |-> TRUE]
                            ELSE tool
  /\ Leave(j, "rest")
  /\ UNCHANGED <<env, server, status, fp, conn, chain, history, edits, faults>>

\* The resources and the prompts, whose listings may time out or find the
\* connection dropped; one that is refused counts as empty.
Rest(j) ==
  /\ At(j, "rest")
  /\ Goto(j, "online") \/ Leave(j, "failed")
  /\ Release(j)
  /\ UNCHANGED <<env, rows, conn, history, edits, faults>>

\* Mutant of Outcome: only a sync that succeeds tells how it ended.
OutcomeOnline(j) == IF At(j, "online") THEN "online" ELSE status

Outcome(j) == IF At(j, "online") THEN "online" ELSE "error"

Finish(j) ==
  /\ job[j].pc \in {"online", "failed"}
  /\ SetStatus(Outcome(j))
  /\ Resume(j)
  /\ UNCHANGED <<env, server, tool, fp, conn, chain, history, edits, faults>>

-----------------------------------------------------------------------------
(* What starts an operation.                                               *)

Begin(j, kind, pc, r, d) ==
  /\ At(j, "idle")
  /\ job' = [job EXCEPT ![j] = [kind |-> kind, pc |-> pc, r |-> r, def |-> d, prior |-> None]]

\* createServer, POST /sync, the callback of an authorization, the start-up.
Sync(j, r) ==
  /\ Begin(j, "sync", "start", r, None)
  /\ UNCHANGED <<env, rows, conn, chain, history, edits, faults>>

\* invokeTool, which connects when it has to.
Invoke(j, r) ==
  /\ tool # None /\ tool.on
  /\ Begin(j, "invoke", IF conn[r] THEN "call" ELSE "start", r, None)
  /\ UNCHANGED <<env, rows, conn, chain, history, edits, faults>>

Call(j) ==
  /\ At(j, "call")
  /\ Done(j)
  /\ UNCHANGED <<env, rows, conn, chain, history, edits, faults>>

\* approveToolChange reads the row ...
Approve(j, r) ==
  /\ fp # None /\ fp.pending # None
  /\ Begin(j, "sync", "approve", r, fp.pending)
  /\ UNCHANGED <<env, rows, conn, chain, history, edits, faults>>

\* ... makes what it has read the baseline, and synchronises.
ApproveWrite(j) ==
  /\ At(j, "approve")
  /\ IF fp # None
     THEN fp' = [approved |-> job[j].def, pending |-> None] /\ trusted' = trusted \cup {job[j].def}
     ELSE UNCHANGED <<fp, trusted>>
  /\ Leave(j, "start")
  /\ UNCHANGED <<env, server, status, tool, conn, chain, loose, overlap, edits, faults>>

\* updateServer enables or disables the server, or leaves that as it is.
Update(j, r) ==
  /\ edits < MaxEdits /\ edits' = edits + 1
  /\ server # "gone" /\ server' \in {"enabled", "disabled"}
  /\ Begin(j, "sync", "edited", r, None)
  /\ UNCHANGED <<env, status, tool, fp, conn, chain, history, faults>>

Updated(j) ==
  /\ At(j, "edited")
  /\ IF server = "enabled"
     THEN Goto(j, "start") /\ UNCHANGED conn
     ELSE Goto(j, "off") /\ conn' = [conn EXCEPT ![job[j].r] = FALSE]
  /\ UNCHANGED <<env, rows, chain, history, edits, faults>>

TurnOff(j) ==
  /\ At(j, "off")
  /\ SetStatus("disabled")
  /\ Done(j)
  /\ UNCHANGED <<env, server, tool, fp, conn, chain, history, edits, faults>>

DeleteServer(j, r) ==
  /\ edits < MaxEdits /\ edits' = edits + 1
  /\ Begin(j, "sync", "delTools", r, None)
  /\ conn' = [conn EXCEPT ![r] = FALSE]
  /\ UNCHANGED <<env, rows, chain, history, faults>>

DeleteRows(j) ==
  /\ \/ /\ At(j, "delTools") /\ tool' = None /\ Goto(j, "delServer")
        /\ UNCHANGED <<server, fp>>
     \/ /\ At(j, "delServer") /\ server' = "gone" /\ Goto(j, "delFps")
        /\ UNCHANGED <<tool, fp>>
     \/ /\ At(j, "delFps") /\ fp' = None /\ Done(j)
        /\ UNCHANGED <<server, tool>>
  /\ UNCHANGED <<env, status, conn, chain, history, edits, faults>>

\* PATCH /api/tools/:id.
SetToolEnabled ==
  /\ tool # None
  /\ edits < MaxEdits /\ edits' = edits + 1
  /\ tool' = [tool EXCEPT !.on = ~@]
  /\ UNCHANGED <<env, server, status, fp, conn, chain, job, history, faults>>

-----------------------------------------------------------------------------
(* The upstream, failures and restarts.                                    *)

ChangeTool ==
  /\ changes < MaxChanges /\ changes' = changes + 1
  /\ live' \in (Defs \cup {None}) \ {live}
  /\ UNCHANGED <<rows, conn, chain, job, history, edits, faults>>

\* A statement of the job fails without having changed anything.  What is
\* swallowed goes on, what is thrown ends in the catch block or the job.
Fault(j) ==
  /\ faults < MaxFaults /\ faults' = faults + 1
  /\ \/ /\ job[j].pc \in {"start", "connecting", "failed", "edited", "off",
                         "delTools", "delServer", "delFps"}
        /\ Done(j) /\ UNCHANGED <<chain, loose>>
     \/ At(j, "queued") /\ Turn(j) /\ Leave(j, "failed") /\ Release(j) /\ UNCHANGED loose
     \/ At(j, "load") /\ Goto(j, "list") /\ UNCHANGED <<chain, loose>>
     \/ /\ At(j, "pin") /\ job[j].prior = None
        /\ loose' = loose \cup {job[j].def}
        /\ Goto(j, "insert") /\ UNCHANGED chain
     \/ /\ At(j, "pin") /\ job[j].prior # None
        /\ IF job[j].prior.approved # job[j].def /\ Quarantined(Mode)
           THEN Leave(j, "rest") ELSE Goto(j, "insert")
        /\ UNCHANGED <<chain, loose>>
     \/ At(j, "insert") /\ Leave(j, "rest") /\ UNCHANGED <<chain, loose>>
     \/ At(j, "online") /\ Leave(j, "failed") /\ UNCHANGED <<chain, loose>>
     \/ At(j, "approve") /\ Leave(j, "start") /\ UNCHANGED <<chain, loose>>
  /\ UNCHANGED <<env, rows, conn, trusted, overlap, edits>>

Crash(r) ==
  /\ faults < MaxFaults /\ faults' = faults + 1
  /\ conn' = [conn EXCEPT ![r] = FALSE]
  /\ chain' = [chain EXCEPT ![r] = <<>>]
  /\ job' = [j \in Jobs |-> IF job[j].r = r THEN Idle ELSE job[j]]
  /\ UNCHANGED <<env, rows, history, edits>>

Step(j) ==
  \/ Start(j) \/ Connecting(j) \/ Authorize(j) \/ Open(j) \/ DeleteTools(j)
  \/ LoadFingerprints(j) \/ ListTools(j) \/ PinTool(j) \/ InsertTool(j) \/ Rest(j)
  \/ Finish(j) \/ Call(j) \/ ApproveWrite(j) \/ Updated(j) \/ TurnOff(j) \/ DeleteRows(j)

Next ==
  \/ \E j \in Jobs : Step(j) \/ Fault(j)
  \/ \E j \in Jobs, r \in Replicas :
       Sync(j, r) \/ Invoke(j, r) \/ Approve(j, r) \/ Update(j, r) \/ DeleteServer(j, r)
  \/ SetToolEnabled \/ ChangeTool
  \/ \E r \in Replicas : Crash(r)

Spec == Init /\ [][Next]_vars

-----------------------------------------------------------------------------
(* Properties.                                                             *)

\* Under enforce, what the catalog holds has been a baseline, first seen or
\* approved, unless it came through one of the two ways that fail open, which
\* are taken only after a failure or when two replicas synchronise together
\* (the comments of loadFingerprints and pinTool).
AdvertisedWasTrusted ==
  Mode = "enforce" /\ tool # None =>
    \/ tool.def \in trusted
    \/ tool.def \in loose /\ (faults > 0 \/ overlap)

\* "Chaining runs per server keeps each delete before its own inserts": a row
\* that is in the way of an INSERT was stored by another replica.
NoDuplicateKey ==
  \A j \in Jobs : At(j, "insert") /\ tool # None => tool.by # job[j].r

\* The status the console shows does not stay "connecting" without anybody
\* connecting (the catch block of connectAndSync).
StatusSettles ==
  status = "connecting" /\ server # "gone" /\ faults = 0 =>
    \E j \in Jobs : job[j].pc \in {"auth", "open", "queued", "load", "list", "pin", "insert",
                                   "rest", "online", "failed"}

\* Whatever fails in a sync, those behind it have their turn: the chain of a
\* replica is made of its syncs that wait or are under way, each of them once.
ChainMoves ==
  \A r \in Replicas : \A a, b \in 1 .. Len(chain[r]) :
    /\ job[chain[r][a]].r = r
    /\ job[chain[r][a]].pc \in {"queued", "load", "list", "pin", "insert", "rest"}
    /\ chain[r][a] = chain[r][b] => a = b

-----------------------------------------------------------------------------
(* The inductive invariant.                                                *)

\* Where the definition and the baseline of a job come from.
Trust ==
  /\ fp # None => fp.approved \in trusted
  /\ \A j \in Jobs :
       /\ job[j].prior # None => job[j].prior.approved \in trusted
       /\ job[j].pc \in {"pin", "insert", "approve"} => job[j].def \in Defs
       /\ Mode = "enforce" /\ job[j].pc = "insert" => job[j].def \in trusted \cup loose

\* One sync of a replica at a time: it is the first of the chain, and from its
\* DELETE to its INSERT the catalog holds nothing the replica has stored.
Serial ==
  \A j \in Jobs :
    /\ job[j].pc # "idle" => job[j].r \in Replicas
    /\ At(j, "queued") \/ j \in Syncing =>
         \E a \in 1 .. Len(chain[job[j].r]) : chain[job[j].r][a] = j
    /\ j \in Syncing =>
         /\ chain[job[j].r][1] = j
         /\ job[j].pc # "rest" /\ tool # None => tool.by # job[j].r

\* What the catalog holds came from a baseline or through a way that fails open.
Traced == Mode = "enforce" /\ tool # None => tool.def \in trusted \cup loose

IndInv == TypeOK /\ Trust /\ Traced /\ Serial /\ ChainMoves

\* When the ways that fail open are taken: two syncs at once are an overlap, and
\* a sync that is alone and read no baseline finds none when it pins.
Accident ==
  /\ \A j, k \in Syncing : j = k \/ overlap
  /\ \A j \in Jobs : At(j, "pin") => Mode # "off"
  /\ \A j \in Jobs :
       job[j].pc \in {"list", "pin"} /\ job[j].prior = None =>
         Mode = "off" \/ fp = None \/ faults > 0 \/ overlap
  /\ loose # {} => faults > 0 \/ overlap
=============================================================================
