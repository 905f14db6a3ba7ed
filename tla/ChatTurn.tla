------------------------------ MODULE ChatTurn ------------------------------
(* A chat turn on the gateway: ChatService.send and the route that streams it.
   The question is stored, the prompt is built from the stored thread, the model
   is called and its tools are run round after round, the reply is stored and
   announced. Messages carry the turn they come from and nothing else; the model
   may answer, ask for tools, reject the prompt for its length or fail. *)
EXTENDS Integers, Sequences, FiniteSets, SequencesExt

CONSTANTS Chats,        \* conversations of the one user that is modelled
          FirstChats,   \* the ones that exist at the start, with one turn each
          ToolChats,    \* the ones whose endpoint offers tools to a model that can use them
          Turns,        \* identities of the turns, 1..n in the order they are posted
          MaxRounds,    \* settings.governance.chatMaxToolRounds
          MaxCalls,     \* tools the model asks for at once
          MaxTrims,     \* attempts of completeOrTrim that may trim (6 in the code)
          MaxToolFiles, \* ChatService.MAX_TOOL_FILES
          MaxFaults     \* failing statements and process crashes, together

ASSUME ChatTurnAssumption == /\ FirstChats \subseteq Chats /\ ToolChats \subseteq Chats
                             /\ "none" \notin Chats   \* NoChat
                             /\ Turns \subseteq Nat \ {0}
                             /\ MaxRounds \in Nat \ {0} /\ MaxCalls \in Nat
                             /\ {MaxTrims, MaxToolFiles, MaxFaults} \subseteq Nat

VARIABLES chats,    \* each conversation: "unborn", "live" or "deleted"
          stored,   \* chat_messages of each conversation, in created_at order
          titled,   \* conversations whose title is their first question
          links,    \* attachments linked to a message: [file, chat, turn, role]
          turn,     \* where each turn is
          failures  \* failures that have happened

serverVars == <<chats, stored, titled, links, turn, failures>>

\* One row of the thread, or one message of the prompt. A "call" is an assistant
\* message that asks for tools, a "tool" message holds the result of one.
Message(role, t) == [role |-> role, turn |-> t, calls |-> 0]
Call(t, calls)   == [role |-> "call", turn |-> t, calls |-> calls]
Assistant(m) == m.role \in {"assistant", "call"}

NoChat == "none"
IdleTurn == [at |-> "idle", chat |-> NoChat, uploads |-> {}, prompt |-> <<>>,
             round |-> 0, trims |-> 0, produced |-> 0, event |-> "none"]

Ended == {"done", "failed", "dead"}
Running(t) == turn[t].at \notin Ended \cup {"idle"}

ServerInit == /\ chats = [c \in Chats |-> IF c \in FirstChats THEN "live" ELSE "unborn"]
              /\ stored = [c \in Chats |-> IF c \in FirstChats
                                           THEN <<Message("user", 0), Message("assistant", 0)>>
                                           ELSE <<>>]
              /\ titled = FirstChats
              /\ links = {}
              /\ turn = [t \in Turns |-> IdleTurn]
              /\ failures = 0

Goto(t, at) == turn' = [turn EXCEPT ![t].at = at]

\* What is left of a turn that ended.
Over(r, at, event) == [IdleTurn EXCEPT !.at = at, !.chat = r.chat, !.event = event]

ThrowSilently(t) == turn' = [turn EXCEPT ![t] = Over(@, "failed", "none")]

\* The route catches what send throws and sends it as a `failed` event.
Throw(t) == turn' = [turn EXCEPT ![t] = Over(@, "failed", "failed")]

(***************************************************************************)
(* Before anything is stored                                               *)
(***************************************************************************)

\* The POST arrives with the ids of the files it attaches.
Post(t, c, uploads) ==
    turn' = [turn EXCEPT ![t] = [IdleTurn EXCEPT !.at = "check", !.chat = c, !.uploads = uploads]]

\* A check that refuses the turn or lets it on.
Pass(t, from, to) ==
    /\ turn[t].at = from
    /\ Goto(t, to) \/ Throw(t)
    /\ UNCHANGED <<chats, stored, titled, links, failures>>

\* The conversation must be there now, and its provider.
FindChat(t) == /\ Pass(t, "check", "model allowed")
               /\ chats[turn[t].chat] # "live" => turn'[t].at = "failed"

\* The allowlist of models, then the token budget of the day, which only refuses
\* a turn when it is set to block and the counters of the day can be read.
AssertModelAllowed(t) == Pass(t, "model allowed", "budget")
AssertTokenBudget(t)  == Pass(t, "budget", "tools")

\* The tools of the project, of the agent or of the endpoint the caller may use:
\* ToolChats says where there are any. Only an endpoint out of reach refuses.
ResolveTools(t) == Pass(t, "tools", "dlp")

\* The hooks of a chat's input may deny the question.
DlpChatInput(t) == Pass(t, "dlp", "question")

(***************************************************************************)
(* Storing the question and reading the thread back                        *)
(***************************************************************************)

\* No foreign key: a message goes in whether or not its conversation still exists.
AddMessage(c, role, t) == stored' = [stored EXCEPT ![c] = Append(@, Message(role, t))]

AddQuestion(t) ==
    /\ turn[t].at = "question"
    /\ AddMessage(turn[t].chat, "user", t)
    /\ Goto(t, "attach")
    /\ UNCHANGED <<chats, titled, links, failures>>

Linked(f) == \E l \in links : l.file = f

LinkableAnywhere(f, c) == ~ Linked(f)

\* linkAttachmentsToMessage updates only rows of this conversation that no message has.
Linkable(f, c) == f.chat = c /\ ~ Linked(f)

LinkFiles(t) ==
    /\ turn[t].at = "attach"
    /\ links' = links \cup {[file |-> f, chat |-> turn[t].chat, turn |-> t, role |-> "user"]
                                : f \in {g \in turn[t].uploads : Linkable(g, turn[t].chat)}}
    /\ Goto(t, "title")
    /\ UNCHANGED <<chats, stored, titled, failures>>

Questions(c) == {i \in 1..Len(stored[c]) : stored[c][i].role = "user"}

\* The first question becomes the title, as long as it is the only one.
SetTitle(t) ==
    /\ turn[t].at = "title"
    /\ titled' = IF Cardinality(Questions(turn[t].chat)) = 1
                 THEN titled \cup {turn[t].chat} ELSE titled
    /\ Goto(t, "prompt")
    /\ UNCHANGED <<chats, stored, links, failures>>

\* The agent's instructions, the memory, the project and the files of the
\* conversation, each as far as the caller may still read it.
SystemPrompt(t) == Message("system", t)

\* The thread is read back, so the prompt may end with a question of another turn.
BuildPrompt(t) ==
    /\ turn[t].at = "prompt"
    /\ turn' = [turn EXCEPT ![t].at = "model",
                            ![t].prompt = <<SystemPrompt(t)>> \o stored[turn[t].chat]]
    /\ UNCHANGED <<chats, stored, titled, links, failures>>

(***************************************************************************)
(* The model and the tools                                                 *)
(***************************************************************************)

\* The turns of the request to a provider that wants the results of a call together,
\* in the user's turn that follows it (Anthropic); the system message goes apart.
WireTurn(role, blocks) == [role |-> role, blocks |-> blocks]
EndsInResults(out) == out # <<>> /\ Last(out).blocks[1] = "result"
OntoWire(out, m) ==
    CASE m.role = "system" -> out
      [] m.role = "tool"   -> IF EndsInResults(out)
                              THEN [out EXCEPT ![Len(out)].blocks = Append(@, "result")]
                              ELSE Append(out, WireTurn("user", <<"result">>))
      [] m.role = "call"   -> Append(out, WireTurn("assistant", [i \in 1..m.calls |-> "use"]))
      [] OTHER             -> Append(out, WireTurn(m.role, <<"text">>))
Wire(p) == FoldLeft(OntoWire, <<>>, p)

LastQuestion(p) == LET users == {i \in 2..Len(p) : p[i].role = "user"}
                   IN IF users = {} THEN 1 ELSE CHOOSE i \in users : \A j \in users : j <= i

CanTrimAnything(p) == Len(p) > 2

CanTrim(p) == LastQuestion(p) > 2

\* The oldest message goes, and the assistant messages it leaves in front with it.
TrimOldest(p) ==
    LET first == CHOOSE i \in 3..Len(p) : /\ ~ Assistant(p[i])
                                          /\ \A j \in 3..(i - 1) : Assistant(p[j])
    IN <<p[1]>> \o SubSeq(p, first, Len(p))

\* The prompt is too long: trim and try again, up to MaxTrims times in one call
\* of the model and one last try without trimming.
Overflow(t) ==
    /\ turn[t].at = "model"
    /\ IF turn[t].trims < MaxTrims /\ CanTrim(turn[t].prompt)
       THEN turn' = [turn EXCEPT ![t].prompt = TrimOldest(@), ![t].trims = @ + 1]
       ELSE Throw(t)
    /\ UNCHANGED <<chats, stored, titled, links, failures>>

ToReply(t) == turn' = [turn EXCEPT ![t].at = "reply", ![t].prompt = <<>>, ![t].trims = 0]

\* The model answers in words: this is the reply.
Answer(t) ==
    /\ turn[t].at = "model"
    /\ ToReply(t)
    /\ UNCHANGED <<chats, stored, titled, links, failures>>

\* The model asks for tools. In the last round none is run, and the reply says
\* that the turn was cut.
AskTool(t) ==
    /\ turn[t].at = "model"
    /\ turn[t].chat \in ToolChats
    /\ IF turn[t].round = MaxRounds - 1
       THEN ToReply(t)
       ELSE \E calls \in 1..MaxCalls :
               turn' = [turn EXCEPT ![t].at = "tool", ![t].prompt = Append(@, Call(t, calls))]
    /\ UNCHANGED <<chats, stored, titled, links, failures>>

ModelFails(t) ==
    /\ turn[t].at = "model"
    /\ Throw(t)
    /\ UNCHANGED <<chats, stored, titled, links, failures>>

\* Files are kept while there is room for them.
Kept(produced, files) == IF produced < MaxToolFiles THEN produced + files ELSE produced

\* How many results the last call of a prompt still waits for.
Owed(p) == LET last == CHOOSE i \in 1..Len(p) : /\ p[i].role = "call"
                                                /\ \A j \in (i + 1)..Len(p) : p[j].role = "tool"
           IN p[last].calls - (Len(p) - last)

\* A tool that throws gives the model an error text, a trusted one may bring a
\* file; after the last one the next round starts.
RunTool(t) ==
    /\ turn[t].at = "tool"
    /\ \E files \in {0, 1} :
          turn' = [turn EXCEPT ![t].prompt = Append(@, Message("tool", t)),
                               ![t].produced = Kept(@, files),
                               ![t].at = IF Owed(turn[t].prompt) = 1 THEN "model" ELSE "tool",
                               ![t].round = IF Owed(turn[t].prompt) = 1 THEN @ + 1 ELSE @,
                               ![t].trims = 0]
    /\ UNCHANGED <<chats, stored, titled, links, failures>>

(***************************************************************************)
(* The reply                                                               *)
(***************************************************************************)

StoreReply(t) ==
    /\ turn[t].at = "reply"
    /\ AddMessage(turn[t].chat, "assistant", t)
    /\ Goto(t, IF turn[t].produced = 0 THEN "announce" ELSE "produced")
    /\ UNCHANGED <<chats, titled, links, failures>>

LinkProduced(t) ==
    /\ turn[t].at = "produced"
    /\ links' = links \cup {[file |-> [chat |-> turn[t].chat, name |-> t],
                             chat |-> turn[t].chat, turn |-> t, role |-> "assistant"]}
    /\ Goto(t, "announce")
    /\ UNCHANGED <<chats, stored, titled, failures>>

Announce(t) ==
    /\ turn[t].at = "announce"
    /\ turn' = [turn EXCEPT ![t] = Over(@, "done", "done")]
    /\ UNCHANGED <<chats, stored, titled, links, failures>>

(***************************************************************************)
(* Failures, and the other routes of the conversation                      *)
(***************************************************************************)

\* A statement fails: the turn throws where it is. Before the question is stored
\* that is a refusal like those of Pass.
TurnFault(t) ==
    /\ turn[t].at \in {"question", "attach", "title", "prompt", "reply", "produced", "announce"}
    /\ failures < MaxFaults
    /\ failures' = failures + 1
    /\ Throw(t)
    /\ UNCHANGED <<chats, stored, titled, links>>

\* The process dies: nothing resumes the turns it ran, and no event is sent.
ProcessDies ==
    /\ failures < MaxFaults
    /\ failures' = failures + 1
    /\ turn' = [t \in Turns |-> IF Running(t) THEN Over(turn[t], "dead", "none") ELSE turn[t]]
    /\ turn' # turn
    /\ UNCHANGED <<chats, stored, titled, links>>

\* Messages, attachments and the conversation, in one request.
DeleteChat(c) ==
    /\ chats[c] = "live"
    /\ stored' = [stored EXCEPT ![c] = <<>>]
    /\ links' = {l \in links : l.chat # c}
    /\ titled' = titled \ {c}
    /\ chats' = [chats EXCEPT ![c] = "deleted"]
    /\ UNCHANGED <<turn, failures>>

\* A file is stored for a conversation that is there; its text may be missing.
Stores(c) == chats[c] = "live"

CreateChat(c) == /\ chats[c] = "unborn"
                 /\ chats' = [chats EXCEPT ![c] = "live"]
                 /\ UNCHANGED <<stored, titled, links, turn, failures>>

TurnStep(t) ==
    \/ FindChat(t) \/ AssertModelAllowed(t) \/ AssertTokenBudget(t) \/ ResolveTools(t)
    \/ DlpChatInput(t) \/ AddQuestion(t) \/ LinkFiles(t) \/ SetTitle(t) \/ BuildPrompt(t)
    \/ Overflow(t) \/ Answer(t) \/ AskTool(t) \/ ModelFails(t) \/ RunTool(t)
    \/ StoreReply(t) \/ LinkProduced(t) \/ Announce(t)

(***************************************************************************)
(* Properties                                                              *)
(***************************************************************************)

\* The turns of a request that use tools, and those that bring results.
Uses(w) == {i \in 1..Len(w) : w[i].blocks[1] = "use"}
Results(w) == {i \in 1..Len(w) : w[i].blocks[1] = "result"}

\* What a provider accepts: the request starts with a question, and every turn
\* that uses tools is followed at once by one result for each use, whatever was
\* trimmed in between (the provider rejects the request otherwise and the turn is
\* lost); and no round of this turn was trimmed away.
PromptWellFormed ==
    \A t \in Turns : turn[t].at = "model" /\ chats[turn[t].chat] = "live" =>
        LET w == Wire(turn[t].prompt)
        IN /\ w # <<>> => w[1].role = "user"
           /\ Results(w) = {i + 1 : i \in Uses(w)}
           /\ \A i \in Uses(w) : Len(w[i + 1].blocks) = Len(w[i].blocks)
           /\ Cardinality(Uses(w)) = turn[t].round

\* An attachment belongs to a message of the conversation it was uploaded to: a
\* file the browser still held from another chat is never linked into this one.
AttachedWhereUploaded == \A l \in links : l.file.chat = l.chat
=============================================================================
