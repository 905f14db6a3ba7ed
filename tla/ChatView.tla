------------------------------ MODULE ChatView ------------------------------
(* The chat page of the web client (ChatView.vue) over the gateway's ChatTurn:
   which conversation is open, what its thread shows, the turn being sent and
   its stream, the files waiting in the composer, and the URL of the page. The
   requests of the page overlap: an answer is applied whenever it arrives. *)
EXTENDS ChatTurn

CONSTANTS MaxOps   \* clicks, navigations, uploads, deletions and new chats

ASSUME ChatViewAssumption == MaxOps \in Nat

VARIABLES current,  \* the open conversation, or NoChat
          url,      \* the conversation the URL names, or NoChat for the home page
          routed,   \* the URL has changed and the watcher has yet to run
          shown,    \* the thread: the first n stored messages of a chat, then extra items
          gets,     \* requests for a conversation: in flight, or answered and not applied
          sending,  \* the turn this page is sending and the state of its stream
          pending,  \* uploaded files waiting in the composer
          upload,   \* the conversation a file is being uploaded to, or NoChat
          ops

viewVars == <<current, url, routed, shown, gets, sending, pending, upload, ops>>
chatVars == <<serverVars, viewVars>>

Empty(c) == [chat |-> c, n |-> 0, extra |-> <<>>]
NotSending == [turn |-> 0, stream |-> "none", settled |-> FALSE, left |-> FALSE]

\* The page is loaded at any URL; onMounted applies it.
ViewInit == /\ current = NoChat /\ url \in FirstChats \cup {NoChat} /\ routed = TRUE
            /\ shown = Empty(NoChat)
            /\ gets = {} /\ sending = NotSending
            /\ pending = {} /\ upload = NoChat
            /\ ops = 0

Operation == ops < MaxOps /\ ops' = ops + 1

Item(kind, t, c) == [kind |-> kind, turn |-> t, chat |-> c]
Show(kind, t, c) == [shown EXCEPT !.extra = Append(@, Item(kind, t, c))]
Notice(c) == Show("notice", 0, c)

\* syncUrl after the open conversation became c.
SyncUrl(c) == /\ url' = c
              /\ routed' = (routed \/ url # c)

(***************************************************************************)
(* Opening a conversation                                                  *)
(***************************************************************************)

Get(kind, c) == [id |-> ops, kind |-> kind, chat |-> c, at |-> "asked", n |-> 0, last |-> "none"]

\* open(c): the composer is cleared now, the thread is replaced by the answer.
StartOpen(kind, c) == /\ pending' = {}
                      /\ gets' = gets \cup {Get(kind, c)}

Click(c) ==
    /\ Operation
    /\ chats[c] # "unborn"
    /\ StartOpen("click", c)
    /\ UNCHANGED <<current, url, routed, shown, sending, upload, serverVars>>

\* The browser's back and forward buttons, and links.
Navigate(c) ==
    /\ Operation
    /\ url # c /\ (c \in Chats => chats[c] # "unborn")
    /\ url' = c /\ routed' = TRUE
    /\ UNCHANGED <<current, shown, gets, sending, pending, upload, serverVars>>

\* The watcher of the route opens what the URL names.
ApplyRoute ==
    /\ routed
    /\ routed' = FALSE
    /\ \/ url = NoChat /\ current' = NoChat /\ UNCHANGED <<pending, gets>>
       \/ url \in Chats /\ url = current /\ UNCHANGED <<current, pending, gets>>
       \/ url \in Chats /\ url # current /\ StartOpen("route", url) /\ UNCHANGED current
    /\ UNCHANGED <<url, shown, sending, upload, ops, serverVars>>

\* The gateway answers a request with the thread as it is at that moment.
Serve(g) ==
    /\ g.at = "asked"
    /\ LET c == g.chat  n == Len(stored[c])
           answer == IF chats[c] = "live"
                     THEN [g EXCEPT !.at = "answered", !.n = n,
                                    !.last = IF n = 0 THEN "none" ELSE stored[c][n].role]
                     ELSE [g EXCEPT !.at = "error"]
       IN gets' = (gets \ {g}) \cup {answer}
    /\ UNCHANGED <<current, url, routed, shown, sending, pending, upload, ops, serverVars>>

LoseRequest(g) ==
    /\ g.at = "asked"
    /\ failures < MaxFaults
    /\ failures' = failures + 1
    /\ gets' = (gets \ {g}) \cup {[g EXCEPT !.at = "error"]}
    /\ UNCHANGED <<current, url, routed, shown, sending, pending, upload, ops,
                   chats, stored, titled, links, turn>>

Thread(g) == [chat |-> g.chat, n |-> g.n, extra |-> <<>>]

Opened(g) ==
    /\ g.kind \in {"click", "route"} /\ g.at = "answered"
    /\ gets' = gets \ {g}
    /\ current' = g.chat
    /\ shown' = Thread(g)
    /\ SyncUrl(g.chat)
    /\ sending' = [sending EXCEPT !.left = sending.turn # 0]
    /\ UNCHANGED <<pending, upload, ops, serverVars>>

\* A click on a chat that cannot be read changes nothing; a URL goes back home.
OpenFailed(g) ==
    /\ g.kind \in {"click", "route"} /\ g.at = "error"
    /\ gets' = gets \ {g}
    /\ IF g.kind = "route" THEN current' = NoChat /\ SyncUrl(NoChat)
                           ELSE UNCHANGED <<current, url, routed>>
    /\ UNCHANGED <<shown, sending, pending, upload, ops, serverVars>>

(***************************************************************************)
(* Sending a message                                                       *)
(***************************************************************************)

NextTurn == {t \in Turns : turn[t].at = "idle" /\ \A u \in Turns : u < t => turn[u].at # "idle"}

\* The question is shown at once with the staged files, and the turn is posted.
Send(t) ==
    /\ current # NoChat /\ sending.turn = 0 /\ upload = NoChat
    /\ t \in NextTurn
    /\ shown' = Show("question", t, current)
    /\ pending' = {}
    /\ sending' = [turn |-> t, stream |-> "open", settled |-> FALSE, left |-> FALSE]
    /\ Post(t, current, pending)
    /\ UNCHANGED <<current, url, routed, gets, upload, ops,
                   chats, stored, titled, links, failures>>

Sender == turn[sending.turn]
AtHome == current = Sender.chat

HearsAlways == TRUE

\* The page listens only while the conversation of the turn is open.
Hears == AtHome

\* `done` shows the reply, `failed` a notice; both settle the turn.
Verdict ==
    /\ sending.turn # 0 /\ sending.stream = "open"
    /\ Sender.event # "none"
    /\ IF Hears
       THEN /\ sending' = [sending EXCEPT !.stream = "closed", !.settled = TRUE]
            /\ shown' = IF Sender.event = "done" THEN Show("reply", sending.turn, Sender.chat)
                                                 ELSE Notice(Sender.chat)
       ELSE sending' = [sending EXCEPT !.stream = "closed"] /\ UNCHANGED shown
    /\ UNCHANGED <<current, url, routed, gets, pending, upload, ops, serverVars>>

\* The connection goes away without a verdict: a proxy, the network, a dead process.
StreamDrops ==
    /\ sending.turn # 0 /\ sending.stream = "open"
    /\ sending' = [sending EXCEPT !.stream = "closed"]
    /\ UNCHANGED <<current, url, routed, shown, gets, pending, upload, ops, serverVars>>

NeverReconcile == FALSE

MustReconcile == ~ sending.settled /\ AtHome

\* The stream has ended: without a verdict the page looks for the reply itself.
StreamEnds ==
    /\ sending.turn # 0 /\ sending.stream = "closed"
    /\ IF MustReconcile
       THEN /\ gets' = gets \cup {[Get("reconcile", Sender.chat) EXCEPT !.id = - sending.turn]}
            /\ sending' = [sending EXCEPT !.stream = "reconcile"]
       ELSE sending' = NotSending /\ UNCHANGED gets
    /\ UNCHANGED <<current, url, routed, shown, pending, upload, ops, serverVars>>

\* The thread as stored; when its last word is the user's the turn still runs.
Reconciled(g) ==
    /\ g.kind = "reconcile" /\ g.at = "answered"
    /\ gets' = gets \ {g}
    /\ sending' = NotSending
    /\ shown' = IF ~ AtHome THEN shown
                ELSE IF g.last = "assistant" THEN Thread(g)
                ELSE [Thread(g) EXCEPT !.extra = <<Item("notice", 0, g.chat)>>]
    /\ UNCHANGED <<current, url, routed, pending, upload, ops, serverVars>>

\* The code shows this notice whatever conversation is open by now.
ReconcileFailed(g) ==
    /\ g.kind = "reconcile" /\ g.at = "error"
    /\ gets' = gets \ {g}
    /\ sending' = NotSending
    /\ shown' = Notice(g.chat)
    /\ UNCHANGED <<current, url, routed, pending, upload, ops, serverVars>>

(***************************************************************************)
(* Files, new chats and deletion                                           *)
(***************************************************************************)

Upload ==
    /\ Operation
    /\ current # NoChat /\ upload = NoChat
    /\ upload' = current
    /\ UNCHANGED <<current, url, routed, shown, gets, sending, pending, serverVars>>

\* Kept only while the conversation it was uploaded to is open; an upload that
\* fails says so in the thread.
Uploaded ==
    /\ upload # NoChat
    /\ upload' = NoChat
    /\ \/ /\ Stores(upload)
          /\ pending' = IF current = upload THEN pending \cup {[chat |-> upload, name |-> 0]}
                                            ELSE pending
          /\ UNCHANGED shown
       \/ /\ shown' = IF current = upload THEN Notice(upload) ELSE shown
          /\ UNCHANGED pending
    /\ UNCHANGED <<current, url, routed, gets, sending, ops, serverVars>>

NewChat(c) ==
    /\ Operation
    /\ CreateChat(c)
    /\ current' = c
    /\ shown' = Empty(c)
    /\ SyncUrl(c)
    /\ UNCHANGED <<gets, sending, pending, upload>>

GoHome == SyncUrl(NoChat)

DeleteConversation(c) ==
    /\ Operation
    /\ DeleteChat(c)
    /\ IF current = c
       THEN current' = NoChat /\ shown' = Empty(NoChat) /\ GoHome
       ELSE UNCHANGED <<current, shown, url, routed>>
    /\ UNCHANGED <<gets, sending, pending, upload>>

(***************************************************************************)
(* The page and the gateway                                                *)
(***************************************************************************)

ChatInit == ServerInit /\ ViewInit

Server == \/ \E t \in Turns : TurnStep(t) \/ TurnFault(t)
          \/ ProcessDies
Gateway == Server /\ UNCHANGED viewVars

Responses == \E g \in gets : \/ Serve(g) \/ Opened(g) \/ OpenFailed(g)
                             \/ Reconciled(g) \/ ReconcileFailed(g)

Page == \/ \E c \in Chats : Click(c) \/ NewChat(c) \/ DeleteConversation(c)
        \/ \E c \in Chats \cup {NoChat} : Navigate(c)
        \/ \E t \in Turns : Send(t)
        \/ \E g \in gets : LoseRequest(g)
        \/ Responses \/ ApplyRoute \/ Verdict \/ StreamDrops \/ StreamEnds \/ Upload \/ Uploaded

ChatNext == Gateway \/ Page

ChatSpec == ChatInit /\ [][ChatNext]_chatVars

\* Turns go on, since the model and the tools answer or time out; requests are
\* answered; the page handles what it receives; a dead process closes its streams.
Hangup == sending.turn # 0 /\ Sender.at = "dead" /\ StreamDrops

ChatFairness == /\ \A t \in Turns : WF_chatVars(TurnStep(t) /\ UNCHANGED viewVars)
                /\ WF_chatVars(Responses)
                /\ WF_chatVars(ApplyRoute) /\ WF_chatVars(Uploaded)
                /\ WF_chatVars(Verdict) /\ WF_chatVars(StreamEnds) /\ WF_chatVars(Hangup)

ChatFairSpec == ChatSpec /\ ChatFairness

(***************************************************************************)
(* Properties                                                              *)
(***************************************************************************)

\* The page shows one conversation: however the answers of overlapping requests
\* and the events of a turn are ordered, no message of another one gets into the
\* thread of the open one (notices apart, see the README), and once the page is
\* at rest the URL names it, so that a reload opens what the user is looking at.
PageShowsOneChat ==
    /\ current # NoChat =>
           /\ shown.chat = current
           /\ \A i \in 1..Len(shown.extra) :
                 shown.extra[i].kind # "notice" => shown.extra[i].chat = current
    /\ ~ routed /\ (\A g \in gets : g.kind = "reconcile") => url = current

\* What the thread ends with: the last extra item, or else the last stored message.
EndsWith == IF shown.extra # <<>> THEN shown.extra[Len(shown.extra)].kind
            ELSE IF shown.n = 0 THEN "nothing"
            ELSE stored[shown.chat][shown.n].role

\* A user who stays in the conversation is never left with a bare question: when
\* the send is over the thread goes on with a reply or with a notice, at
\* whatever moment the stream, the turn or the process went away.
NoBareQuestion ==
    [][sending.turn # 0 /\ sending'.turn = 0 /\ AtHome /\ ~ sending.left
       /\ chats[current] = "live" => EndsWith' \notin {"question", "user"}]_chatVars

\* The composer does not stay blocked: every send comes to its end.
ComposerFrees == (sending.turn # 0) ~> (sending.turn = 0)
=============================================================================
