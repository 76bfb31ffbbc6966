-------------------------------- MODULE WeCom --------------------------------
(***************************************************************************)
(* The WeCom AI bot channel over a WebSocket (pkg/channels/wecom/            *)
(* aibot_ws.go): the connection that is lost and made again, a task per      *)
(* request that streams its answer to the platform, and Send, with which the *)
(* channel manager's worker hands over the answers of the agent, by way of   *)
(* the task or, when that is gone, as a push to the chat.                    *)
(*                                                                          *)
(* Answers are numbered per request; a request may have more than one (the   *)
(* message tool, a steered message, a tool's report).  A frame is written to *)
(* the connection the channel holds at that moment, and then waits for its   *)
(* response; one connection is one number, and 0 is none.  Hints while the   *)
(* agent works, the splitting of long answers and Stop are left out.         *)
(***************************************************************************)
EXTENDS Naturals, Sequences, FiniteSets

CONSTANTS
    Requests,       \* req_ids of the messages users send
    MaxReplies,     \* bound: answers of the agent to one request
    MaxLinks,       \* bound: connections
    MaxLostAcks     \* bound: responses that do not come, or say no

ASSUME WeComAssumption ==
    /\ IsFiniteSet(Requests)
    /\ MaxReplies \in Nat /\ MaxLinks \in Nat \ {0} /\ MaxLostAcks \in Nat

VARIABLES
    conn,       \* c.conn: the connection the channel writes to, 0 = nil
    link,       \* the newest connection
    linkState,  \* what runConnection does with it
    reqState,   \* request -> "none", "task" (Task is set) or "route" (only the route)
    windowOver, \* request -> ReadyAt has passed
    task,       \* request -> what its goroutine does
    taskLink,   \* request -> the connection its frame is written to
    cancelled,  \* requests whose task context is cancelled
    answerCh,   \* request -> answers in answerCh, capacity 1
    inHand,     \* request -> the answer its goroutine has taken, 0 = none
    asked,      \* requests the agent has got
    replies,    \* request -> answers the agent has produced, handed to Send in order
    send,       \* the worker's Send: what it does, for which request, on which connection
    lostAcks,   \* what is left of the bound
    displayed,  \* outside: <<request, answer, how>> the user has seen
    closedOff,  \* outside: requests whose stream the platform has seen finished
    passedOver  \* history: answers that Send dropped because the window was open

linkVars == <<conn, link, linkState>>
requestVars == <<reqState, windowOver>>
taskVars == <<task, taskLink, cancelled, inHand>>
outsideVars == <<lostAcks, displayed, closedOff>>
wecomVars == <<linkVars, requestVars, taskVars, answerCh, asked, replies, send, outsideVars,
               passedOver>>

NoSend == [at |-> "idle", req |-> CHOOSE r \in Requests : TRUE, on |-> 0]

WeComInit ==
    /\ conn = 0 /\ link = 0 /\ linkState = "down"
    /\ reqState = [r \in Requests |-> "none"] /\ windowOver = [r \in Requests |-> FALSE]
    /\ task = [r \in Requests |-> "off"] /\ taskLink = [r \in Requests |-> 0]
    /\ cancelled = {} /\ inHand = [r \in Requests |-> 0]
    /\ answerCh = [r \in Requests |-> <<>>]
    /\ asked = {} /\ replies = [r \in Requests |-> 0]
    /\ send = NoSend
    /\ lostAcks = 0 /\ displayed = {} /\ closedOff = {} /\ passedOver = {}

\* The platform can be reached over connection c.
Reachable(c) == c # 0 /\ c = link /\ linkState = "up"

\* sendAndWait on connection c: the platform gets the frame and says so, or
\* gets it and its response is late, or refuses it, or is not reached.  ok says
\* whether the write reports success, got whether the frame was accepted.
Frame(c, ok, got) ==
    \/ ok /\ got /\ Reachable(c) /\ UNCHANGED lostAcks
    \/ ~ok /\ Reachable(c) /\ lostAcks < MaxLostAcks /\ lostAcks' = lostAcks + 1
    \/ ~ok /\ ~got /\ ~Reachable(c) /\ UNCHANGED lostAcks

-------------------------------------------------------------------------------
(* connectLoop and runConnection *)

LinkUnchanged == UNCHANGED linkVars

\* Dialled and subscribed; a failed attempt changes nothing.
Connect ==
    /\ linkState = "down" /\ link < MaxLinks
    /\ link' = link + 1 /\ conn' = link + 1 /\ linkState' = "up"
    /\ UNCHANGED <<requestVars, taskVars, answerCh, asked, replies, send, outsideVars, passedOver>>

Break ==
    /\ linkState = "up" /\ linkState' = "broken"
    /\ UNCHANGED <<conn, link, requestVars, taskVars, answerCh, asked, replies, send, outsideVars,
                   passedOver>>

\* The read loop and the heartbeat have ended: c.conn is reset ...
DropConn ==
    /\ linkState = "broken" /\ linkState' = "dropped"
    /\ conn' = 0
    /\ UNCHANGED <<link, requestVars, taskVars, answerCh, asked, replies, send, outsideVars,
                   passedOver>>

\* ... and then all tasks are cancelled, their windows over, so that Send
\* pushes their answers.  Faulty variant: the windows stay as they are.
CancelTasksOnly ==
    /\ cancelled' = cancelled \cup {r \in Requests : reqState[r] = "task"}
    /\ reqState' = [r \in Requests |-> IF reqState[r] = "task" THEN "route" ELSE reqState[r]]
    /\ UNCHANGED windowOver
CancelAllTasks ==
    /\ cancelled' = cancelled \cup {r \in Requests : reqState[r] = "task"}
    /\ reqState' = [r \in Requests |-> IF reqState[r] = "task" THEN "route" ELSE reqState[r]]
    /\ windowOver' = [r \in Requests |-> windowOver[r] \/ reqState[r] = "task"]
EndConnection ==
    /\ linkState = "dropped" /\ linkState' = "down"
    /\ CancelAllTasks
    /\ UNCHANGED <<conn, link, task, taskLink, inHand, answerCh, asked, replies, send,
                   outsideVars, passedOver>>

-------------------------------------------------------------------------------
(* A request and its task *)

\* The read loop starts a goroutine for the message, which may outlive the
\* connection before it does anything.
GetRequest(r) ==
    /\ linkState = "up" /\ task[r] = "off"
    /\ task' = [task EXCEPT ![r] = "handle"]
    /\ LinkUnchanged
    /\ UNCHANGED <<requestVars, taskLink, cancelled, inHand, answerCh, asked, replies, send,
                   outsideVars, passedOver>>

\* dispatchWSAgentTask: the state is registered, then the stream is opened.
DispatchTask(r) ==
    /\ task[r] = "handle" /\ task' = [task EXCEPT ![r] = "open"]
    /\ reqState' = [reqState EXCEPT ![r] = "task"]
    /\ taskLink' = [taskLink EXCEPT ![r] = conn]
    /\ LinkUnchanged
    /\ UNCHANGED <<windowOver, cancelled, inHand, answerCh, asked, replies, send, outsideVars,
                   passedOver>>

\* Whatever came of it, the message goes to the bus, unless the task has been
\* cancelled meanwhile.
OpenStream(r) ==
    /\ task[r] = "open" /\ task' = [task EXCEPT ![r] = "wait"]
    /\ \E ok, got \in BOOLEAN : Frame(taskLink[r], ok, got)
    /\ asked' = IF r \in cancelled THEN asked ELSE asked \cup {r}
    /\ LinkUnchanged
    /\ UNCHANGED <<requestVars, taskLink, cancelled, inHand, answerCh, replies, send,
                   displayed, closedOff, passedOver>>

\* The goroutine takes an answer, and writes it as the final frame.
TakeAnswer(r) ==
    /\ task[r] = "wait" /\ answerCh[r] # <<>>
    /\ task' = [task EXCEPT ![r] = "stream"]
    /\ inHand' = [inHand EXCEPT ![r] = Head(answerCh[r])]
    /\ answerCh' = [answerCh EXCEPT ![r] = Tail(@)]
    /\ taskLink' = [taskLink EXCEPT ![r] = conn]
    /\ LinkUnchanged
    /\ UNCHANGED <<requestVars, cancelled, asked, replies, send, outsideVars, passedOver>>

\* A failure is only logged.
StreamAnswer(r) ==
    /\ task[r] = "stream" /\ task' = [task EXCEPT ![r] = "end"]
    /\ \E ok, got \in BOOLEAN :
          /\ Frame(taskLink[r], ok, got)
          /\ displayed' = IF got THEN displayed \cup {<<r, inHand[r], "stream">>} ELSE displayed
          /\ closedOff' = IF got THEN closedOff \cup {r} ELSE closedOff
    /\ reqState' = [reqState EXCEPT ![r] = "none"]
    /\ inHand' = [inHand EXCEPT ![r] = 0]
    /\ LinkUnchanged
    /\ UNCHANGED <<windowOver, taskLink, cancelled, answerCh, asked, replies, send, passedOver>>

\* wsStreamMaxDuration, measured a little later than the window.
Deadline(r) ==
    /\ task[r] = "wait" /\ windowOver[r]
    /\ task' = [task EXCEPT ![r] = "finish"]
    /\ taskLink' = [taskLink EXCEPT ![r] = conn]
    /\ LinkUnchanged
    /\ UNCHANGED <<requestVars, cancelled, inHand, answerCh, asked, replies, send, outsideVars,
                   passedOver>>

FinishStream(r) ==
    /\ task[r] = "finish" /\ task' = [task EXCEPT ![r] = "end"]
    /\ \E ok, got \in BOOLEAN :
          /\ Frame(taskLink[r], ok, got)
          /\ closedOff' = IF got THEN closedOff \cup {r} ELSE closedOff
    /\ LinkUnchanged
    /\ UNCHANGED <<requestVars, taskLink, cancelled, inHand, answerCh, asked, replies, send,
                   displayed, passedOver>>

\* The task is cancelled: for a moment it still takes an answer, and pushes it.
Grace(r) ==
    /\ task[r] = "wait" /\ r \in cancelled
    /\ IF answerCh[r] # <<>>
         THEN /\ task' = [task EXCEPT ![r] = "push"]
              /\ inHand' = [inHand EXCEPT ![r] = Head(answerCh[r])]
              /\ answerCh' = [answerCh EXCEPT ![r] = Tail(@)]
              /\ taskLink' = [taskLink EXCEPT ![r] = conn]
         ELSE task' = [task EXCEPT ![r] = "end"] /\ UNCHANGED <<inHand, answerCh, taskLink>>
    /\ LinkUnchanged
    /\ UNCHANGED <<requestVars, cancelled, asked, replies, send, outsideVars, passedOver>>

PushInHand(r) ==
    /\ task[r] = "push" /\ task' = [task EXCEPT ![r] = "end"]
    /\ \E ok, got \in BOOLEAN :
          /\ Frame(taskLink[r], ok, got)
          /\ displayed' = IF got THEN displayed \cup {<<r, inHand[r], "push">>} ELSE displayed
          /\ reqState' = IF ok THEN [reqState EXCEPT ![r] = "none"] ELSE reqState
    /\ inHand' = [inHand EXCEPT ![r] = 0]
    /\ LinkUnchanged
    /\ UNCHANGED <<windowOver, taskLink, cancelled, answerCh, asked, replies, send, closedOff,
                   passedOver>>

\* The deferred clearReqTask.
EndTask(r) ==
    /\ task[r] = "end" /\ task' = [task EXCEPT ![r] = "done"]
    /\ reqState' = [reqState EXCEPT ![r] = IF @ = "task" THEN "route" ELSE @]
    /\ LinkUnchanged
    /\ UNCHANGED <<windowOver, taskLink, cancelled, inHand, answerCh, asked, replies, send,
                   outsideVars, passedOver>>

-------------------------------------------------------------------------------
(* Send, called by the one worker of the channel *)

Answer(r) == replies[r]   \* the answer Send carries

\* getReqState decides how the next answer of r goes.
Send(r) ==
    /\ send.at = "idle" /\ r \in asked /\ replies[r] < MaxReplies
    /\ replies' = [replies EXCEPT ![r] = @ + 1]
    /\ \/ /\ reqState[r] = "task"
          /\ send' = [at |-> "put", req |-> r, on |-> 0] /\ UNCHANGED passedOver
       \/ /\ reqState[r] = "route" /\ windowOver[r]
          /\ send' = [at |-> "push", req |-> r, on |-> conn] /\ UNCHANGED passedOver
       \/ /\ reqState[r] = "route" /\ ~windowOver[r]
          /\ passedOver' = passedOver \cup {<<r, replies'[r]>>} /\ UNCHANGED send
       \/ \* pushed to a chat of the request's name, which there is not
          /\ reqState[r] = "none" /\ UNCHANGED <<send, passedOver>>
    /\ LinkUnchanged
    /\ UNCHANGED <<requestVars, taskVars, answerCh, asked, outsideVars>>

\* The task that getReqState returned gets the answer, whatever has become of
\* it since.
SendToTask ==
    /\ send.at = "put"
    /\ answerCh[send.req] = <<>>
    /\ answerCh' = [answerCh EXCEPT ![send.req] = <<Answer(send.req)>>]
    /\ send' = NoSend
    /\ LinkUnchanged
    /\ UNCHANGED <<requestVars, taskVars, asked, replies, outsideVars, passedOver>>

\* A full channel: Send waits until it is empty or the task is cancelled or,
\* as the deferred functions cancel it, over.
GiveUpAnswer ==
    /\ send.at = "put"
    /\ answerCh[send.req] # <<>>
    /\ send.req \in cancelled \/ task[send.req] = "done"
    /\ send' = NoSend
    /\ LinkUnchanged
    /\ UNCHANGED <<requestVars, taskVars, answerCh, asked, replies, outsideVars, passedOver>>

PushAnswer ==
    /\ send.at = "push"
    /\ \E ok, got \in BOOLEAN :
          /\ Frame(send.on, ok, got)
          /\ displayed' = IF got THEN displayed \cup {<<send.req, Answer(send.req), "push">>}
                          ELSE displayed
          /\ reqState' = IF ok THEN [reqState EXCEPT ![send.req] = "none"] ELSE reqState
    /\ send' = NoSend
    /\ LinkUnchanged
    /\ UNCHANGED <<windowOver, taskVars, answerCh, asked, replies, closedOff, passedOver>>

\* The window closes; the route expires and is forgotten, long after.
WindowPasses(r) ==
    /\ \/ /\ reqState[r] # "none" /\ ~windowOver[r]
          /\ windowOver' = [windowOver EXCEPT ![r] = TRUE] /\ UNCHANGED reqState
       \/ /\ reqState[r] = "route" /\ windowOver[r] /\ task[r] = "done"
          /\ reqState' = [reqState EXCEPT ![r] = "none"] /\ UNCHANGED windowOver
    /\ LinkUnchanged
    /\ UNCHANGED <<taskVars, answerCh, asked, replies, send, outsideVars, passedOver>>

-------------------------------------------------------------------------------
LinkStep == Connect \/ DropConn \/ EndConnection
TaskStep(r) ==
    \/ DispatchTask(r) \/ OpenStream(r) \/ TakeAnswer(r) \/ StreamAnswer(r)
    \/ Deadline(r) \/ FinishStream(r) \/ Grace(r) \/ PushInHand(r) \/ EndTask(r)
SendStep == SendToTask \/ GiveUpAnswer \/ PushAnswer

WeComNext ==
    \/ LinkStep \/ Break \/ SendStep
    \/ \E r \in Requests : GetRequest(r) \/ TaskStep(r) \/ Send(r) \/ WindowPasses(r)

WeComSpec == WeComInit /\ [][WeComNext]_wecomVars

-------------------------------------------------------------------------------
(* Properties *)

WeComTypeOK ==
    /\ conn \in {0, link} /\ link \in 0..MaxLinks
    /\ linkState \in {"down", "up", "broken", "dropped"}
    /\ reqState \in [Requests -> {"none", "task", "route"}]
    /\ windowOver \in [Requests -> BOOLEAN]
    /\ task \in [Requests -> {"off", "handle", "open", "wait", "stream", "finish", "push",
                                "end", "done"}]
    /\ \A r \in Requests : Len(answerCh[r]) <= 1 /\ inHand[r] \in 0..MaxReplies
    /\ {cancelled, asked, closedOff} \subseteq SUBSET Requests
    /\ send.at \in {"idle", "put", "push"} /\ lostAcks \in 0..MaxLostAcks

\* The user sees no answer twice, as a stream and as a push, however the
\* cancellation of a task, its deadline and Send interleave; and no answer is
\* passed over because the stream's window is still open: when a task is gone
\* its window is over (cancelAllTasks: "forwarded via wsSendActivePush on the
\* restored connection instead of being silently discarded").
AnswersSound ==
    /\ \A r \in Requests, a \in 1..MaxReplies :
          ~ (<<r, a, "stream">> \in displayed /\ <<r, a, "push">> \in displayed)
    /\ passedOver = {}
===============================================================================
