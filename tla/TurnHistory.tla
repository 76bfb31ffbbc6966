----------------------------- MODULE TurnHistory -----------------------------
(***************************************************************************)
(* The turns of one session and its summarizer, seen from the session:      *)
(* what runTurn (pkg/agent/loop.go) appends to the history, what it sends to *)
(* the provider, how it compresses the history when the provider refuses it, *)
(* how an aborted turn restores the session (turn.go), and how               *)
(* summarizeSession truncates it in a goroutine of its own.                  *)
(*                                                                          *)
(* Every access to the session store is a step of its own, unless nothing    *)
(* another goroutine writes can come between two reads.  The store is what   *)
(* SessionStore promises, without failures.  The turns are those of a root   *)
(* (its pendingResults channel is nil), with NoHistory unset, one at a time. *)
(***************************************************************************)
EXTENDS Naturals, Sequences, FiniteSets, SequencesExt

CONSTANTS
    MaxTurns,        \* bound: turns
    MaxIterations,   \* agent.MaxIterations
    MaxCalls,        \* bound: tool calls of a response
    MaxRetries,      \* repeated LLM calls of an iteration (2)
    KeepRecent,      \* messages that summarizeSession leaves alone (4)
    MaxBatch,        \* messages that are summarised in one part (10)
    MaxTroubles      \* bound: messages that arrive while a turn runs, requests too
                     \* large for the context window, interrupts, HardAbort calls

ASSUME TurnHistoryAssumption ==
    /\ {MaxTurns, MaxCalls, MaxRetries, MaxBatch, MaxTroubles} \subseteq Nat
    /\ {MaxIterations, KeepRecent} \subseteq Nat \ {0}

VARIABLES
    history,    \* the messages of the session (GetHistory)
    summary,    \* its summary: the messages it was made from
    pc,         \* where runTurn is
    turn,       \* the number of the current or last turn
    base,       \* initialHistoryLength
    point,      \* restorePointHistory and restorePointSummary
    mine,       \* persistedMessages
    messages,   \* the conversation that is sent to the provider
    iter,       \* iteration
    retry,      \* LLM calls of this iteration that failed
    pending,    \* number of pendingMessages
    terminal,   \* this iteration's request is the last one (gracefulTerminal)
    job,        \* the tool call that is next: assistant message, number, total
    work,       \* local variables of forceCompression, and where it returns to
    queue,      \* messages in the steering queue of the session
    graceful,   \* "no", "asked", "used": gracefulInterrupt, gracefulTerminalUsed
    hardAbort,  \* hardAbort
    sum,        \* the summarizer: where it is, and its local variables
    rolling,    \* HardAbort between its read and its write: the history it read
    spent,      \* how many troubles there have been
    owner,      \* history: the turn that wrote each message
    fate        \* history: what has happened to messages, batches of calls and turns

session == <<history, summary>>
turnVars == <<pc, turn, base, point, mine, messages, iter, retry, pending, terminal, job, work>>
signals == <<queue, graceful, hardAbort>>
ghosts == <<owner, fate>>
vars == <<session, turnVars, signals, sum, rolling, spent, ghosts>>

-------------------------------------------------------------------------------
(* Messages and histories *)

Message(r, n, k, a, i) ==
    [role |-> r, id |-> n, turn |-> turn, calls |-> k, of |-> a, nr |-> i]
NextId == Len(owner) + 1
User == Message("user", NextId, 0, 0, 0)
Assistant(k) == Message("assistant", NextId, k, 0, 0)
ToolResult(a, i) == Message("tool", NextId, 0, a, i)

Ids(h) == {h[i].id : i \in DOMAIN h}
LastOf(h, k) == IF k >= Len(h) THEN h ELSE SubSeq(h, Len(h) - k + 1, Len(h))
DropFirst(h, k) == SubSeq(h, k + 1, Len(h))

\* The number in S with k numbers of S before it.
Nth(S, k) == CHOOSE n \in S : Cardinality({i \in S : i < n}) = k

\* parseTurnBoundaries, as numbers of messages in front of a user message.
Boundaries(h) == {i - 1 : i \in {j \in DOMAIN h : h[j].role = "user"}}
SafeBoundary(h, target) ==
    LET before == {b \in Boundaries(h) : b <= target}
        after == {b \in Boundaries(h) : b > target}
    IN IF target <= 0 THEN 0
       ELSE IF target >= Len(h) THEN Len(h)
       ELSE IF Boundaries(h) = {} THEN target
       ELSE IF before \ {0} # {} THEN Max(before)
       ELSE IF after # {} THEN Min(after) ELSE 0

\* What forceCompression keeps: the younger half of the turns, or the youngest
\* user message of a history that is a single turn.
Half(h) ==
    LET starts == Boundaries(h)
        half == Cardinality(starts) \div 2
        mid == IF half > 0 THEN Nth(starts, half)
               ELSE SafeBoundary(h, Len(h) \div 2)
    IN IF mid > 0 THEN DropFirst(h, mid)
       ELSE IF starts = {} THEN <<>> ELSE <<h[Max(starts) + 1]>>

\* The first pass of sanitizeHistoryForProvider: no tool result without an
\* assistant message in front of its block, no tool calls after another answer.
InBlock(s) ==
    \E i \in DOMAIN s : s[i].calls > 0 /\ \A j \in i + 1 .. Len(s) : s[j].role = "tool"
Fits(s, m) ==
    IF m.role = "tool" THEN InBlock(s)
    ELSE m.calls > 0 => s # <<>> /\ s[Len(s)].role \in {"user", "tool"}
FirstPass(h) ==
    LET pass[n \in 0..Len(h)] ==
          IF n = 0 THEN <<>>
          ELSE IF Fits(pass[n - 1], h[n]) THEN Append(pass[n - 1], h[n]) ELSE pass[n - 1]
    IN pass[Len(h)]

\* The tool results that directly follow the i-th message of s.
Block(s, i) == {j \in i + 1 .. Len(s) : \A l \in i + 1 .. j : s[l].role = "tool"}
Answered(s, i) ==
    \A c \in 1..s[i].calls : \E j \in Block(s, i) : s[j].of = s[i].id /\ s[j].nr = c

\* Faulty variant: without the second pass.
SanitizeOnce(h) == FirstPass(h)

\* The second pass: tool calls without all their results are dropped with the
\* results that are there, and so are results that occur twice.
Sanitize(h) ==
    LET s == FirstPass(h)
        torn == {i \in DOMAIN s : s[i].calls > 0 /\ ~Answered(s, i)}
        out == torn \cup UNION {Block(s, i) : i \in torn}
        again == {j \in DOMAIN s \ out : s[j].role = "tool" /\
                    \E i \in 1 .. j - 1 : i \notin out /\ <<s[i].of, s[i].nr>> = <<s[j].of, s[j].nr>>}
        rest == DOMAIN s \ (out \cup again)
    IN [i \in 1 .. Cardinality(rest) |-> s[Nth(rest, i - 1)]]

\* matchingTurnMessageTail: how many messages at the end of the history are the
\* last ones the turn has recorded.  A message with tool calls never equals the
\* recorded one, because the name of a call is not stored (json:"-").
MatchingTail(h, p) ==
    LET Same(a, b) == a = b /\ a.calls = 0
        fits == {k \in 0..Len(h) : k <= Len(p) /\
                    \A i \in 0 .. k - 1 : Same(h[Len(h) - i], p[Len(p) - i])}
    IN Max(fits)

-------------------------------------------------------------------------------
(* Bookkeeping *)

\* Another goroutine has read the session and not written it yet.
OthersBusy == sum.pc \in {"read", "set", "cut"} \/ rolling # <<>>

\* A write of the turn, or of the summarizer, that may meet one of another
\* goroutine.
Overlap == IF OthersBusy THEN {"overlap"} ELSE {}
Crossing == IF pc \in {"note", "cut", "restoreSummary"} \/ rolling # <<>> THEN {"overlap"} ELSE {}
Mark(marks) == fate' = [fate EXCEPT !.marks = @ \cup marks]
Trouble == spent < MaxTroubles /\ spent' = spent + 1

NoPoint == [history |-> <<>>, summary |-> {}]
NoJob == [of |-> 0, nr |-> 0, total |-> 0]
NoWork == [kept |-> <<>>, dropped |-> {}, summary |-> {}, back |-> "none"]
Off == [pc |-> "off", history |-> <<>>, covered |-> {}, keep |-> 0]

Init ==
    /\ history = <<>> /\ summary = {}
    /\ pc = "idle" /\ turn = 0 /\ base = 0
    /\ point = NoPoint
    /\ mine = <<>> /\ messages = <<>>
    /\ iter = 0 /\ retry = 0 /\ pending = 0 /\ terminal = FALSE
    /\ job = NoJob /\ work = NoWork
    /\ queue = 0 /\ graceful = "no" /\ hardAbort = FALSE
    /\ sum = Off /\ rolling = <<>>
    /\ spent = 0
    /\ owner = <<>>
    /\ fate = [aborted |-> {}, undone |-> {}, noted |-> {}, compressed |-> FALSE, cut |-> {},
               marks |-> {}]

\* AddMessage or AddFullMessage.
Add(m) ==
    /\ history' = Append(history, m)
    /\ owner' = Append(owner, turn)
    /\ Mark(Overlap)
    /\ UNCHANGED summary

\* The same with recordPersistedMessage; the message is part of the conversation.
Persist(m) ==
    /\ Add(m)
    /\ mine' = Append(mine, m)
    /\ messages' = Append(messages, m)

\* runTurn returns; its turnState is no longer used.
Leave ==
    /\ pc' = "idle" /\ base' = 0 /\ point' = NoPoint /\ mine' = <<>> /\ messages' = <<>>
    /\ iter' = 0 /\ retry' = 0 /\ pending' = 0 /\ terminal' = FALSE
    /\ job' = NoJob /\ work' = NoWork /\ graceful' = "no" /\ hardAbort' = FALSE

-------------------------------------------------------------------------------
(* A turn begins *)

\* newTurnState
Begin ==
    /\ pc = "idle" /\ turn < MaxTurns
    /\ turn' = turn + 1
    /\ base' = Len(history)
    /\ fate' = [fate EXCEPT !.compressed = FALSE]
    /\ pc' = "capture"
    /\ UNCHANGED <<session, point, mine, messages, iter, retry, pending, terminal, job, work, signals,
                   sum, rolling, spent, owner>>

\* Faulty variant: the restore point is taken after the message has been saved.
SaveMovingPoint ==
    /\ pc = "save"
    /\ Persist(User)
    /\ pc' = "loop"
    /\ point' = [history |-> history', summary |-> summary]
    /\ UNCHANGED <<turn, base, iter, retry, pending, terminal, job, work, signals, sum,
                   rolling, spent>>

\* The restore point and the conversation; the history may be too long already.
Capture ==
    /\ pc = "capture"
    /\ point' = [history |-> history, summary |-> summary]
    /\ messages' = Sanitize(history)
    /\ \/ pc' = "save" /\ UNCHANGED <<work, spent>>
       \/ /\ Trouble
          /\ pc' = "compress" /\ work' = [NoWork EXCEPT !.back = "save"]
    /\ UNCHANGED <<session, turn, base, mine, iter, retry, pending, terminal, job, signals, sum,
                   rolling, ghosts>>

Save ==
    /\ pc = "save"
    /\ Persist(User)
    /\ pc' = "loop"
    /\ UNCHANGED <<turn, base, point, iter, retry, pending, terminal, job, work, signals, sum,
                   rolling, spent>>

-------------------------------------------------------------------------------
(* forceCompression and what its two callers do after it *)

\* Reads history and summary; two messages or less are not compressed.
Compress ==
    /\ pc = "compress"
    /\ IF Len(history) <= 2
         THEN pc' = "rebuild" /\ UNCHANGED work
         ELSE /\ work' = [work EXCEPT !.kept = Half(history), !.summary = summary,
                                        !.dropped = Ids(history) \ Ids(Half(history))]
              /\ pc' = "note"
    /\ UNCHANGED <<session, turn, base, point, mine, messages, iter, retry, pending, terminal, job,
                   signals, sum, rolling, spent, ghosts>>

\* SetSummary: a note is added to the summary that was read.
Note ==
    /\ pc = "note"
    /\ summary' = work.summary
    /\ Mark(Overlap)
    /\ pc' = "cut"
    /\ UNCHANGED <<history, turn, base, point, mine, messages, iter, retry, pending, terminal, job,
                   work, signals, sum, rolling, spent, owner>>

\* SetHistory.
Cut ==
    /\ pc = "cut"
    /\ history' = work.kept
    /\ fate' = [fate EXCEPT !.noted = @ \cup work.dropped, !.compressed = TRUE,
                            !.marks = @ \cup Overlap]
    /\ pc' = "refresh"
    /\ UNCHANGED <<summary, turn, base, point, mine, messages, iter, retry, pending, terminal, job,
                   work, signals, sum, rolling, spent, owner>>

\* refreshRestorePointFromSession.
Refresh ==
    /\ pc = "refresh"
    /\ point' = [history |-> SubSeq(history, 1, Len(history) - MatchingTail(history, mine)),
                 summary |-> summary]
    /\ pc' = "rebuild"
    /\ UNCHANGED <<session, turn, base, mine, messages, iter, retry, pending, terminal, job, work,
                   signals, sum, rolling, spent, ghosts>>

\* BuildMessages from the session as it is now.
Rebuild ==
    /\ pc = "rebuild"
    /\ messages' = Sanitize(history)
    /\ pc' = work.back
    /\ work' = NoWork
    /\ UNCHANGED <<session, turn, base, point, mine, iter, retry, pending, terminal, job, signals,
                   sum, rolling, spent, ghosts>>

-------------------------------------------------------------------------------
(* The turn loop *)

\* The head of the loop and the poll of the steering queue.
Loop ==
    /\ pc = "loop"
    /\ IF iter < MaxIterations \/ pending > 0 \/ graceful = "asked"
         THEN IF hardAbort
                THEN pc' = "restore" /\ UNCHANGED <<iter, pending, queue>>
                ELSE /\ iter' = iter + 1
                     /\ pending' = pending + queue /\ queue' = 0
                     /\ pc' = "inject"
         ELSE pc' = "after" /\ UNCHANGED <<iter, pending, queue>>
    /\ UNCHANGED <<session, turn, base, point, mine, messages, retry, terminal, job, work, graceful,
                   hardAbort, sum, rolling, spent, ghosts>>

Inject ==
    /\ pc = "inject" /\ pending > 0
    /\ Persist(User)
    /\ pending' = pending - 1
    /\ UNCHANGED <<pc, turn, base, point, iter, retry, terminal, job, work, signals, sum, rolling,
                   spent>>

\* The request is made; after a graceful interrupt it is the last one, without
\* tools.
Ask ==
    /\ pc = "inject" /\ pending = 0
    /\ terminal' = (graceful = "asked")
    /\ graceful' = IF graceful = "asked" THEN "used" ELSE graceful
    /\ retry' = 0
    /\ pc' = "llm"
    /\ UNCHANGED <<session, turn, base, point, mine, messages, iter, pending, job, work, queue,
                   hardAbort, sum, rolling, spent, ghosts>>

\* A final answer, unless messages have arrived meanwhile.
Answer ==
    /\ pc = "llm"
    /\ pending' = queue /\ queue' = 0
    /\ pc' = IF queue > 0 THEN "loop" ELSE "after"
    /\ retry' = 0 /\ terminal' = FALSE
    /\ UNCHANGED <<session, turn, base, point, mine, messages, iter, job, work, graceful, hardAbort,
                   sum, rolling, spent, ghosts>>

CallTools(k) ==
    /\ pc = "llm" /\ ~terminal
    /\ Persist(Assistant(k))
    /\ job' = [of |-> NextId, nr |-> 1, total |-> k]
    /\ pc' = "tool" /\ retry' = 0
    /\ UNCHANGED <<turn, base, point, iter, pending, terminal, work, signals, sum, rolling,
                   spent>>

\* A timeout, or a request that is too large: the history is compressed and the
\* call repeated.
Retry ==
    /\ pc = "llm" /\ retry < MaxRetries
    /\ retry' = retry + 1
    /\ \/ UNCHANGED <<pc, work, spent>>
       \/ /\ Trouble
          /\ pc' = "compress" /\ work' = [NoWork EXCEPT !.back = "llm"]
    /\ UNCHANGED <<session, turn, base, point, mine, messages, iter, pending, terminal, job, signals,
                   sum, rolling, ghosts>>

\* The LLM call fails, or a hook ends the turn: what is there stays there.
Fail ==
    /\ pc \in {"llm", "tool"}
    /\ Leave
    /\ UNCHANGED <<session, turn, queue, sum, rolling, spent, ghosts>>

\* hardAbortRequested between two calls, or after one that it has cancelled.
Abort ==
    /\ pc \in {"llm", "tool"} /\ hardAbort
    /\ pc' = "restore"
    /\ UNCHANGED <<session, turn, base, point, mine, messages, iter, retry, pending, terminal, job,
                   work, signals, sum, rolling, spent, ghosts>>

NextJob(pcIfMore) ==
    IF job.nr < job.total
      THEN pc' = pcIfMore /\ job' = [job EXCEPT !.nr = @ + 1]
      ELSE pc' = "loop" /\ job' = NoJob

\* Faulty variant: the poll leaves the messages in the queue.
RunToolPeeking ==
    /\ pc = "tool"
    /\ Persist(ToolResult(job.of, job.nr))
    /\ pending' = pending + queue /\ queue' = queue
    /\ NextJob(IF pending' > 0 \/ graceful = "asked" THEN "skip" ELSE "tool")
    /\ UNCHANGED <<turn, base, point, iter, retry, terminal, work, graceful, hardAbort, sum, rolling,
                   spent>>

\* A tool has run: its result, a poll, and the remaining calls are skipped when
\* there is something more urgent.
RunTool ==
    /\ pc = "tool"
    /\ Persist(ToolResult(job.of, job.nr))
    /\ pending' = pending + queue /\ queue' = 0
    /\ NextJob(IF pending' > 0 \/ graceful = "asked" THEN "skip" ELSE "tool")
    /\ UNCHANGED <<turn, base, point, iter, retry, terminal, work, graceful, hardAbort, sum, rolling,
                   spent>>

\* A hook denies a call.
DenyTool ==
    /\ pc = "tool"
    /\ Persist(ToolResult(job.of, job.nr))
    /\ NextJob("tool")
    /\ UNCHANGED <<turn, base, point, iter, retry, pending, terminal, work, signals, sum, rolling,
                   spent>>

SkipTool ==
    /\ pc = "skip"
    /\ Persist(ToolResult(job.of, job.nr))
    /\ NextJob("skip")
    /\ UNCHANGED <<turn, base, point, iter, retry, pending, terminal, work, signals, sum, rolling,
                   spent>>
-------------------------------------------------------------------------------
(* A turn ends *)

\* Faulty variant: the abort is left to the head of the loop.
AfterLooping ==
    /\ pc = "after"
    /\ pending' = queue /\ queue' = 0
    /\ pc' = IF queue > 0 \/ hardAbort THEN "loop" ELSE "finish"
    /\ UNCHANGED <<session, turn, base, point, mine, messages, iter, retry, terminal, job, work,
                   graceful, hardAbort, sum, rolling, spent, ghosts>>

\* The last poll, and the last look at the abort flag.
After ==
    /\ pc = "after"
    /\ pending' = queue /\ queue' = 0
    /\ pc' = IF queue > 0 THEN "loop" ELSE IF hardAbort THEN "restore" ELSE "finish"
    /\ UNCHANGED <<session, turn, base, point, mine, messages, iter, retry, terminal, job, work,
                   graceful, hardAbort, sum, rolling, spent, ghosts>>

\* The final answer is saved.  The summarizer is started when the history is
\* long enough, one at a time; whether it is, is a matter of the thresholds.
Finish ==
    /\ pc = "finish"
    /\ Add(Assistant(0))
    /\ \/ sum' = sum
       \/ sum.pc = "off" /\ sum' = [sum EXCEPT !.pc = "snap"]
    /\ Leave
    /\ UNCHANGED <<turn, queue, rolling, spent>>

\* A hook asks for a hard abort, before or after the LLM call or a tool.
HookAbort ==
    /\ pc \in {"llm", "tool"}
    /\ hardAbort' = TRUE
    /\ pc' = "restore"
    /\ UNCHANGED <<session, turn, base, point, mine, messages, iter, retry, pending, terminal, job,
                   work, queue, graceful, sum, rolling, spent, ghosts>>

\* abortTurn, restoreSession: SetHistory, then SetSummary.
Restore ==
    /\ pc = "restore"
    /\ history' = point.history
    /\ fate' = [fate EXCEPT !.aborted = IF fate.compressed THEN @ ELSE @ \cup {turn},
                            !.undone = @ \cup {turn}, !.marks = @ \cup Overlap]
    /\ pc' = "restoreSummary"
    /\ UNCHANGED <<summary, turn, base, point, mine, messages, iter, retry, pending, terminal, job,
                   work, signals, sum, rolling, spent, owner>>

RestoreSummary ==
    /\ pc = "restoreSummary"
    /\ summary' = point.summary
    /\ Mark(Overlap)
    /\ Leave
    /\ UNCHANGED <<history, turn, queue, sum, rolling, spent, owner>>

-------------------------------------------------------------------------------
(* What other goroutines do to a turn *)

Steer ==
    /\ pc # "idle"
    /\ Trouble
    /\ queue' = queue + 1
    /\ UNCHANGED <<session, turnVars, graceful, hardAbort, sum, rolling, ghosts>>

\* InterruptGraceful is refused once the turn is being aborted.
InterruptGraceful ==
    /\ pc # "idle" /\ ~hardAbort /\ graceful = "no"
    /\ Trouble
    /\ graceful' = "asked"
    /\ UNCHANGED <<session, turnVars, queue, hardAbort, sum, rolling, ghosts>>

InterruptHard ==
    /\ pc # "idle" /\ ~hardAbort
    /\ Trouble
    /\ hardAbort' = TRUE
    /\ UNCHANGED <<session, turnVars, queue, graceful, sum, rolling, ghosts>>

\* HardAbort of a root turn: Finish cancels nothing there (cancelFunc and al are
\* nil), the turn runs on, and its messages so far are cut off by length.
Rollback ==
    /\ pc \notin {"idle", "capture"} /\ rolling = <<>>
    /\ base < Len(history)
    /\ Trouble
    /\ rolling' = <<[history |-> history, base |-> base, turn |-> turn]>>
    /\ UNCHANGED <<session, turnVars, signals, sum, ghosts>>

RollbackWrite ==
    /\ rolling # <<>>
    /\ history' = SubSeq(rolling[1].history, 1, rolling[1].base)
    /\ rolling' = <<>>
    /\ fate' = [fate EXCEPT !.aborted = @ \ {rolling[1].turn}, !.undone = @ \cup {rolling[1].turn},
                            !.compressed = TRUE, !.cut = @ \cup {job.of},
                            !.marks = @ \cup IF sum.pc \in {"read", "set", "cut"} THEN {"overlap"} ELSE {}]
    /\ UNCHANGED <<summary, turnVars, signals, sum, spent, owner>>

-------------------------------------------------------------------------------
(* summarizeSession, in its own goroutine *)

Snapshot ==
    /\ sum.pc = "snap"
    /\ sum' = [sum EXCEPT !.pc = "read", !.history = history]
    /\ UNCHANGED <<session, turnVars, signals, rolling, spent, ghosts>>

Spoken(h) == Cardinality({i \in DOMAIN h : h[i].role \in {"user", "assistant"}})

\* What is summarised is decided on the history that was read; more than
\* MaxBatch messages are summarised in two parts, without the old summary.
Decide ==
    LET h == sum.history
        cut == SafeBoundary(h, Len(h) - KeepRecent)
        old == SubSeq(h, 1, cut)
    IN /\ sum.pc = "read"
       /\ IF Len(h) <= KeepRecent \/ cut <= 0 \/ Spoken(old) = 0
            THEN sum' = Off /\ UNCHANGED fate
            ELSE /\ sum' = [pc |-> "set", history |-> <<>>, keep |-> Len(h) - cut,
                            covered |-> Ids(old) \cup (IF Spoken(old) > MaxBatch THEN {} ELSE summary)]
                 /\ Mark(IF Spoken(old) > MaxBatch /\ summary # {} THEN {"replaced"} ELSE {})
       /\ UNCHANGED <<session, turnVars, signals, rolling, spent, owner>>

\* SetSummary, when the LLM has answered.
StoreSummary ==
    /\ sum.pc = "set"
    /\ summary' = sum.covered
    /\ sum' = [sum EXCEPT !.pc = "cut", !.covered = {}]
    /\ Mark(Crossing)
    /\ UNCHANGED <<history, turnVars, signals, rolling, spent, owner>>

\* Faulty variant: one message too many is cut off.
TruncateOneMore ==
    /\ sum.pc = "cut"
    /\ history' = LastOf(history, sum.keep - 1)
    /\ sum' = Off
    /\ Mark(Crossing)
    /\ UNCHANGED <<summary, turnVars, signals, rolling, spent, owner>>

\* TruncateHistory: the last messages of the history as it is now.
TruncateRest ==
    /\ sum.pc = "cut"
    /\ history' = LastOf(history, sum.keep)
    /\ sum' = Off
    /\ Mark(Crossing)
    /\ UNCHANGED <<summary, turnVars, signals, rolling, spent, owner>>

-------------------------------------------------------------------------------
(* Specification *)

RunTurn ==
    \/ Capture \/ Save
    \/ Compress \/ Note \/ Cut \/ Refresh \/ Rebuild
    \/ Loop \/ Inject \/ Ask \/ Answer \/ Retry \/ Fail \/ Abort
    \/ \E k \in 1..MaxCalls : CallTools(k)
    \/ RunTool \/ DenyTool \/ SkipTool
    \/ After \/ Finish \/ HookAbort \/ Restore \/ RestoreSummary
Interfere == Steer \/ InterruptGraceful \/ InterruptHard \/ Rollback \/ RollbackWrite
Summarize == Snapshot \/ Decide \/ StoreSummary \/ TruncateRest
Next == Begin \/ RunTurn \/ Interfere \/ Summarize

Spec == Init /\ [][Next]_vars

\* The goroutine of a turn is run, and its LLM calls and tools end.  This is
\* WF_vars(RunTurn): RunTurn is enabled whenever there is a turn.
TurnRuns == []<>(pc = "idle") \/ []<><<RunTurn>>_vars
FairSpec == Spec /\ TurnRuns

-------------------------------------------------------------------------------
(* Properties *)

Messages == [role : {"user", "assistant", "tool"}, id : 1..Len(owner), turn : 1..MaxTurns,
             calls : 0..MaxCalls, of : 0..Len(owner), nr : 0..MaxCalls]

\* The values of the variables.
TypeOK ==
    /\ \A h \in {history, mine, messages, point.history, work.kept, sum.history} :
         \A i \in DOMAIN h : h[i] \in Messages
    /\ \A s \in {summary, point.summary, work.summary, sum.covered, fate.noted} : s \subseteq 1..Len(owner)
    /\ turn \in 0..MaxTurns /\ iter \in Nat /\ retry \in 0..MaxRetries
    /\ pending \in 0..MaxTroubles /\ queue \in 0..MaxTroubles
    /\ terminal \in BOOLEAN /\ hardAbort \in BOOLEAN /\ graceful \in {"no", "asked", "used"}
    /\ fate.cut \subseteq 0..Len(owner)
    /\ fate.aborted \subseteq 1..MaxTurns /\ fate.marks \subseteq {"overlap", "replaced"}

\* Every request that reaches the provider has, right behind an assistant
\* message with tool calls, the results of all its calls, and no other results:
\* whatever compression, summarizer, aborts, errors in the middle of a batch and
\* skipped calls have done to the history.  (A provider refuses anything else.)
\* Except for the results of a batch that HardAbort's rollback has cut off: those
\* that come after it may end up behind the results of an earlier batch, and
\* sanitizeHistoryForProvider does not compare them with it (context.go:709-730).
RequestsWellFormed ==
    pc = "llm" =>
        \A i \in DOMAIN messages :
            /\ messages[i].calls > 0 => Answered(messages, i)
            /\ messages[i].role = "tool" /\ messages[i].of \notin fate.cut =>
                 \E j \in 1 .. i - 1 : /\ messages[j].id = messages[i].of
                                       /\ i \in Block(messages, j)

\* A turn that has been aborted leaves none of its messages in the history,
\* whatever the summarizer did meanwhile, and none comes back later (abortTurn);
\* except when the history was compressed during the turn or HardAbort rolled it
\* back, which move the restore point or write an older history.
AbortLeavesNoTrace ==
    \A i \in DOMAIN history : history[i].turn \notin fate.aborted

\* As long as no goroutine has written the session between another's read and
\* write of it, and no summary has been replaced by one in two parts, every
\* message of a turn that was not undone is still known: in the history, in the
\* summary, or counted in a note of forceCompression.
NothingForgotten ==
    fate.marks = {} =>
        \A i \in DOMAIN owner :
            owner[i] \in fate.undone \/ i \in Ids(history) \cup summary \cup fate.noted

\* Every turn ends: the iterations are limited, and what prolongs a turn beyond
\* the limit (messages that arrive, an interrupt) is used up.
TurnEnds == pc # "idle" ~> pc = "idle"
===============================================================================
