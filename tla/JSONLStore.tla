------------------------------ MODULE JSONLStore ------------------------------
(***************************************************************************)
(* memory.JSONLStore (pkg/memory/jsonl.go) for one session: a file with a  *)
(* line for each message, only ever appended to or replaced as a whole, and *)
(* a metadata file with the number of lines to skip.  The session's mutex   *)
(* makes the operations sequential; the model takes them apart at the       *)
(* writes to the disk, between which the process can die or a write fail.   *)
(* Nothing else survives a restart, and a failed operation leaves the disk  *)
(* as a dead process does, so one action Fail stands for both.              *)
(***************************************************************************)
EXTENDS Naturals, Sequences, SequencesExt

CONSTANTS MaxMsgs,    \* bound: messages ever written, numbered in order
          MaxKeep,    \* bound: largest argument of TruncateHistory
          Summaries,  \* conversation summaries
          NoSummary   \* the empty one

ASSUME StoreAssumption == MaxMsgs \in Nat /\ MaxKeep \in Nat /\ NoSummary \in Summaries

StoredMsgs == 1..MaxMsgs
Torn == 0   \* a line that json.Unmarshal refuses

VARIABLES
    lines,    \* the non-empty lines of {key}.jsonl
    ended,    \* the last of them ends with a newline
    skip,     \* meta.Skip
    count,    \* meta.Count
    summary,  \* meta.Summary
    op,       \* the operation in progress: what is left to write
    written,  \* the number of the last message
    promised, \* history: what the operations that returned success left behind
    did       \* history: the operation that took effect, or failed, last

jsonlVars == <<lines, ended, skip, count, summary, op, written, promised, did>>
fileVars == <<lines, ended>>
metaVars == <<skip, count, summary>>

Idle == [kind |-> "idle", content |-> <<>>, before |-> <<>>]
Did(kind, arg) == [kind |-> kind, arg |-> arg]
Pending(kind, content, before) == [kind |-> kind, content |-> content, before |-> before]

JSONLTypeOK ==
    /\ lines \in Seq(StoredMsgs \cup {Torn})
    /\ ended \in BOOLEAN
    /\ skip \in Nat /\ count \in Nat
    /\ summary \in Summaries
    /\ op \in [kind : {"idle", "append", "set", "compact"},
               content : Seq(StoredMsgs), before : Seq(StoredMsgs)]
    /\ written \in 0..MaxMsgs
    /\ promised \in Seq(StoredMsgs)
    /\ did \in [kind : {"none", "add", "tear", "truncate", "set", "compact", "summary", "fail"},
               arg : Seq(Nat)]

JSONLInit ==
    /\ lines = <<>> /\ ended = TRUE
    /\ skip = 0 /\ count = 0
    /\ summary = NoSummary
    /\ op = Idle
    /\ written = 0
    /\ promised = <<>>
    /\ did = Did("none", <<>>)

-------------------------------------------------------------------------------
(* Reading *)

\* readMessages: line by line, and those that cannot be decoded are left out.
Decode(s) ==
    LET read[n \in 0..Len(s)] ==
            IF n = 0 THEN <<>> ELSE IF s[n] = Torn THEN read[n - 1] ELSE Append(read[n - 1], s[n])
    IN read[Len(s)]

\* GetHistory
Visible == Decode(SubSeq(lines, skip + 1, Len(lines)))

-------------------------------------------------------------------------------
(* Writing *)

\* The file after text without a final newline has been written: a line of its
\* own (content: the message, or Torn if some of it is missing), unless it
\* continues an unfinished line.
Extended(content) ==
    IF ended THEN Append(lines, content) ELSE [lines EXCEPT ![Len(lines)] = Torn]

\* addMsg: the line is appended and synced.
AppendLine ==
    /\ op = Idle
    /\ written < MaxMsgs
    /\ written' = written + 1
    /\ lines' = Extended(written + 1)
    /\ ended' = TRUE
    /\ op' = Pending("append", <<written + 1>>, <<>>)
    /\ did' = Did("add", <<written + 1>>)
    /\ UNCHANGED <<metaVars, promised>>

\* addMsg fails in the middle of the write: some text is on the disk, all but
\* the newline at most.
AppendPart ==
    /\ op = Idle
    /\ written < MaxMsgs
    /\ written' = written + 1
    /\ lines' \in {Extended(Torn), Extended(written + 1)}
    /\ ended' = FALSE
    /\ did' = Did("tear", <<written + 1>>)
    /\ UNCHANGED <<metaVars, op, promised>>

\* addMsg: the metadata follow.
CountLine ==
    /\ op.kind = "append"
    /\ count' = count + 1
    /\ op' = Idle
    /\ promised' = promised \o op.content
    /\ UNCHANGED <<fileVars, skip, summary, written, did>>

\* Faulty variants: without the comparison with what is left, and with the
\* count of the metadata instead of the lines.
TruncateUnchecked(k) ==
    /\ op = Idle
    /\ did' = Did("truncate", <<k>>)
    /\ count' = Len(lines)
    /\ skip' = Len(lines) - k
    /\ UNCHANGED <<fileVars, summary, op, written, promised>>
TruncateByCount(k) ==
    /\ op = Idle
    /\ did' = Did("truncate", <<k>>)
    /\ skip' = IF k < count - skip THEN count - k ELSE skip
    /\ UNCHANGED <<fileVars, count, summary, op, written, promised>>

\* TruncateHistory: one write of the metadata, with the lines counted afresh.
Truncate(k) ==
    /\ op = Idle
    /\ did' = Did("truncate", <<k>>)
    /\ count' = Len(lines)
    /\ skip' = IF k < Len(lines) - skip THEN Len(lines) - k ELSE skip
    /\ promised' = IF k < Len(promised)
                     THEN SubSeq(promised, Len(promised) - k + 1, Len(promised))
                     ELSE promised
    /\ UNCHANGED <<fileVars, summary, op, written>>

\* SetSummary
SetSummary(t) ==
    /\ op = Idle
    /\ did' = Did("summary", <<>>)
    /\ summary' = t
    /\ UNCHANGED <<fileVars, skip, count, op, written, promised>>

\* SetHistory: the metadata first.
SetHistory(h) ==
    /\ op = Idle
    /\ skip' = 0
    /\ count' = Len(h)
    /\ op' = Pending("set", h, Visible)
    /\ UNCHANGED <<fileVars, summary, written, promised, did>>

\* Faulty variant: the first line that is not skipped goes, too.
CompactOneMore ==
    /\ op = Idle
    /\ skip # 0
    /\ skip' = 0
    /\ count' = Len(Visible)
    /\ op' = Pending("compact", Decode(SubSeq(lines, skip + 2, Len(lines))), Visible)
    /\ UNCHANGED <<fileVars, summary, written, promised, did>>

\* Compact: nothing to do without a skip, else the metadata first.
Compact ==
    /\ op = Idle
    /\ skip # 0
    /\ skip' = 0
    /\ count' = Len(Visible)
    /\ op' = Pending("compact", Visible, Visible)
    /\ UNCHANGED <<fileVars, summary, written, promised, did>>

\* rewriteJSONL: the file is replaced atomically.
Rewrite ==
    /\ op.kind \in {"set", "compact"}
    /\ lines' = op.content /\ ended' = TRUE
    /\ promised' = op.content
    /\ op' = Idle
    /\ did' = IF op.kind = "set" THEN Did("set", op.content) ELSE Did("compact", <<>>)
    /\ UNCHANGED <<metaVars, written>>

\* The process dies, or a write fails and the operation returns an error: what
\* is left of the operation does not happen.
Fail ==
    /\ op # Idle
    /\ op' = Idle
    /\ did' = Did("fail", <<>>)
    /\ UNCHANGED <<fileVars, metaVars, written, promised>>

JSONLNext ==
    \/ AppendLine \/ AppendPart \/ CountLine
    \/ \E k \in 0..MaxKeep : Truncate(k)
    \/ \E t \in Summaries : SetSummary(t)
    \/ \E i \in 1..Len(Visible) + 1, j \in 0..Len(Visible) : SetHistory(SubSeq(Visible, i, j))
    \/ Compact
    \/ Rewrite
    \/ Fail

JSONLSpec == JSONLInit /\ [][JSONLNext]_jsonlVars

-------------------------------------------------------------------------------
(* Properties *)

\* The lines to skip exist, so that messages appended later are visible (two
\* files say how much there is to skip, and they are written one after the
\* other: jsonl.go:384-387, 424-428); and GetHistory returns messages in the
\* order they were added, each at most once, whatever has failed in between
\* (store.go:19-20).
SkipWithinFile == skip <= Len(lines)
HistoryInOrder == \A i, j \in DOMAIN Visible : i < j => Visible[i] < Visible[j]
StoreConsistent == SkipWithinFile /\ HistoryInOrder

\* The two files implement the store: a rewrite under way has not happened yet.
Rewriting == op.kind \in {"set", "compact"}
Undecoded == Torn \in ToSet(lines) \/ ~ended

Store == INSTANCE SessionStore WITH
    Msgs <- StoredMsgs,
    history <- IF Rewriting THEN op.before ELSE Visible,
    buried <- IF Rewriting
                THEN SubSeq(Decode(lines), 1, Len(Decode(lines)) - Len(op.before))
                ELSE Decode(SubSeq(lines, 1, skip)),
    intact <- ~Undecoded

\* What GetHistory and GetSummary show changes only as the store promises, each
\* operation at one of its writes; failures bring truncated messages back or
\* cost messages next to a half-written one, and do nothing worse.
ImplementsStore == Store!StoreSpec

\* What the store's documentation says of appends: they are crash-safe, so a
\* message whose AddMessage returned success is not lost (jsonl.go:47-49).
AcknowledgedKept == op = Idle => ToSet(promised) \subseteq ToSet(Visible)
===============================================================================
