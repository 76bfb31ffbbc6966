----------------------------- MODULE SessionStore -----------------------------
(***************************************************************************)
(* What memory.Store (pkg/memory/store.go) promises for one session, with   *)
(* failures: each step has the effect of the operation that takes place      *)
(* (did), and every operation happens completely or not at all, except that  *)
(*   - a failure while the history is rewritten may bring back messages that *)
(*     had been truncated before, in front of the history;                   *)
(*   - after a failure in the middle of an append, until the next rewrite,   *)
(*     a new message may be lost, with the one before it, and a truncation   *)
(*     may keep fewer messages than it was asked for.                        *)
(***************************************************************************)
EXTENDS Naturals, Sequences, SequencesExt

CONSTANTS Msgs,       \* messages
          Summaries,  \* conversation summaries
          NoSummary,  \* the empty one
          MaxKeep     \* bound: largest argument of TruncateHistory

VARIABLES history,  \* what GetHistory returns
          buried,   \* truncated messages that a failure may bring back
          summary,  \* what GetSummary returns
          intact,   \* no append has failed half-way since the last rewrite
          did       \* the operation that took place last, or failed

svars == <<history, buried, summary, intact, did>>

Did(kind, arg) == [kind |-> kind, arg |-> arg]

\* The contiguous parts of a history: what callers set it to (its most recent
\* turns, the history before an aborted turn, nothing).
Cuts(h) == {SubSeq(h, i, j) : i \in 1..Len(h) + 1, j \in 0..Len(h)}

LastOf(h, k) == SubSeq(h, Len(h) - k + 1, Len(h))

StoreInit ==
    /\ history = <<>> /\ buried = <<>>
    /\ summary = NoSummary
    /\ intact = TRUE
    /\ did = Did("none", <<>>)

Add(m) ==
    /\ did' = Did("add", <<m>>)
    /\ history' = Append(history, m)
    /\ UNCHANGED <<buried, summary, intact>>

\* An append after one that failed half-way is lost, and may take the message
\* before it along.
Spoil(m) ==
    /\ did' = Did("add", <<m>>)
    /\ ~intact
    /\ \/ UNCHANGED <<history, buried>>
       \/ history # <<>> /\ history' = Front(history) /\ UNCHANGED buried
       \/ buried # <<>> /\ buried' = Front(buried) /\ UNCHANGED history
    /\ UNCHANGED <<summary, intact>>

\* An append fails half-way: the message is there, or not, or spoils others.
Tear(m) ==
    /\ did' = Did("tear", <<m>>)
    /\ intact' = FALSE
    /\ \/ history' \in {history, Append(history, m)} /\ UNCHANGED buried
       \/ ~intact /\ history # <<>> /\ history' = Front(history) /\ UNCHANGED buried
       \/ ~intact /\ buried # <<>> /\ buried' = Front(buried) /\ UNCHANGED history
    /\ UNCHANGED summary

\* The last k messages stay, fewer only if an append has failed half-way.
Truncate(k) ==
    /\ did' = Did("truncate", <<k>>)
    /\ \E j \in 0..Len(history) :
          /\ j <= k
          /\ intact => j = k \/ j = Len(history)
          /\ history' = LastOf(history, j)
          /\ buried' = buried \o SubSeq(history, 1, Len(history) - j)
    /\ UNCHANGED <<summary, intact>>

Set(h) ==
    /\ did' = Did("set", h)
    /\ history' = h /\ buried' = <<>> /\ intact' = TRUE
    /\ UNCHANGED summary

Compact ==
    /\ did' = Did("compact", <<>>)
    /\ buried' = <<>> /\ intact' = TRUE
    /\ UNCHANGED <<history, summary>>

SetSummary(t) ==
    /\ did' = Did("summary", <<>>)
    /\ summary' = t
    /\ UNCHANGED <<history, buried, intact>>

\* An operation fails: if it was a rewrite, it may bring back what was buried.
Failed ==
    /\ did' = Did("fail", <<>>)
    /\ \/ history' = buried \o history /\ buried' = <<>>
       \/ UNCHANGED <<history, buried>>
    /\ UNCHANGED <<summary, intact>>

StoreNext ==
    \/ \E m \in Msgs : Add(m) \/ Spoil(m) \/ Tear(m)
    \/ \E k \in 0..MaxKeep : Truncate(k)
    \/ \E h \in Cuts(history) : Set(h)
    \/ Compact
    \/ \E t \in Summaries : SetSummary(t)
    \/ Failed

StoreSpec == StoreInit /\ [][StoreNext]_svars
===============================================================================
