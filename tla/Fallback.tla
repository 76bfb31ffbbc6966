------------------------------- MODULE Fallback -------------------------------
(***************************************************************************)
(* The fallback chain over model candidates (pkg/providers/fallback.go) with *)
(* its cool-downs (cooldown.go), shared by all the agents and sub-turns that *)
(* call an LLM.  The calls themselves are external: they end with an answer  *)
(* or an error of some reason, or when their context is canceled.            *)
(*                                                                          *)
(* Time is counted in minutes and jumps between Moments.                     *)
(***************************************************************************)
EXTENDS Integers, Sequences, FiniteSets

CONSTANTS
    Chain,           \* the candidates, in order
    FallbackCallers, \* concurrent calls of Execute
    Moments,         \* the minutes at which something may happen
    MaxMisses        \* bound: calls that fail

\* The first conjunct says that Chain is a sequence.
ASSUME FallbackAssumption ==
    /\ Chain \in Seq({Chain[i] : i \in DOMAIN Chain})
    /\ Moments \subseteq Nat /\ 0 \in Moments /\ MaxMisses \in Nat

VARIABLES
    minute,    \* the clock
    entries,   \* candidate -> its cooldownEntry
    calls,     \* caller -> what its Execute does
    misses     \* what is left of the bound

fallbackVars == <<minute, entries, calls, misses>>

Candidates == {Chain[i] : i \in DOMAIN Chain}
Zero == -1   \* the zero time
Smaller(a, b) == IF a < b THEN a ELSE b

\* calculateStandardCooldown and calculateBillingCooldown, in minutes.
StandardCooldown(n) == Smaller(60, 5 ^ Smaller(n - 1, 3))
BillingCooldown(n) == Smaller(24 * 60, 5 * 60 * 2 ^ Smaller(n - 1, 10))
FailureWindow == 24 * 60

NewEntry == [errors |-> 0, billing |-> 0, coolEnd |-> Zero, disabled |-> Zero, last |-> Zero]
Resting == [pc |-> "rest", i |-> 0, attempts |-> <<>>, result |-> "none"]

FallbackInit ==
    /\ minute = 0
    /\ entries = [c \in Candidates |-> NewEntry]
    /\ calls = [e \in FallbackCallers |-> Resting]
    /\ misses = 0

\* MarkFailure: the counters start anew when the last failure is long ago.
Counted(e) ==
    IF e.last # Zero /\ minute - e.last > FailureWindow
      THEN [e EXCEPT !.errors = 0, !.billing = 0] ELSE e

\* Faulty variant: a new failure replaces the other kind of cool-down.
MarkOne(e, reason) ==
    LET n == [Counted(e) EXCEPT !.errors = @ + 1, !.last = minute]
    IN IF reason = "billing"
         THEN [n EXCEPT !.billing = @ + 1, !.coolEnd = Zero,
                        !.disabled = minute + BillingCooldown(n.billing + 1)]
         ELSE [n EXCEPT !.coolEnd = minute + StandardCooldown(n.errors), !.disabled = Zero]
MarkFailure(e, reason) ==
    LET n == [Counted(e) EXCEPT !.errors = @ + 1, !.last = minute]
    IN IF reason = "billing"
         THEN [n EXCEPT !.billing = @ + 1,
                        !.disabled = minute + BillingCooldown(n.billing + 1)]
         ELSE [n EXCEPT !.coolEnd = minute + StandardCooldown(n.errors)]

MarkSuccess(e) == [NewEntry EXCEPT !.last = e.last]

IsAvailable(e) == minute >= e.disabled /\ minute >= e.coolEnd
AvailableAt(e) == IF e.disabled > e.coolEnd THEN e.disabled ELSE e.coolEnd

-------------------------------------------------------------------------------
(* Execute *)

Goes(e, r) == calls' = [calls EXCEPT ![e] = r]
Attempted(e, what) == Append(calls[e].attempts, what)
ReturnCall(e, what, attempts) ==
    Goes(e, [pc |-> "rest", i |-> calls[e].i, attempts |-> attempts, result |-> what])

CallExecute(e) ==
    /\ calls[e] = Resting
    /\ Goes(e, [pc |-> "next", i |-> 1, attempts |-> <<>>, result |-> "none"])
    /\ UNCHANGED <<minute, entries, misses>>

\* Behind the last candidate all have been skipped or the last was: exhausted.
\* A candidate that cools down is skipped, the others are run.
TryCandidate(e) ==
    /\ calls[e].pc = "next"
    /\ IF calls[e].i > Len(Chain) THEN ReturnCall(e, "exhausted", calls[e].attempts)
         ELSE IF ~IsAvailable(entries[Chain[calls[e].i]])
           THEN Goes(e, [calls[e] EXCEPT !.i = @ + 1, !.attempts = Attempted(e, "skipped")])
           ELSE Goes(e, [calls[e] EXCEPT !.pc = "run"])
    /\ UNCHANGED <<minute, entries, misses>>

CancelExecute(e) ==
    /\ calls[e].pc \in {"next", "run"}
    /\ ReturnCall(e, "canceled", calls[e].attempts)
    /\ UNCHANGED <<minute, entries, misses>>

AnswerCall(e) ==
    /\ calls[e].pc = "run"
    /\ entries' = [entries EXCEPT ![Chain[calls[e].i]] = MarkSuccess(@)]
    /\ ReturnCall(e, "answer", Attempted(e, "answer"))
    /\ UNCHANGED <<minute, misses>>

\* An unclassified error or one of format is returned; the others, of which
\* billing has a cool-down of its own, lead to the next candidate.
FailCall(e, reason) ==
    /\ calls[e].pc = "run"
    /\ misses < MaxMisses /\ misses' = misses + 1
    /\ IF reason = "format"
         THEN ReturnCall(e, "failed", Attempted(e, "failed")) /\ UNCHANGED entries
         ELSE /\ entries' = [entries EXCEPT ![Chain[calls[e].i]] = MarkFailure(@, reason)]
              /\ IF calls[e].i = Len(Chain)
                   THEN ReturnCall(e, "exhausted", Attempted(e, "failed"))
                   ELSE Goes(e, [calls[e] EXCEPT !.pc = "next", !.i = @ + 1,
                                                 !.attempts = Attempted(e, "failed")])
    /\ UNCHANGED minute

ForgetCall(e) ==
    /\ calls[e].pc = "rest" /\ calls[e] # Resting
    /\ Goes(e, Resting) /\ UNCHANGED <<minute, entries, misses>>

TimePasses ==
    /\ \E t \in Moments : t > minute /\ minute' = t
    /\ UNCHANGED <<entries, calls, misses>>

FallbackNext ==
    \/ \E e \in FallbackCallers :
         \/ CallExecute(e) \/ TryCandidate(e) \/ CancelExecute(e) \/ AnswerCall(e) \/ ForgetCall(e)
         \/ \E reason \in {"format", "billing", "rate_limit"} : FailCall(e, reason)
    \/ TimePasses

FallbackSpec == FallbackInit /\ [][FallbackNext]_fallbackVars

-------------------------------------------------------------------------------
(* Properties *)

FallbackTypeOK ==
    /\ minute \in Moments /\ misses \in 0..MaxMisses
    /\ \A c \in Candidates :
        /\ {entries[c].coolEnd, entries[c].disabled, entries[c].last} \subseteq Nat \cup {Zero}
        /\ {entries[c].errors, entries[c].billing} \subseteq 0..MaxMisses
        /\ entries[c].billing <= entries[c].errors
    /\ \A e \in FallbackCallers :
        /\ calls[e].pc \in {"rest", "next", "run"} /\ calls[e].i \in 0..Len(Chain) + 1
        /\ calls[e].result \in {"none", "answer", "canceled", "failed", "exhausted"}

\* A candidate that cools down is not available earlier because another caller,
\* which had started before, fails with it too, for whatever reason and with
\* counters that have just been reset; only an answer ends a cool-down.
CooldownNotShortened ==
    [][\A c \in Candidates :
        \/ AvailableAt(entries'[c]) >= AvailableAt(entries[c])
        \/ \E e \in FallbackCallers : AnswerCall(e) /\ c = Chain[calls[e].i]]_fallbackVars
===============================================================================
