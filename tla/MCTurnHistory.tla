---------------------------- MODULE MCTurnHistory ----------------------------
(* Small instance of TurnHistory for TLC. *)
EXTENDS TurnHistory

\* Bound: the last turn begins only when HardAbort has cut off a batch of tool
\* calls and no summarizer runs, and is followed to its first request, which
\* meets the results that were appended after it.
LastTurnShort ==
    turn = MaxTurns =>
        /\ fate.cut \ {0} # {} /\ sum.pc = "off"
        /\ iter <= 1 /\ pc \in {"capture", "save", "loop", "inject", "llm"}
===============================================================================
