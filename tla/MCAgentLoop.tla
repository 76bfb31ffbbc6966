----------------------------- MODULE MCAgentLoop -----------------------------
(* Small instance of the agent loop for TLC. *)
EXTENDS AgentLoop

CONSTANT FewMsgs

\* Messages are interchangeable: no definition names one.
MsgSymmetry == Permutations(Msgs)

\* Bound: all messages are sent only when they go to one chat and no other
\* caller has a turn; otherwise FewMsgs of them.
Affordable ==
    LET sent == {m \in Msgs : to[m] # None}
    IN \/ Cardinality(sent) <= FewMsgs
       \/ others = 0 /\ \A m \in sent : to[m] = MainSession
===============================================================================
