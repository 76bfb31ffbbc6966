----------------------------- MODULE MCMessageBus -----------------------------
(* Small instance of the message bus for TLC. *)
EXTENDS MessageBus

\* Two of the three channels: enough for Close to have closed one of them
\* and not yet the other, or drained one and not yet the other.
MCStreamOrder == <<"inbound", "outbound">>
===============================================================================
