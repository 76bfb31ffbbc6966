------------------------------- MODULE Mailbox -------------------------------
(***************************************************************************)
(* What the message bus promises its users, without goroutines, locks or   *)
(* bounded buffers: every stream is a FIFO queue that takes messages while *)
(* it is open, hands each of them to the reader at most once and in the    *)
(* order it took them, and loses messages only after it has been shut.     *)
(***************************************************************************)
EXTENDS Sequences

CONSTANTS Streams,   \* the streams of the bus
          Msgs       \* the messages that can be offered

VARIABLES open,      \* the streams that still take messages
          queue,     \* stream -> messages taken and not yet handed over
          taken      \* stream -> messages handed to the reader, in order

mvars == <<open, queue, taken>>

MailboxInit ==
    /\ open = Streams
    /\ queue = [s \in Streams |-> <<>>]
    /\ taken = [s \in Streams |-> <<>>]

\* An open stream takes a message.
Offer(s, m) ==
    /\ s \in open
    /\ queue' = [queue EXCEPT ![s] = Append(@, m)]
    /\ UNCHANGED <<open, taken>>

\* The reader gets the oldest message, before or after the stream is shut.
Take(s) ==
    /\ queue[s] # <<>>
    /\ queue' = [queue EXCEPT ![s] = Tail(@)]
    /\ taken' = [taken EXCEPT ![s] = Append(@, Head(queue[s]))]
    /\ UNCHANGED open

\* Shutting is final: no stream is ever opened again.
Shut(s) ==
    /\ s \in open
    /\ open' = open \ {s}
    /\ UNCHANGED <<queue, taken>>

\* A message that no reader asked for may be thrown away, but only when
\* every stream has been shut.
Discard(s) ==
    /\ open = {}
    /\ queue[s] # <<>>
    /\ queue' = [queue EXCEPT ![s] = Tail(@)]
    /\ UNCHANGED <<open, taken>>

MailboxNext ==
    \E s \in Streams :
        \/ \E m \in Msgs : Offer(s, m)
        \/ Take(s)
        \/ Shut(s)
        \/ Discard(s)

MailboxSpec == MailboxInit /\ [][MailboxNext]_mvars
==============================================================================
