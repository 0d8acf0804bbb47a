-------------------------- MODULE BroadcastChannel --------------------------
(***************************************************************************)
(* The tokio broadcast channel as src/src/wssmanager.rs uses it: the       *)
(* senders never wait, the channel retains the last Capacity messages, and *)
(* every receiver reads from a position of its own.                        *)
(***************************************************************************)
EXTENDS Naturals, Sequences

CONSTANT Capacity   \* messages retained; 16 in the code

ASSUME BroadcastAssumption == Capacity \in Nat \ {0}

-----------------------------------------------------------------------------
(* For many receivers: the channel is a log of all messages ever sent, a    *)
(* receiver is the number of messages it is past.                           *)

\* A new receiver sees only what is sent after it subscribed.
Subscribed(log) == Len(log)

Readable(log, pos) == pos < Len(log)

\* The message the receiver would read next is no longer retained.
Lagged(log, pos) == pos + Capacity < Len(log)

\* recv answers a lagging receiver with an error and moves it to the oldest
\* message retained; otherwise it hands out one message.
AfterRecv(log, pos) == IF Lagged(log, pos) THEN Len(log) - Capacity ELSE pos + 1

-----------------------------------------------------------------------------
(* For one receiver that drops the error of lagging, as the main loop does: *)
(* the channel is what the receiver has not read and can still read.        *)

Overwrites(unread) == Len(unread) = Capacity

Sent(unread, m) == Append(IF Overwrites(unread) THEN Tail(unread) ELSE unread, m)
=============================================================================
