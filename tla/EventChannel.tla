---------------------------- MODULE EventChannel ----------------------------
(***************************************************************************)
(* What the JSON exporter of out_json.c promises, without its queue, its   *)
(* mutex or its thread.                                                    *)
(*                                                                         *)
(* Events are numbered 1, 2, ... in the order in which they are pushed.    *)
(* The channel offers them to each uplink in batches: a batch is a run of  *)
(* consecutive events that starts with the first event that uplink was not *)
(* offered yet.  The uplink gets the whole batch or none of it, and the    *)
(* result is ignored: a batch that got lost is never offered again.  Once  *)
(* the channel is closed nothing is pushed or offered any more.            *)
(***************************************************************************)
EXTENDS Naturals, Sequences

CONSTANTS NumUplinks,   \* uplinks 1..NumUplinks, in the order they are served
          PushLimit     \* bound: number of events pushed in a behaviour

Uplinks == 1..NumUplinks
Events == 1..PushLimit

VARIABLES pushed,     \* number of events pushed so far
          offered,    \* offered[u]: events 1..offered[u] were offered to u
          received,   \* received[u]: the sequence of events u really got
          closed

vars == <<pushed, offered, received, closed>>

\* The events first..last in order, as one request carries them.
Batch(first, last) == [i \in 1..(last - first + 1) |-> first + i - 1]

Init == /\ pushed = 0
        /\ offered = [u \in Uplinks |-> 0]
        /\ received = [u \in Uplinks |-> <<>>]
        /\ closed = FALSE

Push == /\ ~closed
        /\ pushed < PushLimit
        /\ pushed' = pushed + 1
        /\ UNCHANGED <<offered, received, closed>>

Offer(u) == /\ ~closed
            /\ \E last \in (offered[u] + 1)..pushed :
                 /\ offered' = [offered EXCEPT ![u] = last]
                 /\ \/ received' = [received EXCEPT
                                      ![u] = @ \o Batch(offered[u] + 1, last)]
                    \/ UNCHANGED received
            /\ UNCHANGED <<pushed, closed>>

Close == /\ ~closed
         /\ closed' = TRUE
         /\ UNCHANGED <<pushed, offered, received>>

Next == Push \/ (\E u \in Uplinks : Offer(u)) \/ Close

Spec == Init /\ [][Next]_vars
=============================================================================
