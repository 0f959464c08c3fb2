------------------------------ MODULE RingQueue ------------------------------
(***************************************************************************)
(* What an AF_XDP ring promises its two ends (spec section 8, "Ring SPSC   *)
(* safety"): a bounded FIFO queue.  The producer appends batches of items  *)
(* numbered 0, 1, 2, ... in the order it produces them; the consumer takes *)
(* the oldest item.  No item is lost, duplicated or reordered, and the     *)
(* queue never holds more than Capacity items.                             *)
(***************************************************************************)
EXTENDS Naturals, Sequences

CONSTANTS Capacity, Batches

VARIABLES queue,     \* items published and not yet taken
          sent,      \* number of items the producer has published
          delivered  \* items taken, in the order taken

vars == <<queue, sent, delivered>>

Init == queue = <<>> /\ sent = 0 /\ delivered = <<>>

Put(n) ==
  /\ Len(queue) + n <= Capacity
  /\ queue' = queue \o [i \in 1..n |-> sent + i - 1]
  /\ sent' = sent + n
  /\ UNCHANGED delivered

Take ==
  /\ queue # <<>>
  /\ delivered' = Append(delivered, Head(queue))
  /\ queue' = Tail(queue)
  /\ UNCHANGED sent

Next == (\E n \in Batches : Put(n)) \/ Take

Spec == Init /\ [][Next]_vars

=============================================================================
