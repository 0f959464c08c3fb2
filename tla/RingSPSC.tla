------------------------------ MODULE RingSPSC ------------------------------
(***************************************************************************)
(* One AF_XDP ring driven from both ends by the Producer / Consumer code   *)
(* of ring.rs, the way the repository's ring users drive it:               *)
(*   producer: reserve(n), write the n entries, submit(n)                  *)
(*             (Sender::send with n = 1, Receiver::new with n = RingSize); *)
(*   consumer: peek(1), read the entry, release(1)                         *)
(*             (Receiver::receive and ReadGuard::drop, Completer::tick).   *)
(* Each end is one thread; the shared counters are the only communication. *)
(* Producer items are numbered so that loss, duplication and reordering    *)
(* are visible.                                                            *)
(***************************************************************************)
EXTENDS Naturals, Sequences

CONSTANTS RingSize, CounterWidth,
          Rings,         \* the rings to check, each a record of
                         \*   producer: "Tx" or "Fill", how Ring::new sets it
                         \*   consumer: "Rx" or "Complete"
                         \*   batches:  batch sizes its producer reserves
          MaxItems       \* bound on the items produced

ASSUME \A r \in Rings : /\ r.producer \in {"Tx", "Fill"}
                       /\ r.consumer \in {"Rx", "Complete"}
                       /\ r.batches \subseteq 1..RingSize

INSTANCE XskRing

VARIABLES ring,          \* which of Rings this behaviour drives
          prod, cons,    \* the shared counters
          slots,         \* the shared entries
          ph, pstate,    \* producer handle and program state
          ch, cstate,    \* consumer handle and program state
          submitted,     \* history: items published so far
          consumed       \* history: items released, in order

vars == <<ring, prod, cons, slots, ph, pstate, ch, cstate, submitted, consumed>>

Counter == 0..(CounterMod - 1)
Handle == [cached_prod : Counter, cached_cons : Counter]

TypeOK ==
  /\ ring \in Rings
  /\ prod \in Counter /\ cons \in Counter
  /\ slots \in [0..(RingSize - 1) -> 0..MaxItems]
  /\ ph \in Handle /\ ch \in Handle
  /\ pstate \in [pc : {"idle", "write"}, index : Counter,
                 n : 0..RingSize, written : 0..RingSize]
  /\ cstate \in [pc : {"idle", "read", "release"}, index : Counter,
                 got : 0..MaxItems]
  /\ submitted \in 0..MaxItems
  /\ consumed \in Seq(0..MaxItems)

Init ==
  /\ ring \in Rings
  /\ prod = 0 /\ cons = 0
  /\ slots = [i \in 0..(RingSize - 1) |-> 0]
  /\ ph = NewHandle(ring.producer, 0, 0)
  /\ ch = NewHandle(ring.consumer, 0, 0)
  /\ pstate = [pc |-> "idle", index |-> 0, n |-> 0, written |-> 0]
  /\ cstate = [pc |-> "idle", index |-> 0, got |-> 0]
  /\ submitted = 0
  /\ consumed = <<>>

-----------------------------------------------------------------------------
(* Producer thread *)

\* reserve(n); a None result leaves the thread spinning in its loop
ProducerReserve(n) ==
  /\ pstate.pc = "idle"
  /\ n \in ring.batches
  /\ submitted + n <= MaxItems
  /\ LET r == Reserve(ph, cons, n)
     IN  /\ ph' = r.handle
         /\ pstate' = IF r.index = NoIndex THEN pstate
                      ELSE [pc |-> "write", index |-> r.index,
                            n |-> n, written |-> 0]
  /\ UNCHANGED <<ring, prod, cons, slots, ch, cstate, submitted, consumed>>

\* ring[index + i] = entry, one entry per step
ProducerWrite ==
  /\ pstate.pc = "write"
  /\ pstate.written < pstate.n
  /\ slots' = [slots EXCEPT ![Slot(Add32(pstate.index, pstate.written))] =
                 submitted + pstate.written]
  /\ pstate' = [pstate EXCEPT !.written = @ + 1]
  /\ UNCHANGED <<ring, prod, cons, ph, ch, cstate, submitted, consumed>>

\* submit(n)
ProducerSubmit ==
  /\ pstate.pc = "write"
  /\ pstate.written = pstate.n
  /\ prod' = Submit(prod, pstate.n)
  /\ submitted' = submitted + pstate.n
  /\ pstate' = [pstate EXCEPT !.pc = "idle"]
  /\ UNCHANGED <<ring, cons, slots, ph, ch, cstate, consumed>>

-----------------------------------------------------------------------------
(* Consumer thread *)

\* peek(1); None means nothing to consume this time round the loop
ConsumerPeek ==
  /\ cstate.pc = "idle"
  /\ LET r == Peek(ch, prod, 1)
     IN  /\ ch' = r.handle
         /\ cstate' = IF r.index = NoIndex THEN cstate
                      ELSE [cstate EXCEPT !.pc = "read", !.index = r.index]
  /\ UNCHANGED <<ring, prod, cons, slots, ph, pstate, submitted, consumed>>

\* &ring[index]
ConsumerRead ==
  /\ cstate.pc = "read"
  /\ cstate' = [cstate EXCEPT !.pc = "release",
                              !.got = slots[Slot(cstate.index)]]
  /\ UNCHANGED <<ring, prod, cons, slots, ph, pstate, ch, submitted, consumed>>

\* release(1)
ConsumerRelease ==
  /\ cstate.pc = "release"
  /\ cons' = Release(cons, 1)
  /\ consumed' = Append(consumed, cstate.got)
  /\ cstate' = [cstate EXCEPT !.pc = "idle"]
  /\ UNCHANGED <<ring, prod, slots, ph, pstate, ch, submitted>>

Next ==
  \/ \E n \in 1..RingSize : ProducerReserve(n)
  \/ ProducerWrite
  \/ ProducerSubmit
  \/ ConsumerPeek
  \/ ConsumerRead
  \/ ConsumerRelease

\* Both ends are tight polling loops on their own threads (spec section 5).
Fairness ==
  /\ \A n \in 1..RingSize : WF_vars(ProducerReserve(n))
  /\ WF_vars(ProducerWrite) /\ WF_vars(ProducerSubmit)
  /\ WF_vars(ConsumerPeek) /\ WF_vars(ConsumerRead)
  /\ WF_vars(ConsumerRelease)

Spec == Init /\ [][Next]_vars /\ Fairness

-----------------------------------------------------------------------------
(* Properties *)

\* The ring implements a bounded FIFO queue: the entries between the shared
\* consumer and producer counters are exactly the items published and not
\* yet released, in order, never more than RingSize of them, and the
\* consumer releases each item it read, in production order.  This breaks if
\* Producer::free lets the producer overwrite an entry the consumer has not
\* released, or if the cursors disagree after the u32 counters wrap.
Queue == INSTANCE RingQueue
           WITH Capacity <- RingSize,
                Batches <- UNION {r.batches : r \in Rings},
                queue <- Published(slots, prod, cons),
                sent <- submitted,
                delivered <- consumed

RingImplementsQueue == Queue!Spec

\* Every item the producer submits is eventually released by the consumer:
\* the cached cursors of Consumer::available are refreshed often enough
\* that a published entry is never left unseen.
AllDelivered ==
  \A k \in 1..MaxItems : (submitted >= k) ~> (Len(consumed) >= k)

=============================================================================
