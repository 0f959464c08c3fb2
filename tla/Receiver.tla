------------------------------ MODULE Receiver ------------------------------
(***************************************************************************)
(* The receive path of one NIC queue: Receiver (controller/receiver.rs)    *)
(* driving the FILL ring as producer and the RX ring as consumer, against  *)
(* the kernel driver at the other end of both rings.                       *)
(*                                                                         *)
(* The receiver owns RingSize UMEM frames.  Receiver::new hands them all   *)
(* to the kernel on the FILL ring.  Each Responder::tick calls             *)
(* Receiver::receive, which first reserves a FILL slot for the frame it is *)
(* about to return, then peeks one RX descriptor; the ReadGuard's drop     *)
(* releases the RX entry and submits the frame back on FILL.               *)
(*                                                                         *)
(* The kernel side follows the AF_XDP contract (spec section 6): it takes  *)
(* frames from FILL and later posts received packets into them on RX.  A   *)
(* zero-copy driver takes FILL frames ahead of packet arrival to stock its *)
(* hardware RX queue (prefetch = TRUE); otherwise the kernel takes a frame *)
(* only for a packet it is posting, in the same step.                      *)
(***************************************************************************)
EXTENDS Integers, Sequences

CONSTANTS RingSize, CounterWidth,
          Drivers    \* which drivers: does one stock FILL frames before
                     \* packets arrive?

ASSUME Drivers \subseteq BOOLEAN /\ Drivers # {}

INSTANCE XskRing

\* The receiver's UMEM frames, by frame index within its slice.
Frames == 0..(RingSize - 1)

VARIABLES fill,   \* FILL ring shared memory: [prod, cons, slots]
          rx,     \* RX ring shared memory: [prod, cons, slots]
          fr,     \* Receiver.fr: the user's FILL producer handle
          rxh,    \* Receiver.rx: the user's RX consumer handle
          nic,    \* frames the driver has taken from FILL, not yet on RX
          upc,    \* where the responder thread is in receive / drop
          fillIndex, \* ReadGuard.fill_index
          compAddr,  \* ReadGuard.comp_addr: the frame being processed
          prefetch   \* the driver this behaviour runs against

vars == <<fill, rx, fr, rxh, nic, upc, fillIndex, compAddr, prefetch>>

Counter == 0..(CounterMod - 1)
Shared == [prod : Counter, cons : Counter, slots : [0..(RingSize - 1) -> Frames]]
Handle == [cached_prod : Counter, cached_cons : Counter]

TypeOK ==
  /\ fill \in Shared /\ rx \in Shared
  /\ fr \in Handle /\ rxh \in Handle
  /\ nic \in Seq(Frames)
  /\ upc \in {"reserve", "peek", "release", "refill"}
  /\ fillIndex \in Counter
  /\ compAddr \in Frames
  /\ prefetch \in BOOLEAN

\* Xsk::create allocates the rings (Ring::new: a FILL handle starts with
\* cached_cons = size) and Receiver::new reserves the whole FILL ring, writes
\* every frame of the receiver's slice into it and submits it.
Init ==
  /\ fill = [prod |-> RingSize, cons |-> 0, slots |-> [i \in Frames |-> i]]
  /\ rx = [prod |-> 0, cons |-> 0, slots |-> [i \in Frames |-> 0]]
  /\ fr = [NewHandle("Fill", 0, 0) EXCEPT !.cached_prod = RingSize]
  /\ rxh = NewHandle("Rx", 0, 0)
  /\ nic = <<>>
  /\ upc = "reserve"
  /\ fillIndex = 0
  /\ compAddr = 0
  /\ prefetch \in Drivers

-----------------------------------------------------------------------------
(* Kernel side (environment) *)

\* A zero-copy driver takes the frame at the FILL consumer counter into its
\* hardware RX queue.
KernelTakeFill ==
  /\ prefetch
  /\ Sub32(fill.prod, fill.cons) > 0
  /\ nic' = Append(nic, fill.slots[Slot(fill.cons)])
  /\ fill' = [fill EXCEPT !.cons = Add32(@, 1)]
  /\ UNCHANGED <<rx, fr, rxh, upc, fillIndex, compAddr, prefetch>>

\* A packet arrives into the oldest stocked frame and is posted on RX.
KernelDeliver ==
  /\ prefetch
  /\ nic # <<>>
  /\ Sub32(rx.prod, rx.cons) < RingSize
  /\ rx' = [rx EXCEPT !.slots[Slot(rx.prod)] = Head(nic),
                      !.prod = Add32(@, 1)]
  /\ nic' = Tail(nic)
  /\ UNCHANGED <<fill, fr, rxh, upc, fillIndex, compAddr, prefetch>>

\* Without prefetching, a packet takes a FILL frame and is posted on RX.
KernelReceive ==
  /\ ~prefetch
  /\ Sub32(fill.prod, fill.cons) > 0
  /\ Sub32(rx.prod, rx.cons) < RingSize
  /\ rx' = [rx EXCEPT !.slots[Slot(rx.prod)] = fill.slots[Slot(fill.cons)],
                      !.prod = Add32(@, 1)]
  /\ fill' = [fill EXCEPT !.cons = Add32(@, 1)]
  /\ UNCHANGED <<fr, rxh, nic, upc, fillIndex, compAddr, prefetch>>

-----------------------------------------------------------------------------
(* The responder thread: Receiver::receive, then ReadGuard::drop *)

\* loop { if fr.needs_wakeup() { recvfrom() }; if let Some(i) = fr.reserve(1)
\* { break i } }
RecvReserveFill ==
  /\ upc = "reserve"
  /\ LET r == Reserve(fr, fill.cons, 1)
     IN  /\ fr' = r.handle
         /\ IF r.index = NoIndex
            THEN UNCHANGED <<upc, fillIndex>>
            ELSE upc' = "peek" /\ fillIndex' = r.index
  /\ UNCHANGED <<fill, rx, rxh, nic, compAddr, prefetch>>

\* rx.peek(1).context(..)?: on None receive returns Err and tick returns
\* Ok(None), keeping the FILL slot it reserved; on Some the descriptor's
\* frame becomes the ReadGuard's data and comp_addr.
RecvPeek ==
  /\ upc = "peek"
  /\ LET r == Peek(rxh, rx.prod, 1)
     IN  /\ rxh' = r.handle
         /\ IF r.index = NoIndex
            THEN upc' = "reserve" /\ UNCHANGED compAddr
            ELSE upc' = "release" /\ compAddr' = rx.slots[Slot(r.index)]
  /\ UNCHANGED <<fill, rx, fr, nic, fillIndex, prefetch>>

\* ReadGuard::drop, after the responder has handled the frame:
\* self.rx.release(1)
RecvRelease ==
  /\ upc = "release"
  /\ rx' = [rx EXCEPT !.cons = Release(@, 1)]
  /\ upc' = "refill"
  /\ UNCHANGED <<fill, fr, rxh, nic, fillIndex, compAddr, prefetch>>

\* fault variant: the frame is written one slot past the reserved one
RecvRefillNextSlot ==
  /\ upc = "refill"
  /\ fill' = [fill EXCEPT !.slots[Slot(fillIndex + 1)] = compAddr,
                          !.prod = Submit(@, 1)]
  /\ upc' = "reserve"
  /\ UNCHANGED <<rx, fr, rxh, nic, fillIndex, compAddr, prefetch>>

\* self.fr[self.fill_index] = self.comp_addr; self.fr.submit(1)
RecvRefill ==
  /\ upc = "refill"
  /\ fill' = [fill EXCEPT !.slots[Slot(fillIndex)] = compAddr,
                          !.prod = Submit(@, 1)]
  /\ upc' = "reserve"
  /\ UNCHANGED <<rx, fr, rxh, nic, fillIndex, compAddr, prefetch>>

Kernel == KernelTakeFill \/ KernelDeliver \/ KernelReceive
User == RecvReserveFill \/ RecvPeek \/ RecvRelease \/ RecvRefill

Next == Kernel \/ User

\* The responder is a tight polling loop on its own thread (spec section 5);
\* a zero-copy driver restocks its hardware queue from FILL whenever FILL
\* holds frames.  Packet arrival is not assumed.
Spec == Init /\ [][Next]_vars /\ WF_vars(User) /\ WF_vars(KernelTakeFill)

-----------------------------------------------------------------------------
(* Properties *)

\* How many times frame f sits in the FILL queue, the driver, the RX queue
\* (until released, which includes the frame the responder is reading) and
\* the responder's hands between the RX release and the FILL submit.
Copies(f) ==
  LET Count(s) == Len(SelectSeq(s, LAMBDA x : x = f))
  IN  Count(Published(fill.slots, fill.prod, fill.cons))
      + Count(nic)
      + Count(Published(rx.slots, rx.prod, rx.cons))
      + (IF upc = "refill" /\ compAddr = f THEN 1 ELSE 0)

\* UMEM ownership (spec section 3): every frame of the receiver's slice is
\* owned by exactly one place at any instant, so no two packets are ever
\* received into the same frame and no frame is lost.  Receiver::receive
\* reserves a FILL slot before it knows whether RX holds a packet and keeps
\* the reservation when it does not, which can make ReadGuard::drop write
\* one slot while submit publishes another.
FrameConservation == \A f \in Frames : Copies(f) = 1

\* The slot ReadGuard::drop writes is never one the kernel may still read:
\* it lies between the shared FILL producer counter and the consumer
\* counter plus RingSize, as Producer::free must guarantee from its cached
\* view of the consumer counter.
FillWriteOutsideKernelWindow ==
  upc = "refill" =>
    Sub32(fillIndex, fill.cons) \in Sub32(fill.prod, fill.cons)..(RingSize - 1)

\* A packet posted on RX is eventually handed to the responder: the
\* receiver never stops consuming RX while descriptors are waiting.
RxEventuallyConsumed ==
  \A c \in Counter :
    (Sub32(rx.prod, rx.cons) > 0 /\ rx.cons = c) ~> (rx.cons # c)

\* With a driver that takes a FILL frame only for the packet it posts (copy
\* mode), every frame has one owner: the reserve-before-peek order of
\* receive is then harmless.
CopyModeFramesConserved == ~prefetch => FrameConservation

\* With that driver every RX packet is eventually consumed.
CopyModeRxConsumed == ~prefetch => RxEventuallyConsumed

=============================================================================
