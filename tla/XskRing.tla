------------------------------- MODULE XskRing -------------------------------
(***************************************************************************)
(* The AF_XDP ring protocol of src/farsight/src/xdp/ring.rs as operators.  *)
(*                                                                         *)
(* A ring is shared memory holding a producer counter, a consumer counter  *)
(* and RingSize entries.  Each side keeps a private handle with two cached *)
(* cursors (Ring.cached_prod, Ring.cached_cons).  The counters are u32 and *)
(* wrap; here they wrap at 2^CounterWidth so that wrap-around is reached   *)
(* in a small model.  Every operator below is one method of Producer or    *)
(* Consumer; a method that both refreshes a cursor from shared memory and  *)
(* returns a result yields a record [handle, index].                       *)
(***************************************************************************)
EXTENDS Integers

CONSTANTS RingSize,      \* Ring::size, a power of two (the kernel insists)
          CounterWidth   \* bits of the producer / consumer counters

ASSUME RingSize \in {2^k : k \in 0..CounterWidth}

CounterMod == 2^CounterWidth

\* fault variant: an add that does not wrap
Add32Unwrapped(a, b) == a + b

\* wrapping_add / wrapping_sub on the u32 counters and cursors
Add32(a, b) == (a + b) % CounterMod
Sub32(a, b) == (a - b) % CounterMod

\* Index<u32> for Ring<T>: index % mask, mask = StrengthReducedU32(size)
Slot(i) == i % RingSize

\* The Option<u32>::None returned by reserve and peek.
NoIndex == -1

\* Ring::new: the cursors a fresh handle starts from, given the shared
\* counters it reads at creation.
NewHandle(kind, prod, cons) ==
  CASE kind = "Fill"     -> [cached_prod |-> 0,    cached_cons |-> RingSize]
    [] kind = "Complete" -> [cached_prod |-> 0,    cached_cons |-> 0]
    [] kind = "Tx"       -> [cached_prod |-> prod,
                             cached_cons |-> Add32(cons, RingSize)]
    [] kind = "Rx"       -> [cached_prod |-> prod, cached_cons |-> cons]

-----------------------------------------------------------------------------
(* Producer<T> *)

\* fault variant: the refreshed consumer view is one slot too generous
FreeOffByOne(h, cons, n) ==
  IF Sub32(h.cached_cons, h.cached_prod) >= n
  THEN h
  ELSE [h EXCEPT !.cached_cons = Add32(cons, RingSize + 1)]

\* Producer::free: the handle after the call.  The shared consumer counter
\* is read (Acquire) only when the cached view has fewer than n free slots.
Free(h, cons, n) ==
  IF Sub32(h.cached_cons, h.cached_prod) >= n
  THEN h
  ELSE [h EXCEPT !.cached_cons = Add32(cons, RingSize)]

\* the value Producer::free returns, computed on the handle it leaves
FreeEntries(h) == Sub32(h.cached_cons, h.cached_prod)

\* Producer::reserve
Reserve(h, cons, n) ==
  LET h1 == Free(h, cons, n)
  IN  IF FreeEntries(h1) < n
      THEN [handle |-> h1, index |-> NoIndex]
      ELSE [handle |-> [h1 EXCEPT !.cached_prod = Add32(@, n)],
            index  |-> h1.cached_prod]

\* Producer::submit: fetch_add(prod, n, Release); the new shared counter
Submit(prod, n) == Add32(prod, n)

-----------------------------------------------------------------------------
(* Consumer<T> *)

\* fault variant: the producer counter is re-read only when entries remain
AvailableInvertedRefresh(h, prod, n) ==
  LET h1 == IF Sub32(h.cached_prod, h.cached_cons) # 0
            THEN [h EXCEPT !.cached_prod = prod]
            ELSE h
      entries == Sub32(h1.cached_prod, h1.cached_cons)
  IN  [handle |-> h1, count |-> IF entries < n THEN entries ELSE n]

\* Consumer::available: the handle after the call and the count returned.
\* The shared producer counter is read only when the cached view is empty.
Available(h, prod, n) ==
  LET h1 == IF Sub32(h.cached_prod, h.cached_cons) = 0
            THEN [h EXCEPT !.cached_prod = prod]
            ELSE h
      entries == Sub32(h1.cached_prod, h1.cached_cons)
  IN  [handle |-> h1, count |-> IF entries < n THEN entries ELSE n]

\* Consumer::peek
Peek(h, prod, n) ==
  LET a == Available(h, prod, n)
  IN  IF a.count > 0
      THEN [handle |-> [a.handle EXCEPT !.cached_cons = Add32(@, a.count)],
            index  |-> a.handle.cached_cons]
      ELSE [handle |-> a.handle, index |-> NoIndex]

\* Consumer::release: fetch_add(cons, n, Release); the new shared counter
Release(cons, n) == Add32(cons, n)

\* The entries published and not yet released, oldest first: what the
\* shared memory of a ring holds as a queue.
Published(slots, prod, cons) ==
  [i \in 1..Sub32(prod, cons) |-> slots[Slot(Add32(cons, i - 1))]]

=============================================================================
