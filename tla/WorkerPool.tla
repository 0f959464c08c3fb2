----------------------------- MODULE WorkerPool -----------------------------
(***************************************************************************)
(* The worker pools of controller/mod.rs and controller/session.rs.       *)
(*                                                                         *)
(* Controller::new pushes one full socket's Sender, Completer and         *)
(* Receiver per NIC queue, and one sender-only socket's Sender per queue  *)
(* q >= 1, onto three FIFO SegQueues.  Controller::guard pops a receiver  *)
(* and a sender for each responder thread; those threads hold them until  *)
(* the guard's `done`, which main never sets, so they never give them     *)
(* back.  Each Session::start then pops every sender left into a scanner  *)
(* thread and every completer into a completer thread, spawns a printer,  *)
(* sleeps, sets its own `done`, and the threads push their handles back   *)
(* before the scope joins.                                                 *)
(*                                                                         *)
(* Each Sender owns the UMEM frames its Sender::new was given a starting  *)
(* frame for, and each Receiver the frames it put on FILL, which the      *)
(* kernel writes packets into for as long as the socket lives.            *)
(***************************************************************************)
EXTENDS Integers, Sequences, SequencesExt, FiniteSets

CONSTANTS
    QueueCount,     \* queues.current.combined
    RingSize        \* xdp_config.ring_size

ASSUME QueueCount \in Nat \ {0} /\ RingSize \in Nat \ {0}

Queues == 0 .. QueueCount - 1

\* A Sender is named by its socket: the full socket or the sender-only
\* socket of a queue.
Full(q) == <<"full", q>>
Only(q) == <<"only", q>>
SenderIds == {Full(q) : q \in Queues} \cup {Only(q) : q \in Queues \ {0}}

\* The starting frame Xsk::create hands to a full socket's Sender::new,
\* the one Xsk::sender_only hands to a sender-only socket's, and the one
\* Xsk::create hands to Receiver::new.
FullStart(q) == 2 * q * RingSize
OnlyStart(q) == (QueueCount + q) * RingSize
StartingFrame(s) == IF s[1] = "full" THEN FullStart(s[2]) ELSE OnlyStart(s[2])
ReceiverStart(q) == (2 * q + 1) * RingSize

\* Sender::new writes a descriptor and a template into frames
\* starting_frame .. starting_frame + tx.size() - 1 and sends from them;
\* Receiver::new puts the same span of its own frames on FILL.
SenderFrames(s) == StartingFrame(s) .. StartingFrame(s) + RingSize - 1
ReceiverFrames(q) == ReceiverStart(q) .. ReceiverStart(q) + RingSize - 1

\* The order Controller::new pushes senders: queue 0's full socket, then
\* for each further queue its full socket followed by its sender-only one.
\* Mutant: the loop running one queue too far.
RECURSIVE PushedFromPastEnd(_)
PushedFromPastEnd(q) ==
    IF q > QueueCount THEN <<>>
    ELSE <<Full(q), Only(q)>> \o PushedFromPastEnd(q + 1)

RECURSIVE PushedFrom(_)
PushedFrom(q) ==
    IF q >= QueueCount THEN <<>>
    ELSE <<Full(q), Only(q)>> \o PushedFrom(q + 1)

InitialSenders == <<Full(0)>> \o PushedFrom(1)

VARIABLES
    senders,      \* the senders SegQueue, head first
    receivers,    \* the receivers SegQueue
    completers,   \* the completers SegQueue
    responders,   \* set of <<sender, receiver>> held by responder threads
    scanners,     \* senders held by this session's scanner threads
    polling,      \* completers held by this session's completer threads
    printer,      \* this session's printer thread is running
    done,         \* the session's done flag
    phase,        \* where main's session thread is
    pend,         \* per Sender: TX descriptors submitted, not yet consumed
    cr,           \* per queue: COMPLETION entries the kernel has reserved
    sending,      \* Senders whose thread is inside Sender::send
    ticking       \* completers whose thread has read done as false

poolVars == <<senders, receivers, completers, responders, scanners, polling,
              printer, done, phase>>
txVars == <<pend, cr, sending, ticking>>
vars == <<poolVars, txVars>>

Phases == {"guard", "idle", "spawn_scanners", "spawn_completers",
           "sleep", "join"}

TypeOK ==
    /\ senders \in Seq(SenderIds)
    /\ receivers \in Seq(Queues)
    /\ completers \in Seq(Queues)
    /\ responders \subseteq SenderIds \X Queues
    /\ scanners \subseteq SenderIds
    /\ polling \subseteq Queues
    /\ printer \in BOOLEAN /\ done \in BOOLEAN
    /\ phase \in Phases
    /\ pend \in [SenderIds -> 0 .. RingSize]
    /\ cr \in [Queues -> 0 .. RingSize]
    /\ sending \subseteq SenderIds
    /\ ticking \subseteq Queues

\* The pools as Controller::new leaves them; main then calls guard.
Init ==
    /\ senders = InitialSenders
    /\ receivers = [i \in 1 .. QueueCount |-> i - 1]
    /\ completers = [i \in 1 .. QueueCount |-> i - 1]
    /\ responders = {}
    /\ scanners = {} /\ polling = {} /\ printer = FALSE
    /\ done = FALSE
    /\ phase = "guard"
    /\ pend = [s \in SenderIds |-> 0] /\ cr = [q \in Queues |-> 0]
    /\ sending = {} /\ ticking = {}

HeldByResponders == {p[1] : p \in responders}

-----------------------------------------------------------------------------
(* Controller::guard, one iteration of its loop per step.  The sender pop *)
(* cannot fail: Controller::new pushes at least one sender per receiver.  *)

GuardSpawnResponder ==
    /\ phase = "guard"
    /\ receivers # <<>> /\ senders # <<>>
    /\ responders' = responders \cup {<<Head(senders), Head(receivers)>>}
    /\ senders' = Tail(senders)
    /\ receivers' = Tail(receivers)
    /\ UNCHANGED <<completers, scanners, polling, printer, done, phase>>
    /\ UNCHANGED txVars

\* The receivers queue is empty: guard spawns the writer and returns, and
\* main spawns the thread that loops over sessions.
GuardReturn ==
    /\ phase = "guard"
    /\ receivers = <<>>
    /\ phase' = "idle"
    /\ UNCHANGED <<senders, receivers, completers, responders, scanners,
                   polling, printer, done>>
    /\ UNCHANGED txVars

-----------------------------------------------------------------------------
(* Session::start.                                                         *)

SessionStart ==
    /\ phase = "idle"
    /\ done' = FALSE
    /\ phase' = "spawn_scanners"
    /\ UNCHANGED <<senders, receivers, completers, responders, scanners,
                   polling, printer>>
    /\ UNCHANGED txVars

SpawnScanner ==
    /\ phase = "spawn_scanners"
    /\ senders # <<>>
    /\ scanners' = scanners \cup {Head(senders)}
    /\ senders' = Tail(senders)
    /\ UNCHANGED <<receivers, completers, responders, polling, printer, done,
                   phase>>
    /\ UNCHANGED txVars

\* Mutant: the spawn loop ends while senders are left in the pool.
ScannersSpawnedEarly ==
    /\ phase = "spawn_scanners"
    /\ phase' = "spawn_completers"
    /\ UNCHANGED <<senders, receivers, completers, responders, scanners,
                   polling, printer, done>>
    /\ UNCHANGED txVars

ScannersSpawned ==
    /\ phase = "spawn_scanners"
    /\ senders = <<>>
    /\ phase' = "spawn_completers"
    /\ UNCHANGED <<senders, receivers, completers, responders, scanners,
                   polling, printer, done>>
    /\ UNCHANGED txVars

SpawnCompleter ==
    /\ phase = "spawn_completers"
    /\ completers # <<>>
    /\ polling' = polling \cup {Head(completers)}
    /\ completers' = Tail(completers)
    /\ UNCHANGED <<senders, receivers, responders, scanners, printer, done,
                   phase>>
    /\ UNCHANGED txVars

\* The completers queue is empty: the printer is spawned and main sleeps.
CompletersSpawned ==
    /\ phase = "spawn_completers"
    /\ completers = <<>>
    /\ printer' = TRUE
    /\ phase' = "sleep"
    /\ UNCHANGED <<senders, receivers, completers, responders, scanners,
                   polling, done>>
    /\ UNCHANGED txVars

\* thread::sleep(duration) returns and done is stored.
Wake ==
    /\ phase = "sleep"
    /\ done' = TRUE
    /\ phase' = "join"
    /\ UNCHANGED <<senders, receivers, completers, responders, scanners,
                   polling, printer>>
    /\ UNCHANGED txVars

\* Mutant: the scanner thread exits without pushing its sender back.
ScannerExitNoPush(s) ==
    /\ done /\ s \in scanners /\ s \notin sending
    /\ scanners' = scanners \ {s}
    /\ UNCHANGED <<senders, receivers, completers, responders, polling,
                   printer, done, phase>>
    /\ UNCHANGED txVars

\* A scanner thread, between ticks, sees done and pushes its sender back.
ScannerExit(s) ==
    /\ done /\ s \in scanners /\ s \notin sending
    /\ scanners' = scanners \ {s}
    /\ senders' = Append(senders, s)
    /\ UNCHANGED <<receivers, completers, responders, polling, printer, done,
                   phase>>
    /\ UNCHANGED txVars

\* A completer thread, between ticks, sees done and pushes itself back.
CompleterExit(c) ==
    /\ done /\ c \in polling /\ c \notin ticking
    /\ polling' = polling \ {c}
    /\ completers' = Append(completers, c)
    /\ UNCHANGED <<senders, receivers, responders, scanners, printer, done,
                   phase>>
    /\ UNCHANGED txVars

-----------------------------------------------------------------------------
(* Sending.  A Sender's socket is bound to queue s[2]; the sender-only    *)
(* socket binds with XDP_SHARED_UMEM to the full socket of the same queue *)
(* and so shares its FILL and COMPLETION rings.  The kernel consumes a TX *)
(* descriptor only once it can reserve a COMPLETION entry for it, and     *)
(* only a Completer frees those.                                           *)

CompletionQueue(s) == s[2]

\* Scanner::tick: the loop read done as false and calls sender.send.  (The
\* read and the call are one step: entering send touches nothing shared.)
ScannerTick(s) ==
    /\ ~done /\ s \in scanners /\ s \notin sending
    /\ sending' = sending \cup {s}
    /\ UNCHANGED <<poolVars, pend, cr, ticking>>

\* Responder::tick answers a segment with sender.send; segments arrive
\* whenever the network delivers them, so this step has no fairness.
ResponderTick(s) ==
    /\ s \in HeldByResponders /\ s \notin sending
    /\ sending' = sending \cup {s}
    /\ UNCHANGED <<poolVars, pend, cr, ticking>>

\* Sender::send: tx.reserve(1) finds a free slot; the frame is written and
\* tx.submit(1) publishes it, and the thread's tick returns.
Send(s) ==
    /\ s \in sending /\ pend[s] < RingSize
    /\ pend' = [pend EXCEPT ![s] = @ + 1]
    /\ sending' = sending \ {s}
    /\ UNCHANGED <<poolVars, cr, ticking>>

\* Sender::send's loop while the TX ring is full: sendto kicks the kernel
\* and reserve fails again.  The thread keeps running; nothing changes.
SendSpin(s) ==
    /\ s \in sending /\ pend[s] = RingSize
    /\ UNCHANGED vars

\* The kernel (or the NIC) consumes one TX descriptor of s, reserving an
\* entry on the COMPLETION ring of s's queue, and later posts it there.
KernelTransmit(s) ==
    /\ pend[s] > 0 /\ cr[CompletionQueue(s)] < RingSize
    /\ pend' = [pend EXCEPT ![s] = @ - 1]
    /\ cr' = [cr EXCEPT ![CompletionQueue(s)] = @ + 1]
    /\ UNCHANGED <<poolVars, sending, ticking>>

\* The completer thread's loop read done as false.
CompleterCheck(c) ==
    /\ ~done /\ c \in polling /\ c \notin ticking
    /\ ticking' = ticking \cup {c}
    /\ UNCHANGED <<poolVars, pend, cr, sending>>

\* Mutant: the tick peeks the entry but never releases it.
CompleterTickNoRelease(c) ==
    /\ c \in ticking
    /\ ticking' = ticking \ {c}
    /\ UNCHANGED <<poolVars, pend, cr, sending>>

\* Completer::tick: cr.peek(1), and cr.release(1) when it saw an entry.
CompleterTick(c) ==
    /\ c \in ticking
    /\ cr' = [cr EXCEPT ![c] = IF @ > 0 THEN @ - 1 ELSE 0]
    /\ ticking' = ticking \ {c}
    /\ UNCHANGED <<poolVars, pend, sending>>

PrinterExit ==
    /\ done /\ printer
    /\ printer' = FALSE
    /\ UNCHANGED <<senders, receivers, completers, responders, scanners,
                   polling, done, phase>>
    /\ UNCHANGED txVars

\* thread::scope returns once every thread it spawned has finished, and
\* main's loop goes on to the next session.
Join ==
    /\ phase = "join"
    /\ scanners = {} /\ polling = {} /\ ~printer
    /\ phase' = "idle"
    /\ UNCHANGED <<senders, receivers, completers, responders, scanners,
                   polling, printer, done>>
    /\ UNCHANGED txVars

Next ==
    \/ GuardSpawnResponder \/ GuardReturn
    \/ SessionStart \/ SpawnScanner \/ ScannersSpawned
    \/ SpawnCompleter \/ CompletersSpawned \/ Wake \/ Join
    \/ \E s \in SenderIds : ScannerExit(s)
    \/ \E c \in Queues : CompleterExit(c)
    \/ PrinterExit
    \/ \E s \in SenderIds :
         ScannerTick(s) \/ ResponderTick(s) \/ Send(s) \/ SendSpin(s)
           \/ KernelTransmit(s)
    \/ \E c \in Queues : CompleterCheck(c) \/ CompleterTick(c)

\* Every thread is a busy loop that checks done each iteration, and main's
\* steps are plain code; none waits on anything but done and a TX slot.
\* A thread in Sender::send calls sendto on every turn of its loop, so the
\* kernel attempts its TX ring infinitely often and transmits whenever the
\* COMPLETION ring has room at such an attempt (strong fairness).  The
\* kernel is given no fairness for a socket nobody kicks: with
\* XDP_USE_NEED_WAKEUP it may wait for the next sendto.  Scanner and
\* responder ticks have none: the session's length and the network bound
\* how many happen.
PoolFairness ==
    /\ WF_vars(GuardSpawnResponder) /\ WF_vars(GuardReturn)
    /\ WF_vars(SessionStart)
    /\ WF_vars(SpawnScanner) /\ WF_vars(ScannersSpawned)
    /\ WF_vars(SpawnCompleter) /\ WF_vars(CompletersSpawned)
    /\ WF_vars(Join) /\ WF_vars(PrinterExit)
    /\ \A s \in SenderIds : WF_vars(ScannerExit(s))
    /\ \A c \in Queues : WF_vars(CompleterExit(c))
    /\ \A c \in Queues : WF_vars(CompleterCheck(c)) /\ WF_vars(CompleterTick(c))
    /\ \A s \in SenderIds : WF_vars(Send(s))
    /\ \A s \in SenderIds : SF_vars(s \in sending /\ KernelTransmit(s))

\* thread::sleep(duration) returns.
Fairness == PoolFairness /\ WF_vars(Wake)

Spec == Init /\ [][Next]_vars /\ Fairness

\* Sessions of any length, one that never wakes included: what holds here
\* holds whatever config.session.duration is.
AnyLengthSpec == Init /\ [][Next]_vars /\ PoolFairness

-----------------------------------------------------------------------------
(* Properties.                                                             *)

\* Every Sender is in exactly one place: once in the pool, or held by one
\* responder or one scanner thread.  Senders move between the pool and
\* threads in guard, Session::start and each scanner's push-back; a lost
\* push leaks a socket, a double one gives one TX ring two producers.
SenderOwnership ==
    /\ IsInjective(senders)
    /\ Range(senders) \cap (HeldByResponders \cup scanners) = {}
    /\ HeldByResponders \cap scanners = {}
    /\ Range(senders) \cup HeldByResponders \cup scanners = SenderIds
    /\ \A p, p2 \in responders : p[1] = p2[1] => p = p2
    /\ sending \subseteq HeldByResponders \cup scanners

\* While a session sleeps, at least one scanner thread is sending SYNs:
\* the senders guard leaves in the pool are what Session::start scans
\* with (spec 4.8: "drain senders into worker threads running
\* Scanner.tick").
EverySessionScans == phase = "sleep" => scanners # {}

\* The writers of UMEM frames while threads run: the thread holding each
\* Sender (it rewrites its TX frames on every send) and the kernel for
\* each Receiver (it writes packets into the frames on FILL).
Writers ==
    {<<"tx", s>> : s \in scanners \cup HeldByResponders}
        \cup {<<"rx", q>> : q \in Queues}
WriterFrames(w) ==
    IF w[1] = "tx" THEN SenderFrames(w[2]) ELSE ReceiverFrames(w[2])

\* No two live writers share a frame (spec 5: "No two threads ever mutate
\* the same frame"; spec 8, UMEM partitioning).  This is about the
\* starting frames of Xsk::create and Xsk::sender_only together with which
\* Senders guard and Session::start put to work.
LiveFramesDisjoint ==
    \A v, w \in Writers :
        v # w => WriterFrames(v) \cap WriterFrames(w) = {}

\* Each session ends and gives every Sender it took back to the pool, so
\* the next session scans with the same number of threads.
SessionRestoresPool ==
    \A n \in 0 .. Cardinality(SenderIds) :
        (phase = "spawn_scanners" /\ scanners = {} /\ Len(senders) = n)
            ~> (phase = "idle" /\ Len(senders) = n)


\* A thread spinning in Sender::send while its queue's completer polls gets
\* its TX slot, however long the session sleeps (checked under
\* AnyLengthSpec): the completer frees COMPLETION entries, so the kernel
\* consumes the descriptors that fill the ring, even when the responder
\* and a scanner compete for the queue's one COMPLETION ring.
\* This is Completer::tick's peek-then-release against the kernel's
\* reservation of a COMPLETION entry for each TX descriptor.
SendCompletesWhileCompleting ==
    \A s \in SenderIds :
        (s \in sending /\ CompletionQueue(s) \in polling /\ ~done)
            ~> (s \notin sending \/ done)

=============================================================================
