----------------------------- MODULE ScanSession ----------------------------
(***************************************************************************)
(* The worker pools and the scan path together, as main.rs and            *)
(* Session::start run them.  Main's session loop compiles a strategy's    *)
(* ranges and builds a Session in the same step Session::start begins      *)
(* (RangeScan's NewSession together with WorkerPool's SessionStart);      *)
(* Scanner::tick runs only on a scanner thread, so a SYN is sent only      *)
(* while some scanner holds a Sender, including after done is stored and  *)
(* before that thread has read it.  A scanner's panic is re-raised by     *)
(* thread::scope in main's session thread and ends the process: no thread *)
(* takes another step.                                                     *)
(*                                                                         *)
(* Sending is abstracted here: a SYN goes out in the tick that draws it,  *)
(* and the pools' TX and COMPLETION rings stay empty, so the completers   *)
(* never tick.  WorkerPool's own runs (pool_tx, pool_stuck) check them.   *)
(***************************************************************************)
EXTENDS Integers, Sequences, FiniteSets

CONSTANTS QueueCount, RingSize, IpBits, Ports, ExcludeLists, ExtraTicks

VARIABLES senders, receivers, completers, responders, scanners, polling,
          printer, done, phase, pend, cr, sending, ticking
VARIABLES excludes, scan, compiled, next, drawn, sent, crashed

P == INSTANCE WorkerPool
R == INSTANCE RangeScan

poolVars == <<senders, receivers, completers, responders, scanners, polling,
              printer, done, phase, pend, cr, sending, ticking>>
scanVars == <<excludes, scan, compiled, next, drawn, sent, crashed>>
vars == <<poolVars, scanVars>>

TypeOK == P!TypeOK /\ R!TypeOK

Init == P!Init /\ R!Init

\* main's loop: Session::new with freshly compiled ranges, then start.
StartSession == P!SessionStart /\ R!NewSession

\* A tick of whichever scanner thread runs.
Tick == scanners # {} /\ R!ScannerTick /\ UNCHANGED poolVars

\* Every other step of the pools, while the process lives.
PoolStep ==
    /\ ~crashed
    /\ \/ P!GuardSpawnResponder \/ P!GuardReturn
       \/ P!SpawnScanner \/ P!ScannersSpawned
       \/ P!SpawnCompleter \/ P!CompletersSpawned \/ P!Wake \/ P!Join
       \/ \E s \in P!SenderIds : P!ScannerExit(s)
       \/ \E c \in P!Queues : P!CompleterExit(c)
       \/ P!PrinterExit
    /\ UNCHANGED scanVars

Next == StartSession \/ Tick \/ PoolStep

\* The pools' fairness, for a process that has not crashed; ticks have
\* none: the session's duration bounds how many happen.
Fairness ==
    /\ WF_vars(~crashed /\ P!Wake /\ UNCHANGED scanVars)
    /\ WF_vars(~crashed /\ P!Join /\ UNCHANGED scanVars)
    /\ WF_vars(~crashed /\ P!PrinterExit /\ UNCHANGED scanVars)
    /\ WF_vars(~crashed /\ P!SpawnScanner /\ UNCHANGED scanVars)
    /\ WF_vars(~crashed /\ P!ScannersSpawned /\ UNCHANGED scanVars)
    /\ WF_vars(~crashed /\ P!SpawnCompleter /\ UNCHANGED scanVars)
    /\ WF_vars(~crashed /\ P!CompletersSpawned /\ UNCHANGED scanVars)
    /\ WF_vars(~crashed /\ P!GuardSpawnResponder /\ UNCHANGED scanVars)
    /\ WF_vars(~crashed /\ P!GuardReturn /\ UNCHANGED scanVars)
    /\ \A s \in P!SenderIds :
         WF_vars(~crashed /\ P!ScannerExit(s) /\ UNCHANGED scanVars)
    /\ \A c \in P!Queues :
         WF_vars(~crashed /\ P!CompleterExit(c) /\ UNCHANGED scanVars)

Spec == Init /\ [][Next]_vars /\ Fairness

-----------------------------------------------------------------------------
(* Properties: those of the two parts, checked on their composition.      *)

\* See WorkerPool: every Sender is in the pool or held by one thread.
SenderOwnership == P!SenderOwnership

\* See WorkerPool: a sleeping session has a scanner thread.
EverySessionScans == P!EverySessionScans

\* See RangeScan: a session's compiled ranges are its scope.
ExclusionSound == R!ExclusionSound

\* See RangeScan: the SYNs of a session, sent by whichever scanner threads
\* tick, cover its scope without repeats.
ScanCoversScopeOnce == R!ScanCoversScopeOnce

=============================================================================
