---------------------------- MODULE BannerStream ----------------------------
(***************************************************************************)
(* What the responder promises about one connection (spec 4.6: "append    *)
(* payload to accumulator", "Ok(banner) -> emit Record").  The bytes it    *)
(* holds are a run of the server's stream.  The run may start anywhere,    *)
(* because the first data segment is matched by its ack alone.  After      *)
(* that it only grows by the bytes that follow it, or it is dropped        *)
(* (eviction, a new SYN|ACK, an Invalid parse, a FIN).  A Record is pushed *)
(* only while the run is the whole banner.                                 *)
(***************************************************************************)
EXTENDS Integers, Sequences

CONSTANTS Stream,      \* the server's bytes, in order
          MaxRecords   \* records are counted up to this bound

VARIABLES buf,         \* the run of Stream held for the connection
          from,        \* how many bytes of Stream come before it
          records      \* records pushed

vars == <<buf, from, records>>

\* n bytes of Stream after its first k
Run(k, n) == SubSeq(Stream, k + 1, k + n)

Init == buf = <<>> /\ from = 0 /\ records = 0

\* a record may be pushed in a step that leaves the whole banner held
MayRecord ==
  \/ records' = records
  \/ buf' = Stream /\ records' = IF records < MaxRecords THEN records + 1
                                 ELSE records

\* nothing is held any more
Drop == buf' = <<>> /\ from' = 0 /\ records' = records

\* a first run, anywhere in the stream
Start ==
  /\ buf = <<>>
  /\ \E k \in 0 .. Len(Stream) - 1, n \in 1 .. Len(Stream) :
       /\ k + n <= Len(Stream)
       /\ buf' = Run(k, n) /\ from' = k
  /\ MayRecord

\* the run kept, or grown by the bytes after it
Extend ==
  /\ buf # <<>>
  /\ \E n \in Len(buf) .. Len(Stream) - from : buf' = Run(from, n)
  /\ from' = from
  /\ MayRecord

Next == Drop \/ Start \/ Extend

Spec == Init /\ [][Next]_vars

=============================================================================
