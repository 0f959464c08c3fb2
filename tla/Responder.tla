------------------------------ MODULE Responder ------------------------------
(***************************************************************************)
(* One scanned connection as Responder::tick (controller/responder.rs)     *)
(* sees it: the per-connection State kept in the TTL map, the segments the *)
(* responder sends through Sender::send, and the records it returns to the *)
(* writer queue.                                                           *)
(*                                                                         *)
(* The other end is an ordinary TCP server answering the scanner's SYN     *)
(* (whose sequence number is the cookie): it sends SYN|ACK until our       *)
(* request arrives, then its banner as Len(Banner) one-byte segments,      *)
(* acknowledges what it receives, may close with FIN, and resets segments  *)
(* that reach it once it is closed.  It retransmits whatever is not        *)
(* acknowledged.  The network between the two may lose, duplicate and     *)
(* reorder segments, as the constants say.  Arriving segments pass the    *)
(* XDP filter of farsight-ebpf, which hands them to the responder's queue  *)
(* or to the host's own TCP stack.                                         *)
(*                                                                         *)
(* Sequence numbers are u32 and wrap; here they wrap at 2^SeqWidth.        *)
(***************************************************************************)
EXTENDS Integers, Sequences, SequencesExt

CONSTANTS SeqWidth,    \* bits of a sequence number
          ServerISN,   \* the server's initial sequence number
          Cookie,      \* cookie(ip, port, seed): the seq of our SYN
          PayloadLen,  \* length of the request the Payload builds
          Banner,      \* the server's response, one element per byte
          MaxRecords,  \* records are counted up to this bound
          SourceIpSum, \* tcp::ipv4_sum of our address
          PeerIpSum,   \* tcp::ipv4_sum of the server's address
          Networks     \* the networks and servers a behaviour may run in

\* A network: how many segments a direction holds at once (maxInFlight),
\* whether it may drop (lossy), reorder or duplicate segments, whether
\* forged SYN|ACKs reach the responder, whether the TTL map may evict the
\* connection (expiry, the ping timeout), how many frames the responder
\* Sender's TX ring has (txSize), and whether the server's IP and TCP
\* layers discard invalid headers and checksums (ipChecks).  Also the controller's
\* source_port_range (window, both ends nonzero) and the source port
\* Sender::send drew from it for the scanner's SYN (sport), to which the
\* server addresses every segment of the connection.
Ports == 1..65535
Network ==
  [maxInFlight : Nat \ {0}, lossy : BOOLEAN, reorder : BOOLEAN,
   duplicate : BOOLEAN, forged : BOOLEAN, expiry : BOOLEAN,
   txSize : Nat \ {0}, ipChecks : BOOLEAN,
   window : [lo : Ports, hi : Ports], sport : Ports]

\* random_range(source_port_range) is inclusive at both ends.
ASSUME /\ Networks \subseteq Network /\ Networks # {}
       /\ \A n \in Networks : n.window.lo <= n.sport /\ n.sport <= n.window.hi
       /\ Len(Banner) >= 1 /\ PayloadLen >= 1

SeqSpace == 2^SeqWidth
Seqs == 0..(SeqSpace - 1)

\* fault variant: an add that does not wrap
AddSeqUnwrapped(a, b) == a + b

\* u32::wrapping_add on sequence and acknowledgement numbers
AddSeq(a, b) == (a + b) % SeqSpace

\* TCP_PACKET's IPv4 total length (20-byte IP and 28-byte TCP headers),
\* and the sum of its header words other than the addresses and the
\* checksum: the 50487 of Sender::new.
TemplateLen == 48
TemplateSum == 50487

\* tcp::finalize_partial: the 32-bit sum folded twice into 16 bits
FinalizePartial(sum) ==
  LET t == (sum \div 65536) + (sum % 65536)
  IN  (t + (t \div 65536)) % 65536

\* tcp::finalize_checksum: the one's complement of the folded sum
FinalizeChecksum(sum) == 65535 - FinalizePartial(sum)

\* TCP_PACKET's TCP header: 20 bytes and 8 of options (data offset 7).
TcpHeaderLen == 28

\* tcp::raw_partial: the folded pseudo-header sum (both addresses, the
\* protocol 6 and the TCP length), left uncomplemented for the NIC.
RawPartial(ipv4Sum, len) == FinalizePartial(ipv4Sum + 6 + len)

\* The TX metadata request Sender::new writes before every TX frame:
\* checksum offload from byte 34 of the frame, the result stored 16 bytes
\* further on.
TxCsumStart == 34
TxCsumOffset == 16

\* A receiver's pseudo-header sum (RFC 793): both addresses, protocol 6
\* and the TCP length its IPv4 header gives (total length less 20), folded.
PseudoHeaderSum(ipLen) == FinalizePartial(SourceIpSum + PeerIpSum + 6 + ipLen - 20)

\* Option<u32>::None in State.next_seq and State.next_expected_ack
None == -1

\* A u16 that memory holds big-endian (a TCP header field, or a value
\* main stored with to_be()) as a little-endian load reads it.
LoadLE(port) == (port % 256) * 256 + port \div 256

\* try_farsight_xdp on a TCP/IPv4 segment for destination port dest: the
\* globals SOURCE_PORT_START and SOURCE_PORT_END hold source_port_range[0]
\* and [1] .to_be(), and both they and tcphdr.dest are read as native u16.
\* Outside [start, end] the segment is passed to the kernel; inside, it is
\* redirected to the queue's XSK.  (The globals are nonzero, see Network.)
XdpRedirects(window, dest) ==
  ~(LoadLE(dest) < LoadLE(window.lo) \/ LoadLE(dest) > LoadLE(window.hi))

\* the (ip, port) key of the modelled connection in the TTL map
Peer == "peer"

Flags == {"SYN", "ACK", "FIN", "RST", "PSH"}
Bytes == Range(Banner)

VARIABLES connections, \* the TTL map: at most the entry for Peer
          records,     \* Scanlings returned by tick (pushed to the queue)
          fromServer,  \* segments in flight to the responder's RX queue
          toServer,    \* segments the responder sent, in flight
          srv,         \* the server's TCP state for this connection
          txNext,      \* the TX slot Sender::send reserves next
          txFrames,    \* the IPv4 total length each TX frame holds
          net          \* the network of this behaviour, fixed

vars == <<connections, records, fromServer, toServer, srv, txNext, txFrames,
          net>>

MaxInFlight == net.maxInFlight
Lossy == net.lossy
Reorder == net.reorder
Duplicate == net.duplicate
Forged == net.forged
Expiry == net.expiry
TxSize == net.txSize
IpChecks == net.ipChecks

\* A network that loses, duplicates, reorders and forges nothing, with no
\* eviction.
Reliable == ~Lossy /\ ~Reorder /\ ~Duplicate /\ ~Forged /\ ~Expiry

\* connections.get_mut(&(ip, port)) finds an entry, and the entry
Known == Peer \in DOMAIN connections
conn == connections[Peer]

State == [data : Seq(Bytes), next_seq : Seqs \cup {None},
          next_expected_seq : Seqs, next_expected_ack : Seqs \cup {None},
          fin_sent : BOOLEAN]
InSegment == [flags : SUBSET Flags, seq : Seqs, ack : Seqs, data : Seq(Bytes)]
OutSegment == [flags : SUBSET Flags, seq : Seqs, ack : Seqs, len : 0..PayloadLen,
               ipLen : Nat, csum : 0..65535, tcpSum : 0..65535]
Server == [est : BOOLEAN, sent : 0..Len(Banner), acked : 0..(Len(Banner) + 1),
           finSent : BOOLEAN, finRcvd : BOOLEAN, lastAck : BOOLEAN,
           ackDue : BOOLEAN, rstDue : BOOLEAN, aborted : BOOLEAN]

TypeOK ==
  /\ net \in Networks
  /\ \E D \in SUBSET {Peer} : connections \in [D -> State]
  /\ records \in 0..MaxRecords
  /\ fromServer \in Seq(InSegment) /\ Len(fromServer) <= MaxInFlight
  /\ toServer \in Seq(OutSegment) /\ Len(toServer) <= MaxInFlight
  /\ srv \in Server
  /\ txNext \in 0..(TxSize - 1)
  /\ txFrames \in [0..(TxSize - 1) -> {TemplateLen} \cup {TemplateLen + n : n \in 1..PayloadLen}]

\* The scanner's SYN is on its way; nothing is known of the connection.
Init ==
  /\ net \in Networks
  /\ connections = <<>>
  /\ records = 0
  /\ fromServer = <<>>
  /\ toServer = <<>>
  /\ srv = [est |-> FALSE, sent |-> 0, acked |-> 0, finSent |-> FALSE,
            finRcvd |-> FALSE, lastAck |-> FALSE, ackDue |-> FALSE,
            rstDue |-> FALSE, aborted |-> FALSE]
  /\ txNext = 0
  /\ txFrames = [i \in 0..(TxSize - 1) |-> TemplateLen]

-----------------------------------------------------------------------------
(* The responder: one Responder::tick per received segment m *)

\* sender.send(PacketTemplate::new(flags, ip, Some(dest_port), port, seq,
\* ack, body)) writes the TCP fields into the frame of the slot it reserves
\* (it spins until the TX ring has one).  Only with a body does it rewrite
\* the IPv4 total length; the header checksum it writes assumes the
\* template's 48 and subtracts the body length with u16::wrapping_sub.
\* The TCP checksum field gets raw_partial of the TCP length, 28 plus the
\* body's, for the NIC to finish.
Send(flags, seq, ack, len) ==
  LET ipLen == IF len > 0 THEN TemplateLen + len ELSE txFrames[txNext]
      base  == FinalizeChecksum(TemplateSum + SourceIpSum + PeerIpSum)
      csum  == IF len > 0 THEN (base - len) % 65536 ELSE base
  IN  /\ Len(toServer) < MaxInFlight
      /\ toServer' = Append(toServer, [flags |-> flags, seq |-> seq,
                                       ack |-> ack, len |-> len,
                                       ipLen |-> ipLen, csum |-> csum,
                                       tcpSum |-> RawPartial(SourceIpSum + PeerIpSum,
                                                             TcpHeaderLen + len)])
      /\ txFrames' = [txFrames EXCEPT ![txNext] = ipLen]
      /\ txNext' = (txNext + 1) % TxSize

\* flags.intersects(TcpFlags::Rst): logged and dropped
OnRst(m) ==
  /\ "RST" \in m.flags
  /\ UNCHANGED <<connections, records, toServer, txNext, txFrames>>

IsFin(m) == "RST" \notin m.flags /\ "FIN" \in m.flags

\* FIN from unknown or forgotten (ip, port): a bare ACK of its FIN, using
\* the incoming ack as our seq
OnFinUnknown(m) ==
  /\ IsFin(m) /\ ~Known
  /\ Send({"ACK"}, m.ack, AddSeq(m.seq, 1), 0)
  /\ UNCHANGED <<connections, records>>

\* let Some(next_seq) = state.next_seq else { return Ok(None) }
OnFinBeforeData(m) ==
  /\ IsFin(m) /\ Known /\ conn.next_seq = None
  /\ UNCHANGED <<connections, records, toServer, txNext, txFrames>>

\* FIN|ACK the first time, ACK afterwards; forget the connection once it has
\* data
OnFin(m) ==
  /\ IsFin(m) /\ Known /\ conn.next_seq # None
  /\ Send(IF conn.fin_sent THEN {"ACK"} ELSE {"FIN", "ACK"},
          conn.next_seq, AddSeq(m.seq, 1), 0)
  /\ connections' = IF conn.data # <<>> THEN <<>>
                    ELSE Peer :> [conn EXCEPT !.fin_sent = TRUE]
  /\ UNCHANGED records

IsSynAck(m) ==
  /\ {"RST", "FIN"} \cap m.flags = {}
  /\ {"SYN", "ACK"} \subseteq m.flags

\* syn+ack cookie mismatch: dropped
OnSynAckMismatch(m) ==
  /\ IsSynAck(m) /\ m.ack # AddSeq(Cookie, 1)
  /\ UNCHANGED <<connections, records, toServer, txNext, txFrames>>

\* fault variant: next_expected_ack counts one byte too many
OnSynAckLongPayload(m) ==
  /\ IsSynAck(m) /\ m.ack = AddSeq(Cookie, 1)
  /\ Send({"PSH", "ACK"}, m.ack, AddSeq(m.seq, 1), PayloadLen)
  /\ connections' = Peer :> [data |-> <<>>, next_seq |-> None,
                             next_expected_seq |-> 0,
                             next_expected_ack |-> AddSeq(m.ack, PayloadLen + 1),
                             fin_sent |-> FALSE]
  /\ UNCHANGED records

\* send the payload (PSH|ACK) and insert a fresh State, replacing any entry
\* the map holds for (ip, port).  Payload::build for the request bytes
\* always returns Ok, so its error branch is never taken.
OnSynAck(m) ==
  /\ IsSynAck(m) /\ m.ack = AddSeq(Cookie, 1)
  /\ Send({"PSH", "ACK"}, m.ack, AddSeq(m.seq, 1), PayloadLen)
  /\ connections' = Peer :> [data |-> <<>>, next_seq |-> None,
                             next_expected_seq |-> 0,
                             next_expected_ack |-> AddSeq(m.ack, PayloadLen),
                             fin_sent |-> FALSE]
  /\ UNCHANGED records

IsAck(m) ==
  /\ {"RST", "FIN"} \cap m.flags = {}
  /\ ~({"SYN", "ACK"} \subseteq m.flags)
  /\ "ACK" \in m.flags

\* ack from unknown or forgotten (ip, port): dropped.  (The early return on
\* data.is_empty() that follows tests the whole frame, which always holds
\* the headers, so it never returns.)
OnAckUnknown(m) ==
  /\ IsAck(m) /\ ~Known
  /\ UNCHANGED <<connections, records, toServer, txNext, txFrames>>

\* ack cookie mismatch: the first data must acknowledge our payload
OnAckFirstMismatch(m) ==
  /\ IsAck(m) /\ Known
  /\ conn.next_expected_ack # None /\ m.ack # conn.next_expected_ack
  /\ UNCHANGED <<connections, records, toServer, txNext, txFrames>>

\* ack seq mismatch: a duplicate ACK (FIN|ACK once we sent FIN) advertising
\* next_expected_seq
OnAckSeqMismatch(m) ==
  /\ IsAck(m) /\ Known
  /\ conn.next_expected_ack = None /\ m.seq # conn.next_expected_seq
  /\ Send(IF conn.fin_sent THEN {"FIN", "ACK"} ELSE {"ACK"},
          m.ack, conn.next_expected_seq, 0)
  /\ UNCHANGED <<connections, records>>

\* fault variant: a buffer one byte short of the banner parses
ParseOutcomesShortByOne(data) ==
  IF data = Banner \/ (IsStrictPrefix(data, Banner) /\ Len(data) = Len(Banner) - 1)
  THEN {"Ok"}
  ELSE IF IsStrictPrefix(data, Banner) THEN {"Incomplete"}
  ELSE IF IsStrictPrefix(Banner, data) THEN {"Invalid"}
  ELSE {"Invalid", "Incomplete"}

\* SLPParser::parse of the accumulated data: the outcomes it can give.  The
\* banner itself parses; a proper prefix of it is Incomplete (a varint or
\* the JSON body is short); the banner with bytes after it is Invalid
\* (serde_json rejects trailing characters); anything else starts with the
\* wrong bytes and is Invalid or, while too short to hold the header,
\* Incomplete.
ParseOutcomes(data) ==
  IF data = Banner THEN {"Ok"}
  ELSE IF IsStrictPrefix(data, Banner) THEN {"Incomplete"}
  ELSE IF IsStrictPrefix(Banner, data) THEN {"Invalid"}
  ELSE {"Invalid", "Incomplete"}

\* fault variant: next_expected_seq one past the accepted payload
AcceptedOffByOne(m) ==
  [conn EXCEPT !.next_expected_ack = None, !.data = @ \o m.data,
               !.next_seq = m.ack,
               !.next_expected_seq = AddSeq(m.seq, Len(m.data) + 1)]

\* state.data.extend_from_slice(payload); state.next_seq = Some(ack);
\* state.next_expected_seq = seq.wrapping_add(payload.len())
Accepted(m) ==
  [conn EXCEPT !.next_expected_ack = None, !.data = @ \o m.data,
               !.next_seq = m.ack,
               !.next_expected_seq = AddSeq(m.seq, Len(m.data))]

\* The segment is accepted: append its payload, record where the peer is,
\* and act on what the parser makes of the data so far.
OnAckData(m) ==
  /\ IsAck(m) /\ Known
  /\ \/ conn.next_expected_ack # None /\ m.ack = conn.next_expected_ack
     \/ conn.next_expected_ack = None /\ m.seq = conn.next_expected_seq
  /\ LET st == Accepted(m)
     IN  \E outcome \in ParseOutcomes(st.data) :
           \/ /\ outcome = "Ok"
              /\ Send({"FIN", "ACK"}, m.ack, st.next_expected_seq, 0)
              /\ connections' = Peer :> [st EXCEPT !.fin_sent = TRUE]
              /\ records' = IF records < MaxRecords THEN records + 1
                            ELSE records
           \/ /\ outcome = "Invalid"
              /\ connections' = <<>>
              /\ UNCHANGED <<records, toServer, txNext, txFrames>>
           \/ /\ outcome = "Incomplete"
              /\ Send({"ACK"}, m.ack, st.next_expected_seq, 0)
              /\ connections' = Peer :> st
              /\ UNCHANGED records

Handle(m) ==
  \/ OnRst(m)
  \/ OnFinUnknown(m) \/ OnFinBeforeData(m) \/ OnFin(m)
  \/ OnSynAckMismatch(m) \/ OnSynAck(m)
  \/ OnAckUnknown(m) \/ OnAckFirstMismatch(m) \/ OnAckSeqMismatch(m)
  \/ OnAckData(m)

\* Receiver::receive hands the responder the oldest segment (any, when the
\* network reorders), which stays in flight when the network duplicates it.
Arrivals == IF Reorder THEN 1..Len(fromServer)
            ELSE IF fromServer = <<>> THEN {} ELSE {1}
Keeps == IF Duplicate THEN BOOLEAN ELSE {FALSE}

Tick ==
  /\ XdpRedirects(net.window, net.sport)
  /\ \E i \in Arrivals, keep \in Keeps :
       /\ fromServer' = IF keep THEN fromServer ELSE RemoveAt(fromServer, i)
       /\ Handle(fromServer[i])
       /\ UNCHANGED srv

\* TtlHashMap: the entry is evicted once the ping timeout has passed
Expire ==
  /\ Expiry /\ Known
  /\ connections' = <<>>
  /\ UNCHANGED <<records, fromServer, toServer, txNext, txFrames, srv>>

\* The XDP filter passes the segment to the host's own TCP stack, which
\* has no socket on our source port and answers anything but an RST with
\* an RST whose seq is the segment's ack (RFC 793, CLOSED state).
KernelReset ==
  /\ ~XdpRedirects(net.window, net.sport)
  /\ Len(toServer) < MaxInFlight
  /\ \E i \in Arrivals :
       LET m == fromServer[i]
       IN  /\ fromServer' = RemoveAt(fromServer, i)
           /\ toServer' = IF "RST" \in m.flags THEN toServer
                          ELSE Append(toServer, [flags |-> {"RST"}, seq |-> m.ack,
                                 ack |-> 0, len |-> 0, ipLen |-> TemplateLen,
                                 csum |-> FinalizeChecksum(TemplateSum
                                            + SourceIpSum + PeerIpSum),
                                 tcpSum |-> PseudoHeaderSum(TemplateLen)])
  /\ UNCHANGED <<connections, records, srv, txNext, txFrames>>

-----------------------------------------------------------------------------
(* The server (environment): a TCP endpoint serving the banner *)

\* offset of a sequence or acknowledgement number in the server's stream:
\* 0 is the first banner byte, Len(Banner) the server's FIN
Offset(a) == (a - AddSeq(ServerISN, 1)) % SeqSpace

\* what the server has sent (bytes, then its FIN) and expects from us next
SndNxt == srv.sent + (IF srv.finSent THEN 1 ELSE 0)
RcvNxt == AddSeq(Cookie, 1 + PayloadLen + (IF srv.finRcvd THEN 1 ELSE 0))

SynAckSeg == [flags |-> {"SYN", "ACK"}, seq |-> ServerISN,
              ack |-> AddSeq(Cookie, 1), data |-> <<>>]
ByteSeg(i) == [flags |-> {"PSH", "ACK"}, seq |-> AddSeq(ServerISN, i),
               ack |-> RcvNxt, data |-> <<Banner[i]>>]
FinSeg == [flags |-> {"FIN", "ACK"}, seq |-> AddSeq(ServerISN, 1 + Len(Banner)),
           ack |-> RcvNxt, data |-> <<>>]
AckSeg == [flags |-> {"ACK"}, seq |-> AddSeq(ServerISN, 1 + SndNxt),
           ack |-> RcvNxt, data |-> <<>>]
RstSeg == [flags |-> {"RST"}, seq |-> AddSeq(ServerISN, 1 + SndNxt),
           ack |-> RcvNxt, data |-> <<>>]

\* the server puts a segment on the wire; a retransmission only when the
\* previous copy is no longer in flight
Emit(seg) ==
  /\ Len(fromServer) < MaxInFlight
  /\ ~Contains(fromServer, seg)
  /\ fromServer' = Append(fromServer, seg)

SrvSynAck ==
  /\ ~srv.aborted /\ ~srv.est
  /\ Emit(SynAckSeg)
  /\ UNCHANGED <<connections, records, toServer, txNext, txFrames, srv>>

\* the i-th banner byte, first time in order, again while unacknowledged
SrvSendByte(i) ==
  /\ ~srv.aborted /\ srv.est /\ i <= srv.sent + 1 /\ i > srv.acked
  /\ Emit(ByteSeg(i))
  /\ srv' = [srv EXCEPT !.sent = IF i > @ THEN i ELSE @, !.ackDue = FALSE]
  /\ UNCHANGED <<connections, records, toServer, txNext, txFrames>>

\* a bare ACK of what we sent (delayed, or of our FIN)
SrvSendAck ==
  /\ ~srv.aborted /\ srv.ackDue
  /\ Emit(AckSeg)
  /\ srv' = [srv EXCEPT !.ackDue = FALSE]
  /\ UNCHANGED <<connections, records, toServer, txNext, txFrames>>

\* the server application closes once the banner is written
SrvClose ==
  /\ ~srv.aborted /\ srv.est /\ srv.sent = Len(Banner) /\ ~srv.finSent
  /\ Emit(FinSeg)
  /\ srv' = [srv EXCEPT !.finSent = TRUE, !.lastAck = srv.finRcvd,
                        !.ackDue = FALSE]
  /\ UNCHANGED <<connections, records, toServer, txNext, txFrames>>

SrvResendFin ==
  /\ ~srv.aborted /\ srv.finSent /\ srv.acked <= Len(Banner)
  /\ Emit(FinSeg)
  /\ UNCHANGED <<connections, records, toServer, txNext, txFrames, srv>>

SrvSendRst ==
  /\ ~srv.aborted /\ srv.rstDue
  /\ Emit(RstSeg)
  /\ srv' = [srv EXCEPT !.rstDue = FALSE]
  /\ UNCHANGED <<connections, records, toServer, txNext, txFrames>>

\* closed: our FIN came first and the server's own FIN is acknowledged
SrvClosed == srv.lastAck /\ srv.acked = Len(Banner) + 1

\* RFC 791 / RFC 1071 at the server's IP layer: the total length is the
\* length of what arrived (the frame's 62 + len bytes less the Ethernet
\* header) and the folded sum of all header words, checksum included, is
\* 0xFFFF.  A datagram failing either is discarded.
IpHeaderValid(m) ==
  /\ m.ipLen = TemplateLen + m.len
  /\ FinalizePartial(TemplateSum - TemplateLen + m.ipLen + SourceIpSum
                     + PeerIpSum + m.csum) = 65535

\* RFC 793 at the server's TCP, after the NIC finished the checksum: the
\* NIC summed the frame from csum_start, seed included, and stored the
\* complement csum_offset further on; the server adds its pseudo-header
\* and wants 0xFFFF.  The segment's own words cancel out, so the sum is
\* right iff the offload spans the TCP segment (it starts after the
\* 14-byte Ethernet and 20-byte IPv4 headers) into its checksum field (16
\* bytes in), and the seed is the server's pseudo-header sum.
TcpChecksumValid(m) ==
  /\ TxCsumStart = 14 + 20 /\ TxCsumOffset = 16
  /\ m.tcpSum = PseudoHeaderSum(m.ipLen)

\* The server receives one of our segments; its IP and TCP layers drop an
\* invalid datagram or segment (with Lossy, a run may leave that check out: loss already
\* covers every drop, and accepting the datagram only adds behaviours).
\* Our request moves it out of
\* SYN-RECEIVED; an acknowledgement within what it sent advances acked;
\* anything occupying sequence space (request, FIN) is acknowledged.  Once
\* closed, it answers with RST.  An RST whose seq is exactly the next it
\* expects aborts the connection (RFC 5961); the server then sends nothing
\* more and ignores what arrives.
SrvRecv ==
  /\ toServer # <<>>
  /\ \E i \in (IF Reorder THEN 1..Len(toServer) ELSE {1}) :
       LET m == toServer[i]
       IN  /\ toServer' = RemoveAt(toServer, i)
           /\ srv' = IF IpChecks /\ ~(IpHeaderValid(m) /\ TcpChecksumValid(m)) THEN srv
                     ELSE IF srv.aborted THEN srv
                     ELSE IF "RST" \in m.flags THEN
                       [srv EXCEPT !.aborted = m.seq = (IF srv.est THEN RcvNxt
                                                         ELSE AddSeq(Cookie, 1))]
                     ELSE IF SrvClosed THEN [srv EXCEPT !.rstDue = TRUE]
                     ELSE [srv EXCEPT
                      !.est = @ \/ (m.seq = AddSeq(Cookie, 1) /\ m.len > 0),
                      !.acked = IF Offset(m.ack) > @ /\ Offset(m.ack) <= SndNxt
                                THEN Offset(m.ack) ELSE @,
                      !.finRcvd = @ \/ "FIN" \in m.flags,
                      !.ackDue = @ \/ m.len > 0 \/ "FIN" \in m.flags]
  /\ UNCHANGED <<connections, records, fromServer, txNext, txFrames>>

\* a SYN|ACK from elsewhere on the Internet, whose ack is not our cookie + 1
SpoofSynAck ==
  /\ Forged
  /\ Emit([SynAckSeg EXCEPT !.ack = Cookie])
  /\ UNCHANGED <<connections, records, toServer, txNext, txFrames, srv>>

LoseToResponder ==
  /\ Lossy
  /\ \E i \in 1..Len(fromServer) : fromServer' = RemoveAt(fromServer, i)
  /\ UNCHANGED <<connections, records, toServer, txNext, txFrames, srv>>

LoseToServer ==
  /\ Lossy
  /\ \E i \in 1..Len(toServer) : toServer' = RemoveAt(toServer, i)
  /\ UNCHANGED <<connections, records, fromServer, srv, txNext, txFrames>>

ServerStep ==
  \/ SrvSynAck \/ (\E i \in 1..Len(Banner) : SrvSendByte(i))
  \/ SrvSendAck \/ SrvClose \/ SrvResendFin \/ SrvSendRst \/ SrvRecv

Faults == SpoofSynAck \/ LoseToResponder \/ LoseToServer

Next == (Tick \/ KernelReset \/ Expire \/ ServerStep \/ Faults) /\ UNCHANGED net

\* The responder is a polling loop on its own thread, and the host's TCP
\* stack handles what XDP passes to it; the server's TCP
\* stack retransmits what is unacknowledged and processes what arrives.
\* Closing, delayed ACKs, loss and eviction are never forced.
Fairness ==
  /\ WF_vars(Tick /\ UNCHANGED net)
  /\ WF_vars(KernelReset /\ UNCHANGED net)
  /\ WF_vars(SrvRecv /\ UNCHANGED net)
  /\ WF_vars(SrvSynAck /\ UNCHANGED net)
  /\ WF_vars(SrvSendAck /\ UNCHANGED net)
  /\ \A i \in 1..Len(Banner) : WF_vars(SrvSendByte(i) /\ UNCHANGED net)

Spec == Init /\ [][Next]_vars /\ Fairness

-----------------------------------------------------------------------------
(* Properties *)

\* Scenario 4 of the spec: a handshake that ends in a parsed banner pushes
\* one Record.  Responder::tick keeps the State after Ok and re-parses the
\* accumulated data whenever an in-sequence ACK arrives, because the
\* pure-ACK check tests the frame, not the payload.
AtMostOneRecord == records <= 1

\* The server is told that its whole banner arrived only once a record of
\* it exists: the responder never acknowledges banner bytes it has not
\* parsed, so the server never stops retransmitting a banner we lack.
\* Holds only if the first data segment is accepted by its position, not
\* by its ack alone.
BannerAckedOnlyIfRecorded == srv.acked >= Len(Banner) => records > 0

\* The bytes the responder has accumulated are exactly the server's bytes
\* that precede next_expected_seq: every accepted segment lands where its
\* sequence number says, across duplicate SYN|ACKs, retransmissions and
\* wrap-around of the sequence space.  (next_expected_seq may lie past the
\* server's FIN when the first segment accepted is a bare ACK.)
AccumulatedDataMatchesSeq ==
  Known /\ conn.next_expected_ack = None =>
    LET k == Offset(conn.next_expected_seq) - Len(conn.data)
    IN  /\ k >= 0 /\ k + Len(conn.data) <= Len(Banner) + 1
        /\ conn.data # <<>> =>
             /\ k + Len(conn.data) <= Len(Banner)
             /\ conn.data = SubSeq(Banner, k + 1, k + Len(conn.data))

\* Over a reliable network, a server that answers is eventually recorded.
BannerEventuallyRecorded == Reliable => <>(records > 0)

\* Over a reliable network, the responder never acknowledges banner bytes
\* it has not recorded (over a lossy one it may: the lostbyte finding).
ReliableBannerAckedOnlyIfRecorded == Reliable => BannerAckedOnlyIfRecorded

\* Every segment Sender::send submits for the responder carries an IPv4
\* header the peer accepts: TCP_PACKET's comment and send's own rewrite of
\* the total length for a body say the header describes the frame sent.
\* The TX frames are reused slot by slot, so this is about what a frame
\* keeps from an earlier send.
SentHeadersValid == \A i \in 1..Len(toServer) : IpHeaderValid(toServer[i])

\* The responder keeps what BannerStream promises: while the connection is
\* known and past its first data segment, State.data is a run of the
\* banner that begins Offset(next_expected_seq) - Len(data) bytes in; from
\* one tick to the next it is kept, grown by the bytes after it, or
\* dropped; and a Record is pushed only in a step that leaves the whole
\* banner in data.  This is about Responder::tick's accept path, the State
\* the SYN|ACK branch inserts and the parse that decides the Record.
Held == Known /\ conn.next_expected_ack = None /\ conn.data # <<>>

Promise == INSTANCE BannerStream
             WITH Stream <- Banner,
                  buf <- IF Held THEN conn.data ELSE <<>>,
                  from <- IF Held THEN Offset(conn.next_expected_seq) - Len(conn.data)
                          ELSE 0

ResponderImplementsStream == Promise!Spec

=============================================================================
