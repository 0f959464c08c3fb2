----------------------------- MODULE MCResponder -----------------------------
(***************************************************************************)
(* Responder for TLC.  Sequence numbers wrap at 16, and the server's ISN   *)
(* sits just below the wrap so that its banner and FIN straddle it.  The   *)
(* banner is two bytes, the least that can arrive out of order.            *)
(***************************************************************************)
EXTENDS Responder, Slp

MCSeqWidth == 4
MCServerISN == 14
MCCookie == 5
MCPayloadLen == 2
MCBanner == <<"b1", "b2">>

\* 10.0.0.1 scanning 93.184.216.34: the word sums of the two addresses.
MCSourceIpSum == 2560 + 1
MCPeerIpSum == 23992 + 55330

\* source_port_range = [32768, 60999], Linux's ephemeral ports.  The XDP
\* filter redirects 40000 (0x9C40, read as 0x409C) but not 50000 (0xC350,
\* read as 0x50C3, past 60999 = 0xEE47 read as 0x47EE).
MCWindow == [lo |-> 32768, hi |-> 60999]
MCRedirectedPort == 40000
MCPassedPort == 50000

Net(maxInFlight, faults, txSize, ipChecks) ==
  [maxInFlight |-> maxInFlight, lossy |-> "lossy" \in faults,
   reorder |-> "reorder" \in faults, duplicate |-> "duplicate" \in faults,
   forged |-> "forged" \in faults, expiry |-> "expiry" \in faults,
   txSize |-> txSize, ipChecks |-> ipChecks,
   window |-> MCWindow, sport |-> MCRedirectedPort]

AllFaults == {"lossy", "reorder", "duplicate", "forged", "expiry"}

\* A perfect network and a two-frame TX ring; the server checks headers.
MCReliable == Net(3, {}, 2, TRUE)
\* A network that only loses segments.
MCLossy == Net(3, {"lossy"}, 2, TRUE)
\* Every fault but one.  The server's header check is left out: loss
\* already covers each drop it makes, and a one-frame TX ring is then
\* enough.  Every fault alone and every pair of faults but loss with
\* reordering happens on one of the two.
MCHostileNoLoss == Net(2, AllFaults \ {"lossy"}, 1, FALSE)
MCHostileInOrder == Net(2, AllFaults \ {"reorder"}, 1, FALSE)

\* A lossy network to a connection whose source port XDP does not
\* redirect.
MCMisfiltered == [Net(2, {"lossy"}, 1, FALSE) EXCEPT !.sport = MCPassedPort]
\* A perfect network to such a connection.
MCReliableMisfiltered == [MCReliable EXCEPT !.sport = MCPassedPort]

MCNetworks == {MCReliable, MCHostileNoLoss, MCHostileInOrder, MCMisfiltered}
MCReliableMisfilteredOnly == {MCReliableMisfiltered}
MCReliableOnly == {MCReliable}
MCLossyOnly == {MCLossy}

\* The banner as bytes: spec scenario 4's 137 bytes of status JSON behind
\* the SLP header (packet length 140, id 0, string length 137, each a
\* VarInt), sent as scenario 5's first 64 bytes ("b1") and the rest ("b2").
MCStatusJson == [i \in 1 .. 137 |-> IF i = 1 THEN 123 ELSE IF i = 137 THEN 125 ELSE 32]
MCBannerFrame == <<140, 1, 0, 137, 1>> \o MCStatusJson
MCBannerBytes == "b1" :> SubSeq(MCBannerFrame, 1, 64)
                   @@ "b2" :> SubSeq(MCBannerFrame, 65, Len(MCBannerFrame))

\* serde_json::from_slice into an SLPResponse: the server's status JSON is
\* the one well-formed document here; a prefix of it, or it with bytes
\* after it, is an error.
MCFromSlice(buf) == IF buf = MCStatusJson THEN "Ok" ELSE "Invalid"
MCParseOutcome(r) == IF r.outcome = "Json" THEN MCFromSlice(r.json) ELSE r.outcome

\* Responder's ParseOutcomes is what SLPParser::parse gives: while the
\* responder holds the connection, the code's parse of the bytes it has
\* accumulated, and of them followed by any segment the server has in
\* flight (what the next in-sequence ACK branch extends data with and
\* parses), is an outcome the responder model allows.  It fails if the
\* parser calls the whole banner Incomplete, a short one Invalid, or one
\* with bytes after it Ok.
ParserAbstractionSound ==
    Known =>
        \A d \in {conn.data} \cup {conn.data \o m.data : m \in Range(fromServer)} :
            MCParseOutcome(SlpParse(FlattenSeq([i \in DOMAIN d |-> MCBannerBytes[d[i]]])))
                \in ParseOutcomes(d)

\* Whenever the responder holds a connection whose bytes SLPParser::parse
\* may read, read_varint decodes the protocol's VarInt of every sampled
\* i32, the five-byte ones (negative values, 2^28 and past) included, and
\* calls each one cut short Incomplete.  The banner's own VarInts take one
\* or two bytes; this is the part of read_varint a server's longer
\* lengths, ids or a padded encoding would reach.  It fails if the loop
\* stops a byte early or late, or the fifth byte loses or keeps the bits
\* past bit 31.
VarIntsRead == Known => VarIntsDecode

\* Every request the responder has on the wire is framed as the protocol
\* says: Payload::build hands each connection the bytes main built once
\* with build_latest_request, and those are, byte for byte, the handshake
\* and status request a server expects, for every sampled host and
\* protocol version.
RequestFramed ==
    \A m \in Range(toServer) : m.len = PayloadLen => RequestsMatchProtocol
=============================================================================
