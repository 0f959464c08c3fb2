\* Three networks: a perfect one, and two that between them lose,
\* duplicate and reorder segments, forge SYN|ACKs and evict by TTL.
CONSTANTS
  SeqWidth <- MCSeqWidth
  ServerISN <- MCServerISN
  Cookie <- MCCookie
  PayloadLen <- MCPayloadLen
  Banner <- MCBanner
  MaxRecords = 2
  SourceIpSum <- MCSourceIpSum
  PeerIpSum <- MCPeerIpSum
  Networks <- MCNetworks
SPECIFICATION Spec
INVARIANT TypeOK
INVARIANT AccumulatedDataMatchesSeq
INVARIANT ReliableBannerAckedOnlyIfRecorded
INVARIANT ParserAbstractionSound
INVARIANT RequestFramed
INVARIANT VarIntsRead
PROPERTY BannerEventuallyRecorded
PROPERTY ResponderImplementsStream
\* Once the server has closed and every segment is handled nothing is left
\* to do: the responder then polls an empty RX ring.
CHECK_DEADLOCK FALSE
