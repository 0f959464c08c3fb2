\* A network that only loses segments.
CONSTANTS
  SeqWidth <- MCSeqWidth
  ServerISN <- MCServerISN
  Cookie <- MCCookie
  PayloadLen <- MCPayloadLen
  Banner <- MCBanner
  MaxRecords = 2
  SourceIpSum <- MCSourceIpSum
  PeerIpSum <- MCPeerIpSum
  Networks <- MCLossyOnly
SPECIFICATION Spec
INVARIANT BannerAckedOnlyIfRecorded
CHECK_DEADLOCK FALSE
