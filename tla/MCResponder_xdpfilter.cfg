\* A perfect network to a connection whose source port, drawn from
\* source_port_range, the XDP filter passes to the kernel.
CONSTANTS
  SeqWidth <- MCSeqWidth
  ServerISN <- MCServerISN
  Cookie <- MCCookie
  PayloadLen <- MCPayloadLen
  Banner <- MCBanner
  MaxRecords = 2
  SourceIpSum <- MCSourceIpSum
  PeerIpSum <- MCPeerIpSum
  Networks <- MCReliableMisfilteredOnly
SPECIFICATION Spec
PROPERTY BannerEventuallyRecorded
\* The aborted server sends nothing more, and nothing is left to do.
CHECK_DEADLOCK FALSE
