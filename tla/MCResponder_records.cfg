\* Same reliable network: the server acknowledges our FIN.
CONSTANTS
  SeqWidth <- MCSeqWidth
  ServerISN <- MCServerISN
  Cookie <- MCCookie
  PayloadLen <- MCPayloadLen
  Banner <- MCBanner
  MaxRecords = 2
  SourceIpSum <- MCSourceIpSum
  PeerIpSum <- MCPeerIpSum
  Networks <- MCReliableOnly
SPECIFICATION Spec
INVARIANT AtMostOneRecord
CHECK_DEADLOCK FALSE
