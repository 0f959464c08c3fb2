\* Same reliable network: the headers of the frames the responder sends.
CONSTANTS
  SeqWidth <- MCSeqWidth
  ServerISN <- MCServerISN
  Cookie <- MCCookie
  PayloadLen <- MCPayloadLen
  Banner <- MCBanner
  MaxRecords = 2
  SourceIpSum <- MCSourceIpSum
  PeerIpSum <- MCPeerIpSum
  Networks <- MCReliableOnly
SPECIFICATION Spec
INVARIANT SentHeadersValid
\* Once the server has closed and every segment is handled nothing is left
\* to do: the responder then polls an empty RX ring.
CHECK_DEADLOCK FALSE
