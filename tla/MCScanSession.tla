---------------------------- MODULE MCScanSession ---------------------------
(* ScanSession with WorkerPool's three queues and RangeScan's 2-bit        *)
(* addresses, two ports and exclude files (see MCRangeScan).              *)
EXTENDS ScanSession

MCPorts == 0 .. 1

Entry(kind, ip, n, lo, hi) == [kind |-> kind, ip |-> ip, n |-> n, lo |-> lo, hi |-> hi]
Addr(ip) == Entry("ip", ip, 0, 0, 0)
Cidr(ip, n) == Entry("cidr", ip, n, 0, 0)
Span(lo, hi) == Entry("span", 0, 0, lo, hi)

MCExcludeLists ==
    { <<>>, <<Addr(1), Cidr(3, 2)>>, <<Span(1, 2)>>, <<Cidr(2, 0)>> }
=============================================================================
