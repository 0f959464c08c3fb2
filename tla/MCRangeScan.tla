---------------------------- MODULE MCRangeScan -----------------------------
(* RangeScan with 2-bit addresses and two ports.  The exclude files hold   *)
(* each kind of entry: a single address, CIDR blocks (including /0, whose  *)
(* mask computation wraps) and a span, one file with overlapping entries   *)
(* and an empty file.  Every file lists its entries in ascending order.    *)
EXTENDS RangeScan

MCPorts == 0 .. 1

Entry(kind, ip, n, lo, hi) == [kind |-> kind, ip |-> ip, n |-> n, lo |-> lo, hi |-> hi]
Addr(ip) == Entry("ip", ip, 0, 0, 0)
Cidr(ip, n) == Entry("cidr", ip, n, 0, 0)
Span(lo, hi) == Entry("span", 0, 0, lo, hi)

\* Files that leave most of the address space in scope.
MCPartialExcludes ==
    { <<Addr(1), Cidr(3, 2)>>,
      <<Span(1, 2)>>,
      <<Cidr(0, 1), Addr(1), Addr(3)>> }

MCExcludeLists == MCPartialExcludes \cup { <<>>, <<Cidr(2, 0)>> }
=============================================================================
