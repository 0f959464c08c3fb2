----------------------------- MODULE RangeScan ------------------------------
(***************************************************************************)
(* The scan path of one session (main.rs, net/range.rs, exclude.rs,       *)
(* controller/strategy, controller/scanner.rs).                            *)
(*                                                                         *)
(* main's session loop picks a strategy, generates its ranges of           *)
(* (ip, port) targets, subtracts the exclude list in a two-pointer sweep   *)
(* (AddressRanges::exclude), numbers the rest (compile) and starts the     *)
(* session; every Scanner::tick takes the next value of the shared atomic  *)
(* index, shuffles it and maps it to a target by binary search            *)
(* (CompiledRanges::index).                                                *)
(*                                                                         *)
(* Addresses are IpBits wide instead of 32; the mask arithmetic keeps its *)
(* width.  PerfectRng (an external crate) is taken as what spec 4.7 says  *)
(* it is: a bijection of [0, N), so the first N ticks of a session draw   *)
(* the indices 0 .. N-1 in some order; later ticks may draw any of them.  *)
(***************************************************************************)
EXTENDS Integers, Sequences, SequencesExt, FiniteSets, Bitwise

CONSTANTS
    IpBits,        \* width of an address (32 in the code)
    Ports,         \* the port numbers a strategy may pick, an interval
    ExcludeLists,  \* exclude files main may have loaded: sequences of entries
    ExtraTicks     \* ticks a session may run past N

ASSUME IpBits \in Nat \ {0} /\ ExtraTicks \in Nat

IpSpace == 2 ^ IpBits
Ips == 0 .. IpSpace - 1
AllOnes == IpSpace - 1
PortLo == CHOOSE p \in Ports : \A q \in Ports : p <= q
PortHi == CHOOSE p \in Ports : \A q \in Ports : p >= q

\* An (ip, port) rectangle: Range<(Ipv4Addr, u16)>, both ends inclusive.
Rect == [ipLo : Ips, ipHi : Ips, portLo : Ports, portHi : Ports]
\* An exclude range: Range<Ipv4Addr>, inclusive.
IpRange == [lo : Ips, hi : Ips]

-----------------------------------------------------------------------------
(* exclude::parse, one line.  An entry is a single address, a CIDR block  *)
(* or a start-end span; comments and blank lines are gone already.        *)

\* `2u32.pow(32 - n) - 1`, wrapping as the release build does.
MaskBits(n) == (((2 ^ (IpBits - n)) % IpSpace) - 1) % IpSpace

ParseEntry(x) ==
    CASE x.kind = "cidr" ->
            [lo |-> x.ip & (AllOnes - MaskBits(x.n)),
             hi |-> x.ip | MaskBits(x.n)]
      [] x.kind = "span" -> [lo |-> x.lo, hi |-> x.hi]
      [] x.kind = "ip"   -> [lo |-> x.ip, hi |-> x.ip]

\* The ranges come out in file order.
Parse(file) == [i \in 1 .. Len(file) |-> ParseEntry(file[i])]

-----------------------------------------------------------------------------
(* Strategies.  generate_ranges gives a sequence of inclusive ranges;    *)
(* each strategy here gives one, and CombinedStrategy pairs every range   *)
(* of the second with every range of the first.  SlashN bails for a block *)
(* above 32, which the selector never picks.                              *)

\* `!0u32 << (32 - block)`, or 0 for block 0.
Mask(block) ==
    IF block = 0 THEN 0
    ELSE (AllOnes * 2 ^ (IpBits - block)) % IpSpace

\* SlashN::generate_ranges: `ip & mask ..= ip | !mask`.
SlashN(ip, block) ==
    <<[lo |-> ip & Mask(block), hi |-> ip | (AllOnes - Mask(block))]>>

\* AllPortsNonPrivileged (1024..=65535) and RangedPorts(a, b) (a..=b).
AllPortsNonPrivileged == <<[lo |-> PortLo, hi |-> PortHi]>>
RangedPorts(a, b) == <<[lo |-> a, hi |-> b]>>

\* CombinedStrategy::generate_ranges: the second strategy's ranges in the
\* outer loop, the first's in the inner one.
CombineWith(s1, s2) ==
    [i \in 1 .. Len(s1) * Len(s2) |->
        LET a == s1[((i - 1) % Len(s1)) + 1]
            b == s2[((i - 1) \div Len(s1)) + 1]
        IN  [ipLo |-> a.lo, ipHi |-> a.hi, portLo |-> b.lo, portHi |-> b.hi]]

\* select_exploit: 0.0.0.0/0 with every non-privileged port.
SelectExploit == CombineWith(SlashN(0, 0), AllPortsNonPrivileged)

\* select_explore: a random address and block 0..=32, a port start and an
\* end from the start up.
SelectExplore(ip, block, start, end) ==
    CombineWith(SlashN(ip, block), RangedPorts(start, end))

\* StrategySelector::select: exploit or explore, by the epsilon draw.
Strategies ==
    {SelectExploit}
        \cup UNION {{SelectExplore(ip, b, p, q) : q \in {x \in Ports : x >= p}} :
                        ip \in Ips, b \in 0 .. IpBits, p \in Ports}

-----------------------------------------------------------------------------
(* AddressRanges::exclude: the loop, one branch per CASE arm.  `out` is    *)
(* self.inner as rebuilt, `s` the current scan range and `S` the scan     *)
(* ranges not yet taken, `e` the current exclude range and `E` the rest.  *)

RECURSIVE Sweep(_, _, _, _, _)

\* Take the next scan range, or stop when there is none.
NextScan(out, S, e, E) ==
    IF S = <<>> THEN out ELSE Sweep(out, Head(S), Tail(S), e, E)

\* Mutant: the left slice of a split keeps the exclude range's first address.
SweepSplitOffByOne(out, s, S, e, E) ==
    CASE s.ipHi < e.lo ->
            NextScan(out \o <<s>>, S, e, E)
      [] s.ipLo > e.hi ->
            IF E = <<>> THEN out \o <<s>> \o S
            ELSE Sweep(out, s, S, Head(E), Tail(E))
      [] s.ipLo < e.lo /\ s.ipHi > e.hi ->
            Sweep(out \o <<[s EXCEPT !.ipHi = e.lo]>>,
                  [s EXCEPT !.ipLo = e.hi + 1], S, e, E)
      [] s.ipLo < e.lo ->
            NextScan(out \o <<[s EXCEPT !.ipHi = e.lo - 1]>>, S, e, E)
      [] s.ipHi > e.hi ->
            Sweep(out, [s EXCEPT !.ipLo = e.hi + 1], S, e, E)
      [] OTHER ->
            NextScan(out, S, e, E)

Sweep(out, s, S, e, E) ==
    CASE s.ipHi < e.lo ->
            NextScan(out \o <<s>>, S, e, E)
      [] s.ipLo > e.hi ->
            IF E = <<>> THEN out \o <<s>> \o S
            ELSE Sweep(out, s, S, Head(E), Tail(E))
      [] s.ipLo < e.lo /\ s.ipHi > e.hi ->
            Sweep(out \o <<[s EXCEPT !.ipHi = e.lo - 1]>>,
                  [s EXCEPT !.ipLo = e.hi + 1], S, e, E)
      [] s.ipLo < e.lo ->
            NextScan(out \o <<[s EXCEPT !.ipHi = e.lo - 1]>>, S, e, E)
      [] s.ipHi > e.hi ->
            Sweep(out, [s EXCEPT !.ipLo = e.hi + 1], S, e, E)
      [] OTHER ->
            NextScan(out, S, e, E)

Exclude(S, E) ==
    IF E = <<>> \/ S = <<>> THEN S
    ELSE Sweep(<<>>, Head(S), Tail(S), Head(E), Tail(E))

-----------------------------------------------------------------------------
(* AddressRanges::compile and CompiledRanges::index.                       *)

PortCount(r) == r.portHi - r.portLo + 1
RangeCount(r) == (r.ipHi - r.ipLo + 1) * PortCount(r)

\* Each range with its port count, its first global index and its count.
RECURSIVE CompileFrom(_, _)
CompileFrom(S, index) ==
    IF S = <<>> THEN <<>>
    ELSE <<[range |-> Head(S), portCount |-> PortCount(Head(S)),
            index |-> index, count |-> RangeCount(Head(S))]>>
         \o CompileFrom(Tail(S), index + RangeCount(Head(S)))

Compile(S) ==
    [inner |-> CompileFrom(S, 0),
     count |-> FoldLeft(LAMBDA acc, r : acc + RangeCount(r), 0, S)]

\* What index returns after panic!("index out of bounds").
OutOfBounds == <<-1, -1>>

RECURSIVE Search(_, _, _, _)

\* The binary search over [start, end) of 0-based positions.
Search(C, k, start, end) ==
    IF start >= end THEN OutOfBounds
    ELSE LET mid == (start + end) \div 2
             r == C.inner[mid + 1]
         IN  CASE r.index + r.count <= k -> Search(C, k, mid + 1, end)
               [] r.index > k -> Search(C, k, start, mid)
               [] OTHER ->
                    <<r.range.ipLo + (k - r.index) \div r.portCount,
                      r.range.portLo + ((k - r.index) % r.portCount)>>

Index(C, k) == Search(C, k, 0, Len(C.inner))

-----------------------------------------------------------------------------
(* The session.                                                            *)

VARIABLES
    excludes,   \* the ranges exclude::load returned at startup
    scan,       \* the ranges this session's strategy generated
    compiled,   \* the CompiledRanges the session scans
    next,       \* the shared AtomicU64 index
    drawn,      \* shuffled indices drawn so far this session
    sent,       \* targets a SYN was sent to this session
    crashed     \* a scanner thread panicked, taking the process down

vars == <<excludes, scan, compiled, next, drawn, sent, crashed>>

Targets == Ips \X Ports

TypeOK ==
    /\ excludes \in Seq(IpRange)
    /\ scan \in Seq(Rect)
    /\ compiled.count \in Nat
    /\ next \in 0 .. compiled.count + ExtraTicks
    /\ drawn \subseteq 0 .. compiled.count - 1
    /\ sent \subseteq Targets
    /\ crashed \in BOOLEAN

\* exclude::load has succeeded at startup and main's loop has started its
\* first session (the same steps as NewSession).
Init ==
    /\ \E file \in ExcludeLists : excludes = Parse(file)
    /\ scan \in Strategies
    /\ compiled = Compile(Exclude(scan, excludes))
    /\ next = 0 /\ drawn = {} /\ sent = {}
    /\ crashed = FALSE

\* One iteration of main's session loop: select a strategy, generate its
\* ranges, exclude, compile, and start a session with a fresh index.  The
\* previous session has ended (its duration is not modelled, so a session
\* may end after any number of ticks).
NewSession ==
    /\ ~crashed
    /\ \E r \in Strategies :
         /\ scan' = r
         /\ compiled' = Compile(Exclude(r, excludes))
    /\ next' = 0 /\ drawn' = {} /\ sent' = {}
    /\ UNCHANGED <<excludes, crashed>>

\* Mutant: the shuffle is built over count + 1 values.
ScannerTickRngOverCount ==
    /\ ~crashed
    /\ next < compiled.count + ExtraTicks
    /\ next' = next + 1
    /\ IF compiled.count = 0
       THEN /\ crashed' = TRUE
            /\ UNCHANGED <<drawn, sent>>
       ELSE \E k \in IF next < compiled.count
                      THEN (0 .. compiled.count) \ drawn
                      ELSE 0 .. compiled.count :
              LET t == Index(compiled, k)
              IN  /\ drawn' = drawn \cup {k}
                  /\ IF t = OutOfBounds
                     THEN crashed' = TRUE /\ sent' = sent
                     ELSE sent' = sent \cup {t} /\ crashed' = FALSE
    /\ UNCHANGED <<excludes, scan, compiled>>

\* Mutant: the index is read but not advanced.
ScannerTickNoIncrement ==
    /\ ~crashed
    /\ next < compiled.count + ExtraTicks
    /\ IF compiled.count = 0
       THEN /\ crashed' = TRUE
            /\ UNCHANGED <<drawn, sent>>
       ELSE \E k \in IF next < compiled.count
                      THEN (0 .. compiled.count - 1) \ drawn
                      ELSE 0 .. compiled.count - 1 :
              LET t == Index(compiled, k)
              IN  /\ drawn' = drawn \cup {k}
                  /\ IF t = OutOfBounds
                     THEN crashed' = TRUE /\ sent' = sent
                     ELSE sent' = sent \cup {t} /\ crashed' = FALSE
    /\ UNCHANGED <<excludes, scan, compiled, next>>

\* Scanner::tick by any scanner thread: fetch_add on the index, shuffle,
\* index, send a SYN.  With nothing to scan, index panics whatever the
\* shuffle returns; the thread's expect panics, and thread::scope re-raises
\* it in main's session thread.
ScannerTick ==
    /\ ~crashed
    /\ next < compiled.count + ExtraTicks
    /\ next' = next + 1
    /\ IF compiled.count = 0
       THEN /\ crashed' = TRUE
            /\ UNCHANGED <<drawn, sent>>
       ELSE \E k \in IF next < compiled.count
                      THEN (0 .. compiled.count - 1) \ drawn
                      ELSE 0 .. compiled.count - 1 :
              LET t == Index(compiled, k)
              IN  /\ drawn' = drawn \cup {k}
                  /\ IF t = OutOfBounds
                     THEN crashed' = TRUE /\ sent' = sent
                     ELSE sent' = sent \cup {t} /\ crashed' = FALSE
    /\ UNCHANGED <<excludes, scan, compiled>>

Next == NewSession \/ ScannerTick

Spec == Init /\ [][Next]_vars

-----------------------------------------------------------------------------
(* Properties.                                                             *)

Image(r) == (r.ipLo .. r.ipHi) \X (r.portLo .. r.portHi)
ExcludedIps == UNION {e.lo .. e.hi : e \in Range(excludes)}
InScope == UNION {Image(r) : r \in Range(scan)} \ (ExcludedIps \X Ports)
CompiledImage == UNION {Image(c.range) : c \in Range(compiled.inner)}

\* Spec 8, Exclusion: the compiled ranges of a session are exactly the
\* strategy's rectangle minus every excluded address, for the exclude list
\* exclude::load produced.  This is about the sweep of
\* AddressRanges::exclude and the ranges compile keeps.
ExclusionSound ==
    /\ CompiledImage = InScope
    /\ compiled.count = Cardinality(InScope)

\* The first N ticks of a session send one SYN to each in-scope target, no
\* target twice and none outside the scope, and none panics.  This ties
\* exclude, compile's running index, index's binary search and
\* Scanner::tick's use of the shared counter together.
ScanCoversScopeOnce ==
    /\ sent \subseteq InScope
    /\ Cardinality(sent) = IF next < compiled.count THEN next
                            ELSE compiled.count
    /\ (compiled.count > 0 => ~crashed)

\* No scanner thread panics: every session has a target to scan.
NoScannerPanic == ~crashed

==========================================================================================================================================================
