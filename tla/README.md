# TLA+ models of farsight

farsight is a TCP banner scanner for Linux built on AF_XDP. It sends SYNs from
user space, completes the handshakes it gets answers for and parses the
Minecraft status banners it receives. This directory holds TLA+ models of its
concurrent core and its algorithms, the TLC configurations that check them,
and `PROJECT.json`, which maps every definition to the source lines it
models. Paths below are relative to `src/farsight/src/`, except the XDP
program's `src/farsight-ebpf/src/xdp.rs`.

## 1. The system

**Threads.**
- `Controller::guard` (`controller/mod.rs`) starts one *responder* thread per
  NIC queue, and one database writer thread.
- `main.rs` loops over *sessions*. Each `Session::start` (`controller/session.rs`)
  takes every sender left in the pool and runs a *scanner* thread on each. It
  runs a *completer* thread on every completion ring, plus a printer. It sleeps
  for the session duration, sets `done`, and the pool gets its senders and
  completers back.
- All threads are tight polling loops. None blocks.

**Rings** (`xdp/ring.rs`). Every AF_XDP socket has TX and RX rings. A socket
that owns a queue also has FILL and COMPLETION rings.
- Each ring is a single-producer, single-consumer queue in shared memory. Its
  u32 producer and consumer counters wrap.
- Each end keeps cached copies of the counters (`cached_prod`, `cached_cons`),
  which `Producer::free` and `Consumer::available` refresh only when they run
  short.

**UMEM** (`xdp/umem.rs`, `controller/xsk.rs`). All sockets share one UMEM of
`2·Q·R` frames, for Q queues and rings of R entries. Each user of frames gets
its own slice:
- the full socket's sender for queue q: `[2qR, (2q+1)R)`;
- its receiver: `[(2q+1)R, (2q+2)R)`;
- for q ≥ 1, a sender-only socket: `[(Q+q)R, (Q+q+1)R)`.

**Receive path** (`controller/receiver.rs`).
- `Receiver::new` gives all R receiver frames to the kernel on FILL.
- `receive` reserves one FILL slot, then peeks one RX descriptor.
- The `ReadGuard` it returns releases the RX entry on drop. It then writes the
  frame into the reserved FILL slot and submits it.

**Send path** (`controller/sender.rs`, `controller/completer.rs`).
- `Sender::new` writes a fixed descriptor and a packet template into each of
  its R frames. TX slot i always carries the same frame.
- `send` reserves one TX slot, patches the template (flags, address, ports,
  seq, ack, optional body, IP total length, checksums) and submits.
- `Completer::tick` drains one completion.

**Responder** (`controller/responder.rs`). Each `tick` handles one received
segment by its flags, in this order:
- RST: ignored.
- FIN: ACK or FIN|ACK it, and possibly forget the connection.
- SYN|ACK: check the SYN cookie, send the request payload, create connection
  state.
- ACK: accumulate data, parse it, and on a full banner send FIN|ACK and return
  a record.

Connection state lives in a map whose entries expire after the ping timeout.

**Scanner** (`controller/scanner.rs`). It takes the next value of a shared
atomic index, permutes it with `PerfectRng`, and maps it to an (ip, port)
target through `CompiledRanges::index`. It then sends a SYN whose sequence
number is the cookie.

**Ranges** (`net/range.rs`, `exclude.rs`).
- `exclude` subtracts the exclude list from the scan ranges in one merge
  sweep.
- `compile` assigns each range a base index and a count.
- `index` binary-searches the range that holds a global index.
- `exclude::parse` reads the exclude file into ranges in file order.

**Strategies** (`controller/strategy`). `StrategySelector::select` picks
exploit (everything, non-privileged ports) or explore (a random /n block
and port range) by an epsilon draw. `generate_ranges` gives the target
ranges.

**Protocol** (`controller/protocol/minecraft.rs`). `build_latest_request`
builds the Server List Ping request once. `SLPParser::parse` decodes
responses.

**XDP filter** (`src/farsight-ebpf/src/xdp.rs`). This in-kernel program
sees every received packet. It redirects a TCP segment to the queue's
AF_XDP socket only when the segment's destination port lies in
`[SOURCE_PORT_START, SOURCE_PORT_END]`. Everything else goes to the host's
own TCP stack. `main.rs` sets the two globals from `source_port_range`
before the program loads. `Sender::send` draws each SYN's source port from
the same range.

**Other parts** are listed in `PROJECT.json` with their status: the XDP
socket setup, the database and configuration.

## 2. Modules

| module | models | state | actions |
|---|---|---|---|
| `XskRing` | `Ring::new`, `Producer::{free,reserve,submit}`, `Consumer::{available,peek,release}`, `Index` | none (operators) | — |
| `RingQueue` | what a ring promises: a bounded FIFO (spec §8) | queue, sent, delivered | `Put(n)`, `Take` |
| `RingSPSC` | one ring driven from both ends the way `Sender::send` / `Receiver::new` produce and `Completer::tick` / `receive` consume | shared counters and slots, both handles, both threads' program counters, history | reserve, write, submit; peek, read, release |
| `Receiver` | `Receiver::new`, `receive`, `ReadGuard::drop`, against a kernel driver | FILL and RX shared state, the user's handles, frames inside the driver, the responder's position in receive/drop | kernel: take FILL / deliver / receive; user: reserve FILL, peek RX, release RX, refill |
| `WorkerPool` | `Controller::new`'s push order, `Controller::guard`, `Session::start`, and the frame spans of `Xsk::create` / `sender_only` | the three SegQueues as sequences, the handles each kind of thread holds, the session's `done` and main's phase | guard: spawn responder, return; session: start, spawn scanner / completer, printer, wake, thread exits, join |
| `RangeScan` | `exclude::parse`, the strategies (`SlashN`, `AllPortsNonPrivileged`, `RangedPorts`, `CombinedStrategy`) and the selector, `AddressRanges::exclude` / `compile`, `CompiledRanges::index`, main's session loop, `Scanner::tick` | the exclude ranges, the ranges this session's strategy generated, its compiled ranges, the shared index, the shuffled indices drawn, targets sent, whether a scanner panicked | `NewSession`, `ScannerTick` |
| `ScanSession` | `WorkerPool` and `RangeScan` composed as main runs them | both modules' variables | main's session loop and `Session::start` in one step; `Scanner::tick` only while a scanner thread holds a Sender; every other pool step |
| `Responder` | `Responder::tick` for one (ip, port) key, `SLPParser::parse` by outcome, the TTL map, the XDP filter's verdict, `Sender::send`'s IPv4 header and TCP checksum seed, against a TCP server that checks both | the connection map, records pushed, segments in flight each way, the server's send/receive state, the Sender's next TX slot and the IPv4 total length each TX frame holds, the network this behaviour runs over (with the source port range and the SYN's port) | one action per branch of `tick` (`OnRst`, `OnFin*`, `OnSynAck*`, `OnAck*`), `Expire`, `KernelReset` (a segment XDP passes to the host's stack); server: SYN-ACK, banner bytes, ACK, FIN, RST, abort on RST; network: loss, forged SYN-ACK |
| `BannerStream` | what the responder promises of one connection (spec §4.6): the bytes it holds are a run of the server's stream, kept, grown by the bytes after it or dropped; a record only with the whole banner | buf, from, records | `Drop`, `Start`, `Extend` |
| `Slp` | `write_varint`, `read_varint`, `build_latest_request`, `SLPParser::parse` (`controller/protocol/minecraft.rs`) on bytes | none (RECURSIVE operators) | — |

`WorkerPool` also models sending, as far as the pools are concerned:
- `pend` holds each Sender's TX descriptors that are submitted but not yet
  consumed by the kernel;
- `cr` holds each queue's COMPLETION entries. `Full(q)` and `Only(q)` share
  that ring, since `sender_only` binds with `XDP_SHARED_UMEM`;
- `sending` holds the Senders whose thread is inside `Sender::send`;
- `ticking` holds the completers that read `done` as false and are about to
  tick.

Actions:
- `ScannerTick` / `ResponderTick`: a thread enters `send`.
- `Send`: `reserve` succeeds, and the descriptor is submitted.
- `SendSpin`: the `reserve` loop turns on a full TX ring.
- `KernelTransmit`: the kernel moves a descriptor from TX to COMPLETION,
  only when COMPLETION has room.
- `CompleterCheck` and `CompleterTick`: `Completer::tick`'s `peek(1)` and
  `release(1)`.

Counters wrap at `2^CounterWidth` instead of `2^32`. `Add32` and `Sub32` are
`wrapping_add` and `wrapping_sub`. Wrap-around is therefore reached within a
few dozen steps, while the arithmetic keeps the same shape (R divides the
modulus).

### Refinement

`RingSPSC` instantiates `RingQueue` with:
- `queue` = the entries between the shared consumer and producer counters;
- `sent` = the number of items submitted;
- `delivered` = the items released, in order.

It checks `RingQueue!Spec` as a property, `RingImplementsQueue`. This single
property covers several things at once: no item is lost, duplicated or
reordered; the ring never holds more than RingSize items; the consumer gets
each item in order, across counter wrap-around.

### The kernel in `Receiver`

The driver is the environment. `Prefetch` selects its behaviour:
- FALSE (copy mode, or a generic XDP driver): a frame is taken from FILL only
  for a packet that is being posted on RX, in one step (`KernelReceive`).
- TRUE (a zero-copy driver stocking its hardware RX queue, the mode
  `xdp.mode = zero_copy` asks for): FILL frames are taken whenever FILL holds
  some (`KernelTakeFill`). Packets arrive into them later (`KernelDeliver`).

## 3. Runs

| run | result | what it shows |
|---|---|---|
| `ringspsc` | pass | `Rings` holds both ways the code drives a ring, and `Init` picks one: TX/RX-initialised handles with batches of 1, and FILL/COMPLETION-initialised handles with batches of 1 and R (as `Receiver::new` reserves R). The counter wraps in both. Checks `RingImplementsQueue` and `AllDelivered` |
| `receiver_drivers` | pass | both drivers, chosen per behaviour in `Init` (`prefetch`): under copy mode every receiver frame has exactly one owner (`CopyModeFramesConserved`) and every RX packet is eventually consumed (`CopyModeRxConsumed`); under either, `ReadGuard::drop` never writes a FILL slot the kernel may still read (`FillWriteOutsideKernelWindow`) |
| `receiver_frames` | **violation** | zero-copy mode: a frame is handed to the kernel twice |

### Finding: the leaked FILL reservation

`Receiver::receive` calls `fr.reserve(1)` before `rx.peek(1)`. When RX is
empty it returns `Err` through `?` and the reservation is kept. Any
`ReadGuard::drop` after that writes its frame into the newest reserved slot,
but `submit(1)` publishes the oldest unsubmitted slot, which still holds
whatever frame the kernel consumed there earlier.

- **Copy mode.** The kernel consumes FILL only when a packet arrives. The
  stale slot then holds the same frame that is being returned, so nothing
  shows, and `receiver_drivers` passes.
- **Prefetching driver** (`receiver_frames`). The published slot holds a frame
  the driver already has. One UMEM frame is posted twice, so two packets land
  in one buffer.
- **Accumulated leaks**. This has the same cause. `CopyModeRxConsumed`
  asserts RX progress only under copy mode, since the prefetching driver
  breaks it, and no run of its own keeps that trace. Once R reservations have leaked,
  `cached_cons - cached_prod` is 0 and re-reading `cons` cannot change that.
  `receive` then spins forever in its reserve loop while RX holds packets.
  This trace holds even with the driver fairly taking every FILL frame
  offered.

### The Responder and its server

`Responder` follows one target. The network is two FIFO sequences.
- **Reorder.** When it is set, `Tick` may take any segment, not just the head.
- **Duplicate.** When it is set, `Tick` may leave the segment in flight.
- **Lossy.** When it is set, either direction may drop a segment.
- **Forged.** When it is set, a SYN|ACK with an arbitrary ack may arrive.
- **Expiry.** When it is set, the TTL map may evict the entry at any time.
- **Source port.** Each network record also holds `source_port_range`
  (`window`) and the port the SYN drew (`sport`).
  - `XdpRedirects` is the filter's test. Both the header's `dest` and the
    globals are big-endian in memory and are read as little-endian u16
    (`LoadLE`).
  - `Tick` handles a segment only if the filter redirects it.
  - Otherwise `KernelReset` gives it to the host's stack. That stack has no
    socket on the port and answers with an RST (RFC 793).
  - An RST at exactly the server's next expected sequence number aborts the
    server (RFC 5961). The server then sends nothing more.

The server sends the banner bytes `Banner` one per segment from ISN+1 (the
ISN is chosen near 2^SeqWidth, so sequence numbers wrap). It retransmits
whatever is unacknowledged and FINs once all bytes are acknowledged.
`SLPParser::parse` is abstracted to its outcome on the accumulated bytes:
- Ok: they are the banner.
- Incomplete: they are a proper prefix.
- Invalid: anything else.

Every send goes through `Send`, which is `Sender::send`. It fills the TX
slot `txNext` (the ring's slots and frames are paired once, in
`Sender::new`). The frame keeps its IPv4 total length between sends, in
`txFrames`. A send with a body writes 48 + len. A send without one leaves
the old value. The header checksum is computed as the code computes it:
`finalize_checksum` of 50487 plus the two address sums, then, for a body,
`wrapping_sub(len)`. The TCP checksum is left to the NIC:
- `send` writes `raw_partial` of the TCP length (28 header bytes plus the
  body) into the checksum field (`RawPartial`).
- The TX metadata request `Sender::new` puts before each frame asks the NIC
  to sum from byte 34 and store the complement 16 bytes on (`TxCsumStart`,
  `TxCsumOffset`).

The server's IP layer checks each header against RFC 791 and RFC 1071
(`IpHeaderValid`). Its TCP layer adds its own pseudo-header to what the NIC
finished (`TcpChecksumValid`). The segment's words cancel out, so that check
compares the seed with the pseudo-header sum of the TCP length the IP header
gives. The server discards a segment that fails either check. `IpChecks`
turns both checks off on the two hostile networks of `responder_networks`. Loss,
or the forged and duplicated segments that crowd in-flight, already produce
every drop it would make there.

`Networks` is a set of network records, and `Init` picks one per behaviour,
so a single run checks several networks:
- `MCReliable`: perfect, three segments in flight, two TX frames, header
  checks on.
- `MCHostileNoLoss`: every fault but loss.
- `MCHostileInOrder`: every fault but reordering.
- `MCMisfiltered`: a lossy network whose SYN used port 50000, which the
  filter passes to the kernel.

All use `source_port_range` = [32768, 60999]. The other networks use
source port 40000, which the filter redirects.

Together the two hostile networks cover every fault alone and every pair but
loss with reordering. `MCHostileNoLoss` and `MCHostileInOrder` have two
segments in flight and one TX frame. The violation runs use
`MCReliableOnly` or `MCReliableMisfilteredOnly`.

**The parser on bytes** (`Slp`). `Slp` writes `minecraft.rs` byte for byte,
and `responder_networks` checks it alongside the responder:
- `read_varint` and `write_varint` keep to i32. `write_varint`'s
  `(value >> 7) & (i32::MAX >> 6)` is a floor division masked to 25 bits.
  `read_varint`'s fifth group keeps only the four bits that `<< 28` leaves.
- `RequestFramed`: every request the responder has on the wire is
  `build_latest_request`'s bytes (`Payload::build` hands out the bytes main
  built once). Those bytes are the handshake and status request of the
  protocol, with each VarInt the reference one (`RefVarInt`, built from
  the value's 32 bits).
  - The hosts need a one-byte and a two-byte string length.
  - The protocol versions sit at every VarInt length edge, negative ones
    included.
- `ParserAbstractionSound` ties `Slp` to `Responder`. The banner is spec
  scenario 4's 137-byte status JSON, framed and split at 64 bytes as in
  scenario 5. In every state, `SLPParser::parse` of the responder's
  accumulated bytes gives an outcome `ParseOutcomes` allows, and so does
  its parse of those bytes followed by any segment in flight. The
  abstraction is therefore sound for what the responder accumulates.
  The responder's own parses use only one- and two-byte VarInts.
- `VarIntsRead` reaches `read_varint`'s five-byte edge. The reference
  VarInt of each sampled i32 is read back, with a byte after it left
  unread, and the same VarInt cut short is Incomplete. The samples include
  every negative value, 2^28 and `i32::MAX`. A loop of four bytes
  (`ReadGroupsFourBytes`) breaks it.

| run | result | what it shows |
|---|---|---|
| `responder_networks` | pass | over the perfect network the responder never acknowledges banner bytes it has not recorded and every server is eventually recorded; on all four networks the accumulated data is always the server's bytes ending at `next_expected_seq`, and the responder implements `BannerStream` (`ResponderImplementsStream`); the parser properties of `Slp` above (`RequestFramed`, `ParserAbstractionSound`, `VarIntsRead`). The server checks both checksums, so on the perfect network `BannerEventuallyRecorded` also depends on the TCP checksum seed |
| `responder_records` | **violation** | a second record for one handshake |
| `responder_xdpfilter` | **violation** | a reply to source port 50000 misses the XDP filter, and the kernel's RST ends the connection |
| `responder_header` | **violation** | a TX frame reused for a bare ACK still claims the request's IPv4 total length |

**The responder's promise** (`BannerStream`). `ResponderImplementsStream`
instantiates `BannerStream`. Its `buf` is `State.data` once the first
segment has been accepted, and `<<>>` before that. Its `from` is where
`next_expected_seq` says that data starts. So the invariant
`AccumulatedDataMatchesSeq` becomes a statement about steps:
- From one tick to the next, the data is kept, grown by the bytes that
  follow it, or dropped.
- A record is pushed only in a step that leaves the whole banner held.
  The repeated record of the finding below is allowed, since the banner is
  still held.
- A parser that accepted a buffer one byte short would break it
  (`ParseOutcomesShortByOne`).

**Finding: duplicate records** (`responder.rs:212`). The early return for a
pure ACK tests `data.is_empty()` on the whole frame, which is never empty. It
should test the TCP payload. After `Ok` the state is kept in the map. The
server's ACK of our FIN is in sequence, so the same bytes are parsed again, a
second `Record` is pushed and another FIN|ACK is sent. Spec scenario 4 says
one record.

**Finding: the XDP filter compares byte-swapped ports**
(`src/farsight-ebpf/src/xdp.rs:66`, with `main.rs:72-81`).
- `main` stores `source_port_range[0].to_be()` and `[1].to_be()` in the
  globals. The filter compares them with `tcphdr.dest`, which is also in
  network order. All three are read as native u16.
- On a little-endian host each value is byte-swapped, and the swap does not
  preserve order.
- With `[32768, 60999]`, the window becomes `[0x0080, 0x47EE]`. A SYN that
  drew port 50000 (0xC350, read as 0x50C3) gets a SYN|ACK that the filter
  passes to the kernel. The kernel's RST aborts the server's connection, and
  `BannerEventuallyRecorded` fails over a perfect network.
- By the same arithmetic, every port whose low byte is above 0x47 is lost
  this way. Foreign ports with a low byte in range, such as 22 (read as
  0x1600), are redirected away from the host's stack. The run shows only
  the first effect.
- Spec 4.3 says the window is inclusive and is taken on the destination
  port.

**Two probes of one target share a State** (`responder.rs:185`, a
hazard). The map key is the peer's (ip, port). Each SYN draws its own
source port, and the cookie ignores it. A re-probe of a target is
therefore a second TCP connection with the same key and the same cookie,
and its SYN|ACK replaces the first connection's State. `Responder` follows
one connection per key, so no run reaches this.

**The first segment is matched by ack only** (`responder.rs:218`, a
hazard). The first data segment's `seq` is never checked. If the server's
first segment is lost, the second is taken as the start of the banner. The
Incomplete ACK then covers the lost bytes, so the server never retransmits
them, and the connection never completes.
- `MCResponder_lostbyte.cfg` checks `BannerAckedOnlyIfRecorded` over a
  network that only loses segments, and TLC finds the trace.
- It is not one of the project's runs. Spec 4.6 describes the ack-only
  match, and the run limit went to the XDP finding.

**Finding: stale IPv4 total length** (`sender.rs:158`). A retransmitted
SYN|ACK makes the responder send its request twice, once from each of the
two TX frames. The next bare ACK reuses frame 0. `send` writes no total
length without a body, so the header still says 48 + request length, while
the frame carries 48 bytes of IP. Its checksum, computed for 48, fails too.
The server drops it. With a real ring this happens to every frame once it
has carried a request. From then on the responder's ACKs and FIN|ACKs are
all discarded.

**Checksum at the edge** (`sender.rs:157`, a hazard). `wrapping_sub` is a
two's-complement subtraction. When the no-body checksum is below the body
length, the one's-complement result should be one lower. With a peer whose
address words sum to 12487 (48.198.0.1, from 10.0.0.1), TLC finds
`SentHeadersValid` violated by the first request sent.

**The TCP checksum seed** (`sender.rs:168`, a hazard covered by
`BannerEventuallyRecorded`). `len` starts at 28 and grows by the body only
on the with-body path. A seed computed over the header alone makes the
server drop the request, and then no banner ever comes: TLC finds the
liveness violation on the perfect network.

**The UMEM registration fallback** (`xsk.rs:38`, a hazard no run covers).
- When `set_umem_reg` refuses `XDP_UMEM_TX_METADATA_LEN`, `Xsk::create`
  retries without flags and goes on.
- `Sender::new` still marks every descriptor `XDP_TX_METADATA`, and `send`
  still writes only the seed into the checksum field.
- Without TX metadata there is no offload, so no SYN or request leaves with
  a valid TCP checksum.
- The models assume the offload, as `TcpChecksumValid` does. A network
  without it would fail `BannerEventuallyRecorded`, which would need a
  violation run of its own.

### The worker pools

`WorkerPool` names each Sender by its socket: `Full(q)` or `Only(q)`. Its
frame span is the one `Sender::new` is given.

**Checked properties:**
- `SenderOwnership`: every Sender is in exactly one place.
- `EverySessionScans`: a sleeping session has a scanner.
- `SessionRestoresPool`: a session gives back every Sender it took.
- `SendCompletesWhileCompleting`: a thread inside `Sender::send` gets out
  of it while its queue's completer polls. This is checked under
  `AnyLengthSpec`, which drops the fairness of `Wake`, so it holds for
  sessions of any length, a session that never ends included.
- `LiveFramesDisjoint`: no two live writers of UMEM frames share one. The
  writers are threads holding Senders and the kernel filling each
  Receiver's frames.

| run | result | what it shows |
|---|---|---|
| `pool_tx` | pass | Q = 2, R = 1: sends, the kernel's transmit and the completers on rings of one entry; Sender ownership holds and every send completes while the completer of its COMPLETION ring polls |
| `pool_stuck` | **violation** | Q = 2, R = 1: a session never joins |
| `pool_frames` | **violation** | Q = 2: the scanner's sender-only frames are receiver 1's FILL frames |

**Finding: a session that never ends** (`session.rs:107`). This is
`pool_stuck`.
- A completer thread leaves its loop as soon as it reads `done`, whatever
  its COMPLETION ring still holds.
- A scanner that read `done` as false just before is inside `Sender::send`.
  It spins in `tx.reserve(1)` because its TX ring is full.
- The kernel consumes TX only into free COMPLETION entries. The COMPLETION
  ring is shared with the queue's full socket, and it is full.
- Nobody releases COMPLETION again until the next session's completers
  start. That session is never reached, because `thread::scope` waits for
  the spinning scanner. The session never joins, and the process scans
  nothing more.
- Spec 4.8 says a session ends after its duration and gives the Senders
  back.

**Finding: overlapping frame slices** (`xsk.rs:130`).
- The sender-only socket of queue q starts at frame `(Q+q)·R`. That frame is
  inside the slices of the full sockets, and the UMEM has only `2·Q·R`
  frames (`mod.rs:148`).
- With Q = 3, the responder on receiver 2 holds `Only(1)`, whose frames are
  `Full(2)`'s, and a scanner holds `Full(2)`.

**One queue scans nothing** (`mod.rs:238`, a hazard in `PROJECT.json`).
`guard` runs once, before any session, and takes a Sender per receiver.
With `QueueCount = 1` none is left for the sessions, and TLC finds
`EverySessionScans` violated. No run is kept for that configuration.

### The scan path

`RangeScan` writes the pure parts as operators:
- `Sweep` is the `exclude` loop, with one CASE arm per branch.
- `CompileFrom` is `compile`.
- `Search` is the binary search of `index`.

Around them is main's session loop. The shuffle (`PerfectRng`, an external
crate) is taken as spec 4.7 describes it, a bijection of `[0, N)`. The first
N ticks therefore draw each index once, in any order.

**Checked properties:**
- `ExclusionSound`: spec 8, Exclusion, checked against set semantics.
- `ScanCoversScopeOnce`: after k ≤ N ticks, exactly k distinct in-scope
  targets have been probed.

| run | result | what it shows |
|---|---|---|
| `range_panic` | **violation** | an explore block inside an excluded range: N = 0, and the first tick panics |

**Finding: scanning nothing panics** (`range.rs:194`).
- `select_explore` picks blocks as small as a /32.
- One inside an excluded range compiles to no targets.
- `Session::start` spawns scanners anyway.
- `index` on empty ranges panics, and `expect("ticking scanner")` re-raises it.
- The session's `thread::scope` re-raises the panic in main's session-loop
  thread (`main.rs:127`). That ends scanning for good. The responder threads
  of the outer scope loop forever, so that scope never joins and the process
  neither exits nor scans again; no profile sets `panic = "abort"`.
- What `PerfectRng::new` does with N = 0 is outside this repository; the
  model lets the tick draw any index, and `index` panics on every one.

### The session: pools and scan together

`ScanSession` instances both modules on their own variables. Main's loop
compiles the ranges and calls `Session::start`, so `RangeScan`'s
`NewSession` and `WorkerPool`'s `SessionStart` are one step. A tick happens
only while some scanner thread holds a Sender. That includes the window
after `done` is stored and before the thread reads it. A panic ends the
session loop: no step of either module follows it. The `range_panic`
finding is that panic.

| run | result | what it shows |
|---|---|---|
| `scan_session` | pass | Q = 3 pools scanning exclude-filtered 2-bit spaces: `SenderOwnership`, `EverySessionScans`, `ExclusionSound` and `ScanCoversScopeOnce` on the composition |

**Unsorted exclude files.** `exclude::parse` keeps file order, while the
sweep assumes ascending ranges. With `<<3, 1>>`, TLC finds `ExclusionSound`
violated. This is a hazard in `PROJECT.json`. The spec's 4.7 speaks of an
ordered list, so no run asserts the unsorted case.

## 4. Bounds

- **R = 2, CounterWidth = 3.** The counters wrap at 8, i.e. every 4 laps of
  the ring, and both ring runs wrap at least once. R = 2 is the smallest ring
  in which a slot other than the next one can be reserved, published or
  stale.
- **MaxItems = 10** in `RingSPSC`. The producer stops there, which is why
  those cfgs set `CHECK_DEADLOCK FALSE`.
- **Receiver** is unbounded in time but has finitely many states, because the
  counters wrap.
- **WorkerPool**: Q = 3 is the smallest queue count with more than one
  scanner and a sender-only socket paired with a responder. Q = 2 and Q = 1
  are the smallest that show the two findings. The state space is finite
  without a session bound, since the pools cycle, so deadlock is checked.
- **ScanSession** multiplies the two spaces: 122,499 states in about 20 s.
  Its senders send in the tick that draws a target, and the TX and
  COMPLETION rings stay empty there: those rings are `WorkerPool`'s own
  runs.
- **pool_tx / pool_stuck**: Q = 2 gives one queue with both a full and a
  sender-only socket sharing a COMPLETION ring. R = 1 fills a ring with one
  send, so the full-ring cases of `reserve` and of the kernel occur within
  a few steps.
- **RangeScan**:
  - 2-bit addresses and two ports.
  - Blocks /0 to /2 and every port range.
  - Exclude files covering every entry kind, including /0, whose mask
    computation wraps, and overlapping entries.
  - Every branch of the sweep is reached: a scan range before, after,
    containing, partly overlapping and inside an exclude range.
  - `ExtraTicks = 1` lets a session run past N.
  - A panicking scanner ends the session loop for good, so that cfg sets
    `CHECK_DEADLOCK FALSE`.
- **Responder**: `responder_networks` reaches 209,816 states in about 60
  to 70 seconds. The checksum fields are functions of the rest of a
  segment, so they add no states.
  - Source ports 40000 and 50000: one inside the filter's swapped window,
    and one outside it.
  - SeqWidth 4 with ISN 14: the banner's sequence numbers wrap.
  - A 2-byte banner: the smallest that has a strict prefix, so Incomplete
    can occur.
  - `MaxInFlight` 2–3 segments per direction.
  - `TxSize` 2: the smallest ring in which a frame is reused after a
    different send. The hostile networks use 1, since their header check
    is off and the frames then matter to nothing checked on them.
  - `MaxRecords` 2: the count saturates there, which is enough to tell
    one record from two. Once the exchange is over nothing is enabled, so
    these cfgs set `CHECK_DEADLOCK FALSE`.

## 5. Fairness

- Every thread of the program is a busy polling loop on its own thread, and
  none blocks (spec §5). Weak fairness on each user action is therefore what
  the code guarantees.
- In `Receiver`, the driver is assumed to keep taking FILL frames while FILL
  holds some (weak fairness on `KernelTakeFill`).
- In `WorkerPool`, every step of main's session thread and every thread's
  exit after `done` is weakly fair. They are plain code, or busy loops
  checking `done`. So are a completer's two steps and a successful `Send`.
- The kernel's transmit of a socket whose thread is inside `send` is
  *strongly* fair. That thread repeats the `sendto` kick on every turn of
  its `reserve` loop. Two sockets share a COMPLETION ring, so a transmit
  is enabled only now and then, and weak fairness would let the other
  socket take every free entry.
- A socket nobody is kicking gets no fairness, and neither do the scanners'
  and responders' ticks. The kick comes before `reserve`, not after
  `submit` (`sender.rs:99`, a hazard).
- In `Responder`, `Tick`, `KernelReset` and the server's receive, SYN-ACK,
  ACK and per-byte send are weakly fair. The responder polls forever, the
  host's stack processes what XDP hands it, and a live server retransmits. The network actions and `Expire` are not fair.
- Packet arrival is never assumed. Liveness properties only speak of packets
  that have already arrived.

## 6. Plan and what is not yet modelled

Open, in the order they would be taken up:
1. A FIN carrying the last banner bytes (`responder.rs:103`). The modelled
   server sends its FIN separately.
2. Frame-level TX in zero-copy mode (`sender.rs:103`). `KernelTransmit`
   consumes a descriptor and completes it in one step. The window in which
   `send` may rewrite a frame the NIC is still reading is therefore not
   represented.
3. A property that every submitted descriptor is eventually transmitted
   (`sender.rs:99`). The fairness above already leaves this case open.
4. The scanner's SYNs from sender-only sockets, and the UMEM registration
   fallback without TX metadata (`xsk.rs:38`).
5. The responder's sends in `ScanSession`. Its TX completions are polled
   only by session completers, so between sessions its TX ring can fill and
   `send` spins. `WorkerPool` models this (`ResponderTick`), with no
   fairness for it.

Not modelled, and why:
- Socket, mmap, netlink, ethtool, aya and eBPF loading: pure I/O. Of the
  TX metadata, only the offsets the checksum offload uses are modelled.
- The configuration file (`config.rs`) and `SharedData`. These are
  deserialised, immutable values, which the models take as constants
  (`source_port_range` as `window`, `ring_size` as `RingSize`, the SLP host
  and protocol version as `Slp`'s samples).
- The XDP filter's non-IPv4 and non-TCP branches never see a reply to us.
  A failing redirect (no socket in `SOCKS`) is not modelled either.
- Logging, the printer's output format, the database and its MongoDB calls.
- serde_json. `ParserAbstractionSound` takes the server's status JSON as
  the one well-formed document.
- The `needs_wakeup` / `recvfrom` kick of the receive path. It changes no
  ring state the model tracks.
