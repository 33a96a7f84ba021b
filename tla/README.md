# TLA+ models of go-dpdk

go-dpdk binds the DPDK libraries to Go.  Most of its packages are thin wrappers,
and the code with a life of its own is where Go and DPDK threads meet: the
executor that runs Go functions on EAL threads, the pipeline loop and the
controller that stops it, the C memory that nearly every call allocates and
frees, rings and the registry of callbacks, parsing and editing of packets in an
mbuf, and the sniffer application that puts ports, queues, lcores, pools and
statistics together.  This directory models those parts, checks them with TLC and
proves the main safety properties with TLAPS.

## 1. Inventory

| Part | State | Operations | Hard behaviour | What makes it correct |
|---|---|---|---|---|
| `eal` executor | `goEAL.lcores`, per lcore a buffered job channel and `done`; the WaitGroup of `Init`; `ealOnce` | `Init`, `InitOnce`, `ExecOnLcore[Async]`, `ExecOnMain[Async]`, `StopLcores`, `Cleanup`, `lcoreFuncListener` | goroutines and EAL threads interleave; full channels block; panics; functions that never return | `Init` returns with every lcore listening; nothing runs after `StopLcores`; every call gets its own result |
| `pipeline` loop | loop counter, stop byte in C memory | `RunLoop`, `run_pipeline_loop`, `NewSimpleController`, `Stop`, finalizer | stop flag shared by several loops, garbage collector frees the byte, counter wraps | flush every `flush` rounds; `Stop` ends every loop soon, with nothing left unflushed; no use after free |
| `mbuf` | `data_off`, `data_len`, `pkt_len`, `packetStructSize` | `PrependMbuf`, `AppendMbuf`, `AdjMbuf`, `TrimMbuf`, `PktMbufAppend`, `PktMbufReset`, `ResetAndAppend` | fixed-width arithmetic that wraps | the packet stays in its buffer and off the packet structure; the lengths agree |
| `ethdev` statistics and `app/test-sniffer` `Stats` | two snapshots and the Prometheus counters of every port | `StatsGet`, `Diff`, `XstatGetByID`, `StatsReset`, `Report` | traffic while reporting, reads that fail half way, resets | counters never exceed the events, a failed report loses nothing |
| `app/test-sniffer` setup | mempools, device configuration, lcores left per NUMA node | `newApp`, `NewMempoolPerPort`, `Configure`, `DistributeQueues` | any step may fail, ports compete for lcores, ids with holes | every queue has exactly one lcore of its node; a refusal is justified; devices start ready |
| `app/test-sniffer` workers | burst, transmit buffer, queue counters | `LcoreFunc`, `RxBurst`, `TxBuffer`, `TxBufferFlush`, `PktMbufFree`, `Incr` | ownership of mbufs over a dozen paths, shared pool | each mbuf has one owner, order is kept, nothing is stuck |
| `packet` | a Packet's pointers into the data of an mbuf, and the data | `ParseL2` to `ParseData`, `VxlanDecap`, `InitEmpty...`, `EncapsulateHead` and its siblings, checksums | header lengths that come from the packet, byte order, carries, pointers that go stale | every pointer is at its header, length fields and checksums are what a receiver computes, editing keeps the other bytes |
| `ethdev/flow` | Go items and actions, each with C memory of its own, rules of a port | `Reload`, `Create`, `Validate`, `Query`, `Destroy`, `Flush`, finalizers | the garbage collector frees C memory while a rule is built; structs are changed and used again; a panic half way | the driver reads memory that is allocated and up to date; what is allocated is freed once |
| `pipeline` ports and tables | the ports, tables, entries and counters of a pipeline; the ids its owner holds | `Create`, `PortInCreate`, `PortOutCreate`, `TableCreate`, `ConnectToTable`, `Enable`, `Disable`, `Check`, `Run`, `TableEntryAdd`, `TableEntryDelete`, `...StatsRead`, `Free` | any creation may fail, ids and errors are returned side by side | the owner's ids, entries and counts are those of the pipeline |
| `port`, `table`, `common` allocators, and all calls with C arguments | C memory, `AllocatorSession.ptrs`, `rte_errno` of every thread | `Transform` and its destructor, `Malloc`, `Realloc`, `Free`, `Flush`, `RteErrno`, creation and lookup of mempools, memzones, rings, LPM and ACL objects | panics between allocation and release, goroutines that change threads | what C reads is live, every block is freed once by its owner, the caller is told of its own failure |
| `common` registry, `mempool.Walk`, `ObjIter`, `memzone.Walk` | registered callbacks, the lock of the list of mempools | `Create`, `Read`, `Delete`, iteration | overlapping iterations, identifiers that are used again, panics in callbacks | each callback is the one of its own call |
| `ring`, `mempool`, `app/ring` | object table, cursors, objects held by threads | `Create`, `New`, `NewEAL`, `Enqueue...`, `Dequeue...`, `AllocResetAndAppend`, `PktMbufFreeBulk`, `Free` | producers that overtake each other between reservation and publication, cursors that wrap | a bounded queue; no mbuf is lost |
| `lcore` | channel of a locked thread | `Exec`, `Gettid`, `Close` | closing under callers | a job stays on its thread |
| `memzone`, `lpm`, `acl`, `hash`, `mem`, `types` | that of the C library | wrappers | | |
| `util`, `app/dpdk-exporter`, examples | | receive buffer, metrics | | |

The components interact by calls and through shared state: the sniffer runs
`SnifferSetup` on the main goroutine, hands one worker per queue to the executor
with `ExecOnLcoreAsync`, and reports statistics from a ticker.  `StopLcores` and
`Cleanup` are deferred in `main`.  `RunLoop` is called from functions submitted
to the executor.  Packets are parsed and edited in the mbufs that workers receive,
and travel through rings between lcores.  Every creation of a C object runs
through the same pattern of allocation, call, release and `rte_errno`.

Modules compose by `EXTENDS`:

    Registry <- ObjArray --+                 MbufData --+
                           +- RingApp                   +- Packet
    BoundedFifo <- Ring ---+                 Checksum --+

    CMemory -- CCalls -- PipelineBuild       (<- : is implemented by)

## 2. Modules

**`Executor`** (`eal/eal.go`, `eal/init.go`, `eal/init_once.go`).  A caller is a
goroutine; `pc[c]` says whether it is outside the package, in `wg.Wait()`, about
to send a job or waiting for a result.  `ipc[c]` is the goroutine that `Init`
spawns, which turns into the main lcore.  `lpc[l]` walks through
`lcoreFuncListener`: launched, waiting for a job, running it, reporting, testing
`done`.  One action is the code between two operations another thread can see.
`ExecOnLcore` and `StopLcores` consist of the call, one `SendJob` per lcore and one
`ReceiveResult` per lcore; sends block on a full channel exactly as in Go.
Submitted functions return, panic or never return (`Fns`).  Results and jobs carry
the call they belong to, so that a result which went to the wrong call would be
seen.  `DrainAsync` is the goroutine of the application that reads the channel it
passed to `ExecOnLcoreAsync`.  `Cleanup` is called by a caller whose `StopLcores`
has returned, which is the order of the deferred calls in the applications.
`MapReadable` states the assumption about `goEAL.lcores`, a map without a lock:
nobody submits jobs at the very moment `ealLaunch` fills it.

**`PipelineLoop`** (`pipeline/pipeline_loop.go`, `.h`).  Words are `W` bits wide,
and the loop counter and `flush - 1` wrap as `uint32_t` does.  Several pipelines
watch one `SimpleController`.  `Drop` is the last use of the controller by its
owner, `Finalize` the finalizer that frees the byte; after that `simple_control`
reads an arbitrary byte.  `KeepAlive` says whether the owner keeps the controller
until the loops have returned.  `since` and `late` are histories of the properties.

**`PortStats`** (`app/test-sniffer/stats.go`, `ethdev/stats.go`).  One action per
port and part of `Report`; traffic, resets and failed reads come in between.
`total` is the history the Prometheus counters are compared with, `dropped` the growth
from zero that `Diff` leaves out.

**`MbufData`** (`mbuf/mbuf.go`).  All operations on a single-segment mbuf with the
widths of the C fields as parameters `U16` and `U32`; a Go length is truncated
where the code truncates it, and `Lengths` holds lengths that lose bits there.
`overrun` remembers that bytes were copied behind the buffer.

**`SnifferSetup`** (`app/test-sniffer/{init,port,mempool,util,lcores}.go`).  The
initial state leaves the machine and the flags open; each step succeeds or fails.
The loops over port ids, ports, queues and worker lcores (`NewMempoolPerPort`,
`ListPorts`, `RxqSetup`, `dissectLcores`, `DistributeQueues`, ...) take one step per round.
`HairpinQueueSetup` may stop half way without anybody noticing, as its result is
ignored.

**`SnifferWorker`** (`app/test-sniffer/lcores.go`, `queue_count.go`,
`ethdev/rxtx.go`).  Packets are numbered and have a kind; rewriting a packet is the
change of kind.  A neighbour solicitation whose advertisement has no option makes
the worker panic (`PacketPanic`), which ends the process (`alive`).  Receive ring, transmit ring and the transmit buffer belong to
DPDK and are modelled as the code uses them.

**`FlowRule`** (`ethdev/flow`).  An object is an item or action, a pair of its Go type
(its kind) and a number; `Always`, `Optional`, `Lost`, `Inner` and `Renewed` say for each
kind which fields `Reload` copies, copies if they are not empty, never copies, keeps
in embedded structs, or copies into a new block; `Swapped` are numbers copied in host
order where the driver reads network order (`HostOrder` is how such a number reads).  `Call`, one `ReloadNext` per object, `CallC`
and `CreateOK` or `Return` are `Create` and `Validate`; `Drop` is the last use of an object by
the application and may fall into the call, `Collect` the collector with the
finalizer.  `KeptAlive` is what `runtime.KeepAlive` protects.  The C structs of
`ActionSample` and `ActionVxlanEncap` point to an array in Go memory that nothing else
refers to; `CollectArray` takes it at any time after `Reload`.  A driver that reads memory
which is gone may see any value.

**`CMemory`** (`common/allocator.go`, `allocator_std.go`).  The heap as a map from
addresses to the goroutine that allocated them, and the sessions.  `wrong` remembers
that `free` was given an address its caller does not own.  cgo's `malloc` never returns
NULL; `realloc` may, and with size 0 it frees and returns NULL.  A session made from a session uses the allocator below it, so
sessions are not nested.

**`CCalls`** (`port`, `table`, and the creating and looking-up functions of `pipeline`,
`mempool`, `memzone`, `ring`, `lpm`, `acl`, `ethdev`, `eal`).  A call is what it
allocates (`Args`), what it builds and how it reports a failure (`reports`): by the number C
returned, by `rte_errno`, by a nil handle without a reason (`port` and `table` creation),
or not at all (`RegisterTelemetryLSC`).  `Errno` is the Go value a number becomes: nil,
a variable of `common`, or a fresh error made of the number and its text.  Its steps are
`Prepare` (or `PreparePanics`), `EnterC`, `LeaveC`, `ReadErrno` and `Release`; a goroutine enters
C on a thread of `MayRunOn`, which is its own if it is locked to one.  Functions that
use C memory in the same way are one element of the sets of calls, so that
the dozens of functions cost no more states than there are ways to use memory.

**`PipelineBuild`** (`pipeline/pipeline.go`, `port.go`, `table.go`, `stats.go`).  `pl` is the C
structure, `view` what its owner was told.  `Build`, `BuildLeaveC` and `BuildReturn` are the
four creating functions on top of `CCalls`; the other operations take no C memory
and are one step each.  Other goroutines make their calls and use sessions in
between.  An owner runs its pipeline after `Check` has succeeded.

**`Ring`** (`ring`) and **`BoundedFifo`**.  `Enqueue` and `Dequeue` reserve by moving the head,
`EnqueueDone` and `DequeueDone` copy and move the tail when it is their turn.  Cursors are
words of `Word` values, a multiple of every table size as 2^32 is, and a count is converted
to such a word first (`cuint`), so that it may become 0, which passes for a power of
two.  A ring knows for how many slots there is memory, which `GetMemSize` rounds up to whole
cache lines of `Line` pointers, apart from the size of its table.  The `Sp`/`Sc` forms and `OptSP`/`OptSC` are a promise of the
caller that there is one producer or consumer; they take the same steps.
`BoundedFifo` is the queue a user of the ring relies on: `IsFifo` states that `Ring`
implements it, with the published slots as the queue.

**`ObjArray`** (`common/objects.go` with its callers) and **`Registry`**.  Each method holds the
mutex throughout and is one step.  `Registry` says that a callback reads the function
its own call registered; `ReadsOwn` states that `ObjArray` implements it.

**`RingApp`** (`app/ring/main.go`, `mempool`, `mbuf`).  `app/ring`, generalised to several
producers whose messages are mbufs from a mempool, while other goroutines walk
the list of mempools.  The list is locked for reading during `Walk` and for writing
while a pool is created or freed.  A callback that panics leaves the lock taken
(by `"nobody"`) and, in `Walk`, the registration behind.  When the pool cannot be created
the program ends.

**`Checksum`** and **`Packet`** (`packet/packet.go`, `checksum.go`, `icmp6.go`).  `Packet` puts cells
into the buffer of `MbufData`: the first cell of a header holds the fields the code
looks at.  A Packet is its pointers.  A frame is received (any nesting, options,
protocol) or made by one of the `InitEmpty` functions; then it is parsed, edited or
summed.  `Starts` and `Counts` are the positions and numbers of bytes of the functions that
insert and remove; they count from `L2`, wherever it points, and `stray` remembers a write
outside the buffer.  `Checksum` is the arithmetic over words of `B * B` values; `SumTo` is what
a loop adds up, without the wrap of `uint32`, which the theorem `SumsFitUint32` justifies.
A reference definition of what a receiver computes (`Verifies`) stands beside it.

The `MC*` modules instantiate these for TLC; `*Proofs` hold the theorems.
Definitions whose comment begins with "Mutant" are wrong variants of the one
below them.  They are not part of any specification: replacing the definition by
its mutant must make the property it is paired with in `PROJECT.json` fail, which
shows that the property depends on that piece of code.

## 3. Runs

| Run | Instance | Shows |
|---|---|---|
| `ExecutorSafety` | 2 callers with 2 calls each, 2 lcores, buffer 1, channel of capacity 1, panics caught | `InitComplete`, `QuietAfterStop`, `ReportNeverBlocks`, `ResultFaithful` |
| `ExecutorLiveness` | the same without asynchronous calls, functions may hang, panics end the process | `CallReturns`, `InitReturns` |
| `PipelineLoop` | 2 pipelines, 2-bit words, `flush` 1, 2 and 3 (refused), every kind of controller | `FlushEvery`, `ReturnsFlushed`, `StopsWithinFlush`, `StopReturns` |
| `PipelineBuild` | a builder and a locked goroutine on 2 threads, 3 blocks of C memory, 2 error numbers, 1 port or table of a sort | `CReadsLive`, `FreesOwned`, `NothingLeaks`, `LockedTold`, `ViewRight` |
| `RingApp` | 2 producers, 1 consumer, 2 mbufs, counts 2 and 7 (3 when converted, which needs `OptES`), cursors of 4 values, 2 goroutines that iterate | `IsFifo`, `ReadsOwn`, `MbufsAccounted`, `Delivered` |
| `Packet` | 4-bit and 6-bit words, buffer 15, headroom 3, headers of 1 to 3 cells, payloads of 0 and 3 bytes, bytes of 2 bits, lengths below, at and above the largest word | `DataInside`, `StructKept`, `CopiesFit`, `MovesExactly`, `ParsedRight`, `BuiltRight`, `ChecksumVerifies`, `EditsExact`, `EditsInside` |
| `PortStats` | 2 ports, 3 events each, 1 reset | `FirstPortSound`, `XstatsSound` |
| `SnifferSetup` | up to 2 ports, 3 workers, 2 nodes, 0 to 2 queues, hairpin queues | `AllQueuesServed`, `StartedReady`, `PolledReady` |
| `SnifferWorker` | 2 workers, 3 mbufs, burst 2, transmit buffer 2, 3 packets | `OneOwner`, `OrderKept`, `ReturnsToPool` |
| `FlowRule` | actions of type `ActionMacSrc`, `ActionRSS` and `ActionSample`, an `ItemVXLAN`, 2 rules, 4 blocks of C memory | `NoUseAfterFree`, `BlocksOwned`, `NothingForgotten`, `PlainExact` |
| `ErrnoThread` (violation) | `PipelineBuild` with no goroutine locked to its thread | `FailureTold` fails: the error is read on another thread |
| `RingExact` (violation) | 1 producer, 1 consumer, counts 2 and 8, 8 pointers in a cache line | `SlotsInMemory` fails: slots behind the memory |

*Why the bounds are enough.*  Two callers and two lcores give every order of two
jobs on one lcore and of one call on two lcores; a job buffer of one makes the
buffer full after one job, so blocked senders are reached with few calls.  In
`PipelineLoop` the counter wraps after four rounds, and with two pipelines one can
end while the other runs.  In `PortStats` two ports are what a stale delta needs,
three events let a field be zero, have a first and a later delta; a reset shows
counters that fall.  In `Packet` a word has 16 values and the buffer
fills it but for one, so that the comparisons and subtractions of the code are reached
with values close to their wrap; `AllLengths` adds lengths that become 0, a few and the
largest value when they are converted.  That larger words behave alike is what the
theorems say, not the run.  The buffer holds a tunnelled TCP packet with options only just, so that
other frames leave room for edits; payloads of no and of an odd number of bytes,
with every content, are what the checksum could get wrong, and `MaxEdits` = 1
suffices for `EditsExact` and `EditsInside`, which are about one step from any parsed packet
whose `L2` is the start of the data.  In
`RingApp` two producers can overtake each other, the cursors wrap after four
objects, a count of 7 becomes 3, which is no power of two, and two registrations
(`MaxIDs` bounds the array) overlap, are reused and left behind.  The counts of `RingExact` are one
that the rounding to a cache line saves and the smallest it does not.  In `PipelineBuild`
three blocks are what the largest table takes and let a call with two of them meet
a call or a session of the other goroutine, two error numbers tell an error from
the one before it, `MaxLost` = 1 stops after one leak, `MaxPorts` = 1 makes creation fail for
want of room, and `MaxPackets` = 1 distinguishes counted from uncounted packets.  `SnifferSetup` enumerates all machines of its size; two ports on one node
with three workers include exact fit, shortage and hole in the ids.  In
`SnifferWorker` bursts and transmit buffer hold two packets, so that the buffer
fills at the end and in the middle of a burst and stays half full.  The four kinds
of `FlowRule` are a finalized type that may panic (and has two values that do not), one with further blocks, one
without a finalizer but with a Go array, and one that stores its number in the wrong order; four blocks let `ActionRSS` hold old and new
copies at once and memory be lost to the last block.  `Inputs` gives each object the values that matter for
it, so that structs are changed between two rules.

`CHECK_DEADLOCK FALSE` is used where the system may stop: callers have made their
calls, pipelines have returned, `newApp` has finished.

*Fairness.*  `Executor!FairSpec`: a goroutine or EAL thread that can go on does (the
Go scheduler is preemptive, EAL threads have a core each), with strong fairness
for sends to a channel, because Go channels serve blocked senders in order.
Callers need not make calls, `rte_eal_init` may fail for ever, functions may hang.
`PipelineLoop!FairSpec`: a loop that runs keeps running.  `SnifferWorker!FairSpec`: a
worker polls and the device completes transmissions.  `RingApp!Spec`: threads of an
lcore loop until they have sent or received, and iterations over a list end.  Nothing
is assumed of the lock of the list: overlapping calls of `Walk` may keep `Free` of a
mempool waiting for ever.  Nothing makes a producer send.  None is assumed of the
owner, the garbage collector or the network.

## 4. Proofs

All are for arbitrary values of the constants under the named assumptions of the
modules, which the runs evaluate.  A theorem that needs more says so in its own
statement, and the reason is given below.  For each component
one inductive invariant carries the theorems, and `PROJECT.json` lists the results.

* `ExecutorProofs`: `TypeOK`, `InitComplete`, `QuietAfterStop`, `CleanupQuiet`,
  `ReportNeverBlocks` and `ResultFaithful`, from the inductive invariant `IInv` of
  `Executor`.  The properties
  alone are not inductive.  `InitInv` says what the WaitGroup counts (one for
  the goroutine, then one per lcore that has not signalled), so that zero means all
  have signalled; `CallInv` and `JobInv` split the lcores of a call into those without
  a job, those that hold exactly one job of it, those whose answer is in the channel
  and those heard from, so that the channel never overflows and a result that
  arrives belongs to the current call; `StopInv` says that lcores which
  answered a stop job have `done` set and will take no further job.  `FaithInv` adds,
  on top of `IInv`, that the result a listener is about to report, and every result in
  the channel of a call, is the outcome of the function of that very job.
* `RingAppProofs`: that the ring is a bounded queue (`IsFifo`, the refinement of
  `BoundedFifo`), that no mbuf is lost or doubled (`MbufsAccounted`), and that the registry gives every callback its own
  function (`ReadsOwn`, the refinement of `Registry`), by `ObjArray` alone and in the whole
  program.  Cursors wrap, so the invariant `RingInv` measures all of them as offsets
  from the consumers' tail: `CursorInv` orders tails and heads along the ring and keeps
  them within the capacity, `OpInv` places every reservation between the tail and the
  head of its side and apart from the others, `CoverInv` says that the reservations leave no gap
  there (without it, a tail could be moved over a slot nobody has filled), and
  `FullInv` that published slots hold mbufs.  The refinement then shows that only
  `EnqueueDone` and `DequeueDone` change the queue, at its two ends.  `MbufsAccounted` needs `OwnInv`
  (disjoint holders, and a consumer that returns has left nothing behind); the registry needs
  that a registration in progress still has its entry and that `cnt` counts the
  entries in use, which is what makes `Create` take a free one.
  `MbufsAccounted` assumes `Consumers # {}`: without a consumer, what is in the
  ring when it is freed is lost.
* `PipelineBuildProofs`: `FreesOwned`, `CReadsLive`, `NothingLeaks`, `LockedTold` and `ViewRight` for
  any goroutines, threads, addresses, error numbers, ports and keys.  `OwnInv` says that a goroutine
  owns exactly what its call and its session remember, none of it twice, and that a lost block
  is never given out again; it holds until `free` meets the unwritten `file_name`
  (`strayed`), where the model stops.  `TellInv` says on which thread a goroutine
  may be in C, and that from a failure to the end of the call its number is in `rte_errno`
  of the locked thread or already with the caller.  `LockedTold` says that the returned error is
  made of the failure's own number where the function reports a number, and that the
  caller hears of a failure at all where it returns only nil; of functions that return nothing
  (`reports` = "nothing") it asks nothing, and that the error equals a `syscall.Errno` is not claimed
  (`MCErrnoText.cfg` shows that it does not).  One lemma shows for each of the
  two dozen functions that its arguments have the shape the invariant speaks of.
  `ViewRight` speaks of the time between calls only; `ViewInv` also covers the calls: in
  `IdsInv`, from the return of C to the return of the function, the list of the pipeline is
  one longer than that of its owner and the id on its way is the missing one, and
  `BuilderInv` says that a refused call reports it.  `CountInv` is about sums of sequences; the lemmas
  `TotalAppend`, `TotalChange` and `TotalGrow` say how a sum follows a port or table that is added, one
  that changes, and a run that reads all enabled ports.
* `PipelineLoopProofs`: `ReturnsFlushed`, the action property `FlushEvery`, and
  `StopsWithinFlush`, for every width `W` of the counter.  The argument is that of the
  C code: a `flush` with `flush & (flush - 1)` zero divides the number of words, and `i & (flush - 1)`
  is then zero exactly for the multiples of `flush`; both are proved bit by bit, by
  induction over the width, from the definition of the bits by division.  `SinceInv` ties the counter to the iterations since the last
  flush (congruent modulo `flush`, which survives the wrap because `flush` divides
  `2^W`), `LateInv` counts on after `Stop`.  `StopsWithinFlush` assumes `KeepAlive`: when the
  owner may drop the controller, the loop reads a freed byte and the property fails
  (section 5).
* `FlowRuleProofs`: `NoUseAfterFree`, `BlocksOwned`, `NothingForgotten` and `PlainExact` for any
  items, actions, rules and amount of memory.  Every `Reload` is shown to be an
  exchange of some blocks of one object for fresh ones, and exchanges keep
  `BlocksOwned` and `NothingForgotten`.  `CallInv` says that the arguments of a call in C are
  kept alive, `CopyInv` what `Reload` has left in the C struct of each argument it
  has been called on; `PlainExact` is about several calls with the same structs and
  needs it.  It holds for the types that copy all their fields and convert their numbers;
  `ItemVXLAN`, whose VNI keeps the order of the host's bytes, is not one of them.
* `SnifferWorkerProofs`: `OneOwner` and `OrderKept` for any workers, mbufs, bursts and transmit
  buffers.  `LineInv` says that the packets of a queue stand in one line (sent, transmit buffer,
  rest of the burst, receive ring) along which their numbers rise; two
  entries of a line are then different mbufs, and `OwnInv` keeps pool, devices and lines
  apart.
* `SnifferProofs`, statistics: `TypeOK`, `XstatsSound`, `SnapshotsOrdered`, and `FirstPortSound`.  The
  invariant adds the growth that the next `Report` would count: counter plus growth
  never exceeds the events, and without resets the first port's counter is the last snapshot
  less what `Diff` left out.
* `SnifferProofs`, bringing up: `StartedReady`, `AllQueuesServed` and `PolledReady`, for any port ids,
  NUMA nodes, lists of worker lcores and numbers of queues, whatever step fails.  They speak of
  the state after many steps, `SetupInv` of all of them.  `ListInv` says that `ports` lists,
  each once, the attached ids the loop has passed, and that each has its mempool;
  `DevInv` how far `Configure` has come: ports before the current one are ready, those
  behind it are not started, and the current one has what the steps up to `pc` give it
  (`Stage`).  `MapInv` says that the free lcores of a node are workers of that node, each once and
  none of them in the table, which is why a port cannot take an lcore from an earlier
  one; `TableInv` that exactly the queues of the ports passed so far are served, each by one
  lcore.  The proof uses that `eal.LcoresWorker()` names no lcore twice.  `PolledReady` has no
  premise about hairpin queues: it says that a polled queue is set up or is one of the ids
  that `NbRxQueues` counts for them.
* `PacketProofs`, mbufs: `TypeOK`, `DataInside`, `StructKept`, `LenCongruent` and the action
  properties `MovesExactly` and `CopiesFit`, for any word sizes, buffer and headroom and for
  lengths of any size.  A length that a `uint16` does not hold is truncated for `data_len` but
  not for `pkt_len` (`mbuf/mbuf.go:150`): the two then agree in their low bits only
  (`LenCongruent`), which is the part of the invariant that survives.
* `PacketProofs`, packets: `DataInside`, `StructKept` and `MovesExactly` also of `PacketSpec`, where
  package `packet` works on the mbuf, again for all lengths; and `EditsExact`, `EditsInside`, `BuiltRight` and
  `ParsedRight` under `Short`: the numbers of bytes that edits insert or remove and the sizes of
  templates fit a `uint16`.  Packets of more bytes do not exist in one mbuf, but the
  arguments are of type `uint` and nothing refuses larger ones, so this is an assumption about the
  caller.  The two edit properties speak of packets whose `L2` is the start of the data,
  since they are false of others (section 5).  `PInv` adds to the invariant of the mbuf that
  `Ether` is the start of the data and that the cells of the buffer are where they
  should be.  `ParsedRight` alone is not inductive: `MemInv` says that, as long as nothing was edited, the
  buffer is blank or holds, cell by cell, the headers of `frame` (`Holds`).  The proof then
  follows the parsers from header to header through both layers of a tunnel.
* `PacketProofs`, checksums: `ChecksumVerifies` and `SumsFitUint32`.  `Built` says which lengths the
  `InitEmpty` functions have written; from it `dataLength` is the length of the payload and
  header, without a wrap.  `calculateDataChecksum` adds up the words of the wire, an odd byte
  included (`DataChecksumOnWire`, by induction over the length).  `Congruent` is equality modulo
  `W - 1`: `reduceChecksum` keeps it (`Carry`: a carry added back is congruent) and ends in a
  word, so that sum and complement are a multiple of `W - 1`, also when a device
  finishes a reduced pseudo header sum, and when UDP turns zero into all ones.
  `SumsFitUint32` bounds headers and payload together by `W * W` for `W >= 64`, of which 2^16 is one; the
  words of the run (16 values) are too small for it, and the model, which adds
  without a wrap, does not need it.

Some proofs need what a recursive function computes for every argument (`Pow2` of
`PipelineLoop`, `FlattenSeq` in `cPattern`, `Total` in `ViewRight`, `SumTo` and `reduceChecksum` of `Checksum`).  The library's induction theorems take a
predicate as a parameter; `SetInduction` states induction for a set instead, from the
well-foundedness of the natural numbers, and the existence and uniqueness of the
function follow from it.

Only model-checked: liveness (`CallReturns`, `InitReturns`, `StopReturns`,
`ReturnsToPool`, `Delivered`), which TLAPS does not prove under fairness.  Every
other property of a passing run is a theorem.
`TypeOK`, `CleanupQuiet`, `SnapshotsOrdered` and `LenCongruent` are proved and not part of a run.

## 5. Disagreements with comments, and limits

Two runs record where the code does something else than its comments say; see
`findings` in `PROJECT.json`.  In `ErrnoThread`, `mempool.Lookup` "Returns mempool or ENOENT error."
(`mempool/mempool.go:302`), but reads `rte_errno` by a second call from C, perhaps on another thread.
In `RingExact`, `ring.New` "allocates a slice of bytes with enough length" (`ring/ring.go:165`),
but asks for the memory of `count` slots whatever the options are: with `OptES` and 8 the table
has 16 slots and the memory 8.  (With 2 the table has 4, and the rounding to a cache line
provides 8.)

Twelve more configurations reproduce a disagreement when they are run by hand; TLC finds
each property violated:

| Configuration | Module | What it shows |
|---|---|---|
| `MCErrnoText.cfg` | `MCPipelineBuild` | tests compare errors with `syscall.EINVAL` and the like (`mempool/mempool_test.go:71`, `memzone/memzone_test.go:30`, `acl/acl_test.go:195`), but `errno` makes a fresh error of every standard number (`common/common.go:54`, `ErrnoComparable`) |
| `MCSessionRealloc.cfg` | `MCPipelineBuild` | "Flush releases all previously allocated memory in this session." (`common/allocator.go:70`): not a block whose `Realloc` failed, which the session forgets (`:63`, `SessionRemembers`) |
| `MCPipelineLoopFinalizer.cfg` | `MCPipelineLoop` | `RunLoop` does not keep its controller alive: when the owner drops it after `Stop`, the finalizer (`pipeline/pipeline_loop.go:89`) may free the byte before a loop has read it, and the loop goes on (`StopReturns`) |
| `MCRingTruncated.cfg` | `MCRingApp` | a `count` of 2^32 becomes 0 on the way to C (`ring/ring.go:217`) and passes for a power of two: a ring of all slots a word can count in memory for none (`SlotsInMemory`) |
| `MCMbufOverrun.cfg` | `MCPacket` | `PktMbufAppend` compares the length of the data after it lost its upper bits and copies all of it (`mbuf/mbuf.go:284`, `NoOverrun`) |
| `MCMbufLen.cfg` | `MCPacket` | a length that a `uint16` does not hold changes `data_len` and `pkt_len` by different amounts (`mbuf/mbuf.go:150`, `LenConsistent`) |
| `MCPacketHead.cfg` | `MCPacket` | `EncapsulateHead` moves `Ether` and copies relative to `L2`, which still points behind the new bytes (`packet/packet.go:799`): the inserted bytes are where they should be only for `start` = 0, and the header is overwritten (`HeadInserted`) |
| `MCPacketTail.cfg` | `MCPacket` | after `VxlanDecap`, `EncapsulateTail` counts the length of the whole packet from the inner header on (`packet/packet.go:815`) and writes behind the buffer (`TailInside`) |
| `MCPayloadLen.cfg` | `MCPacket` | `PayloadLen` "includes sizeof(ip_header)" (`packet/packet.go:89`), but the `InitEmpty` functions write it without the header (`:595`), as the protocol has it and `BuiltRight` checks (`PayloadLenWhole`) |
| `MCPortStatsStale.cfg` | `MCPortStats` | `Report` uses one `diffStats` for all ports and `Diff` writes only what grew (`app/test-sniffer/stats.go:139`): a delta of the first port is counted for the second (`BasicSound`) |
| `MCSnifferWorkerIncr.cfg` | `MCSnifferWorker` | `Incr` reads the lengths of mbufs that were freed, sent or received again (`app/test-sniffer/lcores.go:307`, `CountsReceived`) |
| `MCFlowRuleStale.cfg` | `MCFlowRule` | an address of an `ItemEth` that was set back to empty stays in the next rule (`ethdev/flow/item_eth.go:89`, `ReloadUpToDate`) |

Other limits a reader of the models meets:

* A `Source` or `Sink` without a file name leaves `file_name` as `malloc` found it; C reads
  it and the destructor frees it (`port/source_sink.go:53`, `:58`).  `CReadsLive`, `FreesOwned` and
  `NothingLeaks` except this case, and the model stops at such a `free`.
* Two kinds of blocks are never freed: the struct of an ACL table with too many
  fields, since `Transform` panics before it returns its destructor, and a block whose
  `Realloc` failed, of which the session forgets the address although "Flush releases
  all previously allocated memory in this session" (`common/allocator.go:70`).
* `memzone.Reserve` with `OptBounded` and without `OptAligned` follows a nil pointer; the name is
  still freed by the deferred call.
* `alloc_reset_and_append` loses an mbuf when the data does not fit; `MbufsAccounted`
  counts those as lost.
* A panic in a callback of `Walk` locks the list of mempools for good, and overlapping
  calls of `Walk` may keep `Free` out for as long as they go on; nothing is claimed about
  when `Free` returns.
* `port` and `table` creation report a failure by nil without a reason, and
  `RegisterTelemetryLSC` not at all (`ethdev/lsc_telemetry.go:28`).
* `ItemVXLAN` stores the bytes of `VNI` in the order of the host (`ethdev/flow/item_vxlan.go:45`),
  `ItemVXLAN2` and all other items convert.
* A neighbour solicitation without room for the option of the answer makes a worker of the
  sniffer panic, and the process ends (`app/test-sniffer/lcores.go:244`): `ReturnsToPool` excuses this.
* The checksum functions take an IPv4 header to have no options
  (`packet/checksum.go:112`), while parsing does not; the packets that are summed in the
  model come from the `InitEmpty` functions and have none, so `ChecksumVerifies` says
  nothing of a received packet with options that the sniffer sums.  `InitICMPv6NeighborSolicitationPacket` ignores the result of
  `InitEmptyIPv6ICMPPacket` and would write through nil pointers.
* `ring.Create` and `Init` do not keep the options alive whose finalizer frees the name
  they pass to C (`ring/ring.go:120`).
* `MbufArray.Opaque` (`util/rx_buffer.go:49`) returns the memory of its own result.
* `Exec` on an `lcore.Thread` that was closed panics, as sending on a closed channel does;
  a function that calls `ExecOnLcore` for the lcore it runs on waits for itself.
* `StopLcores` returns once every lcore has answered, a step before the threads leave
  `lcoreFuncListener`; its comment says that they have finished.
* `Reload` never copies most fields of `TCPHdr` and some of `IPv6Header`, and C memory of
  types without a finalizer is never freed; `PlainExact` and `NothingForgotten` say which
  types are free of that.  `ActionSample` and `ActionVxlanEncap` leave the only pointer to
  a Go array in C memory.
* `ReportFlowStats` queries every rule on the first port, also rules of other ports.
* Two `StopLcores` at the same time can each stop one lcore and wait for the other
  for ever, and `ExecOnLcore` on a stopped lcore waits for ever: `CallReturns` excuses
  exactly these calls (`Unserved`).
* With `PanicAsErr = false`, the default, a panic of an lcore function ends the
  process, whatever the comment of `ExecOnLcore` says.
* `RunLoop` accepts `flush = 0` and then never flushes nor stops; the runs use the
  values its comment allows and one it refuses.
* A valid port whose id is not below `CountTotal()` is left out by the sniffer; when
  earlier ports used up the lcores of a node the error is not `os.ErrNotExist`.
* Hairpin queues are counted by `NbRxQueues` and given to workers, also with the default
  `-nhpq 1`: `PolledReady` names them as the only polled queues that are not set up.

Abstractions of the newer modules: pointers that stay behind in the slots of a ring
are forgotten; `Update` of the registry, `objTable` and `RteAlloc` have no callers;
default entries, `Flush` and the other statistics of a pipeline follow the same
pattern as what is modelled; VLAN, MPLS and GTP headers, the ARP builders and
chained mbufs are left out of `Packet`.

Not modelled: logging, flag parsing, Prometheus registration, the HTTP server, the
text of errors, `dryRun`, `Register` of the queue counters, flow statistics, the read-only
queries of EAL and of devices, and the packages listed as `not_modelled` in
`PROJECT.json`.

## 6. Plan

1. Done: `Executor`, `PipelineLoop`, `PortStats`, `MbufData`, `SnifferSetup`, `SnifferWorker`, `FlowRule`,
   and the proofs above.
2. Done: C memory and calls (`CMemory`, `CCalls`), pipelines (`PipelineBuild`), rings and the
   registry with their abstract specifications (`Ring`, `BoundedFifo`, `ObjArray`, `Registry`,
   `RingApp`), packets and checksums (`Packet`, `Checksum`).
3. Done: the inductive invariants and theorems of section 4 for the ring, the registry,
   C memory and calls, pipelines and their loop, flow rules, the workers, the executor,
   the bringing up of ports, and packets with their checksums.
4. Left out so far: `XstatDiff` of `ethdev` on lists, VLAN and ARP in `Packet`, the CPU set
   parser of `common`, the receive buffer of `util`.  `dpdk-exporter`, `hash` and `mem` have no
   state of their own to model.
