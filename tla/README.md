# TLA+ models of the memory profiler (`src/components/util/memory.rs`)

The repository has a single source file, `src/components/util/memory.rs`.
It contains Servo's memory profiler. This directory holds TLA+ models of its
concurrent and stateful parts, along with the TLC configurations that check
them. `PROJECT.json` lists the components, runs, mutants and hazards, and maps
each model definition to the lines of code it stands for.

## 1. Inventory

### Components

| Component | Code | State | Operations |
|---|---|---|---|
| Profiler actor | `MemoryProfiler`, `MemoryProfilerChan`, `MemoryProfilerMsg` (l. 176-355) | the channel's queue, the `reporters` HashMap, whether the loop is running | `create`, `MemoryProfilerChan::send`, `start` (the recv loop), `handle_msg` (Register, Unregister, Print, Exit), `handle_print_msg` |
| Timer thread | closure in `create` (l. 249-260) | its Sender clone | sleep, send `Print`, stop when the send fails |
| Reporters | `MemoryReporter`, `MemoryReportsChan`, `SystemMemoryReporter` (l. 188-215, 357-403) | none in the profiler; a reporter may hand the reports channel to its own thread | `collect_reports` -> bool, one `Vec<MemoryReport>` sent on the channel |
| smaps parser | `get_resident_segments` (l. 533-642) | `looking_for`, `curr_seg_name`, `seg_map` | one step per line, then total and sort |
| jemalloc statistics | `get_jemalloc_stat` (l. 444-483) | the allocator's cached statistics | an `epoch` write, then a read of one statistic |
| System heap | `get_system_heap_allocated` (l. 406-442) | none | `mallinfo`, then `hblkhd + uordblks` as a c_int |
| statm / task_info | `get_vsize`, `get_resident`, `get_proc_self_statm_field` (l. 485-531) | none | read one figure |
| Heap measurement | `heap_size_of`, `SizeOf` for Box, String, Option, Arc, Vec, DList via `DList2` (l. 26-174) | none: a read-only walk | `size_of_excluding_self` |

### How they interact

The caller of `create` gets a `MemoryProfilerChan`. This is a cloneable
Sender into the actor's unbounded FIFO channel. `create` first spawns the
timer thread, if a period is given, and then spawns the actor thread. Only
after that does it send `Register("system", SystemMemoryReporter)`. Any holder
of a Sender (the clients and the timer) can send messages. The actor handles
them one at a time, in channel order.

On `Print`, the actor visits every registered reporter in HashMap order. For
each one it creates a fresh one-shot channel, calls `collect_reports`, and if
that returns true, blocks in `port.recv()`. Each reporter either:

- answers synchronously, as `SystemMemoryReporter` does on the actor thread
  using the OS and allocator queries;
- hands the channel to its own thread, which later sends the reports or drops
  the channel.

`send().unwrap()` panics a sender once the actor's Receiver is gone. The timer
instead stops quietly when its send fails. The actor exits in three cases:

- it handles `Exit`;
- `recv()` fails because every Sender has been dropped;
- it panics on a duplicate Register or an unknown Unregister.

### What is hard

- **Interleaving and order.** Clients, the timer and the actor run in
  parallel. The channel's order is the only thing that tells a Print which
  registrations it sees. The timer's first Print can overtake `create`'s
  Register.
- **Partial failure.** A reporter can return false, or drop its channel.
  Either way, the cycle must go on with the other reporters.
- **Termination.** The timer waits for the actor to go away, and the actor
  waits for every Sender, the timer's included, to go away. A reporter that
  never answers stalls the actor forever.
- **Contract violations.** A misuse panics the actor thread. Later senders
  then panic one at a time.
- **The smaps scan.** The two-state scan keeps `curr_seg_name` across lines
  and relies on headers and Rss lines alternating. It has the 512 KiB
  boundary, a HashMap order and a stable sort.
- **Allocator statistics.** Each statistic is read after its own epoch
  refresh, so the three are not one snapshot. The c_int sum from `mallinfo`
  can overflow.
- **Rates.** The period is truncated to whole milliseconds before the timer
  sleeps. The mailbox is unbounded, so a timer that outpaces the print
  cycle fills it.

### Properties that make each component correct

- **Actor.**
  - A Print visits exactly the reporters left registered by the messages
    sent before it.
  - A failing reporter hides nothing else.
  - Prints sent through a handle report the system reporter.
  - Exit ends both threads.
  - A profiler nobody holds any more ends.
- **smaps parser.**
  - Each name appears once, with the sum of its segments.
  - Small segments go to `- other`.
  - The total is the sum of all segments, and the result is sorted by size.
    Ties are kept in their order, so the total need not come first (spec 4.3
    step 6 allows this).
  - The scan returns, even when the file cannot be opened.
- **jemalloc statistics.** The values are never stale after a failed epoch.
- **Timer.** A period at least as long as a print cycle keeps at most one
  timer Print waiting.
- **Heap measurement.** Every owned block is counted once, and the `EMPTY`
  sentinel counts 0. The iterative DList walk equals the recursive
  definition.

## 2. Plan

1. `ProfilerActor` (done). The actor, clients, timer and reporters: message
   order, failure isolation, termination, and the contract-violation paths.
2. `SmapsParser` (done). The smaps scan, checked against a reference
   grouping.
3. `MemoryProfilerAtomic` (done). The abstract profiler, in which each
   message takes effect in one step. `ProfilerActor` is shown to implement
   it.
4. `SystemReporter` (done). `collect_reports` of the system reporter: the
   jemalloc epoch and read, the mallinfo c_int sum, and the statm and smaps
   results, interleaved with allocating threads.
5. `HeapSizeOf` (done). `heap_size_of`, the `SizeOf` impls and the
   iterative `DList2` walk.
6. Fairness (done). Reporter threads get no fairness. The liveness
   properties state the one stall the code allows: a reporter that never
   answers.
7. `ProfilerTimer` (done). The timer and the print loop against a clock:
   the period's conversion to milliseconds and the backlog it causes.
8. Left open: reporters that break their own contract. See section 5.

## 3. Modules and how they map to the code

### `ProfilerActor.tla` (checked through `MCProfilerActor.tla`)

**State**

| Variable | Code it stands for |
|---|---|
| `mailbox` | the channel's queue |
| `reg` | `reporters`, as name -> reporter kind |
| `actor` | whether the loop runs, has exited, or has panicked |
| `cycle` | the state of `handle_print_msg`: which reporters are still to visit, which were visited, which were printed, and the asynchronous reporter it is blocked on |
| `handles` | each client's Sender: held, dropped, or lost to a panic in `send().unwrap()` |
| `timer` | the timer thread |
| `phase` | whether `create` has returned |

`last` records the last finished cycle. `sends` bounds the clients.
`sysUnreg` is a history variable.

Each Print message carries two history fields:

- `expect`: the registry that the messages queued before it would produce;
- `sysUnreg`: whether Unregister("system") had been sent before it.

**Actions**

| Action | Code it stands for |
|---|---|
| `Create` | the tail of `create` |
| `ClientSend` / `ClientRequest` | `MemoryProfilerChan::send` with each message |
| `DropHandle` | dropping a Sender |
| `TimerTick` | one turn of the timer loop |
| `HandleRegister`, `HandleUnregister`, `HandlePrint`, `HandleExit` | the arms of `handle_msg` |
| `RecvDisconnected` | `recv()` returning Err |
| `CollectReports(n)` | one turn of the loop over `reporters.values()`, with the reporter picked in any order |
| `ReportsArrive` / `ReportsChanDropped` | the asynchronous reporter's thread answering or dropping the channel |
| `FinishPrint` | the trailing blank line |

Report contents and formatting are not modelled. A cycle is known by which
reporters were visited and which were printed.

**Fairness**

`WF` applies to `Create`, to the actor thread and to the timer. These threads
always get to run. The timer's `sleep` ends.

Clients get no fairness: they may stop at any point.

A reporter's own thread gets no fairness either. Nothing in this file makes
it answer, and `port.recv()` has no timeout. The liveness properties
therefore say what the code guarantees: Exit, or the last handle being
dropped, ends the actor, unless the actor stays blocked on a reporter
forever (`[]BlockedOnReporter`). A behaviour in which the reporter does
answer must end the actor.

### `SmapsParser.tla` (checked through `MCSmapsParser.tla`)

The input is a list of up to `MaxSegs` mappings. Each one is written as the
kernel writes it: a header line, a `Size:` line and an `Rss:` line. A
non-anonymous header can also be unreadable, meaning `lines()` returns Err.
`File::open` can fail (`Openable`). The code does not check its result: the
`BufferedReader` over the Err returns the same error on every read and
consumes nothing. The file is then one Err line that `ErrLine` reads again
and again. `FairSpec` adds weak fairness on the scan: it runs alone on the
profiler thread and waits for nothing.

**State:** `lookingFor`, `currSegName` and `segMap` are the function's
locals.

**Actions**

| Action | Case in the code |
|---|---|
| `ErrLine` | an Err line |
| `SegmentLine` | seg_re matches |
| `SkipLine` | the current regex fails to match |
| `RssLine` | rss_re matches |
| `Finish` | `into_iter` in any order, the total pushed last, then the stable sort |

**Helpers**

- `SortBySizeDesc` is an insertion sort. Like `sort_by`, it is stable.
- Segment names are the pair (path-or-`anonymous`, perms). The string
  `"- " ++ ... ++ " (" ++ perms ++ ")"` is injective in these two parts, and
  never equals `- other` or the total's name.

### `MemoryProfilerAtomic.tla`

This is what the profiler promises its users. There is one mailbox.
`Handle` takes the head message and applies it in one step:

- Register and Unregister change `reg`, or panic on misuse, which drops the
  queue.
- Print sets `last` to a finished cycle. That cycle visited every
  registered reporter, printed every synchronous one and no failing one.
- Exit stops the profiler.

`Send` appends while the profiler runs. `Disconnect` ends it once the
mailbox is empty.

**Refinement.** `ProfilerActor!ImplementsAtomic` is `Atomic!Spec` under this
mapping:

- `mailbox` becomes `AbsMailbox`: the concrete queue, with the Print of a
  running cycle put back at its head;
- every other variable maps to itself.

The cycle's intermediate steps, the clients' panics and the timer's failed
sends are stuttering steps. `FinishPrint` is the abstract Print.

### `SystemReporter.tla` (checked through `MCSystemReporter.tla`)

`pc` walks the steps of `collect_reports` in code order: vsize, resident,
segments, sysheap, allocated, active, mapped, send. Inside
`get_jemalloc_stat`, `sub` tells the epoch call from the read.

| Action | Code it stands for |
|---|---|
| `StatmQuery` | `report("vsize"/"resident", ...)`: `get_proc_self_statm_field`, modelled as `StatmField` over the file's words (unreadable, too short, a word that does not parse, a page count), read anew for each query |
| `Segments` | one report per entry of `get_resident_segments()` |
| `SysHeap` | `get_system_heap_allocated`: the c_int sum wraps, or panics in a build with overflow checks; `as u64` sign-extends |
| `EpochWrite` | `je_mallctl("epoch")`: refreshes `cached` from `live`; rv != 0 returns None |
| `StatRead` | the statistic's `je_mallctl`: reads `cached`; rv != 0 returns None |
| `Send` | `reports_chan.send(reports)` |
| `Allocate` | another thread allocating or freeing: `live` moves within the allocator's own order |

`asked` and `heap` are ghosts. They record the live statistic when its epoch
was asked for, and the true mallinfo sum. TLC's integers are 32-bit, so
c_int is run as 8 bits and u64 as 12. The wrap and the sign extension work
the same way at any width.

### `ProfilerTimer.tla` (checked directly)

The timer thread and the actor's print loop, with time in microseconds.
`period` and `cycleLen` are chosen in `Init`: the period `create` was given
and how long one `handle_print_msg` takes in this application.

| Action | Code it stands for |
|---|---|
| `PeriodMs` | `Duration::milliseconds((period * 1000f64) as i64)`: the cast truncates toward zero |
| `TimerWake` | `sleep(period_ms)` has ended: `chan.send(Print)`, and the next sleep starts |
| `ActorReceive` | `port.recv()` returns the Print, and `handle_msg` enters `handle_print_msg` |
| `ActorDone` | `handle_print_msg` returns, `cycleLen` after it started |
| `Tick` | time passes to the next deadline (a sleep's end or a cycle's end), only when no thread can act now |

`queued` counts the timer's Prints waiting in the mailbox. Client messages
and Exit are left to `ProfilerActor`. Here the actor does not exit, so the
timer's send succeeds.

### `HeapSizeOf.tla` (checked through `MCHeapSizeOf.tla`)

- `HeapSizeOf` is `heap_size_of`.
- `SizeOf` is the impls for Box, String, Option, Arc and Vec, written as one
  RECURSIVE operator. It returns the bytes and the set of pointers passed to
  `je_malloc_usable_size`.
- `LinkSize` is what one loop turn adds. It goes through Option's impl, then
  Box's (the node's own block), then Node's, which measures the value only.
- `Iterate` and `Return` are the `while curr.is_some()` loop of
  `DList2::size_of_excluding_self`.

The lists hold up to three nodes, each carrying one of seven element shapes.
Two of the shapes, an empty String and an empty Vec, point at `EMPTY`. The
reference `Blocks` collects the heap blocks a value owns, without running
the code's arithmetic.

## 4. Runs

| Run | Config | Expect | What it shows |
|---|---|---|---|
| actor_safety | `MCProfilerActor.cfg` | pass | Send order, failure isolation, client prints, refinement of `MemoryProfilerAtomic`, and, with no timer, that Exit ends both threads and that a profiler nobody holds ends. Both liveness claims hold unless the actor stays blocked forever on a reporter. |
| actor_timer | `MCProfilerActorTimer.cfg` | pass | Send order, client prints, refinement and Exit all still hold with the timer injecting Print. |
| actor_timer_leak | `MCProfilerActorTimerLeak.cfg` | violation | With a timer, a profiler whose clients all dropped their handles without Exit never stops. The timer's Sender keeps the channel open. |
| actor_timer_first | `MCProfilerActorTimerFirst.cfg` | violation | The timer's first Print can be handled before `Register("system")`, which prints an empty batch. |
| actor_crash_after_exit | `MCProfilerActorNoCrashWithoutMisuse.cfg` | violation | After one client's Exit, another client's next send panics in `send().unwrap()`, although no contract was broken (spec 7). |
| timer_flood | `MCProfilerTimer.cfg` | violation | A period at least as long as the print cycle still lets Prints pile up. The period is truncated to whole milliseconds, so 0.5 ms sleeps 0 ms and 1.5 ms sleeps 1 ms. |
| actor_misuse_no_abort | `MCProfilerActorMisuseAbortsProcess.cfg` | violation | A duplicate Register panics only the actor thread. The timer and the clients go on (spec 7 says the process aborts). |
| smaps_reference | `MCSmapsParser.cfg` | pass | Every file of up to three mappings, unreadable headers included, parses to the reference grouping, sorted, with the total. |
| smaps_open_fails | `MCSmapsParserOpenFails.cfg` | violation | If `/proc/self/smaps` cannot be opened, `lines()` yields Err for ever and `continue` spins: the scan never returns, whereas spec 4.3 says the query yields an empty list. |
| sysreporter_fresh_stats | `MCSystemReporter.cfg` | pass | Each jemalloc value reported is the live value at its own epoch: a failed epoch never lets a stale cached value through. |
| sysreporter_heap_overflow | `MCSystemReporterHeap.cfg` | violation | `hblkhd + uordblks` overflows c_int, and `as u64` turns the sum into a huge value (or the thread panics). |
| heap_dlist_walk | `MCHeapSizeOf.cfg` | pass | The iterative walk counts every block the list owns exactly once, and never asks the allocator about `EMPTY`. |

Every property of a passing run has a mutant in `PROJECT.json`. Each mutant
is a plausible bug in the modelled code that TLC must catch:

- an Unregister that doesn't remove the entry;
- `break` instead of skip on a failing reporter;
- taking the next message during a print cycle;
- `create` not registering `system`;
- Exit not ending the loop;
- the actor holding its own Sender;
- the timer ignoring the send error;
- overwriting instead of adding in `seg_map`;
- dropping the `rss > 0` test;
- ignoring the epoch's rv;
- measuring a node without its Box;
- dropping the `EMPTY` test.

### Bounds

**Actor runs**

- Two clients and two names: `system` and one
  client name. Clients can register `system` too, which exercises the
  duplicate panic.
- All three reporter kinds: sync, fail and async.
- Up to 3 or 4 client messages. This is enough for Register, Print and
  Unregister/Exit to interleave with a cycle blocked on an asynchronous
  reporter, and with the timer.
- The timer sends only while the mailbox is shorter than `MaxQueue`. This
  bounds the queue without bounding how often it ticks, so the
  print-forever loop of `actor_timer_leak` is a real cycle in the state graph.

**System reporter run**

- Every query can fail.
- jemalloc counters take values 0..2. This gives 10 ordered triples for
  `live` and for `cached`.
- Other threads take two allocation steps, placed anywhere among the nine
  steps of `collect_reports`.
- mallinfo fields take values 0, 60 and 100 under a 127 c_int maximum, so
  the sum both fits and overflows.

**Timer run**

- Periods of 0.5, 1.5 and 2 ms: under one millisecond, a fraction above
  one, and a whole number.
- Print cycles of 0.3 and 1.4 ms. The 1.4 ms cycle is shorter than the
  1.5 ms period but longer than the 1 ms the timer really sleeps.
- Five timer sends. A 0.4 ms lag per tick needs five ticks to leave two
  Prints waiting.

**Heap measurement run**

- Lists of 0 to 3 nodes, over all seven element shapes: 400 lists.
- The block sizes differ by kind, so a block counted in place of another
  shows up.

**Parser runs**

- Three paths: empty, `[stack:1234]` and a library.
- Two permission strings.
- Rss values of 0, 511, 512 and 1024 kB. These cover the zero test and both
  sides of the threshold.
- Files of up to three mappings. This is enough for two segments to share a
  name and for several small segments to share `- other`.
- In `smaps_open_fails`, the file either opens, with one mapping, or does
  not. The one Err state is all that the failed open needs.

## 5. Not modelled, and why

- **task_info (macOS).** `virtual_size` and `resident_size` come from a
  module outside this repository. Only the Linux statm path is modelled.
- **The printed text.** `{:12.2}` in MiB is formatting only; no property
  depends on it.
- **A reporter's late send.** `MemoryReportsChan::send` unwraps (l. 203).
  It panics only if a reporter sends after the port is gone, which happens
  if the reporter returns false after handing the channel on, or sends
  twice. Spec 4.4 rules both out ("failure means no reports will arrive"),
  and that thread is not part of this file.
- **Timing outside the timer.** Only `ProfilerTimer` has a clock. The
  other models are untimed, since their properties are about order, not
  rate. `ProfilerTimer` leaves out client messages and Exit, which
  `ProfilerActor` covers.
- **The ordering of the three jemalloc statistics under allocation.** The
  three statistics come from three epochs, so a free between two of them
  can report active > mapped (l. 387-395). The spec does not promise a
  consistent triple. No passing property can catch this, because the code
  really does read three epochs. Showing the violation would need a run
  of its own, and the project is at its run limit. The hazard is listed
  without a property.
- **A total tied with a segment.** The stable sort leaves a segment equal
  to the total before it. The comment at l. 633 says the total will be
  first, but spec 4.3 step 6 allows either order, so no run checks it.
  `ParsesToReference` checks that the list is sorted whatever the
  HashMap's order.
- **The `DList2` transmute and its layout check.** These are compile-time
  only.
- **Composition.** `SystemReporter` is not instantiated inside
  `ProfilerActor`. Its outcomes are either sending one list and returning
  true, which is exactly the actor's "sync" kind, or a panic on c_int
  overflow. `sysreporter_heap_overflow` shows the panic, which ends the
  actor thread like a misuse panic. Composing the two state machines would
  multiply their state spaces without adding a behaviour.
