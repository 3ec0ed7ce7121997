# A TLA+ model of the PipeWireAO data path

PipeWireAO is PipeWire with additions for adaptive optics: graphs whose driver
polls a camera or a row source, n-dimensional array filters with their own
worker threads, and a row transport in which every buffer comes back to its
source before it is used again. This directory models the parts of it that
several threads or processes share, checks them with TLC, and proves with TLAPS
the worker group, the partition of its work, the dependency counts of the graph,
the loan of a row and the main-loop side of the ndarray filter. Paths in
`PROJECT.json` start with `src/`, the root of the repository.

## The system

| part | where | here |
|---|---|---|
| worker group: helper threads that run the lanes of a task | `spa/plugins/filter-graph/ndarray-executor.c` | `WorkerGroup`, `ForkJoin`; proved |
| dense task: which lane writes which row | the same file | `DenseTask`; proved |
| graph cycle: activation records, triggers, `node_ready`, `process_node`, start, stop, link, unlink | `src/pipewire/private.h`, `src/pipewire/impl-node.c` | `GraphCycle` (partly); `required` proved |
| row transport: reliable tee and mix, exact returns, retries | `impl-node.c`, `impl-port.c`, `filter.c`, `module-client-node/` | `RowTransport` (partly); the loan proved |
| ndarray filter: FIFO, parameter worker, error latch, run control | `src/pipewire/ndarray-filter.c` | `NdarrayFilter` (partly); state and callbacks proved |
| event loop: invoke queues, flushes, entering and leaving | `spa/plugins/support/loop.c` | `LoopInvoke` (partly) |
| work queue of asynchronous state changes | `src/pipewire/work-queue.c` | `WorkQueue` |
| links and ports: formats, buffers, states | `impl-link.c`, `impl-port.c` | `Link` (partly) |
| everything else | | see *Not modelled* |

A driver's `node_ready` starts a cycle: it rearms the activation record of
every node and triggers its targets. A node whose last dependency has arrived
runs on its data loop (`process_node`) and triggers its own targets; the last
trigger is the driver's and ends the cycle. A filter in this graph may hand its
work to a worker group, which runs `dense_task` on every lane before the call
returns. In a row graph the same cycle also carries the rows: the tee lends a
row to its consumer and the driver gives it back when the graph has finished.
Before any of this, the main loop prepares the links of the graph through the
work queue, and whatever it changes on a data loop goes through the invoke
queues of that loop.

## The modules

Definitions named `Bug_...` are plausible mistakes in the definition after
them. No specification uses them: each property of a passing run fails when one
of them takes that definition's place (`mutants` in `PROJECT.json`).

**ForkJoin** is the contract of `ndarray-executor.h`: a task over n lanes runs
once on each, and the call returns the failure of the lowest failing lane.

**WorkerGroup** is the implementation. The coordinator's program counter `cpc`
and the helpers' `wpc` step through `publish_command`, `run_task`,
`stop_created_workers`, `activate` and `worker_main`; each step is one access
to a shared word of a slot, or to the plain fields that one access publishes.
The atomics are acquire/release pairs on the same word, so interleaving is
sound. Generations wrap at `GenMod`, which stands for 2^32.

**DenseTask** lets the lanes write their rows in any order, for any number of
rows and lanes and any address of the output relative to a cache line.
Addresses are counted in floats, which `validate_dense_task` makes exact.

**GraphCycle** has `status`, `required` and `pending` of every activation
record, the odd/even state of `signal_time_seq` (`claimed`) and the eventfd
(`wake`). Each step is one atomic access; the threads are the data loops and
the main thread, which holds the lock of one data loop (`pw_loop_locked`).
Every node is local, activation version 2, and keeps its driver. The poll
source of a started node is enabled together with `rt.prepared`, where the code
enables it a little later.

**RowTransport** has one row link: the source's io, the link's mix, the
consumer's io, and the consumer's queues, with `row_borrowed_id`, the retry and
release flags and the reliable event of the driver. The consumer is local or
exported (`consumer`). A second target is async, so that it can finish after
the driver. The steps of a trigger are taken together here; GraphCycle has them
apart. The source is not in the repository: `Offer` and `ReadyQueued` follow
how the core calls it and the tests that stand in for it.

**WorkQueue** gives the operations of `work-queue.c` as operators on a record,
and **Link** uses them. All of `Link` runs on the main loop, so each function of
`impl-link.c` is an operator on one record `s`, and what interleaves is events:
a pass over the work queue (one step per item, because an item's function may
add, cancel and complete others), the answers of clients, and what the rest of
the program asks of a link. A client's port answers a request only by refusing
it; the pong of the `sync` sent after the request completes it.

**NdarrayFilter** has the three threads of a standalone filter. The handlers of
the main loop are one step each and work on the record `f`; the data loop and
the parameter worker take a step for each access to a word they share: the ring
of a Parameter Port, its `pending` buffer and view, the error latch, the event
sources. Run control and resets are part of it: a token is accepted, answered
at once, kept until the state changes, or refused as stale. With
`setup.rt = FALSE` the data loop is the main loop.

**LoopInvoke** has the lock-free stack of free queues with its tag, the ring of
a queue and of its overflow queue, the acknowledgement counter, the lock and
the nested calls of `flush_queues` (`frames`). A called function may invoke on
the same loop and so flush from within the flush.

## The runs

| run | what it shows |
|---|---|
| `worker_group` | 2 helpers, 3 generations, 2 errors: all safety properties, the inductive invariant, that every call returns, and that the group implements ForkJoin |
| `dense_task` | up to 14 rows, 4 lanes, every alignment in a line of 4: every row is written and every cache line by one lane |
| `graph_cycle` | driver, `a -> b`; on one loop with an async `c` and two starts, stops, links or unlinks, or on three loops with one stop: order, counters, one processing per cycle, no lost wake-up, completion |
| `row_steady` | both kinds of consumer, a source with one row in flight, no stop: custody, exclusive io, rows come back, offers are accepted |
| `row_restart` | exported consumer, a source that offers whenever it can, one stop, failing RequestProcess: custody, one loan, exact returns |
| `link_prepare` | two links that share an output, the output or an input a client's, one refusal, suspension, new format, deactivation or removal: a busy port is awaited, the queue loses no wake-up, nothing is called for a link that is gone, every preparation ends |
| `ndarray_filter` | eight filters (one and two Parameter Ports; FIFO with one input, with peers, independent; latest frame; run control with and without a data loop): borrowing, order of frames, order of callbacks, published status, and that requests, backlog and parameters are served |
| `loop_invoke` | two threads, two queues, rings of one item, three calls, blocking or not, from functions too, while the loop yields, is left and entered: one writer per queue, one call per item, no call forgotten |
| `graph_stop_race` | *violated*: a stop on one loop between the count and the store of the driver's `pending` on another, and the cycle never completes |
| `graph_stop_driver` | *violated*: stopping the driver in its cycle runs a follower before its input |
| `row_restart_stall` | *violated*: a row that is returned while the driver is stopped is never released |
| `link_formats` | *violated*: a link becomes prepared with two different formats |

The four violations are disagreements between the code and its comments or
documents; `findings` in `PROJECT.json` quotes both sides. They are the
behaviour of the model, not of a running system: none was reproduced on one.
In `link_formats`, l1 joins `o` to `i1` and l2 joins `o` to `i2`. l1 is PAUSED
with format f; the node of `o` is suspended, so `o` loses its format while `i1`
keeps f and stays READY; l2 negotiates g for `o` and `i2`; then l1 is checked,
`do_negotiate` returns at once because neither port is in CONFIGURE, and
`do_allocation` makes l1 PAUSED with g at one end and f at the other.

**Bounds.** Two helpers are the fewest for which the order of two completions
matters; three generations the fewest for which a wrapped one differs from both
neighbours. Fourteen rows over lines of four give empty lanes, lanes that clamp
to the end and lanes of several lines. A chain of two followers has a
dependency between followers, and the async node the exemption of async nodes;
two operations let a stop follow a start. Two row buffers let a row be offered
while another is on loan; one stop gives one restart. Two links at one port
contend for it, and one fault can hit each step of either. Two buffers of a
Parameter Port let one arrive while the other is with the worker; two tokens
let a request overtake or repeat another. Two queues and three calls let a
queue be taken, returned and taken again between another caller's reading of
the stack and its exchange, exhaust `QUEUES_MAX`, and fill a ring so that the
overflow queue is used. Deadlock is not checked where the system may stop: when
no operation is left, when all rows are out, when a filter has been freed, and
in `loop_invoke`, where `QUEUES_MAX` waiting callers and a called function that
needs one more queue really stop (`NoCallForgotten` says that nothing else
does).

**Fairness.** A thread goes on with a handler it has begun, and a loop serves a
node that was woken, because the code's handlers do not block. In RowTransport
the loop serves every ready fd however many others are ready, hence strong
fairness for its events. In Link the main loop calls the work queue when its
event is signalled and finishes the pass, and a client answers what it was sent.
In NdarrayFilter the loops and the worker run, a driver serves RequestProcess,
and the server acts on the active flag: it starts a node that is active, and
pauses one that is not, though it may pause and start on its own in between,
hence strong fairness for that pause. Nothing makes a source offer a row, a
driver become ready, frames arrive, or a caller call. LoopInvoke has no
fairness: its state graph is too large for liveness, and `NoCallForgotten`
states as an invariant what liveness would need.

**Exemptions in the properties.** `CycleCompletes`, `OneLoopCycleCompletes` and
`DependencyOrder` leave out links that were activated in the cycle itself:
`activate_target` adds to the `pending` of a target that already waits, so the
cycle in which a node is started or linked can stall until the next ready.
`RowsComeBack` leaves out a RequestProcess between the Start command and the
assignment of `info.state`: it is kept for the next start. `IoNotShared` and,
for a local consumer, `Custody` are checked without stops: the first ready after
a restart is admitted without looking at the consumer, and can then meet it
while it still processes, or overwrite the id it left in its io. `NoLostWake` is
checked with a poll driver; a driver that is ready before its graph has finished
can force its own activation to TRIGGERED while another thread is publishing it.

`PreparationEnds` leaves out links that have failed: a late `complete_ready`
takes a link from ERROR to ALLOCATING, and as `preparing` is already FALSE
nothing moves it on. `OwnerSerialized`, `StatusMatchesOwner` and the order of
frames end with the first error: the error event deactivates the owner on the
main loop while the data loop may still be in its process callback. `RunOnce`
lets a blocking caller return before its function has, when that function
itself invoked in the loop's thread: the inner flush acknowledges the outer item.
A failing signal to the parameter worker is taken back only with one Parameter
Port: with two, the worker, awake for the other port, may already have taken what
is taken back.

## What is proved

| module | theorems | for every |
|---|---|---|
| `WorkerGroupProofs` | `IInv`, `TypeOK`, `TaskBorrowedOnlyDuringCall`, `EachLaneRunsOnce`, `NoSlotRace`, `NoHelperLeaks` | number of helpers, generation modulus above one, set of errors |
| `ForkJoinProofs` | `ImplementsForkJoin` | the same, if no error code is the mark of a lane that has not run (`ErrorsAssumption`) |
| `DenseTaskProofs` | `LinesPrivate`, `EveryRowWritten` | number of rows and lanes, size of a line, address |
| `GraphCycleProofs` | `GraphInv`, `RequiredIsActive` | graph, number of data loops, number of operations, kind of driver |
| `RowTransportProofs` | `OneRowLent`; for an exported consumer also `ReturnsAreExact` | set of buffers, number of stops, kind of source |
| `NdarrayFilterProofs` | `IInv`, `OwnerSerialized`, `StatusMatchesOwner` | configuration, number of ports, buffers, tokens and faults |

*WorkerGroup.* None of the four safety properties is inductive. `IInv` adds
where the coordinator can be (`CoordInv`), which threads exist and how far they
may have got (`ThreadInv`), and what the words of a slot say about its hand-off
(`SlotInv`). Its core is that a published slot's `doneGen` equals `nextGen`
exactly when the helper is back at its poll having seen the command; the rearm
in `publish_command` makes that true of a wrapped generation too. `RunsInv` ties
the counts of runs to these positions. `GenArithmetic` holds the facts about the
wrap.

*Refinement.* `RefInv` adds to `IInv` that a lane has an outcome exactly when it
has run, and that in the loop of `run_task` the result is that of the lowest
failing lane among those already waited for. A helper that still runs has a lane
the loop has not come to, so it cannot change that. `NextRefines` maps each
action to one of ForkJoin or to a stutter.

*DenseTask.* `Boundaries` has the arithmetic: the boundaries are in the order of
the lanes, reach from 0 to the number of rows, and one inside the task starts a
line. With the invariant that a lane has written exactly the rows between its
boundary and its position, two lanes always have the start of a line between
them, and the lowest lane whose end is above a row has written that row.

*GraphCycle.* The code tests a flag before it counts (`target->active`); the
model does not, so the count is right only if `activate_target` always meets an
inactive target and `deactivate_target` an active one. `MainInv` says which
targets are active: those of the prepared nodes, but for the node whose handler
the main thread is in, where they depend on the handler and on the targets it
has not come to (`Waits`). The steps of the data loops leave all of this alone
(`LoopKeeps`), also the one that makes the main thread's CAS fail. The claim is
about `required` alone: what `pending` does is model-checked, and
`graph_stop_race` shows where it goes wrong.

*RowTransport.* `LoanInv` says where the row on loan is: in the shared io, on its
way to the filter or back, or in the filter's queue, and nowhere else between
two steps. `FilterPass` follows one call of the filter through its five
functions. The main thread's steps leave the loan alone, which is why a restart
cannot make the core forget it. `OneRowLent` says nothing of a local consumer;
for that one, `ReturnsAreExact` is model-checked only.

*NdarrayFilter.* Neither property is inductive: whether process may run
depends on what the data loop saw at the beginning of its cycle, and the status
on how each handler of the main loop leaves the filter. `FilterInv` says what
every handler keeps (an owner that is ready exactly if the filter is prepared,
a status that is RUNNING exactly then, no request for a state the filter is
in), one lemma per handler; `IInv` adds that a cycle past its first test implies
that the filter is started and, until the main loop has heard of an error,
prepared. `OwnerSerialized` then holds because the node leaves the graph, between
two cycles, before the filter is unprepared; only the error path does not wait.

Only model-checked: liveness (`CallsReturn`, `OneLoopCycleCompletes`,
`RowsComeBack`, `OffersAccepted`, `PreparationEnds`, `RequestsComplete`,
`BacklogServed`, `ParameterReturns`), which is beyond the prover, the buffer
accounting of `NdarrayFilter`, the other properties of `GraphCycle` and
`RowTransport`, and everything about `Link` (whose operators fold over sequences
of links) and `LoopInvoke`.

## Not modelled

Inside the modelled parts:

- *Graph cycle*: remote and exported nodes, activation versions 0 and 1, a change
  of driver, transport sync, segments, profiling.
- *Row transport*: several outputs, returns on the driver's own inputs, removal
  of links and buffers while a row is on loan.
- *ndarray filter*: owner properties, errors of the connection, removal of
  Parameter buffers; the pods of `run-control.c`.
- *Invoke queues*: callers that hold the loop's lock, blocking calls from called
  functions (`loop.h` warns of both), a retry timeout of 0, cancellation, item
  sizes. The tag of the stack does not wrap, where the code's has 16 bits.
- *Links*: reconfiguration of idle nodes, nodes in error, control ports,
  permissions, latency and tags.

Left out as a whole:

- *Data loops and polling sources* (`data-loop.c`): GraphCycle has their effect
  on a node, LoopInvoke the yield of a loop that spins.
- *Streams and filters* (`stream.c`, `filter.c`): RowTransport and NdarrayFilter
  use what they need of `impl_node_process`.
- *Choice of drivers, quantum and rate* (`context.c`, `module-scheduler-v1.c`):
  one sequential computation over properties.
- *Objects, protocol, permissions, memory pool* (`core.c`, `impl-core.c`,
  `resource.c`, `mem.c`, ...): marshalling and input/output.
- *The ndarray filter graph's builder*: configuration parsing.
- *Devices, codecs, network modules, tools* (`spa/plugins/`, `src/modules/`,
  `src/tools/`): upstream back ends tied to hardware, and most of the
  repository's lines.

Next in line would be the buffer queues of `stream.c` and `filter.c`, exported
nodes in GraphCycle, the removal of a link while a row is on loan, and proofs of
the safety of `LoopInvoke`.
