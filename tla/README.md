# A verification of the Sophia session runtime

Sophia runs an AI assistant for many users over many channels. One conversation is a
*session* (or thread), one model turn in it a *run*. This directory holds TLA+ modules
of the part of the server that decides which process may drive a run, what becomes of
the run when that process stalls or dies, how the run's two records, a PostgreSQL row
and a Redis projection, are kept from contradicting each other, how answers and aborts
reach the process that owns a run, how what it does reaches the clients that watch it,
how inbound messages of a channel become runs, and how background tasks and subagents
are queued, killed and waited for. TLC checks the modules on small instances; TLAPS
proves the central ones for every instance.

Source paths are relative to `src/`; *session/* stands for
`internal/agent/runtime/session/`, *inbound/* for `internal/channel/inbound/`,
*background/* for `internal/agent/background/`.
`PROJECT.json` lists every component, run, mutant, mapped definition,
hazard and theorem with its lines.

## 1. Inventory

### The run ledger: *session/ledger*, `db/postgres/queries/session_runs.sql`

*State.* One `session_runs` row per run (session, invocation, position, state,
owner, fencing token, live generation, abort request), the session's next turn
position, and the fencing-token sequence.
*Operations.* One SQL statement each: admit, claim, park (`SetWaitingDecision`),
resume, reclaim, finalize, request abort, draw a token, list stale and orphaned
rows.
*Correct when* a session has at most one active run; one invocation is one run;
terminal rows are final; ownership of a row only moves with a larger token; an
aborted run is never reported lost; tokens follow the order of admission.
*Hard:* the statements come from owners, reapers, retries and aborts that know
nothing of each other, and the admission statement continues on an old snapshot
after it has waited for another transaction's index entry.

### The session runtime: *session/* `Manager`

*State.* Per process, one run control per run (token, ownership contexts,
renewal loop, command executor); shared, the projection, the reservation key and
the lease index of the live backend.
*Operations.* `Admit` -> `claimAndStart` -> `startRun`, event handling, parking on
a decision and resuming, `FinishRun`, abort, lease renewal, shutdown.
*Interactions.* Calls the ledger and the runtime fence (PostgreSQL), the live
backend (Redis), and is called by the turn service, the WebSocket handler and the
reaper.
*Correct when* a claimed run is not fenced out, is executed once, is reachable
under the token of its row, always ends or waits, and ends the same way in both
stores; history is written in the order of the fence.
*Hard:* every step is two stores and a process, each of which may fail between
two calls; three clocks (renewal answer, local deadline, backend expiry) decide
that a lease is over.

### Answers to decisions: *session/* `commands.go`, `internal/agent/application/runtime_decision.go`

*State.* The decision's row with the control id and payload hash that answered it;
per process, the commands admitted and executing by control id, the waiters for
replies and the decisions in a handler; shared, a result per control id, kept for
a time.
*Operations.* `RouteDecisionResponse` on any server, `executeRoutedCommand` on the
owner, `waitCommandResult`, the commit of the answer and the continuation of the run.
*Interactions.* Commands and replies travel over Redis pub/sub, which loses them;
the commit is fenced by the run's token.
*Correct when* the first recorded answer stands, a caller is told "applied" only
of the answer that stands, a repeated answer is not refused after it was
acknowledged, and an answered run goes on.
*Hard:* a reply can be lost after the commit, a retry can meet another server,
another owner, an expired result or its own first execution.

### Aborting a run that is being admitted: *session/* `manager.go`, `commands.go`

*State.* Four flags of the run control under `abortStateMu`, the projection, the
row, three contexts.
*Operations.* `startRun` step by step; `abortLocal` in its three phases;
`abortClaimedAdmission`, `reconcileCanceledRunClaim`, `FinishRun`.
*Correct when* exactly one side ends the run, an acknowledged abort is never
followed by an execution, and the session's slot is given back.
*Hard:* the claim is visible in Redis before the process that made it knows.

### Background tasks and subagents: *background/*, `internal/agent/tool/subagent.go`

*State.* The task table, each task's status, context and wake-up channel; per
agent the request it works on and the queue; the slot of the agent's thread.
*Operations.* Register, mark running, complete, kill (mark, then cancel), stall,
sweep, wait; submit a message, run it, finish, promote the next.
*Correct when* an ended task stays as it ended, nobody sleeps on one, a kill
reaches the run, one request drives an agent at a time, and every queued message is run or
ends with an error.
*Hard:* four locks (table, task, coordinator, the run's slot) are never held
together, so every pair of steps can be cut by a kill or a sweep.

### Approvals that calls wait for: `internal/agent/decision/`, `internal/agent/application/service_tool_approval.go`

*State.* The request's row; per process, the subscribers of a request (each with a
channel of one value) and the number of calls registered for it.
*Operations.* `RunFlow` of a tool call: create the request, register, announce it,
wait, reject it when the wait or the call is over; `CommitToolApprovalResponse`:
find the request, see whether a call still waits, record the answer or reject the
request as expired; cancel what a closed runtime leaves pending; supersede.
*Interactions.* The ACP pool closes the runtime whose calls wait; the fence of a newer
run closes their requests without telling them.
*Correct when* a call goes on with what the row says, no call sleeps through a
decision, an answer is not taken for an orphan while a call waits, and no request
stays pending once nobody waits for it.
*Hard:* the row and the Waiter are changed in separate steps by calls, users, the
pool and newer runs, and a call may be cancelled between any two.

### The runtime fence: `internal/runtimefence`

*State.* One fencing token per session next to the pending decisions.
*Operations.* Activate, fenced transactions, reclaim of a waiting decision.
*Correct when* no writer with an older token gets through after a newer one.

### The live backend: *session/* `redis.go`, `redis_liveness.go`, `memory.go`

*State.* Projection, reservation and lease-index member of each session, backend
generation marker, leader lease, command mailboxes and results, pub/sub.
*Operations.* Redis transactions and scripts.
*Correct when* a reservation always has an index member and updates are fenced to
the reservation.
*Hard:* the whole backend can be replaced by an empty one.

### Snapshots and subscriptions: *session/* `manager.go`, `state.go`, `handlers/runtime_ws.go`, `apps/web/src/store/chat/`

*State.* The projection's epoch and sequence number; per subscription a bounded
buffer at the backend, the cursor last delivered and a queue of frames; per
connection the active subscription and those still being set up; at the client the
view it has reduced, and whether it waits for a snapshot.
*Operations.* Change the projection, publish the delta, subscribe, read a baseline,
forward an event, reconcile on a tick or a marker, drop, report that a subscription
has ended, resubscribe, reduce a frame, reconnect.
*Correct when* the client shows what the projection held at the client's cursor,
never goes back, and catches up once changes stop.
*Hard:* baseline and deltas are read at different moments, deltas of several
servers overtake each other, a full buffer drops events and may drop the marker
that says so, and a lost projection starts over in a new epoch.

### The reaper: *session/* `reaper.go`, `recovery.go`

*State.* Leadership and the candidate of the current pass.
*Operations.* Expired leases, stale generations, orphaned admissions; recovery of
parked runs; marking lost.
*Correct when* every active row is in reach of a live server or of one of its
duties, and repeating or overlapping passes does no harm.

### Inbound channel messages: `internal/channel/inbound.go`, *inbound/* `channel.go`, `dispatcher.go`

*State.* The inbound queue and its worker pool; per route the number of streams
that own it, the injection channel and the queue; per route the cancel function
`/stop` uses.
*Operations.* Accept a webhook, inject, queue, start a stream, answer a pending
decision, forward injections to the run, stop, drain.
*Correct when* the route is owned exactly as long as a stream runs, the last
owner drains, nothing is handled twice or left behind.
*Hard:* "is active" is read under one lock and acted on under another; streams
overlap (refused turns, answers, `/now`, tasks run in nested drains).

### Other components

Approval policies and the user-input flow, turn service, native and ACP agent runtimes,
compaction, discuss driver, channel connections and adapters,
message store, threads, timeline, event hub, schedules, heartbeats, email,
tunnels, user runtimes, workspaces, MCP, hooks, memory, access control, networks,
providers, plugins, display, media, RPC, handlers, clients. `PROJECT.json` says of
each why it is not modelled or when it is planned: those with a protocol of
their own are planned, transports, storage and generated code are not.

## 2. Modules and the code

| module | models | abstract specification |
|---|---|---|
| `SessionLedger` | the ledger contract: each applied SQL statement is an action | - |
| `LedgerAdmission` | `PostgresStore.Admit` and the checks of `Manager.Admit`, statement by statement, several callers | `SessionLedger` |
| `SessionRuntime` | admission, execution, parking, finishing, aborting, leases, shutdown and crashes of servers; Redis transactions; the fence | `SessionLedger` |
| `SessionReaper` | `Reaper.tick`, `markLost`, recovery of parked runs | `SessionLedger` |
| `RuntimeCluster` | owners, leases, faults and reapers composed; fairness; properties | `SessionLedger` |
| `RouteDispatcher` | `RouteDispatcher`, one method a step | - |
| `InboundProcessor` | worker pool, `HandleInbound`, forwarder, `/stop`, drain, composed with the dispatcher | - |
| `ControlContract` | what the entry point for answers promises its callers | - |
| `ControlRouting` | `RouteDecisionResponse`, routed commands, results, commit, takeover of the run | `ControlContract` |
| `AbortHandshake` | `startRun` against `abortLocal`, one run on one server | - |
| `BackgroundTasks` | the task table, adopted commands, kill, sweep, waiters | - |
| `SubagentQueue` | the coordinator's queue and the goroutines of requests, composed with the table | - |
| `EventStream` | the projection's changes and deltas, `Manager.Subscribe`, the subscriptions of a connection, the web client's view | - |
| `ApprovalFlow` | `RunFlow`, the `Waiter`, answers to calls of an ACP runtime, the cleanup of the runtime, superseding | - |
| `SessionLedger_proofs` (the ledger and its admission), `RuntimeCluster_proofs`, `InboundProcessor_proofs` (the processor and its dispatcher), `ControlRouting_proofs`, `AbortHandshake_proofs`, `SubagentQueue_proofs`, `EventStream_proofs`, `ApprovalFlow_proofs` | theorems | - |
| `MC*` | symmetry sets and instance constraints for TLC | - |

**`SessionLedger`.** `rows` is the table, `nextPosition` the position counter of a
session, `tokenSeq` the sequence. `drawn` is a history variable: which token was
drawn for which run. An update that matches no row changes nothing, so only
applied statements are actions; each guard is the statement's WHERE clause.

**`LedgerAdmission`.** A caller goes through `peek` (unlocked fast path), `begin`
(the snapshot of the statement is taken), `write` (row lock and unique indexes
see the latest rows, the guard sees the snapshot), and `reselect` (the invocation
is read again after a conflict). Sessions may be deleted and runs may end at any
time. `AdmissionContract` is the ledger's specification.

**`SessionRuntime`, `SessionReaper`, `RuntimeCluster`.** `exec[p][r]` is the goroutine
and run control of run `r` at server `p`, its `pc` the next call it makes. `view`, `ref`
and `index` are the projection, the reservation key and the lease index; `index` members
carry whether their deadline has passed. `fence` is the session's fencing token,
`decision[r]` the token of a pending decision. `started`, `lastWrite` and `halted` are
history. `reap[p]` is a reaper's pass. A call to PostgreSQL or Redis is one step, and
what a server does between two calls belongs to the first. The owner acknowledges an
abort as long as its control is registered, also after the execution has resolved how it
ended (`commands.go:245-256, 872-898` look at the projection and the lease only; the
check of `commandsActive` in 1050-1054 is on the routed path): `AbortRun` is enabled
until the slot has been released, and finishes a parked run only when the read at
`commands.go:304-307` saw the decision (`asked`), so a run that parks between that read
and the acknowledgement stays parked. `halted` remembers the aborts acknowledged before
the outcome was resolved. Two `FinishRun`s of one control, the execution's and an
abort's, are one here: the conditional UPDATE lets one of them write the row, and the
model chooses which outcome it carries. A sweep of the reaper reads the generation
marker (`RefreshGeneration`) and lists the rows (`ListStale`) in two calls; a sweep is
left out of instances with one generation, where it finds nothing. A run is named by its
invocation. Time is not modelled: expiry is an event, possible for free when nobody
renews, and a fault when the owner is alive (a pause of a whole lease).

**`RouteDispatcher`, `InboundProcessor`.** `stack[w]` holds the nested calls of
`HandleInbound` in worker `w`, since `drainQueue` runs queued tasks in the goroutine
that drains. The session runtime is seen as `slot`, the active run of the thread.
`outcome` is history. Adapters that hold a long connection call the processor from their
own goroutines (`connection.go:180`); they are workers whose inbox is the connection. A
message carries its mode; the prefix parser is left out. A stream that cannot be opened
is left before it marks the route (`OpenFails`), and one whose replies cannot be pushed
is left while its run still goes on or ends (`Abandon`, `DetachedRunEnds`), so a drain
may come before the slot is free. `Cleanup` and `AddPendingPersist` have no callers
outside tests and are not modelled.

**`ControlContract`, `ControlRouting`.** The contract knows calls, answers and what
each call was told; the route is shown to implement it by mapping the decision's
row to the answer that stands. A process is a call of the entry point or a
server's worker for a control id (`admitCommand` admits one command of a control
at a time). `results` are the shared results, `executing` and `inflight` the two
maps of the owner, `net` the published messages: one that is never delivered is
lost. `errors` bounds failing calls, lost leases and crashes together. Payload
hashes are the payloads. `SetCommandReconciler` has no caller outside the tests, so
no command is reconciled.

**`AbortHandshake`.** `flags` are the four booleans of `runControl`; a section under
`abortStateMu` is a step and so is a call to Redis or PostgreSQL. `ending[x]` is the
status a process passes to `FinishRun`, `takers` the history of who was made the
finalizer. A call to Redis may fail and have been applied, the promotion to running
included. After a failed reservation the flag is read (`LookForAbort`) before the
control is removed (`RemoveControl`), and an abort may enter in between.

**`BackgroundTasks`, `SubagentQueue`.** `status`, `ctx`, `listed` are a task's state,
its cancel function and its place in the table; `killing` marks a `Kill` between its two
sections. `pc[t]` is the goroutine of a request, `current` and `queue` the coordinator's
state, `slot` the run that holds the agent's thread.

**`EventStream`.** `proj` is the projection, its content the sequence of changes made to
its run; `row` is the run's row, from which a snapshot is filled when the projection has
no run (`Loaded`). A change and its publication are two calls, so `unpublished` deltas
leave in any order. `stream[f]` is a subscription: the place it is at (`at`), its
backend buffer (`buf`) with the marker that replaces dropped events, the cursor it has
delivered (`last`), its frames (`out`) and whether it still runs (`live`). The client is
`connected`, `awaiting` a snapshot, has `asked` for one, and shows `view`. `hist` is
history: every content the projection had, by cursor. A lease renewal rewrites one
timestamp of the projection without counting it or sending a delta (`redis.go:509-520`),
so it is no change here; and the row that stands in for a projection without a run is
read in the step that reads the projection, where the code makes two calls
(`manager.go:1314-1342, 1399`).

**`ApprovalFlow`.** `row` is the request, `stale` says that the session's fence has
moved past the run that made it. A process is a call, an answer or the pool;
`subscribers`, `heard` and `registered` are the Waiter, and each of its sections under
the lock is a step apart from the UPDATE that decides the row; a `Notify` takes the
subscribers' channels under the lock (`TakeSubscribers`) and sends to each afterwards
(`SendOn`). An expiry that finds the row decided is acknowledged to the user all the
same (`ExpireLost`, `service_tool_approval.go:78-81`). `ctx[f]` is the context of a
call, of which the wait has a shorter one. `out` and `said` are what a call goes on with
and what became of an answer.

## 3. Model checking

Bounds appear as constants: `MaxToken`, `MaxPosition`, `MaxFaults` bound the
counters and the number of injected faults; `Faults` says which kinds.

| run | instance | properties |
|---|---|---|
| `admission` | 3 callers, 2 invocations, 2 payloads, 2 run ids, 2 owners, 2 generations, 2 tokens | admission is atomic in effect, one input per invocation; the ledger's invariants, inductive one included, and final outcomes while runs are claimed, parked, reclaimed, aborted and ended |
| `runtime_condemned` | 1 server, 2 runs, 1 of lost lease, crash, failed ledger write | a condemned run's late writes, members of the lease index, refinement of the ledger |
| `runtime_faults` | 2 servers, 1 run, 3 tokens, 1 of expiry, crash, shutdown, pause, store error | ownership, fence, routing, index and decision stay together; a stopped execution is no success |
| `runtime_settles` | 1 server, 1 run, 2 generations, 3 tokens, 2 of lost lease, pause, backend loss, fair | a run in progress ends or waits |
| `inbound` | 3 messages in all mode combinations, 2 workers, 1 injection slot, 2 inbox slots, fair workers | route ownership, drains, no duplicates |
| `abort` | 3 abort requests, 2 failing calls, fair | one finalizer, an acknowledged abort is final, the slot is given back |
| `control` | 2 calls, 3 answers under 2 control ids, 2 servers, 2 tokens, 1 fault, 1 republication | one execution, refinement of the contract |
| `control_settles` | 2 calls, 2 answers, 2 servers, 1 fault, fair | callers return, an answer continues its run or its caller heard that it failed |
| `subagents` | 3 messages to one agent, 1 failing call, fair | queue, slot, kills, every message settles |
| `background` | 1 adopted command, 1 subagent task, 1 waiter, fair | waiters are woken, the end of a command is reported |
| `stream` | 2 subscriptions, 3 changes, 2 epochs, buffers of 1 and 2, 1 failing call or broken connection, fair | the view is authentic, never goes back, catches up |
| `approval` | 2 calls of one request, 1 answer, the pool, 1 failing statement, fair | calls follow the row, sleep through nothing, are not orphaned, leave nothing pending |

*Why these bounds.* In `admission` two runs are one that ends and its successor, or two
that compete; three callers are two that race and one that repeats an invocation, two
tokens a claim and a reclaim by the other owner. In the runtime a fault matters only
against a run in progress and its successor or recovery: two servers give a holder and a
peer, two tokens a takeover, three a takeover of a takeover. One fault at a time is what
the code's own comments reason about; the configurations of section 4 use two where the
defect needs two. In `runtime_settles` one server is both the owner and the reaper that
condemns or recovers what it lost, since every duty of a reaper is one any server may
do; two faults are a lost lease whose recovery is disturbed again, and two generations a
backend and the one that replaces it. A run leaves out the faults under which section 4
shows its property false: a failover for routing, a failed terminal write for settling,
a replaced backend for a stopped execution. In `inbound` three messages are a stream, a
second stream or answer that overlaps it, and a message that meets both; the capacity of
one makes the refused injection happen. In `abort` two requests race each other and the
admission, a third meets what the two left. In `control` two calls are a call and its
retry, or two clients that disagree; of the three answers two share a control id and
differ in their payload, the third comes under its own; two servers are the owner and
another, which takes the run over in the second token. Three messages to a subagent are
one that runs, one that is promoted and one behind it. The fairness runs of the command
route use one token, since the takeover of a run has its liveness run in
`runtime_settles`. In `stream` two subscriptions are the one that ends and the one that
replaces it. A buffer of one overflows at the second delta, so that a marker replaces an
event and is itself replaced; three changes are two that overtake each other and one
that the baseline has seen or missed. Two epochs are a projection and the one after its
loss, and the one failure is a delta that is not published or not received, a
subscription that breaks or is refused, or a connection that does. In `approval` two
calls are one that goes and one that still waits, which is when a Waiter that forgets
too much shows; the one answer meets the pool, the wait's end and a newer run, which
decide as well. Deadlock is not checked anywhere: a system whose runs have ended and
whose messages are handled rests, and the counters are bounded.

*Symmetry* is used for runs, owners and invocations, and in `control` for calls and
the two answers of one control id, in runs without liveness. In
`inbound` one assignment of modes to messages stands for its permutations
(`ModesInOrder`), which is sound for liveness as well.

*Fairness.* `FairRuntimeSpec`: a goroutine that has a call to make makes it (weak
fairness per server and run), a turn ends by itself, renewal loops act on a refused
renewal, a pass of the reaper goes on (weak fairness of `PassStep`) and the ticks of the
leader come round to what a duty can find (strong fairness of `ScanFinds`: a candidate
comes and goes while leadership moves, but the ticker fires for ever), an unrenewed
lease runs out, a process told to shut down exits. Crashes, aborts, answers, and
admissions of new runs are never forced. In `InboundSpec` each worker is weakly fair and
a turn with a stream ends; arrivals, `/stop`, forwarders and runs whose stream was left
are not. `QueuedWhileActiveIsTaken` is about finitely many messages: with streams that
overlap for ever the last owner need never leave, and the model makes no claim about
that. `HandshakeSpec` and `RoutingSpec` are weakly fair for the goroutines of the calls
and workers they model, the former also for the expiry of a lease nobody renews, the
latter for a started continuation and the reaper that condemns a run without owner;
nobody is made to call, to answer or to abort, and messages may be lost, which a bounded
wait covers. `QueueSpec` is weakly fair for the goroutines of requests and commands and
for the second half of a `Kill`; an execution returns because its context has a
deadline, while sweeps, deadlines and commands in a container are not forced.
`StreamSpec` is weakly fair for what runs by itself: the forwarder takes the events of
its buffer (`TakeEvent`) and its ticker fires (`Tick`), the server works on a
subscription that was asked for (`ServerStep`), the client handles the frames it has
received (`HandleFrame`) and reconnects (`Connect`). Nobody is made to change the
projection or to publish a change, and none of it depends on the publication: a delta
may be lost for good. `ApprovalSpec` is weakly fair for the calls and for the end of
their wait, which has a timeout, for an answer that began and for the pool's
notification; no user is made to answer, no call to be cancelled, no runtime to be
closed and no fence to move.

Every property of a passing run has a mutant in `PROJECT.json`, a plausible bug
in one mapped definition (an `..._Unchecked`, `..._Forgets...` operator beside the
real one) under which the property fails.

## 4. Where the code and what it says of itself disagree

The runs above all pass. The configurations below are kept beside them and checked by
hand with `tlc -config <cfg> <module>` (`Inbound_promises` and `Runtime_promises` list
several properties: leave the one to look at). Each ends in a counterexample that the
code reproduces:

| configuration, module | property | what happens |
|---|---|---|
| `Runtime_crash_before_reserve`, `MCRuntimeCluster` | `Reapable` | a server dies between the durable claim and the live reservation; no duty of the reaper selects the running row, which `reaper.go:309-313` and `admit.go:319-323` say is covered |
| `Runtime_crash_in_recovery`, `MCRuntimeCluster` | `ParkedRunKeepsPointer` | a reaper dies between reclaiming a parked row and reserving it; the old index member, "the retry pointer" of `recovery.go:17-19`, is dropped by the next pass |
| `Runtime_failed_finish`, `MCRuntimeCluster` | `RunsSettle` | a failed terminal write leaves the renewal running, so the lease never expires; `manager.go:967-970` says renewal has stopped |
| `Runtime_promises`, `MCRuntimeCluster` | `StatusesAgree` | the end event drops the lease before the row is final; a renewal in between revokes the owner and the reaper records lost |
| `Runtime_shutdown_parked`, `MCRuntimeCluster` | `ParkedRunKeepsPointer` | shutdown releases the lease of a run whose row it leaves active |
| `Runtime_promises`, `MCRuntimeCluster` | `AbortNeverCompletes` | an execution has resolved that it completed (`manager.go:966`), an abort reaches its owner, which acknowledges it in the projection (`commands.go:872-898`), and the row is then written completed (`manager.go:967`); SR-CTL-001 (`docs/design/session-runtime-requirements.md:131-139`) wants the acknowledgement to say what became of the run |
| `Runtime_abort_backend_loss`, `MCRuntimeCluster` | `StoppedNeverCompletes` | an aborted execution whose projection is gone finishes as completed |
| `Runtime_promises`, `MCRuntimeCluster` | `AbortedNeverParked` | a decision event in flight overwrites the aborting status |
| `Runtime_failover_recovery`, `MCRuntimeCluster` | `RoutedToOwner` | two passes recover one run across a change of leadership, the slower one reserves a superseded token |
| `Runtime_blocked_recovery`, `MCRuntimeCluster` | `Reapable` | the same two passes: the faster one's reservation is refused while the slower one holds the run, and no member of the lease index carries the row's token |
| `Ledger_generation`, `MCLedgerAdmission` | `GenerationStampedOnce` | reclaiming overwrites the generation its comment calls never updated |
| `Inbound_promises`, `MCInboundProcessor` | `BusyIsRedelivered` | a busy message was acknowledged to the platform before it was refused, so no retry carries it, as `channel.go:1235-1241` expects |
| `Inbound_promises`, `MCInboundProcessor` | `QueueHasOwner` | a message is queued after the last owner has drained and waits for the next one |
| `Inbound_promises`, `MCInboundProcessor` | `InjectionKept` | an acknowledged injection is discarded with the last owner, or by a forwarder whose run has ended |
| `Inbound_promises`, `MCInboundProcessor` | `StreamIsStoppable` | a refused or overlapping stream removes the running one's cancel function |
| `Abort_lost_slot`, `AbortHandshake` | `SlotReleased` | a Redis call fails in the abort of a run being admitted; the row ends and the slot stays taken while its lease is renewed |
| `Abort_unexplained`, `AbortHandshake` | `AckedEndsAborted` | a run whose abort was acknowledged before its claim is recorded as failed |
| `Control_unanswered`, `MCControlRouting` | `AnswerContinues` | a commit whose reply is lost records the answer and is not continued; the retry is told it was applied |
| `Control_refused`, `MCControlRouting` | `RecordedNotRefused` | a call whose answer was recorded by an earlier, failed attempt under another control id is refused |
| `Subagents_lost_message`, `SubagentQueue` | `QueuedMessageRuns` | the retention sweep of `manager.go:695-701` takes a queued message, which has no completion time, for one that ended long ago; its promotion does not find it, and it is never run, though its sender was told "Message queued". With a sweep that spares queued tasks the property holds on the same instance |
| `ApprovalFlow_dangles`, `ApprovalFlow` | `RequestSettles` | a statement fails while a call waits, or while it rejects its request; the call returns, nobody waits, and the row stays pending, which `flow.go:110-111` and `162-163` say cannot be. An answer, the end of the runtime or a newer run closes it, if one comes |
| `EventStream_loss`, `EventStream` | `LossIsShown` | a subscriber that was reconciled onto a new epoch before its run was recorded lost is not told: `markLost` writes the row only, and a tick at an equal cursor sends nothing, while `manager.go:1378-1384` wants such a run reported `lost` and `docs/design/session-runtime-requirements.md:113-125` wants it shown |
| `EventStream_refused`, `EventStream` | `ViewCatchesUp` | a subscribe that is answered with an error is not repeated until the connection breaks; the client waits for a snapshot that nobody sends |
| `Background_kill`, `SubagentQueue` | `KillStopsCommand` | killing an adopted command ends its record and leaves the command running in its container |

## 5. Proofs

All theorems are checked by TLAPS to the last leaf. They assume only the named
assumptions of the modules (finite bounds are naturals, the null values lie
outside the sets they extend), which TLC evaluates on the instances.

**The ledger (`SessionLedger_proofs`).** `LedgerInvariant` is the inductive
invariant; `TypeOK`, `SingleActive`, `OneRunPerInvocation`, `PositionsDistinct`,
`TokensFollowAdmission`, `TokensDistinct` and `AbortSurvivesLoss` follow from it.
The strengthening is needed because a claim compares tokens on one row only:
nothing in the statement says that a later run's token is larger. What orders
the rows is that the active row of a session is its newest (`ActiveIsNewest`,
`PositionsBelowNext`), and that a token is drawn for a row that exists, after
every token of the rows before it (`TokensAreDrawn`, `DrawnForRows`,
`DrawnFollowAdmission`). Statements fall in two kinds, admission and the rewrite
of one active row, and `RewritePreserves` treats the second once.
`TerminalIsFinal` and `OwnershipMovesForward` are action properties proved from
the same invariant.

**The runtime (`RuntimeCluster_proofs`).** For any servers, runs, generations and
any number of faults of every kind: `RuntimeImplementsLedger` (so every theorem of
the ledger holds of the deployed runtime), `OwnersKeepTheFence`,
`TurnsAreBuiltOnce`, `DecisionsFollowOwners`, `ReservationsAreIndexed`,
`WritesAreOrdered`. None is inductive. The fence says nothing of rows, so
`FenceInvariant` adds that some row always has a token as large, and
`ClaimInvariant` that a server past its claim holds the token of its row unless the
fence has followed a reclaim past it; that a run in progress is then not fenced out
is the ledger's order of tokens. A turn is built once because a claim finds its row
accepted, when nobody can be past a claim of it (`StartInvariant`). That a reaper's
late `Drop` never removes the member of a live reservation rests on
`TokenInvariant`: a token about to be reserved is new, so it is in no member and no
candidate, and a candidate's token is reserved by nobody. Most steps are *calm*,
they continue with what they have or lose it, and `CalmStep` covers them; the ones
that draw, claim, reserve, build, take a candidate or reclaim have proofs of their
own.

`RoutedToOwner` (a live reservation carries the token of its row) is not true under
every fault: section 4 shows two passes of different leaders recovering one run. What is
true is `LonePassesRoute`: it holds as long as one reaper at most is in a pass, whatever
else happens. `BuiltInvariant` holds without that condition; it says that whoever is
about to reserve a run holds the token of its row, and that only a built turn parks, so
a reclaim never overtakes a claim that is still to be reserved. The rest,
`PassInvariant`, is where a second pass would do harm: what a pass is about to reserve
is the row's token, and no reservation appears while it draws and reclaims. Without a
failover past a live leader and without a backend that comes back empty (`Undisputed`,
an assumption on `Faults`) a pass ends before the leadership moves (`PassLeads`), so
`PassesAreAlone` and, of every such deployment, `CommandsReachTheOwner`.

`StoppedNeverSucceeds` proves `StoppedNeverCompletes` of the same deployments: once the
backend is replaced it is false (section 4), as the projection that remembers the abort
is gone. It speaks of the aborts acknowledged before the execution resolved its outcome;
later ones are accepted, in the model as in the code, and the row may then say completed
(section 4, `AbortNeverCompletes`). An abort stops an execution in one place and the row
is ended in another, by a server that asks the projection how a finish without an
outcome is to be recorded. So `AbortInvariant` follows the answer: while a stopped
ownership holds its row, the projection names that ownership and a status that does not
resolve to a success (`HaltInvariant`). For that to stay so, nobody else may write to
the projection under that token or bring it back: a token is held by one server or by
one reclaiming pass (`HoldersDiffer`), whoever is about to reserve has a row in progress
(`ReservedAreActive`), no claimed run is of another generation, so that none is
condemned beside the lease index (`GenerationKept`), and who records a success is left
with nothing but the release of the slot (`OutcomeInvariant`). Most steps are *steady*
(nobody claims, the projection goes on showing what was stopped), and `SteadyKeeps`
covers them; the draws, the claim, the reclaim, the two reservations and the abort
itself are proved one by one.

`ReservedRunsAreFound` proves `ReservedIsFound`, with every kind and number of faults:
while the projection shows the ownership that a run in progress has, the lease index
holds its member. (A shutdown takes the member of a run it has reported lost in the
projection; the property excludes those. A run that is claimed and not yet reserved, or
reclaimed and not yet reserved, is not shown: that such a run is found is `Reapable`,
which section 4 shows broken.) A member is taken away by a server that gives back its
slot and by a pass that drops its candidate, each long after it decided to.
`FoundInvariant` says of both that the ownership they remove has lost its row
(`Removing`), and of who is about to reserve that its token is not shown yet, so that a
reservation and its member appear together. A step gives no row a token (`NoneArrives`),
or the one that was about to be reserved (`RowsArrive`); `FoundStep` puts these
together.

**Admission (`SessionLedger_proofs`).** `AdmissionRefinesLedger`: every step of
every caller is an `Admit`, a `SkipPosition` or a stutter of `SessionLedger`, so
the ledger's theorems hold of it. The one fact that needs an invariant is that a
second read after a conflict finds the row: rows keep their session and
invocation and do not disappear. `OneInputPerInvocation` adds that the callers of one
invocation that were given its run came with the same input.

**Inbound messages (`InboundProcessor_proofs`).** Whatever the order of the dispatcher's
calls, no injection stays in the channel of a route without an owner
(`NoStaleInjection`), and the channel keeps its capacity. `PoolImplementsDispatcher`
carries this over to the real callers: a step of a worker, a forwarder or `/stop` is one
call of the dispatcher or none. `MessageInOnePlace`: an accepted message is in one of
the lists of the pool and in it once. They are filled and emptied by different
goroutines, so the invariant (`Position`) says of all of them at once that no list
repeats a message, one call and one task at most works on it, these exclude each other,
and a message that has no outcome yet is in none of them; the lemmas on lists
(`AppendOnce`, `TailOnce` and their like) say what a move does to that.

**The command route (`ControlRouting_proofs`).** For any calls, answers, control ids,
servers, republications and faults: `OneExecutionAtATime` and `RouteImplementsContract`.
The second is about what callers were told long before, so `RoutingInvariant` follows
the word "applied" wherever it can be, in a stored result, a reply, a message or a
worker: it is never ahead of the row (`AppliedStands`). That a repeated answer is not
refused rests on where the repeat can get (`RepeatsStand`): it finds its answer in the
result or in the row and never becomes a command. The map of executions and the
processes that execute are the same thing (`ExecutionsMatch`). `RoutingAssumption` says
that a call's name is not the name of a worker.

**The abort handshake (`AbortHandshake_proofs`).** For any number of abort requests
and failures: `FinalizerIsUnique` and `AcknowledgedAbortIsFinal`. Neither is
inductive. One finalizer needs that the flag is up as soon as there is one
(`FlagFollowsTaker`); that an acknowledged abort is final needs that its request is
on record (`RequestOnRecord`), and that an aborter only finishes a run it has taken
(`FinishesWhatItTook`). The steps fall into three kinds, those that leave the flags
alone (`QuietStep`), those that take the abort (`TakingStep`) and the entry of an
abort, and each action is shown to be one of them.

**Background tasks (`SubagentQueue_proofs`).** For any tasks, waiters and failures:
`SleeperIsWoken`, `KillIsNotLost`, `EndedIsFinal`. What has to be added is that a
command is never queued and cannot stall before it has a goroutine
(`CommandsStartRunning`), and that a request a goroutine works on runs with a context or
was killed with one there to be cancelled (`WorkHasContext`). Nothing is needed of the
order in the queue, so these hold whatever the coordinator does. The coordinator has an
invariant of its own, `AgentInvariant`: one goroutine drives, on the current request, or
on the one it has just taken off the queue (`DriverHolds`); a queued request is queued
once (`QueueHolds`); the slot is held by the request that executes, unless a call failed
(`SlotHeld`). From it follow `OneDriverAtATime` and `SlotIsFreeForSuccessor`.

**The stream (`EventStream_proofs`).** For any number of subscriptions, any buffers
and any number of changes, losses and failures: `ViewIsAuthentic` and
`ViewMovesForward`. What the view shows says nothing about what is on its way, so
both need an invariant of every queue. `StreamInvariant` follows the entries of the
history: a cursor names one content, a new entry lies beyond those of its epoch, and
a delta leads from the entry before it to its own, so a delta or snapshot that was
right when it was made stays right, wherever it is. `OrderInvariant` says that the
frames of a subscription follow each other up to its cursor, where the marker can
only be the last. It rests on the protocol with the client: a subscription is asked
for only when the last frame of its predecessor has been read (`AskInvariant`), so
the frames of two are never under way together. Each action of the server, the
backend and the client has its lemma.

**Approvals (`ApprovalFlow_proofs`).** For any number of calls, answers and failing
statements: `CallsReadTheRow`, `SleepersAreTold`, `AnnouncedHaveWaiters`. The first
relates a call that returned to an answer given long before, so `FlowInvariant` has
to say who carries a decision in between: what was heard is what the row says
(`CallFits`), an answer that was recorded is still the row's (`AnswerFits`), and as
long as no statement failed and the fence has not moved, some call is on its way to the
decision or went on with it (`Heir`). That a sleeper is told rests on the order of
`Await`: a call that polls or sleeps has subscribed, or has its value.

**Only model-checked:** of the safety properties of the runs none. Liveness under
fairness (`RunsSettle`, `QueuedWhileActiveIsTaken`, `SlotReleasedUnlessRefused`,
`CallersReturn`, `AnswerContinuesOrFails`, `QueuedMessageSettles`,
`EndedCommandReported`, `ViewCatchesUpUnlessRefused`, `RequestSettlesUnlessFailed`) and
anything about ENABLED is out of the prover's reach and stays with TLC, as do recursive
definitions and induction over data, of which the modules use none. The type invariants
`InboundTypeOK` and `RoutingTypeOK` are conjuncts of the invariants proved;
`RuntimeTypeOK` is stated in its module and holds on the instances of its runs: to check
it, add it to the configuration.

## 6. What is not modelled

* Steering: nothing outside tests calls `SteerRun`, and the forwarder of injections
  drops the callback that would mark a steer applied (`application/service.go:506-518`),
  so a model would describe a protocol the program does not run.
* Of approvals: the policies that need none, hooks, several requests of one session,
  crashes (a crash ends the calls with their Waiter), and the user-input flow.
* Retrying a failed live release, the replay of an abort by its control id,
  the projection-based dispatch older callers use, the runs of the memory backend.
* Of subscriptions: unsubscribing, several clients of one connection, the sessions
  list, and what a delta holds beyond being a change.
* Of background tasks: commands started in the background, spawn batches, video
  tasks, output files and the notification of the parent.
* Two decisions of one run, and an answer racing the parking of its own run: the
  route is modelled from the parked run on.
* Paging of the reaper's generation sweep: a pass may take any stale row.
* Real time, key expiry rounding, the content of events, prompts and history.
* Two sessions at once: nothing but the token sequence and the leader lease is
  shared between sessions, and both are steps others may interleave.
* Of `HandleInbound`, what precedes the routing decision (identity, access,
  commands, attachments, skills) and the formatting of replies.
* The components listed as `not_modelled` in `PROJECT.json`.

## 7. Plan

In order of weight:

1. The user-input flow beside the approval flow, composed with parking and resuming;
   its listings and prompts in channels.
2. The runtime fence as a module with its abstract specification, a monotonic
   token that orders writers, refined by activation, fenced transactions and
   reclaim.
3. The memory backend as a second implementation of the live backend's contract.
4. Discuss workers, compaction, ACP pool: in-process life cycles with
   cancellation races and limits; spawn batches on top of the task table.
5. Schedules, heartbeats, the user runtime hub, channel connections; the timeline
   fold as operators checked against a reference.

Theorems planned: `RuntimeTypeOK` for every instance. Runs stay few: the runtime's
faults are grouped by what they threaten, and each new module brings one passing run
with its liveness property where it has one.
