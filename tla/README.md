# TLA+ models of Hexabot's workflows

Hexabot is a platform of conversational agents: a NestJS API
(`packages/api`) stores workflows and runs them with the engine of
`packages/agentic`. A *run* of a workflow is a row of the table
`workflow_runs`. It goes on in *passes*, each of which some API process
executes, and between two passes it is suspended on *waits* (a chat reply, an
admin's decision, the result of a workflow it called), possibly for days. The
hard part of the system is here: several processes, timers and handlers work on
the same rows, any of them may die or come late, and no transaction spans two
awaits. The first modules are about these rows. Others are about what a pass
does (the engine, which must go on from a checkpoint as if nothing had happened)
and about what one process keeps in memory between awaits: the connections to
MCP servers and the cron jobs of workflows.

Paths below are relative to `packages/api/src/workflow` unless they start with
`packages/`.

## Inventory

| Component | State | Operations | Interacts through | Hard behaviour | What makes it correct |
|---|---|---|---|---|---|
| Runs, claims and leases (`repositories/workflow-run.repository.ts`, `services/workflow-run.service.ts`, `lib/run-lease.ts`) | `workflow_runs` (status, claim id and expiry, checkpoint, `suspended_at`, recovery count); in memory, the set of leases held | create claimed, claim a suspension, settle, put back, take over, renew, find and recover lapsed claims | conditional UPDATEs; `postUpdate` events after a read-back | stale reads, late passes, a write that applied but whose read-back failed, process death | a suspension goes on once; a late pass never overwrites; ended is final; a claim and its status change together |
| Passes (`services/workflow-run-executor.service.ts`) | the run as it was read, its lease | start, resume, fail an unresumable run | claims, engine, call stack | refusals, crashes, a lost claim | one of four endings, each under the claim |
| Recovery (`services/workflow-run-recovery.service.ts`) | health, the renewal and the sweep in flight | renew (TTL/4), sweep (TTL/2), put back, fail, give up | claims, call stack | a database outage looks like everybody's death; sweep racing renewal | only lapsed claims are recovered; a process keeps its own passes |
| Call stacks (`services/workflow-call-stack.service.ts`, `lib/workflow-call-stack.ts`, `cancelAbandonedRuns` and its neighbours in `workflow-run.service.ts`) | no state of its own: `parentRun`, `callerRunId` and the waits in checkpoints | reconcile, deliver a result, cancel abandoned runs and descendants | reads the rows around a run, one query at a time | results that come while the caller is busy; reads of two rows at two times | no result missed, none delivered twice, no wanted run cancelled, no unwanted one left |
| Agentic service (`services/agentic.service.ts`) | none | dispatch an event, start, resume a wait, call a workflow, cancel, hold an event | all of the above | which run takes an event | the deepest run with a wait the event resolves |
| Operator service (`services/workflow-run-operator.service.ts`) | callers noted between two deletion hooks | admin decisions and cancels, the hooks around a workflow deletion | claims, call stack | deletion while runs go on | as for the call stacks |
| Engine (`packages/agentic/src`) | steps, outputs and suspension positions of one pass; the checkpoint it exports | run, resume, suspend; parallel, loop and conditional steps; retries and timeouts | the executor | branches racing, a body that runs again up to the wait it is resumed from, a timed-out body that goes on | a resume goes on at the wait it names; `wait_all` / `wait_any` end as documented |
| MCP client pool (`services/mcp-client-pool.service.ts`) | pooled and connecting clients, idle timers | fetch, invalidate, shut down | MCP servers | single flight, idle timer, shutdown | no leaked connection, no stale settings |
| Scheduler (`services/workflow-scheduler.service.ts`) | registry of cron jobs | register at boot, on update and on deletion | workflow events | concurrent updates | one job per scheduled workflow, with its current schedule |
| Threads (`packages/api/src/chat`) | threads, subscribers, messages | open, reopen, close | closes runs | closing while a pass goes on | nothing is left to run in a closed thread |
| Everything else: workflow versions, webhooks, memory, jobs, channels, websocket, users, CMS and RAG, licensing, settings, audit, migrations, user interfaces | rows and configuration | data management and I/O | | | see `PROJECT.json`, with the reason each is left out |

## Modules

| Module | Models |
|---|---|
| `WorkflowRunClaims` | who may write a row, and what: claims, leases, renewals, sweeps, crashes |
| `RunOwnership` | abstract specification: exclusive ownership of a run, one suspension at a time |
| `WorkflowRunClaims_proofs` | theorems about `WorkflowRunClaims`, and that it implements `RunOwnership` |
| `WorkflowCallStack` | how results and cancellations travel between runs that call each other |
| `EventDispatch` | which run of a conversation takes an event |
| `StepSuspension` | how one step suspends and is replayed, under retries and timeouts |
| `ParallelBlock` | the branches of a parallel block over all their interleavings |
| `FlowTree` | compiled flows as trees, and what is assumed of them |
| `FlowExecutors` | the executors that walk a flow, one stretch between a call and a return at a time |
| `FlowWalk` | abstract specification: a flow that nothing interrupts |
| `FlowFrames` | how a run stops at waits, is checkpointed and gone on with |
| `McpClientPool` | the clients connected to MCP servers |
| `McpClientPool_proofs`, `StepSuspension_proofs`, `ParallelBlock_proofs`, `WorkflowCallStack_proofs`, `EventDispatch_proofs`, `FlowFrames_proofs` | theorems about each; the last that `FlowFrames` implements `FlowWalk` |
| `WorkflowCallStackDebts_proofs` | theorems about what workers owe to the runs of a call stack, over `WorkflowCallStack_proofs` |
| `WorkflowScheduler` | the cron job of a workflow |
| `...MC` | instances of each for TLC: call trees, flows, blocks, bodies, symmetry |

Three modules look at the rows of runs from three sides. `WorkflowRunClaims` has
time, tokens, leases and failures but sees one run at a time: what call stacks
do to it is resumes and cancels that any process may issue at any time.
`WorkflowCallStack` takes from it that a claim is exclusive
(`OneOutcomePerSuspension`, `OutcomesAreFenced`) and reduces a claim to the
worker that holds it; it adds the links between runs and the reads that follow
a pass. `EventDispatch` lets anybody do the writes and the queries of a
reconcile, has the workflows, the kinds of waits and the checks of a call that
the other leaves out, and asks who gets an event at any time in between.

Three modules look at a pass. `FlowFrames` walks nested steps and has the frames
of every kind of step, `ParallelBlock` the two strategies of one block with
failures and cancellations, `StepSuspension` the calls of the bodies of one
scope. Each takes from the others what it leaves out: tasks of `FlowFrames` ask
for one wait at most and cannot fail, and all its blocks are `wait_all`.

### WorkflowRunClaims

* `row[r]` holds the columns the protocol uses. `checkpoint` numbers the
  checkpoints of a run, 0 standing for NULL; `suspendedAt` is the timestamp a
  claim compares. They differ only when `DistinctTimestamps` is FALSE: two
  suspensions in the same millisecond then carry the same timestamp.
* An operation `o` is one call of the code that claims a run; it is also the
  token it claims with, a fresh UUID in the code. `op[o]` is what it read,
  `pc[o]` how far it got. A first pass goes `inserted` (row written, lease not
  held), `starting`, `running`; a resume goes `loaded`, `claimed`, `running`;
  what claims a run only to fail it (cancel, an unrestorable checkpoint, closing
  a thread) goes `loaded`, `claimed`, `failing`.
* `CreateClaimed`, `ClaimSuspended`, `MarkRunning`, `Settle`, `TakeOver`,
  `RecoverRun` are the UPDATEs and INSERTs with their WHERE clauses
  (`OnLoadedSuspension`, `HeldUnder`, `StillExpired`) and their written values
  (`ClaimedRow`, `SuspendedRow`, `EndedRow`, `PutBackRow`, `RecoveredRow`).
  `HandOver` is the read-back after which the lease is held. `HandOverFails`
  and `SettleThrows` are the failures of those queries, before or after the
  write applied.
* `RenewStart` / `RenewWrite` and `SweepFind` / `SkipHeld` / `SendRecovery` /
  `RecoverRun` keep what the code reads before an await apart from what it
  writes after it. The process keeps a run for itself by looking at its leases
  as the sweep comes to it; the UPDATE is applied later.
* `late` is a history variable, written but read by no guard. It holds the
  leases handed over when their claim had already lapsed: a claim is not renewed
  until its row was read back.

Abstractions. The expiry of a claim is computed right before the UPDATE that
writes it is awaited: one step. `now` of a sweep is the time of its query. A
query that fails before its write is no step. The batches of a renewal (500)
and the 100 claims one sweep takes are not modelled: a sweep finds them all.
The cleanup of old runs is not modelled.

### WorkflowCallStack

* `row[r]` has the status (`idle` and `running` are one, `claimed`), the claim
  (the worker), the caller (`callerRunId`) and whether `parentRun` still names
  it, the called runs the checkpoint waits on, whether it also waits on an event
  or an admin, and the number of the suspension.
* A worker is one thread of awaits of some process. `pc` says what it is doing;
  `job` is its local state: the run and suspension it read, the queue of
  `reconcile`, the list of runs to fail and the runs whose children are to be.
* A pass is from `StartRun`, `Call`, `ResumeRun` or `Deliver` to `EndPass`,
  `LosePass`, `RefuseResume` or `OutcomeNotReadBack`. A called run's first pass
  occupies another worker, and its caller's step goes on when that worker is
  done (`Return`), with a wait if the called run was left suspended.
* After a pass comes `reconcile`: `ListChildren`, `ReadRun`, `ReadCaller` are
  the queries of `cancelAbandonedRuns` in their order, `LookAt` those of
  `findEndedChild`, one action each, and `Deliver` claims the caller on the
  suspension that was read. `ClaimToFail`, `SettleFailed`, `ListDescendants`
  are the cancelling of a run and its descendants, each UPDATE by itself.
* `CloseThread`, `PrepareDeletion` / `ListCallers` / `DeleteRuns`,
  `RecoverResume` and `RecoverFirstPass` do what the handlers of those names do,
  then go through the same steps. `Env` chooses which disturbances an instance
  has, so that each run asks about some of them.

Abstractions. Each run is of a workflow of its own, so a tree of calls is the
constant `Calls`; checks of type, cycle and depth are `EventDispatch`'s. A claim
lapses only once its worker is dead (time is the other module's). A trigger can
always be rebuilt from a row. Putting a run back and reading it back is one
step of recovery. The order in which siblings are cancelled, and in which the
waits of a run are looked at, is arbitrary. An event reaches any run it could:
which one it is given is `EventDispatch`'s subject.
A process dies only while all its workers are in passes: one that dies between
the write that ends a pass and the reconcile leaves no claim, and the runs
around it wait for their next event (`holdEvent` reconciles it); the code keeps
no record of reconciles to do, so nothing more could be asked of it.

### EventDispatch

* `row[r]` is a run of one initiator and thread: its workflow, its caller, the
  kinds of events its checkpoint waits on (`waits`: an inbound event, an admin)
  and the runs it waits on (`calls`). `first` says that it has not suspended yet,
  so its caller cannot wait on it.
* `AwaitingEvent`, `HoldingLeaves`, `PickDeepest` and `Chosen` are
  `findSuspendedRunByInitiator` and its helpers, query by query; `dispatch` is
  what becomes of the event: the chosen run goes on (`Resume`), keeps it off and is
  reconciled (`HoldEvent`), or can never be resumed and fails (`FailUnresumable`);
  or nothing is chosen and a run starts. A refused event changes no row.
* `CallWorkflow`, with the checks of cycle and depth, `Suspend`, `End`, `Decide`,
  `CancelRun` and `Deliver` bring about every stack of runs an event can meet. A run
  may call after it suspended or ended: its body timed out in a pass and goes on.
* A pass ends with one write and is reconciled later. `queue` holds the runs to
  reconcile (`followUps`), `looks` what a reconcile listed of a run before it reads
  the run (`ListChildren`, `ReadRun`), `abandoned` the runs it is to cancel, one
  claim each (`CancelSuspended`), `cancelled` those whose suspended children are then
  listed to be cancelled too (`ListDescendants`). An event may come between any two
  of these, and meet a run that nothing waits on.

Abstractions. A claim and the write under it are one step: a stale choice loses its
claim, and `Claim` drops the run from what others had read of it. Who reconciles, in
what order, and how the children of a run and the run's caller are read at two times
is `WorkflowCallStack`'s. No process dies and no query fails between the write that
ends a pass and its reconcile: after that a run nobody waits on stays until its next
event or suspension, as the code has no record of what is left to do. Recoveries, closed threads and
deletions are left out. Among the deepest candidates the code takes the one that
suspended last, the model any.

### StepSuspension

* `active` is the `ActiveStep` of `runner-runtime-control.ts`: position
  (`cursor`), keys used, answers recorded, the expected key and whether it was
  reached. `frame` is the `TaskFrame` of the last checkpoint.
* `body` is the attempt going on: its step, how many of its `suspend()` calls
  resolved, and to what. `late` holds the bodies of attempts that timed out:
  `withTimeout` does not stop them, and their calls reach whatever step is
  active (`LateCallRecorded`, `LateCallSuspends`, `LateCallThrows`).
* `CallRecorded`, `CallSuspends`, `CallThrows` are `suspend()`; `Throw`,
  `TimeOut`, `Retry` the loop of `AbstractAction.run` with its rewinding;
  `Refuse`, `Return`, `Resume` the task executor; `Crash` the process.
* Answers are the calls they were given for, so that a wrong replay shows.
* `disturbed` is a history variable: a late body called `suspend()`.

Abstractions. A body is deterministic, as `SUSPENSION.md` requires, except that
an attempt may throw anywhere. Payloads, schemas and delays have no value.
Three aborts of a run are not there: cancellation is `ParallelBlock`'s.

### ParallelBlock

* `branch[b]` is a promise: the task it is at, what it sees of `$output` and
  what it wrote. `outcome[b]` is what `raceNext` has given the block of it:
  a branch that settled is seen later. `ending` is why the block gives up.
* Branches go on with `Complete`, `Suspend`, `Refuse`, `Fail`, `Cancel`; the
  block with `SeeResult`, `SeeEnd`, `Abandon`; a later pass with `Resume`, which
  reads `frame` back and launches the branch whose wait is answered
  (`keepRecordedBranch`). `OuterAbort` and `OuterDrops` are an enclosing block
  that gives up on this one.
* A value of `$output` says which task wrote it and over whose value, so that a
  branch that sees a sibling's output, or loses its own, shows.

Abstractions. A branch is a list of tasks with one wait each at most. Copies of
context state and the contents of logs are left out.

### FlowTree, FlowExecutors, FlowWalk, FlowFrames

A flow is a tree of nodes: the lists of steps that `executeFlow` walks, and the
steps. `FlowTree` keeps of each what `compileFlowSteps` gives it (kind, children,
expressions) and four things that follow from its place: the nodes above and under
it, the node whose outputs it writes (`Layer`: the flow, or a branch of a block), the
sequence whose `state.accumulator` it sees (`Scope`), and the loop whose iteration it
is in. `TreeAssumption` says that these fit together; TLC evaluates it on every flow
of the run, where the tree is made from nested steps.

* `act[n]` is the call of the executor of a node: idle, called, at work with its
  local variables (the index of a sequence or a loop, the items and accumulator of a
  loop, the inputs of a task), or returned. `output` is `state.output` by layers: a
  branch sees what its block began with and what it wrote, which is what
  `createTrackedOutput` tells apart. `accumulator` is the one of each sequence that
  owns one, `snapshots` the report.
* `FlowExecutors` has an action for each stretch an executor runs between a call and a
  return: `SequenceBegins` and `SequenceContinues`, `TaskBegins`, `TaskCompletes`,
  `ConditionalBegins`, and so on. The branches of a block interleave.
* `FlowWalk` starts a flow and lets its executors go on until it returns.
* `FlowFrames` adds `frames`: what an executor returned because a wait is open below
  it, by node. Each kind of executor has an action that returns a frame
  (`TaskAsks`, `SequenceSuspends`, ..., `ParallelSuspends`) and one that takes it up
  when it is called with it (`TaskResumes`, ..., `ParallelResumes`, which leaves alone
  the branches `keepRecordedBranch` keeps). `PassSuspends` drops everything but the
  checkpoint: the frames, and the outputs of the flow in `saved`. `Resume` is both
  ways to go on, in process and with `fromCheckpoint`, which restore the same.
* A checkpoint goes through JSON when it is built and again when a pass starts from
  it (`cloneAsJson`): `Json` is what a value reads back as, `AsJson`, `OutputAsJson`
  and `FramesAsJson` apply it to outputs, inputs, items and accumulators, and drop what
  JSON drops. `Encodes` says whether JSON can encode a checkpoint; if it cannot, the run
  fails instead of suspending (`PassFails`), with its steps left reported suspended.
  Nothing is assumed of the two, not even that a second copy is like the first.

`ImplementsWalk` is the refinement: an executor that waits counts as being where its
frame says (`Walked`), with the outputs and the accumulator that its frame or the
checkpoint has for it (`Written`, `Accumulated`), and a step reported suspended counts
as running (`Told`). Suspending, ending a pass and resuming must change none of this,
and any other step must be a step of `FlowWalk`. The exception is `LosesNothing`: where
the values of a checkpoint do not read back as they were, or it cannot be encoded, the
end of the pass and the start of the next one show, and nothing is claimed of these two
steps (`SUSPENSION.md:96-103`; `checkpoint.test.ts` has the case, "output values that are
not plain JSON"). Every step after them is again a step of the walk, on the values as
JSON has them. So a resumed run evaluates inputs,
items, conditions, guards and merges just when the walk does and in the same scope.

Abstractions. Only `wait_all`. Tasks do not fail, and what a task leaves as its output
is its own instance, so that outputs differ whenever they could. `$input` goes through
the checkpoint too but is no state here: it is taken to be JSON. The code makes a JSON
copy of the inputs of a body when it begins (`copyInputs`), for its frame; here they are
copied with the checkpoint, before which nothing reads them. Fingerprints of definitions
and payload schemas are left out; `ValidFrame` is what `validateCheckpoint` asks of the
shape of frames. A task whose wait this pass does not resolve would hand its frame back
(`TaskResumes`), as the code does, but no block launches a branch that leads only to
such a task.

### McpClientPool

* `pool` and `initFlight` are the two maps of the service, `client[k]` a
  connection (connecting, open, closed; whether its idle timer runs),
  `caller[c]` a call of `getOrCreateClient` between two awaits. `server[s]` is
  the row an admin edits at any time.
* An action is the code between two awaits: `Find` (the row is read), `Reuse`,
  `EvictStale` (whose close is then awaited), `Join`, `Connect`, `Connected`,
  `ConnectFails`, `Finish`, `IdleTimeout`, `OnModuleDestroy`.
* `caller[c].open` and `changed` are history: the clients open when the caller
  read its row, and how often a row was edited.

Abstractions. `close()` takes effect at once. Invalidating a client is
`EvictStale`'s second half and is not called from elsewhere. Listing and calling
tools with a client changes nothing here.

### WorkflowScheduler

One workflow and one process (each has its own registry and hears only of its own
saves). `Boot`, `Update` and `Delete` begin a handler call; `FindOne`, `Reregister`
and `AddCronJob` are the parts of `registerScheduledWorkflow` between its awaits,
`Unregister` is the deletion hook. Invalid cron expressions, which a save refuses,
and deleted users are left out.

## Runs

| Run | Instance | Shows |
|---|---|---|
| `claims_two_nodes` | 1 run, 2 processes, 2 operations, TTL 1, 3 ticks, 1 fault; equal timestamps allowed | `TypeOK`; `ActiveIffClaimed`, `CheckpointIffResumable`: the claim and checkpoint columns follow the status; `RenewedClaimsAreKept`: recovery takes only what is lapsed at that moment; `OwnPassesAreKept`: a process does not take a run from a pass of its own, unless the pass got its lease too late; `EndedIsFinal` |
| `claims_contention` | 1 run, 1 process, 4 operations, 2 ticks | `ClaimedOnLoadedSuspension`, `OneOutcomePerSuspension`: stale handlers lose and each suspension goes on once; `OutcomesAreFenced`: what an operation writes as it ends, it writes under its own claim and on the suspension it claimed; `ImplementsOwnership`: refinement of `RunOwnership` |
| `calls_tree` | top calls mid calls low, 3 workers, crashes and cancels, 1 suspension each | `NoMissedResult` and `NoOrphanLeft`: once nobody has anything left to do, nobody waits on an ended run and no called run is suspended unless its suspended caller waits on it |
| `calls_disturbed` | top calls mid, 3 workers, refusals, late calls, closing, deletion, failed read-backs | `TypeOK`; `WantedRunsKept`: reconciling never cancels a run its caller may still take the result of |
| `calls_live` | top calls mid, 2 workers, 2 suspensions each, late calls, held events, cancels | `DeliveredOnce`: a result resumes only a suspension that waits on it, and only once it ended; `ResultsReachCallers` (liveness): it gets there without another event |
| `event_dispatch` | 3 runs of 3 workflows, stacks of 3 levels, late calls, one reconcile between its two queries at a time | `EventsAreWellRouted`: in every state, whatever event came next would go to a run whose result, and those of the runs above it, somebody takes, unless the reconcile that is to cancel them is still going on |
| `step_suspension` | a step of up to 3 calls or two of up to 2, whose keys may repeat, 2 attempts, timeouts | `TypeOK`; `AskedOnceUndisturbed`, `AnswersReachUndisturbed`, `NoFalseMismatchUndisturbed`: as long as no timed-out body suspends, no answered call is asked again, answers reach the call they were given for, and a deterministic body is never failed for replaying wrongly; `PassesGetFurther` |
| `parallel_block` | any two branches of 1 or 2 tasks, some of three; 2 keys; both strategies | `TypeOK`; `NothingLeftBehind`; `WaitAllOutput`, `WaitAnyOutput`: outputs are those of branches run alone; `CompletedRunOnce`, `RefusalKeepsFrame`; `GivingUpEnds` (liveness) |
| `flow_frames` | 1,079 flows of two levels of nesting, blocks interleaved, resumed in every order, with values that JSON changes or drops and checkpoints it cannot encode | `CheckpointsFit`: types, and every checkpoint is valid and has the waits that are reported; `ImplementsWalk`: refinement of `FlowWalk`, but for checkpoints that do not read back; `TasksRunOnce`; `WaitsAreUnique`; `ResolvedWaitsClose`: a pass goes on from the wait it resolved; `ParkedWaitsStay`: and leaves the others as they are |
| `mcp_pool` | 1 server edited twice, 2 settings, 3 connections, 3 callers | `TypeOK`; `FlightsAreShared`; `PooledIsUsable`; `UneditedHasOneClient`; `GivenFits` |
| `calls_closed_thread` | top calls mid, 3 workers, closing | violation of `ClosedThreadLeavesNothing` |
| `scheduler_overlap` | 3 handler calls | violation of `JobFollowsRow` |

Why the bounds are enough. A hazard of the claims needs one run, the operation that
holds it, one that comes with a stale read, and a suspension in between: four operations
are a first pass, two passes that race and a third with what it read before. The rows of
two runs never meet in a guard of that module. TTL 1 makes every tick count: a claim
lapses, a renewal comes before or after a sweep, a process becomes healthy for a TTL,
within three or four ticks. Call stacks need a caller, a called run and a run below it
(a run both called and calling), the worker of a pass, the one of a pass below it, and a
third that disturbs both. A second suspension of a run is needed only to confuse two of
them, and `calls_live` has it. Three runs make every shape of stack that tells one event
from another: a chain, two called by one, and two stacks; with two reconciles between
their queries at a time (`MaxLooks = 2`, 1,136,695 states) the same run finds nothing
more. A position or a key that is reused needs two calls before the one that is wrong,
or a second step after it. Two branches have every interleaving of two promises and the
block, and two tasks give a branch something to have done before it suspends; the blocks
of three are there for the order of merging. Two levels of nesting put every kind of
step into every other, and a task after them sees what they left; how many outputs an
expression sees decides its value, so that it changes with every task, and an executor
that evaluates one again, when it should take what the frame recorded, gives another
value. Two callers race for a connection, and a third comes with an older or newer row;
three connections let one be replaced twice. The pool keeps nothing across servers.
`CHECK_DEADLOCK FALSE` is set because a system that nobody calls on any more does stop,
and because of the bounds.

Each property is paired in `PROJECT.json` with a mutant, a small bug in one
definition under which TLC finds the property violated in the same run.

Fairness. `calls_live` assumes weak fairness of every worker's next step
(`Continue`): awaited queries are answered, and passes end, be it by their
timeouts. Nothing is assumed of events, admins, recoveries or crashes.
`parallel_block` assumes it of `Abandon`, which is a promise that all settled,
and of `Cancel`: a signal that was given reaches the task that waits for it. No
body is assumed to return and no wait to be answered, and that is the point of
`GivingUpEnds`. The other modules are checked for safety only.

## What the violations show

* `calls_closed_thread`. The active runs of a thread are listed once. A pass of
  one of them can call a workflow after that; the called run suspends, is kept
  because its caller is in a pass, and the caller is then failed. Its pass ends
  `claim_lost`, which reconciles nothing.
* `scheduler_overlap`. The registration of a workflow drops its job and awaits its
  initiator. The workflow is deleted meanwhile, which finds no job; the job is
  then added and ticks for a workflow that is gone. Of two updates that overlap,
  the one whose initiator comes first wins, and the other's schedule is lost.

Other deviations were met while modelling. No run is kept for them; each is
found in a minute with the change that is named.

* An event that requests a workflow matches the runs of that workflow and those
  below them. The comment of `findSuspendedRunByInitiator` says "below or above
  it": a caller that asks for the event, above a called run of the requested
  workflow that waits on an admin, does not get it, since `isRunInWorkflowStack`
  walks up from the candidate only (`StackRunsMatch`, in the instance of
  `event_dispatch`). So `EventsAreWellRouted` says nothing of the runs that the
  comment would have and the code does not choose.
* A caller that evicted the client of old settings awaits its close and then looks
  for a connection in flight, but not into the pool again. Another caller with the
  same new settings connected meanwhile: the first connects too, and its client
  replaces the other in the pool, unclosed (`OneClientForConcurrentCalls`, in the
  instance of `mcp_pool`; a test, `mcp-client-pool.service.spec.ts:130`, says
  "initializes one client for concurrent calls (single-flight)").
* Recovery that gives up on a run first puts it back on its wait and only then
  cancels it by claiming it like anyone else. A handler that claims it in between
  resumes it once more (`NotResumedOnceGivenUp` in `WorkflowRunClaims`, with two
  processes, three operations, three ticks and no fault). The workflow README, Example 5
  item 6, says it is "cancelled instead of being put back".
* A body that timed out shares positions with the attempt after it. The retry reads
  the answer of its first call; the late body makes that call again, at the next
  position, and the step suspends on it, although the comment in
  `abstract-action.ts` says that attempts start from where the run did so that this
  does not happen (`AskedOnce`, in place of `AskedOnceUndisturbed`).
* A called run that suspends after the listing of a workflow deletion and before
  the deletion is reconciled while its caller still exists, and is left without
  one (`NoOrphanLeft`, with `Env = {"delete"}`). A run that calls
  into a workflow between the listing and the deletion is not told of it
  (`NoMissedResult`, likewise).
* Closing a thread gives up on a run whose status changed twice since it was listed
  ("Leaving a run of a closed thread whose status keeps changing"), and fails the
  runs that are in a pass without reconciling their callers. A caller that was
  resumed by an event between the two attempts, and suspended again on the run it
  called while that one was in a pass, then waits for its next event on a run that
  failed (`NoMissedResult`, in the instance of `calls_closed_thread` with
  `MaxSuspensions = 2`; with one suspension it does not happen). The pass of the
  called run ends `claim_lost`, which is "left to whoever settled it"
  (`workflow-call-stack.ts:47`).
* `settle` clears the claim and reads the row back; if the read fails the pass
  throws, so no reconcile follows and no claim is left to recover
  (`NoMissedResult` and `NoOrphanLeft`, with `Env = {"read"}`).
* A process dying while the called run of its pass is being reconciled can leave a
  suspended grandchild, since `cancelSuspendedDescendants` follows suspended
  children only (`NoOrphanLeft`, if `Crash` is allowed outside passes).

## Proofs

`WorkflowRunClaims_proofs` proves, for any number of runs, processes and
operations, any TTL, any number of faults and unbounded time:

* `TypeCorrect`, by the invariant `Typed`: types, and that an operation that is
  not free has a run and a process.
* `ActiveRunsAreClaimed`, `SuspendedRunsCanBeResumed`,
  `ClaimsAreOnTheLoadedSuspension`, `SuspensionsHaveOneOutcome`, by the
  inductive invariant `IInv`. The properties alone are not inductive: to keep a
  suspension from going on twice one has to know that a token on a row belongs
  to an operation still at work on that row (`ClaimsHeld`), that timestamps
  number suspensions as checkpoints do (`Numbered`), that a settled suspension
  is behind the run (`SettledPast`), and that what a sweep read of a claim is
  still true as long as the claim lasts (`SweepsFresh`).
* `OutcomesAreWrittenByTheirClaimant`, `EndedRunsStayEnded`,
  `RecoveredClaimsHadLapsed`: action properties that follow from `IInv`.
* `ProcessesKeepTheirPasses`, from a third invariant, `LInv`: leases and
  renewals belong to their process (`LeasesPlaced`), no expiry on a row or in
  flight is later than one computed now (`ExpiriesOrdered`), and a claim that a
  sweep has sent for, of which this process got the lease meanwhile and in
  time, is not lapsed as the sweep sees it (`SentNotHeld`).
* `Refinement`: every step is a step of `RunOwnership` or a stutter, under the
  mapping `Ownership`.

Its assumptions are those the module names, and, for the four theorems about
suspensions and for the refinement, `DistinctTimestamps`, stated in each. The
code needs it: `suspended_at` is a wall clock in milliseconds, and a run that
suspends twice within one would hand the second suspension to a handler that
read the first. Everything else the proofs need is in the code's WHERE clauses.

Each part of an invariant is kept by one lemma for operations and one for
recovery (`OperationKeepsIInv`, `RecoveryKeepsIInv`, ...), over lemmas for the
few shapes a write can have (`ClaimStep`, `LetGoStep`, `DeleteStep`,
`QuietStep`).

`McpClientPool_proofs` proves, for any number of servers, settings, connections,
callers and edits:

* `TypeCorrect`, by the invariant `Typed`: the types, and that what the pool, the
  flights and the callers name has been a connection of that server.
* `FlightsShared`, `PoolUsable`, `OneClientUnlessEdited`, by the inductive invariant
  `Inv`. None of them is inductive alone: that only one connection of a server
  goes on needs that a flight is in `initFlights` until it ends and that a caller
  awaits a flight or has its client (`FlightsPlaced`, `CallsAwait`); that an
  unedited server has one client needs that every connection and every caller of
  it has the settings of its row, so that none is ever evicted as stale
  (`UneditedAgree`), and that what is open is in the pool (`UneditedShared`).
* `GivenClientsFit`, an action property, from both: a client is given either
  from the pool, where the signature was compared, or from a flight, and a
  connection in flight was not open when the caller read its row.

It assumes that `None` is no server, setting or connection, and that the bound on
edits is a number. The lemmas `ClientsSame` and `ClientsClosed` say once what keeps
the parts of `Inv` when connections stay or are closed.

`StepSuspension_proofs` proves, for bodies of any length, with keys of any kind,
any number of steps, attempts and passes:

* `TypeCorrect`, by `Typed`: types, and that an attempt goes on exactly while
  its step is active.
* `CallsAskedOnce`, `AnswersReachTheirCalls`, `NeverAFalseMismatch`,
  `EveryPassGetsFurther`, by the inductive invariant `IInv`: unless a late body
  has disturbed the step, the frame waits on the first call that it has no
  answer of (`FrameRecords`), the active step has the answers of the frame it was
  resumed from or none (`ActiveRecords`), and what an attempt has used and read
  are those of its first `cursor` calls, the expected one being reached exactly
  when the attempt is there (`BodyRecords`). The properties say less than `IInv`:
  none knows why a retry, which begins at position 0 with nothing used, comes
  back to the call its frame waits on (`Replay`). Without "undisturbed" they are
  false, as the list of deviations says.

`ParallelBlock_proofs` proves, for any blocks and any number of passes:

* `TypeCorrect` and `NothingIsLeftBehind`; `WaitAllMerges` and `WaitAnyKeepsWinner`;
  `CompletedStaysCompleted` and `RefusalKeepsTheFrame`. The invariant `IInv` they
  rest on says that the log tells how far each branch is (`LogFollows`), that a
  branch sees what it would see alone (`ViewsAreAlone`), that the block has seen
  its branches as they are and was not ended by any (`OutcomesSeen`), that the open
  waits are those of the suspended branches (`WaitsOpen`), and that the branches a
  pass did not launch are as the frame has them (`FrameBuilt`, `PassOfFrame`).
* What a branch writes alone and what branches merge to are recursive functions.
  That they have the values their definitions give (`AloneUnfolds`,
  `MergedUnfolds`) is proved by `Induction`, the induction principle stated for a
  set of numbers, from the library's theorem that `<` is well founded.

`WorkflowCallStack_proofs` proves, for any runs, any calls between them, any number
of workers and suspensions, and every disturbance (crashes, cancels, late calls,
closings, deletions, failed reads):

* `TypeCorrect`, `ResultsDeliveredOnce`, `WantedAreKept`, by the inductive
  invariant `Inv`. A claim is of a worker that has the run in hand (`HoldsOne`); and
  what each worker read, it relies on in a way that others cannot undo (`Hand`):
  * What a caller may still take (`Takes`: its waits, the waits its pass has
    collected, a call its pass is told of) only grows by a first pass that just
    ended. Hence a called run that is past its first pass and that the caller
    does not take is never taken again: `Unwanted` is stable (`UnwantedStays`).
    Every candidate that reconciling is to cancel is `Unwanted`, or a child of a
    run being cancelled.
  * What a worker read of a run it reconciles is out of date, not wrong (`ReadWell`):
    as long as the run is on that suspension its waits are those that were read,
    and a run that was seen ended has ended. So a result is in hand only if its
    run ended, and the claim on `suspendedAt` leaves no other suspension to resume.
  Each action has a lemma. `Preserves` says once what a step has to satisfy so
  that the workers it does not move keep their `Hand`; `Moved`, `Stayed` and
  `Passed` cover the shapes of the others.

`WorkflowCallStackDebts_proofs` proves `NoResultIsMissed` and `NoOrphanIsLeft`, for
any runs, calls, workers and suspensions, with crashes during passes, refusals,
held events, cancels and late calls. Its hypothesis is that `Env` has no "close",
"delete" or "read": with any one of these both properties are false (see the
deviations; TLC finds it in the instance of `calls_closed_thread` with
`MaxSuspensions = 2`). The invariant `Owing`, on top of `Inv`:

* What is due is owed by somebody (`Debts`). A result is due when a run is suspended
  on one that ended; a cancel is due when a run is suspended and its caller ended,
  or is suspended on others. What a worker at some step owes is told from what it
  has in hand: a run in its queue, children it listed, a run it read on the
  suspension that the run is still on, waits it has yet to look at, a run
  it read to fail (`OwesResult`, `OwesCancel`). Where the code gives a debt up, as
  when it leaves a run alone that is in a pass, the row shows that nothing is due,
  and the end of that pass pays: `ClaimedPays`, `SuspendedPays` and `EndedPays` say
  of each write of a row what the worker that wrote it takes over.
* A queue holds at most a run and its caller, the first of which ended, and it is
  empty while a result is delivered, a caller read or a pass runs (`QueueWell`). So
  a process that dies in a pass, even one that a reconcile started, loses no debt.
* `parentRun` and the waits name the same caller, and a pass is only told of calls of
  its own run (`RowsLinked`, `JobLinked`).

`Keeps` and `Pays` say what a step has to satisfy of its worker and of the row it
writes; `Alone`, `PassIsOver` and `OnlyReads` cover the shapes of steps.

`EventDispatch_proofs` proves `EventsReachAwaitedRuns`, for any number of runs,
workflows, calls and reconciles and any depth of the stack. The invariant `IInv`:

* A run has a higher number than its caller (`Numbered`), so that following `parentRun`
  ends.
* The children that a reconcile listed are suspended, and of the run it looks at
  (`Listed`): a claim takes them from whoever read them.
* A suspended run that nobody waits on is owed a reconcile (`Owed`): it or its caller is
  in a queue, its caller was cancelled and its children are not listed yet, it was
  listed and its caller is still to be read, or it is to be cancelled. A write that
  stops waiting on a run puts itself in a queue; `ReadRun` and `ListDescendants` hand
  the debt on, and a caller that is in a pass by then waits on the run.

The runs of a stack are a recursive function, which has its value by a least set
of pairs closed under its equation (`StackUnfolds`), and what holds of the runs above a
run is proved by induction on its number (`RunInduction`). It assumes that `None` is
no run and no workflow, and that the bounds are numbers.

`FlowFrames_proofs` proves `FlowFrames`' six properties, for any flows of any depth, any
number of branches, iterations and waits, any order of resumes and interleaving of
branches, expressions of any value and any JSON (`Eval`, `Json` and `Encodes` are not
constrained). `StepsAreOfTheWalk` is `ImplementsWalk`: a step that loses nothing is a
step of `FlowWalk`. `SuspensionIsInvisible` is the refinement proper, of the runs whose
every checkpoint can be encoded and reads back: `Spec /\ []LosesNothing => Walk!Spec`.
`CheckpointsAreValid` and the others need no such hypothesis. Of a flow it assumes
`TreeAssumption`. The invariant `IInv`:

* An executor that is not idle was called by one at work on it: all those above it are
  busy, each at the child that leads to it (`Path`), and each local state fits its step
  (`Shaped`). This holds of the executors of a pass (`Executors`) and of the walk that is
  recorded in frames (`WalkInv`), which the pass may not have reached yet.
* A frame holds the frame of the child it is at, or that of some branch, and a sequence the
  accumulator its scope had (`FramesFit`). Outputs of a branch and accumulators are gone once
  their executor has returned (`Cleared`), so that nothing but frames tells them.
* What an executor is still to run has not run in this iteration (`Fresh`), which with the types of
  what ran (`DoneTyped`) gives `TasksRunOnce`.
* The report tells a task running while its body runs and suspended while it has a
  frame, and each suspended one has a frame (`Reports`, `SuspendedWait`).
* A wait that was opened belongs to a task that completed, to a frame, or to the body that
  runs on what this pass resolved it to (`WaitsFit`), so it is not opened again. A frame
  whose wait is resolved is one that this pass has yet to take up, and no executor above it
  has returned (`GoesOn`): when the pass ends there is none.

A step of an executor concerns its node and its children only (`Turns`), and those who have
frames are elsewhere in the tree (`FramedApart`, `ScopesApart`). An executor that no frame
concerns does what the same action of the walk does (`StepRunsWalks`, with a lemma for each
action); one that suspends, or is resumed, leaves the walk as it is (`WalkStays`). The tree
needs no induction: each node comes with the set of those above it, and
`IsParted` gives the node below which two others part.

Only model-checked:

* That the trees the compiler makes of nested steps satisfy `TreeAssumption`, for which
  `FlowFramesMC` builds them recursively.
* Liveness (`ResultsReachCallers`, `GivingUpEnds`), out of the prover's reach, as is
  anything about `ENABLED`.

`ClosedThreadLeavesNothing` and `JobFollowsRow` do not hold, nor do `StackRunsMatch`,
`AskedOnce`, `NotResumedOnceGivenUp` and `OneClientForConcurrentCalls`, which no run checks.

## Plan

1. `RunLeases`, a timed module of recovery: renewals every TTL/4, sweeps every
   TTL/2, an outage of the database, at most 100 claims a sweep. Liveness: a
   claim of a dead process is recovered; safety: no live process loses a run
   after an outage if its queries succeed.
2. What closing a thread, deleting a workflow and an outcome that is not read back
   leave undone: which callers still wait then, and that their next event, held or
   not, delivers what they wait for.

## What is not modelled, and why

Of the modelled parts: payload schemas and fingerprints of
checkpoints; the context state of branches; the contents of logs; the error output
of MCP servers that is captured; waiting for the answer of an event with a
timeout; the batches of renewals and sweeps. Compilation, expressions and
conversions between rows and triggers are data: the models keep whether they
succeed. A process that dies in a pass is in `WorkflowRunClaims`,
`WorkflowCallStack` and `StepSuspension`; in `FlowFrames` a process may be replaced between
passes only.

Workflow jobs, webhooks, memory and versions keep rows under single statements,
and have little order to get wrong. The rest of the API (users, CMS, channels,
settings, ...) and the user interfaces are data management and I/O, with no
protocol between parties; most of the repository's lines are there.
