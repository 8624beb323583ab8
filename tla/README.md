# A verification of the RAgents runtime in TLA+

RAgents runs teams of actors (model-driven agents, TypeScript programs, external
runtimes) inside *runs*. Everything that happens in a run is an event of an
append-only journal; everything the server knows of a run is a projection of that
journal. This folder models the part of the system on which the rest stands:
the run as an aggregate, its journal on disk, the lock on the journal folder,
the dispatch of events to subscribers, the scheduler that turns waiting inputs
into turns, the start and the deletion of a run, the workstations that run
commands for it, the watches that wake actors, and the calls and subscriptions between
server and clients. The models are checked with TLC;
theorems about the aggregate, the journal, the lock, the scheduler, the start of a run, the watches,
the calls and the subscriptions between server and client are proved with TLAPS for every number of
actors, inputs, commands, processes, watches, calls and subscriptions.

Paths without a prefix are below `packages/ragents/src/`.

- [1. Inventory](#1-inventory)
- [2. How the parts interact](#2-how-the-parts-interact)
- [3. Modules](#3-modules)
- [4. Runs](#4-runs)
- [5. Bounds](#5-bounds)
- [6. Fairness](#6-fairness)
- [7. Proofs](#7-proofs)
- [8. Where the code and its documents disagree](#8-where-the-code-and-its-documents-disagree)
- [9. Only checked, not modelled](#9-only-checked-not-modelled)
- [10. Plan](#10-plan)

## 1. Inventory

### Run aggregate (`domain/`, `runtime/decisions/`, `runtime/guards.ts`, `runtime/stop.ts`)

*State.* `RunState` (`domain/model.ts`): actors with creator and lifecycle
(idle, running a turn, stopped), the primary actor and the one that was primary
when it was stopped, turns, inputs (pending, claimed by a turn, discarded), which
claimed inputs a model was shown, tool calls, subscriptions, the marker that the
run is stopped and the set of held actors.

*Operations.* Commands: create actors, enqueue, start a turn, steer, record tool
calls, end a turn in three ways, subscribe and unsubscribe, stop and restart an
actor or a branch, stop the run, recover turns at a startup. A decision
(`runtime/decisions/*`) turns a command into events or refuses it;
`domain/event-semantics.ts` checks the events again; `domain/projection.ts` folds
them.

*Hard.* The projection keeps one fact in several maps (an actor's lifecycle and
its turn's status; an input's claim and the turn's list). Stopping a branch ends
turns, calls and subscriptions of many actors at once. A recovery after a crash has
to continue a turn exactly once and carry over the inputs its model never saw.

*Correct when* each turn belongs to one running actor and the other way round,
each input is consumed once, a stopped run starts nothing, held actors are
released only directly, and a restart loses no task.

### Journal (`runtime/journal.ts`, `runtime/journal-storage.ts`, `runtime/durable-fs.ts`)

*State.* Per run a directory with `journal.jsonl` and payload files for large
texts; in memory the records, the projection, a marker for a failed write, the
queue of batches to publish.

*Operations.* `append` (one command, one line, synced), `adopt` (a whole history,
for forks and imports, written beside the file and renamed over it), `publish` to
listeners, `load` with the repair of a torn end.

*Hard.* Each file system call can fail, the process can die between any two, the
machine can lose power. Listeners append while they are being called.

*Correct when* an answered command is in the file and stays in it, memory and file
agree, a repetition is answered with the first result, and every listener sees the
records once and in order.

### Writer lock (`runtime/journal.ts`)

*State.* The directory `.writer.lock` with an owner file; in each process its
token and `#lockLost`.

*Operations.* Acquire (create the directory, or judge its owner and take over),
heartbeat, check before each append, release.

*Hard.* A sequence of file operations that is not atomic, processes that die in the
middle, processes that are suspended and come back.

*Correct when* there is one writer, a dead one is replaced, and a replaced one stops.

### Event dispatch (`runtime/orchestration.ts`; forks and imports in `apps/server/src/provider.ts`, `apps/server/src/run-transfer.ts`)

*State.* Subscriptions of the run, the deliveries already made (as command ids in
the journal).

*Operations.* For each committed event: an input for every matching subscription,
a notice for the creator of an actor whose turn failed or was interrupted. Fork
and import bring in a history.

*Hard.* Deliveries are commands of their own: committed during publication, one
after the other, with crashes in between; subscriber and subscription may end
meanwhile.

*Correct when* every match is delivered once and in order, a creator learns of
failures, and nothing is caught up later.

### Turn scheduler and agent runtimes (`agents/scheduler.ts`, `drivers/agent-runtime.ts`)

*State.* The task of each actor (`#active`), requests to interrupt, disposals of
driver runtimes that are under way, revivals that wait for them, blocks and
quarantines of runs, the state of the server's own stop; in the driver the retired
actors and operations that outlived their turn.

*Operations.* Scan for startable actors, claim and drive a turn, steer, time out,
interrupt, stop and restart an actor, halt a run, shut down.

*Hard.* One thread, but an `await` between nearly every two statements: timers,
late drivers, and clean-ups that settle late or never.

*Correct when* a running turn always has someone who ends it, an interruption hits
the turn it was meant for, an input that can start does start, and a halted run does
nothing until it is cleaned up.

### Chat session and run start (`apps/server/src/ragents/session.ts`, `apps/server/src/plugin-support/await-with-signal.ts`, `apps/server/src/provider.ts`)

*State.* Per run one shared preparation with its waiters and its abort signal, the
initial startup that is not finished (`pending`), the start status the chat shows, the
queue of starts inside the running run, the controllers of messages and starts, the
deletion with its intent on disk, the lock of a run whose workspace failed.

*Operations.* A message (hooks, preparation or actor, attachments, enqueue), a start of
a run script in a new run or inside a running one, `abortStart`, a caller that leaves,
the stop of the primary actor, deletion in five steps, resumption at a server start.

*Hard.* Everybody shares one preparation and may leave it; the last one to leave cancels
it, and somebody may join at that moment. Each step may fail, also the enqueueing of the
start when its script is there and the plugins were told, and the next caller has to
finish what is there instead of repeating it. The deletion waits for requests that wait
for the preparation.

*Correct when* only those are told "cancelled" who were cancelled, who withdrew is not
accepted, no input gets ahead of the start hook, a startup repeats no more than what failed, a deletion is
final, and everybody is answered.

### Workstations (`plugins/ragents.workspace`, `apps/server/src/plugin-support/workspace-sandbox-host.ts`, `packages/workspace-executor/src/background-tasks.ts`)

*State.* At the server: the sign-in, a stop or deletion per run that the workstation has
not confirmed, its delivery under way, observations of background commands. At the
workstation: its stream, its commands, observations that wait there, what it still has to
end before it may sign in again. Between them: one stream of requests, answers as
requests of their own.

*Operations.* Start and observe a command, stop and delete a run, retry, sign in, lose
the stream (each side notices by itself), end of the server, answers with a time limit.

*Hard.* Two machines without a common clock; a request may have been carried out although
no answer came; a new sign-in while commands of the old one are still ending.

*Correct when* a stop ends what was called before it and nothing else, every stop and
deletion arrives, the end of a command is told to its actor, and told once.

### Watches (`plugins/ragents.watch/server/service.ts`, `plugins/ragents.watch/server/index.ts`)

*State.* The watches of a run in memory and as plugin state in the journal, each with the
baseline of its last wake; the throttle timer, the evaluation under way and whether
another one was asked for.

*Operations.* `watch_create` (compiles a condition), `watch_remove`, a round of evaluations
(with an operation that takes its time, then a verdict, a wake and a new baseline),
stalls, prepare (loads what is stored), stop.

*Hard.* All of it between awaits; the wake is enqueued before its baseline is written.

*Correct when* a removed watch stays quiet, the baseline is that of the last wake, no
change is lost, and what is stored survives a restart.

### RPC peers and channels (`rpc/peer.ts`, `apps/web/src/rpc/client.ts`, `apps/server/src/rpc/`)

*State.* In a peer the pending requests with their timers and the handlers that run, by id;
in the client the stream, the subscriptions with their binding, retry and id at the server,
and messages that came before that id; in the server the streams with their subscriptions and
the requests under way.

*Operations.* Call, answer, progress, cancellation with a grace period, time limit, close;
subscribe, release, reconnect, retry; open, flush and end of a subscription, loss of access.

*Hard.* A client sends each request in an HTTP request of its own while the server sends over
a stream, so the two directions overtake each other. Both sides notice the end of a stream by
themselves. Ids begin anew with each stream, handlers do not end with it.

*Correct when* a call ends once and leaves nothing behind, an answer belongs to its own
request, a subscription gets every state once whatever overtakes what, and it has the latest
one again after each loss.

### The rest

| Part | State and operations | What is hard | Here |
| --- | --- | --- | --- |
| Serial queues (`runtime/serial-queue.ts`) | a promise chain per key | clean-up of keys while new work arrives | planned |
| Agent turn driver (`drivers/agent-turn.ts`) and agent loop (`packages/agent`) | one prompt at a time, steering between model requests | steered inputs are claimed before they are prepared and shown | planned |
| Actor programs (`apps/server/src/plugin-support/actor-programs`) | recorded steps of a program body | replay that goes on behind the recorded steps | planned |
| Model context, turn input | none: projections of the journal into text and messages | data transformation | not modelled |
| TypeScript platform, tools, model providers, HTTP methods, plugin host, profiles | little that outlives a call | input and output | not modelled |
| Web interface, VS Code extension, build, documentation | clients and tooling | | not modelled |

`PROJECT.json` lists all components with their files, and all hazards with their lines.

## 2. How the parts interact

```
 people, plugins, agents
        | commands
        v
  Orchestration --decide--> run aggregate ----events----> journal --line--> disk
        ^                   (RunKernel)                  (Journal)     (WriterLock)
        |                                                    |
        |  deliveries, notices                               | listeners, in order
        +------------------- dispatch <----------------------+
                            (Dispatch)                       |
                                                             v
   driver <--turn request, abort, steering, dispose--- turn scheduler
          ---result, error, silence------------------> (TurnScheduler)
                                                             |
                                 start, end, interrupt turns | commands
                                                             v
                                                       Orchestration

   messages, script starts, deletion          events           tool calls of a turn
              v                                 v                       v
        session, provider                    watches         server <==> workstation
           (RunStart)                        (Watch)            (Workstation)
              | create, enqueue                 | wake             | notice of an end
              +---------------------------------+------------------+--> Orchestration

   web client ===requests, each its own===> transport, dispatcher ---open---> session, displays
              <========= one stream ======= (RpcChannel; RpcPeer for calls of the server)
```

- A command is decided on the projection, appended, synced, and only then visible.
  `RunKernel` therefore takes a command as one step; `Journal` shows what makes
  that legitimate, and where it ends (a failed write closes the run).
- The journal calls its listeners in a fixed order during the append. Two of them
  matter: the dispatch, which appends further commands (they are published after
  the batch that caused them), and the scheduler, which scans the new state.
- The scheduler acts on the journal like any other caller. It remembers things the
  journal does not know (tasks, aborts, blocks); `TurnScheduler` relates the two.
- The last row are callers of the aggregate that keep state of their own beside the
  journal. `RunStart`, `Watch` and `Workstation` reduce the aggregate to what they read
  of it (whether the run exists and who is primary; whether source and target are in a
  turn; whether the run exists) and end at the enqueued input, where `RunKernel` begins.
- Everything that a client sees or does goes through the last two. `RpcChannel` takes the
  provider of a channel as something that says its state when opened and then each change;
  `RpcPeer` takes the handler of a call as something that takes any time.
- Startup runs the recovery before it accepts anything. It is an operation of the
  aggregate (`RunKernel`) whose events are dispatched (`Dispatch`).

## 3. Modules

### RunKernel

One run as an aggregate. A variable is a part of `RunState`; an action is a
command, with the guards of its decision *and* of `event-semantics.ts`, and all
events of the command taking effect at once. Numbers stand for the ids of inputs
and turns, in the order of their events.

| In the model | In the code |
| --- | --- |
| `stopped`, `held` | `RunState.stopped` and the held marks, set by `run.stopped`, released by `releaseAddressed` (`projection.ts`) |
| `lifecycle`, `creator`, `primary`, `stoppedPrimary` | actors, `primaryActorId`, `stoppedPrimaryActorId` |
| `turns`, `calls`, `inputs`, `presented`, `subs` | the maps of the same name; of the calls of a turn only how many are open |
| `phase`, `policy` | the server process: serving, shutting down, starting with the given restart policy |
| `passedOver` | history only: stopped turns that a startup left because their actor was stopped |
| `Create`, `SpawnAgent`, `SpawnAgentWithTask`, `CreateScriptActor`, `SelectPrimaryActor`, `StopActor`, `StopActors`, `RestartActor` | `decisions/actors.ts` |
| `EnqueueHumanInput`, `EnqueueActorInput`, `EnqueueAutomaticInput`, `DeliverSubscription` | `decisions/inputs.ts`: who addresses an input decides what it releases |
| `CreateSubscription`, `RemoveSubscription`, `FailSubscription` | `decisions/subscriptions.ts` |
| `StartTurn`, `SteerInputs`, `PresentModelInput`, `StartToolCall`, `EndToolCall`, `FinishTurn`, `InterruptTurn` | `decisions/turns.ts` |
| `StopRun` | `decisions/run-stop.ts` |
| `RecoverTurn`, `FinishRecovery` | `decisions/restart.ts` under `#recoverStoppedTurns` of `orchestration.ts`: one command per turn, so that a crash may come between two |
| `Shutdown`, `Restart` | the orderly end of the server; any end of the process followed by a start |

Abstracted: texts, artifacts, usage, titles, rooms, questions, plugin states. No
decision in the table reads them. The guard of a quick restart (`restartGuardMs`)
is a Boolean that either value may have.

### CommandLog and Journal

`CommandLog` is the abstract specification: a log that only grows and takes a
command at most once, a view of it that the runtime works with, and answers that
the log never takes back.

`Journal` is what the code does. `op` is the call under way with the system call
it is at; `Append1`, `Adopt` start one, `MakeDirectory`, `StorePayloads`,
`SyncPayloads`, `WriteLine`, `SyncFile`, `WriteTemp`, `Rename`, `Commit`,
`SyncDirectory` are its steps, `FailPreparing`, `FailWriting`, `FailSyncDirectory`
the ways they fail. `PublishNested`, `PublishFirst`, `CallListener`, `NextBatch`,
`Return` are the publication loop; while a listener is being called, further calls
are possible (`MayCall`). `Crash` leaves what was written, `LosePower` keeps only
what was synced and anything between that and what was written. `Load` and
`LoadNothing` are the next start: a torn or unreadable end is cut off, anything
else that is not understood locks the run.

`KeepsPromise` is the refinement: the lines of the file are the log, the records in
memory are the view, the returned calls are the answers. It is stated for machines
that keep their power; a loss of power can take away lines that were written and
not answered, and `AnsweredIsDurable` says what it cannot take.

### WriterLock

Processes that open the journal folder. `pc` is the file system call a process is
at; `owners` are the owner files in the lock directory, `blank` those that are
truncated and not written yet, `silent` those whose heartbeat is older than 30
seconds. `Judge` is `staleLockReason`; `ListLock`, `UnlinkOwner`,
`RemoveDirectory`, `CreateAgain` are the take-over; `Truncate` and `Beat` the
heartbeat, which is where a process notices that it was replaced (`lost`); `Die`,
`Suspend`, `Resume`, `GrowSilent` the environment. `Overlap` says whether two
processes may be opening the folder at once.

### Dispatch

The log of the events that matter to dispatch, and the batches that wait for
publication. `TakeBatch`, `TakeSource`, `Deliver`, `DeliveredBefore`,
`FailDelivery` are `#dispatchCommittedEvents` and `#deliverSubscription`;
`AlertCreator` and `SkipEnd` are `#dispatchCreatorAlerts`. `ServerCrash` with
`RecoverTurn` is a restart, `Fork` is `forkRun`, `Move` is `importRun`. `lost`
remembers what a crash or a fork cut off. Outside commands come only when nothing
waits to be published: the scheduler defers its own commands to a later microtask,
and no other listener appends.

### TurnScheduler

The scheduler of one run between a small version of the run's journal (`stopped`,
`held`, `life`, `waiting`, `outcome`) and the driver (`retired`, `orphans`). An
action is what runs between two awaits. `task` is the entry of `#active` with the
point its promise has reached; `interruption`, `callers`, `disposal`,
`reviveDue`, `halt`, `quarantine` are the maps of the class. `StopRun` takes
together what happens without an await: the command, `interruptRun` and the first
part of `haltRun`. `orphans` are driver operations that `TurnAbortDeadline` left
behind; `asked` and `owed` are history variables that the properties need.

### RunStart

One run while it is set up and deleted. `prep` is the preparation of
`sharedPreparation` (who began it, the step it is at, who waits, and why it was aborted);
`pending`, `startup`, `queue`, `mark` are the fields and controllers of the session;
`deletion`, `intent`, `archived` are the steps of `provider.ts`. `phase` says where each
request is. `Quiet` expresses that continuations of a settled promise run before anything
else: the callers, the operator and the next hook wait for it. A message goes through
`Arrive`, `MessageHooks`, `EnsureRun`, `MessageStarted`, `Directing`, `Enqueue`; a start
through `Ask`, `StartPackage`, then either the work of the preparation (`CheckParameters`,
`CreateRun`, `PrepareWorkspace`, `InstallScript`, `CompleteLifecycle`, or `WorkStops`) or
the queue inside the run (`Choose`, `TakeTurn`, `StartInRun`).

What a step has done before it fails stays done. A start inside the run may be refused when
its script is installed (`InstalledInVain`: `#enqueueStart` fails, or the run can no longer be used), the
preparation may fail between the install and the coordinator (`FailsInstalled`) and, when
`sessionStarted` has finished, before the startup counts as complete (`FailsTold`). The history
variables `unqueued` and `unready` count the first and the last of these. A start that is
made again finds `pending` and goes on from there: with the coordinator, the hook, the input.

### Workstation

One workstation and the registry of the server. `entry`, `pending`, `delivery`, `retry`
are `WorkspaceClientRegistry`; `start` and `watch` the calls of the sandbox host; `down`
is the stream, in order, `up` the answers, in any order; `task`, `waits`, `stopping`,
`needsStop`, `reset`, `asking` the workstation. `LoseStream` is seen by the workstation,
`Disconnected` by the server, each in its own time; `Announce` and `Register` are the two
halves of a sign-in; `Crash` forgets what the server keeps in memory. `StopTimeLimit` is a
request that was not answered in time, whose late answer is not heard.

### Watch

`watches` and `stored` are the two places of a watch, `loading` what a preparation has
still to compile. `Fire`, `Evaluate`, `OperationEnds` are the rounds: `debounce` is the
timer, `round` what is still to be looked at, `seen` the snapshot kept while an operation
runs, `dirty` the request for another round. A condition is a table of verdicts, so each
condition a program may write is a value of `Verdict`.

### RpcPeer

The calls of the server to a client. `call`, `timer`, `grace`, `heard` are the entries of
`#pending` with what may still settle them, one peer for each stream; `running` is the map
`#running` of the one peer of the client, `handler` what its handlers do. `tick` and `work` are
the microtasks of the two sides: `Send` and `Post` are what they do, and a timer or the network
comes after those that wait. `down` is the stream, `up` the posts, which keep their order
(`#outgoing`) and name the stream the client has when they are sent. A post may also fail or exceed
its time while the stream lasts, whether it arrived or not (`Arrive`, `client.ts:376`); the handler
then answers once that it failed (`failure`, `peer.ts:254`).

### RpcChannel

The subscriptions of a client to one provider. `sub`, `bound`, `binding`, `again` are
`#subscriptions` with `serverId`, `binding` and `retry`; a request for a subscription has a number, which also
stands for its id at the server. `state`, `listening`, `buffer`, `flush`, `signal` are the
locals of `#subscribe` and the map of the connection; `Arrive`, `Open`, `Opened`, `Flush` are
its parts between the waits. `cut` and `ends` are cancellations and unsubscriptions on their
way. What the provider says is the number of its last change, so that a lost, repeated or
overtaken message shows.

### Configurations and proofs

`MCRunKernel`, `MCJournal`, `MCWriterLock`, `MCDispatch`, `MCTurnScheduler`,
`MCWorkstation`, `MCRunStart`, `MCWatch` and `MCRpcChannel` give the constants of the runs and the symmetry
sets. The theorems are in `RunKernel_proofs`, `Journal_proofs` (which also holds those of the
writer lock, the lock of the journal's folder), `TurnScheduler_proofs`, `Workstation_proofs`,
`Watch_proofs` (with the theorems of the dispatch: both say who is told of an event),
`RunStart_proofs`, `RpcPeer_proofs` and `RpcChannel_proofs`.
Operators introduced by a comment
"Fault" are variants of the operator that follows them with a plausible mistake;
the specifications do not use them. Each property of a passing run has been seen to
fail when one of them takes the place of its original (`PROJECT.json`, "mutants").

The invariants of a module that lean on one another are checked as one:
`KernelInv`, `JournalInv`, `LockInv`, `DispatchInv`, `SchedulerInv`, `WorkstationInv`,
`RunStartInv`, `WatchInv`, `PeerInv` and `ChannelInv` are conjunctions of `TypeOK` and the named parts.
So are the properties that answer one question in several respects:

| Property | Parts |
| --- | --- |
| `StoppedRunRests` | a stopped run takes nothing up (`NothingJoinsStoppedRun`), holds its actors (`StoppedRunHoldsActors`) and lets none go by the way (`ReleasedOnlyDirectly`) |
| `NothingTwice` | an input is consumed once (`ConsumedOnce`), a turn ends once (`TurnEndsOnce`) |
| `NothingLeftToWake` | a stopped actor has nothing that could wake it (`StoppedIsQuiet`), a removed subscription leaves nothing waiting (`RemovedSubscriptionDrained`) |
| `EndsWithoutDriver` | an interrupted turn ends (`InterruptedTurnEnds`) and a shutdown settles (`ShutdownSettles`), whatever the driver does |
| `CancellationFits` | only who left or was stopped is cancelled (`CancelledAlone`), and who withdrew is not accepted (`WithdrawnNotAccepted`) |
| `CancellationArrives` | a cancelled call ends (`CancelledEnds`) and its handler is told (`GivenUpIsTold`) |

## 4. Runs

| Run | Asks | Shows |
| --- | --- | --- |
| `kernel_branch` | two agents and a TypeScript actor that create one another, run, write to, stop and restart one another in a run that is stopped and continued | a stop reaches the whole branch, also through actors stopped before (`BranchStopsWhole`); a stopped run rests until somebody addresses an actor (`StoppedRunRests`) |
| `kernel_restart` | one agent with a subscription, steering, presentation, tool calls, orderly shutdowns, crashes and startups that continue turns | lifecycles, turns, calls, claims and recoveries agree (`KernelInv`), no task is lost to a server stop (`ClaimedInputAccountedFor`), what was stopped or removed wakes nobody (`NothingLeftToWake`), nothing happens twice (`NothingTwice`), a startup leaves no turn running (`RecoveryLeavesNoTurnRunning`) |
| `journal_crash` | three commands, appended, adopted and repeated by callers and listeners, with failing calls, crashes and losses of power | memory and file agree between calls, no command twice, answered commands load again (`JournalInv`) and are durable (`AnsweredIsDurable`), listeners see everything once and in order (`SeenInOrder`), and the journal implements `CommandLog` (`KeepsPromise`) |
| `lock_serial` | three processes on two machines, opening one after the other, dying and being suspended | one owner file of one process, and a second writer only beside a suspended one that was replaced (`LockInv`), which stops at its next heartbeat (`ReplacedWriterStops`, liveness); nobody removes the file of a living, unsuspended process (`OwnerKept`) |
| `dispatch_watch` | a lead and its worker watch each other, with a crash, a fork or an import | each match is delivered, once, in order (`EveryMatchDelivered`, `DispatchInv`); a creator learns of failures (`FailureNoticed`); what was cut off is not caught up (`NoCatchUp`) |
| `sched_turns` | an actor with two turns, two inputs, two stops of the actor and two of the run, and a shutdown | a running turn has a task that ends it, and a halted run does nothing until it is cleaned up (`SchedulerInv`); an interruption hits its own turn and what a person ended is not continued by the next startup (`InterruptionsAsked`); no lost wake-up (`WaitingInputStarts`), interrupted turns end and the shutdown settles (`EndsWithoutDriver`) |
| `workstation` | a run, isolated or with full access, with two background commands, a stop and a deletion, under two of: lost stream, crash of the server, exceeded time limit, failed stop | a stop carried out has ended everything called before it, commands with full access do not outlive their stream into a new sign-in, and an end is told once (`WorkstationInv`); no stop ends a later command (`StopSparesLaterTasks`); stops and deletions arrive (`EndsArrive`); the actor learns of the end of its command (`EndNoticed`) |
| `run_start` | a message and two starts of a script that share a preparation, with callers that leave, a deletion, one failing step, and one stop, lost primary, crash or repetition | a cancellation meets the requests it was meant for (`CancellationFits`), no input before the start hook (`InputAfterReadiness`), a startup is finished and not repeated, but for what failed at the last step, and is shown while it lasts (`RunStartInv`), a deletion is final (`DeletionIsFinal`), and everybody is answered (`EverybodyAnswered`) |
| `watch` | two watches, one with an operation and a stall, created and removed while source and target take turns, with a stop, an end of the server or a failure | one round at a time, and a baseline that is that of the last wake in memory, in the journal and after loading (`WatchInv`); an ended watch stays quiet (`EndedStaysQuiet`); no change is lost (`ChangesReported`) |
| `rpc_peer` | two calls to a client over one stream, or over two that number them alike, one without a time limit, with cancellations, lost streams, failed posts and late answers | an ended call leaves no timer, grace period or listener, no answer is taken for another (`OwnAnswers`), what was withdrawn before it was sent never runs (`WithdrawnNeverRuns`; together `PeerInv`); nothing but the end of its stream silences a handler (`SilencedOnlyWithStream`); a cancelled call ends and the handler of one given up is told (`CancellationArrives`) |
| `rpc_channel` | a subscription with three requests over three streams, two changes, and one of: lost stream, exceeded time limit, refusal, revoked access, expired messages | a provider speaks only to a subscription that is there, what a client is bound to is its own request over the present stream, one at a time (`ListenersServe`, `BoundIsPresent`; together `ChannelInv`); every state since the opening, each once (`EachOnce`); the latest state in the end (`Converges`) |
| `sched_restart` | an actor that is stopped in its turn and restarted at once | that it is not served, against the documentation: section 8 |

Deadlock is checked in the runs of the kernel and the journal, where a next command
is always possible or a restart is. The other configurations switch the check off:
all processes may have closed the folder, the bound on events, requests or turns may be
used up, the server may be down.

## 5. Bounds

- *kernel.* Two agents and an actor that a program runs are the smallest branch with
  something in the middle, which is what a stop has to walk through; two turns and inputs let
  one actor be addressed while another runs (318 000 states). `Policies = {}` leaves startups out of that
  run, where nothing depends on them. `kernel_restart` needs two turns, an original and its
  continuation, and three inputs: one claimed, one steered, one delivered by the subscription or
  carried over (1.9 million states). One tool call tells open from closed. Only the policy
  that continues turns is in the run: under the others a recovery is the one a stopped run gets,
  which the run has. Those policies, and what a startup does with actors that programs or
  external runtimes drive, are covered by the proofs of section 7, which hold for every policy.
- *journal.* Three commands give a batch of two and a nested append; two listeners give
  one that has seen the batch and one that has not when the first of them appends. One
  command has a payload file, the other two are interchangeable.
- *lock.* Three processes are a writer, the one that replaces it, and one that replaces
  that. The third is on another machine, where only the heartbeat tells. A process is
  suspended at most once, opens the folder at most once.
- *dispatch.* Five events are enough for a turn's end, its delivery, the end of the turn
  it caused and the stop of one of the two; one crash, fork or import per behaviour (3 million
  states). Two actors have no branch with a stopped actor in the middle, and one disruption no fork
  that is imported; the proofs of section 7 hold for any team and any number of disruptions.
- *scheduler.* The maps of the scheduler are keyed by the actor, so one actor meets all of
  its timers and continuations (270 000 states). An instance with two actors, one turn each,
  was explored as well (517 000 states, all properties hold); it shows nothing the smaller
  one does not, so it is not kept as a run, and the invariants are proved for any number. Two turns distinguish "its turn"
  from "the next one"; two stops let a second one arrive while the first is under way.
- *workstation.* One run, because the registry keeps its entries per run; two commands, one
  called before the stop and one after it; two faults, since the interesting histories need
  a lost stream *and* a late stop. 390 000 states. Sign-ins renewed over a living stream
  (`MaxRenewals`) are off in the run; the proofs of section 7 hold for any number of everything.
- *run start.* A message and two starts: one to begin the preparation, one to join it, one
  that comes when it is cancelled. One failure and one upset at every place, 545 000 states. The
  inductive invariant of section 7 was also explored with two templates, two failures and two upsets, up to 7 million
  states, without an error.
- *watch.* Two definitions, one plain and one with an operation and a stall, so that one
  watch is judged while the other waits; one turn of the source gives it four observations;
  one upset. 550 000 states.
- *rpc peer.* Two ids on each of two streams are what it takes to mistake one call for another;
  two calls in all put them on one stream or on both. Each handler may report progress, one
  message in all, which is enough for one that comes late; or one answer fails to be posted while
  its stream lasts. 208 000 states.
- *rpc channel.* One subscription: subscriptions share the stream and the limit, nothing else.
  (An instance with two, two streams, one change and one fault was explored to four million
  states without an error and does not fit the time of a run.) Three requests are an original, one that
  replaces it and one that replaces that; three streams let two be lost. 490 000 states.

## 6. Fairness

Safety properties do not depend on fairness. Seven modules state it:

- `WriterLock!FairLockSpec`: a process that is neither dead nor suspended goes on to its next
  system call (the event loop and the heartbeat timer); a suspended one is resumed; time
  passes, so a heartbeat that is not renewed grows old. No process has to start or close.
- `TurnScheduler!FairSpec`: weak fairness of the continuations of promises (`TaskStep`,
  `DisposalStep`, `CallerStep`, `HaltStep`), which includes the timers the code sets:
  `TurnAbortDeadline`, `interruptWaitMs`, the limit on the clean-up of plugins. *Not*
  assumed: that a driver returns (`DriverReturns`), that an operation it left behind ends
  (`OrphanEnds`), that plugins settle (`PluginsSettle`), that a turn times out
  (`TimeOutTurn`), and that anybody sends a command. That is why `WaitingInputStarts` makes
  an exception for a quarantine, which lasts until plugins and drivers have settled.
- `Workstation!Spec`: both sides go on with what they have begun (requests and answers of a
  living stream arrive, timers and sign-ins happen, processes that are told to end do). Not
  assumed: that a command ends by itself, that anybody starts or stops one; stops that fail
  are excepted by name (`failed`).
- `RunStart!Spec`: hooks, preparations and checks of content end, one way or the other, and
  waiting promises continue. That hooks end is an assumption about plugins: the code awaits
  them. Nobody has to send, leave, stop or delete.
- `Watch!Spec`: the timer fires, rounds go on, operations and compilations end. Neither source
  nor target has to do anything.
- `RpcPeer!Spec`: microtasks and timers come; a stream that lasts delivers, and the client
  notices in the end that the server has closed one (`StreamEnds`, the idle limit of 45 s). Not assumed:
  that a handler returns or that a caller gives up.
- `RpcChannel!Spec`: requests, answers and messages arrive, timers fire, the provider opens, a
  closed stream is noticed (`conn \in closed /\ LoseStream`) and the client reconnects. Nobody has to subscribe
  or release. `Converges` makes exceptions for what the code gives up by design: revoked access,
  of which a client is not told, and early messages that expired; and for behaviours
  that have used up the bounds (`Spent`).

## 7. Proofs

### The aggregate

`RunKernel_proofs` proves statements about `RunKernel` for every set of actors, every number of inputs, turns and calls, and all grants, from
`KernelAssumption` (actors, owner and the placeholder are distinct, the three kinds of
actors are disjoint, the bounds are natural numbers, grants are sets of capabilities).

*The invariant.* `RunningTurnsMatch`, `ClaimsMatchTurns` and `OpenCallsRun` lean on one
another and on the state of ids that are still free. `KernelInv` is the conjunction

- `TypeOK`;
- `RunningTurnsMatch`: lifecycles and turns name each other;
- `OpenCallsRun`: open calls only in running turns;
- `ClaimsMatchTurns`: claims and turns name each other;
- `Untouched`: an id that is not used has the initial value (without it a new turn could
  start with a recorded recovery or open calls);
- `RecoveredTurnsEnded`: a recorded recovery belongs to a turn the server ended (without
  it `RestartsMatchRecoveries` is not inductive, because a running turn could carry one);
- `RestartsMatchRecoveries`: a continuation and the recovery of its turn name each other.

`TypeOK` is not inductive alone: the actions that write to `turns[lifecycle[a].turn]`
keep the types only because that turn exists. `StepTypeOK` and `StepParts` have one step per
action; what several actions share (enqueueing, discarding, claiming, ending the turns of a
set of actors) is a lemma of its own, parameterised by the set.

*The steps.* Action properties follow from what a step can do at all: `InputSteps`, `TurnSteps` and
`MarkSteps` list how a step can change the inputs, the turns and the held marks; the
theorems follow from them and from `KernelInv`. `RecoveryIsComplete` needs one invariant
more, `InOrder`: ids are given in order and a running turn is the latest of its actor,
which is what makes it enough that a startup looks at the latest turn of each actor.

*No task lost.* `ClaimedInputAccountedFor` speaks of turns that still wait for a startup,
and says nothing inductive about them. `TaskInv` adds two facts. `NoneForgotten`: a turn
that the server stopped and nobody recovered was left behind by a startup, or the server
is not up and the turn is the latest of its actor. It holds because turns start only while
the server is up and are given the server's cause only while it shuts down; so no newer
turn can hide one that waits, and an actor restarted during the shutdown is still found.
`ContinuedHandsOn`: the continuation of a turn carries each input of that turn that was
not shown. It survives later steps because an input that is there never changes what it
continues and carries (`InputKept`), and no input joins a turn that has ended.

*The whole branch.* `DescendantsOf` and `BelongsToBranch` walk the creators as often as there
are actors, as recursive functions. That the walk down is complete is an induction over its
steps: as long as it is not closed it has one actor more at every step (`WalkIsComplete`), and
who belongs to the branch is in everything closed that has the root (`BranchInside`). The
induction theorems of the library take an operator; `CountingUp` states the induction for the
numbers of a *set* instead, and follows from the minimum of a well-founded relation (`WFMin`).

| Theorem | States for every instance |
| --- | --- |
| `KernelInvariant` | `KernelInv` |
| `TypeCorrect`, `TurnsMatchActors`, `NoCallOutlivesItsTurn`, `ClaimsAlwaysMatch`, `RestartsOnce` | the invariants `TypeOK`, `RunningTurnsMatch`, `OpenCallsRun`, `ClaimsMatchTurns`, `RestartsMatchRecoveries` |
| `InputsConsumedOnce`, `TurnsEndOnce` | `ConsumedOnce`, `TurnEndsOnce` |
| `StoppedRunClaimsNothing`, `StoppedRunHolds`, `HeldUntilAddressed` | `NothingJoinsStoppedRun`, `StoppedRunHoldsActors`, `ReleasedOnlyDirectly` |
| `StoppedRunStaysAtRest`, `NothingHappensTwice`, `NothingWakesTheStopped` | `StoppedRunRests`, `NothingTwice`, `NothingLeftToWake`: what the rows beside them state, together |
| `RecoveryIsComplete` | `RecoveryLeavesNoTurnRunning` |
| `NoTaskLost` | `ClaimedInputAccountedFor` |
| `StoppedStaysQuiet`, `RemovedStaysDrained` | `StoppedIsQuiet`, `RemovedSubscriptionDrained` |
| `BranchesStopWhole` | `BranchStopsWhole` |

### The journal

`Journal_proofs` proves `Invariance` (`JournalInv`), `Durability` (`AnsweredIsDurable`),
`PublishedInOrder` (`SeenInOrder`) and `Implementation`, the refinement of `CommandLog`
(`KeepsPromise`), for any commands, sizes of a first batch and numbers of listeners. None of the
properties is inductive, because between two calls of the file system file, memory and answers
disagree. The invariant says how, phase by phase:

- `Steps`: which phases an operation that replaces the file has and which one that adds a
  line, and that its records are not in memory until it commits;
- `File`: no record twice, and the only line that is no record is the synced last one after a
  loss of power, until a start drops it;
- `Memory`: an open run is behind its file by the batch between write and commit, a failed one by one
  line at most, a locked one knows nothing;
- `PayloadsKept`: a line that refers to a payload file is written after that file was synced;
- `Durable`: what is committed or being published is synced, also for the call inside which a
  listener appends (`outer`);
- `AnswersKept`: without losses of power every answer is in the file.

`SeenInOrder` speaks of prefixes. `Publication` says where they end: the batch being published
and those queued behind it are consecutive parts of the journal, whose cuts are an explicit
function (`Cuts`), and the listeners called already are one part ahead of the others. A nested append
adds a part at the end, the next batch moves the cuts by one. In the refinement,
`Commit` and the writes map to the steps of `CommandLog` one by one (`StepPromises`); the
repair of the file's end and every sync stutter.

### The writer lock

`Journal_proofs` extends both modules about `runtime/journal.ts`, and its last section is about
the lock of the folder. It proves, for any finite set of processes on any machines, any number of
suspensions (`LockAssumption`), and starts that do not overlap (`~Overlap`): `LockInvariant` (`LockInv`) and
`OwnerStays` (`OwnerKept`). `AloneUnlessSuspended` speaks of two writers; the induction needs
what the file operations leave behind. `OneOwner`: there is one owner file, and it is that of
every process that holds the lock and did not die or fall asleep. `OneOpening`: one process
at a time is opening, and at each of its file system calls the files it is about to remove
belong to processes that died or were suspended. The latter is what `OwnerKept` follows from.

### The scheduler

`TurnScheduler_proofs` proves `SchedulerInvariant` (`SchedulerInv`) and
`InterruptionsAreAsked` (`InterruptionsAsked`) for any actors and bounds. The two need each
other: what a turn ends as depends on the abort mark of its task and on the request to
interrupt it. The strengthening is `TasksFit` (a request to interrupt belongs to the task's own
turn, and a task that may not go on is aborted), `BlockExplained` (a run is blocked exactly
for its halt and its quarantine) and `AbortsAsked` (a task is aborted exactly when somebody
asked for the end of its turn, or by the shutdown). Most of it concerns one actor, so the
proof rewrites the invariant as `TypeOK /\ BlockExplained /\ Whole /\ \A a : Fits(a)`; a
step changes one actor, and `OneActor` says that the others keep `Fits` even though the
subscriber may launch a task for any of them.

### The workstation

`Workstation_proofs` proves `WorkstationInvariant` (`WorkstationInv`) and `StopSparesLater`
(`StopSparesLaterTasks`), for any finite sets of runs and commands and any number of stops,
faults and renewed sign-ins, from `WorkstationAssumption` only. (Runs and commands are finite
because a sign-in sends what is outstanding in an order of `SetToSeq`.) What the two properties say of
one command is decided by where everything else is on its way, and the strengthening `IInv`
follows it:

- on the line: `Orderly` forbids pairs of requests in the wrong order. A command is started once
  and has one observer whom anybody hears, and nothing is started behind a stop of its run; the lemmas
  at the head of the module say what the ends of a line, `Unheard` and the sequences of a sign-in preserve;
- at the server: `DeliveryOf` says who waits for a delivery and what keeps it pending, `InTimeRun`
  that one request at a time delivers the stop of a run, `InTimeTask` that a command
  called behind a stop waits for it;
- at the workstation: `StartOf` and `ObservationOf` give a command one call and one observation,
  each in one place; `StopsOf` and `CarriedOut` say what is to end and that a stop that was
  carried out left nothing behind; `EarlierOf` is `StopEndsEarlierTasks` with what may still be on the line;
- across streams: `Quiet` (without a sign-in nothing is under way) and `SignIn`; `NoticeOf` says that
  after its notice a command is neither observed nor named by a sign-in again.

The conjuncts that the time limit or a failed stop takes away are conditional on `late` and
`failed`, run by run, so that nothing is said less of the other runs. Each
action has a lemma; what several share is in `AfterHead` (a request arrives), `AfterSettled` (a delivery
ends) and `AfterStreamLost`. The attempt to prove `NoticedOnceUnlessRenewed` as it stood showed a history beyond
the bounds of the run: section 8.

### The watches

`Watch_proofs` proves `WatchInvariant` (`WatchInv`) and `EndedIsQuiet` (`EndedStaysQuiet`)
for any calls, definitions and verdicts. `WatchInv` is inductive as it stands. Two conjuncts are there for
that: `round \subseteq DOMAIN watches \cup removed` in `Numbered` (a round in progress
cannot come across a watch with the same number that was loaded meanwhile) and the second
part of `OneRound` (nothing is evaluated, compiled or loaded of a run that is closed), which
is what keeps an evaluation that waited for its operation from waking anybody after a stop.

### The dispatch

The second part of `Watch_proofs` proves `DispatchInvariant` (`DispatchInv`), `MatchesReach`
(`EveryMatchDelivered`), `FailuresReach` (`FailureNoticed`) and `LostStaysLost` (`NoCatchUp`), for
any finite sets of actors and subscriptions, any tree of creators, and any number of events,
crashes, forks and imports, from `DispatchAssumption` only. `EveryMatchDelivered` and `FailureNoticed`
speak of moments when nothing is left to publish. The invariant `IInv` (checked with TLC on two instances
before it was proved) says where everything is at the others:

- `Ordered`: the event being delivered, the rest of its batch and the batches that wait follow one
  another in the order of the log;
- `Known`: inputs and notices in the log and command ids the journal knows match, except that
  a fork forgets the ids;
- `Sequenced`: what a subscription got is older than all it still gets (`Behind`), which is why it gets things
  in order and, without an import, once; with an import but no fork, `Known` is why it gets them once;
- `Reached`, `Told`: a match not yet delivered, and a failure its creator has not learned of, still
  waits or was cut off. `StillActive` belongs to the second: `#dispatchCreatorAlerts` gives no notice of
  actors that are stopped, and who was not stopped since its turn ended is active;
- `Uncaught`: what was cut off waits again only in the batch of an imported history, which stands alone.

Commands come only when nothing waits, so their lemmas are one (`CommandStep`): what it takes of them is
that nobody is stopped without an event that says so and that the end of a turn comes before the stop. For a
stop this is a statement about a sequence of sequences, one for each actor of the branch;
`FlattenSeq` is a recursive function, and `Flattened` says what it returns by induction over sets of
numbers (`CountingUp`). What the dispatch commits itself is in `Reaction` and `Answered`.

### The start of a run

`RunStart_proofs` proves the action properties of `run_start` (`CancellationHits` joins
`CancelledAlone` and `WithdrawnNotAccepted` to `CancellationFits`), and `RunStartInv`, for
any messages, starts, templates and bounds, from `RunStartAssumption` only. The inductive
invariant `StartInv` was checked with TLC on the instance of `run_start` before it was
proved. None of the properties is inductive, and what they need is about pairs of state:

- `CancelledAlone`: a preparation that was cut because all left has no waiters, one that was
  cut by a stop has only waiters that met the stop. This holds because a request joins only
  a preparation that is not cut, which in turn needs `Calm`: while a request goes on after
  a preparation, nobody is about to give up and cancel the next one before it joins.
- `WithdrawnNotAccepted`: the controller of a message that met a stop is aborted; a mark
  ends with the request that has it, so that a repeated request does not inherit it.
- `InputAfterReadiness`: a message on its way to an actor that is still primary has a startup
  that is complete (`Fits`), since an actor that becomes primary during a preparation is new
  (`Owners`: no actor is primary before the preparation sets one).
- `DeletionIsFinal`: what is archived has its intent on disk or is done (`Deletes`), a
  message looks at the deletion just before it begins a preparation, and no install is left
  that could still end in a run the deletion has drained (`Staffing`).

- `StartupShown`: follows from `StartInv`.
- `StartedOnce` compares counters that different steps raise: how often the hook finished,
  the actors lost, the times the run was not ready after the hook; and the installs, the accepted starts
  and those refused after their install. `Billed` gives every hook after which the run was ready an actor of its own: while
  a startup is incomplete, its primary actor is one for which no such hook was told, and every actor but one comes after a
  loss. `Staffing` says that a script is installed by a preparation only before the run has
  an actor, that the start which waits for a preparation owns it, and that nothing is
  under way once a deletion has drained the run, so that `Spare`, at most one script for which no start was
  accepted or refused inside the run, is not joined by a second one after a crash. Accepted starts are
  counted as sets, one by one.

Most conjuncts concern one request (`Fits`); `RequestMoves` says that a request that moves
leaves the others as they were, and `Concluded` lists the ways a request can end.

### The calls between server and client

`RpcPeer_proofs` proves `PeerInvariant` (`PeerInv`) and `SilencedOnly`
(`SilencedOnlyWithStream`) for any ids, streams, time limits and number of calls. Ids repeat on
every stream, so that an answer belongs to its call has to be shown over the whole way of a
message. The strengthening follows that way: a request waits to be sent once and only until it is
sent (`Queued`); what is on a stream was sent over it, and its handler has not begun
(`Carried`); no handler has begun for a call that was not sent (`Begun`); what the client runs under an id came over its present
stream (`EntriesFit`), and as long as that lasts every handler has its entry (`Serves`); an
answer, or the failure of one, comes from a handler that has returned, and names the stream it was
asked over (`Said`).
`Queued` and `Carried` speak of each message at its place in a sequence; `TailOnce` and `AppendOnce`
are what the two ends of a queue preserve. `SettleStep` is shared by everything that ends a call at the
caller, `GoOn` by everything that ends a handler.

### Subscriptions

`RpcChannel_proofs` proves `ChannelInvariant` (`ChannelInv`) and `EachStateOnce` (`EachOnce`)
for any finite set of subscriptions and any number of streams, requests, changes and faults. (The
set is finite because a reconnect binds its members one after the other, in an order of
`SetToSeq`; a client has finitely many.) For `ChannelInv` the strengthening is `Requests`: a request
that was not made has no state at the server, and what a subscription waits for or is bound to is a request whose
answer is still to be read, or was, and that nobody has ended. `EachOnce` says what the client
holds; what it does not hold yet is on its way, and `Delivery` says where: a message is in the
buffer of the server, on the stream or at the client, in one of them, once (`Parted`), and
together they are everything since the opening as long as the request is served
(`Complete`). `Fresh` orders the phases: nothing is said before the opening, and a
request that is held sends its buffer before anything else.

### Out of the prover's reach

Left to TLC: liveness under fairness (`ReplacedWriterStops`, `WaitingInputStarts`,
`EndsWithoutDriver`, `EndsArrive`, `EndNoticed`, `EverybodyAnswered`,
`ChangesReported`, `CancellationArrives`, `Converges`), which the proof system does not support.

## 8. Where the code and its documents disagree

One has a run that TLC must find violated.

- `sched_restart`: *core.md:717* says that a restarted actor accepts inputs again. An actor
  that is stopped in its turn and restarted before its driver has settled is revived first
  (`agents/scheduler.ts:645`) and retired afterwards; every turn it takes fails until it is
  stopped and restarted again.

The models show more, which the properties of section 4 step around by an assumption or an
exception. Each is stated in its module; adding it to the configuration named here lets TLC
find the history.

| Property, configuration | Statement | What the code does |
| --- | --- | --- |
| `WriterLock!NeverTwoWriters`, as `INVARIANT` of `lock_serial.cfg` with `Overlap = TRUE`, `Suspensions = 0` | *core.md:1601*: there are never two writers | `#acquireWriterLock` creates the directory before its owner file, and `staleLockReason` (`runtime/journal.ts:170`) takes a directory without an owner file for orphaned. A second start in between removes and recreates it, both open an owner file, and neither heartbeat notices |
| `WriterLock!DeadOwnerReplaced`, as `PROPERTY` of `lock_serial.cfg` | *core.md:1599*: the lock of a dead process of the same host is taken over | a process that dies between truncating and writing its owner file (`runtime/journal.ts:180`) leaves an empty file, which is taken for a living owner at every later start |
| `Dispatch!ForkMovesOnce`, as `INVARIANT` of `dispatch_watch.cfg` with `Disruptions = 2` | *core.md:1681*: no historical catch-up, because it could trigger an effect twice | a fork gives its commands new ids; an import (`apps/server/src/provider.ts:763`) does not suppress the dispatch of its history. A fork that is exported and imported delivers its history again |
| `Dispatch!StopNoticed`, as `INVARIANT` of `dispatch_watch.cfg` with `Disruptions = 0` | *core.md:919*: the creator of a sub-worker learns about it when the owner stops it | `#dispatchCreatorAlerts` (`runtime/orchestration.ts:823`) skips actors that are stopped, which the child always is by then |
| `Workstation!StopBeforeNewTasks`, as `PROPERTY` of `workstation.cfg` | *plugins.md:4367*: a pending stop is delivered "before any new task of this run" | a stop that the workstation carried out without answering in time is delivered again and ends commands started since (`plugins/ragents.workspace/server/clients.ts:246`) |
| `RunStart!StoppedStartRefused`, as `PROPERTY` of `run_start.cfg` | *typescript-platform.md:551*: a stop "reports the cancelled start immediately and prevents further setup steps" | a start that waits for a cancelled preparation (`session.ts:767`) or checks its parameters inside the run (`session.ts:806`) has no controller that a stop could abort, and goes on |
| `RunStart!FailedStartLeavesNothing`, as `PROPERTY` of `run_start.cfg` | *typescript-platform.md:520*: a failed start "removes the program folders it copied and leaves neither an actor nor a room behind" | a start inside the run whose input is refused (`session.ts:825`, `plugins/ragents.actor-programs/server/runtime.ts:670`) has its script installed by then, with its actor and its room, and a repetition installs another one; the test `run-script-in-run.test.ts:368` has such starts and looks at their records. A start of a new run leaves its script too, but a repetition uses it |
| `Watch!StoredKept`, as `PROPERTY` of `watch.cfg` | *plugins.md:5906*: watches are stored and restored when a run is prepared | after a restart the server resumes turns before anybody has prepared their run; a `watch_create` of such a turn opens an empty set and persists it over the stored one (`plugins/ragents.watch/server/service.ts:176`), and the preparation that follows finds the run open and returns |
| `RpcChannel!InitialStateFirst`, as `INVARIANT` of `rpc_channel.cfg` | *plugins.md:1471*: a provider repeats its initial state on opening, and these messages come after the response to the subscription | they are sent by a `setTimeout(0)`, whereas a change of the provider between the response and the timer is sent at once (`apps/server/src/rpc/dispatcher.ts:186`): it gets ahead of the older state |
| `RpcChannel!ReleasedIsEnded`, as `INVARIANT` of `rpc_channel.cfg` | *plugins.md:1554*: a release cancels a pending bind | if the answer to the bind is on its way, the release aborts the request and with it the answer; the server keeps a subscription whose id the client does not know (`apps/web/src/rpc/client.ts:136`) |
| `RpcChannel!AtMostMaxSubs`, as `INVARIANT` of `rpc_channel.cfg` with `Subs = {s1, s2}`, `MaxSubs = 1`, `MaxStreams = 1`, `MaxBinds = 2`, `MaxChanges = 0`, `MaxFaults = 0` | *plugins.md:1473*: at most 64 subscriptions per connection | the number is compared before the provider is opened and grows afterwards (`apps/server/src/rpc/dispatcher.ts:158`) |

Seen while modelling and not stated as a property:

- *Journal.* `load` takes over a record that was written and
  whose sync failed (`runtime/journal.ts:864`, against *core.md:1525*): the command was
  answered with an error and is there after a restart. The directory entry of a new journal
  is synced after the commit, and not again when that fails: the run goes on, and a loss of
  power may take the file with commands that were answered later (`AnsweredIsDurable` has an
  exception for it).
- *Lock.* A writer that was suspended for more than 30 seconds may append until its next
  heartbeat; `AloneUnlessSuspended` names that case.
- *Run start.* When the input of the first start is refused after `sessionStarted` has finished
  (`session.ts:897`), the startup stays incomplete and the next start or message has the hook called once more.
  This is documented: "a start repeated after a failure calls it again" (*plugins.md:643*);
  `StartedOnce` allows it by `unready`.
- *Watch.* An evaluation with an operation judges whether the actor came to rest by the snapshot
  from before the operation (`service.ts:260`). An operation or a compilation that fails leaves a change
  unreported until the next event of the run (`missed`). A crash between wake and baseline
  wakes a second time after the restart (`torn`). Two concurrent `watch_create` with the same
  arguments make two watches.
- *Workstation.* A deletion requested while a stop is under way that ends in an error stays
  pending until the next sign-in. After a stop while the workstation was away, the sign-in
  still names the commands of the stopped run, and their actors are told that they can no
  longer be observed. An end that the workstation returned just before a crash of the server
  is never told (`unheard`). A sign-in renewed over a living stream may bring a second notice
  (`NoticedOnce` with `MaxRenewals = 1`). So may a stop that fails: the stop exceeds its time
  limit, a start held behind it goes out beside its repetition, the stream is lost, and
  the stop that the next sign-in carries out fails; the actor is told that its command can no
  longer be observed, a later sign-in names the command again, and its end is told as well.

## 9. Only checked, not modelled

Only model-checked: the liveness properties. All safety and action properties of the passing runs are proved as well.

Not modelled in the modelled components:

- Kernel: questions to people, rooms and sharing, artifacts, plugin states (they do not
  meet the modelled decisions), and the changes of capability grants at creation.
- Journal: deleting a run, more than one run (a failed write closes its own run only), the
  validation of records, which would turn into `Corrupt` lines in the middle of a file.
- Dispatch: the events of rooms and artifacts, which take the same path with other filters.
- Scheduler: the check of tool names before a turn, deleting a run (`retire`), a stop of
  the run during a shutdown, a journal that refuses the end of a turn.
- Run start: start options, scripts without a coordinator, the global coordinator, the reset
  of a conversation, a stop that joins one under way. An install and the creation of the coordinator are one step each: a
  journal that refuses a write in the middle of them may leave an actor without its package, or one that
  is not primary.
- Workstation: the sign-out, the confirmation of full access and changes of it, the stop of a
  single command, the 15 minutes a call may take, the 5 seconds of grace of a cancelled call,
  files, foreground commands and language servers, several workstations.
- Watch: the history of verdicts, texts, counters, rooms.
- RPC: calls of a client to the server (a check of rights and a call), the peer over standard
  input, a connection without a stream, what a callback of the interface does with a message.

Not modelled at all: section 1, "The rest", with the reasons in `PROJECT.json`. Most of the
repository is of that kind: the web interface, the extension, tools, providers, scripts and
configuration transform data or talk to the outside and keep no state that several actors
share; the lines of the models are few beside them. The parts with interesting state that
are still missing are in the plan.

## 10. Plan

Done: the ten components above and the proofs of section 7.

1. *TurnScheduler, completed*: the tool name check across awaits (`scheduler.ts:822`),
   deleting a run, a stop during a shutdown; then its composition with the agent turn
   driver (module `AgentTurn` over `drivers/agent-turn.ts` and the loop of
   `packages/agent`): one prompt at a time, inputs claimed, prepared, presented; property:
   an input that was claimed and not presented is reported as such however a prompt ends.
2. *ProgramReplay* (`actor-programs/program-runner.ts`) and *SerialQueue*.

Runs are kept to one per question; a new module takes the place of a run that another one
can answer as well (`sched_restart` moves to the table of section 8).

Proofs that come next: what the liveness properties leave behind when nothing is under way, which is a
safety property each (no waiting input without a task that would start it, a bound subscription
that knows the latest state, no called stop without a delivery), and what the dispatch promises a single
subscription as an abstract specification of its own, which `Dispatch` would implement without forks and imports.
