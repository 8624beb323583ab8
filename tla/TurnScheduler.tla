---------------------------- MODULE TurnScheduler ----------------------------
(***************************************************************************)
(* The turn scheduler of one run (agents/scheduler.ts) between the journal *)
(* and an agent driver (drivers/agent-runtime.ts): it scans the journal's  *)
(* view for actors that can take a turn, starts one task per actor, and    *)
(* ends turns on behalf of people, run stops, timeouts and shutdowns.      *)
(*                                                                         *)
(* The scheduler is one JavaScript thread.  An action is what runs between *)
(* two awaits: a command with its synchronous subscriber, or the           *)
(* continuation of a promise.  Continuations and timers come in any order; *)
(* a timer may fire as soon as it is set.                                  *)
(*                                                                         *)
(* Left out: the checks of requested tool names (the actors ask for none), *)
(* deleting a run (retire), a run stop during a shutdown, a journal that   *)
(* refuses a turn's end, and what a turn's request contains.               *)
(***************************************************************************)
EXTENDS Naturals

CONSTANTS
    Actors,      \* the agents of the run
    Primary,     \* the primary actor, whom a message to a stopped run releases
    MaxTurns,    \* bound: turns started
    MaxInputs,   \* bound: inputs enqueued
    MaxStops,    \* bound: stops of an actor
    MaxHalts     \* bound: stops of the run

ASSUME SchedulerAssumption ==
    /\ Primary \in Actors
    /\ MaxTurns \in Nat /\ MaxInputs \in Nat /\ MaxStops \in Nat /\ MaxHalts \in Nat

TurnIds == 1..MaxTurns
NoTurn == 0

VARIABLES
    \* the run in the journal
    stopped,       \* between run.stopped and run.continued
    held,          \* actors that take no turn until they are addressed
    life,          \* lifecycle of each actor
    waiting,       \* number of pending inputs of each actor
    outcome,       \* of each turn
    \* the scheduler
    task,          \* entry of #active with the step its promise has reached
    interruption,  \* #interruptions
    callers,       \* calls of interruptTurn that still wait: actor and turn
    disposal,      \* #pendingAgentDisposals
    reviveDue,     \* actors whose revival waits for a disposal attempt
    stopping,      \* RunRuntimeState.stopping
    halt,          \* the haltRun in progress: stop and haltBoundaries
    quarantine,    \* RunRuntimeState.quarantine
    server,        \* "up" until stop(), "down" when it is done
    \* the driver and the plugins
    retired,       \* #retiredAgents
    orphans,       \* actors with a driver operation that outlived its turn
    cleanup,       \* plugin clean-ups of run stops that have not settled
    \* history
    asked,         \* whether somebody asked for the end of a turn, and when
    owed,          \* orphans that the latest stop of the run found
    used           \* what was used of the bounds

journalVars == <<stopped, held, life, waiting, outcome>>
runVars == <<stopping, halt, quarantine, server>>
driverVars == <<retired, orphans, cleanup>>
disposalVars == <<disposal, reviveDue>>
vars == <<journalVars, task, interruption, callers, disposalVars, runVars, driverVars, asked, owed, used>>

-----------------------------------------------------------------------------
(* Values *)

Idle == [kind |-> "idle", turn |-> NoTurn]
Stopped == [kind |-> "stopped", turn |-> NoTurn]
Running(t) == [kind |-> "running", turn |-> t]

\* launched: #runTurn is queued; preparing: the turn is claimed and its request is
\* being built; driving: the driver runs; ending: #runTurn is over.
NoTask == [step |-> "none", turn |-> NoTurn, aborted |-> FALSE]
Launched == [NoTask EXCEPT !.step = "launched"]

NoInterruption == [turn |-> NoTurn, cause |-> "none"]

FreshTurns == {t \in TurnIds : outcome[t] = "none"}
RunningTurns == {t \in TurnIds : outcome[t] = "running"}

AcceptsTurns == server = "up" /\ ~stopping
Startable(a) ==
    /\ life[a] = Idle /\ a \notin held /\ ~stopped
    /\ waiting[a] > 0
    /\ FreshTurns # {}

\* The journal's subscriber: a task for every actor that can start and has none.
Scan(tasks) ==
    task' = [a \in Actors |->
        IF tasks[a] = NoTask /\ AcceptsTurns' /\ Startable(a)' THEN Launched ELSE tasks[a]]

Aborted(S) == [a \in Actors |->
    IF a \in S /\ task[a] # NoTask THEN [task[a] EXCEPT !.aborted = TRUE] ELSE task[a]]
At(a, step) == [task EXCEPT ![a].step = step]

Asked(S) == [t \in TurnIds |->
    IF t \in S /\ asked[t] = "no" THEN (IF server = "up" THEN "before" ELSE "after") ELSE asked[t]]

-----------------------------------------------------------------------------
Init ==
    /\ stopped = FALSE /\ held = {}
    /\ life = [a \in Actors |-> Idle]
    /\ waiting = [a \in Actors |-> 0]
    /\ outcome = [t \in TurnIds |-> "none"]
    /\ task = [a \in Actors |-> NoTask]
    /\ interruption = [a \in Actors |-> NoInterruption]
    /\ callers = {}
    /\ disposal = [a \in Actors |-> "none"] /\ reviveDue = {}
    /\ stopping = FALSE /\ halt = "none" /\ quarantine = FALSE /\ server = "up"
    /\ retired = {} /\ orphans = {} /\ cleanup = 0
    /\ asked = [t \in TurnIds |-> "no"]
    /\ owed = {}
    /\ used = [inputs |-> 0, stops |-> 0, halts |-> 0]

-----------------------------------------------------------------------------
(* Commands and the subscriber *)

Enqueue(a) ==
    /\ server # "down" /\ life[a] # Stopped
    /\ used.inputs < MaxInputs /\ used' = [used EXCEPT !.inputs = @ + 1]
    /\ waiting' = [waiting EXCEPT ![a] = @ + 1]
    /\ UNCHANGED <<life, outcome, interruption, callers, disposalVars, runVars, driverVars, asked, owed>>

\* A person's message continues a stopped run and releases whom it addresses.
EnqueueHumanInput(a) ==
    /\ Enqueue(a)
    /\ stopped' = FALSE
    /\ held' = (IF stopped THEN held \ {Primary} ELSE held) \ {a}
    /\ Scan(task)

\* A delivery or a notice wakes nobody who is held.
EnqueueAutomaticInput(a) ==
    /\ Enqueue(a)
    /\ UNCHANGED <<stopped, held>>
    /\ Scan(task)

\* Fault: discards an input that no longer waits.
DiscardAnyInput(a) ==
    /\ server # "down"
    /\ waiting' = [waiting EXCEPT ![a] = @ - 1]
    /\ UNCHANGED <<stopped, held, life, outcome, interruption, callers, disposalVars, runVars,
                   driverVars, asked, owed, used>>
    /\ Scan(task)

\* Removing a subscription discards an input that it queued.
DiscardInput(a) ==
    /\ server # "down" /\ waiting[a] > 0
    /\ waiting' = [waiting EXCEPT ![a] = @ - 1]
    /\ UNCHANGED <<stopped, held, life, outcome, interruption, callers, disposalVars, runVars,
                   driverVars, asked, owed, used>>
    /\ Scan(task)

\* #disposeAgentRuntime on actor.stopped: the running task is aborted, and the
\* driver's runtime is disposed after it; with no task, in the next microtasks,
\* which is one step here.
StopActor(a) ==
    /\ server # "down" /\ life[a] # Stopped
    /\ used.stops < MaxStops /\ used' = [used EXCEPT !.stops = @ + 1]
    /\ life' = [life EXCEPT ![a] = Stopped]
    /\ outcome' = [t \in TurnIds |-> IF life[a] = Running(t) THEN "interrupted" ELSE outcome[t]]
    /\ asked' = Asked({t \in TurnIds : life[a] = Running(t)})
    /\ UNCHANGED <<stopped, held, waiting, interruption, callers, reviveDue, runVars, orphans,
                   cleanup, owed>>
    /\ IF server = "up"
       THEN /\ disposal' = [disposal EXCEPT ![a] =
                  IF @ # "none" THEN @ ELSE IF task[a] # NoTask THEN "waiting" ELSE "disposing"]
            /\ retired' = IF disposal'[a] = "disposing" THEN retired \cup {a} ELSE retired
            /\ Scan(Aborted({a}))
       ELSE UNCHANGED <<disposal, retired, task>>

\* #reviveAgentRuntime on actor.restarted.
RestartActor(a) ==
    /\ server # "down" /\ life[a] = Stopped
    /\ life' = [life EXCEPT ![a] = Idle]
    /\ held' = held \ {a}
    /\ IF server # "up" THEN UNCHANGED <<reviveDue, retired>>
       ELSE IF disposal[a] \in {"disposing", "again"}
            THEN reviveDue' = reviveDue \cup {a} /\ UNCHANGED retired
            ELSE retired' = retired \ {a} /\ UNCHANGED reviveDue
    /\ UNCHANGED <<stopped, waiting, outcome, interruption, callers, disposal, runVars, orphans,
                   cleanup, asked, owed, used>>
    /\ Scan(task)

Requested(S, cause) == [a \in Actors |->
    IF a \in S /\ life[a].kind = "running" /\ interruption[a] = NoInterruption
    THEN [turn |-> life[a].turn, cause |-> cause] ELSE interruption[a]]
CallersFor(S) == {<<a, life[a].turn>> : a \in {b \in S : life[b].kind = "running"}}

\* The call waits until the task settles, at most interruptWaitMs.  RunningTurnHasTask
\* says that there is a task to abort.
InterruptTurn(a) ==
    /\ server # "down" /\ life[a].kind = "running"
    /\ interruption' = Requested({a}, "none")
    /\ callers' = callers \cup CallersFor({a})
    /\ task' = Aborted({a})
    /\ asked' = Asked({life[a].turn})
    /\ UNCHANGED <<journalVars, disposalVars, runVars, driverVars, owed, used>>

\* Fault: after the wait the call ends whatever turn the actor runs.
InterruptAnyTurn(a, t) ==
    /\ <<a, t>> \in callers /\ server # "down"
    /\ callers' = callers \ {<<a, t>>}
    /\ life[a].kind = "running"
    /\ life' = [life EXCEPT ![a] = Idle]
    /\ outcome' = [outcome EXCEPT ![life[a].turn] = "interrupted"]
    /\ UNCHANGED <<stopped, held, waiting, interruption, disposalVars, runVars, driverVars, asked,
                   owed, used>>
    /\ Scan(task)

\* The wait is over and the turn still runs: the call ends it in the journal.
ForceInterruption(a, t) ==
    /\ <<a, t>> \in callers /\ server # "down"
    /\ callers' = callers \ {<<a, t>>}
    /\ life[a] = Running(t)
    /\ life' = [life EXCEPT ![a] = Idle]
    /\ outcome' = [outcome EXCEPT ![t] = "interrupted"]
    /\ UNCHANGED <<stopped, held, waiting, interruption, disposalVars, runVars, driverVars, asked,
                   owed, used>>
    /\ Scan(task)

ReturnFromInterruption(a, t) ==
    /\ <<a, t>> \in callers
    /\ life[a] # Running(t)
    /\ callers' = callers \ {<<a, t>>}
    /\ UNCHANGED <<journalVars, task, interruption, disposalVars, runVars, driverVars, asked, owed, used>>

-----------------------------------------------------------------------------
(* The task of an actor: #launch and #runTurn *)

\* The first check of #runTurn repeats the scan's; then the turn is claimed.
ClaimTurn(a) ==
    /\ task[a].step = "launched" /\ AcceptsTurns /\ Startable(a)
    /\ UNCHANGED <<stopped, held, interruption, callers, disposalVars, runVars, driverVars, owed, used>>
    /\ LET t == CHOOSE t \in FreshTurns : TRUE
       IN  /\ life' = [life EXCEPT ![a] = Running(t)]
           /\ outcome' = [outcome EXCEPT ![t] = "running"]
           /\ waiting' = [waiting EXCEPT ![a] = @ - 1]
           /\ asked' = IF task[a].aborted THEN Asked({t}) ELSE asked
           /\ Scan([At(a, "preparing") EXCEPT ![a].turn = t])

ClaimNothing(a) ==
    /\ task[a].step = "launched" /\ ~(AcceptsTurns /\ Startable(a))
    /\ task' = At(a, "ending")
    /\ UNCHANGED <<journalVars, interruption, callers, disposalVars, runVars, driverVars, asked, owed, used>>

\* The journal takes the end of the task's turn, if that turn still runs.
EndTurn(a, how) ==
    /\ UNCHANGED <<stopped, held, waiting, interruption, callers, disposalVars, runVars, asked, owed, used>>
    /\ IF life[a] = Running(task[a].turn)
       THEN /\ life' = [life EXCEPT ![a] = Idle]
            /\ outcome' = [outcome EXCEPT ![task[a].turn] = how]
            /\ Scan(At(a, "ending"))
       ELSE task' = At(a, "ending") /\ UNCHANGED <<life, outcome>>

\* #interrupt: the outcome is that of the request aimed at this turn.
InterruptedAs(a) ==
    IF interruption[a] = [turn |-> task[a].turn, cause |-> "server-stop"] THEN "server-stop" ELSE "interrupted"

Cancelled(a) == task[a].aborted \/ ~AcceptsTurns

\* Fault: a driver that fails or a preparation that throws leaves the turn running.
ConcludeQuietly(a, result) ==
    /\ IF ~Cancelled(a) /\ result = "failed"
       THEN /\ task' = At(a, "ending")
            /\ UNCHANGED <<journalVars, interruption, callers, disposalVars, runVars, asked, owed, used>>
       ELSE EndTurn(a, IF Cancelled(a) THEN InterruptedAs(a) ELSE result)

\* What #runTurn does with a result or an error.
Conclude(a, result) == EndTurn(a, IF Cancelled(a) THEN InterruptedAs(a) ELSE result)

Drive(a) ==
    /\ task[a].step = "preparing" /\ ~Cancelled(a) /\ a \notin retired
    /\ task' = At(a, "driving")
    /\ UNCHANGED <<journalVars, interruption, callers, disposalVars, runVars, driverVars, asked, owed, used>>

\* Preparing throws, finds the turn cancelled, or the driver refuses a retired agent.
PreparationFails(a) ==
    /\ task[a].step = "preparing"
    /\ Conclude(a, "failed")
    /\ UNCHANGED driverVars

DriverReturns(a, result) ==
    /\ task[a].step = "driving"
    /\ result = "completed" => a \notin retired
    /\ Conclude(a, result)
    /\ UNCHANGED driverVars

\* Fault: the deadline runs for disposals only.
DriverGivesUpForDisposal(a) ==
    /\ task[a].step = "driving" /\ a \in retired
    /\ Conclude(a, "failed")
    /\ orphans' = orphans \cup {a}
    /\ UNCHANGED <<retired, cleanup>>

\* TurnAbortDeadline: the operation goes on without its turn.
DriverGivesUp(a) ==
    /\ task[a].step = "driving" /\ (task[a].aborted \/ a \in retired)
    /\ Conclude(a, "failed")
    /\ orphans' = orphans \cup {a}
    /\ UNCHANGED <<retired, cleanup>>

OrphanEnds(a) ==
    /\ a \in orphans
    /\ orphans' = orphans \ {a} /\ owed' = owed \ {a}
    /\ UNCHANGED <<journalVars, task, interruption, callers, disposalVars, runVars, retired, cleanup,
                   asked, used>>

\* The oldest waiting inputs join the running turn, up to the first one that is too long.
ClaimSteering(a) ==
    /\ task[a].step = "driving" /\ ~Cancelled(a) /\ ~stopped
    /\ life[a] = Running(task[a].turn)
    /\ \E left \in 0..(waiting[a] - 1) : waiting' = [waiting EXCEPT ![a] = left]
    /\ UNCHANGED <<stopped, held, life, outcome, interruption, callers, disposalVars, runVars,
                   driverVars, asked, owed, used>>
    /\ Scan(task)

\* turnTimeoutMs without progress.
TimeOutTurn(a) ==
    /\ task[a].step \in {"preparing", "driving"} /\ ~task[a].aborted
    /\ life[a] = Running(task[a].turn)
    /\ task' = Aborted({a})
    /\ asked' = Asked({task[a].turn})
    /\ UNCHANGED <<journalVars, interruption, callers, disposalVars, runVars, driverVars, owed, used>>

\* The promise is settled: the entry goes, and the next input is looked for.
EndTask(a) ==
    /\ task[a].step = "ending"
    /\ interruption' = [interruption EXCEPT ![a] = NoInterruption]
    /\ disposal' = [disposal EXCEPT ![a] = IF @ = "waiting" THEN "due" ELSE @]
    /\ UNCHANGED <<journalVars, callers, reviveDue, runVars, driverVars, asked, owed, used>>
    /\ Scan([task EXCEPT ![a] = NoTask])

-----------------------------------------------------------------------------
(* Disposing the runtime of a stopped actor *)

Dispose(a) ==
    /\ disposal[a] = "due"
    /\ disposal' = [disposal EXCEPT ![a] = "disposing"]
    /\ retired' = retired \cup {a}
    /\ UNCHANGED <<journalVars, task, interruption, callers, reviveDue, runVars, orphans, cleanup,
                   asked, owed, used>>

\* The driver waits for its running turn; the actor program's part may fail and is
\* tried once more.
DisposalEnds(a, succeeds) ==
    /\ disposal[a] \in {"disposing", "again"}
    /\ disposal[a] = "disposing" => task[a].step # "driving"
    /\ disposal' = [disposal EXCEPT ![a] =
           IF succeeds THEN "none" ELSE IF @ = "disposing" THEN "again" ELSE "failed"]
    /\ retired' = retired \ (reviveDue \cap {a})
    /\ reviveDue' = reviveDue \ {a}
    /\ UNCHANGED <<journalVars, task, interruption, callers, runVars, orphans, cleanup, asked, owed, used>>

-----------------------------------------------------------------------------
(* Stopping the run: RunStopper with interruptRun and haltRun *)

StopRun ==
    /\ server = "up" /\ halt = "none"
    /\ used.halts < MaxHalts /\ used' = [used EXCEPT !.halts = @ + 1]
    /\ stopped' = TRUE
    /\ held' = IF stopped THEN held ELSE held \cup {a \in Actors : life[a] # Stopped}
    /\ interruption' = Requested(Actors, "none")
    /\ callers' = callers \cup CallersFor(Actors)
    /\ asked' = Asked(RunningTurns)
    /\ stopping' = TRUE /\ halt' = "draining" /\ quarantine' = TRUE
    /\ cleanup' = cleanup + 1
    /\ task' = Aborted(Actors)
    /\ UNCHANGED <<life, waiting, outcome, disposalVars, server, retired, orphans, owed>>

AllSettled ==
    /\ \A a \in Actors : task[a] = NoTask
    /\ \A a \in Actors : disposal[a] \in {"none", "failed"}

\* #stopOneRun is done; what the drivers still owe belongs to the quarantine.
FinishDraining ==
    /\ halt = "draining" /\ AllSettled
    /\ halt' = "drained"
    /\ disposal' = [a \in Actors |-> "none"]
    /\ owed' = orphans
    /\ UNCHANGED <<journalVars, task, interruption, callers, reviveDue, stopping, quarantine, server,
                   driverVars, asked, used>>

\* Faults: the block goes with the end of haltRun, or nobody scans after it.
ReleaseHalted ==
    /\ stopping' = FALSE
    /\ Scan(task)
ReleaseSilently ==
    /\ stopping' = (halt' # "none" \/ quarantine')
    /\ UNCHANGED task

\* #releaseRunBlock
ReleaseRunBlock ==
    /\ stopping' = (halt' # "none" \/ quarantine')
    /\ IF stopping' THEN UNCHANGED task ELSE Scan(task)

\* The plugins were stopped, or their time limit passed.
FinishHalt ==
    /\ halt = "drained" /\ halt' = "none"
    /\ UNCHANGED <<journalVars, interruption, callers, disposalVars, quarantine, server, driverVars,
                   asked, owed, used>>
    /\ ReleaseRunBlock

LiftQuarantine ==
    /\ quarantine /\ halt # "draining"
    /\ cleanup = 0 /\ orphans = {}
    /\ quarantine' = FALSE
    /\ UNCHANGED <<journalVars, interruption, callers, disposalVars, halt, server, driverVars,
                   asked, owed, used>>
    /\ ReleaseRunBlock

PluginsSettle ==
    /\ cleanup > 0 /\ cleanup' = cleanup - 1
    /\ UNCHANGED <<journalVars, task, interruption, callers, disposalVars, runVars, retired, orphans,
                   asked, owed, used>>

-----------------------------------------------------------------------------
(* Shutting down: stop() *)

\* Fault: a turn that somebody asked to end is marked for recovery too.
AcceptsAnyRecovery(a) == task[a] # NoTask /\ life[a].kind = "running"

\* A turn that a person, a stop or a timeout is already ending is not the server's.
AcceptsShutdownRecovery(a) ==
    /\ task[a] # NoTask /\ ~task[a].aborted
    /\ ~stopping /\ ~stopped
    /\ life[a].kind = "running"

Shutdown ==
    /\ server = "up" /\ server' = "stopping"
    /\ interruption' = Requested({a \in Actors : AcceptsShutdownRecovery(a)}, "server-stop")
    /\ task' = Aborted(Actors)
    /\ UNCHANGED <<journalVars, callers, disposalVars, stopping, halt, quarantine, driverVars, asked,
                   owed, used>>

FinishShutdown ==
    /\ server = "stopping" /\ AllSettled /\ halt # "draining" /\ ~quarantine
    /\ server' = "down"
    /\ UNCHANGED <<journalVars, task, interruption, callers, disposalVars, stopping, halt, quarantine,
                   driverVars, asked, owed, used>>

-----------------------------------------------------------------------------
Command(a) ==
    \/ EnqueueHumanInput(a)
    \/ EnqueueAutomaticInput(a)
    \/ DiscardInput(a)
    \/ StopActor(a)
    \/ RestartActor(a)
    \/ InterruptTurn(a)

CallerStep(a, t) ==
    \/ ForceInterruption(a, t)
    \/ ReturnFromInterruption(a, t)

TaskStep(a) ==
    \/ ClaimTurn(a)
    \/ ClaimNothing(a)
    \/ Drive(a)
    \/ PreparationFails(a)
    \/ DriverGivesUp(a)
    \/ EndTask(a)

DisposalStep(a) ==
    \/ Dispose(a)
    \/ \E succeeds \in BOOLEAN : DisposalEnds(a, succeeds)

HaltStep ==
    \/ FinishDraining
    \/ FinishHalt
    \/ LiftQuarantine

ServerStep ==
    \/ StopRun
    \/ Shutdown
    \/ FinishShutdown
    \/ PluginsSettle

Next ==
    \/ \E a \in Actors : Command(a) \/ TaskStep(a) \/ DisposalStep(a)
    \/ \E a \in Actors, t \in TurnIds : CallerStep(a, t)
    \/ \E a \in Actors, result \in {"completed", "failed"} : DriverReturns(a, result)
    \/ \E a \in Actors : OrphanEnds(a) \/ ClaimSteering(a) \/ TimeOutTurn(a)
    \/ HaltStep
    \/ ServerStep

Spec == Init /\ [][Next]_vars

\* Continuations run, preparing a request ends, and the deadline of an aborted turn
\* and the wait of an interruption pass.  A driver may run as long as it likes, and
\* plugins and orphans may never settle.
Fairness ==
    /\ \A a \in Actors : WF_vars(TaskStep(a)) /\ WF_vars(DisposalStep(a))
    /\ \A a \in Actors, t \in TurnIds : WF_vars(CallerStep(a, t))
    /\ WF_vars(HaltStep)

FairSpec == Spec /\ Fairness

-----------------------------------------------------------------------------
(* Properties *)

\* The shape of the state.
TypeOK ==
    /\ stopped \in BOOLEAN /\ held \subseteq Actors
    /\ life \in [Actors -> {Idle, Stopped} \cup {Running(t) : t \in TurnIds}]
    /\ waiting \in [Actors -> 0..MaxInputs]
    /\ outcome \in [TurnIds -> {"none", "running", "completed", "failed", "interrupted", "server-stop"}]
    /\ task \in [Actors -> [step : {"none", "launched", "preparing", "driving", "ending"},
                            turn : TurnIds \cup {NoTurn}, aborted : BOOLEAN]]
    /\ interruption \in [Actors -> [turn : TurnIds \cup {NoTurn}, cause : {"none", "server-stop"}]]
    /\ callers \subseteq Actors \X TurnIds
    /\ disposal \in [Actors -> {"none", "waiting", "due", "disposing", "again", "failed"}]
    /\ reviveDue \subseteq Actors
    /\ stopping \in BOOLEAN /\ quarantine \in BOOLEAN
    /\ halt \in {"none", "draining", "drained"}
    /\ server \in {"up", "stopping", "down"}
    /\ retired \subseteq Actors /\ orphans \subseteq Actors /\ cleanup \in 0..MaxHalts
    /\ asked \in [TurnIds -> {"no", "before", "after"}]
    /\ owed \subseteq orphans
    /\ used \in [inputs : 0..MaxInputs, stops : 0..MaxStops, halts : 0..MaxHalts]

\* A turn that runs in the journal is the turn of a task that still has to end it:
\* no refusal, error or abort leaves an actor in a turn nobody works on.
RunningTurnHasTask == \A a \in Actors : life[a].kind = "running" =>
    task[a].step \in {"preparing", "driving"} /\ task[a].turn = life[a].turn

\* Only turns that nobody had asked to end are recorded as stopped by the server,
\* which is what the next startup continues.
ServerStopOnlyUnasked == \A t \in TurnIds : outcome[t] = "server-stop" => asked[t] # "before"

\* An interrupted turn is one whose end somebody asked for: a request never hits the
\* actor's next turn, however late its wait ends.  A turn that only the shutdown
\* ended carries the server's cause and is recovered.
InterruptedOnlyWhenAsked == \A t \in TurnIds : outcome[t] = "interrupted" => asked[t] # "no"

\* From the stop of a run until its plugins and the driver operations that the stop
\* found have settled, no turn starts; and once drained, nothing of the run works.
HaltedUntilCleanedUp ==
    /\ halt # "none" \/ cleanup > 0 \/ owed # {} => stopping
    /\ stopping /\ halt # "draining" =>
          \A a \in Actors : task[a] = NoTask /\ life[a].kind # "running"

\* The turn of a task is its actor's alone; a request to end a turn stays with its task, and is gone before the next
\* one; a task that may not go on was aborted.
TasksFit ==
    /\ \A a \in Actors :
        /\ life[a].kind = "running" => outcome[life[a].turn] = "running"
        /\ task[a].step = "none" => task[a] = NoTask
        /\ interruption[a] # NoInterruption =>
              /\ task[a].step \in {"preparing", "driving", "ending"} /\ task[a].aborted
              /\ interruption[a].turn = task[a].turn /\ task[a].turn # NoTurn
        /\ (stopped \/ ~AcceptsTurns) /\ task[a] # NoTask => task[a].aborted
        /\ waiting[a] <= used.inputs
    /\ \A a, b \in Actors : life[a].kind = "running" /\ life[a] = life[b] => a = b
    /\ cleanup <= used.halts

\* A run is stopped for its halt and its quarantine, which lasts as long as a clean-up or an orphan.
BlockExplained ==
    /\ stopping <=> halt # "none" \/ quarantine
    /\ cleanup > 0 \/ owed # {} \/ halt = "draining" => quarantine

\* Who asked for the end of a running turn aborted its task, and a task is only aborted for that, or by the shutdown.
AbortsAsked ==
    /\ \A t \in TurnIds : outcome[t] = "none" => asked[t] = "no"
    /\ \A c \in callers : asked[c[2]] # "no"
    /\ \A a \in Actors :
        /\ life[a].kind = "running" /\ asked[life[a].turn] # "no" => task[a].aborted
        /\ life[a].kind = "running" /\ task[a].aborted =>
              asked[life[a].turn] # "no" \/ interruption[a] = [turn |-> life[a].turn, cause |-> "server-stop"]
        /\ interruption[a].cause = "server-stop" => server # "up" /\ asked[interruption[a].turn] # "before"

\* How a turn ended says who ended it: what a person asked to end is not continued
\* by the next startup, and nothing is interrupted that nobody asked to end.
InterruptionsAsked == ServerStopOnlyUnasked /\ InterruptedOnlyWhenAsked /\ AbortsAsked

\* Journal, tasks and the halt of a run agree.
SchedulerInv == TypeOK /\ RunningTurnHasTask /\ HaltedUntilCleanedUp /\ TasksFit /\ BlockExplained

\* No lost wake-up: an input that an actor could start with is taken up, whatever
\* task, stop or interruption was in the way when it came, unless a quarantine
\* begins or the server stops.
WaitingInputStarts == \A a \in Actors :
    (Startable(a) /\ server = "up" /\ ~quarantine) ~>
        (~Startable(a) \/ server # "up" \/ quarantine)

\* A turn that somebody interrupts ends, even if its driver never answers.
InterruptedTurnEnds == \A t \in TurnIds :
    (outcome[t] = "running" /\ asked[t] # "no") ~> outcome[t] # "running"

\* The tasks of a server that stops settle: the shutdown does not wait for a driver.
ShutdownSettles == server = "stopping" ~> AllSettled

\* Neither an interruption nor the stop of the server waits for a driver that does not answer.
EndsWithoutDriver == InterruptedTurnEnds /\ ShutdownSettles

\* docs/spec/core.md on actor_restart: the actor is idle again and accepts inputs.
\* Once its disposal is through, the driver does not refuse an actor that is active.
RestartedActorServed == \A a \in Actors :
    life[a] # Stopped /\ disposal[a] = "none" /\ server = "up" => a \notin retired

=============================================================================
