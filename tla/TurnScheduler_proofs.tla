-------------------------- MODULE TurnScheduler_proofs --------------------------
(***************************************************************************)
(* The invariants of TurnScheduler hold for any number of actors, turns,   *)
(* inputs and stops.  Most of them say something of one actor; Fits puts   *)
(* that together, and a step is proved actor by actor: those that it       *)
(* leaves alone keep what they have, or the scan launches their task.      *)
(***************************************************************************)
EXTENDS TurnScheduler, TLAPS

Inv == SchedulerInv /\ InterruptionsAsked

Task == [step : {"none", "launched", "preparing", "driving", "ending"}, turn : TurnIds \cup {NoTurn}, aborted : BOOLEAN]
Interruption == [turn : TurnIds \cup {NoTurn}, cause : {"none", "server-stop"}]

\* What the invariants say of one actor.
Fits(a) ==
    /\ life[a].kind = "running" =>
          /\ task[a].step \in {"preparing", "driving"} /\ task[a].turn = life[a].turn
          /\ outcome[life[a].turn] = "running"
          /\ asked[life[a].turn] # "no" => task[a].aborted
          /\ task[a].aborted =>
                asked[life[a].turn] # "no" \/ interruption[a] = [turn |-> life[a].turn, cause |-> "server-stop"]
    /\ task[a].step = "none" => task[a] = NoTask
    /\ interruption[a] # NoInterruption =>
          /\ task[a].step \in {"preparing", "driving", "ending"} /\ task[a].aborted
          /\ interruption[a].turn = task[a].turn /\ task[a].turn # NoTurn
    /\ (stopped \/ ~AcceptsTurns) /\ task[a] # NoTask => task[a].aborted
    /\ waiting[a] <= used.inputs
    /\ stopping /\ halt # "draining" => task[a] = NoTask /\ life[a].kind # "running"
    /\ interruption[a].cause = "server-stop" => server # "up" /\ asked[interruption[a].turn] # "before"

\* And of the whole run.
Whole ==
    /\ \A a, b \in Actors : life[a].kind = "running" /\ life[a] = life[b] => a = b
    /\ cleanup <= used.halts
    /\ \A t \in TurnIds : outcome[t] = "none" => asked[t] = "no"
    /\ \A c \in callers : asked[c[2]] # "no"
    /\ ServerStopOnlyUnasked /\ InterruptedOnlyWhenAsked

LEMMA Parts ==
    /\ Inv <=> TypeOK /\ BlockExplained /\ Whole /\ \A a \in Actors : Fits(a)
    /\ Inv' <=> TypeOK' /\ BlockExplained' /\ Whole' /\ \A a \in Actors : Fits(a)'
BY DEF Inv, SchedulerInv, InterruptionsAsked, RunningTurnHasTask, HaltedUntilCleanedUp, TasksFit, BlockExplained, AbortsAsked,
   Whole, Fits

\* The values of tasks and lifecycles.
LEMMA Values ==
    /\ NoTask \in Task /\ Launched \in Task /\ Launched # NoTask
    /\ NoTask.step = "none" /\ ~NoTask.aborted /\ NoTask.turn = NoTurn
    /\ Launched.step = "launched" /\ ~Launched.aborted /\ Launched.turn = NoTurn
    /\ NoInterruption \in Interruption /\ NoInterruption.cause = "none" /\ NoInterruption.turn = NoTurn
    /\ Idle.kind = "idle" /\ Stopped.kind = "stopped"
    /\ \A t \in TurnIds : Running(t).kind = "running" /\ Running(t).turn = t
BY DEF Task, Interruption, NoInterruption, NoTask, Launched, Idle, Stopped, Running, NoTurn

LEMMA LifeOfRunning ==
    ASSUME TypeOK, NEW a \in Actors, life[a].kind = "running"
    PROVE  life[a].turn \in TurnIds /\ life[a] = Running(life[a].turn)
BY DEF TypeOK, Idle, Stopped, Running

\* The scan only launches tasks, of actors that can start.
LEMMA ScanLaunches ==
    ASSUME NEW tasks \in [Actors -> Task], Scan(tasks)
    PROVE  /\ task' \in [Actors -> Task]
           /\ \A a \in Actors : \/ task'[a] = tasks[a]
                                \/ /\ tasks[a] = NoTask /\ task'[a] = Launched
                                   /\ AcceptsTurns' /\ ~stopped' /\ life'[a] = Idle
BY Values DEF Scan, Startable

\* What aborting, requesting and asking do to each actor and turn.
LEMMA TasksTyped == TypeOK => task \in [Actors -> Task]
BY DEF TypeOK, Task

LEMMA AbortedTyped ==
    ASSUME TypeOK, NEW S
    PROVE  /\ Aborted(S) \in [Actors -> Task]
           /\ \A b \in Actors : /\ Aborted(S)[b].step = task[b].step /\ Aborted(S)[b].turn = task[b].turn
                                /\ Aborted(S)[b].aborted = (task[b].aborted \/ (b \in S /\ task[b] # NoTask))
                                /\ b \notin S \/ task[b] = NoTask => Aborted(S)[b] = task[b]
BY TasksTyped DEF Task, Aborted

LEMMA AtTyped ==
    ASSUME TypeOK, NEW a \in Actors, NEW step \in {"none", "launched", "preparing", "driving", "ending"}
    PROVE  /\ At(a, step) \in [Actors -> Task]
           /\ At(a, step)[a].step = step /\ At(a, step)[a].turn = task[a].turn /\ At(a, step)[a].aborted = task[a].aborted
           /\ \A b \in Actors \ {a} : At(a, step)[b] = task[b]
<1> DEFINE new == [task[a] EXCEPT !.step = step]
<1>1. new \in Task /\ new.step = step /\ new.turn = task[a].turn /\ new.aborted = task[a].aborted
  BY TasksTyped DEF Task
<1>2. At(a, step) = [task EXCEPT ![a] = new]
  BY DEF At
<1> HIDE DEF new
<1>3. QED
  BY <1>1, <1>2, TasksTyped

LEMMA AskedTyped ==
    ASSUME TypeOK, NEW S
    PROVE  /\ Asked(S) \in [TurnIds -> {"no", "before", "after"}]
           /\ \A t \in TurnIds : /\ t \notin S \/ asked[t] # "no" => Asked(S)[t] = asked[t]
                                 /\ t \in S => Asked(S)[t] # "no"
                                 /\ server # "up" /\ asked[t] # "before" => Asked(S)[t] # "before"
BY DEF TypeOK, Asked

LEMMA RequestsTyped ==
    ASSUME TypeOK, NEW S, NEW cause \in {"none", "server-stop"}
    PROVE  /\ Requested(S, cause) \in [Actors -> Interruption]
           /\ \A b \in Actors :
                 Requested(S, cause)[b] = IF b \in S /\ life[b].kind = "running" /\ interruption[b] = NoInterruption
                                          THEN [turn |-> life[b].turn, cause |-> cause] ELSE interruption[b]
BY LifeOfRunning DEF TypeOK, Requested, Interruption

\* An actor that a step leaves alone, or whose task the scan launches.
LEMMA Kept ==
    ASSUME TypeOK, NEW b \in Actors, Fits(b),
           life'[b].kind = "running" =>
              /\ life'[b] = life[b]
              /\ outcome'[life[b].turn] = outcome[life[b].turn] /\ asked'[life[b].turn] = asked[life[b].turn],
           interruption'[b] = interruption[b],
           waiting'[b] <= used'.inputs,
           \/ task'[b] = task[b]
           \/ task[b] = NoTask /\ task'[b] = Launched /\ AcceptsTurns' /\ ~stopped' /\ life'[b] = Idle,
           interruption[b].cause = "server-stop" => asked'[interruption[b].turn] # "before",
           server' = "up" => server = "up",
           stopped' \/ ~AcceptsTurns' => stopped \/ ~AcceptsTurns,
           stopping' /\ halt' # "draining" =>
              (stopping /\ halt # "draining") \/ (task[b] = NoTask /\ life'[b].kind # "running")
    PROVE  Fits(b)'
<1>1. CASE task'[b] = task[b]
  BY <1>1 DEF Fits
<1>2. CASE task[b] = NoTask /\ task'[b] = Launched /\ AcceptsTurns' /\ ~stopped' /\ life'[b] = Idle
  <2>1. ~stopping'
    BY <1>2 DEF AcceptsTurns
  <2>2. interruption[b] = NoInterruption
    BY <1>2, Values DEF Fits
  <2>3. QED
    BY <1>2, <2>1, <2>2, Values DEF Fits
<1>3. QED
  BY <1>1, <1>2

\* Nothing of the journal's turns and of the tasks changes, but for what the scan launches.
LEMMA QuietStep ==
    ASSUME Inv, TypeOK', BlockExplained',
           \A b \in Actors : life'[b].kind = "running" => life'[b] = life[b],
           \/ task' = task
           \/ Scan(task),
           callers' \subseteq callers, cleanup' <= used'.halts,
           UNCHANGED <<outcome, interruption, asked>>,
           \A b \in Actors : waiting'[b] <= used'.inputs,
           server' = "up" => server = "up",
           stopped' \/ ~AcceptsTurns' => stopped \/ ~AcceptsTurns,
           stopping' /\ halt' # "draining" =>
              (stopping /\ halt # "draining") \/ (AllSettled /\ life' = life)
    PROVE  Inv'
<1>1. TypeOK /\ Whole /\ \A b \in Actors : Fits(b)
  BY Parts
<1>2. Whole'
  BY <1>1 DEF Whole, ServerStopOnlyUnasked, InterruptedOnlyWhenAsked
<1>3. ASSUME NEW b \in Actors PROVE Fits(b)'
  <2>1. \/ task'[b] = task[b]
        \/ task[b] = NoTask /\ task'[b] = Launched /\ AcceptsTurns' /\ ~stopped' /\ life'[b] = Idle
    BY <1>1, TasksTyped, ScanLaunches
  <2>2. AllSettled /\ life' = life => task[b] = NoTask /\ life'[b].kind # "running"
    BY <1>1, Values, ZenonT(60) DEF AllSettled, Fits
  <2>3. interruption[b].cause = "server-stop" => asked'[interruption[b].turn] # "before"
    BY <1>1 DEF Fits
  <2>4. QED
    BY <1>1, <2>1, <2>2, <2>3, Kept
<1>4. QED
  BY <1>1, <1>2, <1>3, Parts

\* A scan of the tasks as they are leaves them typed.
LEMMA ScanTyped == ASSUME TypeOK, Scan(task) PROVE task' \in [Actors -> Task]
BY TasksTyped, ScanLaunches

LEMMA InputSteps ==
    ASSUME Inv, NEW a \in Actors,
           EnqueueHumanInput(a) \/ EnqueueAutomaticInput(a) \/ DiscardInput(a) \/ ClaimSteering(a) \/ RestartActor(a)
    PROVE  Inv'
<1> USE SchedulerAssumption
<1>1. TypeOK /\ BlockExplained /\ Whole /\ \A b \in Actors : Fits(b)
  BY Parts
<1>2. \A b \in Actors : waiting[b] \in 0 .. MaxInputs /\ waiting[b] <= used.inputs
  BY <1>1 DEF TypeOK, Fits
<1>3. used \in [inputs : 0..MaxInputs, stops : 0..MaxStops, halts : 0..MaxHalts] /\ cleanup \in 0..MaxHalts /\ cleanup <= used.halts
  BY <1>1 DEF TypeOK, Whole
<1>4. waiting \in [Actors -> 0 .. MaxInputs]
  BY <1>1 DEF TypeOK
<1>5. CASE Enqueue(a) /\ Scan(task) /\ (stopped' => stopped) /\ stopped' \in BOOLEAN /\ held' \subseteq Actors
  <2>1. /\ used' \in [inputs : 0..MaxInputs, stops : 0..MaxStops, halts : 0..MaxHalts]
        /\ used'.inputs = used.inputs + 1 /\ used'.halts = used.halts
    BY <1>3, <1>5 DEF Enqueue
  <2>2. waiting' = [waiting EXCEPT ![a] = @ + 1] /\ used.inputs < MaxInputs
    BY <1>5 DEF Enqueue
  <2>3. waiting' \in [Actors -> 0 .. MaxInputs] /\ \A b \in Actors : waiting'[b] <= used'.inputs
    BY <1>2, <1>3, <1>4, <2>1, <2>2
  <2>4. TypeOK'
    BY <1>1, <1>5, <2>1, <2>3, ScanTyped DEF Enqueue, TypeOK, Task, disposalVars, runVars, driverVars
  <2>5. QED
    BY <1>1, <1>3, <1>5, <2>1, <2>3, <2>4, QuietStep
       DEF Enqueue, disposalVars, runVars, driverVars, BlockExplained, AcceptsTurns
<1>6. CASE EnqueueHumanInput(a)
  BY <1>1, <1>5, <1>6 DEF EnqueueHumanInput, TypeOK
<1>7. CASE EnqueueAutomaticInput(a)
  BY <1>1, <1>5, <1>7 DEF EnqueueAutomaticInput, TypeOK
<1>8. CASE DiscardInput(a) \/ ClaimSteering(a)
  <2>1. \E left \in 0 .. waiting[a] : waiting' = [waiting EXCEPT ![a] = left]
    BY <1>2, <1>8 DEF DiscardInput, ClaimSteering
  <2>2. waiting' \in [Actors -> 0 .. MaxInputs] /\ \A b \in Actors : waiting'[b] <= used.inputs
    BY <1>2, <1>3, <1>4, <2>1
  <2>3. /\ Scan(task)
        /\ UNCHANGED <<stopped, held, life, outcome, interruption, callers, disposalVars, runVars, driverVars, asked, owed, used>>
    BY <1>8 DEF DiscardInput, ClaimSteering
  <2>4. TypeOK'
    BY <1>1, <2>2, <2>3, ScanTyped DEF TypeOK, Task, disposalVars, runVars, driverVars
  <2>5. QED
    BY <1>1, <1>3, <2>2, <2>3, <2>4, QuietStep DEF disposalVars, runVars, driverVars, BlockExplained, AcceptsTurns
<1>9. CASE RestartActor(a)
  <2>1. life' = [life EXCEPT ![a] = Idle] /\ life' \in [Actors -> {Idle, Stopped} \cup {Running(t) : t \in TurnIds}]
    BY <1>1, <1>9 DEF RestartActor, TypeOK
  <2>2. \A b \in Actors : life'[b].kind = "running" => life'[b] = life[b]
    BY <1>1, <2>1, Values DEF TypeOK
  <2>3. TypeOK'
    BY <1>1, <1>9, <2>1, ScanTyped DEF RestartActor, TypeOK, Task, disposalVars, runVars
  <2>4. QED
    BY <1>1, <1>2, <1>3, <1>9, <2>2, <2>3, QuietStep DEF RestartActor, runVars, BlockExplained, AcceptsTurns
<1>10. QED
  BY <1>6, <1>7, <1>8, <1>9

LEMMA AsideSteps ==
    ASSUME Inv, NEW a \in Actors,
           \/ \E t \in TurnIds : ReturnFromInterruption(a, t)
           \/ DisposalStep(a) \/ OrphanEnds(a) \/ PluginsSettle \/ FinishShutdown
    PROVE  Inv'
<1> USE SchedulerAssumption DEF journalVars, disposalVars, runVars, driverVars
<1>1. TypeOK /\ BlockExplained /\ Whole /\ \A b \in Actors : Fits(b)
  BY Parts
<1>2. /\ \A b \in Actors : waiting[b] <= used.inputs
      /\ cleanup <= used.halts /\ cleanup \in 0..MaxHalts /\ used.halts \in 0..MaxHalts
  BY <1>1 DEF Fits, Whole, TypeOK
<1>3. TypeOK'
  <2>1. CASE PluginsSettle
    BY <1>1, <2>1 DEF TypeOK, PluginsSettle
  <2>2. CASE DisposalStep(a)
    BY <1>1, <2>2, ZenonT(60) DEF TypeOK, DisposalStep, DisposalEnds, Dispose
  <2>3. CASE (\E t \in TurnIds : ReturnFromInterruption(a, t)) \/ OrphanEnds(a) \/ FinishShutdown
    BY <1>1, <2>3, ZenonT(60) DEF TypeOK, ReturnFromInterruption, OrphanEnds, FinishShutdown
  <2>4. QED
    BY <2>1, <2>2, <2>3
<1>4. BlockExplained'
  <2>1. CASE PluginsSettle \/ OrphanEnds(a)
    BY <1>1, <2>1 DEF TypeOK, BlockExplained, PluginsSettle, OrphanEnds
  <2>2. CASE DisposalStep(a) \/ FinishShutdown
    BY <1>1, <2>2 DEF BlockExplained, DisposalStep, Dispose, DisposalEnds, FinishShutdown
  <2>3. CASE \E t \in TurnIds : ReturnFromInterruption(a, t)
    BY <1>1, <2>3 DEF BlockExplained, ReturnFromInterruption
  <2>4. QED
    BY <2>1, <2>2, <2>3
<1>5. /\ UNCHANGED <<stopped, life, waiting, outcome, task, interruption, stopping, halt, asked, used>>
      /\ callers' \subseteq callers
      /\ server' = server \/ (server' = "down" /\ server = "stopping")
      /\ cleanup' = cleanup \/ cleanup' = cleanup - 1
  <2>1. UNCHANGED <<stopped, life, waiting, outcome, task, interruption, stopping, halt, asked, used>>
    BY DEF ReturnFromInterruption, DisposalStep, Dispose, DisposalEnds, OrphanEnds, PluginsSettle, FinishShutdown
  <2>2. callers' \subseteq callers
    BY DEF ReturnFromInterruption, DisposalStep, Dispose, DisposalEnds, OrphanEnds, PluginsSettle, FinishShutdown
  <2>3. server' = server \/ (server' = "down" /\ server = "stopping")
    BY DEF ReturnFromInterruption, DisposalStep, Dispose, DisposalEnds, OrphanEnds, PluginsSettle, FinishShutdown
  <2>4. cleanup' = cleanup \/ cleanup' = cleanup - 1
    BY DEF ReturnFromInterruption, DisposalStep, Dispose, DisposalEnds, OrphanEnds, PluginsSettle, FinishShutdown
  <2>5. QED
    BY <2>1, <2>2, <2>3, <2>4
<1>6. cleanup' <= used'.halts
  BY <1>2, <1>5
<1>7. QED
  BY <1>2, <1>3, <1>4, <1>5, <1>6, QuietStep DEF AcceptsTurns

LEMMA HaltSteps ==
    ASSUME Inv, FinishDraining \/ FinishHalt \/ LiftQuarantine
    PROVE  Inv'
<1> USE SchedulerAssumption DEF journalVars, disposalVars, runVars, driverVars
<1>1. TypeOK /\ BlockExplained /\ Whole /\ \A b \in Actors : Fits(b)
  BY Parts
<1>2. /\ \A b \in Actors : waiting[b] <= used.inputs
      /\ cleanup <= used.halts
  BY <1>1 DEF Fits, Whole
<1>3. CASE FinishDraining
  <2>1. TypeOK' /\ BlockExplained'
    BY <1>1, <1>3 DEF TypeOK, BlockExplained, FinishDraining
  <2>2. QED
    BY <1>2, <1>3, <2>1, QuietStep DEF FinishDraining, AcceptsTurns
<1>4. CASE FinishHalt \/ LiftQuarantine
  <2>1. task' = task \/ Scan(task)
    BY <1>4 DEF FinishHalt, LiftQuarantine, ReleaseRunBlock
  <2>2. /\ UNCHANGED <<journalVars, interruption, callers, disposalVars, server, driverVars, asked, owed, used>>
        /\ stopping' = (halt' # "none" \/ quarantine') /\ halt' \in {halt, "none"} /\ quarantine' \in {quarantine, FALSE}
        /\ (halt = "draining" => halt' = halt /\ quarantine' = quarantine)
        /\ (quarantine' # quarantine => cleanup = 0 /\ orphans = {} /\ quarantine)
        /\ (halt' # halt => halt = "drained")
    BY <1>4 DEF FinishHalt, LiftQuarantine, ReleaseRunBlock
  <2>3. TypeOK'
    BY <1>1, <2>1, <2>2, ScanTyped DEF TypeOK, Task
  <2>4. BlockExplained'
    <3>1. stopping' <=> halt' # "none" \/ quarantine'
      BY <2>2
    <3>2. CASE quarantine' = quarantine
      BY <1>1, <2>2, <3>1, <3>2 DEF TypeOK, BlockExplained
    <3>3. CASE cleanup = 0 /\ orphans = {} /\ halt # "draining"
      <4>1. cleanup' = 0 /\ owed' = {} /\ halt' # "draining"
        BY <1>1, <2>2, <3>3 DEF TypeOK
      <4>2. QED
        BY <3>1, <4>1 DEF BlockExplained
    <3>4. QED
      BY <2>2, <3>2, <3>3
  <2>5. stopping' => stopping
    BY <1>1, <2>2 DEF TypeOK, BlockExplained
  <2>6. stopping' /\ halt' # "draining" => stopping /\ halt # "draining"
    BY <2>2, <2>5
  <2>7. QED
    BY <1>2, <2>1, <2>2, <2>3, <2>4, <2>5, <2>6, QuietStep DEF AcceptsTurns
<1>5. QED
  BY <1>3, <1>4

\* A step of one actor: the others keep what they have.
LEMMA OneActor ==
    ASSUME Inv, NEW a \in Actors, NEW tasks \in [Actors -> Task], \A b \in Actors \ {a} : tasks[b] = task[b],
           task' = tasks \/ Scan(tasks),
           \A b \in Actors \ {a} :
              /\ life'[b] = life[b] /\ interruption'[b] = interruption[b] /\ waiting'[b] = waiting[b]
              /\ life[b].kind = "running" =>
                    outcome'[life[b].turn] = outcome[life[b].turn] /\ asked'[life[b].turn] = asked[life[b].turn],
           \A t \in TurnIds : server # "up" /\ asked[t] # "before" => asked'[t] # "before",
           UNCHANGED <<stopped, runVars>>, used'.inputs = used.inputs
    PROVE  \A b \in Actors \ {a} : Fits(b)'
<1>1. TypeOK /\ \A b \in Actors : Fits(b)
  BY Parts
<1>2. SUFFICES ASSUME NEW b \in Actors \ {a} PROVE Fits(b)'
  OBVIOUS
<1>3. \/ task'[b] = task[b]
      \/ task[b] = NoTask /\ task'[b] = Launched /\ AcceptsTurns' /\ ~stopped' /\ life'[b] = Idle
  BY ScanLaunches
<1>4. interruption[b].cause = "server-stop" => asked'[interruption[b].turn] # "before"
  <2>1. CASE interruption[b].cause = "server-stop"
    <3>1. interruption[b] # NoInterruption
      BY <2>1, Values
    <3>2. interruption[b].turn \in TurnIds
      BY <1>1, <3>1, TasksTyped DEF Fits, Task, TypeOK
    <3>3. QED
      BY <1>1, <2>1, <3>2 DEF Fits
  <2>2. QED
    BY <2>1
<1>5. stopping' /\ halt' # "draining" => stopping /\ halt # "draining"
  BY DEF runVars
<1>6. waiting'[b] <= used'.inputs
  BY <1>1 DEF Fits
<1>7. QED
  BY <1>1, <1>3, <1>4, <1>5, <1>6, Kept DEF runVars, AcceptsTurns

\* The step of a task that changes neither the journal nor what is asked.
LEMMA TaskSteps ==
    ASSUME Inv, NEW a \in Actors, ClaimNothing(a) \/ Drive(a) \/ EndTask(a)
    PROVE  Inv'
<1>1. TypeOK /\ BlockExplained /\ Whole /\ \A b \in Actors : Fits(b)
  BY Parts
<1>2. UNCHANGED <<journalVars, callers, runVars, driverVars, asked, owed, used>>
  BY DEF ClaimNothing, Drive, EndTask
<1>3. Whole' /\ BlockExplained'
  BY <1>1, <1>2 DEF Whole, ServerStopOnlyUnasked, InterruptedOnlyWhenAsked, BlockExplained, journalVars, runVars, driverVars
<1>4. CASE ClaimNothing(a)
  <2>1. task' = At(a, "ending") /\ task[a].step = "launched" /\ UNCHANGED <<interruption, disposalVars>>
    BY <1>4 DEF ClaimNothing
  <2>2. TypeOK'
    BY <1>1, <1>2, <2>1, AtTyped DEF TypeOK, Task, journalVars, runVars, driverVars, disposalVars
  <2>3. \A b \in Actors \ {a} : Fits(b)'
    BY <1>1, <1>2, <2>1, AtTyped, OneActor DEF journalVars
  <2>4. Fits(a)'
    BY <1>1, <1>2, <2>1, AtTyped, Values DEF Fits, journalVars, runVars, AcceptsTurns
  <2>5. QED
    BY <1>3, <2>2, <2>3, <2>4, Parts
<1>5. CASE Drive(a)
  <2>1. task' = At(a, "driving") /\ task[a].step = "preparing" /\ UNCHANGED <<interruption, disposalVars>>
    BY <1>5 DEF Drive
  <2>2. TypeOK'
    BY <1>1, <1>2, <2>1, AtTyped DEF TypeOK, Task, journalVars, runVars, driverVars, disposalVars
  <2>3. \A b \in Actors \ {a} : Fits(b)'
    BY <1>1, <1>2, <2>1, AtTyped, OneActor DEF journalVars
  <2>4. /\ task'[a].step = "driving" /\ task'[a].turn = task[a].turn /\ task'[a].aborted = task[a].aborted
        /\ UNCHANGED <<stopped, waiting, life, outcome, interruption, stopping, halt, server, asked, used>>
    BY <1>1, <1>2, <2>1, AtTyped DEF journalVars, runVars
  <2>5. task[a] # NoTask
    BY <2>1, Values
  <2>6. Fits(a)'
    BY <1>1, <2>1, <2>4, <2>5 DEF Fits, AcceptsTurns
  <2>7. QED
    BY <1>3, <2>2, <2>3, <2>6, Parts
<1>6. CASE EndTask(a)
  <2> DEFINE tasks == [task EXCEPT ![a] = NoTask]
  <2>1. /\ task[a].step = "ending" /\ Scan(tasks) /\ reviveDue' = reviveDue
        /\ interruption' = [interruption EXCEPT ![a] = NoInterruption]
        /\ disposal' = [disposal EXCEPT ![a] = IF @ = "waiting" THEN "due" ELSE @]
    BY <1>6 DEF EndTask
  <2>2. tasks \in [Actors -> Task] /\ tasks[a] = NoTask /\ \A b \in Actors \ {a} : tasks[b] = task[b]
    BY <1>1, TasksTyped, Values
  <2> HIDE DEF tasks
  <2>3. /\ task' \in [Actors -> Task]
        /\ task'[a] = NoTask \/ (task'[a] = Launched /\ AcceptsTurns' /\ ~stopped' /\ life'[a] = Idle)
    BY <2>1, <2>2, ScanLaunches
  <2>4. interruption' \in [Actors -> Interruption] /\ interruption'[a] = NoInterruption
    BY <1>1, <2>1, Values DEF TypeOK, Interruption
  <2>5. TypeOK'
    BY <1>1, <1>2, <2>1, <2>3, <2>4 DEF TypeOK, Task, Interruption, journalVars, runVars, driverVars
  <2>6. \A b \in Actors \ {a} : Fits(b)'
    BY <1>1, <1>2, <2>1, <2>2, OneActor DEF journalVars, TypeOK
  <2>7. Fits(a)'
    <3>1. life[a].kind # "running" /\ life'[a].kind # "running"
      BY <1>1, <1>2, <2>1 DEF Fits, journalVars
    <3>2. task'[a] = Launched => ~stopping'
      BY <2>3, Values DEF AcceptsTurns
    <3>3. QED
      BY <1>1, <1>2, <2>3, <2>4, <3>1, <3>2, Values DEF Fits, journalVars
  <2>8. QED
    BY <1>3, <2>5, <2>6, <2>7, Parts
<1>7. QED
  BY <1>4, <1>5, <1>6

\* A turn that is asked to end, by a caller that waits for it or by its timeout.
LEMMA AskSteps ==
    ASSUME Inv, NEW a \in Actors, InterruptTurn(a) \/ TimeOutTurn(a)
    PROVE  Inv'
<1> DEFINE t == life[a].turn
<1>1. TypeOK /\ BlockExplained /\ Whole /\ \A b \in Actors : Fits(b)
  BY Parts
<1>2. life[a].kind = "running" /\ asked' = Asked({t}) /\ task' = Aborted({a})
  <2>1. CASE InterruptTurn(a)
    BY <2>1 DEF InterruptTurn
  <2>2. CASE TimeOutTurn(a)
    <3>1. life[a].kind = "running" /\ asked' = Asked({task[a].turn}) /\ task' = Aborted({a})
      BY <2>2 DEF TimeOutTurn, Running
    <3>2. QED
      BY <1>1, <3>1 DEF Fits
  <2>3. QED
    BY <2>1, <2>2
<1>3. UNCHANGED <<journalVars, disposalVars, runVars, driverVars, owed, used>>
  BY DEF InterruptTurn, TimeOutTurn
<1>4. t \in TurnIds /\ outcome[t] = "running"
  BY <1>1, <1>2, LifeOfRunning DEF Fits
<1>5. /\ task' \in [Actors -> Task] /\ task'[a].step = task[a].step /\ task'[a].turn = task[a].turn /\ task'[a].aborted
      /\ \A b \in Actors \ {a} : task'[b] = task[b]
  <2>1. task[a] # NoTask
    BY <1>1, <1>2, Values DEF Fits
  <2>2. QED
    BY <1>1, <1>2, <2>1, AbortedTyped, ZenonT(60)
<1>6. /\ asked' \in [TurnIds -> {"no", "before", "after"}] /\ asked'[t] # "no"
      /\ \A u \in TurnIds \ {t} : asked'[u] = asked[u]
      /\ \A u \in TurnIds : (server # "up" /\ asked[u] # "before" => asked'[u] # "before") /\ (asked[u] # "no" => asked'[u] # "no")
  BY <1>1, <1>2, <1>4, AskedTyped
<1>7. /\ interruption' \in [Actors -> Interruption]
      /\ \A b \in Actors \ {a} : interruption'[b] = interruption[b]
      /\ \/ interruption'[a] = interruption[a]
         \/ interruption[a] = NoInterruption /\ interruption'[a] = [turn |-> t, cause |-> "none"]
  <2>1. CASE InterruptTurn(a)
    BY <1>1, <2>1, RequestsTyped, ZenonT(60) DEF InterruptTurn
  <2>2. CASE TimeOutTurn(a)
    BY <1>1, <2>2 DEF TimeOutTurn, TypeOK, Interruption
  <2>3. QED
    BY <2>1, <2>2
<1>8. callers' \subseteq callers \cup {<<a, t>>}
  BY DEF InterruptTurn, TimeOutTurn, CallersFor
<1>9. TypeOK'
  BY <1>1, <1>3, <1>4, <1>5, <1>6, <1>7, <1>8
     DEF TypeOK, Task, Interruption, journalVars, disposalVars, runVars, driverVars
<1>10. BlockExplained'
  BY <1>1, <1>3 DEF BlockExplained, runVars, driverVars
<1>11. Whole'
  <2>1. \A c \in callers' : asked'[c[2]] # "no"
    BY <1>1, <1>6, <1>8 DEF Whole, TypeOK
  <2>2. QED
    BY <1>1, <1>3, <1>4, <1>6, <2>1 DEF Whole, ServerStopOnlyUnasked, InterruptedOnlyWhenAsked, journalVars, driverVars
<1>12. \A b \in Actors \ {a} : Fits(b)'
  <2>1. \A b \in Actors \ {a} : life[b].kind = "running" => life[b].turn \in TurnIds \ {t}
    BY <1>1, <1>2, LifeOfRunning DEF Whole
  <2>2. QED
    BY <1>1, <1>3, <1>5, <1>6, <1>7, <2>1, OneActor DEF journalVars
<1>13. Fits(a)'
  <2>1. task[a].step \in {"preparing", "driving"} /\ task[a].turn = t /\ task'[a].step # "none"
    BY <1>1, <1>2, <1>5 DEF Fits
  <2>2. interruption'[a] # NoInterruption => interruption'[a].turn = task'[a].turn /\ task'[a].turn # NoTurn
    <3>1. task'[a].turn = t /\ t # NoTurn
      BY <1>4, <1>5, <2>1, SchedulerAssumption DEF TurnIds, NoTurn
    <3>2. CASE interruption'[a] = interruption[a]
      BY <1>1, <2>1, <3>1, <3>2 DEF Fits
    <3>3. CASE interruption'[a] = [turn |-> t, cause |-> "none"]
      BY <3>1, <3>3
    <3>4. QED
      BY <1>7, <3>2, <3>3
  <2>3. interruption'[a].cause = "server-stop" => server # "up" /\ asked'[interruption'[a].turn] # "before"
    <3>1. interruption'[a].cause = "server-stop" => interruption'[a] = interruption[a] /\ interruption[a] # NoInterruption
      BY <1>7, Values
    <3>2. interruption[a] # NoInterruption => interruption[a].turn = t
      BY <1>1, <2>1 DEF Fits
    <3>3. interruption[a].cause = "server-stop" => server # "up" /\ asked[interruption[a].turn] # "before"
      BY <1>1 DEF Fits
    <3>4. QED
      BY <1>4, <1>6, <3>1, <3>2, <3>3
  <2>4. UNCHANGED <<stopped, waiting, life, outcome, stopping, halt, server, used>>
    BY <1>3 DEF journalVars, runVars
  <2>5. QED
    BY <1>1, <1>2, <1>4, <1>5, <1>6, <2>1, <2>2, <2>3, <2>4 DEF Fits
<1>14. QED
  BY <1>9, <1>10, <1>11, <1>12, <1>13, Parts

\* The journal takes the end of a turn: what it says must be what was asked.
LEMMA TurnEnds ==
    ASSUME Inv, NEW a \in Actors, life[a].kind = "running", NEW tasks \in [Actors -> Task],
           NEW how \in {"completed", "failed", "interrupted", "server-stop"},
           how = "interrupted" => asked[life[a].turn] # "no",
           how = "server-stop" => asked[life[a].turn] # "before",
           \A b \in Actors \ {a} : tasks[b] = task[b],
           tasks[a].step \in {"preparing", "driving", "ending"},
           tasks[a].turn = task[a].turn, tasks[a].aborted = task[a].aborted,
           life' = [life EXCEPT ![a] = Idle], outcome' = [outcome EXCEPT ![life[a].turn] = how],
           Scan(tasks), callers' \subseteq callers,
           UNCHANGED <<stopped, held, waiting, interruption, disposalVars, runVars, retired, cleanup, asked, owed, used>>,
           orphans \subseteq orphans', orphans' \subseteq Actors
    PROVE  Inv'
<1> DEFINE t == life[a].turn
<1>1. TypeOK /\ BlockExplained /\ Whole /\ \A b \in Actors : Fits(b)
  BY Parts
<1>2. t \in TurnIds /\ outcome[t] = "running"
  BY <1>1, LifeOfRunning DEF Fits
<1>3. /\ outcome' \in [TurnIds -> {"none", "running", "completed", "failed", "interrupted", "server-stop"}]
      /\ outcome'[t] = how /\ \A u \in TurnIds \ {t} : outcome'[u] = outcome[u]
  BY <1>1, <1>2 DEF TypeOK
<1>4. /\ life' \in [Actors -> {Idle, Stopped} \cup {Running(u) : u \in TurnIds}]
      /\ life'[a] = Idle /\ \A b \in Actors \ {a} : life'[b] = life[b]
  BY <1>1 DEF TypeOK
<1>5. /\ task' \in [Actors -> Task]
      /\ task'[a] = tasks[a]
  BY ScanLaunches, Values
<1>6. TypeOK'
  BY <1>1, <1>3, <1>4, <1>5 DEF TypeOK, Task, disposalVars, runVars
<1>7. BlockExplained'
  BY <1>1 DEF BlockExplained, runVars
<1>8. Whole'
  <2>1. \A b, c \in Actors : life'[b].kind = "running" /\ life'[b] = life'[c] => b = c
    BY <1>1, <1>4, Values DEF Whole
  <2>2. \A u \in TurnIds : outcome'[u] = "none" => asked'[u] = "no"
    BY <1>1, <1>3 DEF Whole
  <2>3. ServerStopOnlyUnasked' /\ InterruptedOnlyWhenAsked'
    BY <1>1, <1>3 DEF Whole, ServerStopOnlyUnasked, InterruptedOnlyWhenAsked
  <2>4. QED
    BY <1>1, <2>1, <2>2, <2>3 DEF Whole
<1>9. \A b \in Actors \ {a} : Fits(b)'
  <2>1. \A b \in Actors \ {a} : life[b].kind = "running" => life[b].turn \in TurnIds \ {t}
    BY <1>1, LifeOfRunning DEF Whole
  <2>2. \A b \in Actors \ {a} : life[b].kind = "running" => outcome'[life[b].turn] = outcome[life[b].turn]
    BY <1>3, <2>1
  <2>3. QED
    BY <1>4, <2>2, OneActor
<1>10. Fits(a)'
  <2>1. task[a].step \in {"preparing", "driving"} /\ ~(stopping /\ halt # "draining") /\ task[a] # NoTask
    BY <1>1, Values DEF Fits
  <2>2. interruption[a] # NoInterruption => task'[a].aborted /\ interruption[a].turn = task'[a].turn /\ task'[a].turn # NoTurn
    <3>1. task'[a].aborted = task[a].aborted /\ task'[a].turn = task[a].turn
      BY <1>5
    <3>2. interruption[a] # NoInterruption => task[a].aborted /\ interruption[a].turn = task[a].turn /\ task[a].turn # NoTurn
      BY <1>1 DEF Fits
    <3>3. QED
      BY <3>1, <3>2
  <2>3. (stopped \/ ~AcceptsTurns) => task'[a].aborted
    BY <1>1, <1>5, <2>1 DEF Fits
  <2>4. life'[a].kind # "running" /\ task'[a].step \in {"preparing", "driving", "ending"}
    BY <1>4, <1>5, Values
  <2>5. UNCHANGED <<stopping, halt, server>> /\ AcceptsTurns' = AcceptsTurns
    BY DEF runVars, AcceptsTurns
  <2>6. QED
    BY <1>1, <2>1, <2>2, <2>3, <2>4, <2>5 DEF Fits
<1>11. QED
  BY <1>6, <1>7, <1>8, <1>9, <1>10, Parts

LEMMA EndSteps ==
    ASSUME Inv, NEW a \in Actors,
           \/ \E t \in TurnIds : ForceInterruption(a, t)
           \/ PreparationFails(a) \/ DriverGivesUp(a)
           \/ \E result \in {"completed", "failed"} : DriverReturns(a, result)
    PROVE  Inv'
<1>1. TypeOK /\ BlockExplained /\ Whole /\ \A b \in Actors : Fits(b)
  BY Parts
<1>2. ASSUME NEW t \in TurnIds, ForceInterruption(a, t) PROVE Inv'
  <2>1. life[a] = Running(t) /\ <<a, t>> \in callers
    BY <1>2 DEF ForceInterruption
  <2>2. life[a].kind = "running" /\ life[a].turn = t /\ asked[t] # "no"
    BY <1>1, <2>1, Values DEF Whole
  <2>3. task \in [Actors -> Task] /\ task[a].step \in {"preparing", "driving"}
    BY <1>1, <2>2, TasksTyped DEF Fits
  <2>4. QED
    BY <1>1, <1>2, <2>2, <2>3, TurnEnds DEF ForceInterruption, driverVars, TypeOK
<1>3. ASSUME NEW how \in {"completed", "failed"}, Conclude(a, how), task[a].step \in {"preparing", "driving"},
             orphans \subseteq orphans', orphans' \subseteq Actors, UNCHANGED <<retired, cleanup>>
      PROVE  Inv'
  <2> DEFINE end == IF Cancelled(a) THEN InterruptedAs(a) ELSE how
  <2>1. EndTurn(a, end)
    BY <1>3 DEF Conclude
  <2>2. UNCHANGED <<stopped, held, waiting, interruption, callers, disposalVars, runVars, asked, owed, used>>
    BY <2>1 DEF EndTurn
  <2>3. /\ At(a, "ending") \in [Actors -> Task] /\ At(a, "ending")[a].step = "ending" /\ At(a, "ending")[a].turn = task[a].turn
        /\ At(a, "ending")[a].aborted = task[a].aborted /\ \A b \in Actors \ {a} : At(a, "ending")[b] = task[b]
    BY <1>1, AtTyped
  <2>4. CASE life[a] = Running(task[a].turn)
    <3>1. task[a].turn \in TurnIds \cup {NoTurn}
      BY <1>1, TasksTyped DEF Task
    <3>2. life[a].kind = "running"
      BY <2>4 DEF Running
    <3>3. task[a].turn = life[a].turn /\ task[a] # NoTask
      BY <1>1, <1>3, <3>2, Values DEF Fits
    <3>4. end \in {"completed", "failed", "interrupted", "server-stop"}
      BY DEF InterruptedAs
    <3>5. Cancelled(a) => task[a].aborted
      BY <1>1, <3>3 DEF Cancelled, Fits
    <3>6. end = "interrupted" => asked[life[a].turn] # "no"
      BY <1>1, <3>2, <3>3, <3>5 DEF Fits, InterruptedAs
    <3>7. end = "server-stop" => asked[life[a].turn] # "before"
      <4>1. end = "server-stop" => interruption[a] = [turn |-> task[a].turn, cause |-> "server-stop"]
        BY DEF InterruptedAs
      <4>2. end = "server-stop" => interruption[a].cause = "server-stop" /\ interruption[a].turn = life[a].turn
        BY <3>3, <4>1
      <4>3. QED
        BY <1>1, <4>2 DEF Fits
    <3> HIDE DEF end
    <3>8. life' = [life EXCEPT ![a] = Idle] /\ outcome' = [outcome EXCEPT ![life[a].turn] = end] /\ Scan(At(a, "ending"))
      BY <2>1, <2>4, <3>3 DEF EndTurn
    <3>9. QED
      BY <1>3, <2>2, <2>3, <3>2, <3>4, <3>6, <3>7, <3>8, TurnEnds
  <2>5. CASE life[a] # Running(task[a].turn)
    <3>1. task' = At(a, "ending") /\ UNCHANGED <<life, outcome>>
      BY <2>1, <2>5 DEF EndTurn
    <3>2. life[a].kind # "running"
      BY <1>1, <2>5, LifeOfRunning DEF Fits
    <3>3. TypeOK'
      BY <1>1, <1>3, <2>2, <2>3, <3>1 DEF TypeOK, Task, disposalVars, runVars
    <3>4. Whole' /\ BlockExplained'
      BY <1>1, <1>3, <2>2, <3>1 DEF Whole, ServerStopOnlyUnasked, InterruptedOnlyWhenAsked, BlockExplained, runVars
    <3>5. \A b \in Actors \ {a} : Fits(b)'
      BY <1>1, <2>2, <2>3, <3>1, OneActor
    <3>6. /\ task'[a].step = "ending" /\ task'[a].turn = task[a].turn /\ task'[a].aborted = task[a].aborted
          /\ UNCHANGED <<stopped, waiting, life, outcome, interruption, stopping, halt, server, asked, used>> /\ task[a] # NoTask
      BY <1>3, <2>2, <2>3, <3>1, Values DEF runVars
    <3>7. Fits(a)'
      BY <1>1, <1>3, <3>2, <3>6 DEF Fits, AcceptsTurns
    <3>8. QED
      BY <3>3, <3>4, <3>5, <3>7, Parts
  <2>6. QED
    BY <2>4, <2>5
<1>4. CASE PreparationFails(a)
  BY <1>1, <1>3, <1>4 DEF PreparationFails, driverVars, TypeOK
<1>5. CASE DriverGivesUp(a)
  BY <1>1, <1>3, <1>5 DEF DriverGivesUp, TypeOK
<1>6. ASSUME NEW result \in {"completed", "failed"}, DriverReturns(a, result) PROVE Inv'
  BY <1>1, <1>3, <1>6 DEF DriverReturns, driverVars, TypeOK
<1>7. QED
  BY <1>2, <1>4, <1>5, <1>6

LEMMA ClaimStep ==
    ASSUME Inv, NEW a \in Actors, ClaimTurn(a)
    PROVE  Inv'
<1> DEFINE t == CHOOSE t \in FreshTurns : TRUE
           claimed == [At(a, "preparing") EXCEPT ![a].turn = t]
<1>1. TypeOK /\ BlockExplained /\ Whole /\ \A b \in Actors : Fits(b)
  BY Parts
<1>2. /\ task[a].step = "launched" /\ AcceptsTurns /\ Startable(a)
      /\ UNCHANGED <<stopped, held, interruption, callers, disposalVars, runVars, driverVars, owed, used>>
      /\ life' = [life EXCEPT ![a] = Running(t)] /\ outcome' = [outcome EXCEPT ![t] = "running"]
      /\ waiting' = [waiting EXCEPT ![a] = @ - 1]
      /\ asked' = (IF task[a].aborted THEN Asked({t}) ELSE asked)
      /\ Scan(claimed)
  BY DEF ClaimTurn
<1>3. t \in TurnIds /\ outcome[t] = "none" /\ waiting[a] > 0 /\ ~stopped /\ life[a] = Idle
  BY <1>2 DEF Startable, FreshTurns
<1> HIDE DEF t
<1>4. /\ claimed \in [Actors -> Task] /\ \A b \in Actors \ {a} : claimed[b] = task[b]
      /\ claimed[a].step = "preparing" /\ claimed[a].turn = t /\ claimed[a].aborted = task[a].aborted
  <2> DEFINE new == [At(a, "preparing")[a] EXCEPT !.turn = t]
  <2>1. At(a, "preparing")[a] \in Task
    BY <1>1, AtTyped
  <2>2. new \in Task /\ new.step = "preparing" /\ new.turn = t /\ new.aborted = task[a].aborted
    BY <1>1, <1>3, <2>1, AtTyped DEF Task
  <2>3. claimed = [At(a, "preparing") EXCEPT ![a] = new]
    OBVIOUS
  <2> HIDE DEF new
  <2>4. QED
    BY <1>1, <2>2, <2>3, AtTyped, ZenonT(60)
<1> HIDE DEF claimed
<1>5. task' \in [Actors -> Task] /\ task'[a] = claimed[a]
  BY <1>2, <1>4, ScanLaunches, Values
<1>6. /\ life' \in [Actors -> {Idle, Stopped} \cup {Running(u) : u \in TurnIds}]
      /\ life'[a] = Running(t) /\ \A b \in Actors \ {a} : life'[b] = life[b]
  BY <1>1, <1>2, <1>3 DEF TypeOK
<1>7. /\ outcome' \in [TurnIds -> {"none", "running", "completed", "failed", "interrupted", "server-stop"}]
      /\ outcome'[t] = "running" /\ \A u \in TurnIds \ {t} : outcome'[u] = outcome[u]
  BY <1>1, <1>2, <1>3 DEF TypeOK
<1>8. /\ waiting' \in [Actors -> 0 .. MaxInputs] /\ waiting'[a] <= used.inputs /\ used.inputs \in Nat
      /\ \A b \in Actors \ {a} : waiting'[b] = waiting[b]
  <2>1. waiting \in [Actors -> 0 .. MaxInputs] /\ used.inputs \in 0 .. MaxInputs /\ waiting[a] <= used.inputs
    BY <1>1 DEF TypeOK, Fits
  <2>2. QED
    BY <1>2, <1>3, <2>1, SchedulerAssumption
<1>9. /\ asked' \in [TurnIds -> {"no", "before", "after"}]
      /\ \A u \in TurnIds \ {t} : asked'[u] = asked[u]
      /\ asked'[t] # "no" <=> task[a].aborted
      /\ \A u \in TurnIds : server # "up" /\ asked[u] # "before" => asked'[u] # "before"
  <2>1. asked[t] = "no" /\ asked \in [TurnIds -> {"no", "before", "after"}]
    BY <1>1, <1>3 DEF Whole, TypeOK
  <2>2. CASE task[a].aborted
    BY <1>1, <1>2, <1>3, <2>1, <2>2, AskedTyped
  <2>3. CASE ~task[a].aborted
    BY <1>2, <2>1, <2>3
  <2>4. QED
    BY <2>2, <2>3
<1>10. TypeOK'
  BY <1>1, <1>2, <1>5, <1>6, <1>7, <1>8, <1>9 DEF TypeOK, Task, disposalVars, runVars, driverVars
<1>11. BlockExplained'
  BY <1>1, <1>2 DEF BlockExplained, runVars, driverVars
<1>12. \A b \in Actors : life[b].kind = "running" => life[b].turn \in TurnIds \ {t}
  BY <1>1, <1>3, LifeOfRunning DEF Fits
<1>13. Whole'
  <2>1. \A b, c \in Actors : life'[b].kind = "running" /\ life'[b] = life'[c] => b = c
    BY <1>1, <1>3, <1>6, <1>12, Values DEF Whole
  <2>2. \A u \in TurnIds : outcome'[u] = "none" => asked'[u] = "no"
    BY <1>1, <1>7, <1>9 DEF Whole
  <2>3. \A c \in callers' : asked'[c[2]] # "no"
    <3>1. \A c \in callers : c[2] \in TurnIds /\ asked[c[2]] # "no"
      BY <1>1 DEF Whole, TypeOK
    <3>2. asked[t] = "no"
      BY <1>1, <1>3 DEF Whole
    <3>3. QED
      BY <1>2, <1>9, <3>1, <3>2
  <2>4. ServerStopOnlyUnasked' /\ InterruptedOnlyWhenAsked'
    BY <1>1, <1>7, <1>9 DEF Whole, ServerStopOnlyUnasked, InterruptedOnlyWhenAsked
  <2>5. QED
    BY <1>1, <1>2, <2>1, <2>2, <2>3, <2>4 DEF Whole, driverVars
<1>14. \A b \in Actors \ {a} : Fits(b)'
  <2>1. \A b \in Actors \ {a} : life[b].kind = "running" =>
           outcome'[life[b].turn] = outcome[life[b].turn] /\ asked'[life[b].turn] = asked[life[b].turn]
    BY <1>7, <1>9, <1>12
  <2>2. \A b \in Actors \ {a} : life'[b] = life[b] /\ interruption'[b] = interruption[b] /\ waiting'[b] = waiting[b]
    BY <1>2, <1>6, <1>8
  <2>3. \A u \in TurnIds : server # "up" /\ asked[u] # "before" => asked'[u] # "before"
    BY <1>9
  <2>4. Scan(claimed) /\ UNCHANGED <<stopped, runVars>> /\ used'.inputs = used.inputs
    BY <1>2
  <2>5. QED
    BY <1>4, <2>1, <2>2, <2>3, <2>4, OneActor
<1>15. Fits(a)'
  <2>1. interruption[a] = NoInterruption /\ interruption' = interruption
    BY <1>1, <1>2 DEF Fits
  <2>2. ~stopping' /\ ~stopped' /\ AcceptsTurns' /\ used' = used
    BY <1>2, <1>3 DEF AcceptsTurns, runVars
  <2>3. life'[a].kind = "running" /\ life'[a].turn = t
    BY <1>3, <1>6, Values
  <2>4. QED
    BY <1>4, <1>5, <1>7, <1>8, <1>9, <2>1, <2>2, <2>3, Values DEF Fits
<1>16. QED
  BY <1>10, <1>11, <1>13, <1>14, <1>15, Parts

LEMMA StopActorStep ==
    ASSUME Inv, NEW a \in Actors, StopActor(a)
    PROVE  Inv'
<1> DEFINE ended == {t \in TurnIds : life[a] = Running(t)}
           tasks == IF server = "up" THEN Aborted({a}) ELSE task
<1>1. TypeOK /\ BlockExplained /\ Whole /\ \A b \in Actors : Fits(b)
  BY Parts
<1>2. /\ life' = [life EXCEPT ![a] = Stopped] /\ life[a] # Stopped
      /\ outcome' = [t \in TurnIds |-> IF life[a] = Running(t) THEN "interrupted" ELSE outcome[t]]
      /\ asked' = Asked(ended) /\ used' = [used EXCEPT !.stops = @ + 1] /\ used.stops < MaxStops
      /\ UNCHANGED <<stopped, held, waiting, interruption, callers, reviveDue, runVars, orphans, cleanup, owed>>
      /\ task' = tasks \/ Scan(tasks)
  BY DEF StopActor
<1>3. /\ tasks \in [Actors -> Task] /\ \A b \in Actors \ {a} : tasks[b] = task[b]
      /\ tasks[a].step = task[a].step /\ tasks[a].turn = task[a].turn /\ (task[a].aborted => tasks[a].aborted)
      /\ task[a] = NoTask => tasks[a] = NoTask
  BY <1>1, AbortedTyped, TasksTyped, ZenonT(60)
<1>4. /\ life' \in [Actors -> {Idle, Stopped} \cup {Running(u) : u \in TurnIds}]
      /\ life'[a] = Stopped /\ \A b \in Actors \ {a} : life'[b] = life[b]
  BY <1>1, <1>2 DEF TypeOK
<1>5. /\ asked' \in [TurnIds -> {"no", "before", "after"}]
      /\ \A u \in TurnIds : /\ u \in ended => asked'[u] # "no" /\ outcome[u] = "running"
                            /\ u \notin ended \/ asked[u] # "no" => asked'[u] = asked[u]
                            /\ server # "up" /\ asked[u] # "before" => asked'[u] # "before"
  <2>1. \A u \in ended : outcome[u] = "running"
    <3>1. \A u \in ended : u \in TurnIds /\ life[a] = Running(u) /\ Running(u).kind = "running" /\ Running(u).turn = u
      BY Values
    <3>2. \A u \in ended : life[a].kind = "running" /\ life[a].turn = u
      BY <3>1
    <3>3. QED
      BY <1>1, <3>2, ZenonT(60) DEF Fits
  <2>2. QED
    BY <1>1, <1>2, <2>1, AskedTyped
<1>6. \A b \in Actors \ {a} : life[b].kind = "running" => life[b].turn \in TurnIds \ ended
  BY <1>1, LifeOfRunning, Values DEF Whole
<1>7. /\ used' \in [inputs : 0..MaxInputs, stops : 0..MaxStops, halts : 0..MaxHalts]
      /\ used'.inputs = used.inputs /\ used'.halts = used.halts
  BY <1>1, <1>2, SchedulerAssumption DEF TypeOK
<1>8. /\ task' \in [Actors -> Task] /\ task'[a] = tasks[a]
  <2>1. CASE task' = tasks
    BY <1>3, <2>1
  <2>2. CASE Scan(tasks)
    BY <1>3, <1>4, <2>2, ScanLaunches, Values
  <2>3. QED
    BY <1>2, <2>1, <2>2
<1>9. disposal' \in [Actors -> {"none", "waiting", "due", "disposing", "again", "failed"}] /\ retired' \subseteq Actors
  <2>1. CASE server = "up"
    <3>1. PICK x \in {"none", "waiting", "due", "disposing", "again", "failed"} : disposal' = [disposal EXCEPT ![a] = x]
      BY <1>1, <2>1 DEF StopActor, TypeOK
    <3>2. QED
      BY <1>1, <2>1, <3>1 DEF StopActor, TypeOK
  <2>2. CASE server # "up"
    BY <1>1, <2>2 DEF StopActor, TypeOK
  <2>3. QED
    BY <2>1, <2>2
<1>10. outcome' \in [TurnIds -> {"none", "running", "completed", "failed", "interrupted", "server-stop"}]
       /\ \A u \in TurnIds : outcome'[u] = IF u \in ended THEN "interrupted" ELSE outcome[u]
  BY <1>1, <1>2 DEF TypeOK
<1> HIDE DEF ended, tasks
<1>11. TypeOK'
  BY <1>1, <1>2, <1>4, <1>5, <1>7, <1>8, <1>9, <1>10 DEF TypeOK, Task, runVars
<1>12. BlockExplained'
  BY <1>1, <1>2 DEF BlockExplained, runVars
<1>13. Whole'
  <2>1. \A b, c \in Actors : life'[b].kind = "running" /\ life'[b] = life'[c] => b = c
    BY <1>1, <1>4, Values DEF Whole
  <2>2. \A u \in TurnIds : outcome'[u] = "none" => asked'[u] = "no"
    BY <1>1, <1>5, <1>10 DEF Whole
  <2>3. \A c \in callers' : asked'[c[2]] # "no"
    <3>1. \A c \in callers : c[2] \in TurnIds /\ asked[c[2]] # "no"
      BY <1>1 DEF Whole, TypeOK
    <3>2. QED
      BY <1>2, <1>5, <3>1
  <2>4. ServerStopOnlyUnasked'
    BY <1>1, <1>5, <1>10 DEF Whole, ServerStopOnlyUnasked
  <2>5. InterruptedOnlyWhenAsked'
    BY <1>1, <1>5, <1>10 DEF Whole, InterruptedOnlyWhenAsked
  <2>6. QED
    BY <1>1, <1>2, <1>7, <2>1, <2>2, <2>3, <2>4, <2>5 DEF Whole
<1>14. \A b \in Actors \ {a} : Fits(b)'
  <2>1. \A b \in Actors \ {a} : life[b].kind = "running" =>
           outcome'[life[b].turn] = outcome[life[b].turn] /\ asked'[life[b].turn] = asked[life[b].turn]
    BY <1>5, <1>6, <1>10
  <2>2. QED
    BY <1>2, <1>3, <1>4, <1>5, <1>7, <2>1, OneActor
<1>15. Fits(a)'
  <2>1. /\ life'[a].kind # "running" /\ used'.inputs = used.inputs
        /\ UNCHANGED <<stopped, waiting, interruption, stopping, halt, server>> /\ AcceptsTurns' = AcceptsTurns
    BY <1>2, <1>4, <1>7, Values DEF runVars, AcceptsTurns
  <2>2. /\ task'[a].step = task[a].step /\ task'[a].turn = task[a].turn /\ (task[a].aborted => task'[a].aborted)
        /\ task[a] = NoTask => task'[a] = NoTask
    BY <1>3, <1>8
  <2>3. interruption[a].cause = "server-stop" => server # "up" /\ asked'[interruption[a].turn] # "before"
    <3>1. interruption[a].cause = "server-stop" => interruption[a].turn \in TurnIds
      BY <1>1, TasksTyped, Values DEF Fits, Task
    <3>2. QED
      BY <1>1, <1>5, <3>1 DEF Fits
  <2>4. QED
    BY <1>1, <2>1, <2>2, <2>3 DEF Fits
<1>16. QED
  BY <1>11, <1>12, <1>13, <1>14, <1>15, Parts

LEMMA StopRunStep ==
    ASSUME Inv, StopRun
    PROVE  Inv'
<1>1. TypeOK /\ BlockExplained /\ Whole /\ \A b \in Actors : Fits(b)
  BY Parts
<1>2. /\ server = "up" /\ used.halts < MaxHalts /\ used' = [used EXCEPT !.halts = @ + 1]
      /\ stopped' = TRUE /\ held' \subseteq Actors
      /\ interruption' = Requested(Actors, "none") /\ callers' = callers \cup CallersFor(Actors)
      /\ asked' = Asked(RunningTurns) /\ stopping' = TRUE /\ halt' = "draining" /\ quarantine' = TRUE
      /\ cleanup' = cleanup + 1 /\ task' = Aborted(Actors)
      /\ UNCHANGED <<life, waiting, outcome, disposalVars, server, retired, orphans, owed>>
  BY <1>1 DEF StopRun, TypeOK
<1>3. /\ used' \in [inputs : 0..MaxInputs, stops : 0..MaxStops, halts : 0..MaxHalts]
      /\ used'.inputs = used.inputs /\ used'.halts = used.halts + 1
      /\ cleanup' \in 0 .. MaxHalts /\ cleanup' <= used'.halts
  BY <1>1, <1>2, SchedulerAssumption DEF TypeOK, Whole
<1>4. /\ task' \in [Actors -> Task]
      /\ \A b \in Actors : /\ task'[b].step = task[b].step /\ task'[b].turn = task[b].turn
                           /\ task[b] # NoTask => task'[b].aborted
                           /\ task[b] = NoTask => task'[b] = NoTask
  BY <1>1, <1>2, AbortedTyped
<1>5. /\ asked' \in [TurnIds -> {"no", "before", "after"}]
      /\ \A u \in TurnIds : /\ outcome[u] = "running" => asked'[u] # "no"
                            /\ outcome[u] # "running" \/ asked[u] # "no" => asked'[u] = asked[u]
  BY <1>1, <1>2, AskedTyped DEF RunningTurns
<1>6. /\ interruption' \in [Actors -> Interruption]
      /\ \A b \in Actors : \/ interruption'[b] = interruption[b]
                           \/ life[b].kind = "running" /\ interruption'[b] = [turn |-> life[b].turn, cause |-> "none"]
  BY <1>1, <1>2, RequestsTyped
<1>7. \A b \in Actors : life[b].kind = "running" => life[b].turn \in TurnIds /\ outcome[life[b].turn] = "running"
  BY <1>1, LifeOfRunning DEF Fits
<1>8. TypeOK'
  <2>1. callers' \subseteq Actors \X TurnIds
    BY <1>1, <1>2, <1>7 DEF TypeOK, CallersFor
  <2>2. QED
    BY <1>1, <1>2, <1>3, <1>4, <1>5, <1>6, <2>1 DEF TypeOK, Task, Interruption, disposalVars
<1>9. BlockExplained'
  BY <1>2 DEF BlockExplained
<1>10. Whole'
  <2>1. \A c \in callers' : asked'[c[2]] # "no"
    <3>1. \A c \in callers : c[2] \in TurnIds /\ asked[c[2]] # "no"
      BY <1>1 DEF Whole, TypeOK
    <3>2. \A c \in CallersFor(Actors) : c[2] \in TurnIds /\ outcome[c[2]] = "running"
      BY <1>7 DEF CallersFor
    <3>3. QED
      BY <1>2, <1>5, <3>1, <3>2
  <2>2. QED
    BY <1>1, <1>2, <1>3, <1>5, <2>1 DEF Whole, ServerStopOnlyUnasked, InterruptedOnlyWhenAsked
<1>11. ASSUME NEW b \in Actors PROVE Fits(b)'
  <2>1. interruption'[b].cause = "server-stop" => FALSE
    <3>1. interruption[b].cause # "server-stop"
      BY <1>1, <1>2 DEF Fits
    <3>2. QED
      BY <1>6, <3>1
  <2>2. task[b] # NoTask => task'[b].aborted
    BY <1>4
  <2>3. life[b].kind = "running" => asked'[life[b].turn] # "no" /\ task[b] # NoTask
    BY <1>1, <1>5, <1>7, Values DEF Fits
  <2>4. task'[b].step = task[b].step /\ task'[b].turn = task[b].turn
    BY <1>4
  <2>5. task'[b].step = "none" => task'[b] = NoTask
    BY <1>1, <1>4, <2>4 DEF Fits
  <2>6. task'[b] # NoTask => task'[b].aborted
    BY <1>4
  <2>7. interruption'[b] # NoInterruption =>
           /\ task'[b].step \in {"preparing", "driving", "ending"} /\ task'[b].aborted
           /\ interruption'[b].turn = task'[b].turn /\ task'[b].turn # NoTurn
    <3>1. CASE interruption'[b] = interruption[b]
      <4>1. interruption[b] # NoInterruption => task[b] # NoTask
        BY <1>1, Values DEF Fits
      <4>2. QED
        BY <1>1, <2>2, <2>4, <3>1, <4>1 DEF Fits
    <3>2. CASE life[b].kind = "running" /\ interruption'[b] = [turn |-> life[b].turn, cause |-> "none"]
      <4>1. life[b].turn # NoTurn
        BY <1>7, <3>2, SchedulerAssumption DEF TurnIds, NoTurn
      <4>2. task[b].step \in {"preparing", "driving"} /\ task[b].turn = life[b].turn
        BY <1>1, <3>2 DEF Fits
      <4>3. interruption'[b].turn = life[b].turn
        BY <3>2
      <4>4. QED
        BY <2>2, <2>3, <2>4, <3>2, <4>1, <4>2, <4>3
    <3>3. QED
      BY <1>6, <3>1, <3>2
  <2>8. QED
    BY <1>1, <1>2, <1>3, <2>1, <2>2, <2>3, <2>4, <2>5, <2>6, <2>7 DEF Fits
<1>12. QED
  BY <1>8, <1>9, <1>10, <1>11, Parts

LEMMA ShutdownStep ==
    ASSUME Inv, Shutdown
    PROVE  Inv'
<1> DEFINE unasked == {a \in Actors : AcceptsShutdownRecovery(a)}
<1>1. TypeOK /\ BlockExplained /\ Whole /\ \A b \in Actors : Fits(b)
  BY Parts
<1>2. /\ server = "up" /\ server' = "stopping"
      /\ interruption' = Requested(unasked, "server-stop") /\ task' = Aborted(Actors)
      /\ UNCHANGED <<journalVars, callers, disposalVars, stopping, halt, quarantine, driverVars, asked, owed, used>>
  BY DEF Shutdown
<1>3. /\ task' \in [Actors -> Task]
      /\ \A b \in Actors : /\ task'[b].step = task[b].step /\ task'[b].turn = task[b].turn
                           /\ task[b] # NoTask => task'[b].aborted
                           /\ task[b] = NoTask => task'[b] = NoTask
  BY <1>1, <1>2, AbortedTyped
<1>4. /\ interruption' \in [Actors -> Interruption]
      /\ \A b \in Actors :
            \/ interruption'[b] = interruption[b] /\ (b \notin unasked \/ life[b].kind # "running" \/ interruption[b] # NoInterruption)
            \/ b \in unasked /\ life[b].kind = "running" /\ interruption'[b] = [turn |-> life[b].turn, cause |-> "server-stop"]
  BY <1>1, <1>2, RequestsTyped
<1>5. TypeOK'
  BY <1>1, <1>2, <1>3, <1>4 DEF TypeOK, Task, Interruption, journalVars, disposalVars, driverVars
<1>6. BlockExplained' /\ Whole'
  BY <1>1, <1>2 DEF BlockExplained, Whole, ServerStopOnlyUnasked, InterruptedOnlyWhenAsked, journalVars, driverVars
<1>7. ASSUME NEW b \in Actors PROVE Fits(b)'
  <2>1. UNCHANGED <<stopped, life, waiting, outcome, asked, stopping, halt, used>>
    BY <1>2 DEF journalVars
  <2>2. CASE life[b].kind = "running"
    <3>1. /\ task[b].step \in {"preparing", "driving"} /\ task[b].turn = life[b].turn /\ task[b] # NoTask
          /\ ~(stopping /\ halt # "draining") /\ life[b].turn # NoTurn
      <4>1. life[b].turn # NoTurn
        BY <1>1, <2>2, LifeOfRunning, SchedulerAssumption DEF TurnIds, NoTurn
      <4>2. QED
        BY <1>1, <2>2, <4>1, Values DEF Fits
    <3>2. /\ task'[b].step \in {"preparing", "driving"} /\ task'[b].turn = life[b].turn /\ task'[b].aborted
      BY <1>3, <3>1
    <3>3. /\ interruption'[b] # NoInterruption => interruption'[b].turn = life[b].turn
          /\ asked[life[b].turn] # "no" \/ interruption'[b] = [turn |-> life[b].turn, cause |-> "server-stop"]
          /\ interruption'[b].cause = "server-stop" => asked[interruption'[b].turn] # "before"
      <4>1. CASE b \in unasked
        <5>1. ~task[b].aborted
          BY <4>1 DEF AcceptsShutdownRecovery
        <5>2. interruption[b] = NoInterruption /\ asked[life[b].turn] = "no"
          BY <1>1, <2>2, <5>1 DEF Fits
        <5>3. interruption'[b] = [turn |-> life[b].turn, cause |-> "server-stop"]
          BY <1>4, <2>2, <4>1, <5>2
        <5>4. QED
          BY <5>2, <5>3
      <4>2. CASE b \notin unasked
        <5>1. interruption'[b] = interruption[b] /\ interruption[b].cause # "server-stop"
          BY <1>1, <1>2, <1>4, <4>2 DEF Fits
        <5>2. task[b].aborted
          BY <1>1, <2>2, <3>1, <4>2 DEF AcceptsShutdownRecovery, Fits, AcceptsTurns
        <5>3. asked[life[b].turn] # "no"
          <6>1. asked[life[b].turn] # "no" \/ interruption[b] = [turn |-> life[b].turn, cause |-> "server-stop"]
            BY <1>1, <2>2, <5>2 DEF Fits
          <6>2. QED
            BY <5>1, <6>1
        <5>4. interruption[b] # NoInterruption => interruption[b].turn = life[b].turn
          BY <1>1, <3>1 DEF Fits
        <5>5. QED
          BY <5>1, <5>3, <5>4
      <4>3. QED
        BY <4>1, <4>2
    <3>4. QED
      BY <1>1, <1>2, <2>1, <2>2, <3>1, <3>2, <3>3 DEF Fits
  <2>3. CASE life[b].kind # "running"
    <3>1. interruption'[b] = interruption[b]
      BY <1>4, <2>3
    <3>2. interruption[b] # NoInterruption => task[b] # NoTask
      BY <1>1, Values DEF Fits
    <3>3. interruption[b].cause # "server-stop"
      BY <1>1, <1>2 DEF Fits
    <3>4. /\ task'[b].step = task[b].step /\ task'[b].turn = task[b].turn
          /\ task[b] # NoTask => task'[b].aborted
          /\ task[b] = NoTask => task'[b] = NoTask
      BY <1>3
    <3>5. interruption'[b] # NoInterruption =>
             /\ task'[b].step \in {"preparing", "driving", "ending"} /\ task'[b].aborted
             /\ interruption'[b].turn = task'[b].turn /\ task'[b].turn # NoTurn
      BY <1>1, <3>1, <3>2, <3>4 DEF Fits
    <3>6. QED
      BY <1>1, <2>1, <2>3, <3>1, <3>3, <3>4, <3>5 DEF Fits
  <2>4. QED
    BY <2>2, <2>3
<1>8. QED
  BY <1>5, <1>6, <1>7, Parts

LEMMA Initially == Init => Inv
<1> SUFFICES ASSUME Init PROVE Inv
  OBVIOUS
<1>1. TypeOK
  <2>1. /\ task \in [Actors -> Task] /\ interruption \in [Actors -> Interruption]
        /\ life \in [Actors -> {Idle, Stopped} \cup {Running(t) : t \in TurnIds}]
    BY Values DEF Init
  <2>2. /\ waiting \in [Actors -> 0..MaxInputs] /\ cleanup \in 0..MaxHalts
        /\ used \in [inputs : 0..MaxInputs, stops : 0..MaxStops, halts : 0..MaxHalts]
    BY SchedulerAssumption DEF Init
  <2>3. QED
    BY <2>1, <2>2 DEF Init, TypeOK, Task, Interruption
<1>2. BlockExplained
  BY DEF Init, BlockExplained
<1>3. Whole
  BY Values DEF Init, Whole, ServerStopOnlyUnasked, InterruptedOnlyWhenAsked
<1>4. \A b \in Actors : Fits(b)
  BY Values DEF Init, Fits, AcceptsTurns
<1>5. QED
  BY <1>1, <1>2, <1>3, <1>4, Parts

LEMMA Stuttering == Inv /\ UNCHANGED vars => Inv'
<1> SUFFICES ASSUME Inv, UNCHANGED vars PROVE Inv'
  OBVIOUS
<1>1. TypeOK /\ BlockExplained /\ Whole /\ \A b \in Actors : Fits(b)
  BY Parts
<1>2. TypeOK' /\ BlockExplained' /\ Whole' /\ \A b \in Actors : Fits(b)'
  BY <1>1 DEF TypeOK, BlockExplained, Whole, ServerStopOnlyUnasked, InterruptedOnlyWhenAsked, Fits, AcceptsTurns,
     vars, journalVars, disposalVars, runVars, driverVars
<1>3. QED
  BY <1>2, Parts

\* Every step of the scheduler keeps the invariant.
LEMMA EveryStep == Inv /\ [Next]_vars => Inv'
<1> SUFFICES ASSUME Inv, Next PROVE Inv'
  BY Stuttering
<1>1. ASSUME NEW a \in Actors, Command(a) PROVE Inv'
  BY <1>1, InputSteps, StopActorStep, AskSteps DEF Command
<1>2. ASSUME NEW a \in Actors, TaskStep(a) PROVE Inv'
  BY <1>2, ClaimStep, TaskSteps, EndSteps DEF TaskStep
<1>3. ASSUME NEW a \in Actors, DisposalStep(a) PROVE Inv'
  BY <1>3, AsideSteps
<1>4. ASSUME NEW a \in Actors, NEW t \in TurnIds, CallerStep(a, t) PROVE Inv'
  BY <1>4, EndSteps, AsideSteps DEF CallerStep
<1>5. ASSUME NEW a \in Actors, NEW result \in {"completed", "failed"}, DriverReturns(a, result) PROVE Inv'
  BY <1>5, EndSteps
<1>6. ASSUME NEW a \in Actors, OrphanEnds(a) \/ ClaimSteering(a) \/ TimeOutTurn(a) PROVE Inv'
  BY <1>6, AsideSteps, InputSteps, AskSteps
<1>7. CASE HaltStep
  BY <1>7, HaltSteps DEF HaltStep
<1>8. CASE ServerStep
  <2>1. Primary \in Actors
    BY SchedulerAssumption
  <2>2. CASE PluginsSettle \/ FinishShutdown
    BY <2>1, <2>2, AsideSteps
  <2>3. QED
    BY <1>8, <2>2, StopRunStep, ShutdownStep DEF ServerStep
<1>9. QED
  BY <1>1, <1>2, <1>3, <1>4, <1>5, <1>6, <1>7, <1>8 DEF Next

\* Journal, tasks and the block of a stopped run agree: a running turn has the task
\* that ends it, and no task works for a run that was stopped and drained
\* (scheduler.ts #launch, #runTurn, haltRun, #releaseRunBlock).
THEOREM SchedulerInvariant == Spec => []SchedulerInv
<1>1. Inv => SchedulerInv
  BY DEF Inv
<1>2. QED
  BY <1>1, Initially, EveryStep, PTL DEF Spec

\* A turn ends as interrupted only when somebody asked for that, and is recovered
\* after a restart only when nobody had (scheduler.ts interruptTurn, stop, #interrupt).
THEOREM InterruptionsAreAsked == Spec => []InterruptionsAsked
<1>1. Inv => InterruptionsAsked
  BY DEF Inv
<1>2. QED
  BY <1>1, Initially, EveryStep, PTL DEF Spec

=============================================================================
