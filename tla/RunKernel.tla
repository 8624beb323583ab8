------------------------------ MODULE RunKernel ------------------------------
(***************************************************************************)
(* The aggregate of one run of packages/ragents: the actors, their turns,  *)
(* the inputs queued for them and the subscriptions, as the decisions of   *)
(* runtime/decisions change them and domain/projection.ts folds them.      *)
(*                                                                         *)
(* One action is one journal command: the guards are those of the decision *)
(* and of assertEventSemantics, which both have to accept it, and all the  *)
(* events of the command take effect in one step, because the journal      *)
(* writes a command as one line.  Between two commands the process may     *)
(* shut down or crash; what was journaled stays, and the next startup runs *)
(* #recoverStoppedTurns before it serves anything.                         *)
(*                                                                         *)
(* Left out: texts, artifacts, rooms, usage, titles, sharing, actions and  *)
(* plugin states, none of which a decision below reads.  The capability    *)
(* grants of an actor never change after its creation and are a constant.  *)
(***************************************************************************)
EXTENDS Naturals, FiniteSets

CONSTANTS
    Agents,         \* ids of the actors an agent runtime drives
    Scripts,        \* ids of the TypeScript actors
    Externals,      \* ids of the actors an external runtime drives
    Owner,          \* the human owner, who is an actor but takes no turns
    Subscriptions,  \* ids of subscriptions
    MaxInputs,      \* bound: inputs enqueued in the run
    MaxTurns,       \* bound: turns started in the run
    MaxCalls,       \* bound: tool calls open at the same time in a turn
    Selectable,     \* bound: the actors that are tried as primary actor
    Grants,         \* the usable capabilities of each executable actor
    Policies,       \* what the restart policy may answer for this run at a startup
    None            \* "no actor", "no subscription"

Executable == Agents \cup Scripts \cup Externals
Capabilities == {"agent.spawn", "actor.input", "event.subscribe",
                 "execution.stopOwned", "run.configure"}

\* Ids of inputs and turns are numbers in the order of their journal events.
InputIds == 1..MaxInputs
TurnIds == 1..MaxTurns
NoTurn == 0
NoInput == 0

ASSUME KernelAssumption ==
    /\ IsFiniteSet(Executable)
    /\ Agents \cap Scripts = {} /\ Agents \cap Externals = {} /\ Scripts \cap Externals = {}
    /\ Owner \notin Executable
    /\ None \notin Executable \cup {Owner} \cup Subscriptions
    /\ MaxInputs \in Nat /\ MaxTurns \in Nat /\ MaxCalls \in Nat
    /\ Grants \in [Executable -> SUBSET Capabilities]
    /\ Selectable \subseteq Executable
    /\ Policies \subseteq {"enabled", "disabled", "unavailable"}

VARIABLES
    stopped,         \* RunState.stopped: between run.stopped and run.continued
    held,            \* the actors whose "held" mark is set
    lifecycle,       \* kind and running turn of each executable actor
    creator,         \* createdBy of each executable actor
    primary,         \* primaryActorId
    stoppedPrimary,  \* stoppedPrimaryActorId
    turns,           \* RunState.turns
    calls,           \* the number of tool calls still running in each turn
    inputs,          \* RunState.inputs
    presented,       \* the inputs with a model.input.presented event
    subs,            \* RunState.subscriptions
    phase,           \* of the server process
    policy,          \* what RestartPolicy answers during a startup, else "none"
    passedOver       \* history: server-stopped turns a startup skipped, their actor being stopped

actorVars == <<held, lifecycle, creator, primary, stoppedPrimary>>
turnVars == <<turns, calls>>
inputVars == <<inputs, presented>>
processVars == <<phase, policy>>
vars == <<stopped, actorVars, turnVars, inputVars, subs, processVars, passedOver>>

-----------------------------------------------------------------------------
(* Values *)

Kinds == {"absent", "idle", "running", "stopped"}
Lifecycle == [kind : Kinds, turn : TurnIds \cup {NoTurn}]
Absent == [kind |-> "absent", turn |-> NoTurn]
Idle == [kind |-> "idle", turn |-> NoTurn]
Stopped == [kind |-> "stopped", turn |-> NoTurn]
Running(t) == [kind |-> "running", turn |-> t]

Outcomes == {"unavailable", "stopped", "disabled", "unsupported", "guarded", "continued"}

Turn == [status : {"absent", "running", "completed", "failed", "interrupted"},
         actor : Executable \cup {None},
         input : InputIds \cup {NoInput},
         cause : {"none", "server-stop"},
         recovery : Outcomes \cup {"none"}]
AbsentTurn == [status |-> "absent", actor |-> None, input |-> NoInput,
               cause |-> "none", recovery |-> "none"]
NewTurn(a, i) == [AbsentTurn EXCEPT !.status = "running", !.actor = a, !.input = i]

\* sub is the subscription of a delivered event; restartOf the interrupted turn
\* that a restart input continues; carries the inputs its text repeats.
Input == [kind : {"absent", "pending", "claimed", "discarded"},
          actor : Executable \cup {None},
          sub : Subscriptions \cup {None},
          turn : TurnIds \cup {NoTurn},
          restartOf : TurnIds \cup {NoTurn},
          carries : SUBSET InputIds]
AbsentInput == [kind |-> "absent", actor |-> None, sub |-> None, turn |-> NoTurn,
                restartOf |-> NoTurn, carries |-> {}]
NewInput(a, s) == [AbsentInput EXCEPT !.kind = "pending", !.actor = a, !.sub = s]

Subscription == [status : {"absent", "active", "removed", "failed"},
                 subscriber : Executable \cup {None},
                 createdBy : Executable \cup {Owner, None}]
AbsentSubscription == [status |-> "absent", subscriber |-> None, createdBy |-> None]

-----------------------------------------------------------------------------
(* What the decisions ask of the state *)

Active(a) == lifecycle[a].kind \in {"idle", "running"}
ActiveActors == {a \in Executable : Active(a)}

\* assertActorCanCommand: the owner always may, an executable actor from its running turn.
CanCommand(c) == c = Owner \/ (c \in Executable /\ lifecycle[c].kind = "running")
Commanders == {c \in Executable \cup {Owner} : CanCommand(c)}
GrantsOf(c) == IF c = Owner THEN Capabilities ELSE Grants[c]
Has(c, capability) == capability \in GrantsOf(c)

FreshInput(i) == inputs[i].kind = "absent" /\ \A j \in InputIds : j < i => inputs[j].kind # "absent"
FreshTurn(t) == turns[t].status = "absent" /\ \A u \in TurnIds : u < t => turns[u].status # "absent"

\* Fault: takes a claimed input for a waiting one.
PendingOrClaimed(a) == {i \in InputIds : inputs[i].kind \in {"pending", "claimed"} /\ inputs[i].actor = a}

Pending(a) == {i \in InputIds : inputs[i].kind = "pending" /\ inputs[i].actor = a}
PendingOf(S) == {i \in InputIds : inputs[i].kind = "pending" /\ inputs[i].sub \in S}
ClaimedBy(t) == {i \in InputIds : inputs[i].kind = "claimed" /\ inputs[i].turn = t}
TurnsOf(a) == {t \in TurnIds : turns[t].status # "absent" /\ turns[t].actor = a}

\* Walks up from the creator of a, at most once through every actor.
BelongsToBranch(a, root) ==
    LET above[n \in 0..Cardinality(Executable)] ==
            IF n = 0 THEN {creator[a]}
            ELSE above[n - 1] \cup {creator[b] : b \in above[n - 1] \cap Executable}
    IN root \in above[Cardinality(Executable)]

\* Fault: the walk ends at a stopped actor.
ActiveDescendantsOf(root) ==
    LET reached[n \in 0..Cardinality(Executable)] ==
            IF n = 0 THEN {root}
            ELSE reached[n - 1] \cup {b \in ActiveActors : creator[b] \in reached[n - 1]}
    IN reached[Cardinality(Executable)] \ {root}

\* Walks down breadth first, through stopped actors too, and keeps the active ones.
DescendantsOf(root) ==
    LET reached[n \in 0..Cardinality(Executable)] ==
            IF n = 0 THEN {root}
            ELSE reached[n - 1] \cup {b \in Executable : creator[b] \in reached[n - 1]}
    IN (reached[Cardinality(Executable)] \ {root}) \cap ActiveActors

MayStop(c, a) == Has(c, "execution.stopOwned") /\ (c = Owner \/ BelongsToBranch(a, c))

Serving == phase \in {"up", "stopping"}

-----------------------------------------------------------------------------
Init ==
    /\ stopped = FALSE
    /\ held = {}
    /\ lifecycle = [a \in Executable |-> Absent]
    /\ creator = [a \in Executable |-> None]
    /\ primary = None
    /\ stoppedPrimary = None
    /\ turns = [t \in TurnIds |-> AbsentTurn]
    /\ calls = [t \in TurnIds |-> 0]
    /\ inputs = [i \in InputIds |-> AbsentInput]
    /\ presented = {}
    /\ subs = [s \in Subscriptions |-> AbsentSubscription]
    /\ phase = "up"
    /\ policy = "none"
    /\ passedOver = {}

-----------------------------------------------------------------------------
(* Creating actors *)

Create(c, a) ==
    /\ lifecycle[a].kind = "absent"
    /\ Has(c, "agent.spawn")
    /\ lifecycle' = [lifecycle EXCEPT ![a] = Idle]
    /\ creator' = [creator EXCEPT ![a] = c]
    /\ held' = IF stopped THEN held \cup {a} ELSE held
    /\ UNCHANGED <<stopped, primary, stoppedPrimary, turnVars, presented, subs,
                   processVars, passedOver>>

SpawnAgent(c, a) ==
    /\ Serving /\ a \in Agents \cup Externals
    /\ Create(c, a)
    /\ UNCHANGED inputs

\* The task is the agent's first input, enqueued by the same command.
SpawnAgentWithTask(c, a, i) ==
    /\ Serving /\ a \in Agents \cup Externals
    /\ Has(c, "actor.input")
    /\ FreshInput(i)
    /\ Create(c, a)
    /\ inputs' = [inputs EXCEPT ![i] = NewInput(a, None)]

CreateScriptActor(c, a) ==
    /\ Serving /\ a \in Scripts
    /\ Create(c, a)
    /\ UNCHANGED inputs

SelectPrimaryActor(c, a) ==
    /\ Serving
    /\ Has(c, "run.configure") /\ Active(a)
    /\ primary' = a /\ stoppedPrimary' = None
    /\ UNCHANGED <<stopped, held, lifecycle, creator, turnVars, inputVars, subs,
                   processVars, passedOver>>

-----------------------------------------------------------------------------
(* Enqueueing inputs.  releaseAddressed: an input that a person or another  *)
(* actor addresses to a held actor of a run that goes on releases it.       *)

Enqueue(i, a, s) ==
    /\ Active(a) /\ FreshInput(i)
    /\ inputs' = [inputs EXCEPT ![i] = NewInput(a, s)]
    /\ UNCHANGED <<lifecycle, creator, primary, stoppedPrimary, turnVars, presented,
                   subs, processVars, passedOver>>

\* A human input continues a stopped run first, in the same command.
EnqueueHumanInput(a, i) ==
    /\ Serving
    /\ Enqueue(i, a, None)
    /\ stopped' = FALSE
    /\ held' = (IF stopped THEN held \ {primary} ELSE held) \ {a}

\* Notices to creators, plugin inputs and wake-ups run under the owner.
EnqueueAutomaticInput(a, i) ==
    /\ Enqueue(i, a, None)
    /\ UNCHANGED <<stopped, held>>

\* Fault: an input of another actor releases even while the run is stopped.
EnqueueReleasing(c, a, i) ==
    /\ Serving
    /\ c # Owner /\ Has(c, "actor.input")
    /\ Enqueue(i, a, None)
    /\ held' = IF c = a THEN held ELSE held \ {a}
    /\ UNCHANGED stopped

EnqueueActorInput(c, a, i) ==
    /\ Serving
    /\ c # Owner /\ Has(c, "actor.input")
    /\ Enqueue(i, a, None)
    /\ held' = IF stopped \/ c = a THEN held ELSE held \ {a}
    /\ UNCHANGED stopped

DeliverSubscription(s, i) ==
    /\ subs[s].status = "active"
    /\ Enqueue(i, subs[s].subscriber, s)
    /\ UNCHANGED <<stopped, held>>

-----------------------------------------------------------------------------
(* Subscriptions *)

CreateSubscription(c, a, s) ==
    /\ Serving
    /\ c = Owner \/ (c = a /\ Has(c, "event.subscribe"))
    /\ Active(a) /\ subs[s].status = "absent"
    /\ subs' = [subs EXCEPT ![s] = [status |-> "active", subscriber |-> a, createdBy |-> c]]
    /\ UNCHANGED <<stopped, actorVars, turnVars, inputVars, processVars, passedOver>>

\* Fault: ending a subscription leaves it active.
RemovedNone(S) == subs

Removed(S) == [s \in Subscriptions |-> IF s \in S THEN [subs[s] EXCEPT !.status = "removed"] ELSE subs[s]]
Discarded(D) == [i \in InputIds |-> IF i \in D THEN [inputs[i] EXCEPT !.kind = "discarded"] ELSE inputs[i]]

RemoveSubscription(c, s) ==
    /\ Serving
    /\ subs[s].status = "active"
    /\ c \in {Owner, subs[s].subscriber, subs[s].createdBy} /\ Has(c, "event.subscribe")
    /\ subs' = Removed({s})
    /\ inputs' = Discarded(PendingOf({s}))
    /\ UNCHANGED <<stopped, actorVars, turnVars, presented, processVars, passedOver>>

\* A delivery that cannot be enqueued ends its subscription; what it delivered stays.
FailSubscription(s) ==
    /\ subs[s].status = "active"
    /\ subs' = [subs EXCEPT ![s].status = "failed"]
    /\ UNCHANGED <<stopped, actorVars, turnVars, inputVars, processVars, passedOver>>

-----------------------------------------------------------------------------
(* Turns *)

Claimed(S, t) == [i \in InputIds |->
    IF i \in S THEN [inputs[i] EXCEPT !.kind = "claimed", !.turn = t] ELSE inputs[i]]

StartTurn(a, i, t) ==
    /\ phase = "up"
    /\ lifecycle[a].kind = "idle" /\ ~stopped /\ a \notin held
    /\ i \in Pending(a) /\ FreshTurn(t)
    /\ lifecycle' = [lifecycle EXCEPT ![a] = Running(t)]
    /\ turns' = [turns EXCEPT ![t] = NewTurn(a, i)]
    /\ inputs' = Claimed({i}, t)
    /\ UNCHANGED <<stopped, held, creator, primary, stoppedPrimary, calls, presented,
                   subs, processVars, passedOver>>

\* The inputs up to last join the running turn: the oldest ones, none skipped.
SteerInputs(a, last) ==
    /\ phase = "up"
    /\ a \in Agents /\ lifecycle[a].kind = "running" /\ ~stopped
    /\ last \in Pending(a)
    /\ inputs' = Claimed({i \in Pending(a) : i <= last}, lifecycle[a].turn)
    /\ UNCHANGED <<stopped, actorVars, turnVars, presented, subs, processVars, passedOver>>

PresentModelInput(a, i) ==
    /\ Serving
    /\ a \in Agents /\ lifecycle[a].kind = "running"
    /\ i \in ClaimedBy(lifecycle[a].turn) \ presented
    /\ presented' = presented \cup {i}
    /\ UNCHANGED <<stopped, actorVars, turnVars, inputs, subs, processVars, passedOver>>

StartToolCall(a) ==
    /\ Serving
    /\ lifecycle[a].kind = "running" /\ calls[lifecycle[a].turn] < MaxCalls
    /\ calls' = [calls EXCEPT ![lifecycle[a].turn] = @ + 1]
    /\ UNCHANGED <<stopped, actorVars, turns, inputVars, subs, processVars, passedOver>>

\* Fault: a call may end twice.
EndToolCallAgain(a) ==
    /\ Serving
    /\ lifecycle[a].kind = "running"
    /\ calls' = [calls EXCEPT ![lifecycle[a].turn] = @ - 1]
    /\ UNCHANGED <<stopped, actorVars, turns, inputVars, subs, processVars, passedOver>>

EndToolCall(a) ==
    /\ Serving
    /\ lifecycle[a].kind = "running" /\ calls[lifecycle[a].turn] > 0
    /\ calls' = [calls EXCEPT ![lifecycle[a].turn] = @ - 1]
    /\ UNCHANGED <<stopped, actorVars, turns, inputVars, subs, processVars, passedOver>>

FinishTurn(a, outcome) ==
    /\ Serving
    /\ lifecycle[a].kind = "running"
    /\ outcome = "completed" => calls[lifecycle[a].turn] = 0
    /\ turns' = [turns EXCEPT ![lifecycle[a].turn].status = outcome]
    /\ calls' = [calls EXCEPT ![lifecycle[a].turn] = 0]
    /\ lifecycle' = [lifecycle EXCEPT ![a] = Idle]
    /\ UNCHANGED <<stopped, held, creator, primary, stoppedPrimary, inputVars, subs,
                   processVars, passedOver>>

\* Faults: the turn goes on, or its calls stay open.
InterruptedNone(S, cause) == turns
CallsKept(S) == calls

\* turn.interrupted of the running turns of the actors in S, which also closes their calls.
Interrupted(S, cause) == [t \in TurnIds |->
    IF \E a \in S : lifecycle[a] = Running(t)
    THEN [turns[t] EXCEPT !.status = "interrupted", !.cause = cause]
    ELSE turns[t]]
CallsClosed(S) == [t \in TurnIds |-> IF \E a \in S : lifecycle[a] = Running(t) THEN 0 ELSE calls[t]]

\* By the actor itself or the owner; only the orderly shutdown gives a cause.
InterruptTurn(a, cause) ==
    /\ Serving
    /\ lifecycle[a].kind = "running"
    /\ cause = "server-stop" => phase = "stopping"
    /\ turns' = Interrupted({a}, cause)
    /\ calls' = CallsClosed({a})
    /\ lifecycle' = [lifecycle EXCEPT ![a] = Idle]
    /\ UNCHANGED <<stopped, held, creator, primary, stoppedPrimary, inputVars, subs,
                   processVars, passedOver>>

-----------------------------------------------------------------------------
(* Stopping and restarting actors *)

\* stopEventsOf: the running turn, the actor, its subscriptions and what they queued.
StopAll(S) ==
    LET ended == {s \in Subscriptions : subs[s].status = "active" /\ subs[s].subscriber \in S}
    IN  /\ turns' = Interrupted(S, "none")
        /\ calls' = CallsClosed(S)
        /\ lifecycle' = [a \in Executable |-> IF a \in S THEN Stopped ELSE lifecycle[a]]
        /\ primary' = IF primary \in S THEN None ELSE primary
        /\ stoppedPrimary' = IF primary \in S THEN primary ELSE stoppedPrimary
        /\ subs' = Removed(ended)
        /\ inputs' = Discarded(PendingOf(ended))
        /\ UNCHANGED <<stopped, held, creator, presented, processVars, passedOver>>

\* The actor and all of its active descendants, in one command.
StopActor(c, a) ==
    /\ Serving
    /\ MayStop(c, a) /\ Active(a)
    /\ StopAll({a} \cup DescendantsOf(a))

\* Exactly the named actors.
StopActors(c, S) ==
    /\ Serving
    /\ S # {} /\ \A a \in S : MayStop(c, a) /\ Active(a)
    /\ StopAll(S)

RestartActor(c, a) ==
    /\ Serving
    /\ MayStop(c, a) /\ lifecycle[a].kind = "stopped"
    /\ lifecycle' = [lifecycle EXCEPT ![a] = Idle]
    /\ held' = held \ {a}
    /\ IF stoppedPrimary = a /\ Has(c, "run.configure")
       THEN primary' = a /\ stoppedPrimary' = None
       ELSE UNCHANGED <<primary, stoppedPrimary>>
    /\ UNCHANGED <<stopped, creator, turnVars, inputVars, subs, processVars, passedOver>>

\* Stopping a run that is already stopped writes nothing.
StopRun ==
    /\ Serving /\ ~stopped
    /\ stopped' = TRUE
    /\ held' = held \cup ActiveActors
    /\ UNCHANGED <<lifecycle, creator, primary, stoppedPrimary, turnVars, inputVars, subs,
                   processVars, passedOver>>

-----------------------------------------------------------------------------
(* The process: orderly shutdown, crash, startup with restart recovery *)

\* An instance without startups leaves out the shutdowns as well.
Shutdown ==
    /\ Policies # {}
    /\ phase = "up" /\ phase' = "stopping"
    /\ UNCHANGED <<stopped, actorVars, turnVars, inputVars, subs, policy, passedOver>>

\* The process ends, by exit or by a crash, and a new one opens the journal.
Restart(p) ==
    /\ phase' = "recovering" /\ policy' = p
    /\ UNCHANGED <<stopped, actorVars, turnVars, inputVars, subs, passedOver>>

\* Faults: looks at the first turn, at a failed one, or at one that was handled.
FirstToRecover(a) == {t \in TurnsOf(a) :
    /\ Active(a)
    /\ \A u \in TurnsOf(a) : u >= t
    /\ turns[t].recovery = "none"
    /\ \/ turns[t].status = "running"
       \/ turns[t].status = "interrupted" /\ turns[t].cause = "server-stop"}
FailedToRecover(a) == {t \in TurnsOf(a) :
    /\ Active(a)
    /\ \A u \in TurnsOf(a) : u <= t
    /\ turns[t].recovery = "none"
    /\ \/ turns[t].status \in {"running", "failed"}
       \/ turns[t].status = "interrupted" /\ turns[t].cause = "server-stop"}
HandledToRecover(a) == {t \in TurnsOf(a) :
    /\ Active(a)
    /\ \A u \in TurnsOf(a) : u <= t
    /\ \/ turns[t].status = "running"
       \/ turns[t].status = "interrupted" /\ turns[t].cause = "server-stop"}

\* The turn that #recoverStoppedTurns looks at: the latest one of an actor that is not stopped.
ToRecover(a) == {t \in TurnsOf(a) :
    /\ Active(a)
    /\ \A u \in TurnsOf(a) : u <= t
    /\ turns[t].recovery = "none"
    /\ \/ turns[t].status = "running"
       \/ turns[t].status = "interrupted" /\ turns[t].cause = "server-stop"}

\* quick: less than restartGuardMs passed since the turn started.
RecoveryOutcome(a, t, quick) ==
    CASE policy = "unavailable" -> "unavailable"
      [] policy # "unavailable" /\ (stopped \/ a \in held) -> "stopped"
      [] policy = "disabled" /\ ~stopped /\ a \notin held -> "disabled"
      [] policy = "enabled" /\ ~stopped /\ a \notin held ->
            IF a \in Externals THEN "unsupported"
            ELSE IF quick /\ \E i \in ClaimedBy(t) : inputs[i].restartOf # NoTurn THEN "guarded"
            ELSE "continued"

\* Fault: the continuation repeats the starting input and forgets the steered ones.
ContinuationOfStart(a, t) ==
    [NewInput(a, None) EXCEPT !.restartOf = t, !.carries = {turns[t].input} \ presented]

\* A script handles its original input again; an agent is told to check its
\* state and gets the inputs that never reached its model.
Continuation(a, t) ==
    IF a \in Scripts
    THEN [NewInput(a, inputs[turns[t].input].sub) EXCEPT !.restartOf = t, !.carries = {turns[t].input}]
    ELSE [NewInput(a, None) EXCEPT !.restartOf = t, !.carries = ClaimedBy(t) \ presented]

Recovered(t, outcome) == [turns EXCEPT ![t] =
    [@ EXCEPT !.status = "interrupted", !.cause = "server-stop", !.recovery = outcome]]

RecoverTurn(a, t, quick) ==
    LET outcome == RecoveryOutcome(a, t, quick)
    IN  /\ phase = "recovering"
        /\ t \in ToRecover(a)
        /\ lifecycle' = [lifecycle EXCEPT ![a] = IF @ = Running(t) THEN Idle ELSE @]
        /\ turns' = Recovered(t, outcome)
        /\ calls' = [calls EXCEPT ![t] = 0]
        /\ IF outcome = "continued"
           THEN \E i \in InputIds : FreshInput(i) /\ inputs' = [inputs EXCEPT ![i] = Continuation(a, t)]
           ELSE UNCHANGED inputs
        /\ UNCHANGED <<stopped, held, creator, primary, stoppedPrimary, presented, subs,
                       processVars, passedOver>>

Unrecovered == {t \in TurnIds : turns[t].cause = "server-stop" /\ turns[t].recovery = "none"}

FinishRecovery ==
    /\ phase = "recovering"
    /\ \A a \in Executable : ToRecover(a) = {}
    /\ phase' = "up" /\ policy' = "none"
    /\ passedOver' = passedOver \cup Unrecovered
    /\ UNCHANGED <<stopped, actorVars, turnVars, inputVars, subs>>

-----------------------------------------------------------------------------
ActorCommand(c) ==
    \/ \E a \in Executable : SpawnAgent(c, a)
    \/ \E a \in Executable, i \in InputIds : SpawnAgentWithTask(c, a, i)
    \/ \E a \in Executable : CreateScriptActor(c, a)
    \/ \E a \in Selectable : SelectPrimaryActor(c, a)
    \/ \E a \in Executable, i \in InputIds : EnqueueActorInput(c, a, i)
    \/ \E a \in Executable, s \in Subscriptions : CreateSubscription(c, a, s)
    \/ \E s \in Subscriptions : RemoveSubscription(c, s)
    \/ \E a \in Executable : StopActor(c, a)
    \/ \E S \in SUBSET Executable : StopActors(c, S)
    \/ \E a \in Executable : RestartActor(c, a)

RunCommand ==
    \/ \E a \in Executable, i \in InputIds : EnqueueHumanInput(a, i)
    \/ \E a \in Executable, i \in InputIds : EnqueueAutomaticInput(a, i)
    \/ \E s \in Subscriptions, i \in InputIds : DeliverSubscription(s, i)
    \/ \E s \in Subscriptions : FailSubscription(s)
    \/ StopRun

TurnCommand(a) ==
    \/ \E i \in InputIds, t \in TurnIds : StartTurn(a, i, t)
    \/ \E i \in InputIds : SteerInputs(a, i)
    \/ \E i \in InputIds : PresentModelInput(a, i)
    \/ StartToolCall(a)
    \/ EndToolCall(a)
    \/ \E outcome \in {"completed", "failed"} : FinishTurn(a, outcome)
    \/ \E cause \in {"none", "server-stop"} : InterruptTurn(a, cause)

ProcessStep ==
    \/ Shutdown
    \/ \E p \in Policies : Restart(p)
    \/ \E a \in Executable, t \in TurnIds, quick \in BOOLEAN : RecoverTurn(a, t, quick)
    \/ FinishRecovery

Next ==
    \/ \E c \in Commanders : ActorCommand(c)
    \/ RunCommand
    \/ \E a \in Executable : TurnCommand(a)
    \/ ProcessStep

Spec == Init /\ [][Next]_vars
-----------------------------------------------------------------------------
(* Properties *)

\* The shape of the state: RunState of domain/model.ts for one run.
TypeOK ==
    /\ stopped \in BOOLEAN
    /\ held \subseteq Executable
    /\ lifecycle \in [Executable -> Lifecycle]
    /\ creator \in [Executable -> Executable \cup {Owner, None}]
    /\ primary \in Executable \cup {None}
    /\ stoppedPrimary \in Executable \cup {None}
    /\ turns \in [TurnIds -> Turn]
    /\ calls \in [TurnIds -> 0..MaxCalls]
    /\ inputs \in [InputIds -> Input]
    /\ presented \subseteq InputIds
    /\ subs \in [Subscriptions -> Subscription]
    /\ phase \in {"up", "stopping", "recovering"}
    /\ policy \in Policies \cup {"none"}
    /\ phase = "recovering" <=> policy # "none"
    /\ passedOver \subseteq TurnIds

\* An actor is in a turn exactly while that turn runs: at most one running turn
\* per actor, whoever ends the turn or stops the actor (projection.ts keeps the
\* two in different maps).
RunningTurnsMatch ==
    /\ \A a \in Executable : lifecycle[a].kind = "running" <=> lifecycle[a].turn # NoTurn
    /\ \A a \in Executable : lifecycle[a].kind = "running" =>
          turns[lifecycle[a].turn].status = "running" /\ turns[lifecycle[a].turn].actor = a
    /\ \A t \in TurnIds : turns[t].status = "running" =>
          turns[t].actor \in Executable /\ lifecycle[turns[t].actor] = Running(t)

\* Tool calls are open only in a running turn: the projection closes the open
\* calls of a turn that fails or is interrupted, by whatever command.
OpenCallsRun == \A t \in TurnIds : calls[t] > 0 => turns[t].status = "running"

\* Every input a turn claimed, as its start or by steering, is addressed to the
\* actor of that turn, and the input that started a turn is claimed by no other.
ClaimsMatchTurns ==
    /\ \A i \in InputIds : inputs[i].kind = "claimed" =>
          /\ inputs[i].turn \in TurnIds
          /\ turns[inputs[i].turn].status # "absent"
          /\ turns[inputs[i].turn].actor = inputs[i].actor
    /\ \A t \in TurnIds : turns[t].status # "absent" =>
          /\ turns[t].input \in InputIds
          /\ inputs[turns[t].input].kind = "claimed"
          /\ inputs[turns[t].input].turn = t

\* A stopped actor keeps nothing that could wake it or act for it: no active
\* subscription, not the place of the primary actor.
StoppedIsQuiet ==
    /\ \A s \in Subscriptions : subs[s].status = "active" =>
          subs[s].subscriber \in Executable /\ Active(subs[s].subscriber)
    /\ primary # None => Active(primary)

\* Nothing that a removed subscription delivered still waits; only a restart may
\* replay the input of a script's interrupted turn afterwards.
RemovedSubscriptionDrained ==
    \A i \in InputIds : inputs[i].kind = "pending" /\ inputs[i].sub # None =>
        subs[inputs[i].sub].status # "removed" \/ inputs[i].restartOf # NoTurn

\* What was stopped or removed leaves nothing behind that could wake or stand for an actor.
NothingLeftToWake == StoppedIsQuiet /\ RemovedSubscriptionDrained

\* A turn is continued at most once, only after a server stop ended it, and
\* exactly when its recorded recovery says so.
RestartsMatchRecoveries ==
    /\ \A i, j \in InputIds :
          inputs[i].restartOf = inputs[j].restartOf /\ inputs[i].restartOf # NoTurn => i = j
    /\ \A i \in InputIds : inputs[i].restartOf # NoTurn =>
          LET t == inputs[i].restartOf
          IN  /\ turns[t].recovery = "continued" /\ turns[t].actor = inputs[i].actor
              /\ turns[t].status = "interrupted" /\ turns[t].cause = "server-stop"
    /\ \A t \in TurnIds : turns[t].recovery = "continued" =>
          \E i \in InputIds : inputs[i].restartOf = t

\* Ids of inputs and turns that are still free carry no trace of a command.
Untouched ==
    /\ \A i \in InputIds : inputs[i].kind = "absent" => inputs[i] = AbsentInput
    /\ \A t \in TurnIds : turns[t].status = "absent" => turns[t] = AbsentTurn

\* Only a turn that a server stop ended has a recovery.
RecoveredTurnsEnded == \A t \in TurnIds : turns[t].recovery # "none" =>
    turns[t].status = "interrupted" /\ turns[t].cause = "server-stop"

\* The run fits together: turns with their actors, open calls with their turns,
\* claims with the turns that made them, continuations with recoveries
\* (projection.ts keeps each of these in a map of its own).
Parts == RunningTurnsMatch /\ OpenCallsRun /\ ClaimsMatchTurns /\ Untouched
            /\ RecoveredTurnsEnded /\ RestartsMatchRecoveries
KernelInv == TypeOK /\ Parts

\* No task is lost to a server stop: an input an agent's turn claimed and its
\* model never saw is in a turn that runs, ended by itself or by a person, is
\* still to be recovered, was given up with a recorded outcome, or is repeated
\* by the continuation.
ClaimedInputAccountedFor ==
    \A i \in InputIds : inputs[i].kind = "claimed" /\ inputs[i].actor \in Agents /\ i \notin presented =>
        LET t == inputs[i].turn
            a == inputs[i].actor
        IN  \/ turns[t].status # "interrupted"
            \/ turns[t].cause = "none"
            \/ turns[t].recovery \notin {"none", "continued"}
            \/ turns[t].recovery = "none" /\ (t \in passedOver \/ ~Active(a) \/ t \in ToRecover(a))
            \/ \E j \in InputIds : inputs[j].restartOf = t /\ i \in inputs[j].carries

ClaimedInputs == {i \in InputIds : inputs[i].kind = "claimed"}

\* No input is claimed from the marker run.stopped on until a human message
\* continues the run, whatever turns still end and whatever restarts.
NothingJoinsStoppedRun == [][stopped => ClaimedInputs' = ClaimedInputs]_vars

\* While a run is stopped every active actor is held, those created meanwhile too;
\* only restarting an actor explicitly takes the mark away.
StoppedRunHoldsActors == [][stopped' => \A a \in Executable :
    lifecycle'[a].kind \in {"idle", "running"} /\ a \notin held' =>
        lifecycle[a].kind = "stopped" \/ (stopped /\ Active(a) /\ a \notin held)]_vars

\* An input that was claimed or discarded stays so, and keeps its turn.
ConsumedOnce == [][\A i \in InputIds :
    inputs[i].kind \in {"claimed", "discarded"} => inputs'[i] = inputs[i]]_vars

\* A turn that ended never runs or ends again; its recovery is recorded once.
TurnEndsOnce == [][\A t \in TurnIds :
    /\ turns[t].status \notin {"absent", "running"} => turns'[t].status = turns[t].status
    /\ turns[t].recovery # "none" => turns'[t] = turns[t]]_vars

\* A held actor is released only by the human message that continues the run and
\* finds it primary, by a restart of it, or by a new input addressed to it in a run
\* that is not stopped; deliveries and whatever a stopped run queues leave it held.
ReleasedOnlyDirectly == [][\A a \in held \ held' :
    \/ lifecycle[a].kind = "stopped"
    \/ stopped /\ ~stopped' /\ a = primary
    \/ ~stopped' /\ \E i \in InputIds : inputs[i].kind = "absent" /\ inputs'[i] = NewInput(a, None)]_vars

\* A stopped run rests until a person goes on: it takes nothing up, holds its actors, and lets none go by the way
\* (stopRun, with every decision that could start or release an actor).
StoppedRunRests == NothingJoinsStoppedRun /\ StoppedRunHoldsActors /\ ReleasedOnlyDirectly

\* What has happened to an input or a turn is final, over any stops, recoveries and removals.
NothingTwice == ConsumedOnce /\ TurnEndsOnce

\* Stopping an actor leaves none of the actors it created, directly or through
\* others, active: the branch is never stopped halfway.
BranchStopsWhole == [][\A a \in ActiveActors :
    lifecycle'[a].kind = "stopped" /\ (\E c \in Commanders : StopActor(c, a)) =>
    \A b \in Executable : BelongsToBranch(b, a) => lifecycle'[b].kind \notin {"idle", "running"}]_vars

\* When the startup has recovered the stopped turns, no turn runs any more.
RecoveryLeavesNoTurnRunning == [][phase = "recovering" /\ phase' = "up" =>
    \A t \in TurnIds : turns'[t].status # "running"]_vars

=============================================================================
