--------------------------- MODULE RunKernel_proofs ---------------------------
(***************************************************************************)
(* Proofs about RunKernel for every set of actors and every bound: first   *)
(* the types, the order of turns and inputs and the parts of the kernel    *)
(* invariant; then how a step may change the inputs and the turns at all,  *)
(* and from that the action properties and what a server stop, a stopped   *)
(* actor and a removed subscription leave behind; last, by induction over  *)
(* the steps of its walk, that a stop reaches the whole branch.            *)
(***************************************************************************)
EXTENDS RunKernel, WellFoundedInduction, FiniteSetTheorems, TLAPS

-----------------------------------------------------------------------------
(* Type correctness *)

\* A new run has the types.
LEMMA InitTypeOK == Init => TypeOK
<1> SUFFICES ASSUME Init PROVE TypeOK
  OBVIOUS
<1> USE KernelAssumption DEF Init
<1>1. Absent \in Lifecycle
  BY DEF Absent, Lifecycle, Kinds, NoTurn
<1>2. AbsentTurn \in Turn
  BY DEF AbsentTurn, Turn, Outcomes, NoInput
<1>3. AbsentInput \in Input
  BY DEF AbsentInput, Input, NoTurn
<1>4. AbsentSubscription \in Subscription
  BY DEF AbsentSubscription, Subscription
<1>5. calls \in [TurnIds -> 0..MaxCalls]
  OBVIOUS
<1>6. QED
  BY <1>1, <1>2, <1>3, <1>4, <1>5 DEF TypeOK

\* The values the actions write are of the types the state is declared with.
LEMMA ValueTypes ==
    ASSUME TypeOK
    PROVE  /\ {Absent, Idle, Stopped} \subseteq Lifecycle
           /\ \A t \in TurnIds : Running(t) \in Lifecycle
           /\ \A a \in Executable, i \in InputIds : NewTurn(a, i) \in Turn
           /\ \A a \in Executable \cup {None}, s \in Subscriptions \cup {None} : NewInput(a, s) \in Input
           /\ \A S : Removed(S) \in [Subscriptions -> Subscription]
           /\ \A D : Discarded(D) \in [InputIds -> Input]
           /\ \A S : \A t \in TurnIds : Claimed(S, t) \in [InputIds -> Input]
           /\ \A S : \A cause \in {"none", "server-stop"} : Interrupted(S, cause) \in [TurnIds -> Turn]
           /\ \A S : CallsClosed(S) \in [TurnIds -> 0..MaxCalls]
<1>0. /\ turns \in [TurnIds -> Turn] /\ calls \in [TurnIds -> 0..MaxCalls]
      /\ inputs \in [InputIds -> Input] /\ subs \in [Subscriptions -> Subscription]
      /\ MaxCalls \in Nat
  BY KernelAssumption DEF TypeOK
<1>1. {Absent, Idle, Stopped} \subseteq Lifecycle
  BY DEF Absent, Idle, Stopped, NoTurn, Lifecycle, Kinds
<1>2. \A t \in TurnIds : Running(t) \in Lifecycle
  BY DEF Running, Lifecycle, Kinds
<1>3. \A a \in Executable, i \in InputIds : NewTurn(a, i) \in Turn
  BY DEF NewTurn, AbsentTurn, Turn
<1>4. \A a \in Executable \cup {None}, s \in Subscriptions \cup {None} : NewInput(a, s) \in Input
  BY DEF NewInput, AbsentInput, Input
<1>5. \A S : Removed(S) \in [Subscriptions -> Subscription]
  <2>1. \A x \in Subscription : [x EXCEPT !.status = "removed"] \in Subscription
    BY DEF Subscription
  <2>2. QED
    BY <1>0, <2>1 DEF Removed
<1>6. \A D : Discarded(D) \in [InputIds -> Input]
  <2>1. \A x \in Input : [x EXCEPT !.kind = "discarded"] \in Input
    BY DEF Input
  <2>2. QED
    BY <1>0, <2>1 DEF Discarded
<1>7. \A S : \A t \in TurnIds : Claimed(S, t) \in [InputIds -> Input]
  <2>1. \A x \in Input, t \in TurnIds : [x EXCEPT !.kind = "claimed", !.turn = t] \in Input
    BY DEF Input
  <2>2. QED
    BY <1>0, <2>1 DEF Claimed
<1>8. \A S : \A cause \in {"none", "server-stop"} : Interrupted(S, cause) \in [TurnIds -> Turn]
  <2>1. \A x \in Turn, cause \in {"none", "server-stop"} :
            [x EXCEPT !.status = "interrupted", !.cause = cause] \in Turn
    BY DEF Turn
  <2>2. QED
    BY <1>0, <2>1 DEF Interrupted
<1>9. \A S : CallsClosed(S) \in [TurnIds -> 0..MaxCalls]
  BY <1>0 DEF CallsClosed
<1>10. QED
  BY <1>1, <1>2, <1>3, <1>4, <1>5, <1>6, <1>7, <1>8, <1>9

\* Every action keeps the types.
LEMMA StepTypeOK == TypeOK /\ RunningTurnsMatch /\ ClaimsMatchTurns /\ [Next]_vars => TypeOK'
<1> SUFFICES ASSUME TypeOK, RunningTurnsMatch, ClaimsMatchTurns, [Next]_vars PROVE TypeOK'
  OBVIOUS
<1> USE DEF TypeOK, actorVars, turnVars, inputVars, processVars
<1>1. /\ {Absent, Idle, Stopped} \subseteq Lifecycle
      /\ \A t \in TurnIds : Running(t) \in Lifecycle
  BY ValueTypes
<1>2. \A a \in Executable \cup {None}, s \in Subscriptions \cup {None} : NewInput(a, s) \in Input
  BY ValueTypes
<1>3. \A a \in Executable : lifecycle[a].kind = "running" => lifecycle[a].turn \in TurnIds
  BY DEF RunningTurnsMatch, Lifecycle
<1>4. CASE UNCHANGED vars
  BY <1>4 DEF vars
<1>5. ASSUME NEW c \in Commanders, ActorCommand(c) PROVE TypeOK'
  <2>1. c \in Executable \cup {Owner}
    BY DEF Commanders
  <2>2. ASSUME NEW a \in Executable, SpawnAgent(c, a) PROVE TypeOK'
    BY <1>1, <2>1, <2>2 DEF SpawnAgent, Create
  <2>3. ASSUME NEW a \in Executable, NEW i \in InputIds, SpawnAgentWithTask(c, a, i) PROVE TypeOK'
    BY <1>1, <1>2, <2>1, <2>3 DEF SpawnAgentWithTask, Create
  <2>4. ASSUME NEW a \in Executable, CreateScriptActor(c, a) PROVE TypeOK'
    BY <1>1, <2>1, <2>4 DEF CreateScriptActor, Create
  <2>5. ASSUME NEW a \in Selectable, SelectPrimaryActor(c, a) PROVE TypeOK'
    BY <2>5, KernelAssumption DEF SelectPrimaryActor
  <2>6. ASSUME NEW a \in Executable, NEW i \in InputIds, EnqueueActorInput(c, a, i) PROVE TypeOK'
    BY <1>2, <2>6 DEF EnqueueActorInput, Enqueue
  <2>7. ASSUME NEW a \in Executable, NEW s \in Subscriptions, CreateSubscription(c, a, s) PROVE TypeOK'
    <3>1. [status |-> "active", subscriber |-> a, createdBy |-> c] \in Subscription
      BY <2>1 DEF Subscription
    <3>2. QED
      BY <2>7, <3>1 DEF CreateSubscription
  <2>8. ASSUME NEW s \in Subscriptions, RemoveSubscription(c, s) PROVE TypeOK'
    BY <2>8, ValueTypes DEF RemoveSubscription
  <2>9. ASSUME NEW S \in SUBSET Executable, StopAll(S) PROVE TypeOK'
    <3>1. /\ turns' \in [TurnIds -> Turn] /\ calls' \in [TurnIds -> 0..MaxCalls]
          /\ subs' \in [Subscriptions -> Subscription] /\ inputs' \in [InputIds -> Input]
      BY <2>9, ValueTypes DEF StopAll
    <3>2. lifecycle' \in [Executable -> Lifecycle]
      BY <1>1, <2>9 DEF StopAll
    <3>3. QED
      BY <2>9, <3>1, <3>2 DEF StopAll
  <2>10. ASSUME NEW a \in Executable, StopActor(c, a) PROVE TypeOK'
    <3>1. {a} \cup DescendantsOf(a) \subseteq Executable
      BY DEF DescendantsOf, ActiveActors
    <3>2. QED
      BY <2>9, <2>10, <3>1 DEF StopActor
  <2>11. ASSUME NEW S \in SUBSET Executable, StopActors(c, S) PROVE TypeOK'
    BY <2>9, <2>11 DEF StopActors
  <2>12. ASSUME NEW a \in Executable, RestartActor(c, a) PROVE TypeOK'
    BY <1>1, <2>12 DEF RestartActor
  <2>13. QED
    BY <1>5, <2>2, <2>3, <2>4, <2>5, <2>6, <2>7, <2>8, <2>10, <2>11, <2>12 DEF ActorCommand
<1>6. CASE RunCommand
  <2>1. ASSUME NEW a \in Executable, NEW i \in InputIds, EnqueueHumanInput(a, i) PROVE TypeOK'
    BY <1>2, <2>1 DEF EnqueueHumanInput, Enqueue
  <2>2. ASSUME NEW a \in Executable, NEW i \in InputIds, EnqueueAutomaticInput(a, i) PROVE TypeOK'
    BY <1>2, <2>2 DEF EnqueueAutomaticInput, Enqueue
  <2>3. ASSUME NEW s \in Subscriptions, NEW i \in InputIds, DeliverSubscription(s, i) PROVE TypeOK'
    <3>1. NewInput(subs[s].subscriber, s) \in Input
      BY <1>2 DEF Subscription
    <3>2. QED
      BY <2>3, <3>1 DEF DeliverSubscription, Enqueue
  <2>4. ASSUME NEW s \in Subscriptions, FailSubscription(s) PROVE TypeOK'
    <3>1. \A x \in Subscription : [x EXCEPT !.status = "failed"] \in Subscription
      BY DEF Subscription
    <3>2. QED
      BY <2>4, <3>1 DEF FailSubscription
  <2>5. CASE StopRun
    BY <2>5 DEF StopRun, ActiveActors
  <2>6. QED
    BY <1>6, <2>1, <2>2, <2>3, <2>4, <2>5 DEF RunCommand
<1>7. ASSUME NEW a \in Executable, TurnCommand(a) PROVE TypeOK'
  <2>1. ASSUME NEW i \in InputIds, NEW t \in TurnIds, StartTurn(a, i, t) PROVE TypeOK'
    <3>1. lifecycle' \in [Executable -> Lifecycle]
      BY <1>1, <2>1 DEF StartTurn
    <3>2. turns' \in [TurnIds -> Turn] /\ inputs' \in [InputIds -> Input]
      BY <2>1, ValueTypes DEF StartTurn
    <3>3. QED
      BY <2>1, <3>1, <3>2 DEF StartTurn
  <2>2. ASSUME NEW i \in InputIds, SteerInputs(a, i) PROVE TypeOK'
    <3>1. \A x \in Input, t \in TurnIds \cup {NoTurn} :
              [x EXCEPT !.kind = "claimed", !.turn = t] \in Input
      BY DEF Input
    <3>2. lifecycle[a].turn \in TurnIds \cup {NoTurn}
      BY DEF Lifecycle
    <3>3. inputs' \in [InputIds -> Input]
      BY <2>2, <3>1, <3>2 DEF SteerInputs, Claimed
    <3>4. QED
      BY <2>2, <3>3 DEF SteerInputs
  <2>3. ASSUME NEW i \in InputIds, PresentModelInput(a, i) PROVE TypeOK'
    BY <2>3 DEF PresentModelInput
  <2>4. CASE StartToolCall(a)
    <3>1. lifecycle[a].turn \in TurnIds
      BY <1>3, <2>4 DEF StartToolCall
    <3>2. QED
      BY <2>4, <3>1, KernelAssumption DEF StartToolCall
  <2>5. CASE EndToolCall(a)
    <3>1. lifecycle[a].turn \in TurnIds
      BY <1>3, <2>5 DEF EndToolCall
    <3>2. QED
      BY <2>5, <3>1, KernelAssumption DEF EndToolCall
  <2>6. ASSUME NEW outcome \in {"completed", "failed"}, FinishTurn(a, outcome) PROVE TypeOK'
    <3>1. \A x \in Turn : [x EXCEPT !.status = outcome] \in Turn
      BY DEF Turn
    <3>2. turns' \in [TurnIds -> Turn]
      BY <2>6, <3>1 DEF FinishTurn
    <3>3. lifecycle' \in [Executable -> Lifecycle]
      BY <1>1, <2>6 DEF FinishTurn
    <3>4. calls' \in [TurnIds -> 0..MaxCalls]
      <4>1. 0 \in 0..MaxCalls
        BY KernelAssumption
      <4>2. QED
        BY <2>6, <4>1 DEF FinishTurn
    <3>5. QED
      BY <2>6, <3>2, <3>3, <3>4 DEF FinishTurn
  <2>7. ASSUME NEW cause \in {"none", "server-stop"}, InterruptTurn(a, cause) PROVE TypeOK'
    <3>1. turns' \in [TurnIds -> Turn] /\ calls' \in [TurnIds -> 0..MaxCalls]
      BY <2>7, ValueTypes DEF InterruptTurn
    <3>2. lifecycle' \in [Executable -> Lifecycle]
      BY <1>1, <2>7 DEF InterruptTurn
    <3>3. QED
      BY <2>7, <3>1, <3>2 DEF InterruptTurn
  <2>8. QED
    BY <1>7, <2>1, <2>2, <2>3, <2>4, <2>5, <2>6, <2>7 DEF TurnCommand
<1>8. CASE ProcessStep
  <2>1. CASE Shutdown
    BY <2>1 DEF Shutdown
  <2>2. ASSUME NEW p \in Policies, Restart(p) PROVE TypeOK'
    BY <2>2, KernelAssumption DEF Restart
  <2>3. ASSUME NEW a \in Executable, NEW t \in TurnIds, NEW quick \in BOOLEAN, RecoverTurn(a, t, quick)
        PROVE  TypeOK'
    <3>1. RecoveryOutcome(a, t, quick) \in Outcomes
      BY <2>3, KernelAssumption DEF RecoverTurn, RecoveryOutcome, Outcomes
    <3>2. turns' \in [TurnIds -> Turn]
      <4>1. \A x \in Turn, outcome \in Outcomes :
                [x EXCEPT !.status = "interrupted", !.cause = "server-stop", !.recovery = outcome] \in Turn
        BY DEF Turn
      <4>2. QED
        BY <2>3, <3>1, <4>1 DEF RecoverTurn, Recovered
    <3>3. Continuation(a, t) \in Input
      <4>1. \A x \in Input, C \in SUBSET InputIds :
                [x EXCEPT !.restartOf = t, !.carries = C] \in Input
        BY DEF Input
      <4>2. turns[t].input \in InputIds
        BY <2>3 DEF RecoverTurn, ToRecover, TurnsOf, ClaimsMatchTurns
      <4>3. inputs[turns[t].input].sub \in Subscriptions \cup {None}
        BY <4>2 DEF Input
      <4>4. NewInput(a, inputs[turns[t].input].sub) \in Input /\ NewInput(a, None) \in Input
        BY <1>2, <4>3
      <4>5. {turns[t].input} \in SUBSET InputIds /\ ClaimedBy(t) \ presented \in SUBSET InputIds
        BY <4>2 DEF ClaimedBy
      <4>6. QED
        BY <4>1, <4>4, <4>5 DEF Continuation
    <3>4. inputs' \in [InputIds -> Input]
      BY <2>3, <3>3 DEF RecoverTurn
    <3>5. lifecycle' \in [Executable -> Lifecycle] /\ calls' \in [TurnIds -> 0..MaxCalls]
      BY <1>1, <2>3, KernelAssumption DEF RecoverTurn
    <3>6. QED
      BY <2>3, <3>2, <3>4, <3>5 DEF RecoverTurn
  <2>4. CASE FinishRecovery
    BY <2>4 DEF FinishRecovery, Unrecovered
  <2>5. QED
    BY <1>8, <2>1, <2>2, <2>3, <2>4 DEF ProcessStep
<1>9. QED
  BY <1>4, <1>5, <1>6, <1>7, <1>8 DEF Next

-----------------------------------------------------------------------------
(* The inductive invariant.  The run and its turns and inputs fit together: *)
(* KernelInv of RunKernel.                                                  *)

core == <<lifecycle, turns, calls, inputs>>

\* A new run has no turns and no inputs to fit together.
LEMMA InitParts == Init => Parts
  BY KernelAssumption DEF Init, Parts, RunningTurnsMatch, OpenCallsRun, ClaimsMatchTurns, Untouched,
     RecoveredTurnsEnded, RestartsMatchRecoveries, AbsentInput, AbsentTurn, Absent, NoTurn

\* The parts speak of the lifecycles, turns, calls and inputs only.
LEMMA FrameParts == Parts /\ UNCHANGED core => Parts'
  BY DEF core, Parts, RunningTurnsMatch, OpenCallsRun, ClaimsMatchTurns, Untouched,
     RecoveredTurnsEnded, RestartsMatchRecoveries

\* A new input that waits changes nothing about the turns.
LEMMA EnqueueParts ==
    ASSUME KernelInv, NEW i \in InputIds, FreshInput(i), NEW a, NEW s,
           inputs' = [inputs EXCEPT ![i] = NewInput(a, s)], UNCHANGED <<turns, calls>>
    PROVE  OpenCallsRun' /\ ClaimsMatchTurns' /\ Untouched' /\ RecoveredTurnsEnded'
             /\ RestartsMatchRecoveries'
<1> USE DEF KernelInv, Parts, TypeOK, FreshInput
<1>1. OpenCallsRun' /\ RecoveredTurnsEnded'
  BY DEF OpenCallsRun, RecoveredTurnsEnded
<1>2. NewInput(a, s).kind = "pending" /\ NewInput(a, s).restartOf = NoTurn
  BY DEF NewInput, AbsentInput
<1>3. inputs[i].restartOf = NoTurn
  BY DEF Untouched, AbsentInput
<1>4. ClaimsMatchTurns'
  BY <1>2 DEF ClaimsMatchTurns
<1>5. Untouched'
  BY <1>2 DEF Untouched
<1>6. RestartsMatchRecoveries'
  <2>1. \A j \in InputIds : inputs'[j].restartOf = inputs[j].restartOf
    BY <1>2, <1>3
  <2>2. \A j \in InputIds : inputs'[j].restartOf # NoTurn => inputs'[j].actor = inputs[j].actor
    BY <1>2
  <2>3. QED
    BY <2>1, <2>2 DEF RestartsMatchRecoveries
<1>7. QED
  BY <1>1, <1>4, <1>5, <1>6

\* Discarding inputs that wait changes nothing about the turns.
LEMMA DiscardParts ==
    ASSUME KernelInv, NEW S,
           inputs' = Discarded(PendingOf(S)),
           turns' \in [TurnIds -> Turn], 
           \A t \in TurnIds : turns'[t].status = "absent" <=> turns[t].status = "absent",
           \A t \in TurnIds : turns'[t].actor = turns[t].actor /\ turns'[t].input = turns[t].input
    PROVE  ClaimsMatchTurns'
<1> USE DEF KernelInv, Parts, TypeOK
<1>1. \A i \in InputIds : inputs[i].kind # "pending" => inputs'[i] = inputs[i]
  BY DEF Discarded, PendingOf
<1>2. \A i \in InputIds : inputs[i].kind = "pending" => inputs'[i].kind # "claimed"
  BY DEF Discarded, PendingOf, Input
<1>3. QED
  BY <1>1, <1>2 DEF ClaimsMatchTurns

\* Ending the turns of the actors in S, whatever becomes of them.
LEMMA EndTurnsParts ==
    ASSUME KernelInv, NEW S \in SUBSET Executable, NEW cause \in {"none", "server-stop"},
           NEW after \in {Idle, Stopped},
           lifecycle' = [a \in Executable |-> IF a \in S THEN after ELSE lifecycle[a]],
           turns' = Interrupted(S, cause), calls' = CallsClosed(S)
    PROVE  /\ RunningTurnsMatch' /\ OpenCallsRun' /\ RecoveredTurnsEnded'
           /\ inputs' = inputs => ClaimsMatchTurns' /\ Untouched' /\ RestartsMatchRecoveries'
           /\ \A Q : inputs' = Discarded(PendingOf(Q)) =>
                 ClaimsMatchTurns' /\ Untouched' /\ RestartsMatchRecoveries'
<1> USE DEF KernelInv, Parts, TypeOK
<1>1. /\ turns' \in [TurnIds -> Turn]
      /\ \A t \in TurnIds : turns'[t].actor = turns[t].actor /\ turns'[t].input = turns[t].input
                               /\ turns'[t].recovery = turns[t].recovery
  <2>1. turns' \in [TurnIds -> Turn]
    BY ValueTypes
  <2>2. \A x \in Turn : LET y == [x EXCEPT !.status = "interrupted", !.cause = cause]
                        IN y.actor = x.actor /\ y.input = x.input /\ y.recovery = x.recovery
    BY DEF Turn
  <2>3. QED
    BY <2>1, <2>2 DEF Interrupted
<1>2. \A t \in TurnIds : IF \E a \in S : lifecycle[a] = Running(t)
                         THEN turns[t].status = "running" /\ turns'[t].status = "interrupted"
                         ELSE turns'[t] = turns[t]
  <2>1. \A x \in Turn : [x EXCEPT !.status = "interrupted", !.cause = cause].status = "interrupted"
    BY DEF Turn
  <2>2. \A a \in S, t \in TurnIds : lifecycle[a] = Running(t) => turns[t].status = "running"
    BY DEF RunningTurnsMatch, Running
  <2>3. QED
    BY <2>1, <2>2 DEF Interrupted
<1>3. \A t \in TurnIds : turns'[t].status = "absent" <=> turns[t].status = "absent"
  BY <1>2
<1>4. RunningTurnsMatch'
  <2>1. \A a \in Executable : lifecycle'[a].kind = "running" =>
            a \notin S /\ lifecycle'[a] = lifecycle[a]
    BY DEF Idle, Stopped
  <2>2. \A a \in Executable : lifecycle'[a].kind = "running" <=> lifecycle'[a].turn # NoTurn
    BY <2>1 DEF RunningTurnsMatch, Idle, Stopped
  <2>3. ASSUME NEW a \in Executable, lifecycle'[a].kind = "running"
        PROVE  turns'[lifecycle'[a].turn].status = "running" /\ turns'[lifecycle'[a].turn].actor = a
    <3>1. a \notin S /\ lifecycle'[a] = lifecycle[a] /\ lifecycle[a].turn \in TurnIds
      BY <2>1, <2>3 DEF RunningTurnsMatch, Lifecycle
    <3>2. ~ \E b \in S : lifecycle[b] = Running(lifecycle[a].turn)
      BY <2>3, <3>1 DEF RunningTurnsMatch, Running
    <3>3. QED
      BY <1>2, <2>3, <3>1, <3>2 DEF RunningTurnsMatch
  <2>4. ASSUME NEW t \in TurnIds, turns'[t].status = "running"
        PROVE  turns'[t].actor \in Executable /\ lifecycle'[turns'[t].actor] = Running(t)
    <3>1. turns'[t] = turns[t] /\ ~ \E a \in S : lifecycle[a] = Running(t)
      BY <1>2, <2>4
    <3>2. turns[t].actor \in Executable /\ lifecycle[turns[t].actor] = Running(t)
      BY <2>4, <3>1 DEF RunningTurnsMatch
    <3>3. QED
      BY <3>1, <3>2
  <2>5. QED
    BY <2>2, <2>3, <2>4 DEF RunningTurnsMatch
<1>5. OpenCallsRun'
  BY <1>2 DEF OpenCallsRun, CallsClosed
<1>6. RecoveredTurnsEnded'
  BY <1>1, <1>2 DEF RecoveredTurnsEnded
<1>7. \A t \in TurnIds : turns[t].recovery # "none" => turns'[t] = turns[t]
  BY <1>2 DEF RecoveredTurnsEnded
<1>8. ASSUME inputs' = inputs PROVE ClaimsMatchTurns' /\ Untouched' /\ RestartsMatchRecoveries'
  <2>1. ClaimsMatchTurns'
    BY <1>1, <1>3, <1>8 DEF ClaimsMatchTurns
  <2>2. Untouched'
    BY <1>2, <1>8 DEF Untouched
  <2>3. RestartsMatchRecoveries'
    BY <1>1, <1>7, <1>8 DEF RestartsMatchRecoveries, Input
  <2>4. QED
    BY <2>1, <2>2, <2>3
<1>9. ASSUME NEW Q, inputs' = Discarded(PendingOf(Q))
      PROVE  ClaimsMatchTurns' /\ Untouched' /\ RestartsMatchRecoveries'
  <2>1. ClaimsMatchTurns'
    BY <1>1, <1>3, <1>9, DiscardParts
  <2>2. \A i \in InputIds : /\ inputs'[i].restartOf = inputs[i].restartOf
                            /\ inputs'[i].actor = inputs[i].actor
                            /\ inputs'[i].kind = "absent" => inputs'[i] = inputs[i]
    BY <1>9 DEF Discarded, Input
  <2>3. Untouched'
    BY <1>2, <2>2 DEF Untouched
  <2>4. RestartsMatchRecoveries'
    BY <1>1, <1>7, <2>2 DEF RestartsMatchRecoveries, Input
  <2>5. QED
    BY <2>1, <2>3, <2>4
<1>10. QED
  BY <1>4, <1>5, <1>6, <1>8, <1>9

\* Claiming inputs of the actor whose turn runs, at its start or by steering.
LEMMA ClaimParts ==
    ASSUME KernelInv, NEW t \in TurnIds, turns[t].status = "running",
           NEW S \in SUBSET Pending(turns[t].actor),
           inputs' = Claimed(S, t), UNCHANGED turns
    PROVE  ClaimsMatchTurns' /\ Untouched' /\ RestartsMatchRecoveries'
<1> USE DEF KernelInv, Parts, TypeOK
<1>1. \A i \in InputIds : /\ inputs'[i].restartOf = inputs[i].restartOf
                          /\ inputs'[i].actor = inputs[i].actor
                          /\ inputs'[i].kind = "absent" => inputs'[i] = inputs[i]
  <2>1. \A x \in Input : LET y == [x EXCEPT !.kind = "claimed", !.turn = t]
                         IN y.restartOf = x.restartOf /\ y.actor = x.actor /\ y.kind = "claimed"
    BY DEF Input
  <2>2. QED
    BY <2>1 DEF Claimed
<1>2. ClaimsMatchTurns'
  <2>1. \A i \in InputIds : i \in S => inputs[i].kind = "pending" /\ inputs'[i].kind = "claimed"
                                         /\ inputs'[i].turn = t /\ inputs[i].actor = turns[t].actor
    BY DEF Claimed, Pending, Input
  <2>2. \A i \in InputIds : i \notin S => inputs'[i] = inputs[i]
    BY DEF Claimed
  <2>3. QED
    BY <1>1, <2>1, <2>2 DEF ClaimsMatchTurns
<1>3. Untouched'
  BY <1>1 DEF Untouched
<1>4. RestartsMatchRecoveries'
  BY <1>1 DEF RestartsMatchRecoveries
<1>5. QED
  BY <1>2, <1>3, <1>4

\* An actor that neither runs nor is created running takes part in no turn.
LEMMA IdleParts ==
    ASSUME KernelInv, NEW a \in Executable, lifecycle[a].kind # "running",
           lifecycle' = [lifecycle EXCEPT ![a] = Idle], UNCHANGED turns
    PROVE  RunningTurnsMatch'
<1> USE DEF KernelInv, Parts, TypeOK
<1>1. \A t \in TurnIds : lifecycle[a] # Running(t)
  BY DEF Running
<1>2. QED
  BY <1>1 DEF RunningTurnsMatch, Idle

\* Every command, crash and startup keeps the parts.
LEMMA StepParts == KernelInv /\ [Next]_vars => Parts'
<1> SUFFICES ASSUME KernelInv, [Next]_vars PROVE Parts'
  OBVIOUS
<1> USE DEF turnVars, inputVars, actorVars
<1>1. ASSUME UNCHANGED core PROVE Parts'
  BY <1>1, FrameParts DEF KernelInv
<1>2. CASE UNCHANGED vars
  BY <1>1, <1>2 DEF vars, core
<1>3. ASSUME NEW i \in InputIds, NEW a \in Executable \cup {None}, NEW s, Enqueue(i, a, s) PROVE Parts'
  <2>1. RunningTurnsMatch'
    BY <1>3 DEF Enqueue, KernelInv, Parts, RunningTurnsMatch
  <2>2. QED
    BY <1>3, <2>1, EnqueueParts DEF Enqueue, Parts
<1>4. ASSUME NEW c \in Commanders, ActorCommand(c) PROVE Parts'
  <2>1. ASSUME NEW a \in Executable, Create(c, a),
               inputs' = inputs \/ \E i \in InputIds : FreshInput(i) /\ inputs' = [inputs EXCEPT ![i] = NewInput(a, None)]
        PROVE  Parts'
    <3>1. RunningTurnsMatch'
      BY <2>1, IdleParts DEF Create
    <3>2. CASE inputs' = inputs
      BY <2>1, <3>1, <3>2 DEF Create, KernelInv, Parts, OpenCallsRun, ClaimsMatchTurns, Untouched,
         RecoveredTurnsEnded, RestartsMatchRecoveries
    <3>3. ASSUME NEW i \in InputIds, FreshInput(i), inputs' = [inputs EXCEPT ![i] = NewInput(a, None)]
          PROVE  Parts'
      BY <2>1, <3>1, <3>3, EnqueueParts DEF Create, Parts
    <3>4. QED
      BY <2>1, <3>2, <3>3
  <2>2. ASSUME NEW a \in Executable, SpawnAgent(c, a) PROVE Parts'
    BY <2>1, <2>2 DEF SpawnAgent
  <2>3. ASSUME NEW a \in Executable, NEW i \in InputIds, SpawnAgentWithTask(c, a, i) PROVE Parts'
    BY <2>1, <2>3 DEF SpawnAgentWithTask
  <2>4. ASSUME NEW a \in Executable, CreateScriptActor(c, a) PROVE Parts'
    BY <2>1, <2>4 DEF CreateScriptActor
  <2>5. ASSUME NEW a \in Selectable, SelectPrimaryActor(c, a) PROVE Parts'
    BY <1>1, <2>5 DEF SelectPrimaryActor, core
  <2>6. ASSUME NEW a \in Executable, NEW i \in InputIds, EnqueueActorInput(c, a, i) PROVE Parts'
    BY <1>3, <2>6 DEF EnqueueActorInput
  <2>7. ASSUME NEW a \in Executable, NEW s \in Subscriptions, CreateSubscription(c, a, s) PROVE Parts'
    BY <1>1, <2>7 DEF CreateSubscription, core
  <2>8. ASSUME NEW s \in Subscriptions, RemoveSubscription(c, s) PROVE Parts'
    <3>1. RunningTurnsMatch' /\ OpenCallsRun' /\ RecoveredTurnsEnded'
      BY <2>8 DEF RemoveSubscription, KernelInv, Parts, RunningTurnsMatch, OpenCallsRun, RecoveredTurnsEnded
    <3>2. ClaimsMatchTurns'
      BY <2>8, DiscardParts DEF RemoveSubscription, KernelInv, TypeOK
    <3>3. \A i \in InputIds : /\ inputs'[i].restartOf = inputs[i].restartOf
                              /\ inputs'[i].actor = inputs[i].actor
                              /\ inputs'[i].kind = "absent" => inputs'[i] = inputs[i]
      BY <2>8 DEF RemoveSubscription, Discarded, Input, KernelInv, TypeOK
    <3>4. Untouched' /\ RestartsMatchRecoveries'
      <4>1. turns' = turns
        BY <2>8 DEF RemoveSubscription
      <4>2. Untouched'
        BY <3>3, <4>1 DEF KernelInv, Parts, Untouched
      <4>3. RestartsMatchRecoveries'
        BY <3>3, <4>1 DEF KernelInv, Parts, RestartsMatchRecoveries
      <4>4. QED
        BY <4>2, <4>3
    <3>5. QED
      BY <3>1, <3>2, <3>4 DEF Parts
  <2>9. ASSUME NEW S \in SUBSET Executable, StopAll(S) PROVE Parts'
    <3>1. Stopped \in {Idle, Stopped}
      OBVIOUS
    <3>2. QED
      BY <2>9, <3>1, EndTurnsParts DEF StopAll, Parts
  <2>10. ASSUME NEW a \in Executable, StopActor(c, a) PROVE Parts'
    <3>1. {a} \cup DescendantsOf(a) \subseteq Executable
      BY DEF DescendantsOf, ActiveActors
    <3>2. QED
      BY <2>9, <2>10, <3>1 DEF StopActor
  <2>11. ASSUME NEW S \in SUBSET Executable, StopActors(c, S) PROVE Parts'
    BY <2>9, <2>11 DEF StopActors
  <2>12. ASSUME NEW a \in Executable, RestartActor(c, a) PROVE Parts'
    <3>1. RunningTurnsMatch'
      BY <2>12, IdleParts DEF RestartActor
    <3>2. QED
      BY <2>12, <3>1 DEF RestartActor, KernelInv, Parts, OpenCallsRun, ClaimsMatchTurns, Untouched,
         RecoveredTurnsEnded, RestartsMatchRecoveries
  <2>13. QED
    BY <1>4, <2>2, <2>3, <2>4, <2>5, <2>6, <2>7, <2>8, <2>10, <2>11, <2>12 DEF ActorCommand
<1>5. CASE RunCommand
  <2>1. ASSUME NEW a \in Executable, NEW i \in InputIds, EnqueueHumanInput(a, i) PROVE Parts'
    BY <1>3, <2>1 DEF EnqueueHumanInput
  <2>2. ASSUME NEW a \in Executable, NEW i \in InputIds, EnqueueAutomaticInput(a, i) PROVE Parts'
    BY <1>3, <2>2 DEF EnqueueAutomaticInput
  <2>3. ASSUME NEW s \in Subscriptions, NEW i \in InputIds, DeliverSubscription(s, i) PROVE Parts'
    <3>1. subs[s].subscriber \in Executable \cup {None}
      BY DEF KernelInv, TypeOK, Subscription
    <3>2. QED
      BY <1>3, <2>3, <3>1 DEF DeliverSubscription
  <2>4. ASSUME NEW s \in Subscriptions, FailSubscription(s) PROVE Parts'
    BY <1>1, <2>4 DEF FailSubscription, core
  <2>5. CASE StopRun
    BY <1>1, <2>5 DEF StopRun, core
  <2>6. QED
    BY <1>5, <2>1, <2>2, <2>3, <2>4, <2>5 DEF RunCommand
<1>6. ASSUME NEW a \in Executable, TurnCommand(a) PROVE Parts'
  <2> USE DEF KernelInv, Parts, TypeOK
  <2>1. ASSUME NEW i \in InputIds, NEW t \in TurnIds, StartTurn(a, i, t) PROVE Parts'
    <3>1. /\ lifecycle[a].kind = "idle" /\ inputs[i].kind = "pending" /\ inputs[i].actor = a
          /\ turns[t] = AbsentTurn /\ turns[t].status = "absent" /\ turns[t].recovery = "none"
      BY <2>1 DEF StartTurn, Pending, FreshTurn, Untouched, AbsentTurn
    <3>2. /\ turns'[t].status = "running" /\ turns'[t].actor = a /\ turns'[t].input = i
          /\ turns'[t].recovery = "none"
          /\ \A u \in TurnIds : u # t => turns'[u] = turns[u]
      BY <2>1 DEF StartTurn, NewTurn, AbsentTurn
    <3>3. /\ lifecycle'[a] = Running(t)
          /\ \A b \in Executable : b # a => lifecycle'[b] = lifecycle[b]
      BY <2>1 DEF StartTurn
    <3>4. RunningTurnsMatch'
      <4>1. t # NoTurn /\ Running(t).kind = "running" /\ Running(t).turn = t
        BY DEF Running, TurnIds, NoTurn
      <4>2. \A b \in Executable : lifecycle[b].kind = "running" => lifecycle[b].turn # t
        BY <3>1 DEF RunningTurnsMatch
      <4>3. \A b \in Executable : lifecycle'[b].kind = "running" =>
                turns'[lifecycle'[b].turn].status = "running" /\ turns'[lifecycle'[b].turn].actor = b
        BY <3>2, <3>3, <4>1, <4>2 DEF RunningTurnsMatch, Lifecycle
      <4>4. \A b \in Executable : lifecycle'[b].kind = "running" <=> lifecycle'[b].turn # NoTurn
        BY <3>3, <4>1 DEF RunningTurnsMatch
      <4>5. ASSUME NEW u \in TurnIds, turns'[u].status = "running"
            PROVE  turns'[u].actor \in Executable /\ lifecycle'[turns'[u].actor] = Running(u)
        <5>1. CASE u = t
          BY <3>2, <3>3, <5>1
        <5>2. CASE u # t
          <6>1. turns'[u] = turns[u] /\ turns[u].actor \in Executable
                  /\ lifecycle[turns[u].actor] = Running(u)
            BY <3>2, <4>5, <5>2 DEF RunningTurnsMatch
          <6>2. turns[u].actor # a
            BY <3>1, <6>1 DEF Running
          <6>3. QED
            BY <3>3, <6>1, <6>2
        <5>3. QED
          BY <5>1, <5>2
      <4>6. QED
        BY <4>3, <4>4, <4>5 DEF RunningTurnsMatch
    <3>5. /\ \A j \in InputIds : j # i => inputs'[j] = inputs[j]
          /\ inputs'[i].kind = "claimed" /\ inputs'[i].turn = t /\ inputs'[i].actor = a
          /\ inputs'[i].restartOf = inputs[i].restartOf
      BY <2>1, <3>1 DEF StartTurn, Claimed, Input
    <3>6. OpenCallsRun' /\ RecoveredTurnsEnded'
      BY <2>1, <3>2 DEF StartTurn, OpenCallsRun, RecoveredTurnsEnded
    <3>7. ClaimsMatchTurns'
      BY <3>1, <3>2, <3>5 DEF ClaimsMatchTurns
    <3>8. Untouched'
      BY <3>2, <3>5 DEF Untouched
    <3>9. RestartsMatchRecoveries'
      <4>1. \A j \in InputIds : /\ inputs'[j].restartOf = inputs[j].restartOf
                                /\ inputs'[j].actor = inputs[j].actor
        BY <3>1, <3>5
      <4>2. \A u \in TurnIds : turns[u].recovery = "continued" => turns'[u] = turns[u]
        BY <3>1, <3>2
      <4>3. \A u \in TurnIds : turns'[u].recovery = "continued" => turns'[u] = turns[u]
        BY <3>2
      <4>4. \A j \in InputIds : inputs[j].restartOf # NoTurn => inputs[j].restartOf \in TurnIds
        BY DEF Input
      <4>5. QED
        BY <4>1, <4>2, <4>3, <4>4 DEF RestartsMatchRecoveries
    <3>10. QED
      BY <3>4, <3>6, <3>7, <3>8, <3>9
  <2>2. ASSUME NEW i \in InputIds, SteerInputs(a, i) PROVE Parts'
    <3>1. /\ lifecycle[a].turn \in TurnIds
          /\ turns[lifecycle[a].turn].status = "running" /\ turns[lifecycle[a].turn].actor = a
      BY <2>2 DEF SteerInputs, RunningTurnsMatch, Lifecycle
    <3>2. {j \in Pending(a) : j <= i} \in SUBSET Pending(a)
      OBVIOUS
    <3>3. ClaimsMatchTurns' /\ Untouched' /\ RestartsMatchRecoveries'
      BY <2>2, <3>1, <3>2, ClaimParts DEF SteerInputs
    <3>4. RunningTurnsMatch' /\ OpenCallsRun' /\ RecoveredTurnsEnded'
      BY <2>2 DEF SteerInputs, RunningTurnsMatch, OpenCallsRun, RecoveredTurnsEnded
    <3>5. QED
      BY <3>3, <3>4
  <2>3. ASSUME NEW i \in InputIds, PresentModelInput(a, i) PROVE Parts'
    BY <1>1, <2>3 DEF PresentModelInput, core
  <2>4. CASE StartToolCall(a)
    <3>1. turns[lifecycle[a].turn].status = "running"
      BY <2>4 DEF StartToolCall, RunningTurnsMatch
    <3>2. UNCHANGED <<lifecycle, turns, inputs>>
          /\ \A t \in TurnIds : t # lifecycle[a].turn => calls'[t] = calls[t]
      BY <2>4 DEF StartToolCall
    <3>3. OpenCallsRun'
      BY <3>1, <3>2 DEF OpenCallsRun
    <3>4. QED
      BY <3>2, <3>3 DEF RunningTurnsMatch, ClaimsMatchTurns, Untouched, RecoveredTurnsEnded,
         RestartsMatchRecoveries
  <2>5. CASE EndToolCall(a)
    <3>1. turns[lifecycle[a].turn].status = "running"
      BY <2>5 DEF EndToolCall, RunningTurnsMatch
    <3>2. UNCHANGED <<lifecycle, turns, inputs>>
          /\ \A t \in TurnIds : t # lifecycle[a].turn => calls'[t] = calls[t]
      BY <2>5 DEF EndToolCall
    <3>3. OpenCallsRun'
      BY <3>1, <3>2 DEF OpenCallsRun
    <3>4. QED
      BY <3>2, <3>3 DEF RunningTurnsMatch, ClaimsMatchTurns, Untouched, RecoveredTurnsEnded,
         RestartsMatchRecoveries
  <2>6. ASSUME NEW outcome \in {"completed", "failed"}, FinishTurn(a, outcome) PROVE Parts'
    <3> DEFINE t == lifecycle[a].turn
    <3>1. /\ t \in TurnIds /\ t # NoTurn /\ turns[t].status = "running" /\ turns[t].actor = a
          /\ lifecycle[a] = Running(t) /\ turns[t].recovery = "none"
      BY <2>6 DEF FinishTurn, RunningTurnsMatch, Lifecycle, RecoveredTurnsEnded
    <3>2. /\ turns'[t].status = outcome /\ turns'[t].actor = a /\ turns'[t].input = turns[t].input
          /\ turns'[t].recovery = "none"
          /\ \A u \in TurnIds : u # t => turns'[u] = turns[u]
      BY <2>6, <3>1 DEF FinishTurn, Turn
    <3>3. /\ lifecycle'[a] = Idle
          /\ \A b \in Executable : b # a => lifecycle'[b] = lifecycle[b]
          /\ inputs' = inputs
          /\ calls'[t] = 0 /\ \A u \in TurnIds : u # t => calls'[u] = calls[u]
      BY <2>6, <3>1 DEF FinishTurn
    <3>4. RunningTurnsMatch'
      <4>1. \A b \in Executable : lifecycle[b].kind = "running" /\ b # a => lifecycle[b].turn # t
        BY <3>1 DEF RunningTurnsMatch
      <4>2. \A b \in Executable : lifecycle'[b].kind = "running" =>
                turns'[lifecycle'[b].turn].status = "running" /\ turns'[lifecycle'[b].turn].actor = b
        BY <3>2, <3>3, <4>1 DEF RunningTurnsMatch, Lifecycle, Idle
      <4>3. \A b \in Executable : lifecycle'[b].kind = "running" <=> lifecycle'[b].turn # NoTurn
        BY <3>3 DEF RunningTurnsMatch, Idle
      <4>4. ASSUME NEW u \in TurnIds, turns'[u].status = "running"
            PROVE  turns'[u].actor \in Executable /\ lifecycle'[turns'[u].actor] = Running(u)
        <5>1. u # t
          BY <3>2, <4>4
        <5>2. turns'[u] = turns[u] /\ turns[u].actor \in Executable
                /\ lifecycle[turns[u].actor] = Running(u)
          BY <3>2, <4>4, <5>1 DEF RunningTurnsMatch
        <5>3. turns[u].actor # a
          BY <3>1, <5>1, <5>2 DEF Running
        <5>4. QED
          BY <3>3, <5>2, <5>3
      <4>5. QED
        BY <4>2, <4>3, <4>4 DEF RunningTurnsMatch
    <3>5. OpenCallsRun' /\ RecoveredTurnsEnded'
      BY <3>2, <3>3 DEF OpenCallsRun, RecoveredTurnsEnded
    <3>6. ClaimsMatchTurns' /\ Untouched'
      BY <3>1, <3>2, <3>3 DEF ClaimsMatchTurns, Untouched
    <3>7. RestartsMatchRecoveries'
      <4>1. \A u \in TurnIds : turns[u].recovery = "continued" \/ turns'[u].recovery = "continued" =>
                turns'[u] = turns[u]
        BY <3>1, <3>2
      <4>2. \A j \in InputIds : inputs[j].restartOf # NoTurn => inputs[j].restartOf \in TurnIds
        BY DEF Input
      <4>3. QED
        BY <3>3, <4>1, <4>2 DEF RestartsMatchRecoveries
    <3>8. QED
      BY <3>4, <3>5, <3>6, <3>7
  <2>7. ASSUME NEW cause \in {"none", "server-stop"}, InterruptTurn(a, cause) PROVE Parts'
    <3>1. {a} \in SUBSET Executable /\ Idle \in {Idle, Stopped}
      OBVIOUS
    <3>2. lifecycle' = [b \in Executable |-> IF b \in {a} THEN Idle ELSE lifecycle[b]]
      BY <2>7 DEF InterruptTurn
    <3>3. QED
      BY <2>7, <3>1, <3>2, EndTurnsParts DEF InterruptTurn
  <2>8. QED
    BY <1>6, <2>1, <2>2, <2>3, <2>4, <2>5, <2>6, <2>7 DEF TurnCommand
<1>7. CASE ProcessStep
  <2>1. CASE Shutdown
    BY <1>1, <2>1 DEF Shutdown, core
  <2>2. ASSUME NEW p \in Policies, Restart(p) PROVE Parts'
    BY <1>1, <2>2 DEF Restart, core
  <2>3. ASSUME NEW a \in Executable, NEW t \in TurnIds, NEW quick \in BOOLEAN, RecoverTurn(a, t, quick)
        PROVE  Parts'
    <3> USE DEF KernelInv, Parts, TypeOK
    <3> DEFINE outcome == RecoveryOutcome(a, t, quick)
    <3>1. /\ turns[t].actor = a /\ turns[t].status \in {"running", "interrupted"}
          /\ turns[t].recovery = "none"
          /\ turns[t].status = "running" => lifecycle[a] = Running(t)
      BY <2>3 DEF RecoverTurn, ToRecover, TurnsOf, RunningTurnsMatch
    <3>2. /\ turns'[t].status = "interrupted" /\ turns'[t].cause = "server-stop"
          /\ turns'[t].actor = a /\ turns'[t].input = turns[t].input /\ turns'[t].recovery = outcome
          /\ \A u \in TurnIds : u # t => turns'[u] = turns[u]
      BY <2>3, <3>1 DEF RecoverTurn, Recovered, Turn
    <3>3. /\ lifecycle'[a] = (IF lifecycle[a] = Running(t) THEN Idle ELSE lifecycle[a])
          /\ \A b \in Executable : b # a => lifecycle'[b] = lifecycle[b]
          /\ calls'[t] = 0 /\ \A u \in TurnIds : u # t => calls'[u] = calls[u]
      BY <2>3 DEF RecoverTurn
    <3>4. RunningTurnsMatch'
      <4>1. \A b \in Executable : lifecycle'[b].kind = "running" =>
                lifecycle'[b] = lifecycle[b] /\ lifecycle[b].turn # t
        BY <3>1, <3>3 DEF RunningTurnsMatch, Running, Idle, Lifecycle
      <4>2. \A b \in Executable : lifecycle'[b].kind = "running" =>
                turns'[lifecycle'[b].turn].status = "running" /\ turns'[lifecycle'[b].turn].actor = b
        BY <3>2, <4>1 DEF RunningTurnsMatch, Lifecycle
      <4>3. \A b \in Executable : lifecycle'[b].kind = "running" <=> lifecycle'[b].turn # NoTurn
        BY <3>3 DEF RunningTurnsMatch, Idle
      <4>4. ASSUME NEW u \in TurnIds, turns'[u].status = "running"
            PROVE  turns'[u].actor \in Executable /\ lifecycle'[turns'[u].actor] = Running(u)
        <5>1. u # t
          BY <3>2, <4>4
        <5>2. turns'[u] = turns[u] /\ turns[u].actor \in Executable
                /\ lifecycle[turns[u].actor] = Running(u)
          BY <3>2, <4>4, <5>1 DEF RunningTurnsMatch
        <5>3. Running(u) # Running(t)
          BY <5>1 DEF Running
        <5>4. QED
          BY <3>3, <5>2, <5>3
      <4>5. QED
        BY <4>2, <4>3, <4>4 DEF RunningTurnsMatch
    <3>5. OpenCallsRun' /\ RecoveredTurnsEnded'
      BY <3>2, <3>3 DEF OpenCallsRun, RecoveredTurnsEnded
    <3>6. \A u \in TurnIds : /\ turns'[u].actor = turns[u].actor /\ turns'[u].input = turns[u].input
                             /\ turns'[u].status = "absent" <=> turns[u].status = "absent"
      BY <3>1, <3>2
    <3>7. ~ \E j \in InputIds : inputs[j].restartOf = t
      BY <3>1 DEF RestartsMatchRecoveries, NoTurn, TurnIds
    <3>8. CASE outcome # "continued"
      <4>1. inputs' = inputs
        BY <2>3, <3>8 DEF RecoverTurn
      <4>2. ClaimsMatchTurns' /\ Untouched'
        BY <3>1, <3>2, <3>6, <4>1 DEF ClaimsMatchTurns, Untouched
      <4>3. RestartsMatchRecoveries'
        BY <3>2, <3>7, <3>8, <4>1 DEF RestartsMatchRecoveries, Input
      <4>4. QED
        BY <3>4, <3>5, <4>2, <4>3
    <3>9. CASE outcome = "continued"
      <4> DEFINE x == Continuation(a, t)
      <4>1. PICK i \in InputIds : FreshInput(i) /\ inputs' = [inputs EXCEPT ![i] = x]
        BY <2>3, <3>9 DEF RecoverTurn
      <4>2. x.kind = "pending" /\ x.actor = a /\ x.restartOf = t
        BY DEF Continuation, NewInput, AbsentInput
      <4>3. /\ inputs[i].kind = "absent" /\ inputs[i].restartOf = NoTurn
            /\ inputs'[i] = x /\ \A j \in InputIds : j # i => inputs'[j] = inputs[j]
        BY <4>1 DEF FreshInput, Untouched, AbsentInput
      <4> HIDE DEF x
      <4>4. ClaimsMatchTurns'
        BY <3>6, <4>2, <4>3 DEF ClaimsMatchTurns
      <4>5. Untouched'
        BY <3>1, <3>2, <4>2, <4>3 DEF Untouched
      <4>6. RestartsMatchRecoveries'
        <5>1. \A j, k \in InputIds :
                  inputs'[j].restartOf = inputs'[k].restartOf /\ inputs'[j].restartOf # NoTurn => j = k
          BY <3>7, <4>2, <4>3 DEF RestartsMatchRecoveries
        <5>2. ASSUME NEW j \in InputIds, inputs'[j].restartOf # NoTurn
              PROVE  LET u == inputs'[j].restartOf
                     IN  /\ turns'[u].recovery = "continued" /\ turns'[u].actor = inputs'[j].actor
                         /\ turns'[u].status = "interrupted" /\ turns'[u].cause = "server-stop"
          <6>1. CASE j = i
            BY <3>2, <3>9, <4>2, <4>3, <6>1
          <6>2. CASE j # i
            BY <3>2, <3>7, <4>3, <5>2, <6>2 DEF RestartsMatchRecoveries, Input
          <6>3. QED
            BY <6>1, <6>2
        <5>3. ASSUME NEW u \in TurnIds, turns'[u].recovery = "continued"
              PROVE  \E j \in InputIds : inputs'[j].restartOf = u
          <6>1. CASE u = t
            BY <4>2, <4>3, <6>1
          <6>2. CASE u # t
            <7>1. PICK j \in InputIds : inputs[j].restartOf = u
              BY <3>2, <5>3, <6>2 DEF RestartsMatchRecoveries
            <7>2. j # i
              BY <4>3, <7>1 DEF NoTurn, TurnIds
            <7>3. QED
              BY <4>3, <7>1, <7>2
          <6>3. QED
            BY <6>1, <6>2
        <5>4. QED
          BY <5>1, <5>2, <5>3 DEF RestartsMatchRecoveries
      <4>7. QED
        BY <3>4, <3>5, <4>4, <4>5, <4>6
    <3>10. QED
      BY <3>8, <3>9
  <2>4. CASE FinishRecovery
    BY <1>1, <2>4 DEF FinishRecovery, core
  <2>5. QED
    BY <1>7, <2>1, <2>2, <2>3, <2>4 DEF ProcessStep
<1>8. QED
  BY <1>2, <1>4, <1>5, <1>6, <1>7 DEF Next

-----------------------------------------------------------------------------
\* The invariant every other theorem rests on: it holds in a new run and every
\* command, crash and startup keeps it.
THEOREM KernelInvariant == Spec => []KernelInv
<1>1. Init => KernelInv
  BY InitTypeOK, InitParts DEF KernelInv
<1>2. KernelInv /\ [Next]_vars => KernelInv'
  BY StepTypeOK, StepParts DEF KernelInv, Parts
<1>3. QED
  BY <1>1, <1>2, PTL DEF Spec

\* The state of a run keeps its shape, whatever commands, crashes and startups come.
THEOREM TypeCorrect == Spec => []TypeOK
<1>1. KernelInv => TypeOK
  BY DEF KernelInv
<1>2. QED
  BY <1>1, KernelInvariant, PTL

\* An actor is in a turn exactly while that turn runs, for any number of actors
\* that create, stop and restart one another, and across crashes.
THEOREM TurnsMatchActors == Spec => []RunningTurnsMatch
<1>1. KernelInv => RunningTurnsMatch
  BY DEF KernelInv, Parts
<1>2. QED
  BY <1>1, KernelInvariant, PTL

\* No tool call stays open when its turn ends, whichever command ends it.
THEOREM NoCallOutlivesItsTurn == Spec => []OpenCallsRun
<1>1. KernelInv => OpenCallsRun
  BY DEF KernelInv, Parts
<1>2. QED
  BY <1>1, KernelInvariant, PTL

\* Claimed inputs and the turns that claimed them always name each other.
THEOREM ClaimsAlwaysMatch == Spec => []ClaimsMatchTurns
<1>1. KernelInv => ClaimsMatchTurns
  BY DEF KernelInv, Parts
<1>2. QED
  BY <1>1, KernelInvariant, PTL

\* However often the server goes down, a turn is continued at most once, and
\* exactly when its recovery was recorded as continued.
THEOREM RestartsOnce == Spec => []RestartsMatchRecoveries
<1>1. KernelInv => RestartsMatchRecoveries
  BY DEF KernelInv, Parts
<1>2. QED
  BY <1>1, KernelInvariant, PTL

-----------------------------------------------------------------------------
(* Action properties: what no step may do to the inputs and the turns of a  *)
(* run.  Each rests on a lemma that lists the ways in which a step changes  *)
(* the inputs, or the turns, at all.                                        *)

(* How a step changes the inputs *)

Appends == \E i \in InputIds, x \in Input :
    inputs[i].kind = "absent" /\ x.kind = "pending" /\ inputs' = [inputs EXCEPT ![i] = x]
Discards == \E S \in SUBSET InputIds :
    /\ \A i \in S : inputs[i].kind = "pending"
    /\ inputs' = Discarded(S)
Claims == \E S \in SUBSET InputIds, t \in TurnIds :
    /\ ~stopped
    /\ turns'[t].status = "running"
    /\ \A i \in S : inputs[i].kind = "pending"
    /\ inputs' = Claimed(S, t)

\* An input enqueued for an actor is a new one that waits.
LEMMA EnqueueAppends ==
    ASSUME TypeOK, NEW i \in InputIds, NEW a \in Executable \cup {None},
           NEW s \in Subscriptions \cup {None}, Enqueue(i, a, s)
    PROVE  Appends
<1>1. NewInput(a, s) \in Input /\ NewInput(a, s).kind = "pending"
  BY ValueTypes DEF NewInput, AbsentInput
<1>2. QED
  BY <1>1 DEF Enqueue, FreshInput, Appends

\* Stopping actors discards what their subscriptions queued, and nothing else.
LEMMA StopDiscards ==
    ASSUME TypeOK, NEW S, StopAll(S)
    PROVE  Discards
<1>1. ASSUME NEW D PROVE PendingOf(D) \in SUBSET InputIds /\ \A i \in PendingOf(D) : inputs[i].kind = "pending"
  BY DEF PendingOf
<1>2. QED
  BY <1>1 DEF StopAll, Discards

\* A step leaves the inputs alone, appends one, discards waiting ones, or claims
\* waiting ones in a run that is not stopped.
LEMMA InputSteps == KernelInv /\ [Next]_vars => UNCHANGED inputs \/ Appends \/ Discards \/ Claims
<1> SUFFICES ASSUME KernelInv, [Next]_vars PROVE UNCHANGED inputs \/ Appends \/ Discards \/ Claims
  OBVIOUS
<1> USE DEF KernelInv, inputVars
<1>1. CASE UNCHANGED vars
  BY <1>1 DEF vars
<1>2. ASSUME NEW c \in Commanders, ActorCommand(c) PROVE UNCHANGED inputs \/ Appends \/ Discards
  <2>1. ASSUME NEW a \in Executable, SpawnAgent(c, a) PROVE UNCHANGED inputs
    BY <2>1 DEF SpawnAgent
  <2>2. ASSUME NEW a \in Executable, NEW i \in InputIds, SpawnAgentWithTask(c, a, i) PROVE Appends
    <3>1. NewInput(a, None) \in Input /\ NewInput(a, None).kind = "pending"
      BY ValueTypes DEF NewInput, AbsentInput
    <3>2. QED
      BY <2>2, <3>1 DEF SpawnAgentWithTask, FreshInput, Appends
  <2>3. ASSUME NEW a \in Executable, CreateScriptActor(c, a) PROVE UNCHANGED inputs
    BY <2>3 DEF CreateScriptActor
  <2>4. ASSUME NEW a \in Selectable, SelectPrimaryActor(c, a) PROVE UNCHANGED inputs
    BY <2>4 DEF SelectPrimaryActor
  <2>5. ASSUME NEW a \in Executable, NEW i \in InputIds, EnqueueActorInput(c, a, i) PROVE Appends
    BY <2>5, EnqueueAppends DEF EnqueueActorInput
  <2>6. ASSUME NEW a \in Executable, NEW s \in Subscriptions, CreateSubscription(c, a, s) PROVE UNCHANGED inputs
    BY <2>6 DEF CreateSubscription
  <2>7. ASSUME NEW s \in Subscriptions, RemoveSubscription(c, s) PROVE Discards
    <3>1. PendingOf({s}) \in SUBSET InputIds /\ \A i \in PendingOf({s}) : inputs[i].kind = "pending"
      BY DEF PendingOf
    <3>2. QED
      BY <2>7, <3>1 DEF RemoveSubscription, Discards
  <2>8. ASSUME NEW a \in Executable, StopActor(c, a) PROVE Discards
    BY <2>8, StopDiscards DEF StopActor
  <2>9. ASSUME NEW S \in SUBSET Executable, StopActors(c, S) PROVE Discards
    BY <2>9, StopDiscards DEF StopActors
  <2>10. ASSUME NEW a \in Executable, RestartActor(c, a) PROVE UNCHANGED inputs
    BY <2>10 DEF RestartActor
  <2>11. QED
    BY <1>2, <2>1, <2>2, <2>3, <2>4, <2>5, <2>6, <2>7, <2>8, <2>9, <2>10 DEF ActorCommand
<1>3. CASE RunCommand
  <2>1. ASSUME NEW a \in Executable, NEW i \in InputIds, EnqueueHumanInput(a, i) PROVE Appends
    BY <2>1, EnqueueAppends DEF EnqueueHumanInput
  <2>2. ASSUME NEW a \in Executable, NEW i \in InputIds, EnqueueAutomaticInput(a, i) PROVE Appends
    BY <2>2, EnqueueAppends DEF EnqueueAutomaticInput
  <2>3. ASSUME NEW s \in Subscriptions, NEW i \in InputIds, DeliverSubscription(s, i) PROVE Appends
    <3>1. subs[s].subscriber \in Executable \cup {None}
      BY DEF TypeOK, Subscription
    <3>2. QED
      BY <2>3, <3>1, EnqueueAppends DEF DeliverSubscription
  <2>4. ASSUME NEW s \in Subscriptions, FailSubscription(s) PROVE UNCHANGED inputs
    BY <2>4 DEF FailSubscription
  <2>5. CASE StopRun
    BY <2>5 DEF StopRun
  <2>6. QED
    BY <1>3, <2>1, <2>2, <2>3, <2>4, <2>5 DEF RunCommand
<1>4. ASSUME NEW a \in Executable, TurnCommand(a) PROVE UNCHANGED inputs \/ Claims
  <2>1. ASSUME NEW i \in InputIds, NEW t \in TurnIds, StartTurn(a, i, t) PROVE Claims
    <3>1. {i} \in SUBSET InputIds /\ \A j \in {i} : inputs[j].kind = "pending"
      BY <2>1 DEF StartTurn, Pending
    <3>2. turns'[t].status = "running"
      BY <2>1 DEF StartTurn, NewTurn, AbsentTurn, TypeOK
    <3>3. QED
      BY <2>1, <3>1, <3>2 DEF StartTurn, Claims
  <2>2. ASSUME NEW i \in InputIds, SteerInputs(a, i) PROVE Claims
    <3>1. lifecycle[a].turn \in TurnIds /\ turns'[lifecycle[a].turn].status = "running"
      BY <2>2 DEF SteerInputs, turnVars, Parts, RunningTurnsMatch, TypeOK, Lifecycle
    <3> DEFINE S == {j \in Pending(a) : j <= i}
    <3>2. S \in SUBSET InputIds /\ \A j \in S : inputs[j].kind = "pending"
      BY DEF Pending
    <3>3. ~stopped /\ inputs' = Claimed(S, lifecycle[a].turn)
      BY <2>2 DEF SteerInputs
    <3> HIDE DEF S
    <3>4. QED
      BY <3>1, <3>2, <3>3 DEF Claims
  <2>3. ASSUME NEW i \in InputIds, PresentModelInput(a, i) PROVE UNCHANGED inputs
    BY <2>3 DEF PresentModelInput
  <2>4. CASE StartToolCall(a)
    BY <2>4 DEF StartToolCall
  <2>5. CASE EndToolCall(a)
    BY <2>5 DEF EndToolCall
  <2>6. ASSUME NEW outcome \in {"completed", "failed"}, FinishTurn(a, outcome) PROVE UNCHANGED inputs
    BY <2>6 DEF FinishTurn
  <2>7. ASSUME NEW cause \in {"none", "server-stop"}, InterruptTurn(a, cause) PROVE UNCHANGED inputs
    BY <2>7 DEF InterruptTurn
  <2>8. QED
    BY <1>4, <2>1, <2>2, <2>3, <2>4, <2>5, <2>6, <2>7 DEF TurnCommand
<1>5. CASE ProcessStep
  <2>1. CASE Shutdown
    BY <2>1 DEF Shutdown
  <2>2. ASSUME NEW p \in Policies, Restart(p) PROVE UNCHANGED inputs
    BY <2>2 DEF Restart
  <2>3. ASSUME NEW a \in Executable, NEW t \in TurnIds, NEW quick \in BOOLEAN, RecoverTurn(a, t, quick)
        PROVE  UNCHANGED inputs \/ Appends
    <3>1. ASSUME NEW i \in InputIds, FreshInput(i), inputs' = [inputs EXCEPT ![i] = Continuation(a, t)]
          PROVE  Appends
      <4>1. inputs' \in [InputIds -> Input]
        BY StepTypeOK DEF Parts, TypeOK
      <4>2. Continuation(a, t) \in Input
        BY <3>1, <4>1 DEF TypeOK
      <4>3. Continuation(a, t).kind = "pending"
        BY DEF Continuation, NewInput, AbsentInput
      <4>4. QED
        BY <3>1, <4>2, <4>3 DEF FreshInput, Appends
    <3>2. QED
      BY <2>3, <3>1 DEF RecoverTurn
  <2>4. CASE FinishRecovery
    BY <2>4 DEF FinishRecovery
  <2>5. QED
    BY <1>5, <2>1, <2>2, <2>3, <2>4 DEF ProcessStep
<1>6. QED
  BY <1>1, <1>2, <1>3, <1>4, <1>5 DEF Next

\* An input is consumed once: what a turn claimed or a removal discarded is never
\* claimed, discarded or changed again, by any command or startup.
THEOREM InputsConsumedOnce == Spec => ConsumedOnce
<1>1. KernelInv /\ [Next]_vars => \A i \in InputIds :
          inputs[i].kind \in {"claimed", "discarded"} => inputs'[i] = inputs[i]
  <2> SUFFICES ASSUME KernelInv, [Next]_vars, NEW i \in InputIds,
                      inputs[i].kind \in {"claimed", "discarded"}
               PROVE  inputs'[i] = inputs[i]
    OBVIOUS
  <2>1. inputs \in [InputIds -> Input]
    BY DEF KernelInv, TypeOK
  <2>2. CASE Appends
    BY <2>1, <2>2 DEF Appends
  <2>3. CASE Discards
    BY <2>3 DEF Discards, Discarded
  <2>4. CASE Claims
    BY <2>4 DEF Claims, Claimed
  <2>5. QED
    BY <2>2, <2>3, <2>4, InputSteps
<1>2. QED
  BY <1>1, KernelInvariant, PTL DEF Spec, ConsumedOnce

\* From the stop of a run on no turn starts and no input joins a turn, until a
\* human message continues the run: not by steering, not through a restart.
THEOREM StoppedRunClaimsNothing == Spec => NothingJoinsStoppedRun
<1>1. KernelInv /\ [Next]_vars => (stopped => ClaimedInputs' = ClaimedInputs)
  <2> SUFFICES ASSUME KernelInv, [Next]_vars, stopped PROVE ClaimedInputs' = ClaimedInputs
    OBVIOUS
  <2>1. inputs \in [InputIds -> Input]
    BY DEF KernelInv, TypeOK
  <2>2. CASE Appends
    BY <2>1, <2>2 DEF Appends, ClaimedInputs
  <2>3. CASE Discards
    <3>1. \A i \in InputIds : inputs'[i].kind = "claimed" <=> inputs[i].kind = "claimed"
      BY <2>1, <2>3 DEF Discards, Discarded, Input
    <3>2. QED
      BY <3>1 DEF ClaimedInputs
  <2>4. QED
    BY <2>2, <2>3, InputSteps DEF Claims, ClaimedInputs
<1>2. QED
  BY <1>1, KernelInvariant, PTL DEF Spec, NothingJoinsStoppedRun

-----------------------------------------------------------------------------
(* How a step changes the turns *)

Starts == \E a \in Executable, i \in InputIds, t \in TurnIds :
    /\ phase = "up" /\ phase' = "up"
    /\ FreshTurn(t) /\ lifecycle[a].kind = "idle" /\ turns' = [turns EXCEPT ![t] = NewTurn(a, i)]
Ends(t) ==
    /\ turns[t].status = "running" /\ turns[t].recovery = "none"
    /\ turns'[t].status \in {"completed", "failed", "interrupted"}
Recovers(t) ==
    /\ turns[t].status \in {"running", "interrupted"} /\ turns[t].recovery = "none"
    /\ turns'[t].status = "interrupted"
TurnsEnd == \A t \in TurnIds :
    /\ turns'[t] = turns[t] \/ Ends(t) \/ Recovers(t)
    /\ turns'[t].actor = turns[t].actor

\* Interrupting the turns of some actors ends running turns and touches no other.
LEMMA InterruptedEnds ==
    ASSUME KernelInv, NEW S \in SUBSET Executable, NEW cause \in {"none", "server-stop"},
           turns' = Interrupted(S, cause)
    PROVE  TurnsEnd
<1> USE DEF KernelInv, Parts, TypeOK
<1> SUFFICES ASSUME NEW t \in TurnIds
             PROVE  (turns'[t] = turns[t] \/ Ends(t)) /\ turns'[t].actor = turns[t].actor
  BY DEF TurnsEnd
<1>1. CASE \E a \in S : lifecycle[a] = Running(t)
  <2>1. turns[t].status = "running" /\ turns[t].recovery = "none"
    BY <1>1 DEF RunningTurnsMatch, Running, RecoveredTurnsEnded
  <2>2. turns'[t] = [turns[t] EXCEPT !.status = "interrupted", !.cause = cause]
    BY <1>1 DEF Interrupted
  <2>3. turns[t] \in Turn
    OBVIOUS
  <2>4. turns'[t].status = "interrupted" /\ turns'[t].actor = turns[t].actor
    BY <2>2, <2>3 DEF Turn
  <2>5. QED
    BY <2>1, <2>4 DEF Ends
<1>2. CASE ~ \E a \in S : lifecycle[a] = Running(t)
  BY <1>2 DEF Interrupted
<1>3. QED
  BY <1>1, <1>2

\* A step leaves the turns alone, starts one with a free id, or ends some.
LEMMA TurnSteps == KernelInv /\ [Next]_vars => UNCHANGED turns \/ Starts \/ TurnsEnd
<1> SUFFICES ASSUME KernelInv, [Next]_vars PROVE UNCHANGED turns \/ Starts \/ TurnsEnd
  OBVIOUS
<1> USE DEF turnVars
<1>1. CASE UNCHANGED vars
  BY <1>1 DEF vars
<1>2. ASSUME NEW c \in Commanders, ActorCommand(c) PROVE UNCHANGED turns \/ TurnsEnd
  <2>1. ASSUME NEW a \in Executable, Create(c, a) PROVE UNCHANGED turns
    BY <2>1 DEF Create
  <2>2. ASSUME NEW a \in Executable, NEW i \in InputIds, EnqueueActorInput(c, a, i) PROVE UNCHANGED turns
    BY <2>2 DEF EnqueueActorInput, Enqueue
  <2>3. ASSUME NEW S \in SUBSET Executable, StopAll(S) PROVE TurnsEnd
    BY <2>3, InterruptedEnds DEF StopAll
  <2>4. ASSUME NEW a \in Executable, StopActor(c, a) PROVE TurnsEnd
    <3>1. {a} \cup DescendantsOf(a) \subseteq Executable
      BY DEF DescendantsOf, ActiveActors
    <3>2. QED
      BY <2>3, <2>4, <3>1 DEF StopActor
  <2>5. ASSUME NEW S \in SUBSET Executable, StopActors(c, S) PROVE TurnsEnd
    BY <2>3, <2>5 DEF StopActors
  <2>6. QED
    BY <1>2, <2>1, <2>2, <2>4, <2>5 DEF ActorCommand, SpawnAgent, SpawnAgentWithTask, CreateScriptActor,
       SelectPrimaryActor, CreateSubscription, RemoveSubscription, RestartActor
<1>3. CASE RunCommand
  <2>1. ASSUME NEW i, NEW a, NEW s, Enqueue(i, a, s) PROVE UNCHANGED turns
    BY <2>1 DEF Enqueue
  <2>2. QED
    BY <1>3, <2>1 DEF RunCommand, EnqueueHumanInput, EnqueueAutomaticInput, DeliverSubscription,
       FailSubscription, StopRun
<1>4. ASSUME NEW a \in Executable, TurnCommand(a) PROVE UNCHANGED turns \/ Starts \/ TurnsEnd
  <2>1. ASSUME NEW i \in InputIds, NEW t \in TurnIds, StartTurn(a, i, t) PROVE Starts
    BY <2>1 DEF StartTurn, Starts, processVars
  <2>2. ASSUME NEW outcome \in {"completed", "failed"}, FinishTurn(a, outcome) PROVE TurnsEnd
    <3> DEFINE u == lifecycle[a].turn
    <3>1. u \in TurnIds /\ turns[u].status = "running" /\ turns[u].recovery = "none"
      BY <2>2 DEF FinishTurn, KernelInv, Parts, TypeOK, Lifecycle, RunningTurnsMatch, RecoveredTurnsEnded
    <3>2. turns \in [TurnIds -> Turn] /\ turns' = [turns EXCEPT ![u].status = outcome]
      BY <2>2 DEF FinishTurn, KernelInv, TypeOK
    <3>3. turns'[u].status = outcome /\ turns'[u].actor = turns[u].actor
      BY <3>1, <3>2 DEF Turn
    <3>4. \A t \in TurnIds : t # u => turns'[t] = turns[t]
      BY <3>2
    <3> HIDE DEF u
    <3>5. QED
      BY <3>1, <3>3, <3>4 DEF TurnsEnd, Ends
  <2>3. ASSUME NEW cause \in {"none", "server-stop"}, InterruptTurn(a, cause) PROVE TurnsEnd
    BY <2>3, InterruptedEnds DEF InterruptTurn
  <2>4. QED
    BY <1>4, <2>1, <2>2, <2>3 DEF TurnCommand, SteerInputs, PresentModelInput, StartToolCall, EndToolCall
<1>5. CASE ProcessStep
  <2>1. ASSUME NEW a \in Executable, NEW t \in TurnIds, NEW quick \in BOOLEAN, RecoverTurn(a, t, quick)
        PROVE  TurnsEnd
    <3>1. PICK o : turns' = Recovered(t, o)
      BY <2>1 DEF RecoverTurn
    <3>2. turns[t].recovery = "none" /\ turns[t].status \in {"running", "interrupted"}
      BY <2>1 DEF RecoverTurn, ToRecover
    <3>3. turns \in [TurnIds -> Turn]
      BY DEF KernelInv, TypeOK
    <3>4. turns'[t].status = "interrupted" /\ turns'[t].actor = turns[t].actor
      BY <3>1, <3>3 DEF Recovered, Turn
    <3>5. \A u \in TurnIds : u # t => turns'[u] = turns[u]
      BY <3>1, <3>3 DEF Recovered
    <3>6. QED
      BY <3>2, <3>4, <3>5 DEF TurnsEnd, Recovers
  <2>2. QED
    BY <1>5, <2>1 DEF ProcessStep, Shutdown, Restart, FinishRecovery
<1>6. QED
  BY <1>1, <1>2, <1>3, <1>4, <1>5 DEF Next

\* A turn that completed, failed or was interrupted keeps that outcome, and a
\* recorded recovery is final: neither a late report of the runtime, nor a stop,
\* nor another startup ends a turn a second time.
THEOREM TurnsEndOnce == Spec => TurnEndsOnce
<1>1. KernelInv /\ [Next]_vars => \A t \in TurnIds :
          /\ turns[t].status \notin {"absent", "running"} => turns'[t].status = turns[t].status
          /\ turns[t].recovery # "none" => turns'[t] = turns[t]
  <2> SUFFICES ASSUME KernelInv, [Next]_vars, NEW t \in TurnIds
               PROVE  /\ turns[t].status \notin {"absent", "running"} => turns'[t].status = turns[t].status
                      /\ turns[t].recovery # "none" => turns'[t] = turns[t]
    OBVIOUS
  <2>1. turns \in [TurnIds -> Turn]
    BY DEF KernelInv, TypeOK
  <2>2. turns[t].status = "absent" => turns[t].recovery = "none"
    BY DEF KernelInv, Parts, RecoveredTurnsEnded
  <2>3. CASE Starts
    BY <2>1, <2>2, <2>3 DEF Starts, FreshTurn
  <2>4. CASE TurnsEnd
    BY <2>1, <2>4 DEF TurnsEnd, Ends, Recovers, Turn
  <2>5. QED
    BY <2>3, <2>4, TurnSteps
<1>2. QED
  BY <1>1, KernelInvariant, PTL DEF Spec, TurnEndsOnce

-----------------------------------------------------------------------------
(* The turns of an actor are in the order of their ids, which is what lets a *)
(* startup look at the latest turn of each actor only.                       *)

InOrder ==
    /\ \A t, u \in TurnIds : u < t /\ turns[t].status # "absent" => turns[u].status # "absent"
    /\ \A t \in TurnIds : turns[t].status = "running" => \A u \in TurnsOf(turns[t].actor) : u <= t
OrderInv == KernelInv /\ InOrder

\* A turn starts with the next id, while no other turn of its actor runs.
LEMMA StepInOrder == OrderInv /\ [Next]_vars => InOrder'
<1> SUFFICES ASSUME OrderInv, [Next]_vars PROVE InOrder'
  OBVIOUS
<1> USE DEF OrderInv, KernelInv
<1>1. /\ turns \in [TurnIds -> Turn] /\ \A t \in TurnIds : t \in Nat
      /\ \A a \in Executable : lifecycle[a] \in Lifecycle
  BY KernelAssumption DEF TypeOK, TurnIds
<1>2. CASE UNCHANGED turns
  BY <1>2 DEF InOrder, TurnsOf
<1>3. CASE TurnsEnd
  <2>1. \A t \in TurnIds : /\ turns'[t].actor = turns[t].actor
                           /\ turns'[t].status = "absent" <=> turns[t].status = "absent"
                           /\ turns'[t].status = "running" => turns[t].status = "running"
    BY <1>3 DEF TurnsEnd, Ends, Recovers
  <2>2. QED
    BY <2>1 DEF InOrder, TurnsOf
<1>4. CASE Starts
  <2>1. PICK a \in Executable, i \in InputIds, t \in TurnIds :
            FreshTurn(t) /\ lifecycle[a].kind = "idle" /\ turns' = [turns EXCEPT ![t] = NewTurn(a, i)]
    BY <1>4 DEF Starts
  <2>2. \A u \in TurnIds : u # t => turns'[u] = turns[u]
    BY <2>1, <1>1
  <2>3. turns'[t].status = "running" /\ turns'[t].actor = a
    BY <2>1, <1>1 DEF NewTurn, AbsentTurn
  <2>4. \A u \in TurnIds : turns[u].status # "absent" => u < t
    BY <2>1, <1>1 DEF FreshTurn, InOrder
  <2>5. \A u \in TurnIds : u < t => turns[u].status # "absent"
    BY <2>1 DEF FreshTurn
  <2>6. \A u \in TurnIds : turns[u].status = "running" => turns[u].actor # a
    <3>1. \A u : Running(u).kind = "running"
      BY DEF Running
    <3>2. QED
      BY <2>1, <3>1 DEF Parts, RunningTurnsMatch
  <2>7. \A u, v \in TurnIds : v < u /\ turns'[u].status # "absent" => turns'[v].status # "absent"
    BY <1>1, <2>2, <2>3, <2>4, <2>5 DEF InOrder
  <2>8. \A u \in TurnIds : turns'[u].status = "running" =>
            \A v \in TurnIds : turns'[v].status # "absent" /\ turns'[v].actor = turns'[u].actor => v <= u
    BY <1>1, <2>2, <2>3, <2>4, <2>6 DEF InOrder, TurnsOf
  <2>9. QED
    BY <2>7, <2>8 DEF InOrder, TurnsOf
<1>5. QED
  BY <1>2, <1>3, <1>4, TurnSteps

\* When a startup has recovered the stopped turns, no turn runs any more, although
\* it only looked at the latest turn of every actor that is not stopped.
THEOREM RecoveryIsComplete == Spec => RecoveryLeavesNoTurnRunning
<1>1. Init => InOrder
  BY DEF Init, InOrder, AbsentTurn
<1>2. OrderInv /\ [Next]_vars => (phase = "recovering" /\ phase' = "up" =>
          \A t \in TurnIds : turns'[t].status # "running")
  <2> SUFFICES ASSUME OrderInv, [Next]_vars, phase = "recovering", phase' = "up", NEW t \in TurnIds,
                      turns'[t].status = "running"
               PROVE  FALSE
    OBVIOUS
  <2>1. FinishRecovery
    <3>1. phase' # phase
      OBVIOUS
    <3>2. ~ UNCHANGED vars /\ ~ Shutdown /\ \A p \in Policies : ~ Restart(p)
      BY <3>1 DEF vars, processVars, Shutdown, Restart
    <3>3. \A a \in Executable, u \in TurnIds, quick \in BOOLEAN : ~ RecoverTurn(a, u, quick)
      BY <3>1 DEF RecoverTurn, processVars
    <3>4. \A c \in Commanders : ~ ActorCommand(c)
      BY <3>1 DEF ActorCommand, SpawnAgent, SpawnAgentWithTask, CreateScriptActor, Create, SelectPrimaryActor,
         EnqueueActorInput, Enqueue, CreateSubscription, RemoveSubscription, StopActor, StopActors, StopAll,
         RestartActor, processVars
    <3>5. ~ RunCommand
      BY <3>1 DEF RunCommand, EnqueueHumanInput, EnqueueAutomaticInput, Enqueue, DeliverSubscription,
         FailSubscription, StopRun, processVars
    <3>6. \A a \in Executable : ~ TurnCommand(a)
      BY <3>1 DEF TurnCommand, StartTurn, SteerInputs, PresentModelInput, StartToolCall, EndToolCall,
         FinishTurn, InterruptTurn, processVars
    <3>7. QED
      BY <3>2, <3>3, <3>4, <3>5, <3>6 DEF Next, ProcessStep
  <2>2. turns' = turns /\ \A a \in Executable : ToRecover(a) = {}
    BY <2>1 DEF FinishRecovery, turnVars
  <2>3. turns[t].status = "running" /\ turns[t].actor \in Executable
        /\ lifecycle[turns[t].actor].kind = "running"
    <3>1. \A u : Running(u).kind = "running"
      BY DEF Running
    <3>2. QED
      BY <2>2, <3>1 DEF OrderInv, KernelInv, Parts, RunningTurnsMatch
  <2>4. turns[t].recovery = "none"
    BY <2>3 DEF OrderInv, KernelInv, Parts, RecoveredTurnsEnded
  <2>5. t \in ToRecover(turns[t].actor)
    BY <2>3, <2>4 DEF OrderInv, InOrder, ToRecover, TurnsOf, Active
  <2>6. QED
    BY <2>2, <2>3, <2>5
<1>3. QED
  BY <1>1, <1>2, StepInOrder, KernelInvariant, PTL DEF Spec, OrderInv, RecoveryLeavesNoTurnRunning

-----------------------------------------------------------------------------
(* How a step changes the marks of the held actors *)

\* What both properties below say of one actor.
StaysHeld(a) ==
    stopped' /\ lifecycle'[a].kind \in {"idle", "running"} /\ a \notin held' =>
        lifecycle[a].kind = "stopped" \/ (stopped /\ Active(a) /\ a \notin held)
ReleasedBy(a) ==
    a \in held \ held' =>
        \/ lifecycle[a].kind = "stopped"
        \/ stopped /\ ~stopped' /\ a = primary
        \/ ~stopped' /\ \E i \in InputIds : inputs[i].kind = "absent" /\ inputs'[i] = NewInput(a, None)
MarksKept == \A a \in Executable : StaysHeld(a) /\ ReleasedBy(a)

\* A step that neither stops the run nor touches a mark, and activates no actor,
\* keeps both.
LEMMA SameMarks ==
    ASSUME UNCHANGED <<stopped, held>>,
           \A a \in Executable : lifecycle'[a].kind \in {"idle", "running"} => Active(a)
    PROVE  MarksKept
  BY DEF MarksKept, StaysHeld, ReleasedBy

\* Every step keeps the marks of held actors as the two theorems say.
LEMMA MarkSteps == KernelInv /\ [Next]_vars => MarksKept
<1> SUFFICES ASSUME KernelInv, [Next]_vars PROVE MarksKept
  OBVIOUS
<1> USE DEF actorVars
<1>1. /\ lifecycle \in [Executable -> Lifecycle] /\ inputs \in [InputIds -> Input]
  BY DEF KernelInv, TypeOK
<1>2. ASSUME UNCHANGED <<stopped, held, lifecycle>> PROVE MarksKept
  BY <1>2, SameMarks DEF Active
<1>3. CASE UNCHANGED vars
  BY <1>2, <1>3 DEF vars
<1>4. ASSUME NEW i \in InputIds, NEW a, Enqueue(i, a, None)
      PROVE  /\ lifecycle' = lifecycle
             /\ inputs[i].kind = "absent" /\ inputs'[i] = NewInput(a, None)
  BY <1>1, <1>4 DEF Enqueue, FreshInput
<1>5. ASSUME NEW c \in Commanders, ActorCommand(c) PROVE MarksKept
  <2>1. ASSUME NEW a \in Executable, Create(c, a) PROVE MarksKept
    <3>1. \A b \in Executable : b # a => lifecycle'[b] = lifecycle[b]
      BY <1>1, <2>1 DEF Create
    <3>2. QED
      BY <2>1, <3>1 DEF Create, MarksKept, StaysHeld, ReleasedBy, Active
  <2>2. ASSUME NEW a \in Executable, NEW i \in InputIds, EnqueueActorInput(c, a, i) PROVE MarksKept
    <3>1. stopped' = stopped /\ held' = IF stopped \/ c = a THEN held ELSE held \ {a}
      BY <2>2 DEF EnqueueActorInput
    <3>2. Enqueue(i, a, None)
      BY <2>2 DEF EnqueueActorInput
    <3>3. QED
      BY <1>4, <3>1, <3>2 DEF MarksKept, StaysHeld, ReleasedBy, Active
  <2>3. ASSUME NEW S \in SUBSET Executable, StopAll(S) PROVE MarksKept
    <3>1. \A a \in Executable : lifecycle'[a] = lifecycle[a] \/ lifecycle'[a].kind = "stopped"
      BY <2>3 DEF StopAll, Stopped
    <3>2. QED
      BY <2>3, <3>1, SameMarks DEF StopAll, Active
  <2>4. ASSUME NEW a \in Executable, StopActor(c, a) PROVE MarksKept
    <3>1. {a} \cup DescendantsOf(a) \subseteq Executable
      BY DEF DescendantsOf, ActiveActors
    <3>2. QED
      BY <2>3, <2>4, <3>1 DEF StopActor
  <2>5. ASSUME NEW S \in SUBSET Executable, StopActors(c, S) PROVE MarksKept
    BY <2>3, <2>5 DEF StopActors
  <2>6. ASSUME NEW a \in Executable, RestartActor(c, a) PROVE MarksKept
    <3>1. /\ lifecycle[a].kind = "stopped" /\ stopped' = stopped /\ held' = held \ {a}
          /\ \A b \in Executable : b # a => lifecycle'[b] = lifecycle[b]
      BY <1>1, <2>6 DEF RestartActor
    <3>2. QED
      BY <3>1 DEF MarksKept, StaysHeld, ReleasedBy, Active
  <2>7. ASSUME NEW a \in Selectable, SelectPrimaryActor(c, a) PROVE MarksKept
    BY <1>2, <2>7 DEF SelectPrimaryActor
  <2>8. ASSUME NEW a \in Executable, NEW s \in Subscriptions, CreateSubscription(c, a, s) PROVE MarksKept
    BY <1>2, <2>8 DEF CreateSubscription
  <2>9. ASSUME NEW s \in Subscriptions, RemoveSubscription(c, s) PROVE MarksKept
    BY <1>2, <2>9 DEF RemoveSubscription
  <2>10. QED
    BY <1>5, <2>1, <2>2, <2>4, <2>5, <2>6, <2>7, <2>8, <2>9 DEF ActorCommand, SpawnAgent, SpawnAgentWithTask,
       CreateScriptActor
<1>6. CASE RunCommand
  <2>1. ASSUME NEW a \in Executable, NEW i \in InputIds, EnqueueHumanInput(a, i) PROVE MarksKept
    <3>1. ~stopped' /\ held' = (IF stopped THEN held \ {primary} ELSE held) \ {a}
      BY <2>1 DEF EnqueueHumanInput
    <3>2. Enqueue(i, a, None)
      BY <2>1 DEF EnqueueHumanInput
    <3>3. QED
      BY <1>4, <3>1, <3>2 DEF MarksKept, StaysHeld, ReleasedBy
  <2>2. ASSUME NEW a \in Executable, NEW i \in InputIds, EnqueueAutomaticInput(a, i) PROVE MarksKept
    BY <1>2, <1>4, <2>2 DEF EnqueueAutomaticInput
  <2>3. ASSUME NEW s \in Subscriptions, NEW i \in InputIds, DeliverSubscription(s, i) PROVE MarksKept
    BY <1>2, <2>3 DEF DeliverSubscription, Enqueue
  <2>4. ASSUME NEW s \in Subscriptions, FailSubscription(s) PROVE MarksKept
    BY <1>2, <2>4 DEF FailSubscription
  <2>5. CASE StopRun
    <3>1. ~stopped /\ lifecycle' = lifecycle /\ held' = held \cup ActiveActors
      BY <2>5 DEF StopRun
    <3>2. QED
      BY <3>1 DEF MarksKept, StaysHeld, ReleasedBy, ActiveActors, Active
  <2>6. QED
    BY <1>6, <2>1, <2>2, <2>3, <2>4, <2>5 DEF RunCommand
<1>7. ASSUME NEW a \in Executable, TurnCommand(a) PROVE MarksKept
  <2>1. ASSUME UNCHANGED <<stopped, held>>, Active(a),
               \A b \in Executable : b # a => lifecycle'[b] = lifecycle[b]
        PROVE  MarksKept
    BY <2>1, SameMarks DEF Active
  <2>2. ASSUME NEW i \in InputIds, NEW t \in TurnIds, StartTurn(a, i, t) PROVE MarksKept
    BY <1>1, <2>1, <2>2 DEF StartTurn, Active
  <2>3. ASSUME NEW outcome \in {"completed", "failed"}, FinishTurn(a, outcome) PROVE MarksKept
    BY <1>1, <2>1, <2>3 DEF FinishTurn, Active
  <2>4. ASSUME NEW cause \in {"none", "server-stop"}, InterruptTurn(a, cause) PROVE MarksKept
    BY <1>1, <2>1, <2>4 DEF InterruptTurn, Active
  <2>5. QED
    BY <1>2, <1>7, <2>2, <2>3, <2>4 DEF TurnCommand, SteerInputs, PresentModelInput, StartToolCall, EndToolCall
<1>8. CASE ProcessStep
  <2>1. ASSUME NEW a \in Executable, NEW t \in TurnIds, NEW quick \in BOOLEAN, RecoverTurn(a, t, quick)
        PROVE  MarksKept
    <3>1. /\ UNCHANGED <<stopped, held>> /\ Active(a)
          /\ \A b \in Executable : b # a => lifecycle'[b] = lifecycle[b]
      BY <1>1, <2>1 DEF RecoverTurn, ToRecover
    <3>2. QED
      BY <3>1, SameMarks DEF Active
  <2>2. QED
    BY <1>2, <1>8, <2>1 DEF ProcessStep, Shutdown, Restart, FinishRecovery
<1>9. QED
  BY <1>3, <1>5, <1>6, <1>7, <1>8 DEF Next

\* While a run is stopped every active actor is held, also those created meanwhile
\* and those a startup recovers; only an explicit restart of an actor is exempt.
THEOREM StoppedRunHolds == Spec => StoppedRunHoldsActors
<1>1. KernelInv /\ [Next]_vars => (stopped' => \A a \in Executable :
          lifecycle'[a].kind \in {"idle", "running"} /\ a \notin held' =>
              lifecycle[a].kind = "stopped" \/ (stopped /\ Active(a) /\ a \notin held))
  BY MarkSteps DEF MarksKept, StaysHeld
<1>2. QED
  BY <1>1, KernelInvariant, PTL DEF Spec, StoppedRunHoldsActors

\* A held actor is released only by the human message that continues the run and
\* finds it primary, by its restart, or by a new input addressed to it in a run
\* that goes on.
THEOREM HeldUntilAddressed == Spec => ReleasedOnlyDirectly
<1>1. KernelInv /\ [Next]_vars => \A a \in held \ held' :
          \/ lifecycle[a].kind = "stopped"
          \/ stopped /\ ~stopped' /\ a = primary
          \/ ~stopped' /\ \E i \in InputIds : inputs[i].kind = "absent" /\ inputs'[i] = NewInput(a, None)
  BY MarkSteps DEF MarksKept, ReleasedBy, KernelInv, TypeOK
<1>2. QED
  BY <1>1, KernelInvariant, PTL DEF Spec, ReleasedOnlyDirectly

\* A stopped run rests until a person goes on: nothing is taken up, every actor is held, none is let go by the way.
THEOREM StoppedRunStaysAtRest == Spec => StoppedRunRests
BY StoppedRunClaimsNothing, StoppedRunHolds, HeldUntilAddressed DEF StoppedRunRests

\* What has happened to an input or a turn is final.
THEOREM NothingHappensTwice == Spec => NothingTwice
BY InputsConsumedOnce, TurnsEndOnce DEF NothingTwice

-----------------------------------------------------------------------------
(* No task is lost to a server stop.  A turn the server stopped either waits *)
(* for the next startup, as the latest of its actor, or a startup left it    *)
(* behind; a turn that is continued hands on what its model never saw.       *)

Latest(t) == \A u \in TurnsOf(turns[t].actor) : u <= t
WaitsForStartup(t) ==
    /\ phase # "up"
    /\ turns[t].status = "interrupted" /\ turns[t].actor \in Executable /\ Latest(t)
NoneForgotten == \A t \in Unrecovered : t \in passedOver \/ WaitsForStartup(t)

Unseen(i) == inputs[i].kind = "claimed" /\ inputs[i].actor \in Agents /\ i \notin presented
HandedOn(i) == \E j \in InputIds : inputs[j].restartOf = inputs[i].turn /\ i \in inputs[j].carries
ContinuedHandsOn == \A i \in InputIds :
    Unseen(i) /\ turns[inputs[i].turn].recovery = "continued" => HandedOn(i)

TaskInv == OrderInv /\ NoneForgotten /\ ContinuedHandsOn

Recovery == \E a \in Executable, t \in TurnIds, quick \in BOOLEAN : RecoverTurn(a, t, quick)
\* A turn that gets the server's cause outside a recovery ran until now and is
\* interrupted during an orderly shutdown.
CausesKept == \A t \in TurnIds :
    /\ turns'[t].recovery = turns[t].recovery
    /\ turns'[t].cause # turns[t].cause => turns[t].status = "running" /\ turns'[t].status = "interrupted"
    /\ turns'[t].cause # turns[t].cause /\ turns'[t].cause = "server-stop" =>
          phase = "stopping" /\ phase' = "stopping"

\* Interrupting turns changes the cause of running ones only.
LEMMA InterruptedCauses ==
    ASSUME KernelInv, NEW S \in SUBSET Executable, NEW cause \in {"none", "server-stop"},
           turns' = Interrupted(S, cause),
           cause = "server-stop" => phase = "stopping" /\ phase' = "stopping"
    PROVE  CausesKept
<1> USE DEF KernelInv, Parts, TypeOK
<1> SUFFICES ASSUME NEW t \in TurnIds
             PROVE  /\ turns'[t].recovery = turns[t].recovery
                    /\ turns'[t].cause # turns[t].cause =>
                          turns[t].status = "running" /\ turns'[t].status = "interrupted"
                    /\ turns'[t].cause # turns[t].cause /\ turns'[t].cause = "server-stop" =>
                          phase = "stopping" /\ phase' = "stopping"
  BY DEF CausesKept
<1>1. CASE \E a \in S : lifecycle[a] = Running(t)
  <2>1. turns[t].status = "running"
    BY <1>1 DEF RunningTurnsMatch, Running
  <2>2. turns'[t] = [turns[t] EXCEPT !.status = "interrupted", !.cause = cause]
    BY <1>1 DEF Interrupted
  <2>3. turns[t] \in Turn
    OBVIOUS
  <2>4. turns'[t].status = "interrupted" /\ turns'[t].cause = cause /\ turns'[t].recovery = turns[t].recovery
    BY <2>2, <2>3 DEF Turn
  <2>5. QED
    BY <2>1, <2>4
<1>2. CASE ~ \E a \in S : lifecycle[a] = Running(t)
  <2>1. turns'[t] = turns[t]
    BY <1>2 DEF Interrupted
  <2>2. QED
    BY <2>1
<1>3. QED
  BY <1>1, <1>2

\* Only a startup records recoveries, and only it and the orderly shutdown end a
\* turn with the server's cause.
LEMMA CauseSteps == KernelInv /\ [Next]_vars => UNCHANGED turns \/ Recovery \/ CausesKept
<1> SUFFICES ASSUME KernelInv, [Next]_vars PROVE UNCHANGED turns \/ Recovery \/ CausesKept
  OBVIOUS
<1> USE DEF turnVars
<1>1. CASE UNCHANGED vars
  BY <1>1 DEF vars
<1>2. ASSUME NEW c \in Commanders, ActorCommand(c) PROVE UNCHANGED turns \/ CausesKept
  <2>1. ASSUME NEW a \in Executable, Create(c, a) PROVE UNCHANGED turns
    BY <2>1 DEF Create
  <2>2. ASSUME NEW a \in Executable, NEW i \in InputIds, EnqueueActorInput(c, a, i) PROVE UNCHANGED turns
    BY <2>2 DEF EnqueueActorInput, Enqueue
  <2>3. ASSUME NEW S \in SUBSET Executable, StopAll(S) PROVE CausesKept
    BY <2>3, InterruptedCauses DEF StopAll
  <2>4. ASSUME NEW a \in Executable, StopActor(c, a) PROVE CausesKept
    <3>1. {a} \cup DescendantsOf(a) \subseteq Executable
      BY DEF DescendantsOf, ActiveActors
    <3>2. QED
      BY <2>3, <2>4, <3>1 DEF StopActor
  <2>5. ASSUME NEW S \in SUBSET Executable, StopActors(c, S) PROVE CausesKept
    BY <2>3, <2>5 DEF StopActors
  <2>6. QED
    BY <1>2, <2>1, <2>2, <2>4, <2>5 DEF ActorCommand, SpawnAgent, SpawnAgentWithTask, CreateScriptActor,
       SelectPrimaryActor, CreateSubscription, RemoveSubscription, RestartActor
<1>3. CASE RunCommand
  <2>1. ASSUME NEW i, NEW a, NEW s, Enqueue(i, a, s) PROVE UNCHANGED turns
    BY <2>1 DEF Enqueue
  <2>2. QED
    BY <1>3, <2>1 DEF RunCommand, EnqueueHumanInput, EnqueueAutomaticInput, DeliverSubscription,
       FailSubscription, StopRun
<1>4. ASSUME NEW a \in Executable, TurnCommand(a) PROVE UNCHANGED turns \/ CausesKept
  <2>1. ASSUME NEW i \in InputIds, NEW t \in TurnIds, StartTurn(a, i, t) PROVE CausesKept
    <3>1. turns[t] = AbsentTurn /\ turns' = [turns EXCEPT ![t] = NewTurn(a, i)] /\ turns \in [TurnIds -> Turn]
      BY <2>1 DEF StartTurn, FreshTurn, KernelInv, TypeOK, Parts, Untouched
    <3>2. NewTurn(a, i).cause = AbsentTurn.cause /\ NewTurn(a, i).recovery = AbsentTurn.recovery
      BY DEF NewTurn, AbsentTurn
    <3>3. \A u \in TurnIds : turns'[u].cause = turns[u].cause /\ turns'[u].recovery = turns[u].recovery
      BY <3>1, <3>2
    <3>4. QED
      BY <3>3 DEF CausesKept
  <2>2. ASSUME NEW outcome \in {"completed", "failed"}, FinishTurn(a, outcome) PROVE CausesKept
    <3> DEFINE u == lifecycle[a].turn
    <3>1. turns \in [TurnIds -> Turn] /\ turns' = [turns EXCEPT ![u].status = outcome]
      BY <2>2 DEF FinishTurn, KernelInv, TypeOK
    <3>2. \A t \in TurnIds : turns'[t].cause = turns[t].cause /\ turns'[t].recovery = turns[t].recovery
      BY <3>1 DEF Turn
    <3>3. QED
      BY <3>2 DEF CausesKept
  <2>3. ASSUME NEW cause \in {"none", "server-stop"}, InterruptTurn(a, cause) PROVE CausesKept
    BY <2>3, InterruptedCauses DEF InterruptTurn, processVars
  <2>4. QED
    BY <1>4, <2>1, <2>2, <2>3 DEF TurnCommand, SteerInputs, PresentModelInput, StartToolCall, EndToolCall
<1>5. CASE ProcessStep
  BY <1>5 DEF ProcessStep, Recovery, Shutdown, Restart, FinishRecovery
<1>6. QED
  BY <1>1, <1>2, <1>3, <1>4, <1>5 DEF Next

\* A server is up again only when a startup has finished, which remembers the turns
\* it left behind; nobody else forgets or adds one.  What was shown stays shown.
LEMMA StartupSteps == [Next]_vars =>
    /\ presented \subseteq presented'
    /\ \/ passedOver' = passedOver /\ (phase' = "up" => phase = "up")
       \/ FinishRecovery
<1> SUFFICES ASSUME [Next]_vars
             PROVE  /\ presented \subseteq presented'
                    /\ (passedOver' = passedOver /\ (phase' = "up" => phase = "up")) \/ FinishRecovery
  OBVIOUS
<1> USE DEF inputVars, processVars
<1>1. CASE UNCHANGED vars
  BY <1>1 DEF vars
<1>2. ASSUME NEW c \in Commanders, ActorCommand(c) PROVE UNCHANGED <<presented, passedOver, phase>>
  BY <1>2 DEF ActorCommand, SpawnAgent, SpawnAgentWithTask, CreateScriptActor, Create, SelectPrimaryActor,
     EnqueueActorInput, Enqueue, CreateSubscription, RemoveSubscription, StopActor, StopActors, StopAll,
     RestartActor
<1>3. CASE RunCommand
  BY <1>3 DEF RunCommand, EnqueueHumanInput, EnqueueAutomaticInput, Enqueue, DeliverSubscription,
     FailSubscription, StopRun
<1>4. ASSUME NEW a \in Executable, TurnCommand(a)
      PROVE  UNCHANGED <<passedOver, phase>> /\ presented \subseteq presented'
  BY <1>4 DEF TurnCommand, StartTurn, SteerInputs, PresentModelInput, StartToolCall, EndToolCall,
     FinishTurn, InterruptTurn
<1>5. CASE ProcessStep
  BY <1>5 DEF ProcessStep, Shutdown, Restart, RecoverTurn, FinishRecovery
<1>6. QED
  BY <1>1, <1>2, <1>3, <1>4, <1>5 DEF Next

\* What a startup does with a turn is an outcome, and never "none".
LEMMA OutcomeRecorded ==
    ASSUME KernelInv, NEW a \in Executable, NEW t \in TurnIds, NEW quick \in BOOLEAN, RecoverTurn(a, t, quick)
    PROVE  /\ turns'[t].recovery = RecoveryOutcome(a, t, quick) /\ turns'[t].recovery # "none"
           /\ \A u \in TurnIds : u # t => turns'[u] = turns[u]
<1>1. turns \in [TurnIds -> Turn] /\ turns' = Recovered(t, RecoveryOutcome(a, t, quick))
  BY DEF RecoverTurn, KernelInv, TypeOK
<1>2. policy \in {"enabled", "disabled", "unavailable"}
  BY KernelAssumption DEF RecoverTurn, KernelInv, TypeOK
<1>3. RecoveryOutcome(a, t, quick) # "none"
  BY <1>2 DEF RecoveryOutcome
<1>4. turns'[t].recovery = RecoveryOutcome(a, t, quick)
  BY <1>1 DEF Recovered, Turn
<1>5. \A u \in TurnIds : u # t => turns'[u] = turns[u]
  BY <1>1 DEF Recovered
<1>6. QED
  BY <1>3, <1>4, <1>5

\* No step forgets a turn that the server stopped.
LEMMA StepNoneForgotten == OrderInv /\ NoneForgotten /\ [Next]_vars => NoneForgotten'
<1> SUFFICES ASSUME OrderInv, NoneForgotten, [Next]_vars, NEW t \in TurnIds,
                    turns'[t].cause = "server-stop", turns'[t].recovery = "none"
             PROVE  t \in passedOver' \/ WaitsForStartup(t)'
  BY DEF NoneForgotten, Unrecovered
<1> USE DEF OrderInv, KernelInv
<1>1. turns \in [TurnIds -> Turn]
  BY DEF TypeOK
<1>2. CASE FinishRecovery
  BY <1>2 DEF FinishRecovery, turnVars, Unrecovered
<1>3. ASSUME passedOver' = passedOver, phase' = "up" => phase = "up"
      PROVE  t \in passedOver' \/ WaitsForStartup(t)'
  <2>1. CASE UNCHANGED turns
    BY <1>3, <2>1 DEF NoneForgotten, Unrecovered, WaitsForStartup, Latest, TurnsOf
  <2>2. CASE Starts
    <3>1. PICK a \in Executable, i \in InputIds, u \in TurnIds :
              phase = "up" /\ turns' = [turns EXCEPT ![u] = NewTurn(a, i)]
      BY <2>2 DEF Starts
    <3>2. NewTurn(a, i).cause = "none"
      BY DEF NewTurn, AbsentTurn
    <3>3. turns'[t] = turns[t]
      BY <1>1, <3>1, <3>2
    <3>4. QED
      BY <1>3, <3>1, <3>3 DEF NoneForgotten, Unrecovered, WaitsForStartup
  <2>3. CASE TurnsEnd
    <3>1. /\ turns'[t].actor = turns[t].actor
          /\ Latest(t) => Latest(t)'
      BY <2>3 DEF TurnsEnd, Ends, Recovers, Latest, TurnsOf
    <3>2. CASE turns[t].cause = "server-stop" /\ turns[t].recovery = "none"
      <4>1. t \in passedOver \/ WaitsForStartup(t)
        BY <3>2 DEF NoneForgotten, Unrecovered
      <4>2. turns[t].status = "interrupted" => turns'[t].status = "interrupted"
        BY <2>3 DEF TurnsEnd, Ends, Recovers
      <4>3. QED
        BY <1>3, <3>1, <4>1, <4>2 DEF WaitsForStartup
    <3>3. CASE Recovery
      <4>1. PICK a \in Executable, u \in TurnIds, quick \in BOOLEAN : RecoverTurn(a, u, quick)
        BY <3>3 DEF Recovery
      <4>2. turns'[t] = turns[t]
        BY <4>1, OutcomeRecorded
      <4>3. QED
        BY <3>2, <4>2
    <3>4. CASE CausesKept /\ turns[t].cause # "server-stop"
      <4>1. /\ turns[t].status = "running" /\ turns'[t].status = "interrupted"
            /\ phase' = "stopping"
        BY <3>4 DEF CausesKept
      <4>2. turns[t].actor \in Executable /\ Latest(t)
        BY <4>1 DEF Parts, RunningTurnsMatch, InOrder, Latest
      <4>3. QED
        BY <3>1, <4>1, <4>2 DEF WaitsForStartup
    <3>5. CASE CausesKept /\ turns[t].recovery # "none"
      BY <3>5 DEF CausesKept
    <3>6. QED
      BY <2>1, <3>2, <3>3, <3>4, <3>5, CauseSteps
  <2>4. QED
    BY <2>1, <2>2, <2>3, TurnSteps
<1>4. QED
  BY <1>2, <1>3, StartupSteps

\* How a step changes an input that is already there: never what it continues and
\* carries, and if a turn claims it, that turn runs.
LEMMA InputKept ==
    ASSUME KernelInv, [Next]_vars, NEW i \in InputIds, inputs[i].kind # "absent"
    PROVE  /\ inputs'[i].restartOf = inputs[i].restartOf /\ inputs'[i].carries = inputs[i].carries
           /\ inputs'[i].actor = inputs[i].actor
           /\ inputs'[i].kind = "claimed" =>
                 inputs'[i] = inputs[i] \/ turns'[inputs'[i].turn].status = "running"
<1>1. inputs \in [InputIds -> Input]
  BY DEF KernelInv, TypeOK
<1>2. CASE Appends
  <2>1. inputs'[i] = inputs[i]
    BY <1>1, <1>2 DEF Appends
  <2>2. QED
    BY <2>1
<1>3. CASE Discards
  BY <1>1, <1>3 DEF Discards, Discarded, Input
<1>4. CASE Claims
  <2>1. PICK S \in SUBSET InputIds, t \in TurnIds : turns'[t].status = "running" /\ inputs' = Claimed(S, t)
    BY <1>4 DEF Claims
  <2>2. CASE i \in S
    <3>1. inputs'[i] = [inputs[i] EXCEPT !.kind = "claimed", !.turn = t]
      BY <2>1, <2>2 DEF Claimed
    <3>2. inputs[i] \in Input
      BY <1>1
    <3>3. /\ inputs'[i].restartOf = inputs[i].restartOf /\ inputs'[i].carries = inputs[i].carries
          /\ inputs'[i].actor = inputs[i].actor /\ inputs'[i].turn = t
      BY <3>1, <3>2 DEF Input
    <3>4. QED
      BY <2>1, <3>3
  <2>3. CASE i \notin S
    <3>1. inputs'[i] = inputs[i]
      BY <2>1, <2>3 DEF Claimed
    <3>2. QED
      BY <3>1
  <2>4. QED
    BY <2>2, <2>3
<1>5. QED
  BY <1>2, <1>3, <1>4, InputSteps

\* Every step keeps the hand-over of a continued turn.
LEMMA StepContinuedHandsOn == KernelInv /\ KernelInv' /\ ContinuedHandsOn /\ [Next]_vars => ContinuedHandsOn'
<1> SUFFICES ASSUME KernelInv, KernelInv', ContinuedHandsOn, [Next]_vars, NEW i \in InputIds,
                    Unseen(i)', turns'[inputs'[i].turn].recovery = "continued"
             PROVE  HandedOn(i)'
  BY DEF ContinuedHandsOn
<1> DEFINE t == inputs[i].turn
<1>1. inputs \in [InputIds -> Input] /\ turns \in [TurnIds -> Turn]
  BY DEF KernelInv, TypeOK
<1>2. inputs'[i].turn \in TurnIds /\ turns'[inputs'[i].turn].status = "interrupted"
  BY DEF KernelInv, Parts, ClaimsMatchTurns, RecoveredTurnsEnded, Unseen
<1>3. inputs[i].kind # "absent"
  <2> SUFFICES ASSUME inputs[i].kind = "absent" PROVE FALSE
    OBVIOUS
  <2>1. CASE Appends
    BY <1>1, <2>1 DEF Appends, Unseen
  <2>2. CASE Discards
    BY <2>2 DEF Discards, Discarded, Unseen
  <2>3. CASE Claims
    BY <2>3 DEF Claims, Claimed, Unseen
  <2>4. QED
    BY <2>1, <2>2, <2>3, InputSteps DEF Unseen
<1>4. inputs'[i] = inputs[i]
  BY <1>2, <1>3, InputKept DEF Unseen
<1>5. Unseen(i) /\ t \in TurnIds
  BY <1>2, <1>4, StartupSteps DEF Unseen
<1>6. CASE turns[t].recovery = "continued"
  <2>1. PICK j \in InputIds : inputs[j].restartOf = t /\ i \in inputs[j].carries
    BY <1>5, <1>6 DEF ContinuedHandsOn, HandedOn
  <2>2. inputs[j].kind # "absent"
    BY <2>1 DEF KernelInv, Parts, Untouched, AbsentInput
  <2>3. inputs'[j].restartOf = t /\ i \in inputs'[j].carries
    BY <2>1, <2>2, InputKept
  <2>4. QED
    BY <1>4, <2>3 DEF HandedOn
<1>7. CASE turns[t].recovery # "continued"
  <2>1. turns'[t].recovery # turns[t].recovery
    BY <1>4, <1>7
  <2>2. PICK a \in Executable, u \in TurnIds, quick \in BOOLEAN : RecoverTurn(a, u, quick)
    BY <1>5, <2>1, CauseSteps DEF Recovery, CausesKept
  <2>3. t = u /\ RecoveryOutcome(a, t, quick) = "continued"
    BY <1>4, <1>5, <2>1, <2>2, OutcomeRecorded
  <2>4. PICK j \in InputIds : FreshInput(j) /\ inputs' = [inputs EXCEPT ![j] = Continuation(a, t)]
    BY <2>2, <2>3 DEF RecoverTurn
  <2>5. a \in Agents /\ a \notin Scripts
    <3>1. turns[t].actor = a
      BY <2>2, <2>3 DEF RecoverTurn, ToRecover, TurnsOf
    <3>2. inputs[i].actor = a
      BY <1>5, <3>1 DEF KernelInv, Parts, ClaimsMatchTurns, Unseen
    <3>3. QED
      BY <1>5, <3>2, KernelAssumption DEF Unseen
  <2>6. Continuation(a, t).restartOf = t /\ Continuation(a, t).carries = ClaimedBy(t) \ presented
    BY <2>5 DEF Continuation, NewInput, AbsentInput
  <2>7. i \in ClaimedBy(t) \ presented
    BY <1>5 DEF ClaimedBy, Unseen
  <2>8. inputs'[j] = Continuation(a, t)
    BY <1>1, <2>4
  <2>9. QED
    BY <1>4, <2>6, <2>7, <2>8 DEF HandedOn
<1>8. QED
  BY <1>6, <1>7

\* The invariant about stopped turns, for any sequence of crashes and startups.
LEMMA TaskInvariant == Spec => []TaskInv
<1>1. Init => InOrder /\ NoneForgotten /\ ContinuedHandsOn
  BY DEF Init, InOrder, NoneForgotten, Unrecovered, ContinuedHandsOn, Unseen, AbsentTurn, AbsentInput
<1>2. KernelInv /\ KernelInv' /\ InOrder /\ NoneForgotten /\ ContinuedHandsOn /\ [Next]_vars =>
          InOrder' /\ NoneForgotten' /\ ContinuedHandsOn'
  BY StepInOrder, StepNoneForgotten, StepContinuedHandsOn DEF OrderInv
<1>3. QED
  BY <1>1, <1>2, KernelInvariant, PTL DEF Spec, TaskInv, OrderInv

\* However often the server stops, crashes and starts: an input that a turn of an
\* agent claimed and its model never saw is in a turn that the server did not stop,
\* still to be recovered, given up with a recorded outcome, or carried by the
\* continuation.
THEOREM NoTaskLost == Spec => []ClaimedInputAccountedFor
<1>1. TaskInv => ClaimedInputAccountedFor
  <2> SUFFICES ASSUME TaskInv, NEW i \in InputIds, Unseen(i)
               PROVE  LET t == inputs[i].turn
                          a == inputs[i].actor
                      IN  \/ turns[t].status # "interrupted"
                          \/ turns[t].cause = "none"
                          \/ turns[t].recovery \notin {"none", "continued"}
                          \/ turns[t].recovery = "none" /\ (t \in passedOver \/ ~Active(a) \/ t \in ToRecover(a))
                          \/ \E j \in InputIds : inputs[j].restartOf = t /\ i \in inputs[j].carries
    BY DEF ClaimedInputAccountedFor, Unseen
  <2> DEFINE t == inputs[i].turn
             a == inputs[i].actor
  <2>1. t \in TurnIds /\ turns[t].actor = a /\ turns[t].status # "absent" /\ turns[t] \in Turn
    BY DEF TaskInv, OrderInv, KernelInv, TypeOK, Parts, ClaimsMatchTurns, Unseen
  <2>2. turns[t].cause \in {"none", "server-stop"}
    BY <2>1 DEF Turn
  <2>3. CASE turns[t].cause = "server-stop" /\ turns[t].recovery = "none"
    <3>1. t \in passedOver \/ WaitsForStartup(t)
      BY <2>1, <2>3 DEF TaskInv, NoneForgotten, Unrecovered
    <3>2. WaitsForStartup(t) /\ Active(a) => t \in ToRecover(a)
      BY <2>1, <2>3 DEF WaitsForStartup, Latest, ToRecover, TurnsOf
    <3>3. QED
      BY <2>3, <3>1, <3>2
  <2>4. CASE turns[t].recovery = "continued"
    BY <2>4 DEF TaskInv, ContinuedHandsOn, HandedOn
  <2>5. QED
    BY <2>2, <2>3, <2>4
<1>2. QED
  BY <1>1, TaskInvariant, PTL

-----------------------------------------------------------------------------
(* What stopped actors and removed subscriptions leave behind *)

\* A step that ends no activity and touches neither subscriptions nor the primary
\* actor keeps a stopped actor quiet.
LEMMA QuietKept ==
    ASSUME StoppedIsQuiet, UNCHANGED <<subs, primary>>,
           \A a \in Executable : Active(a) => lifecycle'[a].kind \in {"idle", "running"},
           primary \in Executable \cup {None}
    PROVE  StoppedIsQuiet'
  BY DEF StoppedIsQuiet, Active

\* Every command takes from the actors it stops what could wake them.
LEMMA StepQuiet == KernelInv /\ StoppedIsQuiet /\ [Next]_vars => StoppedIsQuiet'
<1> SUFFICES ASSUME KernelInv, StoppedIsQuiet, [Next]_vars PROVE StoppedIsQuiet'
  OBVIOUS
<1> USE DEF actorVars
<1>1. /\ lifecycle \in [Executable -> Lifecycle] /\ primary \in Executable \cup {None}
      /\ subs \in [Subscriptions -> Subscription] /\ None \notin Executable /\ Selectable \subseteq Executable
  BY KernelAssumption DEF KernelInv, TypeOK
<1>2. ASSUME UNCHANGED <<subs, primary, lifecycle>> PROVE StoppedIsQuiet'
  BY <1>1, <1>2, QuietKept DEF Active
<1>3. ASSUME UNCHANGED <<subs, primary>>, NEW a \in Executable,
             lifecycle'[a].kind \in {"idle", "running"},
             \A b \in Executable : b # a => lifecycle'[b] = lifecycle[b]
      PROVE  StoppedIsQuiet'
  BY <1>1, <1>3, QuietKept DEF Active
<1>4. CASE UNCHANGED vars
  BY <1>2, <1>4 DEF vars
<1>5. ASSUME NEW i, NEW a, NEW s, Enqueue(i, a, s) PROVE StoppedIsQuiet'
  BY <1>2, <1>5 DEF Enqueue
<1>6. ASSUME NEW c \in Commanders, ActorCommand(c) PROVE StoppedIsQuiet'
  <2>1. ASSUME NEW a \in Executable, Create(c, a) PROVE StoppedIsQuiet'
    BY <1>1, <1>3, <2>1 DEF Create, Idle
  <2>2. ASSUME NEW S \in SUBSET Executable, StopAll(S) PROVE StoppedIsQuiet'
    <3>1. \A a \in Executable \ S : lifecycle'[a] = lifecycle[a]
      BY <2>2 DEF StopAll
    <3>2. \A s \in Subscriptions : subs'[s].status = "active" =>
              subs'[s] = subs[s] /\ subs[s].subscriber \notin S
      <4> DEFINE ended == {s \in Subscriptions : subs[s].status = "active" /\ subs[s].subscriber \in S}
      <4>1. subs' = Removed(ended)
        BY <2>2 DEF StopAll
      <4>2. \A s \in ended : subs'[s].status = "removed"
        <5>1. \A x \in Subscription : [x EXCEPT !.status = "removed"].status = "removed"
          BY DEF Subscription
        <5>2. QED
          BY <1>1, <4>1, <5>1 DEF Removed
      <4>3. \A s \in Subscriptions : s \notin ended => subs'[s] = subs[s]
        BY <4>1 DEF Removed
      <4>4. QED
        BY <4>2, <4>3
    <3>3. primary' = None \/ (primary' = primary /\ primary \notin S)
      BY <2>2 DEF StopAll
    <3>4. QED
      BY <1>1, <3>1, <3>2, <3>3 DEF StoppedIsQuiet, Active
  <2>3. ASSUME NEW a \in Executable, StopActor(c, a) PROVE StoppedIsQuiet'
    <3>1. {a} \cup DescendantsOf(a) \subseteq Executable
      BY DEF DescendantsOf, ActiveActors
    <3>2. QED
      BY <2>2, <2>3, <3>1 DEF StopActor
  <2>4. ASSUME NEW S \in SUBSET Executable, StopActors(c, S) PROVE StoppedIsQuiet'
    BY <2>2, <2>4 DEF StopActors
  <2>5. ASSUME NEW a \in Selectable, SelectPrimaryActor(c, a) PROVE StoppedIsQuiet'
    BY <1>1, <2>5 DEF SelectPrimaryActor, StoppedIsQuiet, Active
  <2>6. ASSUME NEW a \in Executable, NEW i \in InputIds, EnqueueActorInput(c, a, i) PROVE StoppedIsQuiet'
    BY <1>5, <2>6 DEF EnqueueActorInput
  <2>7. ASSUME NEW a \in Executable, NEW s \in Subscriptions, CreateSubscription(c, a, s) PROVE StoppedIsQuiet'
    <3>1. /\ Active(a) /\ subs'[s].subscriber = a
          /\ \A r \in Subscriptions : r # s => subs'[r] = subs[r]
      BY <1>1, <2>7 DEF CreateSubscription
    <3>2. UNCHANGED <<lifecycle, primary>>
      BY <2>7 DEF CreateSubscription
    <3>3. QED
      BY <1>1, <3>1, <3>2 DEF StoppedIsQuiet, Active
  <2>8. ASSUME NEW s \in Subscriptions, RemoveSubscription(c, s) PROVE StoppedIsQuiet'
    <3>1. \A r \in Subscriptions : subs'[r].subscriber = subs[r].subscriber
                                      /\ (subs'[r].status = "active" => subs[r].status = "active")
      <4>1. \A x \in Subscription : [x EXCEPT !.status = "removed"].subscriber = x.subscriber
                                       /\ [x EXCEPT !.status = "removed"].status = "removed"
        BY DEF Subscription
      <4>2. QED
        BY <1>1, <2>8, <4>1 DEF RemoveSubscription, Removed
    <3>2. UNCHANGED <<lifecycle, primary>>
      BY <2>8 DEF RemoveSubscription
    <3>3. QED
      BY <1>1, <3>1, <3>2 DEF StoppedIsQuiet, Active
  <2>9. ASSUME NEW a \in Executable, RestartActor(c, a) PROVE StoppedIsQuiet'
    <3>1. /\ lifecycle'[a].kind = "idle" /\ subs' = subs
          /\ \A b \in Executable : b # a => lifecycle'[b] = lifecycle[b]
          /\ primary' \in {a, primary}
      BY <1>1, <2>9 DEF RestartActor, Idle
    <3>2. QED
      BY <1>1, <3>1 DEF StoppedIsQuiet, Active
  <2>10. QED
    BY <1>6, <2>1, <2>3, <2>4, <2>5, <2>6, <2>7, <2>8, <2>9 DEF ActorCommand, SpawnAgent, SpawnAgentWithTask,
       CreateScriptActor
<1>7. CASE RunCommand
  <2>1. ASSUME NEW s \in Subscriptions, FailSubscription(s) PROVE StoppedIsQuiet'
    <3>1. /\ subs'[s].status = "failed"
          /\ \A r \in Subscriptions : r # s => subs'[r] = subs[r]
      <4>1. \A x \in Subscription : [x EXCEPT !.status = "failed"].status = "failed"
        BY DEF Subscription
      <4>2. QED
        BY <1>1, <2>1, <4>1 DEF FailSubscription
    <3>2. UNCHANGED <<lifecycle, primary>>
      BY <2>1 DEF FailSubscription
    <3>3. QED
      BY <1>1, <3>1, <3>2 DEF StoppedIsQuiet, Active
  <2>2. QED
    BY <1>2, <1>5, <1>7, <2>1 DEF RunCommand, EnqueueHumanInput, EnqueueAutomaticInput, DeliverSubscription, StopRun
<1>8. ASSUME NEW a \in Executable, TurnCommand(a) PROVE StoppedIsQuiet'
  <2>1. ASSUME NEW i \in InputIds, NEW t \in TurnIds, StartTurn(a, i, t) PROVE StoppedIsQuiet'
    BY <1>1, <1>3, <2>1 DEF StartTurn, Running
  <2>2. ASSUME NEW outcome \in {"completed", "failed"}, FinishTurn(a, outcome) PROVE StoppedIsQuiet'
    BY <1>1, <1>3, <2>2 DEF FinishTurn, Idle
  <2>3. ASSUME NEW cause \in {"none", "server-stop"}, InterruptTurn(a, cause) PROVE StoppedIsQuiet'
    BY <1>1, <1>3, <2>3 DEF InterruptTurn, Idle
  <2>4. QED
    BY <1>2, <1>8, <2>1, <2>2, <2>3 DEF TurnCommand, SteerInputs, PresentModelInput, StartToolCall, EndToolCall
<1>9. CASE ProcessStep
  <2>1. ASSUME NEW a \in Executable, NEW t \in TurnIds, NEW quick \in BOOLEAN, RecoverTurn(a, t, quick)
        PROVE  StoppedIsQuiet'
    <3>1. /\ UNCHANGED <<subs, primary>> /\ lifecycle'[a].kind \in {"idle", "running"}
          /\ \A b \in Executable : b # a => lifecycle'[b] = lifecycle[b]
      BY <1>1, <2>1 DEF RecoverTurn, ToRecover, Active, Idle
    <3>2. QED
      BY <1>3, <3>1
  <2>2. QED
    BY <1>2, <1>9, <2>1 DEF ProcessStep, Shutdown, Restart, FinishRecovery
<1>10. QED
  BY <1>4, <1>6, <1>7, <1>8, <1>9 DEF Next

\* A stopped actor keeps no active subscription and not the place of the primary
\* actor, whichever branch of whatever depth is stopped, and through restarts.
THEOREM StoppedStaysQuiet == Spec => []StoppedIsQuiet
<1>1. Init => StoppedIsQuiet
  BY DEF Init, StoppedIsQuiet, AbsentSubscription
<1>2. QED
  BY <1>1, StepQuiet, KernelInvariant, PTL DEF Spec

\* An input that waits in the name of a removed subscription is a replay.
Drained(i) == inputs[i].kind = "pending" /\ inputs[i].sub # None =>
    subs[inputs[i].sub].status # "removed" \/ inputs[i].restartOf # NoTurn

\* Removing subscriptions together with what they queued leaves nothing of theirs.
LEMMA RemovalDrains ==
    ASSUME KernelInv, RemovedSubscriptionDrained, NEW S \in SUBSET Subscriptions,
           subs' = Removed(S), inputs' = Discarded(PendingOf(S))
    PROVE  RemovedSubscriptionDrained'
<1>1. /\ inputs \in [InputIds -> Input] /\ subs \in [Subscriptions -> Subscription]
  BY DEF KernelInv, TypeOK
<1> SUFFICES ASSUME NEW i \in InputIds PROVE Drained(i)'
  BY DEF RemovedSubscriptionDrained, Drained
<1>2. CASE i \in PendingOf(S)
  <2>1. \A x \in Input : [x EXCEPT !.kind = "discarded"].kind = "discarded"
    BY DEF Input
  <2>2. inputs'[i].kind = "discarded"
    BY <1>1, <1>2, <2>1 DEF Discarded
  <2>3. QED
    BY <2>2 DEF Drained
<1>3. CASE i \notin PendingOf(S)
  <2>1. inputs'[i] = inputs[i]
    BY <1>3 DEF Discarded
  <2>2. inputs[i].kind = "pending" => inputs[i].sub \notin S
    BY <1>3 DEF PendingOf
  <2>3. inputs[i].sub # None => inputs[i].sub \in Subscriptions
    BY <1>1 DEF Input
  <2>4. \A s \in Subscriptions : s \notin S => subs'[s] = subs[s]
    BY DEF Removed
  <2>5. QED
    BY <2>1, <2>2, <2>3, <2>4 DEF RemovedSubscriptionDrained, Drained
<1>4. QED
  BY <1>2, <1>3

\* Every step that removes a subscription discards what it queued, and a removed
\* subscription queues nothing more.
LEMMA StepDrained == KernelInv /\ RemovedSubscriptionDrained /\ [Next]_vars => RemovedSubscriptionDrained'
<1> SUFFICES ASSUME KernelInv, RemovedSubscriptionDrained, [Next]_vars PROVE RemovedSubscriptionDrained'
  OBVIOUS
<1> USE DEF inputVars
<1>1. /\ inputs \in [InputIds -> Input] /\ subs \in [Subscriptions -> Subscription]
  BY DEF KernelInv, TypeOK
<1>2. ASSUME UNCHANGED <<subs, inputs>> PROVE RemovedSubscriptionDrained'
  BY <1>2 DEF RemovedSubscriptionDrained
<1>3. ASSUME UNCHANGED subs, NEW i \in InputIds, NEW x, inputs' = [inputs EXCEPT ![i] = x],
             x.sub = None \/ subs[x.sub].status = "active" \/ x.restartOf # NoTurn
      PROVE  RemovedSubscriptionDrained'
  BY <1>1, <1>3 DEF RemovedSubscriptionDrained
<1>4. ASSUME UNCHANGED inputs,
             \A s \in Subscriptions : subs'[s].status = "removed" => subs[s].status = "removed"
      PROVE  RemovedSubscriptionDrained'
  <2>1. \A i \in InputIds : inputs[i].sub # None => inputs[i].sub \in Subscriptions
    BY <1>1 DEF Input
  <2>2. QED
    BY <1>4, <2>1 DEF RemovedSubscriptionDrained
<1>5. \A a, s : NewInput(a, s).sub = s
  BY DEF NewInput, AbsentInput
<1>6. ASSUME NEW i \in InputIds, NEW a, Enqueue(i, a, None) PROVE RemovedSubscriptionDrained'
  BY <1>3, <1>5, <1>6 DEF Enqueue
<1>7. CASE UNCHANGED vars
  BY <1>2, <1>7 DEF vars
<1>8. ASSUME NEW c \in Commanders, ActorCommand(c) PROVE RemovedSubscriptionDrained'
  <2>1. ASSUME NEW a \in Executable, SpawnAgent(c, a) \/ CreateScriptActor(c, a) \/ RestartActor(c, a)
        PROVE  RemovedSubscriptionDrained'
    BY <1>2, <2>1 DEF SpawnAgent, CreateScriptActor, Create, RestartActor
  <2>2. ASSUME NEW a \in Executable, NEW i \in InputIds, SpawnAgentWithTask(c, a, i)
        PROVE  RemovedSubscriptionDrained'
    BY <1>3, <1>5, <2>2 DEF SpawnAgentWithTask, Create
  <2>3. ASSUME NEW a \in Selectable, SelectPrimaryActor(c, a) PROVE RemovedSubscriptionDrained'
    BY <1>2, <2>3 DEF SelectPrimaryActor
  <2>4. ASSUME NEW a \in Executable, NEW i \in InputIds, EnqueueActorInput(c, a, i)
        PROVE  RemovedSubscriptionDrained'
    BY <1>6, <2>4 DEF EnqueueActorInput
  <2>5. ASSUME NEW a \in Executable, NEW s \in Subscriptions, CreateSubscription(c, a, s)
        PROVE  RemovedSubscriptionDrained'
    <3>1. UNCHANGED inputs /\ subs'[s].status = "active"
          /\ \A r \in Subscriptions : r # s => subs'[r] = subs[r]
      BY <1>1, <2>5 DEF CreateSubscription
    <3>2. \A r \in Subscriptions : subs'[r].status = "removed" => subs[r].status = "removed"
      BY <3>1
    <3>3. QED
      BY <1>4, <3>1, <3>2
  <2>6. ASSUME NEW s \in Subscriptions, RemoveSubscription(c, s) PROVE RemovedSubscriptionDrained'
    <3>1. {s} \in SUBSET Subscriptions
      OBVIOUS
    <3>2. subs' = Removed({s}) /\ inputs' = Discarded(PendingOf({s}))
      BY <2>6 DEF RemoveSubscription
    <3>3. QED
      BY <3>1, <3>2, RemovalDrains
  <2>7. ASSUME NEW S, StopAll(S) PROVE RemovedSubscriptionDrained'
    <3> DEFINE ended == {s \in Subscriptions : subs[s].status = "active" /\ subs[s].subscriber \in S}
    <3>1. subs' = Removed(ended) /\ inputs' = Discarded(PendingOf(ended)) /\ ended \in SUBSET Subscriptions
      BY <2>7 DEF StopAll
    <3> HIDE DEF ended
    <3>2. QED
      BY <3>1, RemovalDrains
  <2>8. ASSUME NEW a \in Executable, StopActor(c, a) PROVE RemovedSubscriptionDrained'
    BY <2>7, <2>8 DEF StopActor
  <2>9. ASSUME NEW S \in SUBSET Executable, StopActors(c, S) PROVE RemovedSubscriptionDrained'
    BY <2>7, <2>9 DEF StopActors
  <2>10. QED
    BY <1>8, <2>1, <2>2, <2>3, <2>4, <2>5, <2>6, <2>8, <2>9 DEF ActorCommand
<1>9. CASE RunCommand
  <2>1. ASSUME NEW s \in Subscriptions, NEW i \in InputIds, DeliverSubscription(s, i)
        PROVE  RemovedSubscriptionDrained'
    BY <1>3, <1>5, <2>1 DEF DeliverSubscription, Enqueue
  <2>2. ASSUME NEW s \in Subscriptions, FailSubscription(s) PROVE RemovedSubscriptionDrained'
    <3>1. \A r \in Subscriptions : subs'[r].status = "removed" => subs[r].status = "removed"
      <4>1. \A x \in Subscription : [x EXCEPT !.status = "failed"].status = "failed"
        BY DEF Subscription
      <4>2. QED
        BY <1>1, <2>2, <4>1 DEF FailSubscription
    <3>2. QED
      BY <1>4, <2>2, <3>1 DEF FailSubscription
  <2>3. QED
    BY <1>2, <1>6, <1>9, <2>1, <2>2 DEF RunCommand, EnqueueHumanInput, EnqueueAutomaticInput, StopRun
<1>10. ASSUME NEW a \in Executable, TurnCommand(a) PROVE RemovedSubscriptionDrained'
  <2>1. ASSUME NEW S, NEW t, inputs' = Claimed(S, t), UNCHANGED subs PROVE RemovedSubscriptionDrained'
    <3>1. \A i \in InputIds : inputs'[i].kind = "pending" => inputs'[i] = inputs[i]
      <4>1. \A x \in Input : [x EXCEPT !.kind = "claimed", !.turn = t].kind = "claimed"
        BY DEF Input
      <4>2. QED
        BY <1>1, <2>1, <4>1 DEF Claimed
    <3>2. QED
      BY <2>1, <3>1 DEF RemovedSubscriptionDrained
  <2>2. QED
    BY <1>2, <1>10, <2>1 DEF TurnCommand, StartTurn, SteerInputs, PresentModelInput, StartToolCall,
       EndToolCall, FinishTurn, InterruptTurn
<1>11. CASE ProcessStep
  <2>1. ASSUME NEW a \in Executable, NEW t \in TurnIds, NEW quick \in BOOLEAN, RecoverTurn(a, t, quick)
        PROVE  RemovedSubscriptionDrained'
    <3>1. Continuation(a, t).restartOf = t /\ t # NoTurn
      BY KernelAssumption DEF Continuation, NewInput, AbsentInput, NoTurn, TurnIds
    <3>2. UNCHANGED subs
      BY <2>1 DEF RecoverTurn
    <3>3. QED
      BY <1>2, <1>3, <2>1, <3>1, <3>2 DEF RecoverTurn
  <2>2. QED
    BY <1>2, <1>11, <2>1 DEF ProcessStep, Shutdown, Restart, FinishRecovery
<1>12. QED
  BY <1>7, <1>8, <1>9, <1>10, <1>11 DEF Next

\* Nothing that a removed subscription delivered still waits, but for the replay of
\* an interrupted handler, in whatever order deliveries, claims and removals come.
THEOREM RemovedStaysDrained == Spec => []RemovedSubscriptionDrained
<1>1. Init => RemovedSubscriptionDrained
  BY DEF Init, RemovedSubscriptionDrained, AbsentInput
<1>2. QED
  BY <1>1, StepDrained, KernelInvariant, PTL DEF Spec

\* Neither a stopped actor nor a removed subscription leaves anything behind that could wake or stand for an actor.
THEOREM NothingWakesTheStopped == Spec => []NothingLeftToWake
BY StoppedStaysQuiet, RemovedStaysDrained, PTL DEF NothingLeftToWake

-----------------------------------------------------------------------------
(* The branch of an actor *)

\* Induction over the natural numbers, for the numbers of a set.
LEMMA CountingUp ==
    ASSUME NEW S, 0 \in S, \A n \in Nat : n \in S => n + 1 \in S
    PROVE  Nat \subseteq S
<1> SUFFICES ASSUME Nat \ S # {} PROVE FALSE
  OBVIOUS
<1> DEFINE R == {ss \in Nat \X Nat : ss[1] < ss[2]}
<1>1. IsWellFoundedOn(R, Nat)
  BY NatLessThanWellFounded DEF OpToRel
<1> HIDE DEF R
<1>2. \E x \in Nat \ S : \A y \in Nat \ S : ~(<<y, x>> \in R)
  BY <1>1, WFMin
<1>3. PICK x \in Nat \ S : \A y \in Nat \ S : ~(<<y, x>> \in R)
  BY <1>2
<1>4. x # 0 /\ x - 1 \in Nat
  OBVIOUS
<1>5. <<x - 1, x>> \in R
  BY <1>4 DEF R
<1>6. x - 1 \in S
  BY <1>3, <1>4, <1>5
<1>7. QED
  BY <1>4, <1>6

\* The actors reached from the root in n steps down.
WalkDown(f, root, N) ==
    f = [n \in 0..N |-> IF n = 0 THEN {root} ELSE f[n - 1] \cup {b \in Executable : creator[b] \in f[n - 1]}]

\* The actors found in n steps up from the creator of a.
WalkUp(f, a, N) ==
    f = [n \in 0..N |-> IF n = 0 THEN {creator[a]} ELSE f[n - 1] \cup {creator[b] : b \in f[n - 1] \cap Executable}]

\* The walk down has a value for every number of steps: CHOOSE in DescendantsOf finds it.
LEMMA WalksDown ==
    ASSUME NEW root, NEW N \in Nat
    PROVE  \E f : WalkDown(f, root, N)
<1> DEFINE S == {k \in Nat : \E f : WalkDown(f, root, k)}
<1>1. 0 \in S
  <2> DEFINE g == [n \in 0..0 |-> {root}]
  <2>1. WalkDown(g, root, 0)
    BY DEF WalkDown
  <2>2. QED
    BY <2>1
<1>2. ASSUME NEW k \in Nat, k \in S PROVE k + 1 \in S
  <2>1. PICK f : WalkDown(f, root, k)
    BY <1>2
  <2> DEFINE next == f[k] \cup {b \in Executable : creator[b] \in f[k]}
  <2>2. PICK g : g = [n \in 0..(k + 1) |-> IF n = k + 1 THEN next ELSE f[n]]
    OBVIOUS
  <2>3. \A n \in 0..k : g[n] = f[n]
    BY <2>2
  <2>4. \A n \in 0..k : f[n] = IF n = 0 THEN {root} ELSE f[n - 1] \cup {b \in Executable : creator[b] \in f[n - 1]}
    BY <2>1 DEF WalkDown
  <2>5. ASSUME NEW n \in 0..(k + 1)
        PROVE  g[n] = IF n = 0 THEN {root} ELSE g[n - 1] \cup {b \in Executable : creator[b] \in g[n - 1]}
    <3>1. CASE n = k + 1
      <4>1. g[n] = next /\ n # 0 /\ n - 1 = k /\ g[k] = f[k]
        BY <2>2, <2>3, <3>1
      <4>2. QED
        BY <4>1
    <3>2. CASE n # k + 1 /\ n # 0
      <4>1. n \in 0..k /\ n - 1 \in 0..k
        BY <3>2
      <4>2. g[n] = f[n] /\ g[n - 1] = f[n - 1]
        BY <2>3, <4>1
      <4>3. QED
        BY <2>4, <3>2, <4>1, <4>2
    <3>3. CASE n = 0
      <4>1. n \in 0..k
        BY <3>3
      <4>2. g[n] = f[n]
        BY <2>3, <4>1
      <4>3. QED
        BY <2>4, <3>3, <4>1, <4>2
    <3>4. QED
      BY <3>1, <3>2, <3>3
  <2>6. WalkDown(g, root, k + 1)
    BY <2>2, <2>5 DEF WalkDown
  <2>7. QED
    BY <2>6
<1>3. Nat \subseteq S
  <2> HIDE DEF S
  <2>1. QED
    BY <1>1, <1>2, CountingUp
<1>4. QED
  BY <1>3

\* So has the walk up, which BelongsToBranch chooses.
LEMMA WalksUp ==
    ASSUME NEW a, NEW N \in Nat
    PROVE  \E f : WalkUp(f, a, N)
<1> DEFINE S == {k \in Nat : \E f : WalkUp(f, a, k)}
<1>1. 0 \in S
  <2> DEFINE g == [n \in 0..0 |-> {creator[a]}]
  <2>1. WalkUp(g, a, 0)
    BY DEF WalkUp
  <2>2. QED
    BY <2>1
<1>2. ASSUME NEW k \in Nat, k \in S PROVE k + 1 \in S
  <2>1. PICK f : WalkUp(f, a, k)
    BY <1>2
  <2> DEFINE next == f[k] \cup {creator[b] : b \in f[k] \cap Executable}
  <2>2. PICK g : g = [n \in 0..(k + 1) |-> IF n = k + 1 THEN next ELSE f[n]]
    OBVIOUS
  <2>3. \A n \in 0..k : g[n] = f[n]
    BY <2>2
  <2>4. \A n \in 0..k : f[n] = IF n = 0 THEN {creator[a]} ELSE f[n - 1] \cup {creator[b] : b \in f[n - 1] \cap Executable}
    BY <2>1 DEF WalkUp
  <2>5. ASSUME NEW n \in 0..(k + 1)
        PROVE  g[n] = IF n = 0 THEN {creator[a]} ELSE g[n - 1] \cup {creator[b] : b \in g[n - 1] \cap Executable}
    <3>1. CASE n = k + 1
      <4>1. g[n] = next /\ n # 0 /\ n - 1 = k /\ g[k] = f[k]
        BY <2>2, <2>3, <3>1
      <4>2. QED
        BY <4>1
    <3>2. CASE n # k + 1 /\ n # 0
      <4>1. n \in 0..k /\ n - 1 \in 0..k
        BY <3>2
      <4>2. g[n] = f[n] /\ g[n - 1] = f[n - 1]
        BY <2>3, <4>1
      <4>3. QED
        BY <2>4, <3>2, <4>1, <4>2
    <3>3. CASE n = 0
      <4>1. n \in 0..k
        BY <3>3
      <4>2. g[n] = f[n]
        BY <2>3, <4>1
      <4>3. QED
        BY <2>4, <3>3, <4>1, <4>2
    <3>4. QED
      BY <3>1, <3>2, <3>3
  <2>6. WalkUp(g, a, k + 1)
    BY <2>2, <2>5 DEF WalkUp
  <2>7. QED
    BY <2>6
<1>3. Nat \subseteq S
  <2> HIDE DEF S
  <2>1. QED
    BY <1>1, <1>2, CountingUp
<1>4. QED
  BY <1>3

\* What stopping an actor collects is what the walk down from it reaches and is active.
LEMMA DescendantsWalk ==
    ASSUME NEW root, Cardinality(Executable) \in Nat
    PROVE  \E f : WalkDown(f, root, Cardinality(Executable)) /\ DescendantsOf(root) = (f[Cardinality(Executable)] \ {root}) \cap ActiveActors
<1> DEFINE g == CHOOSE f : WalkDown(f, root, Cardinality(Executable))
<1>1. WalkDown(g, root, Cardinality(Executable))
  BY WalksDown
<1>2. DescendantsOf(root) = (g[Cardinality(Executable)] \ {root}) \cap ActiveActors
  BY Zenon DEF DescendantsOf, WalkDown
<1>3. QED
  BY <1>1, <1>2

\* An actor belongs to a branch exactly when the walk up from it meets the root.
LEMMA BranchWalk ==
    ASSUME NEW a, NEW root, Cardinality(Executable) \in Nat
    PROVE  \E f : WalkUp(f, a, Cardinality(Executable)) /\ (BelongsToBranch(a, root) <=> root \in f[Cardinality(Executable)])
<1> DEFINE g == CHOOSE f : WalkUp(f, a, Cardinality(Executable))
<1>1. WalkUp(g, a, Cardinality(Executable))
  BY WalksUp
<1>2. BelongsToBranch(a, root) <=> root \in g[Cardinality(Executable)]
  BY Zenon DEF BelongsToBranch, WalkUp
<1>3. QED
  BY <1>1, <1>2

\* Whatever reached enough steps down is closed: nobody created by an actor in it is outside.
LEMMA WalkIsComplete ==
    ASSUME NEW root \in Executable, NEW f, WalkDown(f, root, Cardinality(Executable))
    PROVE  LET all == f[Cardinality(Executable)]
           IN  root \in all /\ \A b \in Executable : creator[b] \in all => b \in all
<1>1. IsFiniteSet(Executable)
  BY KernelAssumption
<1>2. PICK N \in Nat : N = Cardinality(Executable)
  BY <1>1, FS_CardinalityType
<1>3. \A n \in 0..N : f[n] = IF n = 0 THEN {root} ELSE f[n - 1] \cup {b \in Executable : creator[b] \in f[n - 1]}
  BY <1>2 DEF WalkDown
<1> DEFINE Whole(R) == \A b \in Executable : creator[b] \in R => b \in R
           Far(n) == root \in f[n] /\ f[n] \subseteq Executable /\ (Cardinality(f[n]) >= n + 1 \/ Whole(f[n]))
           S == {n \in Nat : n <= N => Far(n)}
<1>4. 0 \in S
  <2>1. f[0] = {root}
    <3>1. 0 \in 0..N
      OBVIOUS
    <3>2. QED
      BY <1>3, <3>1, Zenon
  <2>2. Cardinality({root}) = 1
    BY FS_Singleton
  <2>3. Cardinality(f[0]) >= 0 + 1
    BY <2>1, <2>2
  <2>4. Far(0)
    BY <2>1, <2>3
  <2>5. QED
    BY <2>4
<1>5. ASSUME NEW n \in Nat, n \in S PROVE n + 1 \in S
  <2> SUFFICES ASSUME n + 1 <= N PROVE Far(n + 1)
    BY <1>2
  <2>1. Far(n)
    BY <1>2, <1>5
  <2>2. f[n + 1] = f[n] \cup {b \in Executable : creator[b] \in f[n]}
    <3>1. n + 1 \in 0..N /\ n + 1 # 0 /\ (n + 1) - 1 = n
      BY <1>2
    <3>2. QED
      BY <1>3, <3>1
  <2>3. root \in f[n + 1] /\ f[n + 1] \subseteq Executable
    BY <2>1, <2>2
  <2>4. CASE Whole(f[n])
    <3>1. f[n + 1] = f[n]
      BY <2>2, <2>4
    <3>2. Whole(f[n + 1])
      BY <2>4, <3>1
    <3>3. QED
      BY <2>3, <3>2
  <2>5. CASE ~Whole(f[n])
    <3>1. PICK b \in Executable : creator[b] \in f[n] /\ b \notin f[n]
      BY <2>5
    <3>2. PICK A, B : A = f[n] /\ B = f[n + 1]
      OBVIOUS
    <3>3. IsFiniteSet(A) /\ IsFiniteSet(B)
      BY <1>1, <2>1, <2>3, <3>2, FS_Subset
    <3>4. Cardinality(A) >= n + 1 /\ Cardinality(A) \in Nat
      BY <2>1, <2>5, <3>2, <3>3, FS_CardinalityType
    <3>5. Cardinality(A \cup {b}) = Cardinality(A) + 1 /\ IsFiniteSet(A \cup {b})
      BY <3>1, <3>2, <3>3, FS_AddElement
    <3>6. A \cup {b} \subseteq B
      BY <2>2, <3>1, <3>2
    <3>7. Cardinality(A \cup {b}) <= Cardinality(B) /\ Cardinality(B) \in Nat
      BY <3>3, <3>6, FS_Subset, FS_CardinalityType
    <3>8. Cardinality(B) >= (n + 1) + 1
      BY <3>4, <3>5, <3>7
    <3>9. Cardinality(f[n + 1]) >= (n + 1) + 1
      BY <3>2, <3>8
    <3>10. QED
      BY <2>3, <3>9
  <2>6. QED
    BY <2>4, <2>5
<1>6. Far(N)
  <2> HIDE DEF S
  <2>1. Nat \subseteq S
    BY <1>4, <1>5, CountingUp
  <2>2. N \in S
    BY <2>1
  <2> USE DEF S
  <2>3. QED
    BY <2>2, <1>2
<1>7. Cardinality(f[N]) <= N /\ Cardinality(f[N]) \in Nat
  <2>1. PICK A : A = f[N]
    OBVIOUS
  <2>2. Cardinality(A) <= Cardinality(Executable) /\ IsFiniteSet(A)
    BY <1>1, <1>6, <2>1, FS_Subset
  <2>3. QED
    BY <1>2, <2>1, <2>2, FS_CardinalityType
<1>8. Whole(f[N])
  BY <1>6, <1>7
<1>9. QED
  BY <1>2, <1>6, <1>8

\* Who belongs to the branch of an actor is in everything that is closed and has that actor.
LEMMA BranchInside ==
    ASSUME NEW R, \A x \in Executable : creator[x] \in R => x \in R,
           NEW a \in R, NEW b \in Executable, BelongsToBranch(b, a)
    PROVE  b \in R
<1> SUFFICES ASSUME b \notin R PROVE FALSE
  OBVIOUS
<1>1. PICK N \in Nat : N = Cardinality(Executable)
  BY KernelAssumption, FS_CardinalityType
<1>2. PICK f : WalkUp(f, b, N) /\ a \in f[N]
  BY <1>1, BranchWalk
<1>3. \A n \in 0..N : f[n] = IF n = 0 THEN {creator[b]} ELSE f[n - 1] \cup {creator[x] : x \in f[n - 1] \cap Executable}
  BY <1>2 DEF WalkUp
<1> DEFINE S == {n \in Nat : n <= N => f[n] \cap R = {}}
<1>4. 0 \in S
  <2>1. f[0] = {creator[b]}
    <3>1. 0 \in 0..N
      OBVIOUS
    <3>2. QED
      BY <1>3, <3>1, Zenon
  <2>2. creator[b] \notin R
    OBVIOUS
  <2>3. QED
    BY <2>1, <2>2
<1>5. ASSUME NEW n \in Nat, n \in S PROVE n + 1 \in S
  <2> SUFFICES ASSUME n + 1 <= N PROVE f[n + 1] \cap R = {}
    BY <1>1
  <2>1. f[n] \cap R = {}
    BY <1>1, <1>5
  <2>2. n + 1 \in 0..N /\ n + 1 # 0 /\ (n + 1) - 1 = n
    BY <1>1
  <2>3. f[n + 1] = f[n] \cup {creator[x] : x \in f[n] \cap Executable}
    BY <1>3, <2>2
  <2>4. QED
    BY <2>1, <2>3
<1>6. Nat \subseteq S
  <2> HIDE DEF S
  <2>1. QED
    BY <1>4, <1>5, CountingUp
<1>7. QED
  BY <1>1, <1>2, <1>6

\* Stopping an actor leaves nobody of its branch active, however deep it is and whoever in between is stopped already.
THEOREM BranchesStopWhole == Spec => BranchStopsWhole
<1>1. ASSUME NEW a \in ActiveActors, NEW c \in Commanders, StopActor(c, a), NEW b \in Executable, BelongsToBranch(b, a)
      PROVE  lifecycle'[b].kind \notin {"idle", "running"}
  <2>1. a \in Executable /\ Cardinality(Executable) \in Nat
    BY KernelAssumption, FS_CardinalityType DEF ActiveActors
  <2>2. PICK f : WalkDown(f, a, Cardinality(Executable)) /\ DescendantsOf(a) = (f[Cardinality(Executable)] \ {a}) \cap ActiveActors
    BY <2>1, DescendantsWalk
  <2>3. PICK all : all = f[Cardinality(Executable)]
    OBVIOUS
  <2>4. a \in all /\ \A x \in Executable : creator[x] \in all => x \in all
    BY <2>1, <2>2, <2>3, WalkIsComplete
  <2>5. b \in all
    BY <1>1, <2>4, BranchInside
  <2>6. lifecycle'[b] = IF b \in {a} \cup DescendantsOf(a) THEN Stopped ELSE lifecycle[b]
    BY <1>1 DEF StopActor, StopAll
  <2>7. CASE Active(b)
    BY <1>1, <2>2, <2>3, <2>5, <2>6, <2>7 DEF ActiveActors, Stopped
  <2>8. CASE ~Active(b)
    BY <2>6, <2>8 DEF Active, Stopped
  <2>9. QED
    BY <2>7, <2>8
<1>2. [Next]_vars => [\A a \in ActiveActors :
          lifecycle'[a].kind = "stopped" /\ (\E c \in Commanders : StopActor(c, a)) =>
          \A b \in Executable : BelongsToBranch(b, a) => lifecycle'[b].kind \notin {"idle", "running"}]_vars
  BY <1>1
<1>3. QED
  BY <1>2, PTL DEF Spec, BranchStopsWhole

=============================================================================
