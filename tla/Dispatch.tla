------------------------------- MODULE Dispatch -------------------------------
(***************************************************************************)
(* What Orchestration (runtime/orchestration.ts) does with the events a    *)
(* run commits: it enqueues an input for every subscription that matches,  *)
(* and a notice for the creator of an actor whose turn failed or was       *)
(* interrupted.  These inputs are commands of their own; the journal       *)
(* publishes their events after the batch it is publishing.                *)
(*                                                                         *)
(* The log holds the events that matter here; a source event is named by   *)
(* its place in it.  Of a turn only its start and its end are modelled.    *)
(* A write failure makes the run unavailable until the next start and is   *)
(* covered by Crash.                                                       *)
(***************************************************************************)
EXTENDS Naturals, SequencesExt

CONSTANTS
    Actors,          \* the actors that take turns
    Owner,           \* the human owner
    Creator,         \* who created each actor
    Subscriptions,
    Watch,           \* the subscriber, the sources and the kinds of each
    MaxEvents,       \* bound: the length of the log
    Disruptions      \* bound: crashes, forks and moves together

ASSUME DispatchAssumption ==
    /\ IsFiniteSet(Actors) /\ IsFiniteSet(Subscriptions)
    /\ Owner \notin Actors
    /\ Creator \in [Actors -> Actors \cup {Owner}]
    /\ \A s \in Subscriptions : Watch[s].subscriber \in Actors /\ Watch[s].sources \subseteq Actors
    /\ {MaxEvents, Disruptions} \subseteq Nat

VARIABLES
    log,         \* the events of the run
    active,      \* the actors that are not stopped
    running,     \* those in a turn
    subs,        \* status of each subscription and the event that created it
    commands,    \* the deliveries and notices the journal knows as commands
    queue,       \* the batches that wait for publication
    sources,     \* the events of the current batch still to match
    delivering,      \* the event being delivered, or 0
    targets,     \* the subscriptions it is still delivered to
    unnoticed,        \* the events of the batch still to look at for a notice
    recovering,  \* the actors whose turn the start still has to end
    moving,      \* the batch being published is an imported history
    lost,        \* the events a crash or a fork left undispatched
    crashes, forks, moves

runVars == <<active, running, subs>>
batchVars == <<sources, delivering, targets, unnoticed>>
boundVars == <<crashes, forks, moves>>
dispatchVars == <<log, runVars, commands, queue, batchVars, recovering, moving, lost, boundVars>>

Ended == {"failed", "interrupted"}
Observable == Ended \cup {"completed", "stopped", "restarted"}
Event(kind, actor, sub, of) == [kind |-> kind, actor |-> actor, sub |-> sub, of |-> of]
Notice(n) == <<"creator-alert", n>>
Delivery(s, n) == <<"subscription", s, n>>

DispatchInit ==
    /\ log = <<>>
    /\ active = Actors /\ running = {}
    /\ subs = [s \in Subscriptions |-> [status |-> "absent", created |-> 0]]
    /\ commands = {}
    /\ queue = <<>> /\ sources = <<>> /\ delivering = 0 /\ targets = {} /\ unnoticed = <<>>
    /\ recovering = {} /\ moving = FALSE /\ lost = {}
    /\ crashes = 0 /\ forks = 0 /\ moves = 0

\* The journal publishes in the order of the commits.
Published(b) == Append(queue, b)

Commit(events) ==
    /\ Len(log) + Len(events) <= MaxEvents
    /\ log' = log \o events
    /\ queue' = Published([i \in 1..Len(events) |-> Len(log) + i])

BetweenBatches == delivering = 0 /\ sources = <<>> /\ unnoticed = <<>>

\* Everything published is dispatched before the command returns that was published
\* first; what other listeners do, they do later.
Quiet == BetweenBatches /\ queue = <<>>
MayCommand == Quiet /\ recovering = {}

-----------------------------------------------------------------------------
(* Commands that commit events *)

StartTurn(a) ==
    /\ MayCommand /\ a \in active \ running
    /\ running' = running \cup {a}
    /\ UNCHANGED <<log, active, subs, commands, queue, batchVars, recovering, moving, lost, boundVars>>

EndTurn(a, kind) ==
    /\ MayCommand /\ a \in running
    /\ running' = running \ {a}
    /\ Commit(<<Event(kind, a, "none", 0)>>)
    /\ UNCHANGED <<active, subs, commands, batchVars, recovering, moving, lost, boundVars>>

SubscriptionsOf(a) == {s \in Subscriptions : subs[s].status = "active" /\ Watch[s].subscriber = a}

\* The actor and everything it created, directly or through others that may have stopped already.
Branch(a) == {b \in Actors : \A S \in SUBSET Actors :
    (a \in S /\ \A c \in Actors : Creator[c] \in S => c \in S) => b \in S}

\* An actor and everything below it that is active stops together.
Below(a) == Branch(a) \cap active

StopEventsOf(b) ==
    (IF b \in running THEN <<Event("interrupted", b, "none", 0)>> ELSE <<>>)
        \o <<Event("stopped", b, "none", 0)>>
        \o SetToSeq({Event("removed", b, s, 0) : s \in SubscriptionsOf(b)})

\* Fault: stopping a subscriber leaves its subscriptions.
StoppedSubsNone(B) == subs

StoppedSubs(B) == [s \in Subscriptions |->
    IF Watch[s].subscriber \in B /\ subs[s].status = "active" THEN [subs[s] EXCEPT !.status = "removed"] ELSE subs[s]]

\* The whole branch stops in one command, its root first.
StopActor(a) ==
    /\ MayCommand /\ a \in active
    /\ active' = active \ Below(a) /\ running' = running \ Below(a)
    /\ subs' = StoppedSubs(Below(a))
    /\ \E order \in SetToSeqs(Below(a)) :
        /\ order[1] = a
        /\ Commit(FlattenSeq([i \in 1..Len(order) |-> StopEventsOf(order[i])]))
    /\ UNCHANGED <<commands, batchVars, recovering, moving, lost, boundVars>>

RestartActor(a) ==
    /\ MayCommand /\ a \notin active
    /\ active' = active \cup {a}
    /\ Commit(<<Event("restarted", a, "none", 0)>>)
    /\ UNCHANGED <<running, subs, commands, batchVars, recovering, moving, lost, boundVars>>

CreateSubscription(s) ==
    /\ MayCommand /\ subs[s].status = "absent" /\ Watch[s].subscriber \in active
    /\ subs' = [subs EXCEPT ![s] = [status |-> "active", created |-> Len(log) + 1]]
    /\ Commit(<<Event("subscribed", Watch[s].subscriber, s, 0)>>)
    /\ UNCHANGED <<active, running, commands, batchVars, recovering, moving, lost, boundVars>>

RemoveSubscription(s) ==
    /\ MayCommand /\ subs[s].status = "active"
    /\ subs' = [subs EXCEPT ![s].status = "removed"]
    /\ Commit(<<Event("removed", Watch[s].subscriber, s, 0)>>)
    /\ UNCHANGED <<active, running, commands, batchVars, recovering, moving, lost, boundVars>>

-----------------------------------------------------------------------------
(* The dispatch of a batch: first all its events to subscriptions, then the notices. *)

TakeBatch ==
    /\ BetweenBatches /\ queue # <<>>
    /\ sources' = Head(queue) /\ unnoticed' = Head(queue) /\ queue' = Tail(queue)
    /\ UNCHANGED <<log, runVars, commands, delivering, targets, recovering, moving, lost, boundVars>>

\* Fault: only what an active actor does is delivered.
MatchesActive(s, n) ==
    /\ subs[s].status = "active" /\ subs[s].created < n
    /\ log[n].kind \in Watch[s].kinds \cap Observable
    /\ log[n].actor \in Watch[s].sources \cap active

\* Matched against the subscriptions at the time of the dispatch.
Matches(s, n) ==
    /\ subs[s].status = "active" /\ subs[s].created < n
    /\ log[n].kind \in Watch[s].kinds \cap Observable
    /\ log[n].actor \in Watch[s].sources

\* Fault: the last event of the batch comes first.
TakeLastSource ==
    /\ delivering = 0 /\ sources # <<>>
    /\ sources' = Front(sources)
    /\ targets' = {s \in Subscriptions : Matches(s, Last(sources))}
    /\ delivering' = IF targets' = {} THEN 0 ELSE Last(sources)
    /\ UNCHANGED <<log, runVars, commands, queue, unnoticed, recovering, moving, lost, boundVars>>

TakeSource ==
    /\ delivering = 0 /\ sources # <<>>
    /\ sources' = Tail(sources)
    /\ targets' = {s \in Subscriptions : Matches(s, Head(sources))}
    /\ delivering' = IF targets' = {} THEN 0 ELSE Head(sources)
    /\ UNCHANGED <<log, runVars, commands, queue, unnoticed, recovering, moving, lost, boundVars>>

Delivered(s) ==
    /\ targets' = targets \ {s}
    /\ delivering' = IF targets' = {} THEN 0 ELSE delivering
    /\ UNCHANGED <<active, running, sources, unnoticed, recovering, moving, lost, boundVars>>

DeliveredBefore(s) ==
    /\ s \in targets /\ Delivery(s, delivering) \in commands
    /\ Delivered(s)
    /\ UNCHANGED <<log, subs, commands, queue>>

Deliver(s) ==
    /\ s \in targets /\ Delivery(s, delivering) \notin commands
    /\ subs[s].status = "active" /\ Watch[s].subscriber \in active
    /\ commands' = commands \cup {Delivery(s, delivering)}
    /\ Commit(<<Event("input", Watch[s].subscriber, s, delivering)>>)
    /\ Delivered(s)
    /\ UNCHANGED subs

\* The input is rejected; the subscription fails.
FailDelivery(s) ==
    /\ s \in targets /\ Delivery(s, delivering) \notin commands
    /\ subs[s].status = "active"
    /\ subs' = [subs EXCEPT ![s].status = "failed"]
    /\ Commit(<<Event("failedSubscription", Watch[s].subscriber, s, delivering)>>)
    /\ Delivered(s)
    /\ UNCHANGED commands

\* A subscription of the creator that matches delivers the event itself.  Fault: also
\* one that is no longer active.
DeliveredToAnyway(c, n) == \E s \in Subscriptions :
    Watch[s].subscriber = c /\ subs[s].created # 0 /\ subs[s].created < n
    /\ log[n].kind \in Watch[s].kinds /\ log[n].actor \in Watch[s].sources

DeliveredTo(c, n) == \E s \in Subscriptions : Watch[s].subscriber = c /\ Matches(s, n)

Alerts(n) ==
    /\ log[n].kind \in Ended /\ log[n].actor \in active
    /\ Creator[log[n].actor] \in active
    /\ ~DeliveredTo(Creator[log[n].actor], n)
    /\ Notice(n) \notin commands

SkipEnd ==
    /\ delivering = 0 /\ sources = <<>> /\ unnoticed # <<>>
    /\ ~Alerts(Head(unnoticed))
    /\ unnoticed' = Tail(unnoticed)
    /\ moving' = (moving /\ unnoticed' # <<>>)
    /\ UNCHANGED <<log, runVars, commands, queue, sources, delivering, targets, recovering, lost, boundVars>>

AlertCreator ==
    /\ delivering = 0 /\ sources = <<>> /\ unnoticed # <<>>
    /\ Alerts(Head(unnoticed))
    /\ commands' = commands \cup {Notice(Head(unnoticed))}
    /\ Commit(<<Event("notice", Creator[log[Head(unnoticed)].actor], "none", Head(unnoticed))>>)
    /\ unnoticed' = Tail(unnoticed)
    /\ moving' = (moving /\ unnoticed' # <<>>)
    /\ UNCHANGED <<runVars, sources, delivering, targets, recovering, lost, boundVars>>

-----------------------------------------------------------------------------
(* Restarts, forks and moves of the run *)

MoreDisruptions == crashes + forks + moves < Disruptions
Queued == UNION {ToSet(queue[i]) : i \in 1..Len(queue)}
Pending == Queued \cup ToSet(sources) \cup ToSet(unnoticed) \cup ({delivering} \ {0})

\* Fault: a start publishes what the crash left.
ServerCrashReplayed ==
    /\ MoreDisruptions /\ crashes' = crashes + 1
    /\ queue' = <<SetToSortSeq(Pending, <)>> /\ lost' = lost \cup Pending
    /\ sources' = <<>> /\ delivering' = 0 /\ targets' = {} /\ unnoticed' = <<>>
    /\ recovering' = running /\ moving' = FALSE
    /\ UNCHANGED <<log, runVars, commands, forks, moves>>

ServerCrash ==
    /\ MoreDisruptions /\ crashes' = crashes + 1
    /\ lost' = lost \cup Pending
    /\ queue' = <<>> /\ sources' = <<>> /\ delivering' = 0 /\ targets' = {} /\ unnoticed' = <<>>
    /\ recovering' = running /\ moving' = FALSE
    /\ UNCHANGED <<log, runVars, commands, forks, moves>>

\* The start ends the open turns, one command each, with the dispatch subscribed.
RecoverTurn(a) ==
    /\ Quiet /\ a \in recovering
    /\ recovering' = recovering \ {a} /\ running' = running \ {a}
    /\ Commit(<<Event("interrupted", a, "none", 0)>>)
    /\ UNCHANGED <<active, subs, commands, batchVars, moving, lost, boundVars>>

\* forkRun: the model goes on with the copy, whose commands have new ids and whose
\* history is not dispatched.  It may end between an event and its delivery.
Fork ==
    /\ running = {} /\ log # <<>>
    /\ MoreDisruptions /\ forks' = forks + 1
    /\ commands' = {}
    /\ lost' = lost \cup Pending
    /\ queue' = <<>> /\ sources' = <<>> /\ delivering' = 0 /\ targets' = {} /\ unnoticed' = <<>>
    /\ moving' = FALSE
    /\ UNCHANGED <<log, runVars, recovering, crashes, moves>>

\* assertRunStopped: no actor is in a turn.
IdleRun == MayCommand /\ running = {} /\ log # <<>>

\* Fault: the copy that is moved does not know its commands.
MoveForgetful ==
    /\ IdleRun /\ MoreDisruptions /\ moves' = moves + 1
    /\ moving' = TRUE /\ commands' = {}
    /\ queue' = <<[i \in 1..Len(log) |-> i]>>
    /\ UNCHANGED <<log, runVars, batchVars, recovering, lost, crashes, forks>>

\* importRun: another server adopts the whole history, which is published as one batch.
Move ==
    /\ IdleRun /\ MoreDisruptions /\ moves' = moves + 1
    /\ moving' = TRUE
    /\ queue' = <<[i \in 1..Len(log) |-> i]>>
    /\ UNCHANGED <<log, runVars, commands, batchVars, recovering, lost, crashes, forks>>

ActorStep(a) ==
    \/ StartTurn(a)
    \/ \E kind \in {"completed", "failed", "interrupted"} : EndTurn(a, kind)
    \/ StopActor(a) \/ RestartActor(a) \/ RecoverTurn(a)

SubscriptionStep(s) ==
    \/ CreateSubscription(s) \/ RemoveSubscription(s)
    \/ DeliveredBefore(s) \/ Deliver(s) \/ FailDelivery(s)

DispatchNext ==
    \/ \E a \in Actors : ActorStep(a)
    \/ \E s \in Subscriptions : SubscriptionStep(s)
    \/ TakeBatch \/ TakeSource \/ SkipEnd \/ AlertCreator
    \/ ServerCrash \/ Fork \/ Move

DispatchSpec == DispatchInit /\ [][DispatchNext]_dispatchVars

-----------------------------------------------------------------------------
(* Properties *)

Places == 1..Len(log)
Inputs == {n \in Places : log[n].kind \in {"input", "notice"}}
ToSubscription(s) == {n \in Places : log[n].kind = "input" /\ log[n].sub = s}
Learned(c, n) == \E m \in Inputs : log[m].actor = c /\ log[m].of = n

Kinds == Observable \cup {"subscribed", "removed", "input", "failedSubscription", "notice"}
Events == [kind : Kinds, actor : Actors, sub : Subscriptions \cup {"none"}, of : Nat]
Statuses == {"absent", "active", "removed", "failed"}

\* The shape of the state; a stopped actor has no turn and no subscription.
DispatchTypeOK ==
    /\ log \in Seq(Events) /\ queue \in Seq(Seq(Nat)) /\ sources \in Seq(Nat) /\ unnoticed \in Seq(Nat)
    /\ running \subseteq active /\ active \subseteq Actors /\ recovering \subseteq running
    /\ subs \in [Subscriptions -> [status : Statuses, created : 0..Len(log)]]
    /\ \A s \in Subscriptions : subs[s].status = "active" => Watch[s].subscriber \in active
    /\ targets \subseteq Subscriptions /\ delivering \in 0..Len(log)
    /\ Pending \cup lost \subseteq Places
    /\ moving \in BOOLEAN /\ {crashes, forks, moves} \subseteq Nat

DeliveredAtMostOnce == \A s \in Subscriptions : \A m, n \in ToSubscription(s) :
    log[m].of = log[n].of => m = n

\* An event reaches a subscription at most once, also across starts, in forks and
\* after an import; ForkMovesOnce says what becomes of a fork that is imported.
DeliveredOnce == forks = 0 \/ moves = 0 => DeliveredAtMostOnce

\* A subscription gets its events in the order of the journal; only what an import
\* dispatches again may come late.
DeliveredInOrder == moves = 0 => \A s \in Subscriptions : \A m, n \in ToSubscription(s) :
    m < n => log[m].of < log[n].of

\* Each subscription gets a part of the journal, without repetition and in its order.
DispatchInv == DispatchTypeOK /\ DeliveredOnce /\ DeliveredInOrder

\* When nothing is left to publish, a subscription that is active got every event it
\* watches since it was created, but for those a crash cut off.
EveryMatchDelivered == Quiet => \A s \in Subscriptions, n \in Places \ lost :
    Matches(s, n) => \E m \in ToSubscription(s) : log[m].of = n

\* The actor was neither stopped nor restarted after the event.
SameSince(a, n) == \A m \in Places : m > n /\ log[m].actor = a => log[m].kind \notin {"stopped", "restarted"}

\* A creator that is not stopped learns of every failed or interrupted turn of an actor
\* that is not stopped with it, by a notice or by a subscription, also when the
\* delivery to its subscription fails.
FailureNoticed == Quiet => \A n \in Places \ lost :
    LET creator == Creator[log[n].actor] IN
    (log[n].kind \in Ended /\ creator \in active /\ SameSince(log[n].actor, n) /\ SameSince(creator, n))
        => Learned(creator, n)

\* docs/spec/core.md: no start and no fork catches up on an event whose delivery was lost.
NoCatchUp == [][~moving => \A m \in Inputs' \ Inputs : log'[m].of \notin lost]_dispatchVars

\* docs/spec/core.md: a lost delivery is not caught up, because that could trigger the
\* same effect twice; so no start, fork or import may deliver an event a second time.
ForkMovesOnce == DeliveredAtMostOnce

\* docs/spec/core.md: if the owner stops a sub-worker, its creator learns about it.
StopNoticed == Quiet => \A n \in Places \ lost :
    LET creator == Creator[log[n].actor] IN
    (log[n].kind = "interrupted" /\ creator \in active /\ SameSince(creator, n)) => Learned(creator, n)

=============================================================================
