------------------------------- MODULE RunStart -------------------------------
(***************************************************************************)
(* The start of one run and its deletion (apps/server session.ts,          *)
(* await-with-signal.ts, provider.ts).  Messages and script starts arrive  *)
(* while the run is being set up.  They share one preparation: whoever     *)
(* comes first does the work, the others wait for it, and the last waiter  *)
(* that leaves cancels it.                                                 *)
(*                                                                         *)
(* A step is what runs between two awaits that wait for something.         *)
(* Continuations of a promise that settled run before anything else        *)
(* happens: the steps of callers and of the operator wait for Quiet.       *)
(*                                                                         *)
(* Left out: start options, scripts without a coordinator, the global      *)
(* coordinator, the reset of a conversation, and a stop that joins one     *)
(* still under way.  What a stop does to turns is in RunKernel and         *)
(* TurnScheduler.                                                          *)
(***************************************************************************)
EXTENDS Naturals, Sequences, FiniteSets

CONSTANTS
    Messages,    \* messages to the run
    Starts,      \* requests to start a run script
    Entries,     \* the templates of the scripts
    EntryOf,     \* the template of each request
    Embeddable,  \* the templates that may start inside a running run
    MaxFaults,   \* bound: hooks, preparations and writes that fail
    MaxUpsets    \* bound: stops of the run or its primary actor, ends of the server process, requests made again

ASSUME RunStartAssumption ==
    /\ Messages \cap Starts = {}
    /\ EntryOf \in [Starts -> Entries] /\ Embeddable \subseteq Entries
    /\ {"none", "plain"} \cap Entries = {}
    /\ {MaxFaults, MaxUpsets} \subseteq Nat

Requests == Messages \cup Starts

VARIABLES
    created,   \* the journal has the run
    actors,    \* how many coordinators it got
    primary,   \* the one that is primary, 0 for none
    installs,  \* how often the script of each template was installed
    prep,      \* the shared preparation
    pending,   \* the initial startup that is incomplete: "none", "plain" or a template
    startup,   \* the transient start status of the chat
    queue,     \* the starts inside the running run, in their order
    phase,     \* where each request is
    to,        \* the actor a message is for, 0 until it is known
    mark,      \* "gone": its caller left; "cut": its own controller was aborted; history: "stopped": it met a stop
    disposed,  \* the session was given up
    locked,    \* the workspace failed, the run is locked
    deletion,  \* how far the deletion of the run is
    intent,    \* the delete intent is on disk
    archived,  \* the journal was moved to the archive
    hooks,     \* history: how often sessionStarted finished
    unready,   \* history: how often the run was not ready after it
    unqueued,  \* history: the installs of each template for a start inside the run that was refused after it
    upsets,    \* stops of the run, and requests made again
    faults, crashes, losses

journalVars == <<created, actors, primary, installs>>
startVars == <<prep, pending, startup, queue>>
requestVars == <<phase, mark, to>>
sessionVars == <<disposed, locked>>
deletionVars == <<deletion, intent, archived>>
lateVars == <<unready, unqueued>>
boundVars == <<upsets, faults, crashes, losses, lateVars>>
vars == <<journalVars, startVars, requestVars, sessionVars, deletionVars, hooks, boundVars>>

NoPrep == [owner |-> "none", at |-> "none", waiters |-> {}, cut |-> "no"]
Begun(owner, at) == [owner |-> owner, at |-> at, waiters |-> {owner}, cut |-> "no"]

Init ==
    /\ created = FALSE /\ actors = 0 /\ primary = 0 /\ installs = [e \in Entries |-> 0]
    /\ prep = NoPrep /\ pending = "none" /\ startup = "none" /\ queue = <<>>
    /\ phase = [o \in Requests |-> "idle"] /\ mark = [o \in Requests |-> {}]
    /\ to = [m \in Messages |-> 0]
    /\ disposed = FALSE /\ locked = FALSE
    /\ deletion = "none" /\ intent = FALSE /\ archived = FALSE
    /\ hooks = 0 /\ unready = 0 /\ unqueued = [e \in Entries |-> 0]
    /\ upsets = 0 /\ faults = 0 /\ crashes = 0 /\ losses = 0

Fault == faults < MaxFaults /\ faults' = faults + 1
Upset == upsets + losses + crashes < MaxUpsets

-----------------------------------------------------------------------------
(* Requests and the preparation they share.                                  *)

Ended == {"accepted", "refused", "cancelled"}
UnderWay == {o \in Requests : phase[o] \notin Ended \cup {"idle"}}

Usable == deletion = "none" /\ ~locked

\* The run has an actor of its own, a coordinator or that of a script.
Peopled == actors > 0 \/ \E e \in Entries : installs[e] > 0
RunStarted == pending = "none" /\ created /\ Peopled

\* A message has its controller from the beginning, a start inside the run once it is in the queue.
Registered == (UnderWay \cap Messages) \cup {queue[i] : i \in DOMAIN queue}
Withdrawn(o) == mark[o] \cap {"gone", "cut"} # {}

\* Requests that wait with their signal give up as soon as it is aborted.
GivesUp(o) == phase[o] \in {"settling", "joining", "joined", "blocked"} /\ Withdrawn(o)

\* What is due at once, and nothing else can overtake.
FirstInQueue == IF queue = <<>> THEN "none" ELSE phase[Head(queue)]
Quiet ==
    /\ \A o \in Requests : phase[o] \notin {"ensure", "ensured", "started", "asked", "decided"} /\ ~GivesUp(o)
    /\ FirstInQueue # "queued"

\* What the answer of a request leaves of it.
Placed(where) ==
    /\ phase' = where
    /\ mark' = [o \in Requests |-> IF where[o] \in Ended THEN {} ELSE mark[o]]

Moved(o, where) == Placed([phase EXCEPT ![o] = where])
Marked(set, marks) == mark' = [o \in Requests |-> IF o \in set THEN mark[o] \cup marks ELSE mark[o]]

\* How a request ends that was withdrawn, or whose run cannot be used.
Objection(o) == IF Withdrawn(o) /\ ("gone" \in mark[o] \/ ~disposed) THEN "cancelled"
                ELSE IF Withdrawn(o) \/ ~Usable THEN "refused" ELSE "none"

\* Fault: whoever leaves cancels the preparation of all.
CancelledByAny(waiters, o) == o \in waiters

CancelledBy(waiters, o) == waiters = {o}

\* The preparation once this waiter left it.
Without(o) ==
    [prep EXCEPT !.waiters = @ \ {o}, !.cut = IF @ = "no" /\ CancelledBy(prep.waiters, o) THEN "left" ELSE @]

GiveUp(o) ==
    /\ GivesUp(o) /\ Moved(o, Objection(o)) /\ prep' = Without(o)
    /\ queue' = IF phase[o] = "blocked" THEN Tail(queue) ELSE queue
    /\ UNCHANGED <<journalVars, pending, startup, to, sessionVars, deletionVars, hooks, boundVars>>

Cancelled(reason) == IF prep # NoPrep /\ prep.cut = "no" THEN [prep EXCEPT !.cut = reason] ELSE prep

\* Fault: who waits for the mere end of a preparation is not told of it.
GoesOnAfterOutcome(o) == IF phase[o] = "joined" THEN IF o \in Messages THEN "started" ELSE "accepted"
                         ELSE IF phase[o] = "joining" THEN "ensured" ELSE phase[o]

\* Where a request goes on after the preparation it waited for.
GoesOn(o) == CASE phase[o] = "joining" -> "ensured"
               [] phase[o] = "joined" -> IF o \in Messages THEN "started" ELSE "accepted"
               [] phase[o] = "settling" -> IF o \in Messages THEN "ensured" ELSE "decided"
               [] phase[o] = "blocked" -> "inHook"
               [] OTHER -> phase[o]

\* The waiters get the outcome; who waits for the mere end of the preparation goes on in any case.
Settled(outcome) ==
    /\ prep' = NoPrep
    /\ Placed([o \in Requests |-> IF outcome # "ready" /\ o \in prep.waiters THEN outcome ELSE GoesOn(o)])

\* A request is made, or made again after it was refused.
Made(o, where) ==
    /\ Quiet /\ Usable /\ ~disposed
    /\ \/ phase[o] = "idle" /\ UNCHANGED upsets
       \/ phase[o] \in {"refused", "cancelled"} /\ Upset /\ upsets' = upsets + 1
    /\ Moved(o, where)

-----------------------------------------------------------------------------
(* A message.                                                                 *)

\* Before its content is checked: the message names the actor it is for.
Named(m) == to[m] # 0

Arrive(m) ==
    /\ Made(m, "hook")
    /\ \E named \in {0, primary} : to' = [to EXCEPT ![m] = named]
    /\ UNCHANGED <<journalVars, startVars, sessionVars, deletionVars, hooks, faults, crashes, losses, lateVars>>

MessageHooks(m) ==
    /\ Quiet /\ phase[m] = "hook"
    /\ \/ Objection(m) # "none" /\ Moved(m, Objection(m)) /\ UNCHANGED faults
       \/ Objection(m) = "none" /\ Fault /\ Moved(m, "refused")
       \/ /\ Objection(m) = "none"
          /\ Moved(m, IF Named(m) /\ pending = "none" THEN "directed" ELSE "ensure")
          /\ UNCHANGED faults
    /\ UNCHANGED <<journalVars, startVars, to, sessionVars, deletionVars, hooks, upsets, crashes, losses, lateVars>>

IsCancelled(p) == p.cut # "no"

\* Fault: actors that exist are taken for a run that is ready.
ReadyWithActors == primary # 0

Ready == primary # 0 /\ pending = "none"

\* The run has its primary actor, or the message takes part in the preparation of it.
Continue(m) ==
    \/ /\ Ready
       /\ Moved(m, IF Named(m) THEN "directed" ELSE "content")
       /\ to' = [to EXCEPT ![m] = IF Named(m) THEN @ ELSE primary]
       /\ UNCHANGED <<created, prep>>
    \/ /\ ~Ready
       /\ IF prep = NoPrep
          THEN /\ created' = TRUE
               /\ prep' = Begun(m, IF pending = "none" THEN "workspace" ELSE "lifecycle")
          ELSE prep' = [prep EXCEPT !.waiters = @ \cup {m}] /\ UNCHANGED created
       /\ Moved(m, "joined") /\ UNCHANGED to

EnsureRun(m) ==
    /\ \/ phase[m] = "ensure" /\ prep = NoPrep /\ Continue(m)
       \/ /\ phase[m] = "ensure" /\ prep # NoPrep
          /\ IF IsCancelled(prep)
             THEN Moved(m, "settling") /\ UNCHANGED prep
             ELSE Moved(m, "joining") /\ prep' = [prep EXCEPT !.waiters = @ \cup {m}]
          /\ UNCHANGED <<created, to>>
       \/ /\ phase[m] = "ensured"
          /\ IF Objection(m) # "none" THEN Moved(m, Objection(m)) /\ UNCHANGED <<created, prep, to>>
             ELSE Continue(m)
    /\ UNCHANGED <<actors, primary, installs, pending, startup, queue, sessionVars, deletionVars, hooks, boundVars>>

\* After the preparation the run has a primary actor, unless it was stopped meanwhile.
MessageStarted(m) ==
    /\ phase[m] = "started"
    /\ \/ (primary = 0 \/ Objection(m) # "none") /\ Moved(m, IF Objection(m) # "none" THEN Objection(m) ELSE "refused")
          /\ UNCHANGED to
       \/ primary # 0 /\ Objection(m) = "none" /\ Moved(m, IF Named(m) THEN "directed" ELSE "content")
          /\ to' = [to EXCEPT ![m] = IF Named(m) THEN @ ELSE primary]
    /\ UNCHANGED <<journalVars, startVars, sessionVars, deletionVars, hooks, boundVars>>

\* A message that names its actor prepares the workspace itself.
Directing(m) ==
    /\ Quiet /\ phase[m] = "directed"
    /\ \/ Objection(m) # "none" /\ Moved(m, Objection(m)) /\ UNCHANGED <<locked, faults>>
       \/ Objection(m) = "none" /\ Fault /\ locked' = TRUE /\ Moved(m, "refused")
       \/ Objection(m) = "none" /\ Moved(m, "content") /\ UNCHANGED <<locked, faults>>
    /\ UNCHANGED <<journalVars, startVars, to, disposed, deletionVars, hooks, upsets, crashes, losses, lateVars>>

ObjectionAtEnd(m) == Objection(m)

\* The attachments and the context were checked: the input is enqueued, or the message refused.
Enqueue(m) ==
    /\ Quiet /\ phase[m] = "content"
    /\ IF ObjectionAtEnd(m) # "none" THEN Moved(m, ObjectionAtEnd(m))
       ELSE IF to[m] # primary THEN Moved(m, "refused")
       ELSE Moved(m, "accepted")
    /\ UNCHANGED <<journalVars, startVars, to, sessionVars, deletionVars, hooks, boundVars>>

-----------------------------------------------------------------------------
(* The start of a script, in a new run or inside the running one.            *)

Ask(s) ==
    /\ Made(s, "asked")
    /\ UNCHANGED <<journalVars, startVars, to, sessionVars, deletionVars, hooks, faults, crashes, losses, lateVars>>

StartPackage(s) ==
    /\ \/ phase[s] = "asked" /\ IsCancelled(prep) /\ Moved(s, "settling") /\ UNCHANGED <<prep, startup>>
       \/ /\ phase[s] = "decided" \/ (phase[s] = "asked" /\ ~IsCancelled(prep))
          /\ CASE RunStarted /\ EntryOf[s] \notin Embeddable -> Moved(s, "refused") /\ UNCHANGED <<prep, startup>>
               [] RunStarted /\ EntryOf[s] \in Embeddable -> Moved(s, "choosing") /\ UNCHANGED <<prep, startup>>
               [] ~RunStarted /\ prep # NoPrep -> Moved(s, "refused") /\ UNCHANGED <<prep, startup>>
               [] OTHER -> /\ prep' = Begun(s, "parameters") /\ startup' = "preparing"
                           /\ Moved(s, "joined")
    /\ UNCHANGED <<journalVars, pending, queue, to, sessionVars, deletionVars, hooks, boundVars>>

\* The options and parameters of a start inside the run; only then it has a controller.
Choose(s) ==
    /\ Quiet /\ phase[s] = "choosing"
    /\ \/ "gone" \in mark[s] /\ Moved(s, "cancelled") /\ UNCHANGED <<queue, faults>>
       \/ "gone" \notin mark[s] /\ Fault /\ Moved(s, "refused") /\ UNCHANGED queue
       \/ "gone" \notin mark[s] /\ Moved(s, "queued") /\ queue' = Append(queue, s) /\ UNCHANGED faults
    /\ UNCHANGED <<journalVars, prep, pending, startup, to, sessionVars, deletionVars, hooks,
                   upsets, crashes, losses, lateVars>>

\* Its turn: it waits for the start of the run itself, if one is under way.
TakeTurn(s) ==
    /\ queue # <<>> /\ s = Head(queue) /\ phase[s] = "queued"
    /\ IF Withdrawn(s) THEN Moved(s, Objection(s)) /\ queue' = Tail(queue)
       ELSE Moved(s, IF prep = NoPrep THEN "inHook" ELSE "blocked") /\ UNCHANGED queue
    /\ UNCHANGED <<journalVars, prep, pending, startup, to, sessionVars, deletionVars, hooks, boundVars>>

InstalledFor(s) == installs' = [installs EXCEPT ![EntryOf[s]] = @ + 1]

\* The script was installed; then the run cannot be used any more, or its input is refused.
InstalledInVain(s) ==
    phase[s] = "inInstall" /\ ~Withdrawn(s) /\ InstalledFor(s) /\ unqueued' = [unqueued EXCEPT ![EntryOf[s]] = @ + 1]

StartInRun(s) ==
    /\ Quiet /\ queue # <<>> /\ s = Head(queue) /\ phase[s] \in {"inHook", "inWorkspace", "inInstall"}
    /\ \/ /\ \/ Objection(s) # "none" /\ Moved(s, Objection(s)) /\ UNCHANGED <<locked, faults>>
             \/ /\ Objection(s) = "none" /\ Fault /\ Moved(s, "refused")
                /\ locked' = (locked \/ phase[s] = "inWorkspace")
          /\ queue' = Tail(queue)
          /\ UNCHANGED <<installs, unqueued>> \/ InstalledInVain(s)
       \/ /\ Objection(s) = "none" /\ phase[s] # "inInstall"
          /\ Moved(s, IF phase[s] = "inHook" THEN "inWorkspace" ELSE "inInstall")
          /\ UNCHANGED <<installs, unqueued, queue, locked, faults>>
       \/ /\ Objection(s) = "none" /\ phase[s] = "inInstall" /\ InstalledFor(s)
          /\ Moved(s, "accepted") /\ queue' = Tail(queue) /\ UNCHANGED <<unqueued, locked, faults>>
    /\ UNCHANGED <<created, actors, primary, prep, pending, startup, to, disposed, deletionVars, hooks,
                   upsets, crashes, losses, unready>>

-----------------------------------------------------------------------------
(* The work of the preparation, for its owner.                                *)

WorkObjection == CASE prep.cut \in {"left", "stopped"} -> "cancelled"
                   [] prep.cut = "deleted" \/ (prep.cut = "no" /\ ~Usable) -> "refused"
                   [] OTHER -> "none"

ShownAfterFailure == IF prep.owner \in Starts /\ ~disposed THEN "failed" ELSE startup

Fails(outcome) ==
    /\ Settled(outcome) /\ startup' = ShownAfterFailure
    /\ UNCHANGED <<created, actors, primary>>

\* The script was installed; then the run cannot be used any more, or gets no coordinator.
FailsInstalled ==
    /\ prep.at = "install" /\ prep.cut = "no"
    /\ InstalledFor(prep.owner) /\ pending' = EntryOf[prep.owner] /\ UNCHANGED <<hooks, unready>>

\* sessionStarted finished; then the preparation is found cancelled or the run unusable, or the input of the start
\* is refused.  The startup stays incomplete.
FailsTold ==
    /\ prep.at = "lifecycle" /\ (WorkObjection # "none" \/ prep.owner \in prep.waiters \cap Starts)
    /\ hooks' = hooks + 1 /\ unready' = unready + 1 /\ UNCHANGED <<installs, pending>>

WorkStops ==
    /\ Quiet /\ prep # NoPrep
    /\ \/ WorkObjection # "none" /\ Fails(WorkObjection) /\ UNCHANGED <<locked, faults>>
       \/ WorkObjection = "none" /\ Fault /\ Fails("refused") /\ locked' = (locked \/ prep.at = "workspace")
    /\ UNCHANGED <<installs, pending, hooks, unready>> \/ FailsInstalled \/ FailsTold
    /\ UNCHANGED <<queue, to, disposed, deletionVars, upsets, crashes, losses, unqueued>>

WorkGoesOn(at) == Quiet /\ prep # NoPrep /\ prep.at = at /\ WorkObjection = "none"
Reaches(at) == prep' = [prep EXCEPT !.at = at] /\ UNCHANGED <<phase, mark>>
WorkUnchanged == UNCHANGED <<queue, to, sessionVars, deletionVars, boundVars>>

\* The coordinator, if no actor is primary.
Staffed == IF primary = 0 THEN actors' = actors + 1 /\ primary' = actors + 1 ELSE UNCHANGED <<actors, primary>>

CheckParameters ==
    /\ WorkGoesOn("parameters") /\ Reaches("prepare")
    /\ UNCHANGED <<journalVars, pending, startup, hooks>> /\ WorkUnchanged

\* Only the template whose startup is incomplete may go on with it.
CreateRun ==
    /\ WorkGoesOn("prepare")
    /\ IF pending \in {"none", EntryOf[prep.owner]}
       THEN /\ created' = TRUE /\ Reaches("workspace") /\ UNCHANGED <<actors, primary, installs, pending, startup, hooks>>
       ELSE Fails("refused") /\ UNCHANGED <<installs, pending, hooks>>
    /\ WorkUnchanged

\* Fault: a retried start installs its script again.
InstalledNever(s) == FALSE

Installed(s) == pending = EntryOf[s]

PrepareWorkspace ==
    /\ WorkGoesOn("workspace")
    /\ IF prep.owner \in Messages
       THEN Staffed /\ pending' = "plain" /\ Reaches("lifecycle")
       ELSE /\ IF Installed(prep.owner) THEN Staffed /\ Reaches("lifecycle")
               ELSE Reaches("install") /\ UNCHANGED <<actors, primary>>
            /\ UNCHANGED pending
    /\ UNCHANGED <<created, installs, startup, hooks>> /\ WorkUnchanged

InstallScript ==
    /\ WorkGoesOn("install") /\ Reaches("lifecycle")
    /\ InstalledFor(prep.owner) /\ pending' = EntryOf[prep.owner] /\ Staffed
    /\ UNCHANGED <<created, startup, hooks>> /\ WorkUnchanged

\* sessionStarted finished, and the start is enqueued, unless its caller left meanwhile.  A message may complete the
\* startup of a script that got no coordinator.
CompleteLifecycle ==
    /\ WorkGoesOn("lifecycle") /\ Settled("ready")
    /\ hooks' = hooks + 1 /\ unready' = unready + (IF primary = 0 THEN 1 ELSE 0) /\ pending' = "none"
    /\ startup' = IF prep.owner \in Starts THEN "none" ELSE startup
    /\ UNCHANGED <<journalVars, queue, to, sessionVars, deletionVars, upsets, faults, crashes, losses, unqueued>>

-----------------------------------------------------------------------------
(* Callers that leave, stops, the deletion, and the end of the process.      *)

Leave(o) ==
    /\ Quiet /\ o \in UnderWay /\ "gone" \notin mark[o] /\ Marked({o}, {"gone"})
    /\ UNCHANGED <<journalVars, startVars, phase, to, sessionVars, deletionVars, hooks, boundVars>>

StopsRequests == Registered

\* abortStart: the messages, the preparation, the start of the run and the starts inside it.
StopRun ==
    /\ Quiet /\ Usable /\ ~disposed /\ Upset /\ upsets' = upsets + 1
    /\ mark' = [o \in Requests |-> mark[o] \cup (IF o \in UnderWay THEN {"stopped"} ELSE {})
                                          \cup (IF o \in StopsRequests THEN {"cut"} ELSE {})]
    /\ prep' = Cancelled("stopped")
    /\ startup' = IF prep.owner \in Starts /\ startup = "preparing" THEN "failed" ELSE startup
    /\ UNCHANGED <<journalVars, pending, queue, phase, to, sessionVars, deletionVars, hooks, faults, crashes, losses, lateVars>>

\* The stop of the primary actor leaves the run without one.
LosePrimary ==
    /\ Quiet /\ primary # 0 /\ ~archived /\ Upset
    /\ primary' = 0 /\ losses' = losses + 1
    /\ UNCHANGED <<created, actors, installs, startVars, requestVars, sessionVars, deletionVars, hooks, upsets, faults, crashes, lateVars>>

DeletionUnchanged == UNCHANGED <<pending, queue, phase, to, locked, hooks, upsets, crashes, losses, lateVars>>
Elsewhere == UNCHANGED <<journalVars, prep, startup, mark, disposed>> /\ DeletionUnchanged

RequestDeletion ==
    /\ Quiet /\ deletion \in {"none", "failed"} /\ deletion' = "recording"
    /\ UNCHANGED <<intent, archived, faults>> /\ Elsewhere

\* The intent is written, unless it is there; without it the run is as before.
RecordIntent ==
    /\ Quiet /\ deletion = "recording"
    /\ \/ intent' = TRUE /\ deletion' = "recorded" /\ UNCHANGED faults
       \/ Fault /\ deletion' = (IF intent THEN "failed" ELSE "none") /\ UNCHANGED intent
    /\ UNCHANGED archived /\ Elsewhere

\* The session is given up: what it had under way is aborted.
Dispose ==
    /\ Quiet /\ deletion = "recorded" /\ deletion' = "draining" /\ disposed' = TRUE
    /\ Marked(Registered, {"cut"}) /\ startup' = "none"
    /\ prep' = IF prep.owner \in Starts THEN Cancelled("deleted") ELSE prep
    /\ UNCHANGED <<journalVars, intent, archived, faults>> /\ DeletionUnchanged

\* The requests ended, turns and plugins were stopped, the workspace is not being prepared.
Drain ==
    /\ Quiet /\ deletion = "draining" /\ UnderWay = {} /\ prep.at # "workspace"
    /\ \/ deletion' = "removing" /\ UNCHANGED faults
       \/ Fault /\ deletion' = "failed"
    /\ UNCHANGED <<intent, archived>> /\ Elsewhere

\* The plugins delete what they keep, and the journal moves to the archive.
Archive ==
    /\ Quiet /\ deletion = "removing"
    /\ \/ deletion' = "archived" /\ archived' = TRUE /\ created' = FALSE /\ primary' = 0 /\ UNCHANGED faults
       \/ Fault /\ deletion' = "failed" /\ UNCHANGED <<archived, created, primary>>
    /\ UNCHANGED <<intent, actors, installs, prep, startup, mark, disposed>> /\ DeletionUnchanged

RemoveIntent ==
    /\ Quiet /\ deletion = "archived" /\ deletion' = "done" /\ intent' = FALSE
    /\ UNCHANGED <<archived, faults>> /\ Elsewhere

\* Fault: a deletion that was begun is forgotten with the process.
ForgottenDeletion == IF archived THEN "done" ELSE "none"

ResumedDeletion == IF intent THEN "recorded" ELSE IF archived THEN "done" ELSE "none"

\* The server ends and starts again.  Of a start, the journal keeps what is in it, and nothing of its hook.
Crash ==
    /\ Quiet /\ Upset /\ crashes' = crashes + 1
    /\ prep' = NoPrep /\ pending' = "none" /\ startup' = "none" /\ queue' = <<>>
    /\ Placed([o \in Requests |-> IF o \in UnderWay THEN "refused" ELSE phase[o]])
    /\ disposed' = FALSE /\ locked' = FALSE
    /\ deletion' = ResumedDeletion
    /\ UNCHANGED <<journalVars, to, intent, archived, hooks, upsets, faults, losses, lateVars>>

-----------------------------------------------------------------------------
MessageStep(m) == MessageHooks(m) \/ EnsureRun(m) \/ MessageStarted(m) \/ Directing(m) \/ Enqueue(m)
StartStep(s) == StartPackage(s) \/ Choose(s) \/ TakeTurn(s) \/ StartInRun(s)
WorkStep == WorkStops \/ CheckParameters \/ CreateRun \/ PrepareWorkspace \/ InstallScript \/ CompleteLifecycle
DeletionStep == RecordIntent \/ Dispose \/ Drain \/ Archive \/ RemoveIntent

Next ==
    \/ \E m \in Messages : Arrive(m) \/ MessageStep(m)
    \/ \E s \in Starts : Ask(s) \/ StartStep(s)
    \/ \E o \in Requests : Leave(o) \/ GiveUp(o)
    \/ WorkStep \/ DeletionStep
    \/ StopRun \/ LosePrimary \/ RequestDeletion \/ Crash

\* Hooks and preparations end, and a promise that settled has its continuations run.
Fairness ==
    /\ \A o \in Requests : WF_vars(GiveUp(o))
    /\ \A m \in Messages : WF_vars(MessageStep(m))
    /\ \A s \in Starts : WF_vars(StartStep(s))
    /\ WF_vars(WorkStep) /\ WF_vars(DeletionStep)

Spec == Init /\ [][Next]_vars /\ Fairness

-----------------------------------------------------------------------------
(* Properties.                                                                *)

TypeOK ==
    /\ created \in BOOLEAN /\ actors \in Nat /\ primary \in 0 .. actors /\ installs \in [Entries -> Nat]
    /\ prep \in [owner : Requests \cup {"none"}, at : {"none", "parameters", "prepare", "workspace", "install", "lifecycle"},
                 waiters : SUBSET Requests, cut : {"no", "left", "stopped", "deleted"}]
    /\ prep.cut = "no" /\ prep # NoPrep => prep.waiters # {}
    /\ pending \in Entries \cup {"none", "plain"} /\ startup \in {"none", "preparing", "failed"}
    /\ queue \in Seq(Starts)
    /\ phase \in [Requests -> {"idle", "hook", "ensure", "settling", "joining", "ensured", "joined", "started", "directed",
                               "content", "asked", "decided", "choosing", "queued", "blocked", "inHook", "inWorkspace",
                               "inInstall", "accepted", "refused", "cancelled"}]
    /\ mark \in [Requests -> SUBSET {"gone", "cut", "stopped"}]
    /\ \A o \in prep.waiters : phase[o] \in {"joining", "joined"}
    /\ to \in [Messages -> 0 .. actors]
    /\ disposed \in BOOLEAN /\ locked \in BOOLEAN
    /\ deletion \in {"none", "recording", "recorded", "draining", "removing", "archived", "done", "failed"}
    /\ intent \in BOOLEAN /\ archived \in BOOLEAN

Becomes(o, end) == phase[o] # end /\ phase'[o] = end

\* A cancelled preparation takes down only those that are cancelled themselves: who waits with others for a
\* run is refused as cancelled only when its own caller left or the operator stopped the run.
CancelledAlone ==
    [][\A o \in Requests : Becomes(o, "cancelled") => mark[o] \cap {"gone", "stopped"} # {}]_vars

\* A request whose caller left before the answer, and a message under way at a stop, never reaches an actor.
WithdrawnNotAccepted ==
    [][\A o \in Requests : Becomes(o, "accepted") => "gone" \notin mark[o] /\ (o \in Messages => "stopped" \notin mark[o])]_vars

\* Whoever shares a preparation, a cancellation meets those it was meant for, and nobody else (abortStart, the signals
\* of the callers and awaitWithSignal).
CancellationFits == CancelledAlone /\ WithdrawnNotAccepted

\* No actor gets input before the plugins were told that the run started, and while a startup is incomplete no
\* message goes to the actor it concerns.
InputAfterReadiness ==
    [][\A o \in Requests : Becomes(o, "accepted") =>
         (hooks' > 0 \/ crashes > 0) /\ (o \in Messages => pending' = "none")]_vars

\* The starts of a template whose callers were told that they were accepted.
Started(e) == Cardinality({s \in Starts : phase[s] = "accepted" /\ EntryOf[s] = e})

\* A startup that was interrupted, by a failure or by the end of the process, is finished and not repeated: the
\* plugins hear of a run again only after it lost its primary actor, or when the last time did not make it ready;
\* a start of a new run that is made again reuses its script.  But for the starts inside the run that were refused
\* once their script was there, at most one script stays installed without the start it was installed for.
StartedOnce ==
    /\ hooks <= 1 + losses + unready
    /\ \A e \in Entries : installs[e] <= 1 + unqueued[e] + Started(e)
    /\ \A e, f \in Entries : installs[e] > unqueued[e] + Started(e) /\ installs[f] > unqueued[f] + Started(f) => e = f

\* The chat shows that a run is being prepared only while a start prepares it that no stop has cancelled, until the session is given up.
StartupShown ==
    startup = "preparing" /\ ~disposed => prep.owner \in Starts /\ prep.cut # "stopped"

\* What holds of a run, its preparation and its startup between any two steps.
RunStartInv == TypeOK /\ StartedOnce /\ StartupShown

\* From the request to delete a run no input is accepted for it, and once it is archived nothing of it changes;
\* an accepted deletion is never taken back, not even by the end of the server process.
DeletionIsFinal ==
    [][/\ deletion # "none" => \A o \in Requests : ~Becomes(o, "accepted")
       /\ intent => deletion' \notin {"none", "recording"} \/ deletion \in {"recording", "failed"}
       /\ archived => UNCHANGED <<created, actors, primary, installs>>]_vars

\* Every request is answered, and a deletion ends or reports its error: no caller waits for a preparation that
\* ended, no start for one that never ends, and the deletion not for requests that wait for it.  The requests of
\* the model are finitely many, so that all of them being answered again and again says so of each.
EverybodyAnswered == []<>(UnderWay = {} /\ deletion \in {"none", "done", "failed"})

\* The specification says of a stop that it "reports the cancelled start immediately and prevents further setup
\* steps" (typescript-platform.md): a start under way at a stop is never enqueued.
StoppedStartRefused ==
    [][\A s \in Starts : Becomes(s, "accepted") => "stopped" \notin mark[s]]_vars

\* The specification says that a failed start "leaves neither an actor nor a room behind" (typescript-platform.md): a
\* start is not refused once its script, which is an actor with a room, was installed.
FailedStartLeavesNothing ==
    [][\A s \in Starts : Becomes(s, "refused") => UNCHANGED installs]_vars
=============================================================================
