----------------------------- MODULE Workstation -----------------------------
(***************************************************************************)
(* One workstation of one owner, the registry of the server that calls it  *)
(* (ragents.workspace clients.ts) and the background commands that bash    *)
(* leaves running there (background-tasks.ts, observed by                  *)
(* workspace-sandbox-host.ts).                                             *)
(*                                                                         *)
(* Requests reach the workstation over one event stream, in order; answers *)
(* are requests of their own, in any order.  Either side notices the end   *)
(* of the stream when it does.  The executor outlives a lost connection:   *)
(* it aborts what it was asked and keeps its commands.  What the server    *)
(* knows of stops and observations it keeps in memory.                     *)
(*                                                                         *)
(* Left out: the sign-out, the confirmation of full access, changes of the *)
(* access of a run, the stop of a single command, the 15 minutes a call    *)
(* may take, and the 5 seconds a cancelled call waits for its answer.      *)
(***************************************************************************)
EXTENDS Naturals, SequencesExt

CONSTANTS
    Runs,        \* runs bound to the workstation
    Tasks,       \* the background commands that may be started
    RunOf,       \* the run of each
    MaxStops,    \* bound: stops of runs
    MaxFaults,   \* bound: lost connections, crashes, exceeded time limits and failed stops
    MaxRenewals  \* bound: sign-ins over a stream that is signed in

ASSUME WorkstationAssumption ==
    /\ IsFiniteSet(Runs) /\ IsFiniteSet(Tasks) /\ Runs \cap Tasks = {}
    /\ RunOf \in [Tasks -> Runs]
    /\ {MaxStops, MaxFaults, MaxRenewals} \subseteq Nat
    /\ {"none", "caller", "catchup"} \cap Tasks = {}

VARIABLES
    full,       \* the runs with full access, the others are isolated
    exists,     \* the runs the journal has
    entry,      \* the sign-in: "none", "live", or "dead" once its connection is gone unnoticed
    pending,    \* the stop that is still to reach the workstation
    delivery,   \* its delivery under way, with those that wait for it
    retry,      \* the timer for another attempt is set
    start,      \* the call that starts each command
    watch,      \* the observation of each command
    notices,    \* how often the end of a command was reported to its actor
    link,       \* the workstation has its event stream
    announced,  \* its sign-in over this stream
    named,      \* the commands that sign-in names
    down,       \* requests on their way to the workstation
    up,         \* answers on their way back
    task,       \* each command at the workstation
    waits,      \* the observations that reached it
    reported,   \* the commands whose end an observation returned
    stopping,   \* the runs whose processes are being ended
    needsStop,  \* those whose processes are to be ended before the next request
    reset,      \* the runs a stop left without an access level
    asking,     \* the stop requests that wait for the end of the processes
    before,     \* history: the commands called before the last stop of their run
    late,       \* history: runs a delivery of whose stop exceeded its time limit
    failed,     \* history: runs a stop of which failed at the workstation
    forgotten,  \* history: runs whose pending stop a crash of the server lost
    cut,        \* history: the commands with full access that lost the stream
    unheard,    \* history: the commands whose reported end a crash of the server lost
    stops, faults, renewals

stopVars == <<pending, delivery, retry>>
callVars == <<start, watch, notices>>
lineVars == <<link, announced, named>>
wireVars == <<down, up>>
executorVars == <<task, waits, reported, stopping, needsStop, reset, asking>>
historyVars == <<before, late, failed, forgotten, cut, unheard>>
boundVars == <<stops, faults, renewals>>
vars == <<full, exists, entry, stopVars, callVars, lineVars, wireVars, executorVars, historyVars, boundVars>>

NoDelivery == [kind |-> "none", current |-> FALSE, owner |-> "none", joined |-> {}]
Request(op, of) == [op |-> op, of |-> of, heard |-> TRUE]
Answer(op, of) == [op |-> op, of |-> of]
TasksOf(r) == {t \in Tasks : RunOf[t] = r}

Init ==
    /\ full \in SUBSET Runs /\ exists = Runs
    /\ entry = "none" /\ pending = [r \in Runs |-> "none"] /\ delivery = [r \in Runs |-> NoDelivery] /\ retry = FALSE
    /\ start = [t \in Tasks |-> "none"] /\ watch = [t \in Tasks |-> "none"] /\ notices = [t \in Tasks |-> 0]
    /\ link = TRUE /\ announced = "no" /\ named = {}
    /\ down = <<>> /\ up = {}
    /\ task = [t \in Tasks |-> "none"] /\ waits = [t \in Tasks |-> "no"] /\ reported = {}
    /\ stopping = {} /\ needsStop = {} /\ reset = {} /\ asking = [r \in Runs |-> {}]
    /\ before = {} /\ late = {} /\ failed = {} /\ forgotten = {} /\ cut = {} /\ unheard = {}
    /\ stops = 0 /\ faults = 0 /\ renewals = 0

Fault == faults < MaxFaults /\ faults' = faults + 1

-----------------------------------------------------------------------------
(* Calls of the server.  A call that waits for the delivery of a stop is      *)
(* named by its command; "caller" is the stop or deletion of the run itself,  *)
(* "catchup" a sign-in or the timer.                                          *)

Waiting(t) == start[t] = "held" \/ watch[t] = "held"
RequestOf(t) == Request(IF start[t] = "held" THEN "start" ELSE "wait", t)

\* What is sent over a stream that is gone is lost.
Sent(requests) == IF entry = "live" THEN down \o requests ELSE down

Begun(kind, who) == [kind |-> kind, current |-> TRUE, owner |-> who, joined |-> {}]

\* A delivery under way is joined: who joins it delivers again if a stop is pending after it.
Deliver(r, kind, d, who) ==
    IF entry = "none" THEN UNCHANGED <<delivery, down>>
    ELSE IF d = NoDelivery
         THEN delivery' = [delivery EXCEPT ![r] = Begun(kind, who)] /\ down' = Sent(<<Request(kind, r)>>)
         ELSE delivery' = [delivery EXCEPT ![r] = [d EXCEPT !.joined = @ \cup {who}]] /\ UNCHANGED down

\* Only what was delivered is done; a deletion that replaced the stop meanwhile stays.
Left(r, result) == IF result # "unreached" /\ delivery[r].current THEN "none" ELSE pending[r]

\* Fault: a stop that did not reach a signed-in workstation waits for its next sign-in.
RetryNever(result) == retry

RetryAfter(result) == retry \/ result = "unreached"

\* Fault: only the call that began a delivery goes on after it.
ResumedOwner(r, result, again) == IF result = "refused" THEN {} ELSE {delivery[r].owner} \cap Tasks

\* Those whose wait ends with the delivery; one that began it goes on even if it did not reach the workstation.
Resumed(r, result, again) ==
    IF result = "refused" THEN {} ELSE ({delivery[r].owner} \cup (IF again THEN {} ELSE delivery[r].joined)) \cap Tasks

FailedWith(r, result) ==
    IF result = "refused" THEN ({delivery[r].owner} \cup delivery[r].joined) \cap Tasks ELSE {}

\* The delivery of the stop of r ends while the server holds a sign-in; queue is what is still under way.
Settle(r, result, queue) ==
    LET left == Left(r, result)
        again == result # "refused" /\ left # "none" /\ delivery[r].joined # {}
        resumed == Resumed(r, result, again)
        fails == FailedWith(r, result)
    IN  /\ pending' = [pending EXCEPT ![r] = left]
        /\ retry' = RetryAfter(result)
        /\ \E next \in IF again THEN delivery[r].joined ELSE {"none"} :
              /\ delivery' = [delivery EXCEPT ![r] =
                    IF again THEN [Begun(left, next) EXCEPT !.joined = delivery[r].joined \ {next}] ELSE NoDelivery]
              /\ down' = IF entry # "live" THEN queue
                         ELSE queue \o SetToSeq({RequestOf(t) : t \in resumed})
                                    \o (IF again THEN <<Request(left, r)>> ELSE <<>>)
        /\ start' = [t \in Tasks |-> IF start[t] = "held" /\ t \in resumed THEN "asked"
                                     ELSE IF start[t] = "held" /\ t \in fails THEN "failed" ELSE start[t]]
        /\ watch' = [t \in Tasks |-> IF watch[t] = "held" /\ t \in resumed THEN "asked"
                                     ELSE IF watch[t] = "held" /\ t \in fails THEN "none" ELSE watch[t]]
        /\ notices' = [t \in Tasks |-> IF watch[t] = "held" /\ t \in fails /\ r \in exists THEN notices[t] + 1 ELSE notices[t]]

StopAnswered(r) ==
    /\ \E a \in up :
          /\ a.op \in {"stopped", "refused"} /\ a.of = r
          /\ up' = up \ {a}
          /\ Settle(r, IF a.op = "stopped" THEN "done" ELSE "refused", down)
    /\ UNCHANGED <<full, exists, entry, lineVars, executorVars, historyVars, boundVars>>

\* What was sent goes on without its caller.
Unheard(S) == [i \in 1..Len(down) |-> IF down[i] \in S THEN [down[i] EXCEPT !.heard = FALSE] ELSE down[i]]

\* The answer to a delivery nobody waits for any more is not heard.
Muffled(r) == Unheard({m \in ToSet(down) : m.of = r})

\* A stop that was not answered within 10 seconds stays pending; the workstation may still carry it out.
StopTimeLimit(r) ==
    /\ Fault /\ delivery[r] # NoDelivery
    /\ Settle(r, "unreached", Muffled(r))
    /\ up' = {a \in up : a.of # r}
    /\ asking' = [asking EXCEPT ![r] = {[a EXCEPT !.heard = FALSE] : a \in @}]
    /\ late' = late \cup {r}
    /\ UNCHANGED <<full, exists, entry, lineVars, task, waits, reported, stopping, needsStop, reset, before, failed, forgotten, cut, unheard, stops, renewals>>

\* The timer delivers every pending stop if the workstation is signed in.
RetryStops ==
    /\ retry /\ retry' = FALSE
    /\ LET due == IF entry = "none" THEN {} ELSE {r \in Runs : pending[r] # "none"}
           new == {r \in due : delivery[r] = NoDelivery}
       IN /\ delivery' = [r \in Runs |-> IF r \in new THEN Begun(pending[r], "catchup")
                                         ELSE IF r \in due THEN [delivery[r] EXCEPT !.joined = @ \cup {"catchup"}] ELSE delivery[r]]
          /\ down' = Sent(SetToSeq({Request(pending[r], r) : r \in new}))
    /\ UNCHANGED <<full, exists, entry, pending, callVars, lineVars, up, executorVars, historyVars, boundVars>>

\* Fault: a call goes out beside a pending stop.
HeldBackNever(r) == FALSE

HeldBack(r) == pending[r] # "none"

\* A call of the server: behind a pending stop it waits for the delivery of that stop.
Call(t, op, calls, failing) ==
    LET r == RunOf[t]
    IN  IF entry = "none" THEN calls' = [calls EXCEPT ![t] = failing] /\ UNCHANGED <<delivery, down>>
        ELSE IF HeldBack(r)
             THEN calls' = [calls EXCEPT ![t] = "held"] /\ Deliver(r, pending[r], delivery[r], t)
             ELSE calls' = [calls EXCEPT ![t] = "asked"] /\ down' = Sent(<<Request(op, t)>>) /\ UNCHANGED delivery

CallerGone(r) == delivery[r].owner # "caller" /\ "caller" \notin delivery[r].joined

StartTask(t) ==
    /\ start[t] = "none" /\ RunOf[t] \in exists /\ CallerGone(RunOf[t])
    /\ Call(t, "start", start, "failed")
    /\ UNCHANGED <<full, exists, entry, pending, retry, watch, notices, lineVars, up, executorVars, historyVars, boundVars>>

\* The command that was started is observed at once, unless a sign-in has named it meanwhile.
StartAnswered(t) ==
    /\ \E a \in up :
          /\ a.of = t /\ a.op \in {"started", "notStarted"} /\ up' = up \ {a}
          /\ start' = [start EXCEPT ![t] = IF @ # "asked" THEN @ ELSE IF a.op = "started" THEN "started" ELSE "failed"]
          /\ IF a.op = "started" /\ start[t] = "asked" /\ watch[t] = "none"
             THEN Call(t, "wait", watch, "paused") ELSE UNCHANGED <<watch, delivery, down>>
    /\ UNCHANGED <<full, exists, entry, pending, retry, notices, lineVars, executorVars, historyVars, boundVars>>

\* After 15 seconds an observation that lost the connection is opened again.
WatchAgain(t) ==
    /\ watch[t] = "paused" /\ entry # "none"
    /\ Call(t, "wait", watch, "paused")
    /\ UNCHANGED <<full, exists, entry, pending, retry, start, notices, lineVars, up, executorVars, historyVars, boundVars>>

\* The actor learns of the end, or that the command can no longer be observed, if its run still exists.
WatchAnswered(t) ==
    /\ \E a \in up : a.of = t /\ a.op \in {"ended", "lost"} /\ up' = up \ {a}
    /\ watch' = [watch EXCEPT ![t] = "none"]
    /\ notices' = [notices EXCEPT ![t] = IF RunOf[t] \in exists THEN @ + 1 ELSE @]
    /\ UNCHANGED <<full, exists, entry, stopVars, start, lineVars, down, executorVars, historyVars, boundVars>>

-----------------------------------------------------------------------------
(* The stop and the deletion of a run *)

\* An aborted call that waits for a delivery sends nothing afterwards, but still delivers again.
Ghosted(d, T) == [d EXCEPT !.owner = IF @ \in T THEN "catchup" ELSE @,
                           !.joined = IF @ \cap T = {} THEN @ ELSE (@ \ T) \cup {"catchup"}]

\* An aborted observation that is on its way arrives and observes nothing.
Unobserved(T) == Unheard({m \in ToSet(down) : m.op = "wait" /\ m.of \in T})

\* Its calls and observations are aborted first, so that the ends the stop causes reach nobody.
StopRun(r) ==
    LET T == TasksOf(r)
        kind == IF pending[r] = "none" THEN "stop" ELSE pending[r]
        d == Ghosted(delivery[r], T)
        rest == Unobserved(T)
    IN  /\ r \in exists /\ CallerGone(r) /\ stops < MaxStops
        /\ stops' = stops + 1
        /\ start' = [t \in Tasks |-> IF t \in T /\ start[t] \in {"held", "asked"} THEN "failed" ELSE start[t]]
        /\ watch' = [t \in Tasks |-> IF t \in T THEN "none" ELSE watch[t]]
        /\ waits' = [t \in Tasks |-> IF t \in T THEN "no" ELSE waits[t]]
        /\ up' = {a \in up : ~(a.of \in T /\ a.op \in {"ended", "lost"})}
        /\ pending' = [pending EXCEPT ![r] = kind]
        /\ IF entry = "none" THEN delivery' = delivery /\ down' = rest
           ELSE IF d = NoDelivery
                THEN /\ delivery' = [delivery EXCEPT ![r] = Begun(kind, "caller")]
                     /\ down' = IF entry = "live" THEN Append(rest, Request(kind, r)) ELSE rest
                ELSE delivery' = [delivery EXCEPT ![r] = [d EXCEPT !.joined = @ \cup {"caller"}]] /\ down' = rest
        /\ before' = before \cup {t \in T : start[t] # "none"}
        /\ UNCHANGED <<full, exists, entry, retry, notices, lineVars, task, reported, stopping, needsStop, reset, asking, late, failed, forgotten, cut, unheard, faults, renewals>>

\* A run is deleted after its stop: the deletion takes the place of a stop that is still pending.
DeleteRun(r) ==
    /\ r \in exists /\ CallerGone(r)
    /\ \A t \in TasksOf(r) : start[t] = "none" \/ t \in before
    /\ exists' = exists \ {r}
    /\ pending' = [pending EXCEPT ![r] = "delete"]
    /\ Deliver(r, "delete", [delivery[r] EXCEPT !.current = FALSE], "caller")
    /\ UNCHANGED <<full, entry, retry, callVars, lineVars, up, executorVars, historyVars, boundVars>>

-----------------------------------------------------------------------------
(* The connection and the sign-in *)

\* Full access ends with the stream.
Leased == {r \in full \ reset : \E t \in TasksOf(r) : task[t] # "none"}

\* What a lost stream ends at the workstation: requests and answers under way, and what it was asked, but for stops.
StreamLost ==
    /\ link' = FALSE /\ announced' = "no" /\ named' = {}
    /\ down' = <<>> /\ up' = {}
    /\ task' = [t \in Tasks |-> IF task[t] = "starting" THEN "refused" ELSE task[t]]
    /\ waits' = [t \in Tasks |-> "no"]
    /\ asking' = [r \in Runs |-> {[a EXCEPT !.heard = FALSE] : a \in asking[r]}]
    /\ IF link THEN stopping' = stopping \cup Leased ELSE UNCHANGED stopping
    /\ needsStop' = needsStop \cup Leased /\ reset' = reset \cup Leased
    /\ cut' = cut \cup {t \in Tasks : RunOf[t] \in full /\ task[t] \in {"running", "ended"}}
    /\ UNCHANGED reported

LoseStream ==
    /\ Fault /\ link
    /\ StreamLost
    /\ entry' = IF entry = "live" THEN "dead" ELSE entry
    /\ UNCHANGED <<full, exists, stopVars, callVars, before, late, failed, forgotten, unheard, stops, renewals>>

\* Fault: an observation that lost the connection is left to the next sign-in.
LeftToSignIn == "none"

\* An observation that lost the connection is opened again later.
Reopened == "paused"

AfterDisconnect(calls, failing) == [t \in Tasks |-> IF calls[t] \in {"held", "asked"} THEN failing ELSE calls[t]]

\* The server notices the end of the stream: every open call fails, a pending stop stays for the next sign-in.
Disconnected ==
    /\ entry = "dead" /\ entry' = "none"
    /\ delivery' = [r \in Runs |-> NoDelivery]
    /\ retry' = (retry \/ \E r \in Runs : delivery[r] # NoDelivery)
    /\ start' = AfterDisconnect(start, "failed") /\ watch' = AfterDisconnect(watch, Reopened)
    /\ UNCHANGED <<full, exists, pending, notices, lineVars, wireVars, executorVars, historyVars, boundVars>>

\* The server ends and starts again: the runs are in its journal, everything else it has forgotten.
Crash ==
    /\ Fault
    /\ entry' = "none" /\ delivery' = [r \in Runs |-> NoDelivery] /\ retry' = FALSE
    /\ pending' = [r \in Runs |-> "none"]
    /\ start' = AfterDisconnect(start, "failed") /\ watch' = [t \in Tasks |-> "none"]
    /\ StreamLost
    /\ forgotten' = forgotten \cup {r \in Runs : pending[r] # "none"}
    /\ unheard' = unheard \cup {t \in reported : notices[t] = 0}
    /\ UNCHANGED <<full, exists, notices, before, late, failed, stops, renewals>>

\* The workstation first ends what it still has to end.
Reconnect ==
    /\ ~link /\ link' = TRUE
    /\ stopping' = stopping \cup needsStop
    /\ UNCHANGED <<full, exists, entry, stopVars, callVars, announced, named, wireVars, task, waits, reported, needsStop, reset, asking, historyVars, boundVars>>

\* Fault: the workstation signs in while it still ends processes.
MaySignInAtOnce == TRUE

MaySignIn == needsStop = {}

\* Fault: the sign-in names every command, also those whose end was reported.
AllTasks == {t \in Tasks : task[t] \in {"running", "ended"}}

Unreported == {t \in Tasks : task[t] \in {"running", "ended"} /\ t \notin reported}

\* It signs in on every new stream, and again when its folders change.
Announce ==
    /\ link /\ MaySignIn
    /\ announced = "no" \/ (announced = "yes" /\ renewals < MaxRenewals)
    /\ renewals' = IF announced = "yes" THEN renewals + 1 ELSE renewals
    /\ announced' = "asking" /\ named' = Unreported
    /\ UNCHANGED <<full, exists, entry, stopVars, callVars, link, wireVars, executorVars, historyVars, stops, faults>>

\* Fault: commands of runs the server does not have go on.
AbsentNone == {}

Absent == {RunOf[t] : t \in named} \ exists

\* The sign-in takes the place of an older one, delivers the pending stops, observes the named commands of
\* runs the server has and stops the others.
Register ==
    LET renewed == entry = "live"
        observed == {t \in named : RunOf[t] \in exists /\ watch[t] = "none"}
        due == {r \in Runs : pending[r] # "none"} \cup Absent
        kind == [r \in Runs |-> IF r \in Absent /\ pending[r] = "none" THEN "stop" ELSE pending[r]]
        new == {r \in due : ~renewed \/ delivery[r] = NoDelivery}
        resumed == IF renewed THEN {} ELSE {delivery[r].owner : r \in Runs} \cap Tasks
        held == {t \in observed : RunOf[t] \in due}
        Renewed(calls, t, failing) ==
            IF calls[t] = "held" /\ t \in resumed THEN "asked"
            ELSE IF calls[t] = "asked" /\ ~renewed THEN failing ELSE calls[t]
    IN  /\ announced = "asking" /\ announced' = "yes" /\ named' = {}
        /\ entry' = "live"
        /\ pending' = kind
        /\ retry' = (retry \/ (~renewed /\ \E r \in Runs : delivery[r] # NoDelivery))
        /\ delivery' = [r \in Runs |->
              IF r \notin due THEN NoDelivery
              ELSE [(IF r \in new THEN Begun(kind[r], "catchup") ELSE delivery[r]) EXCEPT
                       !.joined = delivery[r].joined \cup (held \cap TasksOf(r)) \cup (IF r \in new THEN {} ELSE {"catchup"})]]
        /\ start' = [t \in Tasks |-> Renewed(start, t, "failed")]
        /\ watch' = [t \in Tasks |-> IF t \in held THEN "held" ELSE IF t \in observed THEN "asked"
                                     ELSE Renewed(watch, t, Reopened)]
        /\ down' = down \o SetToSeq({Request(kind[r], r) : r \in new})
                        \o SetToSeq({RequestOf(t) : t \in resumed} \cup {Request("wait", t) : t \in observed \ held})
    /\ UNCHANGED <<full, exists, notices, link, up, executorVars, historyVars, boundVars>>

-----------------------------------------------------------------------------
(* The workstation *)

\* Ending the processes of a run aborts what observes them.
EndProcesses(R, answers) ==
    LET aborted == {t \in Tasks : waits[t] = "on" /\ RunOf[t] \in R}
    IN  /\ stopping' = stopping \cup R
        /\ up' = up \cup answers \cup {Answer("lost", t) : t \in aborted}

NextRequest(op) == down # <<>> /\ Head(down).op \in op /\ down' = Tail(down)

\* Fault: a start that came before the stop goes on after it.
RefusedNone(r) == {}

\* A stop takes the access level from the run, so what was to start before it is refused.
RefusedBy(r) == {t \in TasksOf(r) : task[t] = "starting"}

StopArrives ==
    /\ NextRequest({"stop", "delete"})
    /\ LET r == Head(down).of
           refused == RefusedBy(r)
       IN /\ EndProcesses({r}, {Answer("notStarted", t) : t \in refused})
          /\ task' = [t \in Tasks |-> IF t \in refused THEN "refused" ELSE task[t]]
          /\ waits' = [t \in Tasks |-> IF RunOf[t] = r /\ waits[t] = "on" THEN "no" ELSE waits[t]]
          /\ needsStop' = needsStop \cup {r} /\ reset' = reset \cup {r}
          /\ asking' = [asking EXCEPT ![r] = @ \cup {[op |-> Head(down).op, heard |-> Head(down).heard]}]
    /\ UNCHANGED <<full, exists, entry, stopVars, callVars, lineVars, reported, historyVars, boundVars>>

\* The first request after a stop, and one after a stop that failed, ends the processes once more.
OtherArrives ==
    /\ NextRequest({"start", "wait"})
    /\ LET t == Head(down).of
           r == RunOf[t]
           again == IF r \in reset \cup needsStop THEN {r} ELSE {}
       IN /\ EndProcesses(again, {})
          /\ needsStop' = needsStop \cup again /\ reset' = reset \ {r}
          /\ task' = [task EXCEPT ![t] = IF Head(down).op = "start" THEN "starting" ELSE @]
          /\ waits' = [u \in Tasks |-> IF u = t /\ Head(down).op = "wait" /\ Head(down).heard THEN "held"
                                       ELSE IF RunOf[u] \in again /\ waits[u] = "on" THEN "no" ELSE waits[u]]
    /\ UNCHANGED <<full, exists, entry, stopVars, callVars, lineVars, reported, asking, historyVars, boundVars>>

Answered(r, op) == IF \E a \in asking[r] : a.heard THEN {Answer(op, r)} ELSE {}

\* The processes of a run have ended; their commands and outputs are gone.
FinishStop(r) ==
    /\ r \in stopping
    /\ stopping' = stopping \ {r} /\ needsStop' = needsStop \ {r}
    /\ task' = [t \in Tasks |-> IF RunOf[t] = r /\ task[t] \in {"running", "ended"} THEN "gone" ELSE task[t]]
    /\ up' = up \cup Answered(r, "stopped")
    /\ asking' = [asking EXCEPT ![r] = {}]
    /\ UNCHANGED <<full, exists, entry, stopVars, callVars, lineVars, down, waits, reported, reset, historyVars, boundVars>>

\* Processes that do not end fail the stop and all that waited for it.
FailStop(r) ==
    /\ Fault /\ r \in stopping
    /\ stopping' = stopping \ {r}
    /\ LET starting == {t \in TasksOf(r) : task[t] = "starting"}
           held == {t \in TasksOf(r) : waits[t] = "held"}
       IN /\ task' = [t \in Tasks |-> IF t \in starting THEN "refused" ELSE task[t]]
          /\ waits' = [t \in Tasks |-> IF t \in held THEN "no" ELSE waits[t]]
          /\ up' = up \cup Answered(r, "refused") \cup {Answer("notStarted", t) : t \in starting}
                      \cup {Answer("lost", t) : t \in held}
    /\ asking' = [asking EXCEPT ![r] = {}]
    /\ failed' = failed \cup {r}
    /\ UNCHANGED <<full, exists, entry, stopVars, callVars, lineVars, down, reported, needsStop, reset, before, late, forgotten, cut, unheard, stops, renewals>>

Spawn(t) ==
    /\ task[t] = "starting" /\ RunOf[t] \notin stopping
    /\ task' = [task EXCEPT ![t] = "running"]
    /\ up' = up \cup {Answer("started", t)}
    /\ UNCHANGED <<full, exists, entry, stopVars, callVars, lineVars, down, waits, reported, stopping, needsStop, reset, asking, historyVars, boundVars>>

\* Only a command of the present executor can be observed.
Observe(t) ==
    /\ waits[t] = "held" /\ RunOf[t] \notin stopping
    /\ waits' = [waits EXCEPT ![t] = IF task[t] \in {"running", "ended"} THEN "on" ELSE "no"]
    /\ up' = IF task[t] \in {"running", "ended"} THEN up ELSE up \cup {Answer("lost", t)}
    /\ UNCHANGED <<full, exists, entry, stopVars, callVars, lineVars, down, task, reported, stopping, needsStop, reset, asking, historyVars, boundVars>>

EndTask(t) ==
    /\ task[t] = "running" /\ task' = [task EXCEPT ![t] = "ended"]
    /\ UNCHANGED <<full, exists, entry, stopVars, callVars, lineVars, wireVars, waits, reported, stopping, needsStop, reset, asking, historyVars, boundVars>>

\* Only an observation that returns the end reports it.
ReturnEnd(t) ==
    /\ waits[t] = "on" /\ task[t] = "ended"
    /\ waits' = [waits EXCEPT ![t] = "no"]
    /\ reported' = reported \cup {t}
    /\ up' = up \cup {Answer("ended", t)}
    /\ UNCHANGED <<full, exists, entry, stopVars, callVars, lineVars, down, task, stopping, needsStop, reset, asking, historyVars, boundVars>>

-----------------------------------------------------------------------------
Next ==
    \/ \E r \in Runs : StopRun(r) \/ DeleteRun(r) \/ StopAnswered(r) \/ StopTimeLimit(r) \/ FinishStop(r) \/ FailStop(r)
    \/ \E t \in Tasks : StartTask(t) \/ StartAnswered(t) \/ WatchAgain(t) \/ WatchAnswered(t)
                        \/ Spawn(t) \/ Observe(t) \/ EndTask(t) \/ ReturnEnd(t)
    \/ RetryStops \/ LoseStream \/ Disconnected \/ Crash \/ Reconnect \/ Announce \/ Register
    \/ StopArrives \/ OtherArrives

\* Both sides go on with what they have begun; runs, commands and faults do what they like.
Fairness ==
    /\ \A r \in Runs : WF_vars(StopAnswered(r)) /\ WF_vars(FinishStop(r))
    /\ \A t \in Tasks : WF_vars(StartAnswered(t)) /\ WF_vars(WatchAgain(t)) /\ WF_vars(WatchAnswered(t))
                        /\ WF_vars(Spawn(t)) /\ WF_vars(Observe(t)) /\ WF_vars(ReturnEnd(t))
    /\ WF_vars(RetryStops) /\ WF_vars(Disconnected) /\ WF_vars(Reconnect) /\ WF_vars(Announce) /\ WF_vars(Register)
    /\ WF_vars(StopArrives) /\ WF_vars(OtherArrives)

Spec == Init /\ [][Next]_vars /\ Fairness

-----------------------------------------------------------------------------
Callers == Tasks \cup {"caller", "catchup"}
Deliveries == [kind : {"none", "stop", "delete"}, current : BOOLEAN, owner : Callers \cup {"none"}, joined : SUBSET Callers]
Requests == [op : {"stop", "delete"}, of : Runs, heard : BOOLEAN] \cup [op : {"start", "wait"}, of : Tasks, heard : BOOLEAN]
Answers == [op : {"stopped", "refused"}, of : Runs] \cup [op : {"started", "notStarted", "ended", "lost"}, of : Tasks]

TypeOK ==
    /\ full \subseteq Runs /\ exists \subseteq Runs /\ entry \in {"none", "live", "dead"}
    /\ pending \in [Runs -> {"none", "stop", "delete"}] /\ delivery \in [Runs -> Deliveries] /\ retry \in BOOLEAN
    /\ start \in [Tasks -> {"none", "held", "asked", "started", "failed"}]
    /\ watch \in [Tasks -> {"none", "held", "asked", "paused"}]
    /\ notices \in [Tasks -> Nat]
    /\ link \in BOOLEAN /\ announced \in {"no", "asking", "yes"} /\ named \subseteq Tasks
    /\ down \in Seq(Requests) /\ up \subseteq Answers
    /\ task \in [Tasks -> {"none", "starting", "running", "ended", "gone", "refused"}]
    /\ waits \in [Tasks -> {"no", "held", "on"}]
    /\ stopping \cup needsStop \cup reset \subseteq Runs
    /\ asking \in [Runs -> SUBSET [op : {"stop", "delete"}, heard : BOOLEAN]]
    /\ reported \cup before \cup cut \cup unheard \subseteq Tasks /\ late \cup failed \cup forgotten \subseteq Runs
    /\ stops \in 0..MaxStops /\ faults \in 0..MaxFaults /\ renewals \in 0..MaxRenewals

\* Every call that waits for a stop is known to the delivery it waits for, and a delivery has a stop to deliver and
\* a sign-in (clients.ts #deliverStop, #disconnected).
CallsWaitForDelivery ==
    /\ \A r \in Runs : delivery[r] # NoDelivery => pending[r] # "none" /\ entry # "none"
    /\ \A t \in Tasks : Waiting(t) <=> t \in delivery[RunOf[t]].joined \cup {delivery[RunOf[t]].owner}

\* The server takes a workstation for connected only while it is, or has not noticed that it is not (clients.ts register).
SignedInOverStream == entry = "live" => link /\ announced # "no"

\* A stop the workstation has carried out has ended every command that was called before it, also those that were
\* still to start; a stop that failed there, exceeded its time limit or was forgotten in a crash is excepted (clients.ts #deliverStop,
\* workspace-client.ts #execute and #stop).
StopEndsEarlierTasks ==
    \A t \in before : (pending[RunOf[t]] = "none" /\ RunOf[t] \notin failed \cup forgotten \cup late) =>
        /\ task[t] \in {"none", "refused", "gone"}
        /\ \A i \in 1..Len(down) : ~(down[i].op = "start" /\ down[i].of = t)

\* No stop ends a command that was called after it, unless a delivery exceeded its time limit: calls wait for a
\* pending stop, however often it is delivered (clients.ts call, #deliverStop).  A command that full access loses
\* with the stream is not ended by a stop.
StopSparesLaterTasks ==
    [][\A t \in Tasks : (task[t] # "gone" /\ task'[t] = "gone") => t \in before \cup cut \/ RunOf[t] \in late]_vars

\* The same without the exception, as the specification of the workstations has it.
StopBeforeNewTasks ==
    [][\A t \in Tasks : (task[t] # "gone" /\ task'[t] = "gone") => t \in before \cup cut]_vars

\* No actor is told twice what became of a command, across lost connections and restarts of the server, unless
\* the workstation has renewed its sign-in or a stop of the run failed there (workspace-sandbox-host.ts #observeTask,
\* runtime.ts resumeBackgroundTasks).
NoticedOnceUnlessRenewed == \A t \in Tasks : notices[t] > 1 => renewals > 0 \/ RunOf[t] \in failed

\* The same for renewed sign-ins.
NoticedOnce == \A t \in Tasks : notices[t] <= 1

\* Before it signs in again, the workstation has ended every command with full access that lost its stream
\* (workspace-client.ts #disconnected and #send).
FullAccessEndsWithStream == announced # "no" => \A t \in cut : task[t] = "gone"

\* What holds of commands, stops and notices on both sides of the connection.
WorkstationInv ==
    /\ TypeOK /\ CallsWaitForDelivery /\ SignedInOverStream
    /\ StopEndsEarlierTasks /\ FullAccessEndsWithStream /\ NoticedOnceUnlessRenewed

\* A stop that is still to reach the workstation reaches it, across lost connections and exceeded time limits;
\* a crash of the server forgets it and a stop that fails at the workstation is not tried again.
StopDelivered == \A r \in Runs : pending[r] # "none" ~> (pending[r] = "none" \/ r \in failed)

\* The actor learns of the end of its command, unless the run was stopped after it was called, its output is gone,
\* the server crashed between the report of the end and the notice, or processes that do not end keep the
\* workstation from signing in.
EndNoticed == \A t \in Tasks : task[t] = "ended" ~>
    (notices[t] > 0 \/ task[t] = "gone" \/ t \in unheard \cup before \/ RunOf[t] \in failed)

\* A command of a deleted run does not go on for ever, also when the deletion was lost with a crash.
AbsentRunEnds == \A t \in Tasks : task[t] = "running" /\ RunOf[t] \notin exists ~> (task[t] # "running" \/ RunOf[t] \in failed)

\* What was to end on the workstation ends there, by a stop or by the deletion of its run.
EndsArrive == StopDelivered /\ AbsentRunEnds

=============================================================================
