--------------------------------- MODULE Watch ---------------------------------
(***************************************************************************)
(* The watches of one run (plugins/ragents.watch, service.ts): they look   *)
(* at one actor, the source, and wake another, the target, as soon as a    *)
(* condition holds of what has changed since the last wake.                *)
(*                                                                         *)
(* Every journal event of the run asks for a round of evaluations.  Rounds *)
(* wait for one another, and a round that was asked for during another is  *)
(* made up for.  The definitions and what a watch compares with are kept   *)
(* in the journal and loaded again when a run is prepared.                 *)
(*                                                                         *)
(* A condition is a function of two observations.  A watch that judges the *)
(* same change twice therefore only repeats its verdict, and the verdicts  *)
(* are left out, like the texts, the counters and the rooms.               *)
(***************************************************************************)
EXTENDS Naturals, FiniteSets

CONSTANTS
    Calls,      \* calls of watch_create
    Defs,       \* what they ask for: condition, operation, stall
    DefOf,      \* the definition of each call
    Slow,       \* the definitions with an operation to invoke
    Stalling,   \* the definitions with stallAfterSeconds, whose conditions ask for it
    Verdict,    \* what the condition of each definition returns for two observations, now and before
    None,       \* "no observation"
    MaxTurns,   \* bound: turns of the source
    MaxUpsets   \* bound: stops of the run, ends of the server process, operations and compilations that fail

\* Watches are numbered as they are created, at most one by each call.
Ids == 1 .. Cardinality(Calls)
States == {"idle", "queued", "running"}
Observation == [state : States, done : 0 .. MaxTurns, stalled : BOOLEAN]
Entry == [def : Defs, base : Observation \cup {None}]
Loaded == [def : Defs, base : Observation \cup {None}, last : Observation \cup {None}]

ASSUME WatchAssumption ==
    /\ IsFiniteSet(Calls) /\ DefOf \in [Calls -> Defs] /\ Slow \subseteq Defs /\ Stalling \subseteq Defs
    /\ Verdict \in [Defs -> [Observation \X Observation -> {"wake", "nothing", "error"}]]
    /\ None \notin Observation
    /\ {MaxTurns, MaxUpsets} \subseteq Nat

VARIABLES
    source,    \* the actor they look at
    target,    \* the one they wake: free, busy or stopped
    working,   \* turns run in this run
    open,      \* the service knows the run
    watches,   \* those in memory
    stored,    \* those in the journal
    loading,   \* the stored ones that are still to be loaded
    call,      \* where each call of watch_create is
    debounce,  \* the timer for the next round
    round,     \* the watches that the round under way has still to look at
    seen,      \* while the operation of one of them runs: this watch, and what it saw before
    dirty,     \* a round was asked for meanwhile
    created,   \* history: how many watches there were
    removed,   \* history: those that were removed
    woken,     \* history: what each watch woke its target for last
    missed,    \* history: watches not judged since an operation or the loading of them failed
    torn,      \* history: those whose last wake was not written down
    ends, faults

actorVars == <<source, target, working>>
memory == <<open, watches, loading, call, debounce, round, seen, dirty>>
historyVars == <<created, removed, woken, missed, torn>>
vars == <<actorVars, memory, stored, historyVars, ends, faults>>

\* No watches.
Nothing == [w \in {} |-> None]

Init ==
    /\ source = [state |-> "idle", done |-> 0, stalled |-> FALSE] /\ target = "free" /\ working = TRUE
    /\ open = FALSE /\ watches = Nothing /\ stored = Nothing /\ loading = Nothing
    /\ call = [c \in Calls |-> "idle"]
    /\ debounce = FALSE /\ round = {} /\ seen = None /\ dirty = FALSE
    /\ created = 0 /\ removed = {} /\ woken = [w \in Ids |-> None] /\ missed = {} /\ torn = {}
    /\ ends = 0 /\ faults = 0

Upset == ends + faults < MaxUpsets
Fault == Upset /\ faults' = faults + 1

-----------------------------------------------------------------------------
(* Rounds of evaluations.                                                     *)

With(f, w, entry) == [x \in DOMAIN f \cup {w} |-> IF x = w THEN entry ELSE f[x]]
Dropped(f, w) == [x \in DOMAIN f \ {w} |-> f[x]]

\* What persist writes of the watches in memory.
Written(mem) == [w \in DOMAIN mem |-> [def |-> mem[w].def, base |-> mem[w].base]]

\* Watches are looked at and loaded in the order in which they were created.
First(w, ids) == w \in ids /\ \A v \in ids : w <= v
Evaluating == round # {}

\* An event of the run: a round is due after a second, or after the one under way.
Scheduled ==
    /\ debounce' = (debounce \/ (open /\ ~Evaluating))
    /\ dirty' = (dirty \/ (open /\ Evaluating))

\* At once, with the watches there are.
Started(mem) ==
    IF Evaluating THEN dirty' = TRUE /\ UNCHANGED <<debounce, round, missed>>
    ELSE debounce' = FALSE /\ round' = DOMAIN mem /\ dirty' = FALSE /\ missed' = {}

\* Fault: what happens during a round is not made up for.
NoRound(asked) == FALSE

RoundDue(asked) == asked

\* The round goes on with these; at its end the next one is due, if events came meanwhile.
GoesOnWith(rest, event) ==
    /\ round' = rest /\ seen' = None
    /\ IF rest = {} THEN debounce' = RoundDue(dirty \/ event) /\ dirty' = FALSE
       ELSE dirty' = (dirty \/ event) /\ UNCHANGED debounce

Fire ==
    /\ debounce /\ debounce' = FALSE /\ round' = DOMAIN watches /\ missed' = {}
    /\ UNCHANGED <<actorVars, open, watches, stored, loading, call, seen, dirty, created, removed, woken, torn, ends, faults>>

-----------------------------------------------------------------------------
(* The actors.                                                                *)

Become(state, done) == source' = [state |-> state, done |-> done, stalled |-> FALSE]

SourceChanges ==
    /\ working /\ source.done < MaxTurns /\ Scheduled
    /\ \/ source.state = "idle" /\ Become("queued", source.done)
       \/ source.state = "queued" /\ Become("running", source.done)
       \/ source.state = "running" /\ Become("idle", source.done + 1)
    /\ UNCHANGED <<target, working, open, watches, stored, loading, call, round, seen, historyVars, ends, faults>>

TargetChanges ==
    /\ working /\ Scheduled
    /\ \/ target = "busy" /\ target' \in {"free", "stopped"}
       \/ target = "free" /\ target' = "busy"
       \/ target = "stopped" /\ target' = "free"
    /\ UNCHANGED <<source, working, open, watches, stored, loading, call, round, seen, historyVars, ends, faults>>

\* No event of the source for stallAfterSeconds.
Stall ==
    /\ ~source.stalled /\ source' = [source EXCEPT !.stalled = TRUE]
    /\ UNCHANGED <<target, working, memory, stored, historyVars, ends, faults>>

\* The timer that looks for it.
StallTick ==
    /\ open /\ (\E w \in DOMAIN watches : watches[w].def \in Stalling) /\ Scheduled
    /\ UNCHANGED <<actorVars, open, watches, stored, loading, call, round, seen, historyVars, ends, faults>>

-----------------------------------------------------------------------------
(* One evaluation.                                                            *)

Observed(def) == [source EXCEPT !.stalled = @ /\ def \in Stalling]

\* The source as it was when the operation began, and its inputs as they are now.
Unsettled(o) == (o.state = "running" \/ source.state = "queued") /\ ~o.stalled

\* Fault: the baseline is written before it is changed.
WrittenBefore(mem) == stored

WrittenAfterWake(mem) == Written(mem)

\* An evaluation that changes these fields of the watch and writes them down, or not.
Judged(w, mem, writes) ==
    /\ watches' = mem /\ stored' = (IF writes THEN Written(mem) ELSE stored)
    /\ GoesOnWith(round \ {w}, writes)
    /\ UNCHANGED <<open, loading, call, woken, torn, target, ends>>

Skipped(w) == GoesOnWith(round \ {w}, FALSE) /\ UNCHANGED <<open, watches, stored, loading, call, woken, torn, target, ends>>

Forgotten ==
    /\ open' = FALSE /\ watches' = Nothing /\ loading' = Nothing
    /\ call' = [c \in Calls |-> IF call[c] = "compiling" THEN "refused" ELSE call[c]]
    /\ debounce' = FALSE /\ round' = {} /\ seen' = None /\ dirty' = FALSE

\* The wake is enqueued, then the new baseline is written; the process may end in between.
Wake(w, o) ==
    /\ target' = "busy" /\ woken' = [woken EXCEPT ![w] = o]
    /\ LET mem == [watches EXCEPT ![w].base = o, ![w].last = o] IN
       \/ /\ watches' = mem /\ stored' = WrittenAfterWake(mem) /\ torn' = torn \ {w}
          /\ GoesOnWith(round \ {w}, TRUE) /\ UNCHANGED <<open, loading, call, ends>>
       \/ /\ Upset /\ ends' = ends + 1 /\ Forgotten
          /\ torn' = torn \cup {w} /\ UNCHANGED stored

Judge(w, x, o) ==
    \/ x.base = None /\ Judged(w, [watches EXCEPT ![w].base = o, ![w].last = o], TRUE)
    \/ x.base # None /\ (o = x.last \/ target # "free" \/ Unsettled(o)) /\ Skipped(w)
    \/ /\ x.base # None /\ o # x.last /\ target = "free" /\ ~Unsettled(o)
       /\ \/ o = x.base /\ Judged(w, [watches EXCEPT ![w].last = o], FALSE)
          \/ o # x.base /\ Verdict[x.def][o, x.base] = "error" /\ Skipped(w)
          \/ o # x.base /\ Verdict[x.def][o, x.base] = "nothing"
             /\ Judged(w, [watches EXCEPT ![w].last = o], [o EXCEPT !.stalled = x.base.stalled] # x.base)
          \/ o # x.base /\ Verdict[x.def][o, x.base] = "wake" /\ Wake(w, o)

\* The next watch of the round; one that was removed ends the round.
EvaluateNext(w) ==
    \/ w \notin DOMAIN watches /\ GoesOnWith({}, FALSE)
       /\ UNCHANGED <<open, watches, stored, loading, call, woken, torn, target, ends>>
    \/ w \in DOMAIN watches /\ target = "stopped" /\ Skipped(w)
    \/ w \in DOMAIN watches /\ target # "stopped" /\ watches[w].def \notin Slow
       /\ Judge(w, watches[w], Observed(watches[w].def))
    \/ w \in DOMAIN watches /\ target # "stopped" /\ watches[w].def \in Slow
       /\ seen' = [watch |-> watches[w], obs |-> Observed(watches[w].def)]
       /\ UNCHANGED <<open, watches, stored, loading, call, debounce, round, dirty, woken, torn, target, ends>>

Evaluate ==
    /\ seen = None /\ \E w \in round : First(w, round) /\ EvaluateNext(w)
    /\ UNCHANGED <<source, working, created, removed, missed, faults>>

\* Fault: a watch that was removed while its operation ran is judged all the same.
GoneNever(w) == FALSE

Gone(w) == w \notin DOMAIN watches

\* The operation of a watch ended.
OperationOf(w) ==
    \/ Gone(w) /\ Skipped(w) /\ UNCHANGED <<missed, faults>>
    \/ ~Gone(w) /\ Judge(w, seen.watch, seen.obs) /\ UNCHANGED <<missed, faults>>
    \/ Fault /\ Skipped(w) /\ missed' = missed \cup {w}

OperationEnds ==
    /\ seen # None /\ \E w \in round : First(w, round) /\ OperationOf(w)
    /\ UNCHANGED <<source, working, created, removed>>

-----------------------------------------------------------------------------
(* watch_create and watch_remove, the preparation of the run and its end.    *)

WatchCreate(c) ==
    /\ working /\ call[c] = "idle" /\ open' = TRUE
    /\ call' = [call EXCEPT ![c] = IF \E w \in DOMAIN watches : watches[w].def = DefOf[c] THEN "answered" ELSE "compiling"]
    /\ UNCHANGED <<actorVars, watches, stored, loading, debounce, round, seen, dirty, historyVars, ends, faults>>

Compiled(c) ==
    /\ call[c] = "compiling"
    /\ \/ /\ Fault /\ call' = [call EXCEPT ![c] = "refused"]
          /\ UNCHANGED <<watches, stored, debounce, round, dirty, created, missed>>
       \/ LET mem == With(watches, created + 1, [def |-> DefOf[c], base |-> None, last |-> None]) IN
          /\ watches' = mem /\ stored' = Written(mem) /\ Started(mem)
          /\ call' = [call EXCEPT ![c] = "answered"] /\ created' = created + 1 /\ UNCHANGED faults
    /\ UNCHANGED <<actorVars, open, loading, seen, removed, woken, torn, ends>>

WatchRemove(w) ==
    /\ working /\ w \in DOMAIN watches /\ removed' = removed \cup {w}
    /\ watches' = Dropped(watches, w) /\ stored' = Written(watches') /\ Scheduled
    /\ UNCHANGED <<actorVars, open, loading, call, round, seen, created, woken, missed, torn, ends, faults>>

\* A message or a start prepares the run; turns run again.
Prepare ==
    /\ working' = TRUE
    /\ IF ~open /\ DOMAIN stored # {} THEN open' = TRUE /\ loading' = stored
       ELSE UNCHANGED <<open, loading>>
    /\ UNCHANGED <<source, target, watches, stored, call, debounce, round, seen, dirty, historyVars, ends, faults>>

Load ==
    /\ \E w \in DOMAIN loading :
       /\ First(w, DOMAIN loading)
       /\ \/ LET mem == With(watches, w, [def |-> loading[w].def, base |-> loading[w].base, last |-> None]) IN
             /\ watches' = mem /\ loading' = Dropped(loading, w) /\ UNCHANGED faults
             /\ IF DOMAIN loading = {w} THEN Started(mem) ELSE UNCHANGED <<debounce, round, dirty, missed>>
          \/ Fault /\ loading' = Nothing /\ missed' = DOMAIN watches /\ UNCHANGED <<watches, debounce, round, dirty>>
    /\ UNCHANGED <<actorVars, open, stored, call, seen, created, removed, woken, torn, ends>>

\* The run is stopped: no turn runs before it is prepared again.
Stop ==
    /\ working /\ Upset /\ ends' = ends + 1 /\ working' = FALSE /\ Forgotten
    /\ source' = [source EXCEPT !.state = "idle"] /\ target' = (IF target = "busy" THEN "free" ELSE target)
    /\ UNCHANGED <<stored, historyVars, faults>>

\* The server process ends; the next one resumes the turns of the run without preparing it.
Crash ==
    /\ Upset /\ ends' = ends + 1 /\ Forgotten
    /\ UNCHANGED <<actorVars, stored, historyVars, faults>>

-----------------------------------------------------------------------------
Next ==
    \/ SourceChanges \/ TargetChanges \/ Stall \/ StallTick
    \/ Fire \/ Evaluate \/ OperationEnds
    \/ \E c \in Calls : WatchCreate(c) \/ Compiled(c)
    \/ \E w \in Ids : WatchRemove(w)
    \/ Prepare \/ Load \/ Stop \/ Crash

\* Timers fire, and operations and compilations end.
Fairness ==
    /\ WF_vars(Fire) /\ WF_vars(Evaluate) /\ WF_vars(OperationEnds) /\ WF_vars(StallTick)
    /\ WF_vars(Load) /\ \A c \in Calls : WF_vars(Compiled(c))

Spec == Init /\ [][Next]_vars /\ Fairness

-----------------------------------------------------------------------------
(* Properties.                                                                *)

Evaluated == [watch : Loaded, obs : Observation]

TypeOK ==
    /\ source \in Observation /\ target \in {"free", "busy", "stopped"} /\ working \in BOOLEAN /\ open \in BOOLEAN
    /\ DOMAIN watches \subseteq Ids /\ \A w \in DOMAIN watches : watches[w] \in Loaded
    /\ DOMAIN stored \subseteq Ids /\ \A w \in DOMAIN stored : stored[w] \in Entry
    /\ DOMAIN loading \subseteq Ids /\ \A w \in DOMAIN loading : loading[w] \in Entry
    /\ call \in [Calls -> {"idle", "compiling", "answered", "refused"}]
    /\ debounce \in BOOLEAN /\ dirty \in BOOLEAN /\ round \subseteq Ids
    /\ seen # None => Evaluating /\ seen \in Evaluated
    /\ created \in 0 .. Cardinality(Calls) /\ removed \cup missed \cup torn \subseteq Ids
    /\ woken \in [Ids -> Observation \cup {None}]

\* There is one round at a time, and never a timer beside it; nothing of a run is evaluated,
\* compiled or loaded that the service gave up.
OneRound ==
    /\ ~(debounce /\ Evaluating)
    /\ debounce \/ Evaluating \/ DOMAIN watches \cup DOMAIN loading # {} \/ (\E c \in Calls : call[c] = "compiling") => open
    /\ dirty => Evaluating

\* Each watch has a number of its own, in the order of creation, wherever it is kept; one is loaded once, what was
\* removed does not come back, and a round looks at no watch that is still to be loaded.
Numbered ==
    /\ created <= Cardinality({c \in Calls : call[c] = "answered"})
    /\ DOMAIN watches \cup DOMAIN stored \cup DOMAIN loading \cup removed \cup torn \subseteq 1 .. created
    /\ \A w \in Ids : woken[w] # None => w <= created
    /\ DOMAIN loading \cap DOMAIN watches = {}
    /\ removed \cap (DOMAIN watches \cup DOMAIN stored \cup DOMAIN loading) = {}
    /\ round \subseteq DOMAIN watches \cup removed

LastWoken(f) == \A w \in DOMAIN f : woken[w] # None /\ w \notin torn => f[w].base = woken[w]
AsStored(f) == \A w \in DOMAIN f \cap DOMAIN stored : f[w].base = stored[w].base

\* What a condition is given as the state before is that of the last wake, here and after the next restart, unless the
\* process ended before it was written down; also when the operation of the watch took its time.
BaselineIsLastWake ==
    /\ LastWoken(watches) /\ LastWoken(stored) /\ LastWoken(loading)
    /\ AsStored(watches) /\ AsStored(loading)
    /\ seen # None => \A w \in round \cap DOMAIN watches : First(w, round) => seen.watch = watches[w]

WatchInv == TypeOK /\ OneRound /\ Numbered /\ BaselineIsLastWake

\* The removal of a watch and the end of its run end the observation: not even an evaluation that waits for its
\* operation wakes anybody afterwards.
EndedStaysQuiet ==
    [][\A w \in Ids : woken'[w] # woken[w] => w \in DOMAIN watches /\ open]_vars

\* The source has come to rest, the target is free, and the condition holds of what has changed.
Due(w) ==
    /\ w \in DOMAIN watches /\ DOMAIN loading = {} /\ source.state = "idle" /\ target = "free"
    /\ watches[w].base # None /\ watches[w].base # Observed(watches[w].def)
    /\ Verdict[watches[w].def][Observed(watches[w].def), watches[w].base] = "wake"

\* No change is lost: whatever came while the target was busy or during another round, a wake that is due comes, unless
\* an operation or the loading of the watches fails, after which the next event has to come first.
ChangesReported ==
    \A w \in Ids : Due(w) ~> ~Due(w) \/ w \in missed

\* The definitions are stored in the journal and restored (plugins.md): only watch_remove takes one out of it.
StoredKept ==
    [][\A w \in DOMAIN stored : w \in DOMAIN stored' \/ w \in removed']_vars
=============================================================================
