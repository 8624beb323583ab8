------------------------------ MODULE Watch_proofs ------------------------------
(***************************************************************************)
(* Who is told of an event: the watches, and the dispatch of what a run    *)
(* commits to its subscriptions and creators.                              *)
(*                                                                         *)
(* WatchInv of Watch is inductive, and an evaluation wakes nobody for a    *)
(* watch that is gone.  The proofs hold for any number of calls, any       *)
(* definitions and any verdicts of their conditions.                       *)
(*                                                                         *)
(* The safety properties of Dispatch follow from one invariant, IInv: what *)
(* waits to be dispatched is in the order of the log, and what was neither *)
(* delivered nor lost still waits.  The proofs hold for any actors and     *)
(* subscriptions, and for logs, crashes, forks and moves of any number.    *)
(***************************************************************************)
EXTENDS Watch, Dispatch, FiniteSetTheorems, NaturalsInduction, WellFoundedInduction, TLAPS

\* Ids are numbers, and there are as many of them as calls.
LEMMA Counting ==
    /\ Cardinality(Calls) \in Nat
    /\ \A S \in SUBSET Calls : IsFiniteSet(S) /\ Cardinality(S) \in Nat /\ Cardinality(S) <= Cardinality(Calls)
BY WatchAssumption, FS_CardinalityType, FS_Subset

\* What a watch sees of its source is an observation.
LEMMA ObservedType ==
    ASSUME source \in Observation, NEW def PROVE Observed(def) \in Observation
BY DEF Observed, Observation

\* A watch that goes on with a new last observation keeps its shape.
LEMMA LoadedType ==
    ASSUME NEW x \in Loaded, NEW o \in Observation
    PROVE  /\ [x EXCEPT !.base = o, !.last = o] \in Loaded
           /\ [x EXCEPT !.last = o] \in Loaded
           /\ [def |-> x.def, base |-> x.base] \in Entry
           /\ [x EXCEPT !.base = o, !.last = o].base = o
           /\ [x EXCEPT !.last = o].base = x.base
BY DEF Loaded, Entry

\* A round that goes on, and the end of a round.
LEMMA GoesOn ==
    ASSUME TypeOK, OneRound, NEW rest \in SUBSET round, NEW event \in BOOLEAN, Evaluating, GoesOnWith(rest, event)
    PROVE  /\ debounce' \in BOOLEAN /\ dirty' \in BOOLEAN /\ round' \subseteq Ids /\ round' \subseteq round /\ seen' = None
           /\ ~(debounce' /\ Evaluating') /\ (dirty' => Evaluating')
           /\ open
BY DEF TypeOK, OneRound, GoesOnWith, RoundDue, Evaluating

\* An evaluation that goes on with these fields of the watch, written down or not, but with the baseline as it was or
\* with the first one.
LEMMA JudgedStep ==
    ASSUME WatchInv, NEW w \in round, First(w, round), w \in DOMAIN watches, NEW y \in Loaded, NEW writes \in BOOLEAN,
           (watches[w].base = None /\ writes) \/ y.base = watches[w].base,
           Judged(w, [watches EXCEPT ![w] = y], writes),
           UNCHANGED <<source, working, created, removed, missed>>
    PROVE  WatchInv'
<1> USE DEF WatchInv
<1> DEFINE mem == [watches EXCEPT ![w] = y]
<1>1. /\ watches' = mem /\ stored' = (IF writes THEN Written(mem) ELSE stored)
      /\ UNCHANGED <<open, loading, call, woken, torn, target, source, working, created, removed, missed>>
  BY DEF Judged
<1>2. /\ debounce' \in BOOLEAN /\ dirty' \in BOOLEAN /\ round' \subseteq Ids /\ round' \subseteq round /\ seen' = None
      /\ ~(debounce' /\ Evaluating') /\ (dirty' => Evaluating')
      /\ open
  <2>1. Evaluating /\ round \ {w} \in SUBSET round
    BY DEF Evaluating
  <2>2. QED
    BY <2>1, GoesOn DEF Judged
<1>3. DOMAIN mem = DOMAIN watches /\ \A v \in DOMAIN mem : mem[v] = IF v = w THEN y ELSE watches[v]
  OBVIOUS
<1>4. /\ DOMAIN stored' = IF writes THEN DOMAIN watches ELSE DOMAIN stored
      /\ \A v \in DOMAIN stored' : stored'[v] = IF writes THEN [def |-> mem[v].def, base |-> mem[v].base] ELSE stored[v]
  BY <1>1, <1>3 DEF Written
<1> HIDE DEF mem
<1>5. TypeOK'
  <2>1. \A v \in DOMAIN mem : mem[v] \in Loaded
    BY <1>3 DEF TypeOK
  <2>2. \A x \in Loaded : [def |-> x.def, base |-> x.base] \in Entry
    BY DEF Loaded, Entry
  <2>3. \A v \in DOMAIN stored' : stored'[v] \in Entry
    BY <1>3, <1>4, <2>1, <2>2 DEF TypeOK
  <2>4. DOMAIN watches' \subseteq Ids /\ DOMAIN stored' \subseteq Ids
    BY <1>1, <1>3, <1>4 DEF TypeOK
  <2>5. QED
    BY <1>1, <1>2, <2>1, <2>3, <2>4 DEF TypeOK
<1>6. OneRound'
  BY <1>1, <1>2 DEF OneRound
<1>7. Numbered'
  BY <1>1, <1>2, <1>3, <1>4 DEF Numbered
<1>8. BaselineIsLastWake'
  <2>1. woken[w] # None /\ w \notin torn => y.base = woken[w]
    BY DEF BaselineIsLastWake, LastWoken
  <2>a. \A v \in DOMAIN mem : woken[v] # None /\ v \notin torn => mem[v].base = woken[v]
    BY <1>3, <2>1 DEF BaselineIsLastWake, LastWoken
  <2>b. \A v \in DOMAIN stored' : woken[v] # None /\ v \notin torn => stored'[v].base = woken[v]
    <3>1. CASE writes
      BY <1>3, <1>4, <2>a, <3>1
    <3>2. CASE ~writes
      BY <1>4, <3>2 DEF BaselineIsLastWake, LastWoken
    <3>3. QED
      BY <3>1, <3>2
  <2>2. LastWoken(watches)' /\ LastWoken(stored)' /\ LastWoken(loading)'
    BY <1>1, <2>a, <2>b DEF BaselineIsLastWake, LastWoken
  <2>c. \A v \in DOMAIN mem \cap DOMAIN stored' : mem[v].base = stored'[v].base
    <3>1. CASE writes
      BY <1>3, <1>4, <3>1
    <3>2. CASE ~writes
      BY <1>3, <1>4, <3>2 DEF BaselineIsLastWake, AsStored
    <3>3. QED
      BY <3>1, <3>2
  <2>d. \A v \in DOMAIN loading \cap DOMAIN stored' : loading[v].base = stored'[v].base
    BY <1>3, <1>4 DEF BaselineIsLastWake, AsStored, Numbered
  <2>3. AsStored(watches)' /\ AsStored(loading)'
    BY <1>1, <2>c, <2>d DEF AsStored
  <2>4. QED
    BY <1>2, <2>2, <2>3 DEF BaselineIsLastWake
<1>9. QED
  BY <1>5, <1>6, <1>7, <1>8

\* A wake whose baseline is written down.
LEMMA WakeStep ==
    ASSUME WatchInv, NEW w \in round, First(w, round), w \in DOMAIN watches, NEW o \in Observation,
           watches' = [watches EXCEPT ![w].base = o, ![w].last = o],
           stored' = WrittenAfterWake([watches EXCEPT ![w].base = o, ![w].last = o]),
           torn' = torn \ {w}, target' = "busy", woken' = [woken EXCEPT ![w] = o],
           GoesOnWith(round \ {w}, TRUE),
           UNCHANGED <<open, loading, call, source, working, created, removed, missed>>
    PROVE  WatchInv'
<1> USE DEF WatchInv
<1> DEFINE y == [watches[w] EXCEPT !.base = o, !.last = o]
           mem == [watches EXCEPT ![w].base = o, ![w].last = o]
<1>1. DOMAIN mem = DOMAIN watches /\ \A v \in DOMAIN mem : mem[v] = IF v = w THEN y ELSE watches[v]
  OBVIOUS
<1>2. y \in Loaded /\ y.base = o
  BY LoadedType DEF TypeOK
<1> HIDE DEF y, mem
<1>3. /\ DOMAIN stored' = DOMAIN mem
      /\ \A v \in DOMAIN mem : stored'[v] = [def |-> mem[v].def, base |-> mem[v].base]
      /\ \A v \in DOMAIN mem : stored'[v].base = mem[v].base
  <2>1. stored' = [v \in DOMAIN mem |-> [def |-> mem[v].def, base |-> mem[v].base]]
    BY DEF WrittenAfterWake, Written, mem
  <2>2. \A v \in DOMAIN mem : stored'[v] = [def |-> mem[v].def, base |-> mem[v].base]
    BY <2>1
  <2>3. \A v \in DOMAIN mem : [def |-> mem[v].def, base |-> mem[v].base].base = mem[v].base
    OBVIOUS
  <2>4. \A v \in DOMAIN mem : stored'[v].base = mem[v].base
    BY <2>2, <2>3
  <2>5. DOMAIN stored' = DOMAIN mem
    BY <2>1
  <2>6. QED
    BY <2>2, <2>4, <2>5
<1>4. /\ debounce' \in BOOLEAN /\ dirty' \in BOOLEAN /\ round' \subseteq Ids /\ round' \subseteq round /\ seen' = None
      /\ ~(debounce' /\ Evaluating') /\ (dirty' => Evaluating')
      /\ open
  <2>1. Evaluating /\ round \ {w} \in SUBSET round
    BY DEF Evaluating
  <2>2. QED
    BY <2>1, GoesOn
<1>5. w \in Ids /\ o # None /\ woken \in [Ids -> Observation \cup {None}]
  BY WatchAssumption DEF TypeOK
<1>6. watches' = mem /\ DOMAIN watches \subseteq Ids
  BY DEF mem, TypeOK
<1>7. TypeOK'
  <2>1. \A v \in DOMAIN mem : mem[v] \in Loaded
    BY <1>1, <1>2 DEF TypeOK
  <2>2. \A x \in Loaded : [def |-> x.def, base |-> x.base] \in Entry
    BY DEF Loaded, Entry
  <2>3. \A v \in DOMAIN stored' : stored'[v] \in Entry
    BY <1>3, <2>1, <2>2, ZenonT(60)
  <2>4. DOMAIN watches' \subseteq Ids /\ DOMAIN stored' \subseteq Ids
    BY <1>1, <1>3, <1>6
  <2>5. woken' \in [Ids -> Observation \cup {None}] /\ torn' \subseteq Ids
    BY <1>5 DEF TypeOK
  <2>6. QED
    BY <1>4, <1>6, <2>1, <2>3, <2>4, <2>5 DEF TypeOK
<1>8. OneRound'
  BY <1>4 DEF OneRound
<1>9. Numbered'
  <2>1. w \in 1 .. created
    BY DEF Numbered
  <2>2. \A v \in Ids : woken'[v] # None => v <= created
    BY <1>5, <2>1 DEF Numbered, TypeOK
  <2>3. QED
    BY <1>1, <1>3, <1>4, <1>6, <2>2 DEF Numbered
<1>10. BaselineIsLastWake'
  <2>1. \A v \in DOMAIN mem : woken'[v] # None /\ v \notin torn' => mem[v].base = woken'[v]
    BY <1>1, <1>2, <1>5 DEF BaselineIsLastWake, LastWoken, TypeOK
  <2>2. \A v \in DOMAIN stored' : woken'[v] # None /\ v \notin torn' => stored'[v].base = woken'[v]
    BY <1>3, <2>1
  <2>3. \A v \in DOMAIN loading : v # w /\ v \in Ids
    <3>1. DOMAIN loading \cap DOMAIN watches = {}
      BY DEF Numbered
    <3>2. DOMAIN loading \subseteq Ids
      BY DEF TypeOK
    <3>3. QED
      BY <3>1, <3>2
  <2>4. \A v \in DOMAIN loading : woken'[v] # None /\ v \notin torn' => loading[v].base = woken'[v]
    BY <1>5, <2>3 DEF BaselineIsLastWake, LastWoken
  <2>5. LastWoken(watches)' /\ LastWoken(stored)' /\ LastWoken(loading)'
    <3>1. LastWoken(watches)'
      BY <1>6, <2>1 DEF LastWoken
    <3>2. LastWoken(stored)'
      BY <2>2 DEF LastWoken
    <3>3. loading' = loading /\ LastWoken(loading)'
      BY <2>4 DEF LastWoken
    <3>4. QED
      BY <3>1, <3>2, <3>3
  <2>6. \A v \in DOMAIN mem \cap DOMAIN stored' : mem[v].base = stored'[v].base
    BY <1>3
  <2>7. DOMAIN loading \cap DOMAIN stored' = {}
    BY <1>1, <1>3 DEF Numbered
  <2>8. AsStored(watches)' /\ AsStored(loading)'
    BY <1>6, <2>6, <2>7, ZenonT(60) DEF AsStored
  <2>9. QED
    BY <1>4, <2>5, <2>8 DEF BaselineIsLastWake
<1>11. QED
  BY <1>7, <1>8, <1>9, <1>10

\* When the service gives the run up, everything but the journal is gone; a wake may just have missed it.
LEMMA ForgottenStep ==
    ASSUME WatchInv, Forgotten, source' \in Observation, target' \in {"free", "busy", "stopped"}, working' \in BOOLEAN,
           UNCHANGED <<stored, created, removed, missed>>,
           \/ UNCHANGED <<woken, torn>>
           \/ \E w \in DOMAIN watches, o \in Observation : woken' = [woken EXCEPT ![w] = o] /\ torn' = torn \cup {w}
    PROVE  WatchInv'
<1> USE DEF WatchInv
<1>1. DOMAIN Nothing = {}
  BY DEF Nothing
<1>2. /\ open' = FALSE /\ DOMAIN watches' = {} /\ DOMAIN loading' = {}
      /\ debounce' = FALSE /\ round' = {} /\ seen' = None /\ dirty' = FALSE
  BY <1>1 DEF Forgotten
<1>3. call' \in [Calls -> {"idle", "compiling", "answered", "refused"}]
  BY DEF Forgotten, TypeOK
<1>4. {c \in Calls : call'[c] = "answered"} = {c \in Calls : call[c] = "answered"}
  BY DEF Forgotten, TypeOK
<1>5. /\ woken' \in [Ids -> Observation \cup {None}] /\ torn' \subseteq 1 .. created
      /\ \A v \in Ids : woken'[v] # None => v <= created
      /\ \A v \in Ids : v \notin torn' => v \notin torn /\ woken'[v] = woken[v]
  <2>1. CASE UNCHANGED <<woken, torn>>
    BY <2>1 DEF TypeOK, Numbered
  <2>2. CASE \E w \in DOMAIN watches, o \in Observation : woken' = [woken EXCEPT ![w] = o] /\ torn' = torn \cup {w}
    <3>1. PICK w \in DOMAIN watches, o \in Observation : woken' = [woken EXCEPT ![w] = o] /\ torn' = torn \cup {w}
      BY <2>2
    <3>2. w \in Ids /\ w \in 1 .. created
      BY DEF TypeOK, Numbered
    <3>3. QED
      BY <3>1, <3>2 DEF TypeOK, Numbered
  <2>3. QED
    BY <2>1, <2>2
<1>6. 1 .. created \subseteq Ids
  BY Counting DEF TypeOK, Ids
<1>7. TypeOK'
  BY <1>2, <1>3, <1>5, <1>6 DEF TypeOK
<1>8. OneRound'
  <2>1. ~\E c \in Calls : call'[c] = "compiling"
    BY DEF Forgotten, TypeOK
  <2>2. QED
    BY <1>2, <2>1 DEF OneRound, Evaluating
<1>9. Numbered'
  BY <1>2, <1>4, <1>5 DEF Numbered
<1>10. BaselineIsLastWake'
  <2>1. LastWoken(watches)' /\ LastWoken(loading)' /\ AsStored(watches)' /\ AsStored(loading)'
    BY <1>2 DEF LastWoken, AsStored
  <2>2. LastWoken(stored)'
    BY <1>5 DEF LastWoken, BaselineIsLastWake, TypeOK
  <2>3. QED
    BY <1>2, <2>1, <2>2 DEF BaselineIsLastWake
<1>11. QED
  BY <1>7, <1>8, <1>9, <1>10

\* The other steps leave what is kept of the watches alone.
LEMMA FrameStep ==
    ASSUME WatchInv, OneRound',
           UNCHANGED <<watches, stored, loading, created, removed, woken, torn>>,
           source' \in Observation, target' \in {"free", "busy", "stopped"}, working' \in BOOLEAN, open' \in BOOLEAN,
           call' \in [Calls -> {"idle", "compiling", "answered", "refused"}],
           created <= Cardinality({c \in Calls : call'[c] = "answered"}),
           debounce' \in BOOLEAN, dirty' \in BOOLEAN, missed' \subseteq Ids,
           round' \subseteq Ids, round' \subseteq DOMAIN watches \cup removed,
           \/ seen' = None
           \/ seen' = seen /\ round' = round
           \/ /\ seen' \in Evaluated /\ round' # {}
              /\ \A w \in round' \cap DOMAIN watches : First(w, round') => seen'.watch = watches[w]
    PROVE  WatchInv'
<1> USE DEF WatchInv
<1>1. TypeOK'
  BY DEF TypeOK, Evaluating
<1>2. Numbered'
  BY DEF Numbered
<1>3. BaselineIsLastWake'
  <2>1. LastWoken(watches)' /\ LastWoken(stored)' /\ LastWoken(loading)' /\ AsStored(watches)' /\ AsStored(loading)'
    BY DEF BaselineIsLastWake, LastWoken, AsStored
  <2>2. seen' # None => \A w \in round' \cap DOMAIN watches' : First(w, round') => seen'.watch = watches'[w]
    BY DEF BaselineIsLastWake
  <2>3. QED
    BY <2>1, <2>2 DEF BaselineIsLastWake
<1>4. QED
  BY <1>1, <1>2, <1>3

\* The calls stay where they are.
LEMMA SameCalls ==
    ASSUME WatchInv, call' = call
    PROVE  /\ call' \in [Calls -> {"idle", "compiling", "answered", "refused"}]
           /\ created <= Cardinality({c \in Calls : call'[c] = "answered"})
BY DEF WatchInv, TypeOK, Numbered

\* A watch that is skipped, and a round that is given up.
LEMMA SkippedStep ==
    ASSUME WatchInv, NEW rest \in SUBSET round, NEW event \in BOOLEAN, Evaluating, GoesOnWith(rest, event),
           UNCHANGED <<open, watches, stored, loading, call, woken, torn, target, source, working, created, removed>>,
           missed' \subseteq Ids
    PROVE  WatchInv'
<1>1. /\ debounce' \in BOOLEAN /\ dirty' \in BOOLEAN /\ round' \subseteq Ids /\ round' \subseteq round /\ seen' = None
      /\ ~(debounce' /\ Evaluating') /\ (dirty' => Evaluating')
      /\ open
  BY GoesOn DEF WatchInv
<1>2. OneRound'
  BY <1>1 DEF OneRound
<1>3. round' \subseteq DOMAIN watches \cup removed
  BY <1>1 DEF WatchInv, Numbered
<1>4. source' \in Observation /\ target' \in {"free", "busy", "stopped"} /\ working' \in BOOLEAN /\ open' \in BOOLEAN
  BY DEF WatchInv, TypeOK
<1>5. QED
  BY <1>1, <1>2, <1>3, <1>4, SameCalls, FrameStep

\* Every verdict.
LEMMA JudgeStep ==
    ASSUME WatchInv, NEW w \in round, First(w, round), w \in DOMAIN watches, NEW o \in Observation,
           Judge(w, watches[w], o),
           UNCHANGED <<source, working, created, removed, missed>>
    PROVE  WatchInv'
<1> DEFINE x == watches[w]
           both == [x EXCEPT !.base = o, !.last = o]
           last == [x EXCEPT !.last = o]
<1>1. both \in Loaded /\ last \in Loaded /\ last.base = x.base
  BY LoadedType DEF WatchInv, TypeOK
<1>2. /\ [watches EXCEPT ![w].base = o, ![w].last = o] = [watches EXCEPT ![w] = both]
      /\ [watches EXCEPT ![w].last = o] = [watches EXCEPT ![w] = last]
  OBVIOUS
<1>3. ASSUME Skipped(w) PROVE WatchInv'
  <2>1. Evaluating /\ round \ {w} \in SUBSET round /\ missed' \subseteq Ids
    BY DEF Evaluating, WatchInv, TypeOK
  <2>2. QED
    BY <1>3, <2>1, SkippedStep DEF Skipped
<1>4. CASE x.base = None /\ Judged(w, [watches EXCEPT ![w].base = o, ![w].last = o], TRUE)
  <2>1. Judged(w, [watches EXCEPT ![w] = both], TRUE)
    BY <1>2, <1>4
  <2> HIDE DEF both
  <2>2. QED
    BY <1>1, <1>4, <2>1, JudgedStep
<1>5. ASSUME NEW writes \in BOOLEAN, Judged(w, [watches EXCEPT ![w].last = o], writes) PROVE WatchInv'
  <2>1. Judged(w, [watches EXCEPT ![w] = last], writes)
    BY <1>2, <1>5
  <2> HIDE DEF last
  <2>2. QED
    BY <1>1, <2>1, JudgedStep
<1>6. CASE Wake(w, o)
  <2>1. CASE /\ watches' = [watches EXCEPT ![w].base = o, ![w].last = o]
             /\ stored' = WrittenAfterWake([watches EXCEPT ![w].base = o, ![w].last = o]) /\ torn' = torn \ {w}
             /\ GoesOnWith(round \ {w}, TRUE) /\ UNCHANGED <<open, loading, call, ends>>
    BY <1>6, <2>1, WakeStep DEF Wake
  <2>2. CASE Forgotten /\ torn' = torn \cup {w} /\ UNCHANGED stored
    <3>1. /\ source' \in Observation /\ target' \in {"free", "busy", "stopped"} /\ working' \in BOOLEAN
          /\ woken' = [woken EXCEPT ![w] = o]
      BY <1>6 DEF Wake, WatchInv, TypeOK
    <3>2. QED
      BY <2>2, <3>1, ForgottenStep
  <2>3. QED
    BY <1>6, <2>1, <2>2 DEF Wake
<1>7. QED
  BY <1>3, <1>4, <1>5, <1>6 DEF Judge

\* An event asks for a round, now or after the one under way.
LEMMA ScheduledStep ==
    ASSUME TypeOK, OneRound, Scheduled, UNCHANGED <<open, round, loading, call>>, DOMAIN watches' \subseteq DOMAIN watches
    PROVE  OneRound' /\ debounce' \in BOOLEAN /\ dirty' \in BOOLEAN
BY DEF TypeOK, OneRound, Scheduled, Evaluating

\* A round that starts at once, or is due after the one under way.
LEMMA StartedStep ==
    ASSUME WatchInv, NEW mem, Started(mem), open' = open, open, DOMAIN mem # {}, DOMAIN mem \subseteq Ids
    PROVE  /\ OneRound' /\ debounce' \in BOOLEAN /\ dirty' \in BOOLEAN
           /\ round' = round \/ (~Evaluating /\ round' = DOMAIN mem)
           /\ missed' \subseteq Ids /\ round' \subseteq Ids
BY DEF WatchInv, TypeOK, OneRound, Started, Evaluating

LEMMA ActorSteps ==
    ASSUME WatchInv, SourceChanges \/ TargetChanges \/ Stall \/ StallTick PROVE WatchInv'
<1> USE DEF WatchInv
<1>1. round \subseteq DOMAIN watches \cup removed /\ MaxTurns \in Nat
  BY WatchAssumption DEF Numbered
<1>2. ASSUME Scheduled, UNCHANGED <<working, open, watches, stored, loading, call, round, seen, historyVars>>,
             source' \in Observation, target' \in {"free", "busy", "stopped"}
      PROVE  WatchInv'
  <2>1. OneRound' /\ debounce' \in BOOLEAN /\ dirty' \in BOOLEAN
    BY <1>2, ScheduledStep DEF OneRound
  <2>2. QED
    BY <1>1, <1>2, <2>1, SameCalls, FrameStep DEF TypeOK, historyVars
<1>3. CASE SourceChanges
  <2>1. source' \in Observation
    <3>1. ASSUME NEW state \in States, NEW done \in 0 .. MaxTurns, Become(state, done) PROVE source' \in Observation
      BY <3>1 DEF Become, Observation
    <3>2. source.done \in 0 .. MaxTurns /\ {"idle", "queued", "running"} \subseteq States
      BY DEF TypeOK, Observation, States
    <3>3. CASE source.state = "idle" /\ Become("queued", source.done)
      BY <3>1, <3>2, <3>3
    <3>4. CASE source.state = "queued" /\ Become("running", source.done)
      BY <3>1, <3>2, <3>4
    <3>5. CASE source.state = "running" /\ source.done < MaxTurns /\ Become("idle", source.done + 1)
      <4>1. source.done + 1 \in 0 .. MaxTurns
        BY <1>1, <3>2, <3>5
      <4>2. QED
        BY <3>1, <3>2, <3>5, <4>1
    <3>6. QED
      BY <1>3, <3>3, <3>4, <3>5 DEF SourceChanges
  <2>2. QED
    BY <1>2, <1>3, <2>1 DEF SourceChanges, TypeOK
<1>4. CASE TargetChanges
  BY <1>2, <1>4 DEF TargetChanges, TypeOK
<1>5. CASE Stall
  <2>1. source' \in Observation
    BY <1>5 DEF Stall, TypeOK, Observation
  <2>2. OneRound'
    BY <1>5 DEF Stall, memory, OneRound, Evaluating
  <2>3. QED
    BY <1>1, <1>5, <2>1, <2>2, SameCalls, FrameStep DEF Stall, TypeOK, memory, historyVars
<1>6. CASE StallTick
  BY <1>2, <1>6 DEF StallTick, actorVars, TypeOK
<1>7. QED
  BY <1>3, <1>4, <1>5, <1>6

LEMMA RoundSteps ==
    ASSUME WatchInv, Fire \/ Evaluate \/ OperationEnds PROVE WatchInv'
<1> USE DEF WatchInv
<1>1. CASE Fire
  <2>1. OneRound'
    BY <1>1 DEF Fire, OneRound, Evaluating
  <2>2. seen = None
    BY <1>1 DEF Fire, OneRound, TypeOK
  <2>3. QED
    BY <1>1, <2>1, <2>2, SameCalls, FrameStep DEF Fire, TypeOK, actorVars
<1>2. CASE Evaluate
  <2>1. PICK w \in round : First(w, round) /\ EvaluateNext(w)
    BY <1>2 DEF Evaluate
  <2>2. UNCHANGED <<source, working, created, removed, missed>>
    BY <1>2 DEF Evaluate
  <2>3. Evaluating /\ {} \in SUBSET round /\ round \ {w} \in SUBSET round /\ missed' \subseteq Ids
    BY <2>2 DEF Evaluating, TypeOK
  <2>4. Observed(watches[w].def) \in Observation
    BY ObservedType DEF TypeOK
  <2>5. CASE /\ GoesOnWith({}, FALSE)
             /\ UNCHANGED <<open, watches, stored, loading, call, woken, torn, target, ends>>
    BY <2>2, <2>3, <2>5, SkippedStep
  <2>6. CASE Skipped(w)
    BY <2>2, <2>3, <2>6, SkippedStep DEF Skipped
  <2>7. CASE w \in DOMAIN watches /\ Judge(w, watches[w], Observed(watches[w].def))
    BY <2>1, <2>2, <2>4, <2>7, JudgeStep
  <2>8. CASE /\ w \in DOMAIN watches
             /\ seen' = [watch |-> watches[w], obs |-> Observed(watches[w].def)]
             /\ UNCHANGED <<open, watches, stored, loading, call, debounce, round, dirty, woken, torn, target, ends>>
    <3>1. OneRound'
      BY <2>8 DEF OneRound, Evaluating
    <3>2. seen' \in Evaluated /\ seen'.watch = watches[w]
      BY <2>4, <2>8 DEF Evaluated, TypeOK
    <3>3. \A v \in round : First(v, round) => v = w
      BY <2>1 DEF First, TypeOK, Ids
    <3>4. round' \subseteq DOMAIN watches \cup removed
      BY <2>8 DEF Numbered
    <3>5. QED
      BY <2>1, <2>2, <2>8, <3>1, <3>2, <3>3, <3>4, SameCalls, FrameStep DEF TypeOK
  <2>9. QED
    BY <2>1, <2>5, <2>6, <2>7, <2>8 DEF EvaluateNext
<1>3. CASE OperationEnds
  <2>1. PICK w \in round : First(w, round) /\ OperationOf(w)
    BY <1>3 DEF OperationEnds
  <2>2. UNCHANGED <<source, working, created, removed>> /\ seen # None
    BY <1>3 DEF OperationEnds
  <2>3. Evaluating /\ round \ {w} \in SUBSET round /\ w \in Ids
    BY DEF Evaluating, TypeOK
  <2>4. CASE Skipped(w) /\ missed' \subseteq Ids
    BY <2>2, <2>3, <2>4, SkippedStep DEF Skipped
  <2>5. CASE ~Gone(w) /\ Judge(w, seen.watch, seen.obs) /\ UNCHANGED missed
    <3>1. w \in DOMAIN watches
      BY <2>5 DEF Gone
    <3>2. seen.watch = watches[w] /\ seen.obs \in Observation
      BY <2>1, <2>2, <3>1 DEF BaselineIsLastWake, TypeOK, Evaluated
    <3>3. QED
      BY <2>1, <2>2, <2>5, <3>1, <3>2, JudgeStep
  <2>6. QED
    BY <2>1, <2>3, <2>4, <2>5 DEF OperationOf, TypeOK
<1>4. QED
  BY <1>1, <1>2, <1>3

LEMMA CallAnswered ==
    ASSUME TypeOK, NEW c \in Calls, call[c] # "answered", call' = [call EXCEPT ![c] = "answered"]
    PROVE  /\ Cardinality({d \in Calls : call'[d] = "answered"}) = Cardinality({d \in Calls : call[d] = "answered"}) + 1
           /\ Cardinality({d \in Calls : call'[d] = "answered"}) <= Cardinality(Calls)
           /\ Cardinality({d \in Calls : call[d] = "answered"}) \in Nat
<1> DEFINE S == {d \in Calls : call[d] = "answered"}
           T == {d \in Calls : call'[d] = "answered"}
<1>1. S \in SUBSET Calls /\ T \in SUBSET Calls /\ c \notin S
  OBVIOUS
<1>2. T = S \cup {c}
  BY DEF TypeOK
<1>3. IsFiniteSet(S) /\ Cardinality(S) \in Nat /\ Cardinality(T) <= Cardinality(Calls)
  BY <1>1, Counting
<1>4. Cardinality(S \cup {c}) = Cardinality(S) + 1
  BY <1>1, <1>3, FS_AddElement
<1>5. QED
  BY <1>2, <1>3, <1>4

\* A watch that is added to those in memory, new or from the journal.
LEMMA AddedStep ==
    ASSUME WatchInv, NEW w \in Ids, w \notin DOMAIN watches, w \notin removed, NEW entry \in Loaded, open,
           w \in 1 .. created',
           DOMAIN loading' \subseteq DOMAIN loading \ {w}, \A v \in DOMAIN loading' : loading'[v] = loading[v],
           created' \in created .. Cardinality(Calls),
           created' <= Cardinality({c \in Calls : call'[c] = "answered"}),
           call' \in [Calls -> {"idle", "compiling", "answered", "refused"}],
           watches' = With(watches, w, entry), w \notin round,
           \/ stored' = stored /\ (woken[w] # None /\ w \notin torn => entry.base = woken[w])
              /\ (w \in DOMAIN stored => entry.base = stored[w].base)
           \/ stored' = Written(watches') /\ woken[w] = None,
           OneRound', debounce' \in BOOLEAN, dirty' \in BOOLEAN, missed' \subseteq Ids, round' \subseteq Ids,
           round' = round \/ (~Evaluating /\ round' = DOMAIN watches'),
           UNCHANGED <<source, target, working, open, seen, removed, woken, torn>>
    PROVE  WatchInv'
<1> USE DEF WatchInv
<1> DEFINE mem == With(watches, w, entry)
<1>1. DOMAIN mem = DOMAIN watches \cup {w} /\ \A v \in DOMAIN mem : mem[v] = IF v = w THEN entry ELSE watches[v]
  BY DEF With
<1> HIDE DEF mem
<1>2. \A v \in DOMAIN mem : mem[v] \in Loaded
  BY <1>1 DEF TypeOK
<1>3. watches' = mem /\ DOMAIN watches \subseteq Ids
  BY DEF mem, TypeOK
<1>4. \/ stored' = stored /\ (woken[w] # None /\ w \notin torn => entry.base = woken[w])
         /\ (w \in DOMAIN stored => entry.base = stored[w].base)
      \/ /\ DOMAIN stored' = DOMAIN mem /\ woken[w] = None
         /\ \A v \in DOMAIN mem : stored'[v] = [def |-> mem[v].def, base |-> mem[v].base]
  BY <1>3 DEF Written
<1>5. TypeOK'
  <2>1. \A x \in Loaded : [def |-> x.def, base |-> x.base] \in Entry
    BY LoadedType DEF Loaded, Entry
  <2>2. DOMAIN stored' \subseteq Ids /\ \A v \in DOMAIN stored' : stored'[v] \in Entry
    <3>1. CASE stored' = stored
      BY <3>1 DEF TypeOK
    <3>2. CASE DOMAIN stored' = DOMAIN mem /\ \A v \in DOMAIN mem : stored'[v] = [def |-> mem[v].def, base |-> mem[v].base]
      <4>1. \A v \in DOMAIN mem : [def |-> mem[v].def, base |-> mem[v].base] \in Entry
        BY <1>2, <2>1
      <4>2. DOMAIN mem \subseteq Ids
        BY <1>1, <1>3
      <4>3. QED
        BY <3>2, <4>1, <4>2
    <3>3. QED
      BY <1>4, <3>1, <3>2
  <2>3. created' \in 0 .. Cardinality(Calls)
    BY Counting DEF TypeOK
  <2>4. seen' # None => Evaluating' /\ seen' \in Evaluated
    BY DEF TypeOK, Evaluating
  <2>5. DOMAIN loading' \subseteq Ids /\ \A v \in DOMAIN loading' : loading'[v] \in Entry
    BY DEF TypeOK
  <2>6. DOMAIN watches' \subseteq Ids /\ \A v \in DOMAIN watches' : watches'[v] \in Loaded
    BY <1>1, <1>2, <1>3
  <2>7. QED
    BY <2>2, <2>3, <2>4, <2>5, <2>6 DEF TypeOK
<1>6. created \in Nat /\ created' \in Nat /\ 1 .. created \subseteq 1 .. created'
  BY Counting DEF TypeOK
<1>7. Numbered'
  <2>1. DOMAIN watches' \cup DOMAIN stored' \cup DOMAIN loading' \cup removed \cup torn \subseteq 1 .. created'
    BY <1>1, <1>3, <1>4, <1>6 DEF Numbered
  <2>2. \A v \in Ids : woken[v] # None => v <= created'
    BY <1>6 DEF Numbered, Ids
  <2>3. DOMAIN loading' \cap DOMAIN watches' = {}
    BY <1>1, <1>3 DEF Numbered
  <2>4. removed \cap (DOMAIN watches' \cup DOMAIN stored' \cup DOMAIN loading') = {}
    BY <1>1, <1>3, <1>4 DEF Numbered
  <2>5. round' \subseteq DOMAIN watches' \cup removed
    BY <1>1, <1>3 DEF Numbered
  <2>6. QED
    BY <2>1, <2>2, <2>3, <2>4, <2>5 DEF Numbered
<1>8. BaselineIsLastWake'
  <2>1. \A v \in DOMAIN mem : woken[v] # None /\ v \notin torn => mem[v].base = woken[v]
    BY <1>1, <1>4 DEF BaselineIsLastWake, LastWoken
  <2>2. \A v \in DOMAIN stored' : woken[v] # None /\ v \notin torn => stored'[v].base = woken[v]
    <3>1. CASE stored' = stored
      BY <3>1 DEF BaselineIsLastWake, LastWoken
    <3>2. CASE DOMAIN stored' = DOMAIN mem /\ \A v \in DOMAIN mem : stored'[v] = [def |-> mem[v].def, base |-> mem[v].base]
      BY <2>1, <3>2
    <3>3. QED
      BY <1>4, <3>1, <3>2
  <2>3. \A v \in DOMAIN loading' : woken[v] # None /\ v \notin torn => loading'[v].base = woken[v]
    BY DEF BaselineIsLastWake, LastWoken
  <2>4. \A v \in DOMAIN mem \cap DOMAIN stored' : mem[v].base = stored'[v].base
    <3>1. CASE stored' = stored /\ (w \in DOMAIN stored => entry.base = stored[w].base)
      BY <1>1, <3>1 DEF BaselineIsLastWake, AsStored
    <3>2. CASE DOMAIN stored' = DOMAIN mem /\ \A v \in DOMAIN mem : stored'[v] = [def |-> mem[v].def, base |-> mem[v].base]
      <4>1. \A v \in DOMAIN mem : [def |-> mem[v].def, base |-> mem[v].base].base = mem[v].base
        OBVIOUS
      <4>2. QED
        BY <3>2, <4>1
    <3>3. QED
      BY <1>4, <3>1, <3>2
  <2>5. \A v \in DOMAIN loading' \cap DOMAIN stored' : loading'[v].base = stored'[v].base
    <3>1. CASE stored' = stored
      BY <3>1 DEF BaselineIsLastWake, AsStored
    <3>2. CASE DOMAIN stored' = DOMAIN mem
      BY <1>1, <3>2 DEF Numbered
    <3>3. QED
      BY <1>4, <3>1, <3>2
  <2>6. seen # None => \A v \in round' \cap DOMAIN mem : First(v, round') => seen.watch = mem[v]
    BY <1>1 DEF BaselineIsLastWake, TypeOK, Evaluating
  <2>7. LastWoken(watches)' /\ LastWoken(stored)' /\ LastWoken(loading)'
    BY <1>3, <2>1, <2>2, <2>3 DEF LastWoken
  <2>8. AsStored(watches)' /\ AsStored(loading)'
    BY <1>3, <2>4, <2>5 DEF AsStored
  <2>9. QED
    BY <1>3, <2>6, <2>7, <2>8 DEF BaselineIsLastWake
<1>9. OneRound' /\ WatchInv' = (TypeOK' /\ OneRound' /\ Numbered' /\ BaselineIsLastWake')
  BY DEF WatchInv
<1>10. QED
  BY <1>5, <1>7, <1>8, <1>9

LEMMA CreateSteps ==
    ASSUME WatchInv, NEW c \in Calls, WatchCreate(c) \/ Compiled(c) PROVE WatchInv'
<1> USE DEF WatchInv
<1>1. Cardinality(Calls) \in Nat /\ created \in 0 .. Cardinality(Calls)
  BY Counting DEF TypeOK
<1>2. round \subseteq DOMAIN watches \cup removed
  BY DEF Numbered
<1>3. ASSUME call[c] # "answered", NEW e \in {"compiling", "refused"}, call' = [call EXCEPT ![c] = e]
      PROVE  created <= Cardinality({d \in Calls : call'[d] = "answered"})
  <2>1. {d \in Calls : call'[d] = "answered"} = {d \in Calls : call[d] = "answered"}
    BY <1>3 DEF TypeOK
  <2>2. QED
    BY <2>1 DEF Numbered
<1>4. CASE WatchCreate(c)
  <2>1. OneRound'
    BY <1>4 DEF WatchCreate, OneRound, Evaluating
  <2>2. call[c] # "answered" /\ \E e \in {"answered", "compiling"} : call' = [call EXCEPT ![c] = e]
    BY <1>4 DEF WatchCreate
  <2>3. created <= Cardinality({d \in Calls : call'[d] = "answered"})
    <3>1. CASE call' = [call EXCEPT ![c] = "answered"]
      <4> DEFINE before == Cardinality({d \in Calls : call[d] = "answered"})
                 after == Cardinality({d \in Calls : call'[d] = "answered"})
      <4>1. created <= before
        BY DEF Numbered
      <4>2. after = before + 1 /\ before \in Nat
        BY <2>2, <3>1, CallAnswered
      <4> HIDE DEF before
      <4>3. created <= before + 1
        BY <1>1, <4>1, <4>2
      <4>4. QED
        BY <4>2, <4>3
    <3>2. QED
      BY <1>3, <2>2, <3>1
  <2>4. QED
    BY <1>2, <1>4, <2>1, <2>2, <2>3, FrameStep DEF WatchCreate, TypeOK, actorVars, historyVars
<1>5. CASE /\ Compiled(c) /\ call' = [call EXCEPT ![c] = "refused"]
           /\ UNCHANGED <<watches, stored, debounce, round, dirty, created, missed>>
  <2>1. OneRound'
    BY <1>5 DEF Compiled, OneRound, Evaluating
  <2>2. call[c] # "answered"
    BY <1>5 DEF Compiled
  <2>3. created <= Cardinality({d \in Calls : call'[d] = "answered"})
    BY <1>3, <1>5, <2>2
  <2>4. QED
    BY <1>2, <1>5, <2>1, <2>3, FrameStep DEF Compiled, TypeOK, actorVars
<1>6. CASE LET mem == With(watches, created + 1, [def |-> DefOf[c], base |-> None, last |-> None]) IN
           /\ Compiled(c) /\ watches' = mem /\ stored' = Written(mem) /\ Started(mem)
           /\ call' = [call EXCEPT ![c] = "answered"] /\ created' = created + 1
  <2> DEFINE new == [def |-> DefOf[c], base |-> None, last |-> None]
             mem == With(watches, created + 1, new)
  <2>1. /\ call[c] = "compiling" /\ open /\ call' = [call EXCEPT ![c] = "answered"] /\ created' = created + 1
        /\ watches' = mem /\ stored' = Written(mem) /\ Started(mem)
        /\ UNCHANGED <<source, target, working, open, loading, seen, removed, woken, torn>>
    BY <1>6 DEF Compiled, OneRound, actorVars
  <2>2. Cardinality({d \in Calls : call'[d] = "answered"}) >= created + 1 /\ created + 1 <= Cardinality(Calls)
    <3> DEFINE before == Cardinality({d \in Calls : call[d] = "answered"})
               after == Cardinality({d \in Calls : call'[d] = "answered"})
    <3>1. created <= before
      BY DEF Numbered
    <3>2. after = before + 1 /\ before \in Nat /\ after <= Cardinality(Calls)
      BY <2>1, CallAnswered
    <3> HIDE DEF before, after
    <3>3. after >= created + 1 /\ created + 1 <= Cardinality(Calls)
      BY <1>1, <3>1, <3>2
    <3>4. QED
      BY <3>3 DEF after
  <2>3. created + 1 \in Ids /\ created + 1 \in 1 .. created' /\ created + 1 \notin 1 .. created
    BY <1>1, <2>1, <2>2 DEF Ids
  <2>4. created + 1 \notin DOMAIN watches \cup DOMAIN loading \cup removed \cup round
    BY <2>3 DEF Numbered
  <2>5. woken[created + 1] = None
    BY <1>1, <2>3 DEF Numbered
  <2>6. new \in Loaded
    BY WatchAssumption DEF Loaded
  <2>7. DOMAIN mem = DOMAIN watches \cup {created + 1}
    BY DEF With
  <2>8. DOMAIN mem # {} /\ DOMAIN mem \subseteq Ids
    BY <2>3, <2>7 DEF TypeOK
  <2>9. call' \in [Calls -> {"idle", "compiling", "answered", "refused"}]
    BY <2>1 DEF TypeOK
  <2> HIDE DEF mem, new
  <2>10. /\ OneRound' /\ debounce' \in BOOLEAN /\ dirty' \in BOOLEAN
         /\ round' = round \/ (~Evaluating /\ round' = DOMAIN mem)
         /\ missed' \subseteq Ids /\ round' \subseteq Ids
    BY <2>1, <2>8, StartedStep
  <2>11. created' \in created .. Cardinality(Calls) /\ created' <= Cardinality({d \in Calls : call'[d] = "answered"})
    BY <1>1, <2>1, <2>2, CallAnswered
  <2>12. watches' = With(watches, created + 1, new)
    BY <2>1 DEF mem
  <2>13. DOMAIN loading' \subseteq DOMAIN loading \ {created + 1} /\ \A v \in DOMAIN loading' : loading'[v] = loading[v]
    BY <2>1, <2>4
  <2>14. QED
    BY <2>1, <2>3, <2>4, <2>5, <2>6, <2>9, <2>10, <2>11, <2>12, <2>13, AddedStep
<1>7. QED
  BY <1>4, <1>5, <1>6 DEF Compiled

LEMMA RemoveStep ==
    ASSUME WatchInv, NEW w \in Ids, WatchRemove(w) PROVE WatchInv'
<1> USE DEF WatchInv
<1> DEFINE mem == Dropped(watches, w)
<1>1. /\ w \in DOMAIN watches /\ removed' = removed \cup {w} /\ watches' = mem /\ stored' = Written(mem) /\ Scheduled
      /\ UNCHANGED <<source, target, working, open, loading, call, round, seen, created, woken, missed, torn>>
  BY DEF WatchRemove, actorVars
<1>2. DOMAIN mem = DOMAIN watches \ {w} /\ \A v \in DOMAIN mem : mem[v] = watches[v]
  BY DEF Dropped
<1>3. /\ DOMAIN stored' = DOMAIN mem
      /\ \A v \in DOMAIN mem : stored'[v] = [def |-> mem[v].def, base |-> mem[v].base]
  BY <1>1 DEF Written
<1> HIDE DEF mem
<1>4. OneRound' /\ debounce' \in BOOLEAN /\ dirty' \in BOOLEAN
  BY <1>1, <1>2, ScheduledStep
<1>5. TypeOK'
  <2>1. \A v \in DOMAIN mem : mem[v] \in Loaded
    BY <1>2 DEF TypeOK
  <2>2. \A x \in Loaded : [def |-> x.def, base |-> x.base] \in Entry
    BY DEF Loaded, Entry
  <2>3. \A v \in DOMAIN stored' : stored'[v] \in Entry
    BY <1>3, <2>1, <2>2
  <2>4. DOMAIN watches' \subseteq Ids /\ DOMAIN stored' \subseteq Ids
    BY <1>1, <1>2, <1>3 DEF TypeOK
  <2>5. Evaluating' = Evaluating
    BY <1>1 DEF Evaluating
  <2>6. QED
    BY <1>1, <1>4, <2>1, <2>3, <2>4, <2>5 DEF TypeOK
<1>6. Numbered'
  BY <1>1, <1>2, <1>3 DEF Numbered
<1>7. BaselineIsLastWake'
  <2>1. LastWoken(watches)' /\ LastWoken(loading)'
    BY <1>1, <1>2 DEF BaselineIsLastWake, LastWoken
  <2>2. LastWoken(stored)'
    BY <1>1, <1>2, <1>3 DEF BaselineIsLastWake, LastWoken
  <2>3. AsStored(watches)'
    BY <1>1, <1>3 DEF AsStored
  <2>4. AsStored(loading)'
    BY <1>1, <1>2, <1>3 DEF AsStored, Numbered
  <2>5. seen' # None => \A v \in round' \cap DOMAIN watches' : First(v, round') => seen'.watch = watches'[v]
    BY <1>1, <1>2 DEF BaselineIsLastWake
  <2>6. QED
    BY <2>1, <2>2, <2>3, <2>4, <2>5 DEF BaselineIsLastWake
<1>8. QED
  BY <1>4, <1>5, <1>6, <1>7

LEMMA LoadSteps ==
    ASSUME WatchInv, Prepare \/ Load PROVE WatchInv'
<1> USE DEF WatchInv
<1>1. round \subseteq DOMAIN watches \cup removed
  BY DEF Numbered
<1>2. CASE Prepare
  <2>1. CASE open' = TRUE /\ loading' = stored /\ ~open
    <3>1. DOMAIN watches = {} /\ round = {} /\ ~debounce /\ seen = None
      BY <2>1 DEF OneRound, Evaluating, TypeOK
    <3>2. UNCHANGED <<source, target, watches, stored, call, debounce, round, seen, dirty, created, removed, woken, missed, torn>>
          /\ working' = TRUE
      BY <1>2 DEF Prepare, historyVars
    <3>3. TypeOK'
      BY <2>1, <3>1, <3>2 DEF TypeOK
    <3>4. OneRound'
      BY <2>1, <3>1, <3>2 DEF OneRound, Evaluating
    <3>5. Numbered'
      BY <2>1, <3>1, <3>2 DEF Numbered
    <3>6. BaselineIsLastWake'
      BY <2>1, <3>1, <3>2 DEF BaselineIsLastWake, LastWoken, AsStored
    <3>7. QED
      BY <3>3, <3>4, <3>5, <3>6
  <2>2. CASE UNCHANGED <<open, loading>>
    <3>1. OneRound'
      BY <1>2, <2>2 DEF Prepare, OneRound, Evaluating
    <3>2. QED
      BY <1>1, <1>2, <2>2, <3>1, SameCalls, FrameStep DEF Prepare, historyVars, TypeOK
  <2>3. QED
    BY <1>2, <2>1, <2>2 DEF Prepare
<1>3. ASSUME NEW w \in DOMAIN loading,
             watches' = With(watches, w, [def |-> loading[w].def, base |-> loading[w].base, last |-> None]),
             loading' = Dropped(loading, w),
             IF DOMAIN loading = {w} THEN Started(watches') ELSE UNCHANGED <<debounce, round, dirty, missed>>,
             UNCHANGED <<source, target, working, open, stored, call, seen, created, removed, woken, torn>>
      PROVE  WatchInv'
  <2> DEFINE entry == [def |-> loading[w].def, base |-> loading[w].base, last |-> None]
  <2>1. w \in Ids /\ w \notin DOMAIN watches /\ w \notin removed /\ w \in 1 .. created /\ w \notin round /\ open
    BY <1>1 DEF Numbered, TypeOK, OneRound
  <2>2. entry \in Loaded /\ entry.base = loading[w].base
    BY DEF TypeOK, Loaded, Entry
  <2>3. woken[w] # None /\ w \notin torn => entry.base = woken[w]
    BY <2>2 DEF BaselineIsLastWake, LastWoken
  <2>4. w \in DOMAIN stored => entry.base = stored[w].base
    BY <2>2 DEF BaselineIsLastWake, AsStored
  <2> HIDE DEF entry
  <2>5. watches' = With(watches, w, entry) /\ DOMAIN watches' = DOMAIN watches \cup {w}
    BY <1>3 DEF entry, With
  <2>6. DOMAIN loading' = DOMAIN loading \ {w} /\ \A v \in DOMAIN loading' : loading'[v] = loading[v]
    BY <1>3 DEF Dropped
  <2>7. /\ created' \in created .. Cardinality(Calls)
        /\ created' <= Cardinality({c \in Calls : call'[c] = "answered"})
        /\ call' \in [Calls -> {"idle", "compiling", "answered", "refused"}]
    BY <1>3, SameCalls, Counting DEF TypeOK
  <2>8. /\ OneRound' /\ debounce' \in BOOLEAN /\ dirty' \in BOOLEAN
        /\ round' = round \/ (~Evaluating /\ round' = DOMAIN watches')
        /\ missed' \subseteq Ids /\ round' \subseteq Ids
    <3>1. CASE Started(watches')
      <4>1. DOMAIN watches' # {} /\ DOMAIN watches' \subseteq Ids
        BY <2>1, <2>5 DEF TypeOK
      <4>2. QED
        BY <1>3, <2>1, <3>1, <4>1, StartedStep
    <3>2. CASE UNCHANGED <<debounce, round, dirty, missed>>
      BY <1>3, <2>1, <3>2 DEF TypeOK, OneRound, Evaluating
    <3>3. QED
      BY <1>3, <3>1, <3>2
  <2>9. QED
    BY <1>3, <2>1, <2>2, <2>3, <2>4, <2>5, <2>6, <2>7, <2>8, AddedStep
<1>4. CASE /\ loading' = Nothing /\ missed' = DOMAIN watches /\ UNCHANGED <<watches, debounce, round, dirty>>
           /\ UNCHANGED <<actorVars, open, stored, call, seen, created, removed, woken, torn>>
  <2>1. DOMAIN loading' = {}
    BY <1>4 DEF Nothing
  <2>2. TypeOK'
    BY <1>4, <2>1 DEF TypeOK, actorVars, Evaluating
  <2>3. OneRound'
    BY <1>4, <2>1 DEF OneRound, Evaluating
  <2>4. Numbered'
    BY <1>4, <2>1 DEF Numbered
  <2>5. BaselineIsLastWake'
    BY <1>4, <2>1 DEF BaselineIsLastWake, LastWoken, AsStored
  <2>6. QED
    BY <2>2, <2>3, <2>4, <2>5
<1>5. CASE Load
  <2>1. PICK w \in DOMAIN loading :
          \/ LET mem == With(watches, w, [def |-> loading[w].def, base |-> loading[w].base, last |-> None]) IN
             /\ watches' = mem /\ loading' = Dropped(loading, w) /\ UNCHANGED faults
             /\ IF DOMAIN loading = {w} THEN Started(mem) ELSE UNCHANGED <<debounce, round, dirty, missed>>
          \/ Fault /\ loading' = Nothing /\ missed' = DOMAIN watches /\ UNCHANGED <<watches, debounce, round, dirty>>
    BY <1>5 DEF Load
  <2>2. UNCHANGED <<actorVars, open, stored, call, seen, created, removed, woken, torn>>
    BY <1>5 DEF Load
  <2>3. CASE loading' = Nothing /\ missed' = DOMAIN watches /\ UNCHANGED <<watches, debounce, round, dirty>>
    BY <1>4, <2>2, <2>3
  <2>4. CASE LET mem == With(watches, w, [def |-> loading[w].def, base |-> loading[w].base, last |-> None]) IN
             /\ watches' = mem /\ loading' = Dropped(loading, w)
             /\ IF DOMAIN loading = {w} THEN Started(mem) ELSE UNCHANGED <<debounce, round, dirty, missed>>
    BY <1>3, <2>2, <2>4 DEF actorVars
  <2>5. QED
    BY <2>1, <2>3, <2>4
<1>6. QED
  BY <1>2, <1>5

LEMMA EndSteps ==
    ASSUME WatchInv, Stop \/ Crash PROVE WatchInv'
<1>1. source \in Observation /\ [source EXCEPT !.state = "idle"] \in Observation /\ working \in BOOLEAN
      /\ target \in {"free", "busy", "stopped"}
  BY DEF WatchInv, TypeOK, Observation, States
<1>2. CASE Stop
  BY <1>1, <1>2, ForgottenStep DEF Stop, historyVars
<1>3. CASE Crash
  BY <1>1, <1>3, ForgottenStep DEF Crash, historyVars, actorVars
<1>4. QED
  BY <1>2, <1>3

LEMMA Initially == Init => WatchInv
<1> SUFFICES ASSUME Init PROVE WatchInv
  OBVIOUS
<1>1. DOMAIN watches = {} /\ DOMAIN stored = {} /\ DOMAIN loading = {}
  BY DEF Init, Nothing
<1>2. source \in Observation
  BY WatchAssumption DEF Init, Observation, States
<1>3. TypeOK
  <2>1. created \in 0 .. Cardinality(Calls)
    BY Counting DEF Init
  <2>2. call \in [Calls -> {"idle", "compiling", "answered", "refused"}] /\ woken \in [Ids -> Observation \cup {None}]
    BY DEF Init
  <2>3. seen = None /\ round = {} /\ removed \cup missed \cup torn = {}
    BY DEF Init
  <2>4. target \in {"free", "busy", "stopped"} /\ working \in BOOLEAN /\ open \in BOOLEAN /\ debounce \in BOOLEAN /\ dirty \in BOOLEAN
    BY DEF Init
  <2>5. QED
    BY <1>1, <1>2, <2>1, <2>2, <2>3, <2>4 DEF TypeOK
<1>4. OneRound
  BY <1>1 DEF Init, OneRound, Evaluating
<1>5. Numbered
  <2>1. {c \in Calls : call[c] = "answered"} = {}
    BY DEF Init
  <2>2. Cardinality({}) = 0
    BY FS_EmptySet
  <2>3. \A w \in Ids : woken[w] = None
    BY DEF Init
  <2>4. created = 0 /\ removed = {} /\ torn = {} /\ round = {}
    BY DEF Init
  <2>5. Cardinality({c \in Calls : call[c] = "answered"}) = 0
    BY <2>1, <2>2
  <2> DEFINE answered == Cardinality({c \in Calls : call[c] = "answered"})
  <2> HIDE DEF answered
  <2>6. created <= answered
    BY <2>4, <2>5 DEF answered
  <2>7. QED
    BY <1>1, <2>3, <2>4, <2>6 DEF Numbered, answered
<1>6. BaselineIsLastWake
  BY <1>1 DEF Init, BaselineIsLastWake, LastWoken, AsStored
<1>7. QED
  BY <1>3, <1>4, <1>5, <1>6 DEF WatchInv

LEMMA Stuttering == WatchInv /\ UNCHANGED vars => WatchInv'
<1> SUFFICES ASSUME WatchInv, UNCHANGED vars PROVE WatchInv'
  OBVIOUS
<1>1. OneRound'
  BY DEF WatchInv, OneRound, Evaluating, vars, memory
<1>2. QED
  BY <1>1, SameCalls, FrameStep DEF WatchInv, TypeOK, Numbered, vars, memory, actorVars, historyVars

\* However rounds, operations, compilations, loading, stops and ends of the process interleave, there is one round at
\* a time, a number belongs to one watch, and each is compared with what its target was woken for last.
THEOREM WatchInvariant == Spec => []WatchInv
<1>1. WatchInv /\ [Next]_vars => WatchInv'
  BY ActorSteps, RoundSteps, CreateSteps, RemoveStep, LoadSteps, EndSteps, Stuttering DEF Next
<1>2. QED
  BY <1>1, Initially, PTL DEF Spec

\* Nobody is woken for a watch that was removed, nor for one of a run that was given up: not even by an operation that
\* was still running then.
THEOREM EndedIsQuiet == Spec => EndedStaysQuiet
<1> DEFINE WakesOpen == \A w \in Ids : woken'[w] # woken[w] => w \in DOMAIN watches /\ open
<1>1. WatchInv /\ [Next]_vars => [WakesOpen]_vars
  <2> SUFFICES ASSUME WatchInv, Next PROVE WakesOpen
    OBVIOUS
  <2>1. ASSUME NEW w \in DOMAIN watches, NEW x, NEW o, Judge(w, x, o) PROVE WakesOpen
    <3>1. UNCHANGED woken \/ woken' = [woken EXCEPT ![w] = o]
      BY <2>1 DEF Judge, Judged, Skipped, Wake
    <3>2. open
      BY DEF WatchInv, OneRound
    <3>3. QED
      BY <3>1, <3>2 DEF WatchInv, TypeOK
  <2>2. CASE UNCHANGED woken
    BY <2>2
  <2>3. CASE Evaluate
    BY <2>1, <2>3 DEF Evaluate, EvaluateNext, Skipped
  <2>4. CASE OperationEnds
    BY <2>1, <2>4 DEF OperationEnds, OperationOf, Skipped, Gone
  <2>5. QED
    BY <2>2, <2>3, <2>4 DEF Next, SourceChanges, TargetChanges, Stall, StallTick, Fire, WatchCreate, Compiled, WatchRemove,
       Prepare, Load, Stop, Crash, historyVars
<1>2. QED
  BY <1>1, WatchInvariant, PTL DEF Spec, EndedStaysQuiet

-----------------------------------------------------------------------------
(* Places of the log in their order *)

Rising(s) == \A i, j \in 1..Len(s) : i < j => s[i] < s[j]
QueuedIn(q) == UNION {ToSet(q[i]) : i \in 1..Len(q)}
InOrder(q) ==
    /\ \A i \in 1..Len(q) : Rising(q[i])
    /\ \A i, j \in 1..Len(q) : i < j => \A x \in ToSet(q[i]), y \in ToSet(q[j]) : x < y

LEMMA InBatch ==
    ASSUME NEW s \in Seq(Nat)
    PROVE  /\ \A i \in 1..Len(s) : s[i] \in ToSet(s) /\ s[i] \in Nat
           /\ \A x \in ToSet(s) : x \in Nat /\ \E i \in 1..Len(s) : s[i] = x
           /\ Len(s) \in Nat
BY DEF ToSet

LEMMA FirstOfBatch ==
    ASSUME NEW s \in Seq(Nat), s # <<>>
    PROVE  /\ Head(s) \in Nat /\ Tail(s) \in Seq(Nat)
           /\ ToSet(s) = {Head(s)} \cup ToSet(Tail(s))
           /\ Rising(s) => Rising(Tail(s)) /\ \A x \in ToSet(Tail(s)) : Head(s) < x
<1>1. Len(s) \in Nat /\ Len(s) > 0 /\ Len(Tail(s)) = Len(s) - 1 /\ Head(s) = s[1]
  OBVIOUS
<1>2. \A i \in 1..Len(Tail(s)) : Tail(s)[i] = s[i + 1] /\ i + 1 \in 1..Len(s)
  BY <1>1
<1>3. \A i \in 1..Len(s) : i = 1 \/ (i - 1 \in 1..Len(Tail(s)) /\ Tail(s)[i - 1] = s[i])
  BY <1>1, <1>2
<1>t. Tail(s) \in Seq(Nat) /\ Head(s) \in Nat
  OBVIOUS
<1>4. ToSet(s) = {Head(s)} \cup ToSet(Tail(s))
  <2>1. ASSUME NEW i \in 1..Len(s) PROVE s[i] \in {Head(s)} \cup ToSet(Tail(s))
    BY <1>1, <1>3, <1>t, InBatch
  <2>2. ASSUME NEW i \in 1..Len(Tail(s)) PROVE Tail(s)[i] \in ToSet(s)
    BY <1>2, InBatch
  <2>3. Head(s) \in ToSet(s)
    BY <1>1, InBatch
  <2> QED
    BY <2>1, <2>2, <2>3, <1>t, InBatch
<1>5. ASSUME Rising(s) PROVE Rising(Tail(s)) /\ \A x \in ToSet(Tail(s)) : Head(s) < x
  <2>1. ASSUME NEW i \in 1..Len(Tail(s)), NEW j \in 1..Len(Tail(s)), i < j PROVE Tail(s)[i] < Tail(s)[j]
    <3>1. i + 1 \in 1..Len(s) /\ j + 1 \in 1..Len(s) /\ i + 1 < j + 1
      BY <1>1, <2>1
    <3> QED
      BY <3>1, <1>2, <1>5 DEF Rising
  <2>2. ASSUME NEW i \in 1..Len(Tail(s)) PROVE Head(s) < Tail(s)[i]
    <3>1. i + 1 \in 1..Len(s) /\ 1 \in 1..Len(s) /\ 1 < i + 1
      BY <1>1
    <3> QED
      BY <3>1, <1>1, <1>2, <1>5 DEF Rising
  <2> QED
    BY <2>1, <2>2, <1>t, InBatch DEF Rising
<1> QED
  BY <1>t, <1>4, <1>5

LEMMA FirstOfQueue ==
    ASSUME NEW q \in Seq(Seq(Nat)), q # <<>>
    PROVE  /\ Head(q) \in Seq(Nat) /\ Tail(q) \in Seq(Seq(Nat)) /\ Len(Tail(q)) = Len(q) - 1
           /\ QueuedIn(q) = ToSet(Head(q)) \cup QueuedIn(Tail(q))
           /\ InOrder(q) => /\ InOrder(Tail(q)) /\ Rising(Head(q))
                            /\ \A x \in ToSet(Head(q)), y \in QueuedIn(Tail(q)) : x < y
<1>1. Len(q) \in Nat /\ Len(q) > 0 /\ Len(Tail(q)) = Len(q) - 1 /\ Head(q) = q[1]
  OBVIOUS
<1>2. \A i \in 1..Len(Tail(q)) : Tail(q)[i] = q[i + 1] /\ i + 1 \in 1..Len(q)
  BY <1>1
<1>3. \A i \in 1..Len(q) : i = 1 \/ (i - 1 \in 1..Len(Tail(q)) /\ Tail(q)[i - 1] = q[i])
  BY <1>1, <1>2
<1>4. QueuedIn(q) = ToSet(Head(q)) \cup QueuedIn(Tail(q))
  <2>1. \A x \in QueuedIn(q) : x \in ToSet(Head(q)) \cup QueuedIn(Tail(q))
    BY <1>1, <1>3 DEF QueuedIn
  <2>2. \A x \in ToSet(Head(q)) \cup QueuedIn(Tail(q)) : x \in QueuedIn(q)
    BY <1>1, <1>2 DEF QueuedIn
  <2> QED
    BY <2>1, <2>2
<1>5. ASSUME InOrder(q)
      PROVE  InOrder(Tail(q)) /\ Rising(Head(q)) /\ \A x \in ToSet(Head(q)), y \in QueuedIn(Tail(q)) : x < y
  <2>1. \A i \in 1..Len(Tail(q)) : Rising(Tail(q)[i])
    BY <1>2, <1>5 DEF InOrder
  <2>2. ASSUME NEW i \in 1..Len(Tail(q)), NEW j \in 1..Len(Tail(q)), i < j
        PROVE  \A x \in ToSet(Tail(q)[i]), y \in ToSet(Tail(q)[j]) : x < y
    <3>1. i + 1 \in 1..Len(q) /\ j + 1 \in 1..Len(q) /\ i + 1 < j + 1
      BY <1>1, <2>2
    <3> QED
      BY <3>1, <1>2, <1>5 DEF InOrder
  <2>3. ASSUME NEW j \in 1..Len(Tail(q)) PROVE \A x \in ToSet(Head(q)), y \in ToSet(Tail(q)[j]) : x < y
    <3>1. 1 \in 1..Len(q) /\ j + 1 \in 1..Len(q) /\ 1 < j + 1
      BY <1>1
    <3> QED
      BY <3>1, <1>1, <1>2, <1>5 DEF InOrder
  <2>4. \A x \in ToSet(Head(q)), y \in QueuedIn(Tail(q)) : x < y
    BY <2>3 DEF QueuedIn
  <2> QED
    BY <2>1, <2>2, <2>4, <1>1, <1>5 DEF InOrder
<1> QED
  BY <1>1, <1>4, <1>5

LEMMA LastOfQueue ==
    ASSUME NEW q \in Seq(Seq(Nat)), NEW b \in Seq(Nat)
    PROVE  /\ Append(q, b) \in Seq(Seq(Nat)) /\ Len(Append(q, b)) = Len(q) + 1
           /\ QueuedIn(Append(q, b)) = QueuedIn(q) \cup ToSet(b)
           /\ (InOrder(q) /\ Rising(b) /\ \A x \in QueuedIn(q), y \in ToSet(b) : x < y) => InOrder(Append(q, b))
<1> DEFINE p == Append(q, b)
<1>1. Len(q) \in Nat /\ p \in Seq(Seq(Nat)) /\ Len(p) = Len(q) + 1 /\ p[Len(q) + 1] = b
  OBVIOUS
<1>2. \A i \in 1..Len(q) : p[i] = q[i] /\ i \in 1..Len(p)
  OBVIOUS
<1>3. \A i \in 1..Len(p) : i \in 1..Len(q) \/ i = Len(q) + 1
  BY <1>1
<1> HIDE DEF p
<1>4. QueuedIn(p) = QueuedIn(q) \cup ToSet(b)
  <2>1. \A x \in QueuedIn(p) : x \in QueuedIn(q) \cup ToSet(b)
    BY <1>1, <1>2, <1>3 DEF QueuedIn
  <2>2. ASSUME NEW x \in QueuedIn(q) PROVE x \in QueuedIn(p)
    <3>1. PICK i \in 1..Len(q) : x \in ToSet(q[i])
      BY DEF QueuedIn
    <3>2. i \in 1..Len(p) /\ x \in ToSet(p[i])
      BY <3>1, <1>2
    <3> QED
      BY <3>2 DEF QueuedIn
  <2>3. ASSUME NEW x \in ToSet(b) PROVE x \in QueuedIn(p)
    <3>1. Len(q) + 1 \in 1..Len(p) /\ x \in ToSet(p[Len(q) + 1])
      BY <1>1
    <3> QED
      BY <3>1 DEF QueuedIn
  <2> QED
    BY <2>1, <2>2, <2>3
<1>5. ASSUME InOrder(q), Rising(b), \A x \in QueuedIn(q), y \in ToSet(b) : x < y PROVE InOrder(p)
  <2>1. \A i \in 1..Len(p) : Rising(p[i])
    BY <1>1, <1>2, <1>3, <1>5 DEF InOrder
  <2>2. ASSUME NEW i \in 1..Len(p), NEW j \in 1..Len(p), i < j PROVE \A x \in ToSet(p[i]), y \in ToSet(p[j]) : x < y
    <3>1. i \in 1..Len(q)
      BY <1>1, <2>2
    <3>2. CASE j \in 1..Len(q)
      BY <3>1, <3>2, <1>2, <1>5, <2>2 DEF InOrder
    <3>3. CASE j = Len(q) + 1
      <4>1. ToSet(p[i]) \subseteq QueuedIn(q)
        BY <3>1, <1>2 DEF QueuedIn
      <4> QED
        BY <4>1, <3>3, <1>1, <1>5
    <3> QED
      BY <3>2, <3>3, <1>3
  <2> QED
    BY <2>1, <2>2 DEF InOrder
<1> QED
  BY <1>1, <1>4, <1>5 DEF p

LEMMA NoPlaces == ToSet(<<>>) = {} /\ QueuedIn(<<>>) = {} /\ Rising(<<>>) /\ InOrder(<<>>)
BY DEF ToSet, QueuedIn, Rising, InOrder

LEMMA Counted ==
    ASSUME NEW k \in Nat, NEW n \in Nat
    PROVE  LET b == [i \in 1..n |-> k + i] IN
           b \in Seq(Nat) /\ Len(b) = n /\ Rising(b) /\ ToSet(b) = (k + 1)..(k + n)
<1> DEFINE b == [i \in 1..n |-> k + i]
<1>1. b \in Seq(Nat) /\ Len(b) = n
  OBVIOUS
<1>2. Rising(b)
  BY <1>1 DEF Rising
<1>3. \A x \in (k + 1)..(k + n) : x - k \in 1..n /\ b[x - k] = x
  OBVIOUS
<1>4. ToSet(b) = (k + 1)..(k + n)
  <2>1. ASSUME NEW x \in ToSet(b) PROVE x \in (k + 1)..(k + n)
    <3>1. PICK i \in 1..n : b[i] = x
      BY <1>1, InBatch
    <3> QED
      BY <3>1
  <2>2. ASSUME NEW x \in (k + 1)..(k + n) PROVE x \in ToSet(b)
    <3>1. x - k \in 1..Len(b) /\ b[x - k] = x
      BY <1>1, <1>3
    <3> HIDE DEF b
    <3> QED
      BY <3>1, <1>1, InBatch
  <2> QED
    BY <2>1, <2>2
<1> QED
  BY <1>1, <1>2, <1>4

-----------------------------------------------------------------------------
(* Sequences that are joined *)

LEMMA CountingUp ==
    ASSUME NEW S, 0 \in S, \A n \in Nat : n \in S => n + 1 \in S
    PROVE  Nat \subseteq S
<1> SUFFICES ASSUME Nat \ S # {} PROVE FALSE
  OBVIOUS
<1> DEFINE R == {ss \in Nat \X Nat : ss[1] < ss[2]}
<1>1. IsWellFoundedOn(R, Nat)
  BY NatLessThanWellFounded DEF OpToRel
<1> HIDE DEF R
<1>2. PICK x \in Nat \ S : \A y \in Nat \ S : ~(<<y, x>> \in R)
  BY <1>1, WFMin
<1>3. x # 0 /\ x - 1 \in Nat
  OBVIOUS
<1>4. <<x - 1, x>> \in R
  BY <1>3 DEF R
<1>5. x - 1 \in S
  BY <1>2, <1>3, <1>4
<1> QED
  BY <1>3, <1>5

\* f joins the first sequences of S one by one.
Joins(f, S, N) == f = [i \in 1..N |-> IF i = 1 THEN S[i] ELSE f[i - 1] \o S[i]]

LEMMA JoinsUp ==
    ASSUME NEW S, NEW N \in Nat
    PROVE  \E f : Joins(f, S, N)
<1> DEFINE C == {k \in Nat : \E f : Joins(f, S, k)}
<1>1. 0 \in C
  <2>1. Joins([i \in 1..0 |-> S], S, 0)
    BY DEF Joins
  <2> QED
    BY <2>1
<1>2. ASSUME NEW k \in Nat, k \in C PROVE k + 1 \in C
  <2>1. PICK f : Joins(f, S, k)
    BY <1>2
  <2> DEFINE next == IF k = 0 THEN S[1] ELSE f[k] \o S[k + 1]
  <2>2. PICK g : g = [n \in 1..(k + 1) |-> IF n = k + 1 THEN next ELSE f[n]]
    OBVIOUS
  <2>3. \A n \in 1..k : g[n] = f[n]
    BY <2>2
  <2>4. \A n \in 1..k : f[n] = IF n = 1 THEN S[n] ELSE f[n - 1] \o S[n]
    BY <2>1 DEF Joins
  <2>5. ASSUME NEW n \in 1..(k + 1) PROVE g[n] = IF n = 1 THEN S[n] ELSE g[n - 1] \o S[n]
    <3>1. CASE n = k + 1 /\ n = 1
      BY <2>2, <3>1
    <3>2. CASE n = k + 1 /\ n # 1
      <4>1. k # 0 /\ k \in 1..k /\ n - 1 = k
        BY <3>2
      <4>2. g[k] = f[k]
        BY <2>3, <4>1
      <4>3. g[n] = next
        BY <2>2, <3>2
      <4>4. next = f[k] \o S[k + 1]
        BY <4>1
      <4> QED
        BY <4>1, <4>2, <4>3, <4>4, <3>2
    <3>3. CASE n # k + 1 /\ n # 1
      <4>1. n \in 1..k /\ n - 1 \in 1..k
        BY <3>3
      <4>2. g[n] = f[n] /\ g[n - 1] = f[n - 1]
        BY <2>3, <4>1
      <4> QED
        BY <2>4, <3>3, <4>1, <4>2
    <3>4. CASE n # k + 1 /\ n = 1
      <4>1. n \in 1..k
        BY <3>4
      <4> QED
        BY <2>3, <2>4, <3>4, <4>1
    <3> QED
      BY <3>1, <3>2, <3>3, <3>4
  <2>6. Joins(g, S, k + 1)
    BY <2>2, <2>5 DEF Joins
  <2> QED
    BY <2>6
<1>3. Nat \subseteq C
  <2> HIDE DEF C
  <2> QED
    BY <1>1, <1>2, CountingUp
<1> QED
  BY <1>3

\* s stands in t behind the first o members.
PartAt(s, t, o) == \A j \in 1..Len(s) : o + j \in 1..Len(t) /\ t[o + j] = s[j]

\* Every member of S is a part of t, and t has nothing but their members.
MadeOf(t, S, k) ==
    /\ \A i \in 1..k : \E o \in Nat : PartAt(S[i], t, o)
    /\ \A n \in 1..Len(t) : \E i \in 1..k, o \in Nat : PartAt(S[i], t, o) /\ \E j \in 1..Len(S[i]) : n = o + j

LEMMA JoinedParts ==
    ASSUME NEW E, NEW S \in Seq(Seq(E)), NEW k \in 1..Len(S), k + 1 \in 1..Len(S),
           NEW t \in Seq(E), MadeOf(t, S, k)
    PROVE  t \o S[k + 1] \in Seq(E) /\ MadeOf(t \o S[k + 1], S, k + 1)
<1> DEFINE w == S[k + 1]
           u == t \o w
<1>1. w \in Seq(E) /\ Len(t) \in Nat /\ Len(w) \in Nat /\ k \in Nat
  OBVIOUS
<1>2. u \in Seq(E) /\ Len(u) = Len(t) + Len(w)
  BY <1>1
<1>3. \A n \in 1..Len(t) : n \in 1..Len(u) /\ u[n] = t[n]
  BY <1>1
<1>4. \A j \in 1..Len(w) : Len(t) + j \in 1..Len(u) /\ u[Len(t) + j] = w[j]
  BY <1>1
<1> HIDE DEF u, w
<1>5. ASSUME NEW i \in 1..k, NEW o \in Nat, PartAt(S[i], t, o) PROVE PartAt(S[i], u, o)
  BY <1>3, <1>5 DEF PartAt
<1>6. PartAt(w, u, Len(t))
  BY <1>4 DEF PartAt
<1>7. \A i \in 1..(k + 1) : \E o \in Nat : PartAt(S[i], u, o)
  <2>1. \A i \in 1..(k + 1) : i \in 1..k \/ i = k + 1
    BY <1>1
  <2>2. \A i \in 1..k : \E o \in Nat : PartAt(S[i], u, o)
    BY <1>5 DEF MadeOf
  <2> QED
    BY <2>1, <2>2, <1>1, <1>6 DEF w
<1>8. ASSUME NEW n \in 1..Len(u)
      PROVE \E i \in 1..(k + 1), o \in Nat : PartAt(S[i], u, o) /\ \E j \in 1..Len(S[i]) : n = o + j
  <2>1. CASE n \in 1..Len(t)
    <3>1. PICK i \in 1..k, o \in Nat : PartAt(S[i], t, o) /\ \E j \in 1..Len(S[i]) : n = o + j
      BY <2>1 DEF MadeOf
    <3>2. PartAt(S[i], u, o) /\ i \in 1..(k + 1)
      BY <3>1, <1>1, <1>5
    <3> QED
      BY <3>1, <3>2
  <2>2. CASE n \notin 1..Len(t)
    <3>1. n - Len(t) \in 1..Len(w) /\ n = Len(t) + (n - Len(t))
      BY <2>2, <1>1, <1>2
    <3>2. k + 1 \in 1..(k + 1) /\ PartAt(S[k + 1], u, Len(t)) /\ n - Len(t) \in 1..Len(S[k + 1])
      BY <3>1, <1>1, <1>6 DEF w
    <3> QED
      BY <3>1, <3>2, <1>1
  <2> QED
    BY <2>1, <2>2
<1> QED
  BY <1>2, <1>7, <1>8 DEF MadeOf, u, w

LEMMA Flattened ==
    ASSUME NEW E, NEW S \in Seq(Seq(E)), S # <<>>
    PROVE  FlattenSeq(S) \in Seq(E) /\ MadeOf(FlattenSeq(S), S, Len(S))
<1> DEFINE f == CHOOSE f : Joins(f, S, Len(S))
<1>1. Len(S) \in Nat /\ Len(S) # 0
  OBVIOUS
<1>2. Joins(f, S, Len(S))
  BY <1>1, JoinsUp
<1>3. FlattenSeq(S) = f[Len(S)]
  BY <1>1, Zenon DEF FlattenSeq, Joins
<1> HIDE DEF f
<1>4. \A i \in 1..Len(S) : f[i] = IF i = 1 THEN S[i] ELSE f[i - 1] \o S[i]
  BY <1>2 DEF Joins
<1> DEFINE C == {k \in Nat : k + 1 \in 1..Len(S) => f[k + 1] \in Seq(E) /\ MadeOf(f[k + 1], S, k + 1)}
<1>5. 0 \in C
  <2>1. f[1] = S[1] /\ S[1] \in Seq(E)
    BY <1>1, <1>4
  <2>2. PartAt(S[1], S[1], 0)
    BY <2>1 DEF PartAt
  <2>3. MadeOf(S[1], S, 1)
    <3>1. \A i \in 1..1 : i = 1
      OBVIOUS
    <3>2. \A n \in 1..Len(S[1]) : n = 0 + n
      BY <2>1
    <3> QED
      BY <2>2, <3>1, <3>2 DEF MadeOf
  <2> QED
    BY <2>1, <2>3
<1>6. ASSUME NEW k \in Nat, k \in C PROVE k + 1 \in C
  <2> SUFFICES ASSUME k + 2 \in 1..Len(S) PROVE f[k + 2] \in Seq(E) /\ MadeOf(f[k + 2], S, k + 2)
    BY <1>1
  <2>1. k + 1 \in 1..Len(S) /\ (k + 1) + 1 = k + 2 /\ k + 2 # 1 /\ (k + 2) - 1 = k + 1
    BY <1>1
  <2>2. f[k + 1] \in Seq(E) /\ MadeOf(f[k + 1], S, k + 1)
    BY <2>1, <1>6
  <2>3. f[k + 2] = f[k + 1] \o S[k + 2]
    BY <1>4, <2>1
  <2> QED
    BY <2>1, <2>2, <2>3, JoinedParts
<1>7. Nat \subseteq C
  <2> HIDE DEF C
  <2> QED
    BY <1>5, <1>6, CountingUp
<1>8. Len(S) - 1 \in Nat /\ (Len(S) - 1) + 1 = Len(S)
  BY <1>1
<1> QED
  BY <1>1, <1>3, <1>7, <1>8

-----------------------------------------------------------------------------
(* The inductive invariant *)

\* What waits to be dispatched is in the order of the log; what is delivered at the moment comes first.
Ordered ==
    /\ InOrder(queue) /\ Rising(sources) /\ Rising(unnoticed)
    /\ \A x \in ToSet(sources) \cup ToSet(unnoticed) \cup ({delivering} \ {0}), y \in Queued : x < y
    /\ delivering # 0 => \A y \in ToSet(sources) : delivering < y
    /\ delivering = 0 <=> targets = {}
    /\ unnoticed = <<>> => sources = <<>> /\ delivering = 0

\* An input of a subscription and a notice stand for a command; only a fork forgets the commands of inputs.
Known ==
    /\ \A m \in Places : log[m].kind = "input" =>
        /\ log[m].sub \in Subscriptions /\ log[m].actor = Watch[log[m].sub].subscriber /\ log[m].of \in Places
        /\ forks = 0 => Delivery(log[m].sub, log[m].of) \in commands
    /\ \A s \in Subscriptions, n \in Nat : Delivery(s, n) \in commands => \E m \in ToSubscription(s) : log[m].of = n
    /\ \A n \in Nat : Notice(n) \in commands =>
        n \in Places /\ \E m \in Places : log[m].kind = "notice" /\ log[m].actor = Creator[log[n].actor] /\ log[m].of = n

\* Without an import, what a subscription got is older than what it still gets.
Behind(s) == \A m \in ToSubscription(s) :
    /\ \A x \in ToSet(sources) \cup Queued : log[m].of < x
    /\ delivering # 0 => log[m].of <= delivering /\ (s \in targets => log[m].of < delivering)

Sequenced ==
    /\ forks = 0 => DeliveredAtMostOnce
    /\ moves = 0 => DeliveredInOrder /\ \A s \in Subscriptions : Behind(s)

\* A match that was not delivered is on its way.
Reached == \A s \in Subscriptions, n \in Places \ lost : Matches(s, n) =>
    \/ \E m \in ToSubscription(s) : log[m].of = n
    \/ n \in ToSet(sources) \cup Queued
    \/ n = delivering /\ s \in targets

\* A failure its creator has not learned of is still to be looked at.
Told == \A n \in Places \ lost :
    (/\ log[n].kind \in Ended /\ Creator[log[n].actor] \in active
     /\ SameSince(log[n].actor, n) /\ SameSince(Creator[log[n].actor], n))
        => Learned(Creator[log[n].actor], n) \/ n \in ToSet(unnoticed) \cup Queued

\* Who was not stopped since its turn ended is active.
StillActive == \A n \in Places : log[n].kind \in Ended /\ SameSince(log[n].actor, n) => log[n].actor \in active

\* What was cut off is only on its way in an imported history, which is the first batch.
Uncaught ==
    /\ ~moving => Pending \cap lost = {}
    /\ moving /\ unnoticed = <<>> => Len(queue) = 1 /\ Head(queue) # <<>>
    /\ moving /\ unnoticed # <<>> => Queued \cap lost = {}

IInv ==
    /\ DispatchTypeOK /\ Ordered /\ Known /\ Sequenced
    /\ Reached /\ Told /\ StillActive /\ Uncaught

LEMMA InvInit == DispatchInit => IInv
<1> SUFFICES ASSUME DispatchInit PROVE IInv
  OBVIOUS
<1>1. Places = {} /\ Queued = {} /\ Pending = {} /\ log \in Seq(Events) /\ queue \in Seq(Seq(Nat)) /\ sources \in Seq(Nat)
  <2>1. log = <<>> /\ queue = <<>> /\ sources = <<>> /\ unnoticed = <<>> /\ delivering = 0
    BY DEF DispatchInit
  <2>2. Queued = {}
    BY <2>1, NoPlaces DEF Queued, QueuedIn
  <2> QED
    BY <2>1, <2>2, NoPlaces DEF Places, Pending
<1>2. DispatchTypeOK
  <2>1. unnoticed \in Seq(Nat)
    BY DEF DispatchInit
  <2>2. subs \in [Subscriptions -> [status : Statuses, created : 0..Len(log)]] /\ \A s \in Subscriptions : subs[s].status # "active"
    BY DEF DispatchInit, Statuses
  <2>3. /\ running \subseteq active /\ active \subseteq Actors /\ recovering \subseteq running
        /\ targets \subseteq Subscriptions /\ Pending \cup lost \subseteq Places
    BY <1>1 DEF DispatchInit
  <2>4. delivering \in 0..Len(log) /\ {crashes, forks, moves} \subseteq Nat
    BY DEF DispatchInit
  <2>5. moving \in BOOLEAN
    BY Zenon DEF DispatchInit
  <2> QED
    BY <1>1, <2>1, <2>2, <2>3, <2>4, <2>5 DEF DispatchTypeOK
<1>3. Ordered
  BY <1>1, NoPlaces DEF DispatchInit, Ordered
<1>4. Known /\ Reached /\ Told /\ StillActive
  BY <1>1 DEF DispatchInit, Known, Reached, Told, StillActive
<1>5. Sequenced
  BY <1>1 DEF Sequenced, DeliveredAtMostOnce, DeliveredInOrder, Behind, ToSubscription
<1>6. Uncaught
  BY <1>1 DEF DispatchInit, Uncaught
<1> QED
  BY <1>2, <1>3, <1>4, <1>5, <1>6 DEF IInv

LEMMA Committed ==
    ASSUME DispatchTypeOK, InOrder(queue), NEW es \in Seq(Events), Commit(es)
    PROVE  /\ log' \in Seq(Events) /\ Len(log') = Len(log) + Len(es) /\ Len(log) \in Nat /\ Len(es) \in Nat
           /\ \A n \in Places : n \in Places' /\ log'[n] = log[n]
           /\ \A n \in Places' \ Places : n - Len(log) \in 1..Len(es) /\ log'[n] = es[n - Len(log)]
           /\ \A i \in 1..Len(es) : Len(log) + i \in Places' \ Places /\ log'[Len(log) + i] = es[i]
           /\ queue' \in Seq(Seq(Nat)) /\ InOrder(queue') /\ Len(queue') = Len(queue) + 1
           /\ Queued' = Queued \cup (Places' \ Places)
<1>1. Len(log) \in Nat /\ Len(es) \in Nat /\ log \in Seq(Events)
  BY DEF DispatchTypeOK
<1>2. log' = log \o es
  BY DEF Commit
<1>3. log' \in Seq(Events) /\ Len(log') = Len(log) + Len(es)
  BY <1>1, <1>2
<1>4. /\ \A n \in 1..Len(log) : n \in 1..Len(log') /\ log'[n] = log[n]
      /\ \A n \in 1..Len(log') : n \notin 1..Len(log) => n - Len(log) \in 1..Len(es) /\ log'[n] = es[n - Len(log)]
      /\ \A i \in 1..Len(es) : Len(log) + i \in 1..Len(log') /\ Len(log) + i \notin 1..Len(log) /\ log'[Len(log) + i] = es[i]
  BY <1>1, <1>2
<1> DEFINE b == [i \in 1..Len(es) |-> Len(log) + i]
<1>5. b \in Seq(Nat) /\ Rising(b) /\ ToSet(b) = (Len(log) + 1)..(Len(log) + Len(es))
  BY <1>1, Counted
<1>6. queue' = Append(queue, b)
  BY DEF Commit, Published
<1> HIDE DEF b
<1>7. (Len(log) + 1)..(Len(log) + Len(es)) = Places' \ Places
  BY <1>1, <1>3 DEF Places
<1>8. \A x \in QueuedIn(queue), y \in ToSet(b) : x < y
  <2>1. QueuedIn(queue) \subseteq 1..Len(log)
    BY DEF DispatchTypeOK, Pending, Queued, QueuedIn, Places
  <2> QED
    BY <2>1, <1>1, <1>5
<1>9. /\ queue' \in Seq(Seq(Nat)) /\ InOrder(queue') /\ Len(queue') = Len(queue) + 1
      /\ QueuedIn(queue') = QueuedIn(queue) \cup ToSet(b)
  BY <1>5, <1>6, <1>8, LastOfQueue DEF DispatchTypeOK
<1> QED
  BY <1>1, <1>3, <1>4, <1>5, <1>7, <1>9 DEF Places, Queued, QueuedIn

\* What is in the log stays there.
LEMMA OldPlaces ==
    ASSUME DispatchTypeOK, InOrder(queue), NEW es \in Seq(Events), Commit(es)
    PROVE  /\ \A s, m : m \in ToSubscription(s) => m \in ToSubscription(s)' /\ log'[m] = log[m]
           /\ \A a, n : n \in Places /\ SameSince(a, n)' => SameSince(a, n)
           /\ \A c, n : Learned(c, n) => Learned(c, n)'
<1>1. \A n \in Places : n \in Places' /\ log'[n] = log[n]
  BY Committed
<1>2. \A s, m : m \in ToSubscription(s) => m \in ToSubscription(s)' /\ log'[m] = log[m]
  BY <1>1 DEF ToSubscription
<1>3. \A a, n : n \in Places /\ SameSince(a, n)' => SameSince(a, n)
  BY <1>1 DEF SameSince
<1>4. \A c, n : Learned(c, n) => Learned(c, n)'
  BY <1>1 DEF Learned, Inputs
<1> QED
  BY <1>2, <1>3, <1>4

\* A command that somebody gives when everything was dispatched; es are the events it commits.
CommandGiven(es) ==
    /\ Quiet /\ es \in Seq(Events) /\ Commit(es)
    /\ UNCHANGED <<commands, batchVars, moving, lost, boundVars>>
    /\ \A i \in 1..Len(es) : es[i].kind \notin {"input", "notice"}

SubsFit ==
    /\ subs' \in [Subscriptions -> [status : Statuses, created : 0..Len(log')]]
    /\ \A s \in Subscriptions : subs'[s].status = "active" =>
          Watch[s].subscriber \in active' /\ (subs'[s] = subs[s] \/ subs'[s].created = Len(log) + 1)

ActorsFit(es) ==
    /\ active' \subseteq Actors /\ running' \subseteq active' /\ recovering' \subseteq running'
    /\ \A a \in active' \ active : \E i \in 1..Len(es) : es[i].kind = "restarted" /\ es[i].actor = a
    /\ \A a \in active \ active' : \E i \in 1..Len(es) : es[i].kind = "stopped" /\ es[i].actor = a
    /\ \A i \in 1..Len(es) : es[i].kind \in Ended =>
          /\ es[i].actor \in active
          /\ es[i].actor \in active' \/ \E j \in 1..Len(es) : i < j /\ es[j].kind = "stopped" /\ es[j].actor = es[i].actor

\* An event that reaches somebody now was waiting for it.
Prompt == \A m \in Inputs' \ Inputs : log'[m].of \in Pending

LEMMA NothingNew ==
    ASSUME UNCHANGED log
    PROVE  Prompt
BY DEF Prompt, Inputs, Places

LEMMA CommandStep ==
    ASSUME IInv, NEW es, CommandGiven(es), SubsFit, ActorsFit(es)
    PROVE  IInv' /\ Prompt
<1>e. es \in Seq(Events) /\ Commit(es) /\ Quiet /\ \A i \in 1..Len(es) : es[i].kind \notin {"input", "notice"}
  BY DEF CommandGiven
<1>t. DispatchTypeOK /\ InOrder(queue)
  BY DEF IInv, Ordered
<1>l. log \in Seq(Events) /\ log' \in Seq(Events) /\ Len(log') = Len(log) + Len(es) /\ Len(log) \in Nat /\ Len(es) \in Nat
  BY <1>e, <1>t, Committed DEF DispatchTypeOK
<1>o. \A n \in Places : n \in Places' /\ log'[n] = log[n]
  BY <1>e, <1>t, Committed
<1>n. \A n \in Places' \ Places : n - Len(log) \in 1..Len(es) /\ log'[n] = es[n - Len(log)]
  BY <1>e, <1>t, Committed
<1>i. \A i \in 1..Len(es) : Len(log) + i \in Places' \ Places /\ log'[Len(log) + i] = es[i]
  BY <1>e, <1>t, Committed
<1>q. /\ queue' \in Seq(Seq(Nat)) /\ InOrder(queue') /\ Len(queue') = Len(queue) + 1
      /\ Queued' = Queued \cup (Places' \ Places)
  BY <1>e, <1>t, Committed
<1>p. \A s, m : m \in ToSubscription(s) => m \in ToSubscription(s)' /\ log'[m] = log[m]
  BY <1>e, <1>t, OldPlaces
<1>s. \A a, n : n \in Places /\ SameSince(a, n)' => SameSince(a, n)
  BY <1>e, <1>t, OldPlaces
<1>r. \A c, n : Learned(c, n) => Learned(c, n)'
  BY <1>e, <1>t, OldPlaces
<1>w. \A n \in Places, i \in 1..Len(es) : Len(log) + i > n
  BY <1>l DEF Places
<1>2. /\ sources = <<>> /\ unnoticed = <<>> /\ queue = <<>> /\ delivering = 0 /\ targets = {}
      /\ sources' = <<>> /\ unnoticed' = <<>> /\ delivering' = 0 /\ targets' = {}
  BY DEF CommandGiven, Quiet, BetweenBatches, batchVars, IInv, Ordered
<1>3. Queued = {} /\ Pending = {} /\ Queued' = Places' \ Places /\ Pending' = Places' \ Places
  <2>1. Queued = {}
    BY <1>2, NoPlaces DEF Queued, QueuedIn
  <2>2. Pending = Queued /\ Pending' = Queued'
    BY <1>2, NoPlaces DEF Pending
  <2> QED
    BY <2>1, <2>2, <1>q
<1>4. ~moving /\ ~moving'
  BY <1>2 DEF IInv, Uncaught, CommandGiven
<1>5. lost \subseteq Places /\ lost' = lost /\ forks' = forks /\ moves' = moves /\ crashes' = crashes /\ commands' = commands
  BY <1>t DEF DispatchTypeOK, boundVars, CommandGiven
<1>6. DispatchTypeOK'
  <2>1. delivering' \in 0..Len(log') /\ targets' \subseteq Subscriptions
    BY <1>l, <1>2
  <2>2. Pending' \cup lost' \subseteq Places'
    BY <1>o, <1>3, <1>5
  <2>3. sources' \in Seq(Nat) /\ unnoticed' \in Seq(Nat)
    BY <1>2
  <2>4. moving' \in BOOLEAN /\ {crashes', forks', moves'} \subseteq Nat
    <3>1. {crashes, forks, moves} \subseteq Nat
      BY <1>t DEF DispatchTypeOK
    <3>2. moving' \in BOOLEAN
      BY <1>t, Zenon DEF DispatchTypeOK, CommandGiven
    <3> QED
      BY <3>1, <3>2, <1>5, Zenon
  <2> QED
    BY <1>l, <1>q, <2>1, <2>2, <2>3, <2>4 DEF DispatchTypeOK, SubsFit, ActorsFit
<1>7. Ordered'
  BY <1>q, <1>2, NoPlaces DEF Ordered
<1>8. \A s : ToSubscription(s)' = ToSubscription(s) /\ \A m \in ToSubscription(s) : log'[m] = log[m]
  <2>1. \A n \in Places' \ Places : log'[n].kind # "input"
    BY <1>e, <1>n
  <2> QED
    BY <2>1, <1>o DEF ToSubscription
<1>9. Known'
  <2>1. ASSUME NEW m \in Places', log'[m].kind = "input"
        PROVE  /\ log'[m].sub \in Subscriptions /\ log'[m].actor = Watch[log'[m].sub].subscriber /\ log'[m].of \in Places'
               /\ forks' = 0 => Delivery(log'[m].sub, log'[m].of) \in commands'
    <3>1. m \in Places
      BY <2>1, <1>e, <1>n
    <3>2. log'[m] = log[m]
      BY <3>1, <1>o
    <3>3. log[m].of \in Places /\ log[m].sub \in Subscriptions
      BY <2>1, <3>1, <3>2 DEF IInv, Known
    <3> QED
      BY <3>1, <3>2, <3>3, <2>1, <1>o, <1>5 DEF IInv, Known
  <2>2. \A s \in Subscriptions, n \in Nat : Delivery(s, n) \in commands' => \E m \in ToSubscription(s)' : log'[m].of = n
    <3>1. \A s \in Subscriptions, n \in Nat : Delivery(s, n) \in commands => \E m \in ToSubscription(s) : log[m].of = n
      BY DEF IInv, Known
    <3> QED
      BY <3>1, <1>5, <1>8
  <2>3. ASSUME NEW n \in Nat, Notice(n) \in commands'
        PROVE  n \in Places' /\ \E m \in Places' : log'[m].kind = "notice" /\ log'[m].actor = Creator[log'[n].actor] /\ log'[m].of = n
    <3>1. n \in Places /\ \E m \in Places : log[m].kind = "notice" /\ log[m].actor = Creator[log[n].actor] /\ log[m].of = n
      BY <2>3, <1>5 DEF IInv, Known
    <3> QED
      BY <3>1, <1>o
  <2> QED
    BY <2>1, <2>2, <2>3 DEF Known, Delivery, Notice
<1>10. Sequenced'
  <2>1. DeliveredAtMostOnce => DeliveredAtMostOnce'
    BY <1>8 DEF DeliveredAtMostOnce
  <2>2. DeliveredInOrder => DeliveredInOrder'
    BY <1>5, <1>8 DEF DeliveredInOrder
  <2>3. ASSUME NEW s \in Subscriptions PROVE Behind(s)'
    <3> SUFFICES ASSUME NEW m \in ToSubscription(s), NEW x \in Queued' PROVE log[m].of < x
      BY <1>2, <1>8, NoPlaces DEF Behind
    <3>1. log[m].of \in Places
      BY DEF IInv, Known, ToSubscription
    <3>2. x \in Places' \ Places
      BY <1>3
    <3> QED
      BY <3>1, <3>2, <1>l DEF Places
  <2> QED
    BY <2>1, <2>2, <2>3, <1>5 DEF IInv, Sequenced
<1>11. Reached'
  <2> SUFFICES ASSUME NEW s \in Subscriptions, NEW n \in Places' \ lost', Matches(s, n)'
               PROVE  (\E m \in ToSubscription(s)' : log'[m].of = n) \/ n \in Queued'
    BY DEF Reached
  <2>1. CASE n \in Places
    <3>1. Matches(s, n)
      <4>1. log'[n] = log[n] /\ n \in Nat /\ n <= Len(log)
        BY <2>1, <1>o, <1>l DEF Places
      <4>2. subs'[s].status = "active" /\ subs'[s].created < n
        BY DEF Matches
      <4>3. subs'[s] = subs[s]
        BY <4>1, <4>2, <1>l DEF SubsFit
      <4> QED
        BY <4>1, <4>3 DEF Matches
    <3>2. \E m \in ToSubscription(s) : log[m].of = n
      BY <3>1, <2>1, <1>2, <1>3, <1>5, NoPlaces DEF IInv, Reached
    <3> QED
      BY <3>2, <1>8
  <2> QED
    BY <2>1, <1>3
<1>12. Told'
  <2>1. ASSUME NEW n \in Places' \ lost', log'[n].kind \in Ended, Creator[log'[n].actor] \in active',
               SameSince(log[n].actor, n)', SameSince(Creator[log[n].actor], n)', n \notin Queued'
        PROVE  Learned(Creator[log[n].actor], n)'
    <3>1. n \in Places /\ log'[n] = log[n] /\ n \notin lost
      BY <2>1, <1>o, <1>3, <1>5
    <3>2. PICK a, c : a = log[n].actor /\ c = Creator[a]
      OBVIOUS
    <3>a. log'[n].actor = a
      BY <3>1, <3>2
    <3>3. SameSince(a, n)' /\ SameSince(c, n)' /\ c \in active' /\ log[n].kind \in Ended
      BY <2>1, <3>1, <3>2, <3>a DEF SameSince
    <3>4. c \in active
      <4>1. SUFFICES ASSUME c \notin active PROVE FALSE
        OBVIOUS
      <4>2. PICK i \in 1..Len(es) : es[i].kind = "restarted" /\ es[i].actor = c
        BY <3>3, <4>1 DEF ActorsFit
      <4>3. Len(log) + i \in Places' /\ Len(log) + i > n /\ log'[Len(log) + i] = es[i]
        BY <1>i, <1>w, <3>1
      <4> QED
        BY <3>3, <4>2, <4>3 DEF SameSince
    <3>5. SameSince(a, n) /\ SameSince(c, n)
      BY <3>1, <3>3, <1>s
    <3>6. Learned(c, n)
      BY <3>1, <3>2, <3>3, <3>4, <3>5, <1>2, <1>3, NoPlaces DEF IInv, Told
    <3>7. Learned(c, n)'
      BY <3>6, <1>r
    <3> QED
      BY <3>2, <3>a, <3>7 DEF Learned
  <2> QED
    BY <2>1 DEF Told
<1>13. StillActive'
  <2>1. ASSUME NEW n \in Places', log'[n].kind \in Ended, SameSince(log[n].actor, n)', log'[n].actor \notin active'
        PROVE  FALSE
    <3>0. PICK a : a = log'[n].actor
      OBVIOUS
    <3>a. a \notin active' /\ SameSince(a, n)'
      BY <2>1, <3>0 DEF SameSince
    <3>1. CASE n \in Places
      <4>1. log'[n] = log[n] /\ SameSince(a, n)
        BY <3>1, <3>a, <1>o, <1>s
      <4>2. a \in active
        BY <3>0, <3>1, <4>1, <2>1 DEF IInv, StillActive
      <4>3. PICK i \in 1..Len(es) : es[i].kind = "stopped" /\ es[i].actor = a
        BY <4>2, <3>a DEF ActorsFit
      <4>4. Len(log) + i \in Places' /\ Len(log) + i > n /\ log'[Len(log) + i] = es[i]
        BY <1>i, <1>w, <3>1
      <4> QED
        BY <3>a, <4>3, <4>4 DEF SameSince
    <3>2. CASE n \notin Places
      <4>1. n - Len(log) \in 1..Len(es) /\ log'[n] = es[n - Len(log)] /\ n \in Int
        BY <1>n, <1>l, <3>2 DEF Places
      <4>2. PICK j \in 1..Len(es) : n - Len(log) < j /\ es[j].kind = "stopped" /\ es[j].actor = a
        BY <4>1, <3>0, <3>a, <2>1 DEF ActorsFit
      <4>3. Len(log) + j \in Places' /\ Len(log) + j > n /\ log'[Len(log) + j] = es[j]
        BY <1>i, <1>l, <4>1, <4>2
      <4> QED
        BY <3>a, <4>2, <4>3 DEF SameSince
    <3> QED
      BY <3>1, <3>2
  <2> QED
    BY <2>1 DEF StillActive
<1>14. Uncaught'
  BY <1>3, <1>4, <1>5 DEF Uncaught
<1>z. Prompt
  BY <1>e, <1>n, <1>o DEF Prompt, Inputs
<1> QED
  BY <1>z, <1>6, <1>7, <1>9, <1>10, <1>11, <1>12, <1>13, <1>14 DEF IInv

-----------------------------------------------------------------------------
(* The commands *)

LEMMA OneEvent ==
    ASSUME NEW e \in Events
    PROVE  <<e>> \in Seq(Events) /\ Len(<<e>>) = 1 /\ <<e>>[1] = e /\ \A i \in 1..Len(<<e>>) : i = 1
OBVIOUS

LEMMA SubsStay ==
    ASSUME DispatchTypeOK, InOrder(queue), NEW es \in Seq(Events), Commit(es), UNCHANGED subs,
           \A s \in Subscriptions : subs[s].status = "active" => Watch[s].subscriber \in active'
    PROVE  SubsFit
<1>1. Len(log) \in Nat /\ Len(log') = Len(log) + Len(es) /\ Len(es) \in Nat
  BY Committed
<1>2. \A s \in Subscriptions : subs[s] \in [status : Statuses, created : 0..Len(log)]
  BY DEF DispatchTypeOK
<1>3. \A s \in Subscriptions : subs[s] \in [status : Statuses, created : 0..Len(log')]
  BY <1>1, <1>2
<1>4. subs = [s \in Subscriptions |-> subs[s]]
  BY DEF DispatchTypeOK
<1> QED
  BY <1>3, <1>4 DEF SubsFit

LEMMA EndTurnStep ==
    ASSUME IInv, NEW a \in Actors, NEW kind \in {"completed", "failed", "interrupted"}, EndTurn(a, kind)
    PROVE  IInv' /\ Prompt
<1> DEFINE e == Event(kind, a, "none", 0)
<1>1. e \in Events /\ e.kind = kind /\ e.actor = a
  BY DEF Event, Events, Kinds, Observable, Ended
<1> HIDE DEF e
<1>2. CommandGiven(<<e>>)
  <2>1. <<e>> \in Seq(Events) /\ \A i \in 1..Len(<<e>>) : <<e>>[i].kind \notin {"input", "notice"}
    BY <1>1, OneEvent
  <2> QED
    BY <2>1 DEF EndTurn, CommandGiven, MayCommand, e
<1>t. DispatchTypeOK /\ InOrder(queue) /\ a \in active
  BY DEF IInv, Ordered, EndTurn, DispatchTypeOK
<1>3. SubsFit
  <2>1. \A s \in Subscriptions : subs[s].status = "active" => Watch[s].subscriber \in active'
    BY <1>t DEF DispatchTypeOK, EndTurn
  <2> QED
    BY <2>1, <1>2, <1>t, SubsStay DEF CommandGiven, EndTurn
<1>4. ActorsFit(<<e>>)
  <2>1. active' = active /\ running' = running \ {a} /\ recovering' = {}
    BY DEF EndTurn, MayCommand
  <2> QED
    BY <2>1, <1>1, <1>t, OneEvent DEF ActorsFit, DispatchTypeOK
<1> QED
  BY <1>2, <1>3, <1>4, CommandStep

LEMMA RecoverTurnStep ==
    ASSUME IInv, NEW a \in Actors, RecoverTurn(a)
    PROVE  IInv' /\ Prompt
<1> DEFINE e == Event("interrupted", a, "none", 0)
<1>1. e \in Events /\ e.kind = "interrupted" /\ e.actor = a
  BY DEF Event, Events, Kinds, Observable, Ended
<1> HIDE DEF e
<1>2. CommandGiven(<<e>>)
  <2>1. <<e>> \in Seq(Events) /\ \A i \in 1..Len(<<e>>) : <<e>>[i].kind \notin {"input", "notice"}
    BY <1>1, OneEvent
  <2> QED
    BY <2>1 DEF RecoverTurn, CommandGiven, e
<1>t. DispatchTypeOK /\ InOrder(queue) /\ a \in active
  BY DEF IInv, Ordered, RecoverTurn, DispatchTypeOK
<1>3. SubsFit
  <2>1. \A s \in Subscriptions : subs[s].status = "active" => Watch[s].subscriber \in active'
    BY <1>t DEF DispatchTypeOK, RecoverTurn
  <2> QED
    BY <2>1, <1>2, <1>t, SubsStay DEF CommandGiven, RecoverTurn
<1>4. ActorsFit(<<e>>)
  <2>1. active' = active /\ running' = running \ {a} /\ recovering' = recovering \ {a}
    BY DEF RecoverTurn
  <2> QED
    BY <2>1, <1>1, <1>t, OneEvent DEF ActorsFit, DispatchTypeOK
<1> QED
  BY <1>2, <1>3, <1>4, CommandStep

LEMMA RestartActorStep ==
    ASSUME IInv, NEW a \in Actors, RestartActor(a)
    PROVE  IInv' /\ Prompt
<1> DEFINE e == Event("restarted", a, "none", 0)
<1>1. e \in Events /\ e.kind = "restarted" /\ e.actor = a
  BY DEF Event, Events, Kinds, Observable, Ended
<1> HIDE DEF e
<1>2. CommandGiven(<<e>>)
  <2>1. <<e>> \in Seq(Events) /\ \A i \in 1..Len(<<e>>) : <<e>>[i].kind \notin {"input", "notice"}
    BY <1>1, OneEvent
  <2> QED
    BY <2>1 DEF RestartActor, CommandGiven, MayCommand, e
<1>t. DispatchTypeOK /\ InOrder(queue)
  BY DEF IInv, Ordered
<1>3. SubsFit
  <2>1. \A s \in Subscriptions : subs[s].status = "active" => Watch[s].subscriber \in active'
    BY <1>t DEF DispatchTypeOK, RestartActor
  <2> QED
    BY <2>1, <1>2, <1>t, SubsStay DEF CommandGiven, RestartActor
<1>4. ActorsFit(<<e>>)
  <2>1. active' = active \cup {a} /\ running' = running /\ recovering' = recovering
    BY DEF RestartActor
  <2>2. 1 \in 1..Len(<<e>>) /\ <<e>>[1].kind = "restarted" /\ <<e>>[1].actor = a
    BY <1>1, OneEvent
  <2>3. \A i \in 1..Len(<<e>>) : <<e>>[i].kind \notin Ended
    BY <1>1, OneEvent DEF Ended
  <2> HIDE DEF e
  <2> QED
    BY <2>1, <2>2, <2>3, <1>t DEF ActorsFit, DispatchTypeOK
<1> QED
  BY <1>2, <1>3, <1>4, CommandStep

LEMMA CreateSubscriptionStep ==
    ASSUME IInv, NEW s \in Subscriptions, CreateSubscription(s)
    PROVE  IInv' /\ Prompt
<1> DEFINE e == Event("subscribed", Watch[s].subscriber, s, 0)
<1>1. e \in Events /\ e.kind = "subscribed"
  BY DispatchAssumption DEF Event, Events, Kinds, Observable, Ended
<1> HIDE DEF e
<1>2. CommandGiven(<<e>>)
  <2>1. <<e>> \in Seq(Events) /\ \A i \in 1..Len(<<e>>) : <<e>>[i].kind \notin {"input", "notice"}
    BY <1>1, OneEvent
  <2> QED
    BY <2>1 DEF CreateSubscription, CommandGiven, MayCommand, e
<1>t. DispatchTypeOK /\ InOrder(queue)
  BY DEF IInv, Ordered
<1>l. Len(log) \in Nat /\ Len(log') = Len(log) + 1
  BY <1>1, <1>2, <1>t, OneEvent, Committed DEF CommandGiven
<1>3. SubsFit
  <2>1. subs' = [subs EXCEPT ![s] = [status |-> "active", created |-> Len(log) + 1]] /\ active' = active
    BY DEF CreateSubscription
  <2>2. subs \in [Subscriptions -> [status : Statuses, created : 0..Len(log)]]
    BY <1>t DEF DispatchTypeOK
  <2>3. [status |-> "active", created |-> Len(log) + 1] \in [status : Statuses, created : 0..Len(log')]
    BY <1>l DEF Statuses
  <2>4. \A r \in Subscriptions : subs[r] \in [status : Statuses, created : 0..Len(log')]
    BY <2>2, <1>l
  <2>5. subs' \in [Subscriptions -> [status : Statuses, created : 0..Len(log')]]
    BY <2>1, <2>2, <2>3, <2>4
  <2>6. ASSUME NEW r \in Subscriptions, subs'[r].status = "active"
        PROVE  Watch[r].subscriber \in active' /\ (subs'[r] = subs[r] \/ subs'[r].created = Len(log) + 1)
    <3>1. CASE r = s
      BY <3>1, <2>1, <2>2 DEF CreateSubscription
    <3>2. CASE r # s
      BY <3>2, <2>1, <2>2, <2>6, <1>t DEF DispatchTypeOK
    <3> QED
      BY <3>1, <3>2
  <2> QED
    BY <2>5, <2>6 DEF SubsFit
<1>4. ActorsFit(<<e>>)
  <2>1. active' = active /\ running' = running /\ recovering' = recovering
    BY DEF CreateSubscription
  <2>2. \A i \in 1..Len(<<e>>) : <<e>>[i].kind \notin Ended
    BY <1>1, OneEvent DEF Ended
  <2> QED
    BY <2>1, <2>2, <1>t DEF ActorsFit, DispatchTypeOK
<1> QED
  BY <1>2, <1>3, <1>4, CommandStep

LEMMA RemoveSubscriptionStep ==
    ASSUME IInv, NEW s \in Subscriptions, RemoveSubscription(s)
    PROVE  IInv' /\ Prompt
<1> DEFINE e == Event("removed", Watch[s].subscriber, s, 0)
<1>1. e \in Events /\ e.kind = "removed"
  BY DispatchAssumption DEF Event, Events, Kinds, Observable, Ended
<1> HIDE DEF e
<1>2. CommandGiven(<<e>>)
  <2>1. <<e>> \in Seq(Events) /\ \A i \in 1..Len(<<e>>) : <<e>>[i].kind \notin {"input", "notice"}
    BY <1>1, OneEvent
  <2> QED
    BY <2>1 DEF RemoveSubscription, CommandGiven, MayCommand, e
<1>t. DispatchTypeOK /\ InOrder(queue)
  BY DEF IInv, Ordered
<1>l. Len(log) \in Nat /\ Len(log') = Len(log) + 1
  BY <1>1, <1>2, <1>t, OneEvent, Committed DEF CommandGiven
<1>3. SubsFit
  <2>1. subs' = [subs EXCEPT ![s].status = "removed"] /\ active' = active
    BY DEF RemoveSubscription
  <2>2. subs \in [Subscriptions -> [status : Statuses, created : 0..Len(log)]]
    BY <1>t DEF DispatchTypeOK
  <2>3. \A r \in Subscriptions : subs'[r] = IF r = s THEN [subs[r] EXCEPT !.status = "removed"] ELSE subs[r]
    BY <2>1, <2>2
  <2>4. \A r \in Subscriptions : subs[r] \in [status : Statuses, created : 0..Len(log')]
    BY <2>2, <1>l
  <2>5. subs' \in [Subscriptions -> [status : Statuses, created : 0..Len(log')]]
    <3>1. [subs[s] EXCEPT !.status = "removed"] \in [status : Statuses, created : 0..Len(log')]
      BY <2>4 DEF Statuses
    <3> QED
      BY <3>1, <2>1, <2>2, <2>4
  <2>6. \A r \in Subscriptions : subs'[r].status = "active" => r # s
    BY <2>2, <2>3
  <2> QED
    BY <2>1, <2>3, <2>5, <2>6, <1>t DEF SubsFit, DispatchTypeOK
<1>4. ActorsFit(<<e>>)
  <2>1. active' = active /\ running' = running /\ recovering' = recovering
    BY DEF RemoveSubscription
  <2>2. \A i \in 1..Len(<<e>>) : <<e>>[i].kind \notin Ended
    BY <1>1, OneEvent DEF Ended
  <2> QED
    BY <2>1, <2>2, <1>t DEF ActorsFit, DispatchTypeOK
<1> QED
  BY <1>2, <1>3, <1>4, CommandStep

LEMMA ListedIn ==
    ASSUME NEW E, NEW S \in SUBSET E, IsFiniteSet(S)
    PROVE  SetToSeq(S) \in Seq(E) /\ \A i \in 1..Len(SetToSeq(S)) : SetToSeq(S)[i] \in S
<1>1. Cardinality(S) \in Nat /\ ExistsBijection(1..Cardinality(S), S)
  BY FS_CardinalityType
<1>2. PICK f \in Bijection(1..Cardinality(S), S) : TRUE
  BY <1>1 DEF ExistsBijection
<1>3. f \in [1..Cardinality(S) -> S] /\ IsInjective(f)
  BY <1>2 DEF Bijection, Injection, IsInjective
<1>4. SetToSeq(S) \in [1..Cardinality(S) -> S]
  BY <1>3 DEF SetToSeq
<1> QED
  BY <1>1, <1>4

LEMMA OrderOf ==
    ASSUME NEW S, IsFiniteSet(S), NEW order \in SetToSeqs(S)
    PROVE  order \in Seq(S) /\ \A x \in S : \E i \in 1..Len(order) : order[i] = x
<1>1. Cardinality(S) \in Nat
  BY FS_CardinalityType
<1>2. order \in [1..Cardinality(S) -> S] /\ IsInjective(order)
  BY DEF SetToSeqs, IsInjective
<1>3. order \in Seq(S) /\ Len(order) = Cardinality(S)
  BY <1>1, <1>2
<1>4. order \in Injection(1..Cardinality(S), S)
  BY <1>2 DEF Injection, IsInjective
<1>5. order \in Surjection(1..Cardinality(S), S)
  <2>1. IsFiniteSet(1..Cardinality(S)) /\ Cardinality(1..Cardinality(S)) = Cardinality(S)
    BY <1>1, FS_Interval
  <2> QED
    BY <2>1, <1>4, FS_Injection
<1> QED
  BY <1>3, <1>5 DEF Surjection

\* What an actor that is stopped commits: the end of its turn comes before the stop.
LEMMA StopEvents ==
    ASSUME NEW b \in Actors, DispatchTypeOK
    PROVE  /\ StopEventsOf(b) \in Seq(Events)
           /\ \E k \in 1..Len(StopEventsOf(b)) : StopEventsOf(b)[k] = Event("stopped", b, "none", 0)
           /\ \A j \in 1..Len(StopEventsOf(b)) :
                /\ StopEventsOf(b)[j].kind \in {"interrupted", "stopped", "removed"}
                /\ StopEventsOf(b)[j].actor = b
                /\ StopEventsOf(b)[j].kind = "interrupted" =>
                     b \in running /\ \E k \in 1..Len(StopEventsOf(b)) :
                         j < k /\ StopEventsOf(b)[k] = Event("stopped", b, "none", 0)
<1> DEFINE R == {Event("removed", b, s, 0) : s \in SubscriptionsOf(b)}
           first == IF b \in running THEN <<Event("interrupted", b, "none", 0)>> ELSE <<>>
           second == <<Event("stopped", b, "none", 0)>>
           third == SetToSeq(R)
<1>1. R \in SUBSET Events /\ IsFiniteSet(R)
  <2>1. SubscriptionsOf(b) \subseteq Subscriptions
    BY DEF SubscriptionsOf
  <2>2. IsFiniteSet(SubscriptionsOf(b))
    BY <2>1, DispatchAssumption, FS_Subset
  <2>3. \A s \in SubscriptionsOf(b) : Event("removed", b, s, 0) \in Events
    BY <2>1 DEF Event, Events, Kinds
  <2>4. R \in SUBSET Events
    BY <2>3
  <2>5. IsFiniteSet(R)
    <3>1. PICK f : f = [s \in SubscriptionsOf(b) |-> Event("removed", b, s, 0)]
      OBVIOUS
    <3>2. f \in Surjection(SubscriptionsOf(b), R)
      BY <3>1 DEF Surjection
    <3> QED
      BY <3>2, <2>2, FS_Surjection
  <2> QED
    BY <2>4, <2>5
<1>2. third \in Seq(Events) /\ \A i \in 1..Len(third) : third[i] \in R
  BY <1>1, ListedIn
<1>3. \A x \in R : x.kind = "removed" /\ x.actor = b
  BY DEF Event
<1>4. \A i \in 1..Len(third) : third[i].kind = "removed" /\ third[i].actor = b
  BY <1>2, <1>3
<1>5. StopEventsOf(b) = first \o second \o third
  BY DEF StopEventsOf
<1> DEFINE st == Event("stopped", b, "none", 0)
           it == Event("interrupted", b, "none", 0)
<1>6. st \in Events /\ it \in Events /\ st.kind = "stopped" /\ st.actor = b /\ it.kind = "interrupted" /\ it.actor = b
  BY DEF Event, Events, Kinds, Observable, Ended
<1>7. first = (IF b \in running THEN <<it>> ELSE <<>>) /\ second = <<st>>
  OBVIOUS
<1> HIDE DEF R, third, st, it, first, second
<1>8. CASE b \in running
  <2>1. StopEventsOf(b) = <<it>> \o <<st>> \o third
    BY <1>5, <1>7, <1>8
  <2> DEFINE q == <<it>> \o <<st>> \o third
  <2>2. q \in Seq(Events) /\ Len(q) = 2 + Len(third) /\ q[1] = it /\ q[2] = st
    BY <1>2, <1>6
  <2>3. \A j \in 1..Len(q) : j = 1 \/ j = 2 \/ (j - 2 \in 1..Len(third) /\ q[j] = third[j - 2])
    BY <1>2, <1>6
  <2>4. 1 \in 1..Len(q) /\ 2 \in 1..Len(q)
    BY <2>2, <1>2
  <2> HIDE DEF q
  <2>5. \A j \in 1..Len(q) : /\ q[j].kind \in {"interrupted", "stopped", "removed"} /\ q[j].actor = b
                             /\ q[j].kind = "interrupted" => j < 2
    BY <2>2, <2>3, <1>4, <1>6
  <2>6. StopEventsOf(b) = q
    BY <2>1 DEF q
  <2> QED
    BY <2>2, <2>4, <2>5, <2>6, <1>8 DEF st
<1>9. CASE b \notin running
  <2>1. StopEventsOf(b) = <<>> \o <<st>> \o third
    BY <1>5, <1>7, <1>9
  <2> DEFINE q == <<>> \o <<st>> \o third
  <2>2. q \in Seq(Events) /\ Len(q) = 1 + Len(third) /\ q[1] = st
    BY <1>2, <1>6
  <2>3. \A j \in 1..Len(q) : j = 1 \/ (j - 1 \in 1..Len(third) /\ q[j] = third[j - 1])
    BY <1>2, <1>6
  <2>4. 1 \in 1..Len(q)
    BY <2>2, <1>2
  <2> HIDE DEF q
  <2>5. \A j \in 1..Len(q) : q[j].kind \in {"stopped", "removed"} /\ q[j].actor = b
    BY <2>2, <2>3, <1>4, <1>6
  <2>6. StopEventsOf(b) = q
    BY <2>1 DEF q
  <2> QED
    BY <2>2, <2>4, <2>5, <2>6 DEF st
<1> QED
  BY <1>8, <1>9

LEMMA StopActorStep ==
    ASSUME IInv, NEW a \in Actors, StopActor(a)
    PROVE  IInv' /\ Prompt
<1>t. DispatchTypeOK /\ InOrder(queue)
  BY DEF IInv, Ordered
<1> DEFINE B == Below(a)
<1>1. a \in B /\ B \subseteq active /\ B \subseteq Actors /\ IsFiniteSet(B)
  <2>1. a \in Branch(a)
    BY DEF Branch
  <2>2. a \in active /\ active \subseteq Actors
    BY <1>t DEF StopActor, DispatchTypeOK
  <2>3. IsFiniteSet(active)
    BY <2>2, DispatchAssumption, FS_Subset
  <2> QED
    BY <2>1, <2>2, <2>3, FS_Subset DEF Below
<1>2. PICK order \in SetToSeqs(B) : Commit(FlattenSeq([i \in 1..Len(order) |-> StopEventsOf(order[i])]))
  BY DEF StopActor
<1>3. active' = active \ B /\ running' = running \ B /\ recovering' = {} /\ subs' = StoppedSubs(B)
  BY DEF StopActor, MayCommand
<1> HIDE DEF B
<1>4. order \in Seq(B) /\ \A x \in B : \E i \in 1..Len(order) : order[i] = x
  BY <1>1, <1>2, OrderOf
<1> DEFINE S == [i \in 1..Len(order) |-> StopEventsOf(order[i])]
           es == FlattenSeq(S)
<1>5. \A i \in 1..Len(order) : order[i] \in Actors /\ order[i] \in B
  BY <1>1, <1>4
<1>6. S \in Seq(Seq(Events)) /\ S # <<>> /\ Len(S) = Len(order) /\ \A i \in 1..Len(S) : S[i] = StopEventsOf(order[i])
  <2>1. \A i \in 1..Len(order) : StopEventsOf(order[i]) \in Seq(Events)
    BY <1>5, <1>t, StopEvents
  <2>2. Len(order) \in Nat /\ Len(order) # 0
    BY <1>1, <1>4
  <2> QED
    BY <2>1, <2>2
<1> HIDE DEF S
<1>7. es \in Seq(Events) /\ MadeOf(es, S, Len(S)) /\ Commit(es)
  BY <1>2, <1>6, Flattened DEF S
<1> HIDE DEF es
<1>8. ASSUME NEW b \in B
      PROVE  \E i \in 1..Len(es) : es[i].kind = "stopped" /\ es[i].actor = b
  <2>1. PICK i \in 1..Len(S) : S[i] = StopEventsOf(b)
    BY <1>4, <1>6
  <2>2. PICK o \in Nat : PartAt(S[i], es, o)
    BY <1>7 DEF MadeOf
  <2>3. PICK k \in 1..Len(S[i]) : S[i][k] = Event("stopped", b, "none", 0)
    BY <2>1, <1>1, <1>t, StopEvents
  <2>4. o + k \in 1..Len(es) /\ es[o + k] = Event("stopped", b, "none", 0)
    BY <2>2, <2>3 DEF PartAt
  <2> QED
    BY <2>4 DEF Event
<1>9. ASSUME NEW n \in 1..Len(es)
      PROVE  /\ es[n].kind \in {"interrupted", "stopped", "removed"}
             /\ es[n].kind = "interrupted" =>
                  /\ es[n].actor \in active
                  /\ \E j \in 1..Len(es) : n < j /\ es[j].kind = "stopped" /\ es[j].actor = es[n].actor
  <2>1. PICK i \in 1..Len(S), o \in Nat : PartAt(S[i], es, o) /\ \E j \in 1..Len(S[i]) : n = o + j
    BY <1>7 DEF MadeOf
  <2>2. PICK j \in 1..Len(S[i]) : n = o + j
    BY <2>1
  <2>3. PICK b \in B : S[i] = StopEventsOf(b)
    BY <1>5, <1>6
  <2>4. es[n] = S[i][j]
    BY <2>1, <2>2 DEF PartAt
  <2>5. /\ S[i][j].kind \in {"interrupted", "stopped", "removed"} /\ S[i][j].actor = b
        /\ S[i][j].kind = "interrupted" => \E k \in 1..Len(S[i]) : j < k /\ S[i][k] = Event("stopped", b, "none", 0)
    BY <2>3, <1>1, <1>t, StopEvents
  <2>6. ASSUME es[n].kind = "interrupted"
        PROVE  \E m \in 1..Len(es) : n < m /\ es[m].kind = "stopped" /\ es[m].actor = es[n].actor
    <3>1. PICK k \in 1..Len(S[i]) : j < k /\ S[i][k] = Event("stopped", b, "none", 0)
      BY <2>4, <2>5, <2>6
    <3>2. o + k \in 1..Len(es) /\ es[o + k] = Event("stopped", b, "none", 0)
      BY <2>1, <3>1 DEF PartAt
    <3>3. n < o + k
      BY <2>2, <3>1
    <3> QED
      BY <3>2, <3>3, <2>4, <2>5 DEF Event
  <2> QED
    BY <2>4, <2>5, <2>6, <1>1
<1>10. CommandGiven(es)
  <2>1. \A i \in 1..Len(es) : es[i].kind \notin {"input", "notice"}
    BY <1>9
  <2> QED
    BY <2>1, <1>7 DEF StopActor, CommandGiven, MayCommand
<1>11. SubsFit
  <2>l. Len(log) \in Nat /\ Len(es) \in Nat /\ Len(log') = Len(log) + Len(es)
    BY <1>7, <1>t, Committed
  <2>1. \A s \in Subscriptions : subs[s] \in [status : Statuses, created : 0..Len(log')]
    BY <2>l, <1>t DEF DispatchTypeOK
  <2>2. \A s \in Subscriptions : [subs[s] EXCEPT !.status = "removed"] \in [status : Statuses, created : 0..Len(log')]
    BY <2>1 DEF Statuses
  <2>3. subs' = [s \in Subscriptions |->
          IF Watch[s].subscriber \in B /\ subs[s].status = "active" THEN [subs[s] EXCEPT !.status = "removed"] ELSE subs[s]]
    BY <1>3 DEF StoppedSubs
  <2>4. subs' \in [Subscriptions -> [status : Statuses, created : 0..Len(log')]]
    BY <2>1, <2>2, <2>3
  <2>5. ASSUME NEW s \in Subscriptions, subs'[s].status = "active"
        PROVE  Watch[s].subscriber \in active' /\ subs'[s] = subs[s]
    <3>1. ~(Watch[s].subscriber \in B /\ subs[s].status = "active")
      BY <2>1, <2>3, <2>5
    <3>2. subs'[s] = subs[s]
      BY <3>1, <2>3
    <3> QED
      BY <3>1, <3>2, <2>5, <1>3, <1>t DEF DispatchTypeOK
  <2> QED
    BY <2>4, <2>5 DEF SubsFit
<1>12. ActorsFit(es)
  <2>1. active' \subseteq Actors /\ running' \subseteq active' /\ recovering' \subseteq running' /\ active' \ active = {}
    BY <1>3, <1>t DEF DispatchTypeOK
  <2>2. \A b \in active \ active' : \E i \in 1..Len(es) : es[i].kind = "stopped" /\ es[i].actor = b
    BY <1>3, <1>8
  <2>3. \A i \in 1..Len(es) : es[i].kind \in Ended => es[i].kind = "interrupted"
    BY <1>9 DEF Ended
  <2> QED
    BY <2>1, <2>2, <2>3, <1>9 DEF ActorsFit
<1> QED
  BY <1>10, <1>11, <1>12, CommandStep

-----------------------------------------------------------------------------
(* Steps that commit nothing *)

LEMMA SameLog ==
    ASSUME UNCHANGED <<log, active, subs>>
    PROVE  /\ Places' = Places /\ \A s : ToSubscription(s)' = ToSubscription(s)
           /\ \A s, n : Matches(s, n)' <=> Matches(s, n)
           /\ \A a, n : (SameSince(a, n)' <=> SameSince(a, n)) /\ (Learned(a, n)' <=> Learned(a, n))
           /\ StillActive' <=> StillActive
           /\ DeliveredAtMostOnce' <=> DeliveredAtMostOnce
<1>1. Places' = Places /\ \A s : ToSubscription(s)' = ToSubscription(s)
  BY DEF Places, ToSubscription
<1>2. \A s, n : Matches(s, n)' <=> Matches(s, n)
  BY DEF Matches
<1>3. \A a, n : (SameSince(a, n)' <=> SameSince(a, n)) /\ (Learned(a, n)' <=> Learned(a, n))
  BY DEF SameSince, Learned, Inputs, Places
<1>4. StillActive' <=> StillActive
  BY <1>1 DEF StillActive, SameSince
<1>5. DeliveredAtMostOnce' <=> DeliveredAtMostOnce
  BY <1>1 DEF DeliveredAtMostOnce
<1> QED
  BY <1>1, <1>2, <1>3, <1>4, <1>5

LEMMA KnownStays ==
    ASSUME Known, UNCHANGED <<log, commands, forks>>
    PROVE  Known'
BY DEF Known, Places, ToSubscription, Notice, Delivery

LEMMA TypesStay ==
    ASSUME DispatchTypeOK, UNCHANGED <<log, active, subs, lost>>,
           queue' \in Seq(Seq(Nat)), sources' \in Seq(Nat), unnoticed' \in Seq(Nat),
           running' \subseteq active, recovering' \subseteq running',
           targets' \subseteq Subscriptions, delivering' \in 0..Len(log), Pending' \subseteq Places,
           moving' \in BOOLEAN, {crashes', forks', moves'} \subseteq Nat
    PROVE  DispatchTypeOK'
<1>1. Places' = Places /\ Len(log') = Len(log)
  BY DEF Places
<1>2. Pending' \cup lost' \subseteq Places'
  BY <1>1 DEF DispatchTypeOK
<1> QED
  BY <1>1, <1>2 DEF DispatchTypeOK

LEMMA StartTurnStep ==
    ASSUME IInv, NEW a \in Actors, StartTurn(a)
    PROVE  IInv' /\ Prompt
<1>1. UNCHANGED <<log, active, subs, commands, queue, sources, delivering, targets, unnoticed, recovering, moving, lost, crashes, forks, moves>>
  BY DEF StartTurn, batchVars, boundVars
<1>2. running' = running \cup {a} /\ a \in active
  BY DEF StartTurn
<1>3. Queued' = Queued /\ Pending' = Pending
  BY <1>1 DEF Queued, Pending
<1>4. DispatchTypeOK'
  BY <1>1, <1>2, <1>3 DEF IInv, DispatchTypeOK, Places
<1>5. Ordered' /\ Uncaught'
  BY <1>1, <1>3 DEF IInv, Ordered, Uncaught
<1>6. Known' /\ StillActive'
  BY <1>1, KnownStays, SameLog DEF IInv
<1>7. Sequenced'
  <2>1. \A s \in Subscriptions : Behind(s) => Behind(s)'
    BY <1>1, <1>3, SameLog DEF Behind
  <2>2. DeliveredInOrder => DeliveredInOrder'
    BY <1>1, SameLog DEF DeliveredInOrder
  <2> QED
    BY <1>1, <2>1, <2>2, SameLog DEF IInv, Sequenced
<1>8. Reached'
  BY <1>1, <1>3, SameLog DEF IInv, Reached
<1>9. Told'
  BY <1>1, <1>3, SameLog DEF IInv, Told
<1>z. Prompt
  BY <1>1, NothingNew
<1> QED
  BY <1>z, <1>4, <1>5, <1>6, <1>7, <1>8, <1>9 DEF IInv

LEMMA TakeBatchStep ==
    ASSUME IInv, TakeBatch
    PROVE  IInv' /\ Prompt
<1>1. /\ UNCHANGED <<log, active, subs, lost>> /\ UNCHANGED <<running, commands, delivering, targets, recovering, moving>>
      /\ UNCHANGED <<crashes, forks, moves>>
  BY DEF TakeBatch, runVars, boundVars
<1>2. /\ delivering = 0 /\ sources = <<>> /\ unnoticed = <<>> /\ queue # <<>> /\ targets = {}
      /\ sources' = Head(queue) /\ unnoticed' = Head(queue) /\ queue' = Tail(queue)
  BY DEF TakeBatch, BetweenBatches, IInv, Ordered
<1>3. queue \in Seq(Seq(Nat)) /\ InOrder(queue)
  BY DEF IInv, DispatchTypeOK, Ordered
<1>4. /\ sources' \in Seq(Nat) /\ queue' \in Seq(Seq(Nat)) /\ Len(queue') = Len(queue) - 1
      /\ Queued = ToSet(sources') \cup Queued'
      /\ InOrder(queue') /\ Rising(sources') /\ \A x \in ToSet(sources'), y \in Queued' : x < y
  <2>1. Queued = QueuedIn(queue) /\ Queued' = QueuedIn(queue')
    BY DEF Queued, QueuedIn
  <2>2. /\ Head(queue) \in Seq(Nat) /\ Tail(queue) \in Seq(Seq(Nat)) /\ Len(Tail(queue)) = Len(queue) - 1
        /\ QueuedIn(queue) = ToSet(Head(queue)) \cup QueuedIn(Tail(queue))
        /\ InOrder(Tail(queue)) /\ Rising(Head(queue))
        /\ \A x \in ToSet(Head(queue)), y \in QueuedIn(Tail(queue)) : x < y
    BY <1>2, <1>3, FirstOfQueue
  <2> QED
    BY <2>1, <2>2, <1>2
<1>5. ToSet(sources) = {} /\ ToSet(unnoticed) = {} /\ ToSet(unnoticed') = ToSet(sources') /\ {delivering} \ {0} = {}
  BY <1>2, NoPlaces
<1>6. Pending = Queued /\ Pending' = Queued
  BY <1>1, <1>4, <1>5 DEF Pending
<1>7. DispatchTypeOK'
  BY <1>1, <1>2, <1>4, <1>6, TypesStay DEF IInv, DispatchTypeOK
<1>8. Ordered'
  BY <1>1, <1>2, <1>4, <1>5 DEF Ordered
<1>9. Known' /\ StillActive'
  BY <1>1, KnownStays, SameLog DEF IInv
<1>10. Sequenced'
  <2>1. \A s \in Subscriptions : Behind(s) => Behind(s)'
    BY <1>1, <1>2, <1>4, SameLog DEF Behind
  <2>2. DeliveredInOrder => DeliveredInOrder'
    BY <1>1, SameLog DEF DeliveredInOrder
  <2> QED
    BY <1>1, <2>1, <2>2, SameLog DEF IInv, Sequenced
<1>11. Reached'
  BY <1>1, <1>2, <1>4, <1>5, SameLog DEF IInv, Reached
<1>12. Told'
  BY <1>1, <1>2, <1>4, <1>5, SameLog DEF IInv, Told
<1>13. Uncaught'
  <2>1. ASSUME moving', unnoticed' # <<>> PROVE Queued' = {}
    <3>1. Len(queue') = 0
      BY <2>1, <1>1, <1>2, <1>4 DEF IInv, Uncaught
    <3> QED
      BY <3>1 DEF Queued
  <2>2. ASSUME moving', unnoticed' = <<>> PROVE FALSE
    BY <2>2, <1>1, <1>2 DEF IInv, Uncaught
  <2>3. ~moving' => Pending' \cap lost' = {}
    BY <1>1, <1>6 DEF IInv, Uncaught
  <2> QED
    BY <2>1, <2>2, <2>3 DEF Uncaught
<1>z. Prompt
  BY <1>1, NothingNew
<1> QED
  BY <1>z, <1>7, <1>8, <1>9, <1>10, <1>11, <1>12, <1>13 DEF IInv

LEMMA TakeSourceStep ==
    ASSUME IInv, TakeSource
    PROVE  IInv' /\ Prompt
<1>1. /\ UNCHANGED <<log, active, subs, lost>> /\ UNCHANGED <<running, commands, queue, unnoticed, recovering, moving>>
      /\ UNCHANGED <<crashes, forks, moves>>
  BY DEF TakeSource, runVars, boundVars
<1>2. PICK h : h = Head(sources)
  OBVIOUS
<1>3. /\ delivering = 0 /\ sources # <<>> /\ sources' = Tail(sources)
      /\ targets' = {s \in Subscriptions : Matches(s, h)} /\ delivering' = IF targets' = {} THEN 0 ELSE h
  BY <1>2 DEF TakeSource
<1>4. targets = {} /\ unnoticed # <<>> /\ Rising(sources) /\ sources \in Seq(Nat)
  BY <1>3 DEF IInv, Ordered, DispatchTypeOK
<1>5. /\ h \in Nat /\ sources' \in Seq(Nat) /\ ToSet(sources) = {h} \cup ToSet(sources')
      /\ Rising(sources') /\ \A x \in ToSet(sources') : h < x
  BY <1>2, <1>3, <1>4, FirstOfBatch
<1>6. Queued' = Queued
  BY <1>1 DEF Queued
<1>7. h \in Places /\ h # 0 /\ h \in 0..Len(log)
  <2>1. h \in Places
    BY <1>5 DEF IInv, DispatchTypeOK, Pending
  <2> QED
    BY <2>1 DEF Places
<1>8. Pending' \subseteq Pending
  BY <1>1, <1>3, <1>5, <1>6 DEF Pending
<1>9. DispatchTypeOK'
  <2>1. targets' \subseteq Subscriptions /\ delivering' \in 0..Len(log)
    BY <1>3, <1>7
  <2> QED
    BY <1>1, <1>5, <1>8, <2>1, TypesStay DEF IInv, DispatchTypeOK
<1>10. Ordered'
  <2>1. \A x \in ToSet(sources') \cup ToSet(unnoticed') \cup ({delivering'} \ {0}), y \in Queued' : x < y
    BY <1>1, <1>3, <1>5, <1>6 DEF IInv, Ordered
  <2>2. InOrder(queue') /\ Rising(sources') /\ Rising(unnoticed')
    BY <1>1, <1>5 DEF IInv, Ordered
  <2>3. delivering' # 0 => \A y \in ToSet(sources') : delivering' < y
    BY <1>3, <1>5
  <2>4. delivering' = 0 <=> targets' = {}
    BY <1>3, <1>7
  <2> QED
    BY <2>1, <2>2, <2>3, <2>4, <1>1, <1>4 DEF Ordered
<1>11. Known' /\ StillActive'
  BY <1>1, KnownStays, SameLog DEF IInv
<1>12. Sequenced'
  <2>1. \A s \in Subscriptions : Behind(s) => Behind(s)'
    <3>1. SUFFICES ASSUME NEW s \in Subscriptions, Behind(s), NEW m \in ToSubscription(s)
                   PROVE  /\ \A x \in ToSet(sources') \cup Queued : log[m].of < x
                          /\ delivering' # 0 => log[m].of <= delivering' /\ log[m].of < delivering'
      BY <1>1, <1>6, SameLog DEF Behind
    <3>2. \A x \in ToSet(sources) \cup Queued : log[m].of < x
      BY <3>1 DEF Behind
    <3>3. log[m].of < h /\ \A x \in ToSet(sources') \cup Queued : log[m].of < x
      BY <3>2, <1>5
    <3>4. log[m].of \in Nat
      BY <3>1 DEF IInv, Known, ToSubscription, Places
    <3> QED
      BY <3>3, <3>4, <1>3, <1>5
  <2>2. DeliveredInOrder => DeliveredInOrder'
    BY <1>1, SameLog DEF DeliveredInOrder
  <2> QED
    BY <1>1, <2>1, <2>2, SameLog DEF IInv, Sequenced
<1>13. Reached'
  <2> SUFFICES ASSUME NEW s \in Subscriptions, NEW n \in Places \ lost, Matches(s, n)
               PROVE  \/ \E m \in ToSubscription(s) : log[m].of = n
                      \/ n \in ToSet(sources') \cup Queued
                      \/ n = delivering' /\ s \in targets'
    BY <1>1, <1>6, SameLog DEF Reached
  <2>1. (\E m \in ToSubscription(s) : log[m].of = n) \/ n \in ToSet(sources) \cup Queued
    BY <1>4 DEF IInv, Reached
  <2>2. n = h => s \in targets' /\ delivering' = h
    BY <1>3
  <2> QED
    BY <2>1, <2>2, <1>5
<1>14. Told'
  BY <1>1, <1>6, SameLog DEF IInv, Told
<1>15. Uncaught'
  BY <1>1, <1>4, <1>6, <1>8 DEF IInv, Uncaught
<1>z. Prompt
  BY <1>1, NothingNew
<1> QED
  BY <1>z, <1>9, <1>10, <1>11, <1>12, <1>13, <1>14, <1>15 DEF IInv

\* The event the dispatch looks at for a notice comes before all that wait.
LEMMA FirstUnnoticed ==
    ASSUME IInv, delivering = 0, sources = <<>>, unnoticed # <<>>, NEW h, h = Head(unnoticed)
    PROVE  /\ h \in Places /\ h \in Nat /\ h # 0 /\ h \notin Queued /\ targets = {}
           /\ Tail(unnoticed) \in Seq(Nat) /\ Rising(Tail(unnoticed))
           /\ ToSet(unnoticed) = {h} \cup ToSet(Tail(unnoticed))
           /\ Pending = Queued \cup ToSet(unnoticed) /\ Pending \subseteq Places
<1>1. unnoticed \in Seq(Nat) /\ Rising(unnoticed) /\ targets = {} /\ Pending \subseteq Places
  BY DEF IInv, DispatchTypeOK, Ordered
<1>2. /\ h \in Nat /\ Tail(unnoticed) \in Seq(Nat) /\ ToSet(unnoticed) = {h} \cup ToSet(Tail(unnoticed))
      /\ Rising(Tail(unnoticed))
  BY <1>1, FirstOfBatch
<1>3. Pending = Queued \cup ToSet(unnoticed)
  BY NoPlaces DEF Pending
<1>4. h \in Places
  BY <1>1, <1>2, <1>3
<1>5. h \notin Queued
  <2>1. \A y \in Queued : h < y
    BY <1>2 DEF IInv, Ordered
  <2> QED
    BY <2>1, <1>2
<1> QED
  BY <1>1, <1>2, <1>3, <1>4, <1>5 DEF Places

LEMMA SkipEndStep ==
    ASSUME IInv, SkipEnd
    PROVE  IInv' /\ Prompt
<1>1. /\ UNCHANGED <<log, active, subs, lost>> /\ UNCHANGED <<running, commands, queue, sources, delivering, targets, recovering>>
      /\ UNCHANGED <<crashes, forks, moves>>
  BY DEF SkipEnd, runVars, boundVars
<1>2. PICK h : h = Head(unnoticed)
  OBVIOUS
<1>3. delivering = 0 /\ sources = <<>> /\ unnoticed # <<>> /\ ~Alerts(h) /\ unnoticed' = Tail(unnoticed)
  BY <1>2 DEF SkipEnd
<1>4. moving' = (moving /\ unnoticed' # <<>>)
  BY DEF SkipEnd
<1>5. /\ h \in Places /\ h \in Nat /\ h # 0 /\ h \notin Queued /\ targets = {}
      /\ unnoticed' \in Seq(Nat) /\ Rising(unnoticed')
      /\ ToSet(unnoticed) = {h} \cup ToSet(unnoticed')
      /\ Pending = Queued \cup ToSet(unnoticed) /\ Pending \subseteq Places
  BY <1>2, <1>3, FirstUnnoticed
<1>6. Queued' = Queued
  BY <1>1 DEF Queued
<1>7. Pending' = Queued \cup ToSet(unnoticed')
  BY <1>1, <1>3, <1>6, NoPlaces DEF Pending
<1>8. DispatchTypeOK'
  <2>1. moving' \in BOOLEAN
    BY <1>4, Zenon
  <2>2. Pending' \subseteq Places
    BY <1>5, <1>7
  <2> QED
    BY <1>1, <1>5, <2>1, <2>2, TypesStay DEF IInv, DispatchTypeOK
<1>9. Ordered'
  BY <1>1, <1>3, <1>5, <1>6 DEF IInv, Ordered
<1>10. Known' /\ StillActive'
  BY <1>1, KnownStays, SameLog DEF IInv
<1>11. Sequenced'
  <2>1. \A s \in Subscriptions : Behind(s) => Behind(s)'
    BY <1>1, <1>6, SameLog DEF Behind
  <2>2. DeliveredInOrder => DeliveredInOrder'
    BY <1>1, SameLog DEF DeliveredInOrder
  <2> QED
    BY <1>1, <2>1, <2>2, SameLog DEF IInv, Sequenced
<1>12. Reached'
  BY <1>1, <1>6, SameLog DEF IInv, Reached
<1>13. Told'
  <2> DEFINE c == Creator[log[h].actor]
  <2>1. ASSUME h \notin lost, log[h].kind \in Ended, c \in active, SameSince(log[h].actor, h)
        PROVE  Learned(c, h)
    <3>1. log[h].actor \in active
      BY <2>1, <1>5 DEF IInv, StillActive
    <3>2. DeliveredTo(c, h) \/ Notice(h) \in commands
      BY <2>1, <3>1, <1>3 DEF Alerts
    <3>3. CASE DeliveredTo(c, h)
      <4>1. PICK s \in Subscriptions : Watch[s].subscriber = c /\ Matches(s, h)
        BY <3>3 DEF DeliveredTo
      <4>2. PICK m \in ToSubscription(s) : log[m].of = h
        BY <4>1, <2>1, <1>3, <1>5, NoPlaces DEF IInv, Reached
      <4>3. m \in Places /\ log[m].kind = "input" /\ log[m].sub = s
        BY <4>2 DEF ToSubscription
      <4>4. log[m].actor = c
        BY <4>1, <4>3 DEF IInv, Known
      <4> QED
        BY <4>2, <4>3, <4>4 DEF Learned, Inputs
    <3>4. CASE Notice(h) \in commands
      <4>1. PICK m \in Places : log[m].kind = "notice" /\ log[m].actor = c /\ log[m].of = h
        BY <3>4, <1>5 DEF IInv, Known
      <4> QED
        BY <4>1 DEF Learned, Inputs
    <3> QED
      BY <3>2, <3>3, <3>4
  <2> SUFFICES ASSUME NEW n \in Places \ lost, log[n].kind \in Ended, Creator[log[n].actor] \in active,
                      SameSince(log[n].actor, n), SameSince(Creator[log[n].actor], n)
               PROVE  Learned(Creator[log[n].actor], n) \/ n \in ToSet(unnoticed') \cup Queued
    BY <1>1, <1>6, SameLog DEF Told
  <2>2. Learned(Creator[log[n].actor], n) \/ n \in ToSet(unnoticed) \cup Queued
    BY DEF IInv, Told
  <2>3. CASE n = h
    BY <2>1, <2>3
  <2> QED
    BY <2>2, <2>3, <1>5
<1>14. Uncaught'
  <2>1. moving' => moving /\ unnoticed' # <<>>
    BY <1>4
  <2>2. ASSUME ~moving' PROVE Pending' \cap lost' = {}
    <3>1. CASE ~moving
      BY <3>1, <1>1, <1>5, <1>7 DEF IInv, Uncaught
    <3>2. CASE moving /\ unnoticed' = <<>>
      BY <3>2, <1>1, <1>3, <1>7, NoPlaces DEF IInv, Uncaught
    <3> QED
      BY <3>1, <3>2, <2>2, <1>4
  <2> QED
    BY <2>1, <2>2, <1>1, <1>3, <1>6 DEF IInv, Uncaught
<1>z. Prompt
  BY <1>1, NothingNew
<1> QED
  BY <1>z, <1>8, <1>9, <1>10, <1>11, <1>12, <1>13, <1>14 DEF IInv

\* What a crash or a fork cuts off counts as lost.
LEMMA CutOff ==
    ASSUME IInv, UNCHANGED <<log, active, running, subs, moves>>, lost' = lost \cup Pending,
           queue' = <<>>, sources' = <<>>, unnoticed' = <<>>, delivering' = 0, targets' = {}, moving' = FALSE,
           recovering' \subseteq running, {crashes', forks'} \subseteq Nat,
           UNCHANGED <<commands, forks>> \/ (commands' = {} /\ forks' # 0)
    PROVE  IInv' /\ Prompt
<1>1. Queued' = {} /\ Pending' = {} /\ Places' = Places
  <2>1. Queued' = {}
    BY NoPlaces DEF Queued, QueuedIn
  <2> QED
    BY <2>1, NoPlaces DEF Pending, Places
<1>2. DispatchTypeOK'
  <2>1. Pending' \cup lost' \subseteq Places'
    BY <1>1 DEF IInv, DispatchTypeOK
  <2>2. moving' \in BOOLEAN /\ {crashes', forks', moves'} \subseteq Nat
    BY Zenon DEF IInv, DispatchTypeOK
  <2>3. queue' \in Seq(Seq(Nat)) /\ sources' \in Seq(Nat) /\ unnoticed' \in Seq(Nat)
    OBVIOUS
  <2>4. delivering' \in 0..Len(log') /\ targets' \subseteq Subscriptions
    BY DEF IInv, DispatchTypeOK
  <2>5. running' \subseteq active' /\ active' \subseteq Actors /\ recovering' \subseteq running'
    BY DEF IInv, DispatchTypeOK
  <2> QED
    BY <2>1, <2>2, <2>3, <2>4, <2>5 DEF IInv, DispatchTypeOK
<1>3. Ordered' /\ Uncaught'
  BY <1>1, NoPlaces DEF Ordered, Uncaught
<1>4. StillActive'
  BY SameLog DEF IInv
<1>5. Known'
  <2>1. CASE UNCHANGED <<commands, forks>>
    BY <2>1, KnownStays DEF IInv
  <2>2. CASE commands' = {} /\ forks' # 0
    <3>1. \A m \in Places : log[m].kind = "input" =>
            log[m].sub \in Subscriptions /\ log[m].actor = Watch[log[m].sub].subscriber /\ log[m].of \in Places
      BY DEF IInv, Known
    <3> QED
      BY <3>1, <2>2, <1>1 DEF Known
  <2> QED
    BY <2>1, <2>2
<1>6. Sequenced'
  <2>1. \A s \in Subscriptions : Behind(s)'
    BY <1>1, NoPlaces DEF Behind
  <2>2. DeliveredInOrder => DeliveredInOrder'
    BY SameLog DEF DeliveredInOrder
  <2> QED
    BY <2>1, <2>2, SameLog DEF IInv, Sequenced
<1>7. Reached'
  <2> SUFFICES ASSUME NEW s \in Subscriptions, NEW n \in Places \ (lost \cup Pending), Matches(s, n)
               PROVE  \E m \in ToSubscription(s) : log[m].of = n
    BY <1>1, SameLog DEF Reached
  <2>1. n \notin ToSet(sources) \cup Queued /\ n # delivering
    BY DEF Pending, Places
  <2> QED
    BY <2>1 DEF IInv, Reached
<1>8. Told'
  <2> SUFFICES ASSUME NEW n \in Places \ (lost \cup Pending), log[n].kind \in Ended, Creator[log[n].actor] \in active,
                      SameSince(log[n].actor, n), SameSince(Creator[log[n].actor], n)
               PROVE  Learned(Creator[log[n].actor], n)
    BY <1>1, SameLog DEF Told
  <2>1. n \notin ToSet(unnoticed) \cup Queued
    BY DEF Pending
  <2> QED
    BY <2>1 DEF IInv, Told
<1>z. Prompt
  BY NothingNew
<1> QED
  BY <1>z, <1>2, <1>3, <1>4, <1>5, <1>6, <1>7, <1>8 DEF IInv

LEMMA CrashStep ==
    ASSUME IInv, ServerCrash
    PROVE  IInv' /\ Prompt
<1>1. crashes \in Nat /\ forks \in Nat
  BY DEF IInv, DispatchTypeOK
<1>2. /\ UNCHANGED <<log, active, running, subs, moves>> /\ lost' = lost \cup Pending
      /\ queue' = <<>> /\ sources' = <<>> /\ unnoticed' = <<>> /\ delivering' = 0 /\ targets' = {}
  BY DEF ServerCrash, runVars
<1>3. recovering' \subseteq running /\ UNCHANGED <<commands, forks>>
  BY <1>1 DEF ServerCrash, runVars
<1>4. {crashes', forks'} \subseteq Nat
  BY <1>1 DEF ServerCrash
<1>5. moving' = FALSE
  BY DEF ServerCrash
<1> QED
  BY <1>2, <1>3, <1>4, <1>5, CutOff, Zenon

LEMMA ForkStep ==
    ASSUME IInv, Fork
    PROVE  IInv' /\ Prompt
<1>1. crashes \in Nat /\ forks \in Nat /\ recovering \subseteq running
  BY DEF IInv, DispatchTypeOK
<1>2. /\ UNCHANGED <<log, active, running, subs, moves>> /\ lost' = lost \cup Pending
      /\ queue' = <<>> /\ sources' = <<>> /\ unnoticed' = <<>> /\ delivering' = 0 /\ targets' = {}
  BY DEF Fork, runVars
<1>3. recovering' \subseteq running /\ commands' = {} /\ forks' # 0
  BY <1>1 DEF Fork, runVars
<1>4. {crashes', forks'} \subseteq Nat
  BY <1>1 DEF Fork
<1>5. moving' = FALSE
  BY DEF Fork
<1> QED
  BY <1>2, <1>3, <1>4, <1>5, CutOff, Zenon

LEMMA MoveStep ==
    ASSUME IInv, Move
    PROVE  IInv' /\ Prompt
<1>1. /\ UNCHANGED <<log, active, subs, lost>> /\ UNCHANGED <<running, commands, sources, delivering, targets, unnoticed, recovering>>
      /\ UNCHANGED <<crashes, forks>> /\ moves' = moves + 1 /\ moving' = TRUE
  BY DEF Move, runVars, batchVars
<1>2. /\ sources = <<>> /\ unnoticed = <<>> /\ delivering = 0 /\ targets = {} /\ log # <<>>
  BY DEF Move, IdleRun, MayCommand, Quiet, BetweenBatches, IInv, Ordered
<1>3. PICK b : b = [i \in 1..Len(log) |-> i]
  OBVIOUS
<1>4. log \in Seq(Events) /\ Len(log) \in Nat /\ Len(log) # 0
  BY <1>2 DEF IInv, DispatchTypeOK
<1>5. b \in Seq(Nat) /\ Rising(b) /\ ToSet(b) = Places /\ b # <<>>
  BY <1>3, <1>4 DEF Rising, ToSet, Places
<1>6. queue' = <<b>>
  BY <1>3 DEF Move
<1>7. queue' \in Seq(Seq(Nat)) /\ Len(queue') = 1 /\ Head(queue') = b /\ queue'[1] = b /\ \A i \in 1..Len(queue') : i = 1
  BY <1>5, <1>6
<1>8. Queued' = Places
  BY <1>5, <1>7 DEF Queued
<1>9. Pending' = Places
  BY <1>1, <1>2, <1>8, NoPlaces DEF Pending
<1>10. DispatchTypeOK'
  <2>1. {crashes', forks', moves'} \subseteq Nat
    BY <1>1 DEF IInv, DispatchTypeOK
  <2>2. moving' \in BOOLEAN
    BY <1>1, Zenon
  <2> QED
    BY <1>1, <1>7, <1>9, <2>1, <2>2, TypesStay DEF IInv, DispatchTypeOK
<1>11. Ordered'
  <2>1. InOrder(queue')
    BY <1>5, <1>7 DEF InOrder
  <2> QED
    BY <2>1, <1>1, <1>2, NoPlaces DEF Ordered
<1>12. Known' /\ StillActive'
  BY <1>1, KnownStays, SameLog DEF IInv
<1>13. Sequenced'
  <2>1. moves' # 0
    BY <1>1 DEF IInv, DispatchTypeOK
  <2> QED
    BY <2>1, <1>1, SameLog DEF IInv, Sequenced
<1>14. Reached' /\ Told'
  BY <1>1, <1>8, SameLog DEF Reached, Told
<1>15. Uncaught'
  BY <1>1, <1>2, <1>5, <1>7 DEF Uncaught
<1>z. Prompt
  BY <1>1, NothingNew
<1> QED
  BY <1>z, <1>10, <1>11, <1>12, <1>13, <1>14, <1>15 DEF IInv

-----------------------------------------------------------------------------
(* What the dispatch delivers *)

\* A subscription is done with the event that is delivered.
LEMMA Handled ==
    ASSUME IInv, NEW s \in targets, Delivered(s)
    PROVE  /\ s \in Subscriptions /\ delivering # 0 /\ delivering \in Places /\ delivering \in Nat /\ unnoticed # <<>>
           /\ UNCHANGED <<active, running, sources, unnoticed, recovering, moving, lost, crashes, forks, moves>>
           /\ targets' = targets \ {s} /\ delivering' \in {0, delivering} /\ (delivering' = 0 <=> targets' = {})
           /\ \A y \in ToSet(sources) \cup Queued : delivering < y
           /\ ToSet(sources) \cup ToSet(unnoticed) \cup ({delivering'} \ {0}) \subseteq ToSet(sources) \cup ToSet(unnoticed) \cup ({delivering} \ {0})
<1>1. targets # {} /\ targets \subseteq Subscriptions /\ delivering \in 0..Len(log) /\ Pending \subseteq Places
  BY DEF IInv, DispatchTypeOK
<1>2. delivering # 0 /\ unnoticed # <<>>
  BY <1>1 DEF IInv, Ordered
<1>3. \A y \in ToSet(sources) \cup Queued : delivering < y
  BY <1>2 DEF IInv, Ordered
<1>4. targets' = targets \ {s} /\ delivering' \in {0, delivering} /\ (delivering' = 0 <=> targets' = {})
  BY <1>2 DEF Delivered
<1>5. UNCHANGED <<active, running, sources, unnoticed, recovering, moving, lost, crashes, forks, moves>>
  BY DEF Delivered, boundVars
<1>6. delivering \in Places /\ delivering \in Nat
  BY <1>1, <1>2 DEF Places
<1> QED
  BY <1>1, <1>2, <1>3, <1>4, <1>5, <1>6

LEMMA DeliveredBeforeStep ==
    ASSUME IInv, NEW s \in Subscriptions, DeliveredBefore(s)
    PROVE  IInv' /\ Prompt
<1>1. s \in targets /\ Delivery(s, delivering) \in commands /\ Delivered(s) /\ UNCHANGED <<log, subs, commands, queue>>
  BY DEF DeliveredBefore
<1>2. /\ s \in Subscriptions /\ delivering # 0 /\ delivering \in Places /\ delivering \in Nat /\ unnoticed # <<>>
      /\ UNCHANGED <<active, running, sources, unnoticed, recovering, moving, lost, crashes, forks, moves>>
      /\ targets' = targets \ {s} /\ delivering' \in {0, delivering} /\ (delivering' = 0 <=> targets' = {})
      /\ \A y \in ToSet(sources) \cup Queued : delivering < y
      /\ ToSet(sources) \cup ToSet(unnoticed) \cup ({delivering'} \ {0}) \subseteq ToSet(sources) \cup ToSet(unnoticed) \cup ({delivering} \ {0})
  BY <1>1, Handled
<1>3. UNCHANGED <<log, active, subs>> /\ Queued' = Queued
  BY <1>1, <1>2 DEF Queued
<1>4. Pending' \subseteq Pending
  BY <1>2, <1>3 DEF Pending
<1>5. DispatchTypeOK'
  <2>1. /\ DispatchTypeOK /\ Pending \subseteq Places /\ targets \subseteq Subscriptions /\ delivering \in 0..Len(log)
        /\ queue \in Seq(Seq(Nat)) /\ sources \in Seq(Nat) /\ unnoticed \in Seq(Nat)
        /\ running \subseteq active /\ recovering \subseteq running /\ {crashes, forks, moves} \subseteq Nat
    BY DEF IInv, DispatchTypeOK
  <2>2. moving' \in BOOLEAN
    BY <1>2, Zenon DEF IInv, DispatchTypeOK
  <2>3. targets' \subseteq Subscriptions /\ delivering' \in 0..Len(log) /\ Pending' \subseteq Places
    BY <2>1, <1>2, <1>4
  <2>4. /\ queue' \in Seq(Seq(Nat)) /\ sources' \in Seq(Nat) /\ unnoticed' \in Seq(Nat)
        /\ running' \subseteq active /\ recovering' \subseteq running' /\ {crashes', forks', moves'} \subseteq Nat
    BY <2>1, <1>1, <1>2
  <2> QED
    BY <2>1, <2>2, <2>3, <2>4, <1>2, <1>3, TypesStay
<1>6. Ordered'
  <2>1. delivering' # 0 => \A y \in ToSet(sources') : delivering' < y
    BY <1>2
  <2>2. \A x \in ToSet(sources') \cup ToSet(unnoticed') \cup ({delivering'} \ {0}), y \in Queued' : x < y
    BY <1>2, <1>3 DEF IInv, Ordered
  <2>3. InOrder(queue') /\ Rising(sources') /\ Rising(unnoticed')
    BY <1>1, <1>2 DEF IInv, Ordered
  <2> QED
    BY <2>1, <2>2, <2>3, <1>2 DEF Ordered
<1>7. Known' /\ StillActive'
  BY <1>1, <1>2, KnownStays, SameLog DEF IInv
<1>8. Sequenced'
  <2>1. \A r \in Subscriptions : Behind(r) => Behind(r)'
    BY <1>2, <1>3, SameLog DEF Behind
  <2>2. DeliveredInOrder => DeliveredInOrder'
    BY <1>1, <1>2, SameLog DEF DeliveredInOrder
  <2> QED
    BY <1>2, <1>3, <2>1, <2>2, SameLog DEF IInv, Sequenced
<1>9. Reached'
  <2> SUFFICES ASSUME NEW r \in Subscriptions, NEW n \in Places \ lost, Matches(r, n)
               PROVE  \/ \E m \in ToSubscription(r) : log[m].of = n
                      \/ n \in ToSet(sources) \cup Queued
                      \/ n = delivering' /\ r \in targets'
    <3>1. sources' = sources /\ lost' = lost /\ log' = log
      BY <1>2, <1>3
    <3> QED
      BY <3>1, <1>3, SameLog DEF Reached
  <2>1. CASE n = delivering /\ r = s
    <3>1. Delivery(r, n) \in commands /\ n \in Nat
      BY <2>1, <1>1, <1>2
    <3>2. \E m \in ToSubscription(r) : log[m].of = n
      BY <3>1 DEF IInv, Known
    <3> QED
      BY <3>2
  <2>2. CASE n = delivering /\ r # s /\ r \in targets
    BY <2>2, <1>2
  <2>3. CASE ~(n = delivering /\ r \in targets)
    BY <2>3 DEF IInv, Reached
  <2> QED
    BY <2>1, <2>2, <2>3
<1>10. Told'
  BY <1>2, <1>3, SameLog DEF IInv, Told
<1>11. Uncaught'
  BY <1>2, <1>3, <1>4 DEF IInv, Uncaught
<1>z. Prompt
  BY <1>1, NothingNew
<1> QED
  BY <1>z, <1>5, <1>6, <1>7, <1>8, <1>9, <1>10, <1>11 DEF IInv

\* The dispatch commits one event e.
Reacts(e) ==
    /\ e \in Events /\ e.kind \in {"input", "failedSubscription", "notice"} /\ Commit(<<e>>)
    /\ UNCHANGED <<active, running, sources, recovering, lost, crashes, forks, moves>>

LEMMA Reaction ==
    ASSUME IInv, NEW e, Reacts(e)
    PROVE  /\ Len(log) \in Nat /\ Len(log') = Len(log) + 1 /\ log' \in Seq(Events)
           /\ Places' = Places \cup {Len(log) + 1} /\ Len(log) + 1 \notin Places
           /\ log'[Len(log) + 1] = e /\ \A n \in Places : log'[n] = log[n] /\ n < Len(log) + 1
           /\ queue' \in Seq(Seq(Nat)) /\ InOrder(queue') /\ Queued' = Queued \cup {Len(log) + 1}
           /\ StillActive'
           /\ (/\ unnoticed \in Seq(Nat)
               /\ \A n \in ToSet(unnoticed) : n \in ToSet(unnoticed') \/
                    \E m \in Places' : log'[m].kind \in {"input", "notice"} /\ log'[m].actor = Creator[log[n].actor] /\ log'[m].of = n)
              => Told'
<1>e. /\ e \in Events /\ e.kind \in {"input", "failedSubscription", "notice"} /\ Commit(<<e>>)
      /\ UNCHANGED <<active, running, sources, recovering, lost, crashes, forks, moves>>
  BY DEF Reacts
<1>t. DispatchTypeOK /\ InOrder(queue)
  BY DEF IInv, Ordered
<1> DEFINE l == Len(log) + 1
           es == <<e>>
<1>1. es \in Seq(Events) /\ Len(es) = 1 /\ es[1] = e
  BY <1>e
<1> HIDE DEF es
<1>2. Commit(es)
  BY <1>e DEF es
<1>3. /\ log' \in Seq(Events) /\ Len(log') = Len(log) + Len(es) /\ Len(log) \in Nat
      /\ \A n \in Places : n \in Places' /\ log'[n] = log[n]
      /\ \A i \in 1..Len(es) : Len(log) + i \in Places' \ Places /\ log'[Len(log) + i] = es[i]
      /\ queue' \in Seq(Seq(Nat)) /\ InOrder(queue') /\ Len(queue') = Len(queue) + 1
      /\ Queued' = Queued \cup (Places' \ Places)
  BY <1>1, <1>2, <1>t, Committed
<1>4. Len(log') = l /\ Places' = Places \cup {l} /\ l \notin Places /\ \A n \in Places : n < l
  BY <1>1, <1>3 DEF Places
<1>5. log'[l] = e
  BY <1>1, <1>3
<1>6. Queued' = Queued \cup {l}
  BY <1>3, <1>4
<1>7. /\ \A a, n : n \in Places /\ SameSince(a, n)' => SameSince(a, n)
      /\ \A c, n : Learned(c, n) => Learned(c, n)'
  BY <1>1, <1>2, <1>t, OldPlaces
<1>8. StillActive'
  <2>1. ASSUME NEW n \in Places', log'[n].kind \in Ended, SameSince(log[n].actor, n)'
        PROVE  log'[n].actor \in active'
    <3>1. n \in Places
      BY <2>1, <1>e, <1>4, <1>5 DEF Ended
    <3>2. PICK a : a = log[n].actor
      OBVIOUS
    <3>3. log'[n] = log[n] /\ log'[n].actor = a
      BY <3>1, <3>2, <1>3
    <3>4. SameSince(a, n)'
      BY <2>1, <3>3 DEF SameSince
    <3>5. SameSince(a, n)
      BY <3>1, <3>4, <1>7
    <3> QED
      BY <2>1, <3>1, <3>2, <3>3, <3>5, <1>e DEF IInv, StillActive
  <2> QED
    BY <2>1 DEF StillActive
<1>9. ASSUME unnoticed \in Seq(Nat),
             \A n \in ToSet(unnoticed) : n \in ToSet(unnoticed') \/
                 \E m \in Places' : log'[m].kind \in {"input", "notice"} /\ log'[m].actor = Creator[log[n].actor] /\ log'[m].of = n
      PROVE  Told'
  <2>1. ASSUME NEW n \in Places' \ lost', log'[n].kind \in Ended, Creator[log'[n].actor] \in active',
               SameSince(log[n].actor, n)', SameSince(Creator[log[n].actor], n)', n \notin ToSet(unnoticed') \cup Queued'
        PROVE  Learned(Creator[log[n].actor], n)'
    <3>1. n \in Places /\ log'[n] = log[n] /\ n \notin lost
      BY <2>1, <1>e, <1>3, <1>4, <1>6
    <3>2. PICK a, c : a = log[n].actor /\ c = Creator[a]
      OBVIOUS
    <3>a. log'[n].actor = a
      BY <3>1, <3>2
    <3>3. SameSince(a, n)' /\ SameSince(c, n)' /\ c \in active /\ log[n].kind \in Ended
      BY <2>1, <3>1, <3>2, <3>a, <1>e DEF SameSince
    <3>5. SameSince(a, n) /\ SameSince(c, n)
      BY <3>1, <3>3, <1>7
    <3>6. Learned(c, n) \/ n \in ToSet(unnoticed)
      BY <2>1, <3>1, <3>2, <3>3, <3>5, <1>6 DEF IInv, Told
    <3>7. Learned(c, n)'
      <4>1. CASE Learned(c, n)
        BY <4>1, <1>7
      <4>2. CASE n \in ToSet(unnoticed)
        <5>1. \E m \in Places' : log'[m].kind \in {"input", "notice"} /\ log'[m].actor = c /\ log'[m].of = n
          BY <4>2, <2>1, <3>2, <1>9
        <5> QED
          BY <5>1 DEF Learned, Inputs
      <4> QED
        BY <3>6, <4>1, <4>2
    <3> QED
      BY <3>2, <3>a, <3>7 DEF Learned
  <2> QED
    BY <2>1 DEF Told
<1> QED
  BY <1>3, <1>4, <1>5, <1>6, <1>8, <1>9

LEMMA OtherNames ==
    ASSUME NEW s, NEW n, NEW m
    PROVE  Notice(n) # Delivery(s, m)
<1>1. Len(Notice(n)) = 2 /\ Len(Delivery(s, m)) = 3
  BY DEF Notice, Delivery
<1> QED
  BY <1>1

\* An input or the failure of a subscription.
LEMMA Answered ==
    ASSUME IInv, NEW s \in targets, Delivered(s), Delivery(s, delivering) \notin commands,
           NEW e, Reacts(e), e.sub = s, e.of = delivering, e.actor = Watch[s].subscriber, subs[s].status = "active",
           \/ e.kind = "input" /\ commands' = commands \cup {Delivery(s, delivering)} /\ UNCHANGED subs
           \/ e.kind = "failedSubscription" /\ UNCHANGED commands /\ subs' = [subs EXCEPT ![s].status = "failed"]
    PROVE  IInv' /\ Prompt
<1> DEFINE l == Len(log) + 1
<1>1. /\ s \in Subscriptions /\ delivering # 0 /\ delivering \in Places /\ delivering \in Nat /\ unnoticed # <<>>
      /\ UNCHANGED <<active, running, sources, unnoticed, recovering, moving, lost, crashes, forks, moves>>
      /\ targets' = targets \ {s} /\ delivering' \in {0, delivering} /\ (delivering' = 0 <=> targets' = {})
      /\ \A y \in ToSet(sources) \cup Queued : delivering < y
      /\ ToSet(sources) \cup ToSet(unnoticed) \cup ({delivering'} \ {0}) \subseteq ToSet(sources) \cup ToSet(unnoticed) \cup ({delivering} \ {0})
  BY Handled
<1>2. /\ Len(log) \in Nat /\ Len(log') = l /\ log' \in Seq(Events)
      /\ Places' = Places \cup {l} /\ l \notin Places
      /\ log'[l] = e /\ \A n \in Places : log'[n] = log[n] /\ n < l
      /\ queue' \in Seq(Seq(Nat)) /\ InOrder(queue') /\ Queued' = Queued \cup {l}
      /\ StillActive'
  BY Reaction
<1> HIDE DEF l
<1>3. Told'
  <2>1. unnoticed \in Seq(Nat) /\ unnoticed' = unnoticed
    BY <1>1 DEF IInv, DispatchTypeOK
  <2> QED
    BY <2>1, Reaction
<1>4. Pending \subseteq Places /\ lost \subseteq Places /\ Pending' \subseteq Pending \cup {l}
  <2>1. Pending' \subseteq Pending \cup {l}
    BY <1>1, <1>2 DEF Pending
  <2> QED
    BY <2>1 DEF IInv, DispatchTypeOK
<1>5. /\ \A r \in Subscriptions : subs[r] \in [status : Statuses, created : 0..Len(log')]
      /\ subs \in [Subscriptions -> [status : Statuses, created : 0..Len(log)]]
  <2>1. subs \in [Subscriptions -> [status : Statuses, created : 0..Len(log)]]
    BY DEF IInv, DispatchTypeOK
  <2>2. 0..Len(log) \subseteq 0..Len(log')
    BY <1>2 DEF l
  <2> QED
    BY <2>1, <2>2
<1>6. /\ subs' \in [Subscriptions -> [status : Statuses, created : 0..Len(log')]]
      /\ \A r \in Subscriptions : subs'[r].status = "active" => subs'[r] = subs[r]
  <2>1. CASE UNCHANGED subs
    <3>1. subs = [r \in Subscriptions |-> subs[r]]
      BY <1>5
    <3> QED
      BY <2>1, <3>1, <1>5
  <2>2. CASE subs' = [subs EXCEPT ![s].status = "failed"]
    <3>1. \A r \in Subscriptions : subs'[r] = IF r = s THEN [subs[r] EXCEPT !.status = "failed"] ELSE subs[r]
      BY <2>2, <1>5
    <3>2. [subs[s] EXCEPT !.status = "failed"] \in [status : Statuses, created : 0..Len(log')]
      BY <1>1, <1>5 DEF Statuses
    <3>3. [subs[s] EXCEPT !.status = "failed"].status # "active"
      BY <1>1, <1>5
    <3>4. subs' = [r \in Subscriptions |-> subs'[r]]
      BY <2>2, <1>5
    <3> QED
      BY <3>1, <3>2, <3>3, <3>4, <1>5
  <2> QED
    BY <2>1, <2>2
<1>7. DispatchTypeOK'
  <2>1. Pending' \cup lost' \subseteq Places'
    BY <1>1, <1>2, <1>4
  <2>2. moving' \in BOOLEAN
    BY <1>1, Zenon DEF IInv, DispatchTypeOK
  <2>3. {crashes', forks', moves'} \subseteq Nat
    BY <1>1 DEF IInv, DispatchTypeOK
  <2>4. sources' \in Seq(Nat) /\ unnoticed' \in Seq(Nat)
    BY <1>1 DEF IInv, DispatchTypeOK
  <2>5. targets' \subseteq Subscriptions /\ delivering' \in 0..Len(log')
    <3>1. targets \subseteq Subscriptions /\ delivering \in 0..Len(log)
      BY DEF IInv, DispatchTypeOK
    <3> QED
      BY <3>1, <1>1, <1>2 DEF l
  <2>6. running' \subseteq active' /\ active' \subseteq Actors /\ recovering' \subseteq running'
    BY <1>1 DEF IInv, DispatchTypeOK
  <2>7. \A r \in Subscriptions : subs'[r].status = "active" => Watch[r].subscriber \in active'
    BY <1>1, <1>6 DEF IInv, DispatchTypeOK
  <2> QED
    BY <2>1, <2>2, <2>3, <2>4, <2>5, <2>6, <2>7, <1>2, <1>6 DEF DispatchTypeOK
<1>8. Ordered'
  <2>1. delivering' # 0 => \A y \in ToSet(sources') : delivering' < y
    BY <1>1
  <2>2. \A x \in ToSet(sources') \cup ToSet(unnoticed') \cup ({delivering'} \ {0}), y \in Queued' : x < y
    <3>1. SUFFICES ASSUME NEW x \in ToSet(sources) \cup ToSet(unnoticed) \cup ({delivering} \ {0}), NEW y \in Queued \cup {l} PROVE x < y
      BY <1>1, <1>2
    <3>2. x \in Places
      BY <1>4 DEF Pending
    <3>3. y \in Queued => x < y
      BY <3>1 DEF IInv, Ordered
    <3> QED
      BY <3>2, <3>3, <1>2
  <2>3. Rising(sources') /\ Rising(unnoticed')
    BY <1>1 DEF IInv, Ordered
  <2> QED
    BY <2>1, <2>2, <2>3, <1>1, <1>2 DEF Ordered
<1>9. /\ \A r : ToSubscription(r)' \subseteq ToSubscription(r) \cup {l}
      /\ \A r : ToSubscription(r) \subseteq ToSubscription(r)'
      /\ \A r : l \in ToSubscription(r)' => r = s /\ e.kind = "input"
      /\ e.kind = "input" => l \in ToSubscription(s)'
      /\ \A r : \A m \in ToSubscription(r) : m \in Places /\ log'[m] = log[m] /\ m < l
  BY <1>2 DEF ToSubscription
<1>10. \A r \in Subscriptions : \A m \in ToSubscription(r) : log[m].of \in Places
  BY DEF IInv, Known, ToSubscription
<1>11. Known'
  <2>1. ASSUME NEW m \in Places', log'[m].kind = "input"
        PROVE  /\ log'[m].sub \in Subscriptions /\ log'[m].actor = Watch[log'[m].sub].subscriber /\ log'[m].of \in Places'
               /\ forks' = 0 => Delivery(log'[m].sub, log'[m].of) \in commands'
    <3>1. CASE m \in Places
      <4>1. log'[m] = log[m]
        BY <3>1, <1>2
      <4>2. /\ log[m].sub \in Subscriptions /\ log[m].actor = Watch[log[m].sub].subscriber /\ log[m].of \in Places
            /\ forks = 0 => Delivery(log[m].sub, log[m].of) \in commands
        BY <3>1, <4>1, <2>1 DEF IInv, Known
      <4>3. commands \subseteq commands'
        OBVIOUS
      <4> QED
        BY <4>1, <4>2, <4>3, <1>1, <1>2
    <3>2. CASE m = l
      BY <3>2, <2>1, <1>1, <1>2
    <3> QED
      BY <3>1, <3>2, <1>2
  <2>2. ASSUME NEW r \in Subscriptions, NEW n \in Nat, Delivery(r, n) \in commands'
        PROVE  \E m \in ToSubscription(r)' : log'[m].of = n
    <3>1. CASE Delivery(r, n) \in commands
      <4>1. \E m \in ToSubscription(r) : log[m].of = n
        BY <3>1 DEF IInv, Known
      <4> QED
        BY <4>1, <1>9
    <3>2. CASE Delivery(r, n) \notin commands
      <4>1. e.kind = "input" /\ Delivery(r, n) = Delivery(s, delivering)
        BY <3>2, <2>2
      <4>2. r = s /\ n = delivering
        BY <4>1 DEF Delivery
      <4> QED
        BY <4>1, <4>2, <1>2, <1>9
    <3> QED
      BY <3>1, <3>2
  <2>3. ASSUME NEW n \in Nat, Notice(n) \in commands'
        PROVE  n \in Places' /\ \E m \in Places' : log'[m].kind = "notice" /\ log'[m].actor = Creator[log'[n].actor] /\ log'[m].of = n
    <3>1. Notice(n) \in commands
      BY <2>3, OtherNames
    <3>2. n \in Places /\ \E m \in Places : log[m].kind = "notice" /\ log[m].actor = Creator[log[n].actor] /\ log[m].of = n
      BY <3>1 DEF IInv, Known
    <3> QED
      BY <3>2, <1>2
  <2> QED
    BY <2>1, <2>2, <2>3 DEF Known, Delivery, Notice
<1>12. Sequenced'
  <2>1. ASSUME forks = 0 PROVE DeliveredAtMostOnce'
    <3>1. DeliveredAtMostOnce
      BY <2>1 DEF IInv, Sequenced
    <3>2. \A m \in ToSubscription(s) : log[m].of # delivering
      BY <2>1 DEF IInv, Known, ToSubscription
    <3>3. \A r \in Subscriptions : \A m \in ToSubscription(r)' : m \in ToSubscription(r) \/ (m = l /\ r = s)
      BY <1>9
    <3>4. ASSUME NEW r \in Subscriptions, NEW m \in ToSubscription(r)', NEW n \in ToSubscription(r)', log'[m].of = log'[n].of
          PROVE  m = n
      <4>1. CASE m \in ToSubscription(r) /\ n \in ToSubscription(r)
        BY <4>1, <3>1, <3>4, <1>9 DEF DeliveredAtMostOnce
      <4>2. CASE m \in ToSubscription(r) /\ n \notin ToSubscription(r)
        BY <4>2, <3>2, <3>3, <3>4, <1>2, <1>9
      <4>3. CASE m \notin ToSubscription(r) /\ n \in ToSubscription(r)
        BY <4>3, <3>2, <3>3, <3>4, <1>2, <1>9
      <4>4. CASE m \notin ToSubscription(r) /\ n \notin ToSubscription(r)
        BY <4>4, <3>3
      <4> QED
        BY <4>1, <4>2, <4>3, <4>4
    <3> QED
      BY <3>4 DEF DeliveredAtMostOnce
  <2>2. ASSUME moves = 0 PROVE DeliveredInOrder' /\ \A r \in Subscriptions : Behind(r)'
    <3>1. /\ \A r \in Subscriptions : \A m, n \in ToSubscription(r) : m < n => log[m].of < log[n].of
          /\ \A r \in Subscriptions : Behind(r)
      BY <2>2 DEF IInv, Sequenced, DeliveredInOrder
    <3>2. \A m \in ToSubscription(s) : log[m].of < delivering
      BY <3>1, <1>1 DEF Behind
    <3>3. ASSUME NEW r \in Subscriptions, NEW m \in ToSubscription(r)', NEW n \in ToSubscription(r)', m < n
          PROVE  log'[m].of < log'[n].of
      <4>1. m \in ToSubscription(r)
        <5>1. n \in Places' /\ l \in Nat
          BY <1>2 DEF ToSubscription, l
        <5>2. n \in Nat /\ n <= l
          BY <5>1, <1>2 DEF Places
        <5>3. m # l
          BY <5>1, <5>2, <3>3
        <5> QED
          BY <5>3, <1>9
      <4>2. CASE n \in ToSubscription(r)
        BY <4>1, <4>2, <3>1, <3>3, <1>9
      <4>3. CASE n = l
        <5>1. r = s
          BY <4>3, <1>9
        <5> QED
          BY <5>1, <4>1, <4>3, <3>2, <1>2, <1>9
      <4> QED
        BY <4>2, <4>3, <1>9
    <3>4. ASSUME NEW r \in Subscriptions PROVE Behind(r)'
      <4>1. ASSUME NEW m \in ToSubscription(r)', NEW x \in ToSet(sources) \cup Queued \cup {l}
            PROVE  log'[m].of < x
        <5>1. CASE m \in ToSubscription(r) /\ x # l
          BY <5>1, <4>1, <3>1, <1>9 DEF Behind
        <5>2. CASE m \in ToSubscription(r) /\ x = l
          BY <5>2, <1>2, <1>9, <1>10
        <5>3. CASE m = l /\ x # l
          BY <5>3, <4>1, <1>1, <1>2
        <5>4. CASE m = l /\ x = l
          BY <5>4, <1>1, <1>2
        <5> QED
          BY <5>1, <5>2, <5>3, <5>4, <1>9
      <4>2. ASSUME NEW m \in ToSubscription(r)', delivering' # 0
            PROVE  log'[m].of <= delivering' /\ (r \in targets' => log'[m].of < delivering')
        <5>1. delivering' = delivering
          BY <4>2, <1>1
        <5>2. CASE m \in ToSubscription(r)
          BY <5>1, <5>2, <3>1, <1>1, <1>9 DEF Behind
        <5>3. CASE m = l
          BY <5>1, <5>3, <1>1, <1>2, <1>9
        <5> QED
          BY <5>2, <5>3, <1>9
      <4> QED
        BY <4>1, <4>2, <1>1, <1>2 DEF Behind
    <3> QED
      BY <3>3, <3>4 DEF DeliveredInOrder
  <2> QED
    BY <2>1, <2>2, <1>1 DEF Sequenced
<1>13. Reached'
  <2>1. ASSUME NEW r \in Subscriptions, NEW n \in Places \ lost, Matches(r, n)'
        PROVE  \/ \E m \in ToSubscription(r)' : log'[m].of = n
               \/ n \in ToSet(sources) \cup Queued
               \/ n = delivering' /\ r \in targets'
    <3>1. subs'[r] = subs[r] /\ log'[n] = log[n]
      BY <2>1, <1>2, <1>6 DEF Matches
    <3>2. Matches(r, n)
      BY <2>1, <3>1 DEF Matches
    <3>3. \/ \E m \in ToSubscription(r) : log[m].of = n
          \/ n \in ToSet(sources) \cup Queued
          \/ n = delivering /\ r \in targets
      BY <3>2 DEF IInv, Reached
    <3>4. CASE n = delivering /\ r = s
      <4>1. subs'[s].status = "active"
        BY <2>1, <3>4 DEF Matches
      <4>2. e.kind = "input"
        <5>1. subs[s] \in [status : Statuses, created : 0..Len(log)]
          BY <1>1, <1>5
        <5>2. subs' = [subs EXCEPT ![s].status = "failed"] => subs'[s].status = "failed"
          BY <5>1, <1>1, <1>5
        <5> QED
          BY <4>1, <5>2
      <4> QED
        BY <3>4, <4>2, <1>2, <1>9
    <3>5. CASE n = delivering /\ r # s /\ r \in targets
      BY <3>5, <1>1
    <3>6. CASE ~(n = delivering /\ r \in targets)
      BY <3>3, <3>6, <1>9
    <3> QED
      BY <3>4, <3>5, <3>6
  <2>2. ASSUME NEW r \in Subscriptions, NEW n \in Places' \ lost'
        PROVE  n \in Places \ lost \/ n \in Queued'
    BY <1>1, <1>2
  <2>3. ToSet(sources') = ToSet(sources) /\ Queued \subseteq Queued' /\ lost' = lost
    BY <1>1, <1>2
  <2> QED
    BY <2>1, <2>2, <2>3 DEF Reached
<1>14. Uncaught'
  <2>1. ~moving => Pending' \cap lost = {}
    BY <1>2, <1>4 DEF IInv, Uncaught
  <2>2. moving => Queued' \cap lost = {}
    BY <1>1, <1>2, <1>4 DEF IInv, Uncaught
  <2> QED
    BY <2>1, <2>2, <1>1 DEF Uncaught
<1>z. Prompt
  <2>1. delivering \in Pending
    BY <1>1 DEF Pending
  <2>2. \A m \in Inputs' : m \in Inputs \/ m = l
    BY <1>2 DEF Inputs
  <2> QED
    BY <2>1, <2>2, <1>2 DEF Prompt
<1> QED
  BY <1>z, <1>2, <1>3, <1>7, <1>8, <1>11, <1>12, <1>13, <1>14 DEF IInv

LEMMA DeliverStep ==
    ASSUME IInv, NEW s \in Subscriptions, Deliver(s)
    PROVE  IInv' /\ Prompt
<1> DEFINE e == Event("input", Watch[s].subscriber, s, delivering)
<1>1. s \in targets /\ Delivered(s) /\ Delivery(s, delivering) \notin commands /\ subs[s].status = "active"
  BY DEF Deliver
<1>2. delivering \in Nat
  BY DEF IInv, DispatchTypeOK
<1>3. e \in Events /\ e.kind = "input" /\ e.sub = s /\ e.of = delivering /\ e.actor = Watch[s].subscriber
  BY <1>2, DispatchAssumption DEF Event, Events, Kinds
<1>4. Reacts(e)
  BY <1>1, <1>3 DEF Reacts, Deliver, Delivered, boundVars
<1>5. commands' = commands \cup {Delivery(s, delivering)} /\ UNCHANGED subs
  BY DEF Deliver
<1> QED
  BY <1>1, <1>3, <1>4, <1>5, Answered

LEMMA FailDeliveryStep ==
    ASSUME IInv, NEW s \in Subscriptions, FailDelivery(s)
    PROVE  IInv' /\ Prompt
<1> DEFINE e == Event("failedSubscription", Watch[s].subscriber, s, delivering)
<1>1. s \in targets /\ Delivered(s) /\ Delivery(s, delivering) \notin commands /\ subs[s].status = "active"
  BY DEF FailDelivery
<1>2. delivering \in Nat
  BY DEF IInv, DispatchTypeOK
<1>3. e \in Events /\ e.kind = "failedSubscription" /\ e.sub = s /\ e.of = delivering /\ e.actor = Watch[s].subscriber
  BY <1>2, DispatchAssumption DEF Event, Events, Kinds
<1>4. Reacts(e)
  BY <1>1, <1>3 DEF Reacts, FailDelivery, Delivered, boundVars
<1>5. subs' = [subs EXCEPT ![s].status = "failed"] /\ UNCHANGED commands
  BY DEF FailDelivery
<1> QED
  BY <1>1, <1>3, <1>4, <1>5, Answered

LEMMA AlertCreatorStep ==
    ASSUME IInv, AlertCreator
    PROVE  IInv' /\ Prompt
<1> DEFINE l == Len(log) + 1
<1>1. PICK h : h = Head(unnoticed)
  OBVIOUS
<1> DEFINE c == Creator[log[h].actor]
           e == Event("notice", c, "none", h)
<1>2. /\ delivering = 0 /\ sources = <<>> /\ unnoticed # <<>> /\ Alerts(h) /\ unnoticed' = Tail(unnoticed)
      /\ commands' = commands \cup {Notice(h)} /\ Commit(<<e>>)
      /\ UNCHANGED <<active, running, subs, sources, delivering, targets, recovering, lost, crashes, forks, moves>>
  BY <1>1 DEF AlertCreator, runVars, boundVars
<1>3. moving' = (moving /\ unnoticed' # <<>>)
  BY DEF AlertCreator
<1>4. /\ h \in Places /\ h \in Nat /\ h # 0 /\ h \notin Queued /\ targets = {}
      /\ unnoticed' \in Seq(Nat) /\ Rising(unnoticed')
      /\ ToSet(unnoticed) = {h} \cup ToSet(unnoticed')
      /\ Pending = Queued \cup ToSet(unnoticed) /\ Pending \subseteq Places
  BY <1>1, <1>2, FirstUnnoticed
<1>5. e \in Events /\ e.kind = "notice" /\ e.actor = c /\ e.of = h
  <2>1. c \in Actors
    BY <1>2 DEF Alerts, IInv, DispatchTypeOK
  <2> QED
    BY <2>1, <1>4 DEF Event, Events, Kinds
<1> HIDE DEF e
<1>6. Reacts(e)
  BY <1>2, <1>5 DEF Reacts
<1>7. /\ Len(log) \in Nat /\ Len(log') = l /\ log' \in Seq(Events)
      /\ Places' = Places \cup {l} /\ l \notin Places
      /\ log'[l] = e /\ \A n \in Places : log'[n] = log[n] /\ n < l
      /\ queue' \in Seq(Seq(Nat)) /\ InOrder(queue') /\ Queued' = Queued \cup {l}
      /\ StillActive'
  BY <1>6, Reaction
<1>8. Told'
  <2>1. unnoticed \in Seq(Nat)
    BY DEF IInv, DispatchTypeOK
  <2>2. l \in Places' /\ log'[l].kind \in {"input", "notice"} /\ log'[l].actor = Creator[log[h].actor] /\ log'[l].of = h
    BY <1>5, <1>7
  <2> HIDE DEF l, c
  <2>3. \A n \in ToSet(unnoticed) : n \in ToSet(unnoticed') \/
          \E m \in Places' : log'[m].kind \in {"input", "notice"} /\ log'[m].actor = Creator[log[n].actor] /\ log'[m].of = n
    BY <2>2, <1>4
  <2> QED
    BY <2>1, <2>3, <1>6, Reaction
<1> HIDE DEF l
<1>9. Pending' = Queued \cup {l} \cup ToSet(unnoticed')
  BY <1>2, <1>7, NoPlaces DEF Pending
<1>10. DispatchTypeOK'
  <2>1. Pending' \cup lost' \subseteq Places'
    BY <1>2, <1>4, <1>7, <1>9 DEF IInv, DispatchTypeOK
  <2>2. moving' \in BOOLEAN
    BY <1>3, Zenon
  <2>3. {crashes', forks', moves'} \subseteq Nat /\ sources' \in Seq(Nat) /\ targets' \subseteq Subscriptions
    BY <1>2 DEF IInv, DispatchTypeOK
  <2>4. delivering' \in 0..Len(log')
    BY <1>2, <1>7 DEF l
  <2>5. running' \subseteq active' /\ active' \subseteq Actors /\ recovering' \subseteq running'
    BY <1>2 DEF IInv, DispatchTypeOK
  <2>6. /\ subs' \in [Subscriptions -> [status : Statuses, created : 0..Len(log')]]
        /\ \A r \in Subscriptions : subs'[r].status = "active" => Watch[r].subscriber \in active'
    <3>1. subs \in [Subscriptions -> [status : Statuses, created : 0..Len(log)]]
      BY DEF IInv, DispatchTypeOK
    <3>2. 0..Len(log) \subseteq 0..Len(log')
      BY <1>7 DEF l
    <3>3. \A r \in Subscriptions : subs[r] \in [status : Statuses, created : 0..Len(log')]
      BY <3>1, <3>2
    <3>4. subs = [r \in Subscriptions |-> subs[r]]
      BY <3>1
    <3> QED
      BY <3>3, <3>4, <1>2 DEF IInv, DispatchTypeOK
  <2> QED
    BY <2>1, <2>2, <2>3, <2>4, <2>5, <2>6, <1>4, <1>7 DEF DispatchTypeOK
<1>11. Ordered'
  <2>1. \A x \in ToSet(unnoticed'), y \in Queued' : x < y
    <3>1. \A x \in ToSet(unnoticed) : x \in Places /\ \A y \in Queued : x < y
      BY <1>4 DEF IInv, Ordered
    <3> QED
      BY <3>1, <1>4, <1>7
  <2>2. ToSet(sources') = {} /\ {delivering'} \ {0} = {} /\ Rising(sources')
    BY <1>2, NoPlaces
  <2> QED
    BY <2>1, <2>2, <1>2, <1>4, <1>7 DEF Ordered
<1>12. \A s : ToSubscription(s)' = ToSubscription(s) /\ \A m \in ToSubscription(s) : m \in Places /\ log'[m] = log[m]
  BY <1>5, <1>7 DEF ToSubscription
<1>13. Known'
  <2>1. ASSUME NEW m \in Places', log'[m].kind = "input"
        PROVE  /\ log'[m].sub \in Subscriptions /\ log'[m].actor = Watch[log'[m].sub].subscriber /\ log'[m].of \in Places'
               /\ forks' = 0 => Delivery(log'[m].sub, log'[m].of) \in commands'
    <3>1. m \in Places /\ log'[m] = log[m]
      BY <2>1, <1>5, <1>7
    <3>2. /\ log[m].sub \in Subscriptions /\ log[m].actor = Watch[log[m].sub].subscriber /\ log[m].of \in Places
          /\ forks = 0 => Delivery(log[m].sub, log[m].of) \in commands
      BY <3>1, <2>1 DEF IInv, Known
    <3> QED
      BY <3>1, <3>2, <1>2, <1>7
  <2>2. ASSUME NEW r \in Subscriptions, NEW n \in Nat, Delivery(r, n) \in commands'
        PROVE  \E m \in ToSubscription(r)' : log'[m].of = n
    <3>1. Delivery(r, n) \in commands
      BY <2>2, <1>2, OtherNames
    <3>2. \E m \in ToSubscription(r) : log[m].of = n
      BY <3>1 DEF IInv, Known
    <3> QED
      BY <3>2, <1>12
  <2>3. ASSUME NEW n \in Nat, Notice(n) \in commands'
        PROVE  n \in Places' /\ \E m \in Places' : log'[m].kind = "notice" /\ log'[m].actor = Creator[log'[n].actor] /\ log'[m].of = n
    <3>1. CASE Notice(n) \in commands
      <4>1. n \in Places /\ \E m \in Places : log[m].kind = "notice" /\ log[m].actor = Creator[log[n].actor] /\ log[m].of = n
        BY <3>1 DEF IInv, Known
      <4> QED
        BY <4>1, <1>7
    <3>2. CASE n = h
      <4>1. l \in Places' /\ log'[l].kind = "notice" /\ log'[l].actor = c /\ log'[l].of = n /\ log'[n] = log[n] /\ n \in Places'
        BY <3>2, <1>4, <1>5, <1>7
      <4>2. c = Creator[log'[n].actor]
        BY <4>1, <3>2
      <4> QED
        BY <4>1, <4>2
    <3> QED
      <4>1. Notice(n) \in commands \/ Notice(n) = Notice(h)
        BY <2>3, <1>2
      <4> QED
        BY <4>1, <3>1, <3>2 DEF Notice
  <2> QED
    BY <2>1, <2>2, <2>3 DEF Known, Delivery, Notice
<1>14. Sequenced'
  <2>1. DeliveredAtMostOnce => DeliveredAtMostOnce'
    BY <1>12 DEF DeliveredAtMostOnce
  <2>2. DeliveredInOrder => DeliveredInOrder'
    BY <1>2, <1>12 DEF DeliveredInOrder
  <2>3. ASSUME NEW s \in Subscriptions, Behind(s) PROVE Behind(s)'
    <3>1. \A m \in ToSubscription(s) : log[m].of \in Places /\ \A x \in Queued : log[m].of < x
      BY <2>3 DEF Behind, IInv, Known, ToSubscription
    <3>2. \A m \in ToSubscription(s)' : \A x \in ToSet(sources') \cup Queued' : log'[m].of < x
      BY <3>1, <1>2, <1>7, <1>12, NoPlaces
    <3> QED
      BY <3>2, <1>2 DEF Behind
  <2> QED
    BY <2>1, <2>2, <2>3, <1>2 DEF IInv, Sequenced
<1>15. Reached'
  <2>1. ASSUME NEW r \in Subscriptions, NEW n \in Places \ lost, Matches(r, n)', n \notin Queued'
        PROVE  \E m \in ToSubscription(r)' : log'[m].of = n
    <3>1. Matches(r, n)
      BY <2>1, <1>2, <1>7 DEF Matches
    <3>2. \E m \in ToSubscription(r) : log[m].of = n
      BY <3>1, <2>1, <1>2, <1>4, <1>7, NoPlaces DEF IInv, Reached
    <3> QED
      BY <3>2, <1>12
  <2>2. ASSUME NEW n \in Places' \ lost', n \notin Queued'
        PROVE  n \in Places \ lost
    BY <2>2, <1>2, <1>7
  <2> QED
    BY <2>1, <2>2 DEF Reached
<1>16. Uncaught'
  <2>1. moving' => moving /\ unnoticed' # <<>>
    BY <1>3
  <2>2. l \notin lost /\ lost' = lost
    BY <1>2, <1>7 DEF IInv, DispatchTypeOK
  <2>3. ASSUME ~moving' PROVE Pending' \cap lost' = {}
    <3>1. CASE ~moving
      BY <3>1, <2>2, <1>4, <1>9 DEF IInv, Uncaught
    <3>2. CASE moving /\ unnoticed' = <<>>
      BY <3>2, <2>2, <1>2, <1>9, NoPlaces DEF IInv, Uncaught
    <3> QED
      BY <3>1, <3>2, <2>3, <1>3
  <2> QED
    BY <2>1, <2>2, <2>3, <1>2, <1>7 DEF IInv, Uncaught
<1>z. Prompt
  <2>1. \A m \in Inputs' : m \in Inputs \/ m = l
    BY <1>7 DEF Inputs
  <2> QED
    BY <2>1, <1>4, <1>5, <1>7 DEF Prompt
<1> QED
  BY <1>z, <1>7, <1>8, <1>10, <1>11, <1>13, <1>14, <1>15, <1>16 DEF IInv

-----------------------------------------------------------------------------
(* The theorems *)

LEMMA InvNext == IInv /\ [DispatchNext]_dispatchVars => IInv' /\ Prompt
<1> SUFFICES ASSUME IInv, [DispatchNext]_dispatchVars PROVE IInv' /\ Prompt
  OBVIOUS
<1>1. ASSUME NEW a \in Actors, ActorStep(a) PROVE IInv' /\ Prompt
  BY <1>1, StartTurnStep, EndTurnStep, StopActorStep, RestartActorStep, RecoverTurnStep DEF ActorStep
<1>2. ASSUME NEW s \in Subscriptions, SubscriptionStep(s) PROVE IInv' /\ Prompt
  BY <1>2, CreateSubscriptionStep, RemoveSubscriptionStep, DeliveredBeforeStep, DeliverStep, FailDeliveryStep
     DEF SubscriptionStep
<1>3. CASE TakeBatch
  BY <1>3, TakeBatchStep
<1>4. CASE TakeSource
  BY <1>4, TakeSourceStep
<1>5. CASE SkipEnd
  BY <1>5, SkipEndStep
<1>6. CASE AlertCreator
  BY <1>6, AlertCreatorStep
<1>7. CASE ServerCrash
  BY <1>7, CrashStep
<1>8. CASE Fork
  BY <1>8, ForkStep
<1>9. CASE Move
  BY <1>9, MoveStep
<1>10. CASE UNCHANGED dispatchVars
  <2>1. UNCHANGED <<log, active, running, subs, commands, queue, sources, delivering, targets, unnoticed, recovering, moving,
                    lost, crashes, forks, moves>>
    BY <1>10 DEF dispatchVars, runVars, batchVars, boundVars
  <2>2. Places' = Places /\ Queued' = Queued /\ Pending' = Pending
    BY <2>1 DEF Places, Queued, Pending
  <2>3. DispatchTypeOK' /\ Ordered' /\ Uncaught'
    BY <2>1, <2>2 DEF IInv, DispatchTypeOK, Ordered, Uncaught
  <2>4. Known' /\ StillActive'
    BY <2>1, KnownStays, SameLog DEF IInv
  <2>5. Sequenced'
    <3>1. \A s \in Subscriptions : Behind(s) => Behind(s)'
      BY <2>1, <2>2, SameLog DEF Behind
    <3>2. DeliveredInOrder => DeliveredInOrder'
      BY <2>1, SameLog DEF DeliveredInOrder
    <3> QED
      BY <2>1, <3>1, <3>2, SameLog DEF IInv, Sequenced
  <2>6. Reached'
    BY <2>1, <2>2, SameLog DEF IInv, Reached
  <2>7. Told'
    BY <2>1, <2>2, SameLog DEF IInv, Told
  <2> QED
    BY <2>1, <2>3, <2>4, <2>5, <2>6, <2>7, NothingNew DEF IInv
<1> QED
  BY <1>1, <1>2, <1>3, <1>4, <1>5, <1>6, <1>7, <1>8, <1>9, <1>10 DEF DispatchNext

LEMMA DispatchAlways == DispatchSpec => []IInv
<1>1. IInv /\ [DispatchNext]_dispatchVars => IInv'
  BY InvNext
<1> QED
  BY <1>1, InvInit, PTL DEF DispatchSpec

\* A subscription gets its events in the order of the journal and each at most once, whatever is
\* stopped, crashes, is forked or is moved in between; only an import may dispatch an event again.
THEOREM DispatchInvariant == DispatchSpec => []DispatchInv
<1>1. IInv => DispatchInv
  <2> SUFFICES ASSUME IInv PROVE DeliveredOnce /\ DeliveredInOrder
    BY DEF IInv, DispatchInv
  <2>1. DeliveredInOrder
    BY DEF IInv, Sequenced, DeliveredInOrder
  <2>2. ASSUME moves = 0 PROVE DeliveredAtMostOnce
    <3> SUFFICES ASSUME NEW s \in Subscriptions, NEW m \in ToSubscription(s), NEW n \in ToSubscription(s), log[m].of = log[n].of
                 PROVE  m = n
      BY DEF DeliveredAtMostOnce
    <3>1. m \in Int /\ n \in Int /\ log[m].of \in Int
      BY DEF ToSubscription, IInv, Known, Places
    <3>2. (m < n => log[m].of < log[n].of) /\ (n < m => log[n].of < log[m].of)
      BY <2>1, <2>2 DEF DeliveredInOrder
    <3> QED
      BY <3>1, <3>2
  <2> QED
    BY <2>1, <2>2 DEF IInv, Sequenced, DeliveredOnce
<1> QED
  BY <1>1, DispatchAlways, PTL

\* An active subscription misses no event it watches, but for those a crash or a fork cut off.
THEOREM MatchesReach == DispatchSpec => []EveryMatchDelivered
<1>1. IInv => EveryMatchDelivered
  <2> SUFFICES ASSUME IInv, Quiet, NEW s \in Subscriptions, NEW n \in Places \ lost, Matches(s, n)
               PROVE  \E m \in ToSubscription(s) : log[m].of = n
    BY DEF EveryMatchDelivered
  <2>1. sources = <<>> /\ queue = <<>> /\ delivering = 0 /\ n # 0
    BY DEF Quiet, BetweenBatches, Places
  <2>2. ToSet(sources) = {} /\ Queued = {}
    BY <2>1, NoPlaces DEF Queued, QueuedIn
  <2> QED
    BY <2>1, <2>2 DEF IInv, Reached
<1> QED
  BY <1>1, DispatchAlways, PTL

\* The creator learns of every turn that failed or was interrupted, by a subscription or a notice.
THEOREM FailuresReach == DispatchSpec => []FailureNoticed
<1>1. IInv => FailureNoticed
  <2>1. ASSUME IInv, Quiet, NEW n \in Places \ lost, log[n].kind \in Ended, Creator[log[n].actor] \in active,
               SameSince(log[n].actor, n), SameSince(Creator[log[n].actor], n)
        PROVE  Learned(Creator[log[n].actor], n)
    <3>1. unnoticed = <<>> /\ queue = <<>>
      BY <2>1 DEF Quiet, BetweenBatches
    <3>2. ToSet(unnoticed) = {} /\ Queued = {}
      BY <3>1, NoPlaces DEF Queued, QueuedIn
    <3> QED
      BY <2>1, <3>2 DEF IInv, Told
  <2> QED
    BY <2>1 DEF FailureNoticed
<1> QED
  BY <1>1, DispatchAlways, PTL

\* What a crash or a fork cut off is not delivered later; only an imported history is dispatched again.
THEOREM LostStaysLost == DispatchSpec => NoCatchUp
<1>1. IInv /\ [DispatchNext]_dispatchVars => [~moving => \A m \in Inputs' \ Inputs : log'[m].of \notin lost]_dispatchVars
  <2> SUFFICES ASSUME IInv, [DispatchNext]_dispatchVars, ~moving, NEW m \in Inputs' \ Inputs PROVE log'[m].of \notin lost
    OBVIOUS
  <2>1. log'[m].of \in Pending
    BY InvNext DEF Prompt
  <2>2. Pending \cap lost = {}
    BY DEF IInv, Uncaught
  <2> QED
    BY <2>1, <2>2
<1> QED
  BY <1>1, DispatchAlways, PTL DEF DispatchSpec, NoCatchUp

=============================================================================
