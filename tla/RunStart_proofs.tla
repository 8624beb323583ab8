----------------------------- MODULE RunStart_proofs -----------------------------
(***************************************************************************)
(* What RunStart promises to callers and of a deletion, for any number of  *)
(* messages, starts, templates, failures and upsets.  StartInv is          *)
(* inductive; its parts say why: a preparation that was cancelled has      *)
(* nobody left to take down who was not cancelled, and no message is on    *)
(* its way to an actor whose startup is incomplete.  OnceInv adds the      *)
(* books of the startups: an actor for each hook after which the run was   *)
(* ready, and a start, accepted or refused after its install, for each     *)
(* script but one.                                                         *)
(***************************************************************************)
EXTENDS RunStart, SequenceTheorems, FiniteSetTheorems, TLAPS

InQueue == {"queued", "blocked", "inHook", "inWorkspace", "inInstall"}
Between == {"ensure", "ensured", "started", "asked", "decided"}
Told == hooks > 0 \/ crashes > 0

\* Of each request: what ended has no marks left; whom a stop or the deletion aborts, that one it has marked; who
\* waits is a waiter of the preparation; between two waits nobody is withdrawn; and no request is on its way to an
\* actor before the plugins were told of it.
Fits(o) ==
    /\ phase[o] \in Ended \cup {"idle"} => mark[o] = {}
    /\ "cut" \in mark[o] => "stopped" \in mark[o] \/ disposed
    /\ o \in Messages /\ "stopped" \in mark[o] => "cut" \in mark[o]
    /\ phase[o] \in {"joining", "joined"} <=> o \in prep.waiters
    /\ prep.cut = "stopped" /\ o \in prep.waiters => "stopped" \in mark[o]
    /\ phase[o] \in Between => ~Withdrawn(o)
    /\ phase[o] \in {"ensured", "decided"} => prep.cut = "no"
    /\ phase[o] = "ensure" => deletion = "none"
    /\ phase[o] \in {"directed", "content"} => to[o] # 0 /\ Told /\ (to[o] = primary => pending = "none")
    /\ phase[o] = "started" => pending = "none"
    /\ phase[o] \in InQueue \cup {"choosing"} => Told
    /\ o \in Messages => phase[o] \notin InQueue \cup {"asked", "decided", "choosing"}
    /\ o \in Starts => phase[o] \notin {"hook", "ensure", "joining", "ensured", "started", "directed", "content"}

\* While a request goes on after a preparation, nobody gives up: it finds no preparation that is cancelled.
Calm == \A o, p \in Requests : phase[o] \in {"ensured", "decided"} => ~GivesUp(p)

\* No start is twice in the queue, those in it are under way, and who waits for the preparation is the first.
Queued ==
    /\ \A i \in DOMAIN queue : phase[queue[i]] \in InQueue
    /\ \A i, j \in DOMAIN queue : queue[i] = queue[j] => i = j
    /\ \A s \in Requests : phase[s] = "blocked" => queue # <<>> /\ s = Head(queue)

\* A deletion that is recorded goes on, and what is archived stays empty.
Deletes ==
    /\ intent => deletion # "none"
    /\ deletion \in {"recorded", "draining", "removing", "archived"} => intent
    /\ archived => (intent \/ deletion = "done") /\ ~created /\ primary = 0

\* Who owns the preparation, and how far the startup is while it lasts.
Owners ==
    /\ prep # NoPrep => prep.owner \in Requests
    /\ prep.cut = "left" => prep.waiters = {}
    /\ prep.at \in {"parameters", "prepare", "install"} => prep.owner \in Starts
    /\ prep.at = "install" \/ (prep.at = "workspace" /\ prep.owner \in Messages) => pending = "none"
    /\ prep.at = "workspace" /\ prep.owner \in Starts => pending \in {"none", EntryOf[prep.owner]}
    /\ prep.at \in {"workspace", "install"} => created \/ archived
    /\ prep.at \in {"parameters", "prepare", "workspace", "install"} /\ pending = "none" => primary = 0

\* The plugins were told before the run counts as started.
Readiness ==
    /\ hooks \in Nat /\ crashes \in Nat
    /\ pending = "none" /\ Peopled => Told
    /\ actors > 0 => created \/ archived

Shown == startup = "preparing" /\ ~disposed => prep # NoPrep /\ prep.owner \in Starts /\ prep.cut # "stopped"

Whole == Calm /\ Queued /\ Deletes /\ Owners /\ Readiness /\ Shown

StartInv == TypeOK /\ (\A o \in Requests : Fits(o)) /\ Whole

Phases == {"idle", "hook", "ensure", "settling", "joining", "ensured", "joined", "started", "directed",
           "content", "asked", "decided", "choosing", "queued", "blocked", "inHook", "inWorkspace",
           "inInstall", "accepted", "refused", "cancelled"}
Preparations == [owner : Requests \cup {"none"}, at : {"none", "parameters", "prepare", "workspace", "install", "lifecycle"},
                 waiters : SUBSET Requests, cut : {"no", "left", "stopped", "deleted"}]

-----------------------------------------------------------------------------
(* What the operators of the steps do.                                        *)

\* A request moves to another phase, and keeps its marks until it is answered.
LEMMA Moves ==
    ASSUME TypeOK, NEW o \in Requests, NEW where \in Phases, Moved(o, where)
    PROVE  /\ phase' \in [Requests -> Phases] /\ mark' \in [Requests -> SUBSET {"gone", "cut", "stopped"}]
           /\ phase'[o] = where
           /\ \A p \in Requests : p # o => phase'[p] = phase[p]
           /\ \A p \in Requests : mark'[p] = IF phase'[p] \in Ended THEN {} ELSE mark[p]
BY DEF TypeOK, Moved, Placed, Phases

\* Where requests are when a preparation settles.
LEMMA Settles ==
    ASSUME TypeOK, NEW outcome \in {"ready", "refused", "cancelled"}, Settled(outcome)
    PROVE  /\ phase' \in [Requests -> Phases] /\ mark' \in [Requests -> SUBSET {"gone", "cut", "stopped"}]
           /\ prep' = NoPrep
           /\ \A p \in Requests : phase'[p] = IF outcome # "ready" /\ p \in prep.waiters THEN outcome ELSE GoesOn(p)
           /\ \A p \in Requests : mark'[p] = IF phase'[p] \in Ended THEN {} ELSE mark[p]
BY DEF TypeOK, Settled, Placed, Phases, GoesOn

\* The preparation is well formed after each of the ways to change it.
LEMMA Prepares ==
    ASSUME TypeOK
    PROVE  /\ NoPrep \in Preparations /\ NoPrep.owner = "none" /\ NoPrep.at = "none" /\ NoPrep.waiters = {} /\ NoPrep.cut = "no"
           /\ \A o \in Requests, at \in {"parameters", "workspace", "lifecycle"} :
                  /\ Begun(o, at) \in Preparations /\ Begun(o, at) # NoPrep
                  /\ Begun(o, at).owner = o /\ Begun(o, at).at = at /\ Begun(o, at).waiters = {o} /\ Begun(o, at).cut = "no"
           /\ \A o \in Requests :
                  /\ Without(o) \in Preparations
                  /\ Without(o).owner = prep.owner /\ Without(o).at = prep.at /\ Without(o).waiters = prep.waiters \ {o}
                  /\ Without(o).cut = IF prep.cut = "no" /\ prep.waiters = {o} THEN "left" ELSE prep.cut
           /\ \A o \in Requests :
                  LET joined == [prep EXCEPT !.waiters = @ \cup {o}]
                  IN  /\ joined \in Preparations
                      /\ joined.owner = prep.owner /\ joined.at = prep.at
                      /\ joined.waiters = prep.waiters \cup {o} /\ joined.cut = prep.cut
           /\ \A reason \in {"stopped", "deleted"} :
                  /\ Cancelled(reason) \in Preparations
                  /\ Cancelled(reason).owner = prep.owner /\ Cancelled(reason).at = prep.at
                  /\ Cancelled(reason).waiters = prep.waiters
                  /\ Cancelled(reason).cut = IF prep # NoPrep /\ prep.cut = "no" THEN reason ELSE prep.cut
           /\ \A at \in {"prepare", "workspace", "install", "lifecycle"} :
                  LET further == [prep EXCEPT !.at = at]
                  IN  /\ further \in Preparations
                      /\ further.owner = prep.owner /\ further.at = at
                      /\ further.waiters = prep.waiters /\ further.cut = prep.cut
<1>1. prep \in Preparations
  BY DEF TypeOK, Preparations
<1>2. NoPrep \in Preparations
  BY DEF NoPrep, Preparations
<1>3. \A o \in Requests, at \in {"parameters", "workspace", "lifecycle"} :
         Begun(o, at) \in Preparations /\ Begun(o, at) # NoPrep
  BY DEF Begun, NoPrep, Preparations
<1>4. \A o \in Requests : Without(o) \in Preparations
  BY <1>1 DEF Without, Preparations, CancelledBy
<1>5. \A o \in Requests :
         /\ Without(o).owner = prep.owner /\ Without(o).at = prep.at /\ Without(o).waiters = prep.waiters \ {o}
         /\ Without(o).cut = IF prep.cut = "no" /\ prep.waiters = {o} THEN "left" ELSE prep.cut
  BY <1>1 DEF Without, CancelledBy, Preparations
<1>6. \A o \in Requests, at \in {"parameters", "workspace", "lifecycle"} :
         Begun(o, at).owner = o /\ Begun(o, at).at = at /\ Begun(o, at).waiters = {o} /\ Begun(o, at).cut = "no"
  BY DEF Begun
<1>7. NoPrep.owner = "none" /\ NoPrep.at = "none" /\ NoPrep.waiters = {} /\ NoPrep.cut = "no"
  BY DEF NoPrep
<1>8. ASSUME NEW o \in Requests
      PROVE  LET joined == [prep EXCEPT !.waiters = @ \cup {o}]
             IN  /\ joined \in Preparations
                 /\ joined.owner = prep.owner /\ joined.at = prep.at
                 /\ joined.waiters = prep.waiters \cup {o} /\ joined.cut = prep.cut
  BY <1>1 DEF Preparations
<1>9. ASSUME NEW reason \in {"stopped", "deleted"}
      PROVE  /\ Cancelled(reason) \in Preparations
             /\ Cancelled(reason).owner = prep.owner /\ Cancelled(reason).at = prep.at
             /\ Cancelled(reason).waiters = prep.waiters
             /\ Cancelled(reason).cut = IF prep # NoPrep /\ prep.cut = "no" THEN reason ELSE prep.cut
  BY <1>1 DEF Cancelled, Preparations
<1>10. ASSUME NEW at \in {"prepare", "workspace", "install", "lifecycle"}
       PROVE  LET further == [prep EXCEPT !.at = at]
              IN  /\ further \in Preparations
                  /\ further.owner = prep.owner /\ further.at = at
                  /\ further.waiters = prep.waiters /\ further.cut = prep.cut
  BY <1>1 DEF Preparations
<1>11. QED
  BY <1>2, <1>3, <1>4, <1>5, <1>6, <1>7, <1>8, <1>9, <1>10

-----------------------------------------------------------------------------
(* Each step keeps the invariant.                                             *)

\* The queue without its head.
LEMMA Dequeues ==
    ASSUME TypeOK, Queued, queue # <<>>
    PROVE  /\ Head(queue) \in Starts /\ phase[Head(queue)] \in InQueue /\ Tail(queue) \in Seq(Starts)
           /\ \A i \in DOMAIN Tail(queue) : i + 1 \in DOMAIN queue /\ Tail(queue)[i] = queue[i + 1] /\ Tail(queue)[i] # Head(queue)
<1>1. queue \in Seq(Starts) /\ queue # <<>>
  BY DEF TypeOK
<1>2. Head(queue) \in Starts /\ Tail(queue) \in Seq(Starts) /\ Head(queue) = queue[1]
  BY <1>1
<1>3. \A i \in DOMAIN Tail(queue) : i + 1 \in DOMAIN queue /\ Tail(queue)[i] = queue[i + 1] /\ i # 0 /\ i \in Nat
  BY <1>1
<1>4. 1 \in DOMAIN queue
  BY <1>1
<1>5. QED
  BY <1>2, <1>3, <1>4 DEF Queued

\* What a request does by itself: it moves, joins the preparation or leaves it.
LEMMA RequestMoves ==
    ASSUME StartInv, NEW o \in Requests, NEW where \in Phases, Moved(o, where), where \notin {"ensured", "decided"},
           where \in {"settling", "joining", "joined", "blocked"} => ~Withdrawn(o),
           UNCHANGED <<created, actors, primary, pending, startup, disposed, deletionVars, hooks, crashes>>,
           locked' \in BOOLEAN, installs' \in [Entries -> Nat], UNCHANGED installs \/ Told,
           queue' \in Seq(Starts), Queued',
           to' \in [Messages -> 0 .. actors],
           \A p \in Messages : p # o => to'[p] = to[p],
           prep' \in Preparations, prep'.owner = prep.owner, prep'.at = prep.at, prep' = NoPrep <=> prep = NoPrep,
           prep'.waiters \subseteq prep.waiters \cup {o}, prep.waiters \subseteq prep'.waiters \cup {o},
           prep'.cut = "no" /\ prep' # NoPrep => prep'.waiters # {},
           prep'.cut = prep.cut \/ (prep'.cut = "left" /\ phase[o] \in {"joining", "joined"} /\ Withdrawn(o)),
           prep'.cut = "left" => prep'.waiters = {},
           Fits(o)'
    PROVE  StartInv'
<1> USE DEF StartInv
<1>1. /\ phase' \in [Requests -> Phases] /\ mark' \in [Requests -> SUBSET {"gone", "cut", "stopped"}]
      /\ phase'[o] = where
      /\ \A p \in Requests : p # o => phase'[p] = phase[p]
      /\ \A p \in Requests : mark'[p] = IF phase'[p] \in Ended THEN {} ELSE mark[p]
  BY Moves
<1>2. UNCHANGED <<created, actors, primary, pending, startup, disposed, deletion, intent, archived, hooks, crashes>> /\ locked' \in BOOLEAN
  BY DEF sessionVars, deletionVars, TypeOK
<1>3. \A p \in Requests : p # o => mark'[p] = mark[p]
  BY <1>1 DEF Fits
<1>4. ASSUME NEW p \in Requests PROVE Fits(p)'
  <2>1. CASE p = o
    BY <2>1
  <2>2. CASE p # o
    <3>1. phase'[p] = phase[p] /\ mark'[p] = mark[p] /\ (p \in prep'.waiters <=> p \in prep.waiters)
          /\ (p \in Messages => to'[p] = to[p])
      BY <1>1, <1>3, <2>2
    <3>2. phase[p] \in {"ensured", "decided"} => prep'.cut = prep.cut
      BY DEF Whole, Calm, GivesUp
    <3>3. phase[p] \in {"directed", "content"} => p \in Messages
      BY DEF Fits, Requests
    <3>4. Fits(p)
      OBVIOUS
    <3>5. prep'.cut = "stopped" => prep.cut = "stopped"
      OBVIOUS
    <3>6. Withdrawn(p)' <=> Withdrawn(p)
      BY <3>1 DEF Withdrawn
    <3>7. QED
      BY <1>2, <3>1, <3>2, <3>3, <3>4, <3>5, <3>6 DEF Fits, Told
  <2>3. QED
    BY <2>1, <2>2
<1>5. TypeOK'
  <2>1. \A p \in prep'.waiters : phase'[p] \in {"joining", "joined"}
    BY <1>4 DEF Fits, Preparations
  <2>2. QED
    BY <1>1, <1>2, <2>1 DEF TypeOK, Phases, Preparations
<1>6. Calm'
  <2> SUFFICES ASSUME NEW q \in Requests, NEW p \in Requests, phase'[q] \in {"ensured", "decided"} PROVE ~GivesUp(p)'
    BY DEF Calm
  <2>1. q # o /\ phase[q] \in {"ensured", "decided"}
    BY <1>1
  <2>2. p # o => (GivesUp(p)' <=> GivesUp(p))
    BY <1>1, <1>3 DEF GivesUp, Withdrawn
  <2>3. p = o => ~GivesUp(p)'
    BY <1>1 DEF GivesUp, Withdrawn
  <2>4. QED
    BY <2>1, <2>2, <2>3 DEF Whole, Calm
<1>7. Deletes' /\ Owners' /\ Readiness' /\ Shown'
  BY <1>2 DEF Whole, Deletes, Owners, Readiness, Shown, Told, Peopled
<1>8. QED
  BY <1>4, <1>5, <1>6, <1>7 DEF Whole

\* A request that moves and leaves the preparation as it is.
LEMMA MovesAlone ==
    ASSUME StartInv, NEW o \in Requests, NEW where \in Phases, Moved(o, where), where \notin {"ensured", "decided"},
           where \in {"settling", "blocked"} => ~Withdrawn(o),
           UNCHANGED <<created, actors, primary, prep, pending, startup, disposed, deletionVars, hooks, crashes>>,
           locked' \in BOOLEAN, installs' \in [Entries -> Nat], UNCHANGED installs \/ Told,
           queue' \in Seq(Starts), Queued',
           to' \in [Messages -> 0 .. actors],
           \A p \in Messages : p # o => to'[p] = to[p],
           phase[o] \notin {"joining", "joined"}, where \notin {"joining", "joined"},
           Fits(o)'
    PROVE  StartInv'
<1>1. /\ prep \in Preparations
      /\ prep.cut = "no" /\ prep # NoPrep => prep.waiters # {}
      /\ prep.cut = "left" => prep.waiters = {}
  BY DEF StartInv, TypeOK, Preparations, Whole, Owners
<1>2. QED
  BY <1>1, RequestMoves

\* The queue as it is, for a request that is not in it or goes on in it.
LEMMA SameQueue ==
    ASSUME StartInv, NEW o \in Requests, NEW where \in Phases, Moved(o, where), UNCHANGED queue,
           phase[o] \notin InQueue \/ where \in InQueue,
           where = "blocked" => queue # <<>> /\ o = Head(queue)
    PROVE  queue' \in Seq(Starts) /\ Queued'
<1>1. phase'[o] = where /\ \A p \in Requests : p # o => phase'[p] = phase[p]
  BY Moves DEF StartInv
<1>2. queue \in Seq(Starts) /\ \A i \in DOMAIN queue : queue[i] \in Requests
  BY DEF StartInv, TypeOK, Requests
<1>3. Queued
  BY DEF StartInv, Whole
<1>4. QED
  BY <1>1, <1>2, <1>3 DEF Queued

\* The queue without the request that is first in it.
LEMMA NextInQueue ==
    ASSUME StartInv, queue # <<>>, NEW o \in Requests, o = Head(queue), NEW where \in Ended, Moved(o, where), queue' = Tail(queue)
    PROVE  queue' \in Seq(Starts) /\ Queued'
<1>1. phase'[o] = where /\ (\A p \in Requests : p # o => phase'[p] = phase[p]) /\ where # "blocked"
  BY Moves DEF StartInv, Ended, Phases
<1>2. Queued /\ TypeOK
  BY DEF StartInv, Whole
<1>3. /\ Tail(queue) \in Seq(Starts)
      /\ \A i \in DOMAIN Tail(queue) : i + 1 \in DOMAIN queue /\ Tail(queue)[i] = queue[i + 1] /\ Tail(queue)[i] # Head(queue)
      /\ \A i \in DOMAIN Tail(queue) : i \in Nat /\ Tail(queue)[i] \in Requests
  BY <1>2, Dequeues DEF Requests
<1>4. \A i \in DOMAIN queue' : phase'[queue'[i]] \in InQueue
  BY <1>1, <1>2, <1>3 DEF Queued
<1>5. \A i, j \in DOMAIN queue' : queue'[i] = queue'[j] => i = j
  <2> TAKE i, j \in DOMAIN queue'
  <2> HAVE queue'[i] = queue'[j]
  <2>1. i + 1 = j + 1 /\ i \in Nat /\ j \in Nat
    BY <1>2, <1>3 DEF Queued
  <2>2. QED
    BY <2>1
<1>6. \A s \in Requests : phase'[s] # "blocked"
  BY <1>1, <1>2 DEF Queued
<1>7. QED
  BY <1>3, <1>4, <1>5, <1>6 DEF Queued

\* An objection is the answer of a request that goes on no further.
LEMMA Objections ==
    ASSUME NEW o \in Requests
    PROVE  /\ Objection(o) \in {"none", "cancelled", "refused"}
           /\ Objection(o) = "none" => ~Withdrawn(o) /\ deletion = "none"
           /\ Objection(o) = "cancelled" => Withdrawn(o) /\ ("gone" \in mark[o] \/ ~disposed)
           /\ Withdrawn(o) => Objection(o) # "none"
BY DEF Objection, Usable

LEMMA ArriveStep ==
    ASSUME StartInv, NEW m \in Messages, Arrive(m)
    PROVE  StartInv'
<1>1. /\ Moved(m, "hook") /\ phase[m] \in {"idle", "refused", "cancelled"} /\ m \in Requests /\ "hook" \in Phases
      /\ UNCHANGED <<journalVars, startVars, sessionVars, deletionVars, hooks, crashes>>
  BY DEF Arrive, Made, Requests, Phases
<1>2. PICK named \in {0, primary} :
          to' = [to EXCEPT ![m] = named]
  BY DEF Arrive
<1>3. phase'[m] = "hook" /\ mark'[m] = {}
  BY <1>1, Moves DEF StartInv, Fits, Ended
<1>4. /\ to' \in [Messages -> 0 .. actors]
      /\ \A p \in Messages : p # m => to'[p] = to[p]
  BY <1>2 DEF StartInv, TypeOK
<1>5. Fits(m)
  BY <1>1 DEF StartInv
<1>6. Fits(m)'
  BY <1>1, <1>3, <1>4, <1>5, RunStartAssumption DEF Fits, startVars, Ended, Between, InQueue, Withdrawn, Told
<1>7. queue' \in Seq(Starts) /\ Queued'
  BY <1>1, SameQueue DEF startVars, InQueue
<1>8. locked' \in BOOLEAN /\ installs' \in [Entries -> Nat]
  BY <1>1 DEF StartInv, TypeOK, sessionVars, journalVars
<1>9. QED
  BY <1>1, <1>4, <1>6, <1>7, <1>8, MovesAlone DEF journalVars, startVars, sessionVars

\* A request that only moves.
LEMMA OnlyMoves ==
    ASSUME StartInv, NEW o \in Requests, NEW where \in Phases, Moved(o, where), where \notin {"ensured", "decided"},
           where \in {"settling", "blocked"} => ~Withdrawn(o),
           UNCHANGED <<journalVars, startVars, to, disposed, deletionVars, hooks, crashes>>, locked' \in BOOLEAN,
           phase[o] \notin {"joining", "joined"}, where \notin {"joining", "joined"},
           phase[o] \notin InQueue \/ where \in InQueue, where = "blocked" => queue # <<>> /\ o = Head(queue),
           Fits(o)'
    PROVE  StartInv'
<1>1. UNCHANGED <<created, actors, primary, installs, prep, pending, startup, queue, to>>
  BY DEF journalVars, startVars
<1>2. queue' \in Seq(Starts) /\ Queued'
  BY <1>1, SameQueue
<1>3. installs \in [Entries -> Nat] /\ to \in [Messages -> 0 .. actors]
  BY DEF StartInv, TypeOK
<1>4. QED
  BY <1>1, <1>2, <1>3, MovesAlone

\* A request that is answered, and nothing else.
LEMMA Answers ==
    ASSUME StartInv, NEW o \in Requests, NEW where \in Ended, Moved(o, where), UNCHANGED <<to>>,
           phase[o] \notin {"joining", "joined"}, UNCHANGED <<prep, deletion, pending, hooks, crashes, primary>>
    PROVE  Fits(o)' /\ where \in Phases
<1>1. where \in Phases
  BY DEF Ended, Phases
<1>2. phase'[o] = where /\ mark'[o] = {}
  BY <1>1, Moves DEF StartInv
<1>3. Fits(o)
  BY DEF StartInv
<1>4. QED
  BY <1>1, <1>2, <1>3 DEF Fits, Ended, Between, InQueue

LEMMA MessageHooksStep ==
    ASSUME StartInv, NEW m \in Messages, MessageHooks(m)
    PROVE  StartInv'
<1>1. /\ phase[m] = "hook" /\ m \in Requests
      /\ UNCHANGED <<journalVars, startVars, to, sessionVars, deletionVars, hooks, crashes>>
      /\ UNCHANGED <<prep, deletion, pending, hooks, crashes, primary, to, disposed, actors>>
      /\ locked' \in BOOLEAN /\ phase[m] \notin InQueue
  <2>1. locked \in BOOLEAN
    BY DEF StartInv, TypeOK
  <2>2. QED
    BY <2>1 DEF MessageHooks, Requests, journalVars, startVars, deletionVars, sessionVars, InQueue
<1>2. ASSUME NEW end \in Ended, Moved(m, end) PROVE StartInv'
  <2>1. Fits(m)' /\ end \in Phases /\ end \notin {"ensured", "decided", "settling", "blocked", "joining", "joined"}
    BY <1>1, <1>2, Answers DEF Ended
  <2>2. QED
    BY <1>1, <1>2, <2>1, OnlyMoves
<1>3. ASSUME Objection(m) = "none", NEW where \in {"directed", "ensure"}, Moved(m, where),
             where = "directed" => Named(m) /\ pending = "none"
      PROVE  StartInv'
  <2>1. where \in Phases /\ where \notin {"ensured", "decided", "settling", "blocked", "joining", "joined"}
    BY DEF Phases
  <2>2. phase'[m] = where /\ mark'[m] = mark[m]
    BY <1>1, <1>3, <2>1, Moves DEF StartInv, Ended
  <2>3. ~Withdrawn(m) /\ deletion = "none"
    BY <1>1, <1>3, Objections
  <2>4. where = "directed" => to[m] # 0 /\ actors > 0 /\ Told
    BY <1>1, <1>3 DEF StartInv, Fits, Whole, Readiness, TypeOK, Peopled, Named
  <2>5. Fits(m)
    BY <1>1 DEF StartInv
  <2>6. Fits(m)'
    BY <1>1, <1>3, <2>2, <2>3, <2>4, <2>5, RunStartAssumption DEF Fits, Ended, Between, InQueue, Withdrawn, Told
  <2>7. QED
    BY <1>1, <1>3, <2>1, <2>6, OnlyMoves
<1>4. QED
  BY <1>1, <1>2, <1>3, Objections DEF MessageHooks, Ended

LEMMA MessageStartedStep ==
    ASSUME StartInv, NEW m \in Messages, MessageStarted(m)
    PROVE  StartInv'
<1>1. /\ phase[m] = "started" /\ m \in Requests /\ phase[m] \notin InQueue
      /\ UNCHANGED <<created, actors, primary, installs, prep, pending, startup, queue, disposed, deletion, hooks, crashes>>
      /\ UNCHANGED deletionVars /\ UNCHANGED journalVars /\ UNCHANGED startVars /\ locked' \in BOOLEAN
  <2>1. locked \in BOOLEAN
    BY DEF StartInv, TypeOK
  <2>2. QED
    BY <2>1 DEF MessageStarted, boundVars, Requests, journalVars, startVars, deletionVars, sessionVars, InQueue
<1>2. Fits(m) /\ pending = "none" /\ (primary # 0 => Told)
  <2>1. Fits(m)
    BY <1>1 DEF StartInv
  <2>2. primary # 0 => actors > 0
    BY DEF StartInv, TypeOK
  <2>3. QED
    BY <1>1, <2>1, <2>2 DEF Fits, StartInv, Whole, Readiness, Peopled
<1>3. ASSUME NEW end \in {"cancelled", "refused"}, Moved(m, end), UNCHANGED to PROVE StartInv'
  <2>1. end \in Ended
    BY DEF Ended
  <2>2. Fits(m)' /\ end \in Phases /\ end \notin {"ensured", "decided", "settling", "blocked", "joining", "joined"}
    BY <1>1, <1>3, <2>1, Answers
  <2>3. QED
    BY <1>1, <1>3, <2>2, OnlyMoves
<1>4. ASSUME primary # 0, Objection(m) = "none", NEW where \in {"directed", "content"}, Moved(m, where),
             where = "directed" <=> Named(m),
             to' = [to EXCEPT ![m] = IF Named(m) THEN @ ELSE primary]
      PROVE  StartInv'
  <2>1. where \in Phases /\ where \notin {"ensured", "decided", "settling", "blocked", "joining", "joined"}
    BY DEF Phases
  <2>2. phase'[m] = where /\ mark'[m] = mark[m]
    BY <1>1, <1>4, <2>1, Moves DEF StartInv, Ended
  <2>3. /\ to' \in [Messages -> 0 .. actors] /\ to'[m] # 0
        /\ \A p \in Messages : p # m => to'[p] = to[p]
    BY <1>1, <1>2, <1>4 DEF StartInv, TypeOK, Named
  <2>4. Fits(m)'
    BY <1>1, <1>2, <1>4, <2>2, <2>3, RunStartAssumption, Objections DEF Fits, Ended, Between, InQueue, Withdrawn, Told
  <2>5. queue' \in Seq(Starts) /\ Queued' /\ installs' \in [Entries -> Nat]
    BY <1>1, <1>4, <2>1, SameQueue DEF StartInv, TypeOK
  <2>6. QED
    BY <1>1, <1>4, <2>1, <2>3, <2>4, <2>5, MovesAlone
<1>5. QED
  BY <1>1, <1>3, <1>4, Objections DEF MessageStarted

LEMMA DirectingStep ==
    ASSUME StartInv, NEW m \in Messages, Directing(m)
    PROVE  StartInv'
<1>1. /\ phase[m] = "directed" /\ m \in Requests /\ phase[m] \notin InQueue
      /\ UNCHANGED <<journalVars, startVars, to, disposed, deletionVars, hooks, crashes>>
      /\ UNCHANGED <<prep, deletion, pending, hooks, crashes, primary, to, disposed>>
      /\ locked' \in BOOLEAN
  <2>1. locked \in BOOLEAN
    BY DEF StartInv, TypeOK
  <2>2. QED
    BY <2>1 DEF Directing, Requests, journalVars, startVars, deletionVars, sessionVars, InQueue
<1>2. ASSUME NEW end \in Ended, Moved(m, end) PROVE StartInv'
  <2>1. Fits(m)' /\ end \in Phases /\ end \notin {"ensured", "decided", "settling", "blocked", "joining", "joined"}
    BY <1>1, <1>2, Answers DEF Ended
  <2>2. QED
    BY <1>1, <1>2, <2>1, OnlyMoves
<1>3. ASSUME Moved(m, "content") PROVE StartInv'
  <2>1. "content" \in Phases
    BY DEF Phases
  <2>2. phase'[m] = "content" /\ mark'[m] = mark[m]
    BY <1>1, <1>3, <2>1, Moves DEF StartInv, Ended
  <2>3. Fits(m)
    BY <1>1 DEF StartInv
  <2>4. Fits(m)'
    BY <1>1, <2>2, <2>3, RunStartAssumption DEF Fits, Ended, Between, InQueue, Told
  <2>5. QED
    BY <1>1, <1>3, <2>1, <2>4, OnlyMoves
<1>4. QED
  BY <1>1, <1>2, <1>3, Objections DEF Directing, Ended

LEMMA EnqueueStep ==
    ASSUME StartInv, NEW m \in Messages, Enqueue(m)
    PROVE  StartInv'
<1>1. /\ phase[m] = "content" /\ m \in Requests /\ phase[m] \notin InQueue
      /\ UNCHANGED <<journalVars, startVars, to, disposed, deletionVars, hooks, crashes>>
      /\ UNCHANGED <<prep, deletion, pending, hooks, crashes, primary, to, disposed>>
      /\ locked' \in BOOLEAN
  <2>1. locked \in BOOLEAN
    BY DEF StartInv, TypeOK
  <2>2. QED
    BY <2>1 DEF Enqueue, boundVars, Requests, journalVars, startVars, deletionVars, sessionVars, InQueue
<1>2. PICK end \in Ended : Moved(m, end)
  BY <1>1, Objections DEF Enqueue, ObjectionAtEnd, Ended
<1>3. Fits(m)' /\ end \in Phases /\ end \notin {"ensured", "decided", "settling", "blocked", "joining", "joined"}
  BY <1>1, <1>2, Answers DEF Ended
<1>4. QED
  BY <1>1, <1>2, <1>3, OnlyMoves

LEMMA AskStep ==
    ASSUME StartInv, NEW s \in Starts, Ask(s)
    PROVE  StartInv'
<1>1. /\ phase[s] \in {"idle", "refused", "cancelled"} /\ s \in Requests /\ phase[s] \notin InQueue /\ Moved(s, "asked") /\ "asked" \in Phases
      /\ UNCHANGED <<journalVars, startVars, to, disposed, deletionVars, hooks, crashes>>
      /\ UNCHANGED <<prep, deletion, pending, hooks, crashes, primary, to, disposed>>
      /\ locked' \in BOOLEAN
  <2>1. locked \in BOOLEAN
    BY DEF StartInv, TypeOK
  <2>2. QED
    BY <2>1 DEF Ask, Made, Requests, Phases, journalVars, startVars, deletionVars, sessionVars, InQueue
<1>2. Fits(s)
  BY <1>1 DEF StartInv
<1>3. phase'[s] = "asked" /\ mark'[s] = {}
  BY <1>1, <1>2, Moves DEF StartInv, Fits, Ended
<1>4. Fits(s)'
  BY <1>1, <1>2, <1>3, RunStartAssumption DEF Fits, Ended, Between, InQueue, Withdrawn
<1>5. QED
  BY <1>1, <1>4, OnlyMoves

LEMMA ChooseStep ==
    ASSUME StartInv, NEW s \in Starts, Choose(s)
    PROVE  StartInv'
<1>1. /\ phase[s] = "choosing" /\ s \in Requests /\ phase[s] \notin InQueue
      /\ UNCHANGED <<journalVars, prep, pending, startup, to, disposed, deletionVars, hooks, crashes>>
      /\ UNCHANGED <<created, actors, primary, installs, deletion>>
      /\ locked' \in BOOLEAN
  <2>1. locked \in BOOLEAN
    BY DEF StartInv, TypeOK
  <2>2. QED
    BY <2>1 DEF Choose, Requests, journalVars, deletionVars, sessionVars, InQueue
<1>2. ASSUME NEW end \in Ended, Moved(s, end), UNCHANGED queue PROVE StartInv'
  <2>1. Fits(s)' /\ end \in Phases /\ end \notin {"ensured", "decided", "settling", "blocked", "joining", "joined"}
    BY <1>1, <1>2, Answers DEF Ended
  <2>2. QED
    BY <1>1, <1>2, <2>1, OnlyMoves DEF startVars
<1>3. ASSUME Moved(s, "queued"), queue' = Append(queue, s) PROVE StartInv'
  <2>1. "queued" \in Phases
    BY DEF Phases
  <2>2. phase'[s] = "queued" /\ mark'[s] = mark[s] /\ \A p \in Requests : p # s => phase'[p] = phase[p]
    BY <1>1, <1>3, <2>1, Moves DEF StartInv, Ended
  <2>3. Fits(s)
    BY <1>1 DEF StartInv
  <2>4. Fits(s)'
    BY <1>1, <2>2, <2>3, RunStartAssumption DEF Fits, Ended, Between, InQueue, Told
  <2>5. queue \in Seq(Starts) /\ Queued
    BY DEF StartInv, TypeOK, Whole
  <2>6. /\ queue' \in Seq(Starts) /\ Len(queue) \in Nat
        /\ DOMAIN queue = 1 .. Len(queue) /\ DOMAIN queue' = 1 .. Len(queue) + 1
        /\ queue'[Len(queue) + 1] = s /\ \A i \in DOMAIN queue : queue'[i] = queue[i] /\ queue[i] \in Requests /\ queue[i] # s
    <3>1. \A i \in DOMAIN queue : queue[i] # s
      BY <1>1, <2>5 DEF Queued
    <3>2. \A i \in DOMAIN queue : queue[i] \in Requests
      BY <2>5 DEF Requests
    <3>3. QED
      BY <1>3, <2>5, <3>1, <3>2
  <2>7. Queued'
    <3>0. \A p \in Requests : phase'[p] = "blocked" => queue' # <<>> /\ p = Head(queue')
      BY <2>2, <2>5, <2>6 DEF Queued
    <3>1. \A i \in DOMAIN queue' : i \in DOMAIN queue \/ i = Len(queue) + 1
      BY <2>6
    <3>2. \A i \in DOMAIN queue' : phase'[queue'[i]] \in InQueue
      BY <2>2, <2>5, <2>6, <3>1 DEF Queued, InQueue
    <3>3. \A i, j \in DOMAIN queue' : queue'[i] = queue'[j] => i = j
      BY <2>5, <2>6, <3>1 DEF Queued
    <3>4. QED
      BY <3>0, <3>2, <3>3 DEF Queued
  <2>8. installs' \in [Entries -> Nat] /\ to' \in [Messages -> 0 .. actors]
    BY <1>1 DEF StartInv, TypeOK
  <2>9. QED
    BY <1>1, <1>3, <2>1, <2>4, <2>6, <2>7, <2>8, MovesAlone
<1>4. QED
  BY <1>1, <1>2, <1>3 DEF Choose, Ended

LEMMA TakeTurnStep ==
    ASSUME StartInv, NEW s \in Starts, TakeTurn(s)
    PROVE  StartInv'
<1>1. /\ phase[s] = "queued" /\ s \in Requests /\ queue # <<>> /\ s = Head(queue)
      /\ UNCHANGED <<journalVars, prep, pending, startup, to, disposed, deletionVars, hooks, crashes>>
      /\ UNCHANGED <<created, actors, primary, installs, deletion>>
      /\ locked' \in BOOLEAN
  <2>1. locked \in BOOLEAN
    BY DEF StartInv, TypeOK
  <2>2. QED
    BY <2>1 DEF TakeTurn, boundVars, Requests, journalVars, deletionVars, sessionVars
<1>2. installs' \in [Entries -> Nat] /\ to' \in [Messages -> 0 .. actors]
  BY <1>1 DEF StartInv, TypeOK
<1>3. ASSUME Withdrawn(s), Moved(s, Objection(s)), queue' = Tail(queue) PROVE StartInv'
  <2>1. Objection(s) \in Ended
    BY <1>1, <1>3, Objections DEF Ended
  <2>2. Fits(s)' /\ Objection(s) \in Phases /\ Objection(s) \notin {"ensured", "decided", "settling", "blocked", "joining", "joined"}
    BY <1>1, <1>3, <2>1, Answers DEF Ended
  <2>3. queue' \in Seq(Starts) /\ Queued'
    BY <1>1, <1>3, <2>1, NextInQueue
  <2>4. QED
    BY <1>1, <1>2, <1>3, <2>2, <2>3, MovesAlone
<1>4. ASSUME ~Withdrawn(s), NEW where \in {"inHook", "blocked"}, Moved(s, where), UNCHANGED queue PROVE StartInv'
  <2>1. where \in Phases /\ where \notin {"ensured", "decided", "joining", "joined"} /\ where \in InQueue
    BY DEF Phases, InQueue
  <2>2. phase'[s] = where /\ mark'[s] = mark[s]
    BY <1>1, <1>4, <2>1, Moves DEF StartInv, Ended
  <2>3. Fits(s)
    BY <1>1 DEF StartInv
  <2>4. Fits(s)'
    BY <1>1, <2>2, <2>3, RunStartAssumption DEF Fits, Ended, Between, InQueue, Told
  <2>5. QED
    BY <1>1, <1>4, <2>1, <2>4, OnlyMoves DEF startVars
<1>5. QED
  BY <1>3, <1>4 DEF TakeTurn

LEMMA StartInRunStep ==
    ASSUME StartInv, NEW s \in Starts, StartInRun(s)
    PROVE  StartInv'
<1>1. /\ phase[s] \in {"inHook", "inWorkspace", "inInstall"} /\ s \in Requests /\ queue # <<>> /\ s = Head(queue)
      /\ UNCHANGED <<created, actors, primary, prep, pending, startup, to, disposed, deletionVars, hooks, crashes>>
      /\ UNCHANGED deletion
  BY DEF StartInRun, Requests, deletionVars
<1>2. to' \in [Messages -> 0 .. actors] /\ locked' \in BOOLEAN /\ installs' \in [Entries -> Nat]
  <2>1. locked \in BOOLEAN /\ installs \in [Entries -> Nat] /\ to \in [Messages -> 0 .. actors]
    BY DEF StartInv, TypeOK
  <2>2. locked' \in BOOLEAN
    BY <2>1 DEF StartInRun
  <2>3. installs' = installs \/ installs' = [installs EXCEPT ![EntryOf[s]] = @ + 1]
    BY DEF StartInRun, InstalledInVain, InstalledFor
  <2>4. QED
    BY <1>1, <2>1, <2>2, <2>3, RunStartAssumption
<1>6. Told
  BY <1>1 DEF StartInv, Fits, InQueue
<1>3. ASSUME NEW end \in Ended, Moved(s, end), queue' = Tail(queue) PROVE StartInv'
  <2>1. Fits(s)' /\ end \in Phases /\ end \notin {"ensured", "decided", "settling", "blocked", "joining", "joined"}
    BY <1>1, <1>3, Answers DEF Ended
  <2>2. queue' \in Seq(Starts) /\ Queued'
    BY <1>1, <1>3, <2>1, NextInQueue
  <2>3. QED
    BY <1>1, <1>2, <1>3, <1>6, <2>1, <2>2, MovesAlone
<1>4. ASSUME NEW where \in {"inWorkspace", "inInstall"}, Moved(s, where), UNCHANGED queue PROVE StartInv'
  <2>1. where \in Phases /\ where \notin {"ensured", "decided", "settling", "blocked", "joining", "joined"} /\ where \in InQueue
    BY DEF Phases, InQueue
  <2>2. phase'[s] = where /\ mark'[s] = mark[s]
    BY <1>1, <1>4, <2>1, Moves DEF StartInv, Ended
  <2>3. Fits(s)
    BY <1>1 DEF StartInv
  <2>4. Fits(s)'
    BY <1>1, <2>2, <2>3, RunStartAssumption DEF Fits, Ended, Between, InQueue, Told
  <2>5. queue' \in Seq(Starts) /\ Queued'
    BY <1>1, <1>4, <2>1, SameQueue
  <2>6. QED
    BY <1>1, <1>2, <1>4, <1>6, <2>1, <2>4, <2>5, MovesAlone
<1>5. QED
  BY <1>1, <1>3, <1>4, Objections DEF StartInRun, Ended

\* A request that withdrew leaves the preparation; the last one that waits for it cancels it.
LEMMA GiveUpStep ==
    ASSUME StartInv, NEW o \in Requests, GiveUp(o)
    PROVE  StartInv'
<1>1. /\ GivesUp(o) /\ Moved(o, Objection(o)) /\ prep' = Without(o)
      /\ queue' = IF phase[o] = "blocked" THEN Tail(queue) ELSE queue
      /\ UNCHANGED <<created, actors, primary, installs, pending, startup, to, disposed, deletionVars, hooks, crashes>>
      /\ UNCHANGED <<locked, deletion>>
  BY DEF GiveUp, journalVars, sessionVars, boundVars, deletionVars
<1>2. /\ Objection(o) \in Ended /\ Objection(o) \in Phases
      /\ Objection(o) \notin {"ensured", "decided", "settling", "joining", "joined", "blocked"}
      /\ Withdrawn(o) /\ phase[o] \in {"settling", "joining", "joined", "blocked"}
  BY <1>1, Objections DEF GivesUp, Ended, Phases
<1>3. locked' \in BOOLEAN /\ installs' \in [Entries -> Nat] /\ to' \in [Messages -> 0 .. actors]
  <2>1. locked \in BOOLEAN /\ installs \in [Entries -> Nat] /\ to \in [Messages -> 0 .. actors]
    BY DEF StartInv, TypeOK
  <2>2. QED
    BY <1>1, <2>1
<1>4. /\ prep' \in Preparations /\ prep'.owner = prep.owner /\ prep'.at = prep.at
      /\ prep'.waiters = prep.waiters \ {o}
      /\ prep'.cut = IF prep.cut = "no" /\ prep.waiters = {o} THEN "left" ELSE prep.cut
  BY <1>1, Prepares DEF StartInv
<1>5. Fits(o)
  BY DEF StartInv
<1>6. phase'[o] = Objection(o) /\ mark'[o] = {}
  BY <1>1, <1>2, Moves DEF StartInv
<1>7. Fits(o)'
  BY <1>1, <1>2, <1>4, <1>5, <1>6 DEF Fits, Ended, Between, InQueue
<1>8. prep' = NoPrep <=> prep = NoPrep
  <2>1. CASE prep = NoPrep
    <3>1. prep.waiters = {} /\ prep.cut = "no" /\ prep' \in Preparations /\ prep \in Preparations
      BY <1>4, <2>1, Prepares DEF StartInv
    <3>2. prep' = prep
      BY <1>1, <3>1 DEF Without, CancelledBy, Preparations
    <3>3. QED
      BY <3>2
  <2>2. CASE prep # NoPrep /\ o \in prep.waiters
    <3>1. prep' = NoPrep => prep.owner = "none" /\ prep.at = "none" /\ prep'.cut = "no" /\ prep'.waiters = {}
      BY <1>4, Prepares DEF StartInv
    <3>2. prep' # NoPrep
      BY <1>4, <2>2, <3>1
    <3>3. QED
      BY <2>2, <3>2
  <2>3. CASE prep # NoPrep /\ o \notin prep.waiters
    <3>1. prep \in Preparations /\ prep.waiters \ {o} = prep.waiters /\ prep.waiters # {o}
      BY <2>3 DEF StartInv, TypeOK, Preparations
    <3>2. prep' = prep
      BY <1>1, <3>1 DEF Without, CancelledBy, Preparations
    <3>3. QED
      BY <2>3, <3>2
  <2>4. QED
    BY <2>1, <2>2, <2>3
<1>9. queue' \in Seq(Starts) /\ Queued'
  <2>1. CASE phase[o] = "blocked"
    <3>1. queue # <<>> /\ o = Head(queue)
      BY <2>1 DEF StartInv, Whole, Queued
    <3>2. QED
      BY <1>1, <1>2, <2>1, <3>1, NextInQueue
  <2>2. CASE phase[o] # "blocked"
    BY <1>1, <1>2, <2>2, SameQueue DEF InQueue
  <2>3. QED
    BY <2>1, <2>2
<1>10. prep'.cut = "no" /\ prep' # NoPrep => prep'.waiters # {}
  BY <1>4, <1>8 DEF StartInv, TypeOK
<1>11. prep'.cut = prep.cut \/ (prep'.cut = "left" /\ phase[o] \in {"joining", "joined"} /\ Withdrawn(o))
  BY <1>2, <1>4, <1>5 DEF Fits
<1>12. prep'.cut = "left" => prep'.waiters = {}
  BY <1>4 DEF StartInv, Whole, Owners
<1>13. prep'.waiters \subseteq prep.waiters \cup {o} /\ prep.waiters \subseteq prep'.waiters \cup {o}
  BY <1>4
<1>14. UNCHANGED deletionVars
  BY <1>1
<1>15. \A p \in Messages : p # o => to'[p] = to[p]
  BY <1>1
<1>16. QED
  BY <1>1, <1>2, <1>3, <1>4, <1>7, <1>8, <1>9, <1>10, <1>11, <1>12, <1>13, <1>14, <1>15, RequestMoves

\* A request that finds no preparation begins one.
LEMMA Begins ==
    ASSUME StartInv, NEW o \in Requests, phase[o] \in Between, prep = NoPrep,
           NEW at \in {"parameters", "workspace", "lifecycle"}, prep' = Begun(o, at), Moved(o, "joined"),
           UNCHANGED <<actors, primary, installs, pending, queue, to, sessionVars, deletionVars, hooks, crashes>>,
           created' \in BOOLEAN, startup' \in {"none", "preparing", "failed"}
    PROVE  /\ TypeOK' /\ Calm' /\ Queued' /\ \A p \in Requests : Fits(p)'
           /\ prep' # NoPrep /\ prep'.owner = o /\ prep'.at = at /\ prep'.cut = "no"
<1> USE DEF StartInv
<1>1. "joined" \in Phases
  BY DEF Phases
<1>2. /\ phase' \in [Requests -> Phases] /\ mark' \in [Requests -> SUBSET {"gone", "cut", "stopped"}]
      /\ phase'[o] = "joined" /\ mark'[o] = mark[o]
      /\ \A p \in Requests : p # o => phase'[p] = phase[p]
      /\ \A p \in Requests : mark'[p] = IF phase'[p] \in Ended THEN {} ELSE mark[p]
  BY <1>1, Moves DEF Ended
<1>3. /\ prep' \in Preparations /\ prep' # NoPrep
      /\ prep'.owner = o /\ prep'.at = at /\ prep'.waiters = {o} /\ prep'.cut = "no"
      /\ prep.waiters = {} /\ prep.cut = "no"
  BY Prepares
<1>4. \A p \in Requests : p # o => mark'[p] = mark[p]
  BY <1>2 DEF Fits
<1>5. UNCHANGED <<disposed, locked, deletion, intent, archived>>
  BY DEF sessionVars, deletionVars
<1>6. ASSUME NEW p \in Requests PROVE Fits(p)'
  <2>1. Fits(p)
    OBVIOUS
  <2>2. CASE p = o
    BY <1>2, <1>3, <1>5, <2>1, <2>2 DEF Fits, Ended, Between, InQueue
  <2>3. CASE p # o
    BY <1>2, <1>3, <1>4, <1>5, <2>1, <2>3 DEF Fits, Withdrawn, Told
  <2>4. QED
    BY <2>2, <2>3
<1>7. TypeOK'
  <2>1. \A p \in prep'.waiters : phase'[p] \in {"joining", "joined"}
    BY <1>2, <1>3
  <2>2. QED
    BY <1>2, <1>3, <1>5, <2>1 DEF TypeOK, Phases, Preparations
<1>8. Calm'
  <2>1. ~Withdrawn(o)
    BY DEF Fits
  <2> SUFFICES ASSUME NEW q \in Requests, NEW p \in Requests, phase'[q] \in {"ensured", "decided"} PROVE ~GivesUp(p)'
    BY DEF Calm
  <2>2. q # o /\ phase[q] \in {"ensured", "decided"}
    BY <1>2
  <2>3. p # o => (GivesUp(p)' <=> GivesUp(p))
    BY <1>2, <1>4 DEF GivesUp, Withdrawn
  <2>4. p = o => ~GivesUp(p)'
    BY <1>2, <2>1 DEF GivesUp, Withdrawn
  <2>5. QED
    BY <2>2, <2>3, <2>4 DEF Whole, Calm
<1>9. Queued'
  BY <1>1, SameQueue DEF Between, InQueue
<1>10. QED
  BY <1>3, <1>6, <1>7, <1>8, <1>9

\* A request that joins a preparation that is not cancelled for it.
LEMMA Joins ==
    ASSUME StartInv, NEW o \in Requests, phase[o] \in Between, o \notin Starts, prep # NoPrep, prep.cut = "no",
           NEW where \in {"joining", "joined"}, Moved(o, where), prep' = [prep EXCEPT !.waiters = @ \cup {o}],
           UNCHANGED <<created, actors, primary, installs, pending, startup, queue, to, sessionVars, deletionVars, hooks, crashes>>
    PROVE  StartInv'
<1>1. where \in Phases /\ where \notin {"ensured", "decided", "settling", "blocked"}
  BY DEF Phases
<1>2. /\ phase'[o] = where /\ mark'[o] = mark[o]
  BY <1>1, Moves DEF StartInv, Ended
<1>3. prep' \in Preparations /\ prep'.owner = prep.owner /\ prep'.at = prep.at /\ prep'.waiters = prep.waiters \cup {o} /\ prep'.cut = "no"
  BY Prepares DEF StartInv
<1>4. prep' # NoPrep
  BY <1>3, Prepares DEF StartInv
<1>5. Fits(o) /\ ~Withdrawn(o)
  BY DEF StartInv, Fits
<1>6. UNCHANGED <<disposed, locked, deletion>> /\ locked \in BOOLEAN
  BY DEF sessionVars, deletionVars, StartInv, TypeOK
<1>7. Fits(o)'
  BY <1>2, <1>3, <1>5, <1>6 DEF Fits, Ended, Between, InQueue
<1>8. queue' \in Seq(Starts) /\ Queued'
  BY <1>1, SameQueue DEF Between, InQueue
<1>9. locked' \in BOOLEAN /\ installs' \in [Entries -> Nat] /\ to' \in [Messages -> 0 .. actors]
  BY <1>6 DEF StartInv, TypeOK
<1>10. prep'.waiters # {} /\ prep'.waiters \subseteq prep.waiters \cup {o} /\ prep.waiters \subseteq prep'.waiters \cup {o}
  BY <1>3
<1>11. QED
  BY <1>1, <1>3, <1>4, <1>5, <1>6, <1>7, <1>8, <1>9, <1>10, RequestMoves

LEMMA EnsureRunStep ==
    ASSUME StartInv, NEW m \in Messages, EnsureRun(m)
    PROVE  StartInv'
<1>1. /\ phase[m] \in {"ensure", "ensured"} /\ m \in Requests /\ phase[m] \in Between /\ phase[m] \notin InQueue
      /\ UNCHANGED <<actors, primary, installs, pending, startup, queue, sessionVars, deletionVars, hooks, boundVars>>
      /\ UNCHANGED <<disposed, locked, deletion, intent, archived, crashes>>
  BY DEF EnsureRun, Requests, Between, InQueue, sessionVars, deletionVars, boundVars
<1>2. Fits(m) /\ ~Withdrawn(m) /\ m \notin Starts /\ locked \in BOOLEAN
  BY <1>1, RunStartAssumption DEF StartInv, Fits, TypeOK
<1>3. UNCHANGED <<journalVars, startVars, to, disposed, deletionVars, hooks, crashes>> <=> UNCHANGED <<created, prep, to>>
  BY <1>1 DEF journalVars, startVars
<1>4. ASSUME Moved(m, "settling"), UNCHANGED <<created, prep, to>> PROVE StartInv'
  <2>1. "settling" \in Phases
    BY DEF Phases
  <2>2. phase'[m] = "settling" /\ mark'[m] = mark[m]
    BY <1>1, <1>4, <2>1, Moves DEF StartInv, Ended
  <2>3. Fits(m)'
    BY <1>1, <1>2, <1>4, <2>2 DEF Fits, Ended, Between, InQueue
  <2>4. locked' \in BOOLEAN
    BY <1>1, <1>2
  <2>5. phase[m] \notin {"joining", "joined"}
    BY <1>1
  <2>6. QED
    BY <1>1, <1>2, <1>3, <1>4, <2>1, <2>3, <2>4, <2>5, OnlyMoves
<1>5. ASSUME NEW end \in Ended, Moved(m, end), UNCHANGED <<created, prep, to>> PROVE StartInv'
  <2>1. phase[m] \notin {"joining", "joined"} /\ locked' \in BOOLEAN
    BY <1>1, <1>2
  <2>2. Fits(m)' /\ end \in Phases /\ end \notin {"ensured", "decided", "settling", "blocked", "joining", "joined"}
    BY <1>1, <1>5, <2>1, Answers DEF Ended
  <2>3. QED
    BY <1>1, <1>3, <1>5, <2>1, <2>2, OnlyMoves
<1>6. ASSUME Continue(m), deletion = "none", prep # NoPrep => prep.cut = "no" PROVE StartInv'
  <2>1. ~archived
    BY <1>6 DEF StartInv, Whole, Deletes
  <2>2. ASSUME Ready, NEW where \in {"directed", "content"}, Moved(m, where), where = "directed" <=> Named(m),
               to' = [to EXCEPT ![m] = IF Named(m) THEN @ ELSE primary], UNCHANGED <<created, prep>>
        PROVE  StartInv'
    <3>1. where \in Phases /\ where \notin {"ensured", "decided", "settling", "blocked", "joining", "joined"}
      BY DEF Phases
    <3>2. phase'[m] = where /\ mark'[m] = mark[m]
      BY <1>1, <2>2, <3>1, Moves DEF StartInv, Ended
    <3>3. /\ to' \in [Messages -> 0 .. actors] /\ to'[m] # 0
          /\ \A p \in Messages : p # m => to'[p] = to[p]
      BY <1>1, <1>2, <2>2 DEF StartInv, TypeOK, Ready, Named
    <3>4. Told /\ pending = "none"
      BY <2>2 DEF Ready, StartInv, Whole, Readiness, TypeOK, Peopled
    <3>5. Fits(m)'
      BY <1>1, <1>2, <2>2, <3>2, <3>3, <3>4 DEF Fits, Ended, Between, InQueue, Withdrawn, Told
    <3>6. queue' \in Seq(Starts) /\ Queued' /\ installs' \in [Entries -> Nat] /\ locked' \in BOOLEAN
      BY <1>1, <1>2, <2>2, <3>1, SameQueue DEF StartInv, TypeOK
    <3>7. phase[m] \notin {"joining", "joined"}
      BY <1>1
    <3>8. QED
      BY <1>1, <2>2, <3>1, <3>3, <3>5, <3>6, <3>7, MovesAlone
  <2>3. ASSUME ~Ready, prep = NoPrep, created' = TRUE, NEW at \in {"workspace", "lifecycle"}, prep' = Begun(m, at),
               at = "workspace" <=> pending = "none", Moved(m, "joined"), UNCHANGED to
        PROVE  StartInv'
    <3>1. /\ TypeOK' /\ Calm' /\ Queued' /\ \A p \in Requests : Fits(p)'
          /\ prep' # NoPrep /\ prep'.owner = m /\ prep'.at = at /\ prep'.cut = "no"
      <4>1. startup' \in {"none", "preparing", "failed"} /\ created' \in BOOLEAN /\ at \in {"parameters", "workspace", "lifecycle"}
        BY <1>1, <2>3 DEF StartInv, TypeOK
      <4>2. QED
        BY <1>1, <2>3, <4>1, Begins
    <3>2. Deletes' /\ Readiness'
      BY <1>1, <2>1, <2>3 DEF StartInv, Whole, Deletes, Readiness, Told, Peopled
    <3>3. Owners'
      BY <1>1, <1>2, <2>3, <3>1 DEF Owners, Ready
    <3>4. Shown'
      BY <1>1, <2>3 DEF StartInv, Whole, Shown
    <3>5. QED
      BY <3>1, <3>2, <3>3, <3>4 DEF StartInv, Whole
  <2>4. ASSUME prep # NoPrep, prep' = [prep EXCEPT !.waiters = @ \cup {m}], Moved(m, "joined"), UNCHANGED <<created, to>>
        PROVE  StartInv'
    BY <1>1, <1>2, <1>6, <2>4, Joins
  <2>5. QED
    BY <1>6, <2>2, <2>3, <2>4 DEF Continue
<1>7. phase[m] = "ensured" => prep.cut = "no"
  BY <1>2 DEF Fits
<1>8. CASE phase[m] = "ensure" /\ prep = NoPrep /\ Continue(m)
  BY <1>2, <1>6, <1>8 DEF Fits
<1>9. CASE /\ phase[m] = "ensure" /\ prep # NoPrep
           /\ IF IsCancelled(prep)
              THEN Moved(m, "settling") /\ UNCHANGED prep
              ELSE Moved(m, "joining") /\ prep' = [prep EXCEPT !.waiters = @ \cup {m}]
           /\ UNCHANGED <<created, to>>
  BY <1>1, <1>2, <1>4, <1>9, Joins DEF IsCancelled
<1>10. CASE /\ phase[m] = "ensured"
            /\ IF Objection(m) # "none" THEN Moved(m, Objection(m)) /\ UNCHANGED <<created, prep, to>>
               ELSE Continue(m)
  BY <1>1, <1>5, <1>6, <1>7, <1>10, Objections DEF Ended
<1>11. QED
  BY <1>8, <1>9, <1>10 DEF EnsureRun

LEMMA StartPackageStep ==
    ASSUME StartInv, NEW s \in Starts, StartPackage(s)
    PROVE  StartInv'
<1>1. /\ phase[s] \in {"asked", "decided"} /\ s \in Requests /\ phase[s] \in Between /\ phase[s] \notin InQueue
      /\ phase[s] \notin {"joining", "joined"}
      /\ UNCHANGED <<created, actors, primary, installs, pending, queue, to, sessionVars, deletionVars, hooks, boundVars>>
      /\ UNCHANGED <<disposed, locked, deletion, intent, archived, crashes>>
  BY DEF StartPackage, Requests, Between, InQueue, journalVars, sessionVars, deletionVars, boundVars
<1>2. Fits(s) /\ ~Withdrawn(s) /\ s \notin Messages /\ locked' \in BOOLEAN
  <2>1. locked \in BOOLEAN /\ Fits(s)
    BY <1>1 DEF StartInv, TypeOK
  <2>2. QED
    BY <1>1, <2>1, RunStartAssumption DEF Fits
<1>3. ASSUME UNCHANGED <<prep, startup>>
      PROVE  UNCHANGED <<journalVars, startVars, to, disposed, deletionVars, hooks, crashes>>
  BY <1>1, <1>3 DEF journalVars, startVars
<1>4. ASSUME NEW where \in {"settling", "choosing"}, Moved(s, where), UNCHANGED <<prep, startup>>, where = "choosing" => Told
      PROVE  StartInv'
  <2>1. where \in Phases /\ where \notin {"ensured", "decided", "blocked", "joining", "joined"}
    BY DEF Phases
  <2>2. phase'[s] = where /\ mark'[s] = mark[s]
    BY <1>1, <1>4, <2>1, Moves DEF StartInv, Ended
  <2>3. Fits(s)'
    BY <1>1, <1>2, <1>4, <2>2 DEF Fits, Ended, Between, InQueue, Told
  <2>4. QED
    BY <1>1, <1>2, <1>3, <1>4, <2>1, <2>3, OnlyMoves
<1>5. ASSUME Moved(s, "refused"), UNCHANGED <<prep, startup>> PROVE StartInv'
  <2>1. "refused" \in Ended
    BY DEF Ended
  <2>2. Fits(s)' /\ "refused" \in Phases
    BY <1>1, <1>5, <2>1, Answers
  <2>3. QED
    BY <1>1, <1>2, <1>3, <1>5, <2>2, OnlyMoves
<1>6. ASSUME prep = NoPrep, ~RunStarted, prep' = Begun(s, "parameters"), startup' = "preparing", Moved(s, "joined") PROVE StartInv'
  <2>1. /\ TypeOK' /\ Calm' /\ Queued' /\ \A p \in Requests : Fits(p)'
        /\ prep' # NoPrep /\ prep'.owner = s /\ prep'.at = "parameters" /\ prep'.cut = "no"
    <3>1. created' \in BOOLEAN
      BY <1>1 DEF StartInv, TypeOK
    <3>2. QED
      BY <1>1, <1>6, <3>1, Begins
  <2>2. pending = "none" => primary = 0
    <3>1. pending = "none" => archived \/ ~(actors > 0)
      BY <1>6 DEF RunStarted, StartInv, Whole, Readiness, Peopled
    <3>2. QED
      BY <3>1 DEF StartInv, Whole, Deletes, TypeOK
  <2>3. Deletes' /\ Readiness'
    BY <1>1 DEF StartInv, Whole, Deletes, Readiness, Told, Peopled
  <2>4. Owners'
    BY <1>1, <1>2, <2>1, <2>2 DEF Owners
  <2>5. Shown'
    BY <2>1 DEF Shown
  <2>6. QED
    BY <2>1, <2>3, <2>4, <2>5 DEF StartInv, Whole
<1>7. RunStarted => Told
  BY DEF RunStarted, StartInv, Whole, Readiness, Peopled
<1>8. CASE phase[s] = "asked" /\ IsCancelled(prep) /\ Moved(s, "settling") /\ UNCHANGED <<prep, startup>>
  BY <1>4, <1>8
<1>9. CASE CASE RunStarted /\ EntryOf[s] \notin Embeddable -> Moved(s, "refused") /\ UNCHANGED <<prep, startup>>
             [] RunStarted /\ EntryOf[s] \in Embeddable -> Moved(s, "choosing") /\ UNCHANGED <<prep, startup>>
             [] ~RunStarted /\ prep # NoPrep -> Moved(s, "refused") /\ UNCHANGED <<prep, startup>>
             [] OTHER -> /\ prep' = Begun(s, "parameters") /\ startup' = "preparing"
                         /\ Moved(s, "joined")
  BY <1>4, <1>5, <1>6, <1>7, <1>9
<1>10. QED
  BY <1>8, <1>9 DEF StartPackage

\* In a quiet state nobody is about to go on, and nobody who waits was withdrawn.
LEMMA Quietness ==
    ASSUME Quiet, NEW o \in Requests
    PROVE  phase[o] \notin {"ensure", "ensured", "started", "asked", "decided"} /\ ~GivesUp(o)
BY DEF Quiet

\* Where a request is after the preparation settled, for all who waited for it and for all others.
LEMMA SettledParts ==
    ASSUME StartInv, Quiet, NEW outcome \in {"ready", "refused", "cancelled"}, Settled(outcome),
           outcome = "ready" => pending' = "none" /\ Told',
           Told => Told', pending = "none" /\ primary # 0 => pending' = "none",
           UNCHANGED <<primary, queue, to, disposed, deletion>>
    PROVE  (\A p \in Requests : Fits(p)') /\ Calm' /\ Queued'
<1>1. /\ phase' \in [Requests -> Phases] /\ mark' \in [Requests -> SUBSET {"gone", "cut", "stopped"}]
      /\ prep' = NoPrep /\ NoPrep.waiters = {} /\ NoPrep.cut = "no"
      /\ \A p \in Requests : phase'[p] = IF outcome # "ready" /\ p \in prep.waiters THEN outcome ELSE GoesOn(p)
      /\ \A p \in Requests : mark'[p] = IF phase'[p] \in Ended THEN {} ELSE mark[p]
  BY Settles, Prepares DEF StartInv
<1>2. ASSUME NEW p \in Requests PROVE Fits(p)' /\ ~GivesUp(p)'
  <2>1. Fits(p) /\ phase[p] \notin Between /\ ~GivesUp(p) /\ (p \in Messages \/ p \in Starts) /\ (p \in Messages => p \notin Starts)
    BY Quietness, RunStartAssumption DEF StartInv, Between, Requests
  <2>2. CASE phase'[p] \in Ended
    <3>1. mark'[p] = {} /\ p \notin prep'.waiters
      BY <1>1, <2>2
    <3>2. QED
      BY <2>1, <2>2, <3>1 DEF Fits, GivesUp, Withdrawn, Ended, Between, InQueue
  <2>3. CASE phase'[p] \notin Ended
    <3>1. mark'[p] = mark[p] /\ p \notin prep'.waiters
      BY <1>1, <2>3
    <3>2. \/ phase[p] \in {"joining", "joined", "settling", "blocked"}
          \/ phase[p] \notin {"joining", "joined", "settling", "blocked"} /\ phase'[p] = phase[p]
      BY <1>1, <2>1, <2>3 DEF GoesOn, Fits, Ended
    <3>3. CASE phase[p] \notin {"joining", "joined", "settling", "blocked"} /\ phase'[p] = phase[p]
      <4>1. Fits(p)'
        BY <1>1, <2>1, <3>1, <3>3 DEF Fits, Withdrawn, Between
      <4>2. QED
        BY <3>3, <4>1 DEF GivesUp
    <3>4. CASE phase[p] \in {"joining", "joined", "settling", "blocked"}
      <4>1. ~Withdrawn(p)
        BY <2>1, <3>4 DEF GivesUp
      <4>2. phase[p] \in {"joining", "joined"} => outcome = "ready"
        BY <1>1, <2>1, <2>3 DEF Fits, Ended
      <4>3. \/ phase[p] = "joining" /\ phase'[p] = "ensured"
            \/ phase[p] = "joined" /\ p \in Messages /\ phase'[p] = "started"
            \/ phase[p] = "settling" /\ p \in Messages /\ phase'[p] = "ensured"
            \/ phase[p] = "settling" /\ p \notin Messages /\ phase'[p] = "decided"
            \/ phase[p] = "blocked" /\ phase'[p] = "inHook"
        BY <1>1, <2>1, <2>3, <3>4, <4>2 DEF GoesOn, Fits, Ended
      <4>4. Fits(p)'
        BY <1>1, <2>1, <3>1, <4>1, <4>2, <4>3 DEF Fits, Withdrawn, Ended, Between, InQueue
      <4>5. QED
        BY <3>1, <4>1, <4>3, <4>4 DEF GivesUp, Withdrawn
    <3>5. QED
      BY <3>2, <3>3, <3>4
  <2>4. QED
    BY <2>2, <2>3
<1>3. Calm'
  BY <1>2 DEF Calm
<1>4. Queued'
  <2>1. \A i \in DOMAIN queue : queue[i] \in Requests
    BY DEF StartInv, TypeOK, Requests
  <2>2. ASSUME NEW p \in Requests, phase[p] \in InQueue PROVE phase'[p] \in InQueue /\ phase'[p] # "blocked"
    <3>1. p \notin prep.waiters
      BY <2>2 DEF StartInv, Fits, InQueue
    <3>2. QED
      BY <1>1, <2>2, <3>1 DEF GoesOn, InQueue
  <2>3. \A p \in Requests : phase'[p] # "blocked"
    BY <1>1 DEF GoesOn
  <2>4. QED
    BY <2>1, <2>2, <2>3 DEF StartInv, Whole, Queued
<1>5. QED
  BY <1>2, <1>3, <1>4

\* A preparation fails: its waiters are told so, and a start that owned it is shown as failed.
LEMMA Failing ==
    ASSUME StartInv, Quiet, prep # NoPrep, NEW outcome \in {"refused", "cancelled"}, Fails(outcome), locked' \in BOOLEAN,
           UNCHANGED <<installs, pending, hooks>> \/ FailsInstalled \/ FailsTold,
           UNCHANGED <<queue, to, disposed, deletionVars, crashes>>
    PROVE  StartInv'
<1>1. /\ Settled(outcome) /\ startup' = ShownAfterFailure
      /\ UNCHANGED <<created, actors, primary, deletion, intent, archived>>
  BY DEF Fails, deletionVars
<1>2. /\ installs' \in [Entries -> Nat] /\ pending' \in Entries \cup {"none", "plain"} /\ hooks' \in Nat
      /\ Told => Told'
      /\ pending = "none" /\ primary # 0 => pending' = "none"
      /\ pending' = "none" /\ Peopled' => Told'
  <2>1. /\ installs \in [Entries -> Nat] /\ pending \in Entries \cup {"none", "plain"} /\ hooks \in Nat /\ crashes \in Nat
        /\ pending = "none" /\ Peopled => Told
    BY DEF StartInv, TypeOK, Whole, Readiness
  <2>2. CASE UNCHANGED <<installs, pending, hooks>>
    BY <1>1, <2>1, <2>2 DEF Told, Peopled
  <2>3. CASE FailsInstalled
    <3>1. prep.owner \in Starts /\ primary = 0 /\ EntryOf[prep.owner] \in Entries /\ EntryOf[prep.owner] # "none"
      BY <2>3, RunStartAssumption DEF FailsInstalled, StartInv, Whole, Owners
    <3>2. /\ installs' = [installs EXCEPT ![EntryOf[prep.owner]] = @ + 1]
          /\ pending' = EntryOf[prep.owner] /\ UNCHANGED <<hooks, crashes>>
      BY <2>3 DEF FailsInstalled, InstalledFor
    <3>3. QED
      BY <2>1, <3>1, <3>2 DEF Told
  <2>4. CASE FailsTold
    BY <2>1, <2>4 DEF FailsTold, Told
  <2>5. QED
    BY <2>2, <2>3, <2>4
<1>3. (\A p \in Requests : Fits(p)') /\ Calm' /\ Queued'
  <2>1. outcome \in {"ready", "refused", "cancelled"} /\ outcome # "ready"
    OBVIOUS
  <2>2. QED
    BY <1>1, <1>2, <2>1, SettledParts
<1>4. /\ phase' \in [Requests -> Phases] /\ mark' \in [Requests -> SUBSET {"gone", "cut", "stopped"}]
      /\ prep' = NoPrep /\ NoPrep \in Preparations /\ NoPrep.waiters = {} /\ NoPrep.cut = "no" /\ NoPrep.at = "none"
  BY <1>1, Settles, Prepares DEF StartInv
<1>5. startup' \in {"none", "preparing", "failed"} /\ (startup' = "preparing" => startup = "preparing" /\ ~(prep.owner \in Starts /\ ~disposed))
  BY <1>1 DEF ShownAfterFailure, StartInv, TypeOK
<1>6. TypeOK'
  BY <1>1, <1>2, <1>4, <1>5 DEF StartInv, TypeOK, Phases, Preparations
<1>7. Deletes' /\ Readiness'
  BY <1>1, <1>2 DEF StartInv, Whole, Deletes, Readiness
<1>8. Owners'
  BY <1>4 DEF Owners
<1>9. Shown'
  BY <1>5 DEF StartInv, Whole, Shown
<1>10. QED
  BY <1>3, <1>6, <1>7, <1>8, <1>9 DEF StartInv, Whole

LEMMA WorkStopsStep ==
    ASSUME StartInv, WorkStops
    PROVE  StartInv'
<1>1. /\ Quiet /\ prep # NoPrep
      /\ UNCHANGED <<queue, to, disposed, deletionVars, crashes>>
  BY DEF WorkStops
<1>2. locked' \in BOOLEAN
  <2>1. locked \in BOOLEAN
    BY DEF StartInv, TypeOK
  <2>2. QED
    BY <2>1 DEF WorkStops
<1>3. WorkObjection \in {"cancelled", "refused", "none"}
  BY DEF WorkObjection
<1>4. PICK outcome \in {"refused", "cancelled"} : Fails(outcome)
  BY <1>3 DEF WorkStops
<1>5. UNCHANGED <<installs, pending, hooks>> \/ FailsInstalled \/ FailsTold
  BY DEF WorkStops
<1>6. QED
  BY <1>1, <1>2, <1>4, <1>5, Failing

\* The work may only go on for a run that can be used, in a preparation that was not cancelled.
LEMMA WorkAllowed ==
    ASSUME StartInv, NEW at, WorkGoesOn(at)
    PROVE  Quiet /\ prep # NoPrep /\ prep.at = at /\ prep.cut = "no" /\ deletion = "none" /\ ~archived
<1>1. prep.cut = "no" /\ Usable
  BY DEF WorkGoesOn, WorkObjection, StartInv, TypeOK
<1>2. QED
  BY <1>1 DEF WorkGoesOn, Usable, StartInv, Whole, Deletes

\* The work goes on to its next step; an actor that becomes primary is a new one.
LEMMA Working ==
    ASSUME StartInv, Quiet, prep # NoPrep, NEW at \in {"prepare", "workspace", "install", "lifecycle"}, Reaches(at),
           UNCHANGED <<startup, queue, to, sessionVars, deletionVars, hooks, crashes>>,
           created' \in BOOLEAN, installs' \in [Entries -> Nat], pending' \in Entries \cup {"none", "plain"},
           \/ UNCHANGED <<actors, primary, pending>>
           \/ UNCHANGED <<actors, primary>> /\ pending # "none"
           \/ actors' = actors + 1 /\ primary' = actors + 1
    PROVE  /\ TypeOK' /\ (\A p \in Requests : Fits(p)') /\ Calm' /\ Queued' /\ Shown'
           /\ prep' # NoPrep /\ prep'.owner = prep.owner /\ prep'.at = at /\ prep'.cut = prep.cut /\ prep'.waiters = prep.waiters
           /\ actors' \in Nat /\ UNCHANGED <<deletion, intent, archived>>
<1>1. UNCHANGED <<phase, mark, disposed, locked, deletion, intent, archived>>
  BY DEF Reaches, sessionVars, deletionVars
<1>2. prep' \in Preparations /\ prep'.owner = prep.owner /\ prep'.at = at /\ prep'.waiters = prep.waiters /\ prep'.cut = prep.cut
  BY Prepares DEF Reaches, StartInv
<1>3. prep' # NoPrep
  BY <1>2, Prepares DEF StartInv
<1>4. /\ actors \in Nat /\ primary \in 0 .. actors /\ to \in [Messages -> 0 .. actors]
      /\ actors' \in Nat /\ primary' \in 0 .. actors' /\ to' \in [Messages -> 0 .. actors']
  BY DEF StartInv, TypeOK
<1>5. TypeOK'
  <2>1. prep.waiters = prep'.waiters /\ prep'.cut = prep.cut
    BY <1>2
  <2>2. /\ prep.cut = "no" => prep.waiters # {}
        /\ \A o \in prep.waiters : phase[o] \in {"joining", "joined"}
    BY DEF StartInv, TypeOK
  <2>3. QED
    BY <1>1, <1>2, <1>4, <2>1, <2>2 DEF StartInv, TypeOK, Preparations
<1>6. ASSUME NEW p \in Requests PROVE Fits(p)'
  <2>1. Fits(p) /\ phase[p] # "started"
    BY Quietness DEF StartInv
  <2>2. phase[p] \in {"directed", "content"} => p \in Messages
    BY <2>1 DEF Fits, Requests
  <2>3. phase[p] \in {"directed", "content"} => (to[p] = primary' => pending' = "none")
    BY <1>4, <2>1, <2>2 DEF Fits
  <2>4. QED
    BY <1>1, <1>2, <2>1, <2>3 DEF Fits, Withdrawn, Told
<1>7. Calm' /\ Queued'
  BY <1>1 DEF StartInv, Whole, Calm, Queued, GivesUp, Withdrawn
<1>8. Shown'
  BY <1>1, <1>2, <1>3 DEF StartInv, Whole, Shown
<1>9. QED
  BY <1>1, <1>2, <1>3, <1>4, <1>5, <1>6, <1>7, <1>8

LEMMA CheckParametersStep ==
    ASSUME StartInv, CheckParameters
    PROVE  StartInv'
<1>1. /\ Quiet /\ prep # NoPrep /\ prep.at = "parameters" /\ deletion = "none" /\ ~archived
      /\ Reaches("prepare")
      /\ UNCHANGED <<created, actors, primary, installs, pending, startup, hooks, queue, to, sessionVars, deletionVars, crashes>>
  BY WorkAllowed DEF CheckParameters, WorkUnchanged, journalVars, boundVars
<1>2. created' \in BOOLEAN /\ installs' \in [Entries -> Nat] /\ pending' \in Entries \cup {"none", "plain"}
  BY <1>1 DEF StartInv, TypeOK
<1>3. /\ TypeOK' /\ (\A p \in Requests : Fits(p)') /\ Calm' /\ Queued' /\ Shown'
      /\ prep' # NoPrep /\ prep'.owner = prep.owner /\ prep'.at = "prepare" /\ prep'.cut = prep.cut /\ prep'.waiters = prep.waiters
      /\ UNCHANGED <<deletion, intent, archived>>
  BY <1>1, <1>2, Working
<1>4. Deletes' /\ Owners' /\ Readiness'
  BY <1>1, <1>3 DEF StartInv, Whole, Deletes, Owners, Readiness, Told, Peopled
<1>5. QED
  BY <1>3, <1>4 DEF StartInv, Whole

LEMMA CreateRunStep ==
    ASSUME StartInv, CreateRun
    PROVE  StartInv'
<1>1. /\ Quiet /\ prep # NoPrep /\ prep.at = "prepare" /\ deletion = "none" /\ ~archived
      /\ UNCHANGED <<queue, to, sessionVars, deletionVars, disposed, locked, crashes>>
  BY WorkAllowed DEF CreateRun, WorkUnchanged, boundVars, sessionVars
<1>2. prep.owner \in Starts /\ prep.owner \notin Messages
  BY <1>1, RunStartAssumption DEF StartInv, Whole, Owners
<1>3. CASE pending \in {"none", EntryOf[prep.owner]}
  <2>1. created' = TRUE /\ Reaches("workspace") /\ UNCHANGED <<actors, primary, installs, pending, startup, hooks>>
    BY <1>3 DEF CreateRun
  <2>2. created' \in BOOLEAN /\ installs' \in [Entries -> Nat] /\ pending' \in Entries \cup {"none", "plain"}
    BY <2>1 DEF StartInv, TypeOK
  <2>3. /\ TypeOK' /\ (\A p \in Requests : Fits(p)') /\ Calm' /\ Queued' /\ Shown'
        /\ prep' # NoPrep /\ prep'.owner = prep.owner /\ prep'.at = "workspace" /\ prep'.cut = prep.cut /\ prep'.waiters = prep.waiters
        /\ UNCHANGED <<deletion, intent, archived>>
    BY <1>1, <2>1, <2>2, Working
  <2>4. Deletes' /\ Readiness'
    BY <1>1, <2>1, <2>3 DEF StartInv, Whole, Deletes, Readiness, Told, Peopled
  <2>5. Owners'
    BY <1>1, <1>2, <1>3, <2>1, <2>3 DEF StartInv, Whole, Owners
  <2>6. QED
    BY <2>3, <2>4, <2>5 DEF StartInv, Whole
<1>4. CASE pending \notin {"none", EntryOf[prep.owner]}
  <2>1. Fails("refused") /\ UNCHANGED <<installs, pending, hooks>>
    BY <1>4 DEF CreateRun
  <2>2. locked' \in BOOLEAN
    BY <1>1 DEF StartInv, TypeOK
  <2>3. QED
    BY <1>1, <2>1, <2>2, Failing
<1>5. QED
  BY <1>3, <1>4

LEMMA PrepareWorkspaceStep ==
    ASSUME StartInv, PrepareWorkspace
    PROVE  StartInv'
<1>1. /\ Quiet /\ prep # NoPrep /\ prep.at = "workspace" /\ deletion = "none" /\ ~archived
      /\ UNCHANGED <<created, installs, startup, queue, to, sessionVars, deletionVars, hooks, crashes>>
  BY WorkAllowed DEF PrepareWorkspace, WorkUnchanged, boundVars
<1>2. /\ created /\ prep.owner \in Requests /\ actors \in Nat
      /\ pending = "none" => primary = 0
      /\ prep.owner \in Messages => pending = "none"
      /\ prep.owner \in Starts => pending \in {"none", EntryOf[prep.owner]}
  BY <1>1 DEF StartInv, TypeOK, Whole, Owners
<1>3. created' \in BOOLEAN /\ installs' \in [Entries -> Nat] /\ pending \in Entries \cup {"none", "plain"}
  BY <1>1 DEF StartInv, TypeOK
<1>4. Deletes'
  <2>1. UNCHANGED <<intent, archived, deletion>>
    BY <1>1 DEF deletionVars
  <2>2. QED
    BY <1>1, <2>1 DEF StartInv, Whole, Deletes
<1>5. ASSUME prep.owner \in Messages PROVE StartInv'
  <2>1. actors' = actors + 1 /\ primary' = actors + 1 /\ pending' = "plain" /\ Reaches("lifecycle") /\ "lifecycle" # "none"
    BY <1>2, <1>5 DEF PrepareWorkspace, Staffed
  <2>2. /\ TypeOK' /\ (\A p \in Requests : Fits(p)') /\ Calm' /\ Queued' /\ Shown'
        /\ prep'.owner = prep.owner /\ prep'.at = "lifecycle" /\ prep'.cut = prep.cut /\ prep'.waiters = prep.waiters
        /\ UNCHANGED <<deletion, intent, archived>>
    BY <1>1, <1>3, <2>1, Working
  <2>3. Owners' /\ Readiness'
    BY <1>1, <1>2, <2>1, <2>2 DEF StartInv, Whole, Owners, Readiness, Told, Peopled
  <2>4. QED
    BY <1>4, <2>2, <2>3 DEF StartInv, Whole
<1>6. ASSUME prep.owner \in Starts, prep.owner \notin Messages, Installed(prep.owner) PROVE StartInv'
  <2>1. Staffed /\ Reaches("lifecycle") /\ UNCHANGED pending /\ pending # "none"
    BY <1>6, RunStartAssumption DEF PrepareWorkspace, Installed
  <2>2. UNCHANGED <<actors, primary>> \/ (actors' = actors + 1 /\ primary' = actors + 1)
    BY <2>1 DEF Staffed
  <2>3. /\ TypeOK' /\ (\A p \in Requests : Fits(p)') /\ Calm' /\ Queued' /\ Shown'
        /\ prep'.owner = prep.owner /\ prep'.at = "lifecycle" /\ prep'.cut = prep.cut /\ prep'.waiters = prep.waiters
        /\ UNCHANGED <<deletion, intent, archived>>
    BY <1>1, <1>3, <2>1, <2>2, Working
  <2>4. Owners' /\ Readiness'
    BY <1>1, <1>2, <2>1, <2>3 DEF StartInv, Whole, Owners, Readiness, Told, Peopled
  <2>5. QED
    BY <1>4, <2>3, <2>4 DEF StartInv, Whole
<1>7. ASSUME prep.owner \in Starts, prep.owner \notin Messages, ~Installed(prep.owner) PROVE StartInv'
  <2>1. Reaches("install") /\ UNCHANGED <<actors, primary, pending>> /\ pending = "none" /\ primary = 0
    BY <1>2, <1>7 DEF PrepareWorkspace, Installed
  <2>2. /\ TypeOK' /\ (\A p \in Requests : Fits(p)') /\ Calm' /\ Queued' /\ Shown'
        /\ prep' # NoPrep /\ prep'.owner = prep.owner /\ prep'.at = "install" /\ prep'.cut = prep.cut /\ prep'.waiters = prep.waiters
        /\ UNCHANGED <<deletion, intent, archived>>
    BY <1>1, <1>3, <2>1, Working
  <2>3. Owners' /\ Readiness'
    BY <1>1, <1>2, <1>7, <2>1, <2>2 DEF StartInv, Whole, Owners, Readiness, Told, Peopled
  <2>4. QED
    BY <1>4, <2>2, <2>3 DEF StartInv, Whole
<1>8. QED
  BY <1>2, <1>5, <1>6, <1>7 DEF Requests

LEMMA InstallScriptStep ==
    ASSUME StartInv, InstallScript
    PROVE  StartInv'
<1>1. /\ Quiet /\ prep # NoPrep /\ prep.at = "install" /\ deletion = "none" /\ ~archived
      /\ Reaches("lifecycle")
      /\ UNCHANGED <<created, startup, queue, to, sessionVars, deletionVars, hooks, crashes>>
  BY WorkAllowed DEF InstallScript, WorkUnchanged, boundVars
<1>2. created /\ prep.owner \in Starts /\ actors \in Nat /\ primary = 0 /\ EntryOf[prep.owner] \in Entries
  BY <1>1, RunStartAssumption DEF StartInv, TypeOK, Whole, Owners
<1>3. actors' = actors + 1 /\ primary' = actors + 1 /\ pending' = EntryOf[prep.owner] /\ pending' # "none"
  BY <1>2, RunStartAssumption DEF InstallScript, Staffed
<1>4. created' \in BOOLEAN /\ installs' \in [Entries -> Nat] /\ pending' \in Entries \cup {"none", "plain"}
  <2>1. installs' = [installs EXCEPT ![EntryOf[prep.owner]] = @ + 1]
    BY DEF InstallScript, InstalledFor
  <2>2. QED
    BY <1>1, <1>2, <1>3, <2>1 DEF StartInv, TypeOK
<1>5. /\ TypeOK' /\ (\A p \in Requests : Fits(p)') /\ Calm' /\ Queued' /\ Shown'
      /\ prep'.owner = prep.owner /\ prep'.at = "lifecycle" /\ prep'.cut = prep.cut /\ prep'.waiters = prep.waiters
      /\ prep' # NoPrep /\ UNCHANGED <<deletion, intent, archived>>
  BY <1>1, <1>3, <1>4, Working
<1>6. Deletes' /\ Owners' /\ Readiness'
  BY <1>1, <1>2, <1>3, <1>5 DEF StartInv, Whole, Deletes, Owners, Readiness, Told, Peopled
<1>7. QED
  BY <1>5, <1>6 DEF StartInv, Whole

LEMMA CompleteLifecycleStep ==
    ASSUME StartInv, CompleteLifecycle
    PROVE  StartInv'
<1>1. /\ Quiet /\ prep # NoPrep /\ prep.cut = "no" /\ Settled("ready")
      /\ hooks' = hooks + 1 /\ pending' = "none"
      /\ startup' = IF prep.owner \in Starts THEN "none" ELSE startup
      /\ UNCHANGED <<created, actors, primary, installs, queue, to, disposed, locked, deletion, intent, archived, crashes>>
  BY WorkAllowed DEF CompleteLifecycle, journalVars, sessionVars, deletionVars, boundVars
<1>2. hooks' \in Nat /\ hooks' > 0 /\ Told'
  BY <1>1 DEF StartInv, Whole, Readiness, Told, Peopled
<1>3. (\A p \in Requests : Fits(p)') /\ Calm' /\ Queued'
  BY <1>1, <1>2, SettledParts
<1>4. /\ phase' \in [Requests -> Phases] /\ mark' \in [Requests -> SUBSET {"gone", "cut", "stopped"}]
      /\ prep' = NoPrep /\ NoPrep \in Preparations /\ NoPrep.waiters = {} /\ NoPrep.cut = "no" /\ NoPrep.at = "none"
  BY <1>1, Settles, Prepares DEF StartInv
<1>5. startup' \in {"none", "preparing", "failed"} /\ (startup' = "preparing" => startup = "preparing" /\ prep.owner \notin Starts)
  BY <1>1 DEF StartInv, TypeOK
<1>6. TypeOK'
  BY <1>1, <1>4, <1>5 DEF StartInv, TypeOK, Phases, Preparations
<1>7. Deletes' /\ Readiness'
  BY <1>1, <1>2 DEF StartInv, Whole, Deletes, Readiness, Peopled
<1>8. Owners'
  BY <1>4 DEF Owners
<1>9. Shown'
  BY <1>1, <1>5 DEF StartInv, Whole, Shown
<1>10. QED
  BY <1>3, <1>6, <1>7, <1>8, <1>9 DEF StartInv, Whole

\* A step that no request and no preparation notices.
LEMMA Untouched ==
    ASSUME StartInv, Quiet, UNCHANGED <<phase, mark, prep, pending, queue, to, hooks, crashes, disposed>>,
           primary' \in {primary, 0}
    PROVE  (\A p \in Requests : Fits(p)') /\ Calm' /\ Queued'
<1>1. ASSUME NEW p \in Requests PROVE Fits(p)'
  <2>1. Fits(p) /\ phase[p] # "ensure"
    BY Quietness DEF StartInv
  <2>2. QED
    BY <2>1 DEF Fits, Withdrawn, Told
<1>2. Calm' /\ Queued'
  BY DEF StartInv, Whole, Calm, Queued, GivesUp, Withdrawn
<1>3. QED
  BY <1>1, <1>2

\* Marks that callers, stops and the deletion leave.
LEMMA Marking ==
    ASSUME StartInv, Quiet, mark' \in [Requests -> SUBSET {"gone", "cut", "stopped"}],
           UNCHANGED <<phase, pending, primary, queue, to, hooks, crashes>>,
           deletion' = deletion \/ deletion' # "none",
           disposed => disposed',
           prep' \in Preparations, prep'.waiters = prep.waiters,
           \A p \in Requests :
               /\ p \notin UnderWay => mark'[p] = mark[p]
               /\ "cut" \in mark'[p] => "stopped" \in mark'[p] \/ disposed'
               /\ p \in Messages /\ "stopped" \in mark'[p] => "cut" \in mark'[p]
               /\ prep'.cut = "stopped" /\ p \in prep.waiters => "stopped" \in mark'[p]
    PROVE  (\A p \in Requests : Fits(p)') /\ Calm' /\ Queued'
<1>1. ASSUME NEW p \in Requests PROVE Fits(p)'
  <2>1. Fits(p) /\ phase[p] \notin Between
    BY Quietness DEF StartInv, Between
  <2>2. phase[p] \in Ended \cup {"idle"} => p \notin UnderWay
    BY DEF UnderWay
  <2>3. QED
    BY <2>1, <2>2 DEF Fits, Told, Between
<1>2. Calm'
  BY Quietness DEF Calm
<1>3. Queued'
  BY DEF StartInv, Whole, Queued
<1>4. QED
  BY <1>1, <1>2, <1>3

\* Only requests that are under way have a controller.
LEMMA RegisteredUnderWay ==
    ASSUME StartInv
    PROVE  Registered \subseteq UnderWay /\ UnderWay \subseteq Requests
<1>1. \A i \in DOMAIN queue : queue[i] \in Requests /\ phase[queue[i]] \in InQueue
  BY DEF StartInv, TypeOK, Whole, Queued, Requests
<1>2. QED
  BY <1>1 DEF Registered, UnderWay, InQueue, Ended

LEMMA LeaveStep ==
    ASSUME StartInv, NEW o \in Requests, Leave(o)
    PROVE  StartInv'
<1>1. /\ Quiet /\ o \in UnderWay /\ Marked({o}, {"gone"})
      /\ UNCHANGED <<created, actors, primary, installs, prep, pending, startup, queue, phase, to, disposed, locked,
                     deletion, intent, archived, hooks, crashes>>
  BY DEF Leave, journalVars, startVars, sessionVars, deletionVars, boundVars
<1>2. mark' \in [Requests -> SUBSET {"gone", "cut", "stopped"}] /\ \A p \in Requests : mark'[p] = IF p = o THEN mark[p] \cup {"gone"} ELSE mark[p]
  BY <1>1 DEF Marked, StartInv, TypeOK
<1>3. \A p \in Requests : Fits(p)
  BY DEF StartInv
<1>4. (\A p \in Requests : Fits(p)') /\ Calm' /\ Queued'
  <2>1. prep' \in Preparations /\ prep'.waiters = prep.waiters
    BY <1>1 DEF StartInv, TypeOK, Preparations
  <2>2. \A p \in Requests :
            /\ p \notin UnderWay => mark'[p] = mark[p]
            /\ "cut" \in mark'[p] => "stopped" \in mark'[p] \/ disposed'
            /\ p \in Messages /\ "stopped" \in mark'[p] => "cut" \in mark'[p]
            /\ prep'.cut = "stopped" /\ p \in prep.waiters => "stopped" \in mark'[p]
    BY <1>1, <1>2, <1>3 DEF Fits
  <2>3. QED
    BY <1>1, <1>2, <2>1, <2>2, Marking
<1>5. TypeOK'
  BY <1>1, <1>2 DEF StartInv, TypeOK
<1>6. Deletes' /\ Owners' /\ Readiness' /\ Shown'
  BY <1>1 DEF StartInv, Whole, Deletes, Owners, Readiness, Shown, Told, Peopled
<1>7. QED
  BY <1>4, <1>5, <1>6 DEF StartInv, Whole

LEMMA StopRunStep ==
    ASSUME StartInv, StopRun
    PROVE  StartInv'
<1>1. /\ Quiet /\ ~disposed /\ prep' = Cancelled("stopped")
      /\ startup' = IF prep.owner \in Starts /\ startup = "preparing" THEN "failed" ELSE startup
      /\ UNCHANGED <<created, actors, primary, installs, pending, queue, phase, to, disposed, locked,
                     deletion, intent, archived, hooks, crashes>>
  BY DEF StopRun, journalVars, sessionVars, deletionVars
<1>2. mark' = [o \in Requests |-> mark[o] \cup (IF o \in UnderWay THEN {"stopped"} ELSE {})
                                          \cup (IF o \in Registered THEN {"cut"} ELSE {})]
  BY DEF StopRun, StopsRequests
<1>3. mark' \in [Requests -> SUBSET {"gone", "cut", "stopped"}]
  BY <1>2 DEF StartInv, TypeOK
<1>4. /\ prep' \in Preparations /\ prep'.owner = prep.owner /\ prep'.at = prep.at /\ prep'.waiters = prep.waiters
      /\ prep'.cut = IF prep # NoPrep /\ prep.cut = "no" THEN "stopped" ELSE prep.cut
      /\ NoPrep.cut = "no"
  BY <1>1, Prepares DEF StartInv
<1>5. prep.waiters \subseteq UnderWay /\ prep.waiters \subseteq Requests
  BY DEF StartInv, TypeOK, UnderWay, Ended
<1>6. (\A p \in Requests : Fits(p)') /\ Calm' /\ Queued'
  <2>1. ASSUME NEW p \in Requests
        PROVE  /\ p \notin UnderWay => mark'[p] = mark[p]
               /\ "cut" \in mark'[p] => "stopped" \in mark'[p] \/ disposed'
               /\ p \in Messages /\ "stopped" \in mark'[p] => "cut" \in mark'[p]
               /\ prep'.cut = "stopped" /\ p \in prep.waiters => "stopped" \in mark'[p]
    <3>1. Fits(p)
      BY DEF StartInv
    <3>2. p \in UnderWay /\ p \in Messages => p \in Registered
      BY DEF Registered
    <3>3. p \in Registered => p \in UnderWay
      BY RegisteredUnderWay
    <3>4. mark'[p] = mark[p] \cup (IF p \in UnderWay THEN {"stopped"} ELSE {}) \cup (IF p \in Registered THEN {"cut"} ELSE {})
      BY <1>2
    <3>5. QED
      BY <1>1, <1>5, <3>1, <3>2, <3>3, <3>4 DEF Fits
  <2>2. QED
    BY <1>1, <1>3, <1>4, <2>1, Marking
<1>7. startup' \in {"none", "preparing", "failed"} /\ startup' # "preparing"
  BY <1>1 DEF StartInv, TypeOK, Whole, Shown
<1>8. prep' # NoPrep /\ prep'.cut = "no" => prep' = prep
  BY <1>1, <1>4 DEF Cancelled
<1>9. TypeOK'
  <2>1. prep'.cut = "no" /\ prep' # NoPrep => prep'.waiters # {}
    BY <1>4, <1>8 DEF StartInv, TypeOK
  <2>2. QED
    BY <1>1, <1>3, <1>4, <1>7, <2>1 DEF StartInv, TypeOK, Preparations
<1>10. prep' # NoPrep => prep # NoPrep
  BY <1>1 DEF Cancelled
<1>11. Deletes' /\ Owners' /\ Readiness' /\ Shown'
  BY <1>1, <1>4, <1>7, <1>10 DEF StartInv, Whole, Deletes, Owners, Readiness, Shown, Told, Peopled
<1>12. QED
  BY <1>6, <1>9, <1>11 DEF StartInv, Whole

LEMMA DisposeStep ==
    ASSUME StartInv, Dispose
    PROVE  StartInv'
<1>1. /\ Quiet /\ deletion = "recorded" /\ deletion' = "draining" /\ disposed' = TRUE
      /\ Marked(Registered, {"cut"}) /\ startup' = "none"
      /\ prep' = IF prep.owner \in Starts THEN Cancelled("deleted") ELSE prep
      /\ UNCHANGED <<created, actors, primary, installs, pending, queue, phase, to, locked, intent, archived, hooks, crashes>>
  BY DEF Dispose, journalVars, DeletionUnchanged
<1>2. mark' \in [Requests -> SUBSET {"gone", "cut", "stopped"}]
      /\ \A p \in Requests : mark'[p] = IF p \in Registered THEN mark[p] \cup {"cut"} ELSE mark[p]
  BY <1>1 DEF Marked, StartInv, TypeOK
<1>3. /\ prep' \in Preparations /\ prep'.owner = prep.owner /\ prep'.at = prep.at /\ prep'.waiters = prep.waiters
      /\ prep'.cut \in {prep.cut, "deleted"}
      /\ prep' # NoPrep => prep # NoPrep
      /\ prep'.cut = "no" => prep' = prep \/ prep = NoPrep
  <2>1. CASE prep.owner \in Starts
    BY <1>1, <2>1, Prepares DEF StartInv, Cancelled
  <2>2. CASE prep.owner \notin Starts
    BY <1>1, <2>2 DEF StartInv, TypeOK, Preparations
  <2>3. QED
    BY <2>1, <2>2
<1>4. (\A p \in Requests : Fits(p)') /\ Calm' /\ Queued'
  <2>1. ASSUME NEW p \in Requests
        PROVE  /\ p \notin UnderWay => mark'[p] = mark[p]
               /\ "cut" \in mark'[p] => "stopped" \in mark'[p] \/ disposed'
               /\ p \in Messages /\ "stopped" \in mark'[p] => "cut" \in mark'[p]
               /\ prep'.cut = "stopped" /\ p \in prep.waiters => "stopped" \in mark'[p]
    <3>1. Fits(p) /\ (p \in Registered => p \in UnderWay)
      BY RegisteredUnderWay DEF StartInv
    <3>2. QED
      BY <1>1, <1>2, <1>3, <3>1 DEF Fits
  <2>2. QED
    BY <1>1, <1>2, <1>3, <2>1, Marking
<1>5. TypeOK'
  <2>1. prep'.cut = "no" /\ prep' # NoPrep => prep'.waiters # {}
    BY <1>3 DEF StartInv, TypeOK
  <2>2. QED
    BY <1>1, <1>2, <1>3, <2>1 DEF StartInv, TypeOK, Preparations
<1>6. Deletes' /\ Owners' /\ Readiness' /\ Shown'
  BY <1>1, <1>3 DEF StartInv, Whole, Deletes, Owners, Readiness, Shown, Told, Peopled
<1>7. QED
  BY <1>4, <1>5, <1>6 DEF StartInv, Whole

LEMMA LosePrimaryStep ==
    ASSUME StartInv, LosePrimary
    PROVE  StartInv'
<1>1. /\ Quiet /\ primary' = 0
      /\ UNCHANGED <<created, actors, installs, prep, pending, startup, queue, phase, mark, to, disposed, locked,
                     deletion, intent, archived, hooks, crashes>>
  BY DEF LosePrimary, startVars, requestVars, sessionVars, deletionVars
<1>2. (\A p \in Requests : Fits(p)') /\ Calm' /\ Queued'
  BY <1>1, Untouched
<1>3. TypeOK'
  BY <1>1 DEF StartInv, TypeOK
<1>4. Deletes' /\ Owners' /\ Readiness' /\ Shown'
  BY <1>1 DEF StartInv, Whole, Deletes, Owners, Readiness, Shown, Told, Peopled
<1>5. QED
  BY <1>2, <1>3, <1>4 DEF StartInv, Whole

\* The other steps of the deletion, which only change how far it is and what the journal has.
LEMMA DeletionSteps ==
    ASSUME StartInv, RequestDeletion \/ RecordIntent \/ Drain \/ Archive \/ RemoveIntent
    PROVE  StartInv'
<1>1. /\ Quiet
      /\ UNCHANGED <<actors, installs, prep, pending, startup, queue, phase, mark, to, disposed, locked, hooks, crashes>>
  BY DEF RequestDeletion, RecordIntent, Drain, Archive, RemoveIntent, Elsewhere, DeletionUnchanged, journalVars
<1>2. /\ deletion' \in {"none", "recording", "recorded", "draining", "removing", "archived", "done", "failed"}
      /\ UNCHANGED <<created, primary, archived>> \/ (created' = FALSE /\ primary' = 0 /\ archived' = TRUE)
  <2>1. CASE RequestDeletion
    BY <2>1 DEF RequestDeletion, Elsewhere, journalVars
  <2>2. CASE RecordIntent
    BY <2>2 DEF RecordIntent, Elsewhere, journalVars
  <2>3. CASE Drain
    BY <2>3 DEF Drain, Elsewhere, journalVars
  <2>4. CASE Archive
    BY <2>4 DEF Archive
  <2>5. CASE RemoveIntent
    BY <2>5 DEF RemoveIntent, Elsewhere, journalVars
  <2>6. QED
    BY <2>1, <2>2, <2>3, <2>4, <2>5
<1>3. intent' \in BOOLEAN
  <2>1. intent \in BOOLEAN
    BY DEF StartInv, TypeOK
  <2>2. QED
    BY <2>1 DEF RequestDeletion, RecordIntent, Drain, Archive, RemoveIntent
<1>4. (\A p \in Requests : Fits(p)') /\ Calm' /\ Queued'
  BY <1>1, <1>2, Untouched
<1>5. TypeOK'
  <2>1. created \in BOOLEAN /\ archived \in BOOLEAN /\ primary \in 0 .. actors /\ 0 \in 0 .. actors
    BY DEF StartInv, TypeOK
  <2>2. created' \in BOOLEAN /\ archived' \in BOOLEAN
    BY <1>2, <2>1
  <2>3. primary' \in 0 .. actors
    BY <1>2, <2>1
  <2>4. QED
    BY <1>1, <1>2, <1>3, <2>2, <2>3 DEF StartInv, TypeOK
<1>6. Deletes'
  <2>1. /\ intent => deletion # "none"
        /\ deletion \in {"recorded", "draining", "removing", "archived"} => intent
        /\ archived => (intent \/ deletion = "done") /\ ~created /\ primary = 0
    BY DEF StartInv, Whole, Deletes
  <2>2. CASE RequestDeletion
    BY <2>1, <2>2 DEF RequestDeletion, Deletes, Elsewhere, journalVars
  <2>3. CASE RecordIntent
    BY <2>1, <2>3 DEF RecordIntent, Deletes, Elsewhere, journalVars
  <2>4. CASE Drain
    BY <2>1, <2>4 DEF Drain, Deletes, Elsewhere, journalVars
  <2>5. CASE Archive
    BY <2>1, <2>5 DEF Archive, Deletes
  <2>6. CASE RemoveIntent
    BY <2>1, <2>6 DEF RemoveIntent, Deletes, Elsewhere, journalVars
  <2>7. QED
    BY <2>2, <2>3, <2>4, <2>5, <2>6
<1>7. Owners' /\ Readiness' /\ Shown'
  BY <1>1, <1>2 DEF StartInv, Whole, Owners, Readiness, Shown, Told, Peopled
<1>8. QED
  BY <1>4, <1>5, <1>6, <1>7 DEF StartInv, Whole

LEMMA CrashStep ==
    ASSUME StartInv, Crash
    PROVE  StartInv'
<1>1. /\ crashes' = crashes + 1
      /\ prep' = NoPrep /\ pending' = "none" /\ startup' = "none" /\ queue' = <<>>
      /\ Placed([o \in Requests |-> IF o \in UnderWay THEN "refused" ELSE phase[o]])
      /\ disposed' = FALSE /\ locked' = FALSE /\ deletion' = ResumedDeletion
      /\ UNCHANGED <<created, actors, primary, installs, to, intent, archived, hooks>>
  BY DEF Crash, journalVars
<1>2. \A p \in Requests : phase[p] \in Phases /\ (p \notin UnderWay => phase[p] \in Ended \cup {"idle"})
  BY DEF StartInv, TypeOK, UnderWay, Phases
<1>3. /\ phase' \in [Requests -> Phases] /\ mark' \in [Requests -> SUBSET {"gone", "cut", "stopped"}]
      /\ \A p \in Requests : phase'[p] \in Ended \cup {"idle"} /\ mark'[p] = {}
  <2>1. phase' = [o \in Requests |-> IF o \in UnderWay THEN "refused" ELSE phase[o]]
        /\ mark' = [o \in Requests |-> IF phase'[o] \in Ended THEN {} ELSE mark[o]]
    BY <1>1 DEF Placed
  <2>2. phase' \in [Requests -> Phases] /\ \A p \in Requests : phase'[p] \in Ended \cup {"idle"}
    BY <1>2, <2>1 DEF Phases, Ended
  <2>3. \A p \in Requests : mark'[p] = {}
    <3> TAKE p \in Requests
    <3>1. CASE phase'[p] \in Ended
      BY <2>1, <3>1
    <3>2. CASE phase'[p] \notin Ended
      <4>1. p \notin UnderWay /\ phase[p] \in Ended \cup {"idle"} /\ Fits(p)
        BY <1>2, <2>1, <3>2 DEF Ended, StartInv
      <4>2. QED
        BY <2>1, <3>2, <4>1 DEF Fits
    <3>3. QED
      BY <3>1, <3>2
  <2>4. QED
    BY <2>1, <2>2, <2>3
<1>4. /\ prep' \in Preparations /\ prep'.waiters = {} /\ prep'.cut = "no" /\ prep'.at = "none"
  BY <1>1, Prepares DEF StartInv
<1>5. deletion' = (IF intent THEN "recorded" ELSE IF archived THEN "done" ELSE "none")
  BY <1>1 DEF ResumedDeletion
<1>6. TypeOK'
  <2>1. deletion' \in {"none", "recording", "recorded", "draining", "removing", "archived", "done", "failed"}
    BY <1>5
  <2>2. disposed' \in BOOLEAN /\ locked' \in BOOLEAN
    BY <1>1
  <2>3. queue' \in Seq(Starts)
    BY <1>1
  <2>4. pending' \in Entries \cup {"none", "plain"} /\ startup' \in {"none", "preparing", "failed"}
    BY <1>1
  <2>5. prep' = NoPrep /\ \A o \in prep'.waiters : phase'[o] \in {"joining", "joined"}
    BY <1>1, <1>4
  <2>6. QED
    BY <1>1, <1>3, <1>4, <2>1, <2>2, <2>3, <2>4, <2>5 DEF StartInv, TypeOK, Phases, Preparations
<1>7. ASSUME NEW p \in Requests PROVE Fits(p)'
  <2>1. Fits(p)
    BY DEF StartInv
  <2>2. QED
    BY <1>1, <1>3, <1>4, <2>1 DEF Fits, Ended, Between, InQueue
<1>8. Calm' /\ Queued'
  BY <1>1, <1>3 DEF Calm, Queued, Ended
<1>9. Deletes' /\ Owners'
  BY <1>1, <1>4, <1>5 DEF StartInv, Whole, Deletes, Owners
<1>10. Readiness' /\ Shown'
  BY <1>1 DEF StartInv, Whole, Readiness, Shown, Told, Peopled
<1>11. QED
  BY <1>6, <1>7, <1>8, <1>9, <1>10 DEF StartInv, Whole

LEMMA Idles ==
    ASSUME StartInv, UNCHANGED vars
    PROVE  StartInv'
<1>1. UNCHANGED <<journalVars, startVars, requestVars, sessionVars, deletionVars, hooks, boundVars>>
  BY DEF vars
<1>2. UNCHANGED <<created, actors, primary, installs, prep, pending, startup, queue, phase, mark, to, disposed, locked,
                  deletion, intent, archived, hooks, crashes>>
  BY <1>1 DEF journalVars, startVars, requestVars, sessionVars, deletionVars, boundVars
<1>3. TypeOK'
  BY <1>2 DEF StartInv, TypeOK
<1>4. \A p \in Requests : Fits(p)'
  BY <1>2 DEF StartInv, Fits, Withdrawn, Told
<1>5. Calm' /\ Queued'
  BY <1>2 DEF StartInv, Whole, Calm, Queued, GivesUp, Withdrawn
<1>6. Deletes' /\ Owners' /\ Readiness' /\ Shown'
  BY <1>2 DEF StartInv, Whole, Deletes, Owners, Readiness, Shown, Told, Peopled
<1>7. QED
  BY <1>3, <1>4, <1>5, <1>6 DEF StartInv, Whole

-----------------------------------------------------------------------------
(* The invariant.                                                             *)

LEMMA Initially ==
    ASSUME Init
    PROVE  StartInv
<1>1. NoPrep \in Preparations /\ NoPrep.waiters = {} /\ NoPrep.cut = "no" /\ NoPrep.at = "none"
  BY DEF NoPrep, Preparations
<1>2. TypeOK
  <2>1. /\ created \in BOOLEAN /\ disposed \in BOOLEAN /\ locked \in BOOLEAN /\ intent \in BOOLEAN /\ archived \in BOOLEAN
    BY DEF Init
  <2>2. /\ actors \in Nat /\ primary \in 0 .. actors /\ installs \in [Entries -> Nat]
        /\ to \in [Messages -> 0 .. actors]
    BY DEF Init
  <2>3. /\ phase \in [Requests -> Phases] /\ mark \in [Requests -> SUBSET {"gone", "cut", "stopped"}] /\ queue \in Seq(Starts)
    BY DEF Init, Phases
  <2>4. prep \in Preparations /\ prep = NoPrep /\ prep.waiters = {}
    BY <1>1 DEF Init
  <2>5. pending = "none" /\ startup = "none" /\ deletion = "none"
    BY DEF Init
  <2>6. QED
    BY <2>1, <2>2, <2>3, <2>4, <2>5 DEF TypeOK, Preparations, Phases
<1>3. ASSUME NEW o \in Requests PROVE Fits(o)
  BY <1>1 DEF Init, Fits, Ended, Between, InQueue
<1>4. Calm /\ Queued
  BY DEF Init, Calm, Queued
<1>5. Deletes /\ Owners /\ Readiness /\ Shown
  BY <1>1 DEF Init, Deletes, Owners, Readiness, Shown, Peopled
<1>6. QED
  BY <1>2, <1>3, <1>4, <1>5 DEF StartInv, Whole

LEMMA Steps ==
    ASSUME StartInv, [Next]_vars
    PROVE  StartInv'
<1>1. CASE \E m \in Messages : Arrive(m) \/ MessageStep(m)
  BY <1>1, ArriveStep, MessageHooksStep, EnsureRunStep, MessageStartedStep, DirectingStep, EnqueueStep DEF MessageStep
<1>2. CASE \E s \in Starts : Ask(s) \/ StartStep(s)
  BY <1>2, AskStep, StartPackageStep, ChooseStep, TakeTurnStep, StartInRunStep DEF StartStep
<1>3. CASE \E o \in Requests : Leave(o) \/ GiveUp(o)
  BY <1>3, LeaveStep, GiveUpStep
<1>4. CASE WorkStep
  BY <1>4, WorkStopsStep, CheckParametersStep, CreateRunStep, PrepareWorkspaceStep, InstallScriptStep, CompleteLifecycleStep DEF WorkStep
<1>5. CASE DeletionStep \/ RequestDeletion
  BY <1>5, DisposeStep, DeletionSteps DEF DeletionStep
<1>6. CASE StopRun \/ LosePrimary \/ Crash
  BY <1>6, StopRunStep, LosePrimaryStep, CrashStep
<1>7. CASE UNCHANGED vars
  BY <1>7, Idles
<1>8. QED
  BY <1>1, <1>2, <1>3, <1>4, <1>5, <1>6, <1>7 DEF Next

\* StartInv holds in every reachable state.
THEOREM StartInvariant == Spec => []StartInv
<1>1. Init => StartInv
  BY Initially
<1>2. StartInv /\ [Next]_vars => StartInv'
  BY Steps
<1>3. QED
  BY <1>1, <1>2, PTL DEF Spec

\* The types of the variables.
THEOREM TypesHold == Spec => []TypeOK
<1>1. StartInv => TypeOK
  BY DEF StartInv
<1>2. QED
  BY <1>1, StartInvariant, PTL

\* The chat shows that a run is being prepared only while a start prepares it that no stop has cancelled.
THEOREM PreparationShown == Spec => []StartupShown
<1>1. StartInv => StartupShown
  BY DEF StartInv, Whole, Shown, StartupShown
<1>2. QED
  BY <1>1, StartInvariant, PTL

-----------------------------------------------------------------------------
(* How requests end.                                                          *)


\* The ends there are: by what the request met itself, by a fault, in the run, or with the preparation.
Concluded(o, end) ==
    \/ end = Objection(o) \/ end = "refused" \/ (end = "cancelled" /\ "gone" \in mark[o])
    \/ /\ end = "accepted" /\ Objection(o) = "none" /\ UNCHANGED <<pending, hooks>>
       /\ (o \in Messages /\ phase[o] = "content" /\ to[o] = primary) \/ (o \in Starts /\ phase[o] \in InQueue)
    \/ end = "accepted" /\ o \in Starts /\ ~Withdrawn(o) /\ deletion = "none" /\ hooks' > 0
    \/ end = "cancelled" /\ o \in prep.waiters /\ prep.cut \in {"left", "stopped"}

\* Only the request that moves ends.
LEMMA MoverEnds ==
    ASSUME StartInv, NEW x \in Requests, NEW where \in Phases, Moved(x, where), NEW o \in Requests, NEW end \in Ended, Becomes(o, end)
    PROVE  o = x /\ end = where
BY Moves DEF StartInv, Becomes

\* Who waits gets the outcome of the preparation; only starts that waited for it are accepted with it.
LEMMA WaitersEnd ==
    ASSUME StartInv, NEW outcome \in {"ready", "refused", "cancelled"}, Settled(outcome),
           NEW o \in Requests, NEW end \in Ended, Becomes(o, end)
    PROVE  \/ outcome # "ready" /\ o \in prep.waiters /\ end = outcome
           \/ outcome = "ready" /\ phase[o] = "joined" /\ o \in Starts /\ end = "accepted"
<1>1. phase'[o] = IF outcome # "ready" /\ o \in prep.waiters THEN outcome ELSE GoesOn(o)
  BY Settles DEF StartInv
<1>2. Fits(o)
  BY DEF StartInv
<1>3. QED
  BY <1>1, <1>2 DEF GoesOn, Becomes, Ended, Fits, Requests

LEMMA MessagesEnd ==
    ASSUME StartInv, NEW m \in Messages, Arrive(m) \/ MessageStep(m), NEW o \in Requests, NEW end \in Ended, Becomes(o, end)
    PROVE  Concluded(o, end)
<1>1. m \in Requests /\ Objection(m) \in {"none", "cancelled", "refused"}
  BY Objections DEF Requests
<1>2. ASSUME NEW where \in Phases, Moved(m, where) PROVE o = m /\ end = where
  BY <1>1, <1>2, MoverEnds
<1>3. /\ {"hook", "ensure", "settling", "joining", "joined", "directed", "content"} \subseteq Phases
      /\ {"hook", "ensure", "settling", "joining", "joined", "directed", "content"} \cap Ended = {}
      /\ Ended \subseteq Phases /\ {"cancelled", "refused", "accepted"} \subseteq Phases
  BY DEF Phases, Ended
<1>4. CASE Arrive(m)
  BY <1>2, <1>3, <1>4 DEF Arrive, Made
<1>5. CASE MessageHooks(m)
  BY <1>1, <1>2, <1>3, <1>5 DEF MessageHooks, Concluded
<1>6. ASSUME Continue(m) PROVE FALSE
  BY <1>2, <1>3, <1>6 DEF Continue
<1>7. CASE EnsureRun(m)
  BY <1>1, <1>2, <1>3, <1>6, <1>7 DEF EnsureRun, Concluded
<1>8. CASE MessageStarted(m)
  BY <1>1, <1>2, <1>3, <1>8 DEF MessageStarted, Concluded
<1>9. CASE Directing(m)
  BY <1>1, <1>2, <1>3, <1>9 DEF Directing, Concluded
<1>10. CASE Enqueue(m)
  <2>1. phase[m] = "content" /\ UNCHANGED <<pending, hooks>>
    BY <1>10 DEF Enqueue, startVars
  <2>2. \/ ObjectionAtEnd(m) # "none" /\ Moved(m, Objection(m))
        \/ Moved(m, "refused")
        \/ Objection(m) = "none" /\ to[m] = primary /\ Moved(m, "accepted")
    BY <1>10 DEF Enqueue, ObjectionAtEnd
  <2>3. QED
    BY <1>1, <1>2, <1>3, <2>1, <2>2 DEF Concluded, ObjectionAtEnd
<1>11. QED
  BY <1>4, <1>5, <1>7, <1>8, <1>9, <1>10 DEF MessageStep

LEMMA StartsEnd ==
    ASSUME StartInv, NEW s \in Starts, Ask(s) \/ StartStep(s), NEW o \in Requests, NEW end \in Ended, Becomes(o, end)
    PROVE  Concluded(o, end)
<1>1. s \in Requests /\ Objection(s) \in {"none", "cancelled", "refused"}
  BY Objections DEF Requests
<1>2. ASSUME NEW where \in Phases, Moved(s, where) PROVE o = s /\ end = where
  BY <1>1, <1>2, MoverEnds
<1>3. /\ {"asked", "settling", "choosing", "joined", "queued", "blocked", "inHook", "inWorkspace", "inInstall"} \subseteq Phases
      /\ {"asked", "settling", "choosing", "joined", "queued", "blocked", "inHook", "inWorkspace", "inInstall"} \cap Ended = {}
      /\ {"cancelled", "refused", "accepted"} \subseteq Phases
  BY DEF Phases, Ended
<1>4. CASE Ask(s)
  BY <1>2, <1>3, <1>4 DEF Ask, Made
<1>5. CASE StartPackage(s)
  BY <1>2, <1>3, <1>5 DEF StartPackage, Concluded
<1>6. CASE Choose(s)
  BY <1>2, <1>3, <1>6 DEF Choose, Concluded
<1>7. CASE TakeTurn(s)
  <2>1. Moved(s, Objection(s)) \/ Moved(s, "inHook") \/ Moved(s, "blocked")
    BY <1>7 DEF TakeTurn
  <2>2. Moved(s, Objection(s)) /\ Objection(s) # "none" => Concluded(o, end)
    BY <1>1, <1>2, <1>3 DEF Concluded
  <2>3. QED
    BY <1>1, <1>2, <1>3, <1>7, <2>1, <2>2, Objections DEF TakeTurn
<1>8. CASE StartInRun(s)
  <2>1. phase[s] \in InQueue /\ UNCHANGED <<pending, hooks>>
    BY <1>8 DEF StartInRun, InQueue
  <2>2. \/ Objection(s) # "none" /\ Moved(s, Objection(s))
        \/ Moved(s, "refused")
        \/ Moved(s, "inWorkspace") \/ Moved(s, "inInstall")
        \/ Objection(s) = "none" /\ Moved(s, "accepted")
    BY <1>8 DEF StartInRun
  <2>3. QED
    BY <1>1, <1>2, <1>3, <2>1, <2>2 DEF Concluded
<1>9. QED
  BY <1>4, <1>5, <1>6, <1>7, <1>8 DEF StartStep

LEMMA WorkEnds ==
    ASSUME StartInv, WorkStep, NEW o \in Requests, NEW end \in Ended, Becomes(o, end)
    PROVE  Concluded(o, end)
<1>1. ASSUME UNCHANGED phase PROVE FALSE
  BY <1>1 DEF Becomes
<1>2. CASE WorkStops
  <2>1. \/ WorkObjection # "none" /\ Settled(WorkObjection)
        \/ Settled("refused")
    BY <1>2 DEF WorkStops, Fails
  <2>2. /\ WorkObjection \in {"cancelled", "refused", "none"}
        /\ WorkObjection = "cancelled" => prep.cut \in {"left", "stopped"}
    BY DEF WorkObjection
  <2>3. QED
    BY <2>1, <2>2, WaitersEnd DEF Concluded
<1>3. CASE CreateRun
  <2>1. Settled("refused") \/ UNCHANGED phase
    BY <1>3 DEF CreateRun, Fails, Reaches
  <2>2. QED
    BY <1>1, <2>1, WaitersEnd DEF Concluded
<1>4. CASE CompleteLifecycle
  <2>1. Settled("ready") /\ Quiet /\ hooks' = hooks + 1 /\ deletion = "none"
    BY <1>4, WorkAllowed DEF CompleteLifecycle
  <2>2. hooks' > 0
    BY <2>1 DEF StartInv, Whole, Readiness, Peopled
  <2>3. phase[o] = "joined" /\ o \in Starts /\ end = "accepted"
    BY <2>1, WaitersEnd
  <2>4. ~Withdrawn(o)
    BY <2>1, <2>3, Quietness DEF GivesUp
  <2>5. QED
    BY <2>1, <2>2, <2>3, <2>4 DEF Concluded
<1>5. CASE CheckParameters \/ PrepareWorkspace \/ InstallScript
  BY <1>1, <1>5 DEF CheckParameters, PrepareWorkspace, InstallScript, Reaches
<1>6. QED
  BY <1>2, <1>3, <1>4, <1>5 DEF WorkStep

\* Every request that ends has come to one of these ends.
LEMMA Endings ==
    ASSUME StartInv, [Next]_vars, NEW o \in Requests, NEW end \in Ended, Becomes(o, end)
    PROVE  Concluded(o, end)
<1>1. ASSUME UNCHANGED phase PROVE FALSE
  BY <1>1 DEF Becomes
<1>2. CASE \E m \in Messages : Arrive(m) \/ MessageStep(m)
  BY <1>2, MessagesEnd
<1>3. CASE \E s \in Starts : Ask(s) \/ StartStep(s)
  BY <1>3, StartsEnd
<1>4. CASE WorkStep
  BY <1>4, WorkEnds
<1>5. ASSUME NEW x \in Requests, GiveUp(x) PROVE Concluded(o, end)
  <2>1. Moved(x, Objection(x)) /\ Objection(x) \in {"none", "cancelled", "refused"} /\ Withdrawn(x)
    BY <1>5, Objections DEF GiveUp, GivesUp
  <2>2. Objection(x) \in Phases
    BY <2>1, Objections DEF Phases
  <2>3. QED
    BY <2>1, <2>2, MoverEnds DEF Concluded
<1>6. CASE \E x \in Requests : Leave(x)
  BY <1>1, <1>6 DEF Leave
<1>7. CASE DeletionStep \/ RequestDeletion \/ StopRun
  BY <1>1, <1>7 DEF DeletionStep, RequestDeletion, RecordIntent, Dispose, Drain, Archive, RemoveIntent, Elsewhere,
                    DeletionUnchanged, StopRun
<1>8. CASE LosePrimary
  BY <1>1, <1>8 DEF LosePrimary, requestVars
<1>9. CASE Crash
  <2>1. phase'[o] = IF o \in UnderWay THEN "refused" ELSE phase[o]
    BY <1>9 DEF Crash, Placed
  <2>2. QED
    BY <2>1 DEF Becomes, Concluded
<1>10. CASE UNCHANGED vars
  BY <1>1, <1>10 DEF vars, requestVars
<1>11. QED
  BY <1>2, <1>3, <1>4, <1>5, <1>6, <1>7, <1>8, <1>9, <1>10 DEF Next

\* A cancelled preparation takes down only those that are cancelled themselves.
THEOREM OnlyTheCancelled == Spec => CancelledAlone
<1>1. ASSUME StartInv, [Next]_vars
      PROVE  [\A o \in Requests : Becomes(o, "cancelled") => mark[o] \cap {"gone", "stopped"} # {}]_vars
  <2> SUFFICES ASSUME NEW o \in Requests, Becomes(o, "cancelled") PROVE mark[o] \cap {"gone", "stopped"} # {}
    OBVIOUS
  <2>1. Concluded(o, "cancelled")
    BY <1>1, Endings DEF Ended
  <2>2. Fits(o) /\ (prep.cut = "left" => prep.waiters = {})
    BY <1>1 DEF StartInv, Whole, Owners
  <2>3. CASE "cancelled" = Objection(o)
    BY <2>2, <2>3, Objections DEF Fits, Withdrawn
  <2>4. CASE o \in prep.waiters /\ prep.cut \in {"left", "stopped"}
    BY <2>2, <2>4 DEF Fits
  <2>5. QED
    BY <2>1, <2>3, <2>4 DEF Concluded
<1>2. QED
  BY <1>1, StartInvariant, PTL DEF Spec, CancelledAlone

\* No actor gets the input of a caller that left, nor a message that was under way at a stop.
THEOREM NoneWithdrawnAccepted == Spec => WithdrawnNotAccepted
<1>1. ASSUME StartInv, [Next]_vars
      PROVE  [\A o \in Requests : Becomes(o, "accepted") =>
                  "gone" \notin mark[o] /\ (o \in Messages => "stopped" \notin mark[o])]_vars
  <2> SUFFICES ASSUME NEW o \in Requests, Becomes(o, "accepted")
               PROVE  "gone" \notin mark[o] /\ (o \in Messages => "stopped" \notin mark[o])
    OBVIOUS
  <2>1. Concluded(o, "accepted")
    BY <1>1, Endings DEF Ended
  <2>2. ~Withdrawn(o)
    BY <2>1, Objections DEF Concluded
  <2>3. Fits(o)
    BY <1>1 DEF StartInv
  <2>4. QED
    BY <2>2, <2>3 DEF Fits, Withdrawn
<1>2. QED
  BY <1>1, StartInvariant, PTL DEF Spec, WithdrawnNotAccepted

\* No actor gets input before the plugins heard of the start, nor a message while the startup is incomplete.
THEOREM ReadyBeforeInput == Spec => InputAfterReadiness
<1>1. ASSUME StartInv, [Next]_vars
      PROVE  [\A o \in Requests : Becomes(o, "accepted") =>
                  (hooks' > 0 \/ crashes > 0) /\ (o \in Messages => pending' = "none")]_vars
  <2> SUFFICES ASSUME NEW o \in Requests, Becomes(o, "accepted")
               PROVE  (hooks' > 0 \/ crashes > 0) /\ (o \in Messages => pending' = "none")
    OBVIOUS
  <2>1. Concluded(o, "accepted")
    BY <1>1, Endings DEF Ended
  <2>2. Fits(o) /\ (o \in Starts => o \notin Messages)
    BY <1>1, RunStartAssumption DEF StartInv
  <2>3. Objection(o) # "accepted"
    BY Objections
  <2>4. QED
    BY <2>1, <2>2, <2>3 DEF Concluded, Fits, Told
<1>2. QED
  BY <1>1, StartInvariant, PTL DEF Spec, InputAfterReadiness

\* Only the steps of the deletion and the end of the process change how far the deletion is.
LEMMA DeletionFrame ==
    ASSUME [Next]_vars
    PROVE  UNCHANGED deletion \/ DeletionStep \/ RequestDeletion \/ Crash
<1>1. CASE \E m \in Messages : Arrive(m) \/ MessageStep(m)
  BY <1>1 DEF MessageStep, Arrive, MessageHooks, EnsureRun, MessageStarted, Directing, Enqueue, deletionVars
<1>2. CASE \E s \in Starts : Ask(s) \/ StartStep(s)
  BY <1>2 DEF StartStep, Ask, StartPackage, Choose, TakeTurn, StartInRun, deletionVars
<1>3. CASE \E o \in Requests : Leave(o) \/ GiveUp(o)
  BY <1>3 DEF Leave, GiveUp, deletionVars
<1>4. CASE WorkStep
  BY <1>4 DEF WorkStep, WorkStops, CheckParameters, CreateRun, PrepareWorkspace, InstallScript, CompleteLifecycle,
              WorkUnchanged, deletionVars
<1>5. CASE StopRun \/ LosePrimary
  BY <1>5 DEF StopRun, LosePrimary, deletionVars
<1>6. CASE UNCHANGED vars
  BY <1>6 DEF vars, deletionVars
<1>7. QED
  BY <1>1, <1>2, <1>3, <1>4, <1>5, <1>6 DEF Next

\* Whoever shares a preparation, a cancellation meets those it was meant for, and nobody else.
THEOREM CancellationHits == Spec => CancellationFits
BY OnlyTheCancelled, NoneWithdrawnAccepted DEF CancellationFits

-----------------------------------------------------------------------------
(* Why a startup is not repeated.                                             *)

InRun == InQueue \cup {"choosing"}
Accepted(e) == {s \in Starts : phase[s] = "accepted" /\ EntryOf[s] = e}

\* Every primary actor but one was lost; and when the hook of a startup finishes, then either the run is not ready
\* after it, or its primary actor is one that no hook was told of: while a startup is incomplete, its actor is that.
Billed ==
    /\ losses \in Nat /\ unready \in Nat
    /\ hooks + (IF pending # "none" /\ primary # 0 THEN 1 ELSE 0) <= actors + unready
    /\ actors <= losses + 1 /\ (~archived /\ primary = 0 => actors <= losses)
    /\ prep.at = "lifecycle" => pending # "none"

\* A script can be installed by a preparation only before the run has an actor, starts inside the run come after it,
\* the start that waits for a preparation owns it, and nothing is under way once the deletion has drained the run.
Staffing ==
    /\ prep.at \in {"parameters", "prepare", "workspace", "install"} /\ prep.owner \in Starts /\ pending = "none" => ~Peopled
    /\ \A s \in Starts : phase[s] \in InRun => Peopled
    /\ Peopled => created \/ archived
    /\ \A s \in Starts : phase[s] = "joined" => prep.owner = s
    /\ archived \/ deletion = "removing" => UnderWay = {}

\* The scripts without a start are those of starts inside the run that were refused, and one of the preparation.
Spare ==
    /\ unqueued \in [Entries -> Nat]
    /\ \A e \in Entries : IsFiniteSet(Accepted(e)) /\ installs[e] <= 1 + unqueued[e] + Started(e)
    /\ \A e, f \in Entries : installs[e] > unqueued[e] + Started(e) /\ installs[f] > unqueued[f] + Started(f) => e = f

OnceInv == StartInv /\ Billed /\ Staffing /\ Spare

\* What the books of a run are about changes only in these steps.
LEMMA Ledger ==
    ASSUME [Next]_vars
    PROVE  \/ UNCHANGED <<actors, primary, installs, pending, hooks, losses, unready, unqueued, archived>>
           \/ \E s \in Starts : StartInRun(s)
           \/ WorkStops \/ PrepareWorkspace \/ InstallScript \/ CompleteLifecycle \/ LosePrimary \/ Archive \/ Crash
<1>1. CASE \E m \in Messages : Arrive(m) \/ MessageStep(m)
  BY <1>1 DEF MessageStep, Arrive, MessageHooks, EnsureRun, MessageStarted, Directing, Enqueue, deletionVars, journalVars,
              startVars, boundVars, lateVars
<1>2. CASE \E s \in Starts : Ask(s) \/ StartStep(s)
  BY <1>2 DEF StartStep, Ask, StartPackage, Choose, TakeTurn, deletionVars, journalVars, startVars, boundVars, lateVars
<1>3. CASE \E o \in Requests : Leave(o) \/ GiveUp(o)
  BY <1>3 DEF Leave, GiveUp, deletionVars, journalVars, startVars, boundVars, lateVars
<1>4. CASE WorkStep
  BY <1>4 DEF WorkStep, Fails, CheckParameters, CreateRun, WorkUnchanged, deletionVars, journalVars, boundVars, lateVars
<1>5. CASE DeletionStep \/ RequestDeletion
  BY <1>5 DEF DeletionStep, RequestDeletion, RecordIntent, Dispose, Drain, RemoveIntent, Elsewhere, DeletionUnchanged, journalVars,
              lateVars
<1>6. CASE StopRun \/ LosePrimary \/ Crash
  BY <1>6 DEF StopRun, deletionVars, journalVars, lateVars
<1>7. CASE UNCHANGED vars
  BY <1>7 DEF vars, deletionVars, journalVars, startVars, boundVars, lateVars
<1>8. QED
  BY <1>1, <1>2, <1>3, <1>4, <1>5, <1>6, <1>7 DEF Next

\* A run that was created is there until it is archived.
LEMMA RunStays ==
    ASSUME StartInv, [Next]_vars, created \/ archived
    PROVE  created' \/ archived'
<1>1. CASE \E m \in Messages : Arrive(m) \/ MessageStep(m)
  BY <1>1 DEF MessageStep, Arrive, MessageHooks, EnsureRun, Continue, MessageStarted, Directing, Enqueue, deletionVars, journalVars
<1>2. CASE \E s \in Starts : Ask(s) \/ StartStep(s)
  BY <1>2 DEF StartStep, Ask, StartPackage, Choose, TakeTurn, StartInRun, deletionVars, journalVars
<1>3. CASE \E o \in Requests : Leave(o) \/ GiveUp(o)
  BY <1>3 DEF Leave, GiveUp, deletionVars, journalVars
<1>4. CASE WorkStep
  BY <1>4 DEF WorkStep, WorkStops, Fails, CheckParameters, CreateRun, PrepareWorkspace, InstallScript, CompleteLifecycle,
              WorkUnchanged, deletionVars, journalVars
<1>5. CASE DeletionStep \/ RequestDeletion
  BY <1>5 DEF DeletionStep, RequestDeletion, RecordIntent, Dispose, Drain, Archive, RemoveIntent, Elsewhere, journalVars
<1>6. CASE StopRun \/ LosePrimary \/ Crash \/ UNCHANGED vars
  BY <1>6 DEF StopRun, LosePrimary, Crash, vars, deletionVars, journalVars
<1>7. QED
  BY <1>1, <1>2, <1>3, <1>4, <1>5, <1>6 DEF Next

\* The scripts that are installed, after any step: at most one more.
LEMMA Installations ==
    ASSUME StartInv, [Next]_vars
    PROVE  \/ UNCHANGED installs
           \/ /\ InstallScript \/ (WorkStops /\ FailsInstalled)
              /\ prep.at = "install" /\ prep.owner \in Starts /\ pending = "none" /\ primary = 0 /\ (created \/ archived)
              /\ pending' = EntryOf[prep.owner] /\ InstalledFor(prep.owner) /\ UNCHANGED <<hooks, unqueued>>
           \/ \E s \in Starts : StartInRun(s) /\ phase[s] = "inInstall" /\ InstalledFor(s)
<1>1. ASSUME prep.at = "install"
      PROVE  prep.owner \in Starts /\ pending = "none" /\ primary = 0 /\ (created \/ archived)
  BY <1>1 DEF StartInv, Whole, Owners
<1>2. CASE InstallScript
  <2>1. prep.at = "install" /\ ~archived
    BY <1>2, WorkAllowed DEF InstallScript
  <2>2. InstalledFor(prep.owner) /\ pending' = EntryOf[prep.owner] /\ UNCHANGED <<hooks, unqueued>>
    BY <1>2 DEF InstallScript, WorkUnchanged, boundVars, lateVars
  <2>3. QED
    BY <1>1, <1>2, <2>1, <2>2
<1>3. CASE WorkStops
  <2>1. UNCHANGED unqueued /\ (UNCHANGED installs \/ FailsInstalled)
    BY <1>3 DEF WorkStops, FailsTold
  <2>2. CASE FailsInstalled
    <3>1. prep.at = "install" /\ InstalledFor(prep.owner) /\ pending' = EntryOf[prep.owner] /\ UNCHANGED hooks
      BY <2>2 DEF FailsInstalled
    <3>2. QED
      BY <1>1, <1>3, <2>1, <2>2, <3>1
  <2>3. QED
    BY <2>1, <2>2
<1>4. ASSUME NEW s \in Starts, StartInRun(s)
      PROVE  UNCHANGED installs \/ (phase[s] = "inInstall" /\ InstalledFor(s))
  BY <1>4 DEF StartInRun, InstalledInVain
<1>5. CASE PrepareWorkspace \/ CompleteLifecycle \/ LosePrimary \/ Archive \/ Crash
  BY <1>5 DEF PrepareWorkspace, CompleteLifecycle, LosePrimary, Archive, Crash, journalVars
<1>6. QED
  BY <1>2, <1>3, <1>4, <1>5, Ledger

\* A preparation keeps its owner, and moves on only by its work; it is begun by a message of a run without a primary
\* actor or incomplete, or by a start of a run that has not started.
LEMMA Preparation ==
    ASSUME StartInv, [Next]_vars
    PROVE  \/ prep' = NoPrep
           \/ /\ prep'.owner = prep.owner /\ prep'.waiters \subseteq prep.waiters \cup Messages
              /\ prep'.at = prep.at \/ CheckParameters \/ CreateRun \/ PrepareWorkspace \/ InstallScript
           \/ \E m \in Messages : prep' = Begun(m, IF pending = "none" THEN "workspace" ELSE "lifecycle") /\ UNCHANGED pending
           \/ \E s \in Starts : /\ prep' = Begun(s, "parameters") /\ ~RunStarted /\ phase[s] \in {"asked", "decided"}
                                /\ UNCHANGED <<pending, actors>>
<1>1. ASSUME UNCHANGED prep PROVE prep'.owner = prep.owner /\ prep'.waiters \subseteq prep.waiters \cup Messages /\ prep'.at = prep.at
  BY <1>1
<1>2. prep.waiters \subseteq Requests
  BY DEF StartInv, TypeOK
<1>3. ASSUME NEW m \in Messages, Continue(m), UNCHANGED pending
      PROVE  \/ prep'.owner = prep.owner /\ prep'.waiters \subseteq prep.waiters \cup Messages /\ prep'.at = prep.at
             \/ prep' = Begun(m, IF pending = "none" THEN "workspace" ELSE "lifecycle")
  <2>1. UNCHANGED prep \/ prep' = Begun(m, IF pending = "none" THEN "workspace" ELSE "lifecycle")
        \/ prep' = [prep EXCEPT !.waiters = @ \cup {m}]
    BY <1>3 DEF Continue
  <2>2. CASE prep' = [prep EXCEPT !.waiters = @ \cup {m}]
    BY <2>2, Prepares DEF StartInv, Requests
  <2>3. QED
    BY <1>1, <2>1, <2>2
<1>4. CASE \E m \in Messages : Arrive(m) \/ MessageStep(m)
  <2> PICK m \in Messages : Arrive(m) \/ MessageStep(m)
    BY <1>4
  <2>1. CASE EnsureRun(m)
    <3>1. UNCHANGED pending
      BY <2>1 DEF EnsureRun
    <3>2. Continue(m) \/ UNCHANGED prep \/ prep' = [prep EXCEPT !.waiters = @ \cup {m}]
      BY <2>1 DEF EnsureRun
    <3>3. CASE prep' = [prep EXCEPT !.waiters = @ \cup {m}]
      BY <3>3, Prepares DEF StartInv, Requests
    <3>4. QED
      BY <1>1, <1>3, <3>1, <3>2, <3>3
  <2>2. CASE ~EnsureRun(m)
    BY <1>1, <2>2 DEF MessageStep, Arrive, MessageHooks, MessageStarted, Directing, Enqueue, startVars
  <2>3. QED
    BY <2>1, <2>2
<1>5. CASE \E s \in Starts : Ask(s) \/ StartStep(s)
  <2> PICK s \in Starts : Ask(s) \/ StartStep(s)
    BY <1>5
  <2>1. CASE StartPackage(s)
    <3>1. UNCHANGED <<pending, actors>> /\ phase[s] \in {"asked", "decided"}
      BY <2>1 DEF StartPackage, journalVars
    <3>2. UNCHANGED prep \/ (prep' = Begun(s, "parameters") /\ ~RunStarted)
      BY <2>1 DEF StartPackage
    <3>3. QED
      BY <1>1, <3>1, <3>2
  <2>2. CASE ~StartPackage(s)
    BY <1>1, <2>2 DEF StartStep, Ask, Choose, TakeTurn, StartInRun, startVars
  <2>3. QED
    BY <2>1, <2>2
<1>6. CASE \E o \in Requests : Leave(o) \/ GiveUp(o)
  <2> PICK o \in Requests : Leave(o) \/ GiveUp(o)
    BY <1>6
  <2>1. CASE Leave(o)
    BY <1>1, <2>1 DEF Leave, startVars
  <2>2. CASE GiveUp(o)
    BY <2>2, Prepares DEF GiveUp, StartInv
  <2>3. QED
    BY <2>1, <2>2
<1>7. CASE WorkStep
  <2>1. ASSUME NEW at \in {"prepare", "workspace", "install", "lifecycle"}, Reaches(at)
        PROVE  prep'.owner = prep.owner /\ prep'.waiters \subseteq prep.waiters \cup Messages
    BY <2>1, Prepares DEF StartInv, Reaches
  <2>2. CASE WorkStops \/ CompleteLifecycle
    BY <2>2 DEF WorkStops, CompleteLifecycle, Fails, Settled
  <2>3. CASE CreateRun
    <3>1. prep' = NoPrep \/ Reaches("workspace")
      BY <2>3 DEF CreateRun, Fails, Settled
    <3>2. QED
      BY <2>1, <2>3, <3>1
  <2>4. CASE CheckParameters \/ PrepareWorkspace \/ InstallScript
    <3>1. Reaches("prepare") \/ Reaches("lifecycle") \/ Reaches("install")
      BY <2>4 DEF CheckParameters, PrepareWorkspace, InstallScript
    <3>2. QED
      BY <2>1, <2>4, <3>1
  <2>5. QED
    BY <1>7, <2>2, <2>3, <2>4 DEF WorkStep
<1>8. CASE DeletionStep \/ RequestDeletion \/ StopRun
  <2>1. UNCHANGED prep \/ prep' = Cancelled("stopped") \/ prep' = Cancelled("deleted")
    BY <1>8 DEF DeletionStep, RequestDeletion, RecordIntent, Dispose, Drain, Archive, RemoveIntent, Elsewhere, StopRun
  <2>2. QED
    BY <1>1, <2>1, Prepares DEF StartInv
<1>9. CASE LosePrimary \/ Crash \/ UNCHANGED vars
  BY <1>1, <1>9 DEF LosePrimary, Crash, vars, startVars
<1>10. QED
  BY <1>4, <1>5, <1>6, <1>7, <1>8, <1>9 DEF Next

\* Whoever was accepted stays so; but for one start nobody else is accepted with it; and only in a run that has
\* started a start begins inside it.
Progress(x) ==
    \A o \in Requests :
        /\ phase[o] = "accepted" => phase'[o] = "accepted"
        /\ o \in Starts /\ Becomes(o, "accepted") => o = x
        /\ o \in Starts /\ phase'[o] \in InRun => phase[o] \in InRun \/ RunStarted

\* A request that moves by itself.
LEMMA MoveProgress ==
    ASSUME StartInv, NEW o \in Requests, NEW where \in Phases, Moved(o, where), phase[o] # "accepted",
           o \in Starts /\ where \in InRun => phase[o] \in InRun \/ RunStarted
    PROVE  Progress(o)
BY Moves DEF StartInv, Progress, Becomes

LEMMA MessageProgress ==
    ASSUME StartInv, NEW m \in Messages, Arrive(m) \/ MessageStep(m)
    PROVE  Progress(m)
<1>1. m \in Requests /\ m \notin Starts /\ Objection(m) \in {"none", "cancelled", "refused"}
  BY Objections, RunStartAssumption DEF Requests
<1>2. /\ {"hook", "ensure", "settling", "joining", "joined", "directed", "content"} \subseteq Phases
      /\ {"cancelled", "refused", "accepted"} \subseteq Phases
  BY DEF Phases
<1>3. ASSUME NEW where \in Phases, Moved(m, where), phase[m] # "accepted" PROVE Progress(m)
  BY <1>1, <1>3, MoveProgress
<1>4. CASE Arrive(m)
  BY <1>2, <1>3, <1>4 DEF Arrive, Made
<1>5. CASE MessageHooks(m)
  BY <1>1, <1>2, <1>3, <1>5 DEF MessageHooks
<1>6. CASE EnsureRun(m)
  <2>1. phase[m] # "accepted"
    BY <1>6 DEF EnsureRun
  <2>2. \E where \in Phases : Moved(m, where)
    BY <1>1, <1>2, <1>6 DEF EnsureRun, Continue
  <2>3. QED
    BY <1>3, <2>1, <2>2
<1>7. CASE MessageStarted(m)
  BY <1>1, <1>2, <1>3, <1>7 DEF MessageStarted
<1>8. CASE Directing(m)
  BY <1>1, <1>2, <1>3, <1>8 DEF Directing
<1>9. CASE Enqueue(m)
  BY <1>1, <1>2, <1>3, <1>9 DEF Enqueue, ObjectionAtEnd
<1>10. QED
  BY <1>4, <1>5, <1>6, <1>7, <1>8, <1>9 DEF MessageStep

LEMMA StartProgress ==
    ASSUME StartInv, NEW s \in Starts, Ask(s) \/ StartStep(s)
    PROVE  Progress(s)
<1>1. s \in Requests /\ Objection(s) \in {"none", "cancelled", "refused"}
  BY Objections DEF Requests
<1>2. /\ {"asked", "settling", "choosing", "joined", "queued", "blocked", "inHook", "inWorkspace", "inInstall"} \subseteq Phases
      /\ {"cancelled", "refused", "accepted"} \subseteq Phases
      /\ {"asked", "settling", "joined", "cancelled", "refused", "accepted"} \cap InRun = {}
  BY DEF Phases, InRun, InQueue
<1>3. ASSUME NEW where \in Phases, Moved(s, where), phase[s] # "accepted", where \in InRun => phase[s] \in InRun \/ RunStarted
      PROVE  Progress(s)
  BY <1>1, <1>3, MoveProgress
<1>4. CASE Ask(s)
  BY <1>2, <1>3, <1>4 DEF Ask, Made
<1>5. CASE StartPackage(s)
  <2>1. phase[s] # "accepted"
    BY <1>5 DEF StartPackage
  <2>2. Moved(s, "settling") \/ Moved(s, "refused") \/ Moved(s, "joined") \/ (Moved(s, "choosing") /\ RunStarted)
    BY <1>5 DEF StartPackage
  <2>3. QED
    BY <1>2, <1>3, <2>1, <2>2
<1>6. CASE Choose(s)
  BY <1>2, <1>3, <1>6 DEF Choose, InRun, InQueue
<1>7. CASE TakeTurn(s)
  <2>1. phase[s] # "accepted" /\ phase[s] \in InRun
    BY <1>7 DEF TakeTurn, InRun, InQueue
  <2>2. (Moved(s, Objection(s)) /\ Withdrawn(s)) \/ Moved(s, "inHook") \/ Moved(s, "blocked")
    BY <1>7 DEF TakeTurn
  <2>3. QED
    BY <1>1, <1>2, <1>3, <2>1, <2>2, Objections
<1>8. CASE StartInRun(s)
  <2>1. phase[s] # "accepted" /\ phase[s] \in InRun
    BY <1>8 DEF StartInRun, InRun, InQueue
  <2>2. \E where \in Phases : Moved(s, where)
    BY <1>1, <1>2, <1>8 DEF StartInRun
  <2>3. QED
    BY <1>3, <2>1, <2>2
<1>9. QED
  BY <1>4, <1>5, <1>6, <1>7, <1>8 DEF StartStep

\* With a preparation only the start is accepted that owns it.
LEMMA SettleProgress ==
    ASSUME StartInv, Staffing, NEW outcome \in {"ready", "refused", "cancelled"}, Settled(outcome)
    PROVE  Progress(prep.owner)
<1> SUFFICES ASSUME NEW o \in Requests
             PROVE  /\ phase[o] = "accepted" => phase'[o] = "accepted"
                    /\ o \in Starts /\ Becomes(o, "accepted") => o = prep.owner
                    /\ o \in Starts /\ phase'[o] \in InRun => phase[o] \in InRun \/ RunStarted
  BY DEF Progress
<1>1. phase'[o] = IF outcome # "ready" /\ o \in prep.waiters THEN outcome ELSE GoesOn(o)
  BY Settles DEF StartInv
<1>2. Fits(o)
  BY DEF StartInv
<1>3. phase[o] = "accepted" => phase'[o] = "accepted"
  BY <1>1, <1>2 DEF GoesOn, Fits
<1>4. o \in Starts /\ Becomes(o, "accepted") => phase[o] = "joined"
  BY <1>1, <1>2 DEF GoesOn, Becomes
<1>5. o \in Starts /\ phase'[o] \in InRun => phase[o] \in InRun
  BY <1>1, <1>2, RunStartAssumption DEF GoesOn, InRun, InQueue, Fits
<1>6. QED
  BY <1>3, <1>4, <1>5 DEF Staffing

LEMMA Progresses ==
    ASSUME StartInv, Staffing, [Next]_vars
    PROVE  \E x : Progress(x)
<1>1. ASSUME UNCHANGED phase PROVE Progress("none")
  BY <1>1 DEF Progress, Becomes
<1>2. CASE \E m \in Messages : Arrive(m) \/ MessageStep(m)
  BY <1>2, MessageProgress
<1>3. CASE \E s \in Starts : Ask(s) \/ StartStep(s)
  BY <1>3, StartProgress
<1>4. CASE WorkStep
  <2>1. WorkObjection \in {"none", "cancelled", "refused"}
    BY DEF WorkObjection
  <2>2. UNCHANGED phase \/ \E outcome \in {"ready", "refused", "cancelled"} : Settled(outcome)
    BY <1>4, <2>1 DEF WorkStep, WorkStops, CheckParameters, CreateRun, PrepareWorkspace, InstallScript, CompleteLifecycle,
                      Fails, Reaches
  <2>3. QED
    BY <1>1, <2>2, SettleProgress
<1>5. ASSUME NEW o \in Requests, GiveUp(o) PROVE Progress(o)
  <2>1. Moved(o, Objection(o)) /\ Objection(o) \in {"none", "cancelled", "refused"} /\ Withdrawn(o) /\ phase[o] # "accepted"
    BY <1>5, Objections DEF GiveUp, GivesUp
  <2>2. Objection(o) \in Phases /\ Objection(o) \notin InRun
    BY <2>1, Objections DEF Phases, InRun, InQueue
  <2>3. QED
    BY <2>1, <2>2, MoveProgress
<1>6. CASE \E o \in Requests : Leave(o)
  BY <1>1, <1>6 DEF Leave
<1>7. CASE DeletionStep \/ RequestDeletion \/ StopRun
  BY <1>1, <1>7 DEF DeletionStep, RequestDeletion, RecordIntent, Dispose, Drain, Archive, RemoveIntent, Elsewhere,
                    DeletionUnchanged, StopRun
<1>8. CASE LosePrimary \/ UNCHANGED vars
  BY <1>1, <1>8 DEF LosePrimary, requestVars, vars
<1>9. CASE Crash
  <2>1. \A o \in Requests : phase'[o] = IF o \in UnderWay THEN "refused" ELSE phase[o]
    BY <1>9 DEF Crash, Placed
  <2>2. Progress("none")
    BY <2>1 DEF Progress, Becomes, UnderWay, Ended, InRun, InQueue
  <2>3. QED
    BY <2>2
<1>10. QED
  BY <1>2, <1>3, <1>4, <1>5, <1>6, <1>7, <1>8, <1>9 DEF Next

\* Nothing gets under way once the deletion has drained the run.
LEMMA StaysDrained ==
    ASSUME StartInv, [Next]_vars, UnderWay = {}, deletion # "none"
    PROVE  UnderWay' = {}
<1>1. ASSUME UNCHANGED phase PROVE UnderWay' = {}
  BY <1>1 DEF UnderWay
<1>2. \A o \in Requests : phase[o] \in Ended \cup {"idle"}
  BY DEF UnderWay
<1>3. CASE \E m \in Messages : Arrive(m) \/ MessageStep(m)
  BY <1>2, <1>3 DEF MessageStep, Arrive, Made, Usable, MessageHooks, EnsureRun, MessageStarted, Directing, Enqueue, Requests, Ended
<1>4. CASE \E s \in Starts : Ask(s) \/ StartStep(s)
  BY <1>2, <1>4 DEF StartStep, Ask, Made, Usable, StartPackage, Choose, TakeTurn, StartInRun, Requests, Ended
<1>5. CASE \E o \in Requests : GiveUp(o)
  BY <1>2, <1>5 DEF GiveUp, GivesUp, Ended
<1>6. CASE WorkStep
  <2>1. WorkObjection \in {"none", "cancelled", "refused"}
    BY DEF WorkObjection
  <2>2. UNCHANGED phase \/ \E outcome \in {"ready", "refused", "cancelled"} : Settled(outcome)
    BY <1>6, <2>1 DEF WorkStep, WorkStops, CheckParameters, CreateRun, PrepareWorkspace, InstallScript, CompleteLifecycle,
                      Fails, Reaches
  <2>3. ASSUME NEW outcome \in {"ready", "refused", "cancelled"}, Settled(outcome), NEW o \in Requests
        PROVE  phase'[o] \in Ended \cup {"idle"}
    BY <1>2, <2>3, Settles DEF StartInv, GoesOn, Ended
  <2>4. QED
    BY <1>1, <2>2, <2>3 DEF UnderWay
<1>7. CASE \E o \in Requests : Leave(o)
  BY <1>1, <1>7 DEF Leave
<1>8. CASE DeletionStep \/ RequestDeletion \/ StopRun
  BY <1>1, <1>8 DEF DeletionStep, RequestDeletion, RecordIntent, Dispose, Drain, Archive, RemoveIntent, Elsewhere,
                    DeletionUnchanged, StopRun
<1>9. CASE LosePrimary \/ UNCHANGED vars
  BY <1>1, <1>9 DEF LosePrimary, requestVars, vars
<1>10. CASE Crash
  BY <1>2, <1>10 DEF Crash, Placed, UnderWay, Ended
<1>11. QED
  BY <1>3, <1>4, <1>5, <1>6, <1>7, <1>8, <1>9, <1>10 DEF Next

LEMMA StepsBilled ==
    ASSUME OnceInv, [Next]_vars
    PROVE  Billed'
<1>1. /\ losses \in Nat /\ unready \in Nat /\ hooks \in Nat /\ actors \in Nat /\ primary \in 0 .. actors
      /\ hooks + (IF pending # "none" /\ primary # 0 THEN 1 ELSE 0) <= actors + unready
      /\ actors <= losses + 1 /\ (~archived /\ primary = 0 => actors <= losses)
      /\ prep.at = "lifecycle" => pending # "none"
  BY DEF OnceInv, StartInv, TypeOK, Whole, Readiness, Billed
<1>2. StartInv /\ NoPrep.at = "none" /\ {"none", "plain"} \cap Entries = {}
  BY Prepares, RunStartAssumption DEF OnceInv, StartInv
<1>3. CASE PrepareWorkspace
  <2>1. /\ prep.at = "workspace" /\ deletion = "none" /\ ~archived
        /\ UNCHANGED <<losses, unready, hooks, archived>>
    BY <1>2, <1>3, WorkAllowed DEF PrepareWorkspace, WorkUnchanged, boundVars, lateVars, deletionVars
  <2>2. CASE prep.owner \in Messages
    <3>1. pending = "none" /\ primary = 0
      BY <1>2, <2>1, <2>2 DEF StartInv, Whole, Owners
    <3>2. actors' = actors + 1 /\ primary' = actors + 1 /\ pending' = "plain"
      BY <1>3, <2>2, <3>1 DEF PrepareWorkspace, Staffed
    <3>3. QED
      BY <1>1, <2>1, <3>1, <3>2 DEF Billed
  <2>3. CASE prep.owner \notin Messages
    <3>1. UNCHANGED pending
      BY <1>3, <2>3 DEF PrepareWorkspace
    <3>2. CASE Installed(prep.owner)
      <4>1. prep.owner \in Starts
        BY <1>2, <2>1, <2>3, Prepares DEF StartInv, Whole, Owners, Requests
      <4>2. pending # "none" /\ Staffed
        BY <1>2, <1>3, <2>3, <3>2, <4>1, RunStartAssumption DEF Installed, PrepareWorkspace
      <4>3. QED
        BY <1>1, <2>1, <3>1, <4>2 DEF Billed, Staffed
    <3>3. CASE ~Installed(prep.owner)
      <4>1. UNCHANGED <<actors, primary>> /\ prep'.at = "install"
        BY <1>2, <1>3, <2>3, <3>3, Prepares DEF PrepareWorkspace, Reaches, StartInv
      <4>2. QED
        BY <1>1, <2>1, <3>1, <4>1 DEF Billed
    <3>4. QED
      BY <3>2, <3>3
  <2>4. QED
    BY <2>2, <2>3
<1>4. CASE InstallScript
  <2>1. /\ prep.at = "install" /\ ~archived /\ UNCHANGED <<losses, unready, hooks, archived>>
    BY <1>2, <1>4, WorkAllowed DEF InstallScript, WorkUnchanged, boundVars, lateVars, deletionVars
  <2>2. prep.owner \in Starts /\ pending = "none" /\ primary = 0
    BY <1>2, <2>1 DEF StartInv, Whole, Owners
  <2>3. pending' # "none" /\ actors' = actors + 1 /\ primary' = actors + 1
    BY <1>2, <1>4, <2>2, RunStartAssumption DEF InstallScript, Staffed
  <2>4. QED
    BY <1>1, <2>1, <2>2, <2>3 DEF Billed
<1>5. CASE CompleteLifecycle
  <2>1. /\ prep.at = "lifecycle" /\ hooks' = hooks + 1 /\ pending' = "none" /\ prep' = NoPrep
        /\ unready' = unready + (IF primary = 0 THEN 1 ELSE 0)
        /\ UNCHANGED <<actors, primary, losses, archived>>
    BY <1>2, <1>5, WorkAllowed DEF CompleteLifecycle, Settled, deletionVars, journalVars
  <2>2. QED
    BY <1>1, <1>2, <2>1 DEF Billed
<1>6. CASE WorkStops
  <2>1. prep' = NoPrep /\ UNCHANGED <<actors, primary, losses, archived>>
    BY <1>6 DEF WorkStops, Fails, Settled, deletionVars
  <2>2. CASE UNCHANGED <<installs, pending, hooks, unready>>
    BY <1>1, <1>2, <2>1, <2>2 DEF Billed
  <2>3. CASE FailsInstalled
    <3>1. primary = 0 /\ UNCHANGED <<hooks, unready>>
      BY <1>2, <2>3 DEF FailsInstalled, StartInv, Whole, Owners
    <3>2. QED
      BY <1>1, <1>2, <2>1, <3>1 DEF Billed
  <2>4. CASE FailsTold
    <3>1. hooks' = hooks + 1 /\ unready' = unready + 1 /\ UNCHANGED pending
      BY <2>4 DEF FailsTold
    <3>2. QED
      BY <1>1, <1>2, <2>1, <3>1 DEF Billed
  <2>5. QED
    BY <1>6, <2>2, <2>3, <2>4 DEF WorkStops
<1>7. CASE LosePrimary
  BY <1>1, <1>7 DEF LosePrimary, startVars, lateVars, deletionVars, Billed
<1>8. CASE Archive
  BY <1>1, <1>8 DEF Archive, DeletionUnchanged, lateVars, Billed
<1>9. CASE Crash
  BY <1>1, <1>2, <1>9 DEF Crash, journalVars, lateVars, Billed
<1>10. CASE UNCHANGED <<actors, primary, installs, pending, hooks, losses, unready, unqueued, archived>>
  <2>1. prep'.at = "lifecycle" => pending # "none"
    <3>1. CASE prep' = NoPrep
      BY <1>2, <3>1
    <3>2. CASE prep'.at = prep.at
      BY <1>1, <3>2
    <3>3. CASE CheckParameters \/ CreateRun \/ PrepareWorkspace \/ InstallScript
      <4>1. CASE CheckParameters \/ CreateRun
        <5>1. prep' = NoPrep \/ Reaches("prepare") \/ Reaches("workspace")
          BY <4>1 DEF CheckParameters, CreateRun, Fails, Settled
        <5>2. QED
          BY <1>2, <5>1, Prepares DEF StartInv, Reaches
      <4>2. CASE PrepareWorkspace \/ InstallScript
        BY <1>3, <1>4, <1>10, <4>2 DEF Billed
      <4>3. QED
        BY <3>3, <4>1, <4>2
    <3>4. CASE \E m \in Messages : prep' = Begun(m, IF pending = "none" THEN "workspace" ELSE "lifecycle")
      BY <3>4 DEF Begun
    <3>5. CASE \E s \in Starts : prep' = Begun(s, "parameters")
      BY <3>5 DEF Begun
    <3>6. QED
      BY <1>2, <3>1, <3>2, <3>3, <3>4, <3>5, Preparation
  <2>2. QED
    BY <1>1, <1>10, <2>1 DEF Billed
<1>11. ASSUME NEW s \in Starts, StartInRun(s) PROVE Billed'
  BY <1>1, <1>11 DEF StartInRun, deletionVars, Billed
<1>12. QED
  BY <1>3, <1>4, <1>5, <1>6, <1>7, <1>8, <1>9, <1>10, <1>11, Ledger

\* The number of coordinators never goes down, nor that of the scripts: a run that has an actor keeps one.
LEMMA StaysPeopled ==
    ASSUME StartInv, StartInv', [Next]_vars
    PROVE  actors' >= actors /\ (Peopled => Peopled')
<1>1. /\ actors \in Nat /\ actors' \in Nat /\ EntryOf \in [Starts -> Entries]
      /\ installs \in [Entries -> Nat] /\ installs' \in [Entries -> Nat]
  BY RunStartAssumption DEF StartInv, TypeOK
<1>2. actors' >= actors
  <2>1. Staffed => actors' >= actors
    BY <1>1 DEF Staffed
  <2>2. CASE PrepareWorkspace \/ InstallScript
    <3>1. Staffed \/ UNCHANGED actors
      BY <2>2 DEF PrepareWorkspace, InstallScript
    <3>2. QED
      BY <1>1, <2>1, <3>1
  <2>3. CASE UNCHANGED actors
    BY <1>1, <2>3
  <2>4. CASE \E s \in Starts : StartInRun(s)
    BY <2>3, <2>4 DEF StartInRun
  <2>5. CASE WorkStops \/ CompleteLifecycle \/ LosePrimary \/ Archive \/ Crash
    BY <2>3, <2>5 DEF WorkStops, Fails, CompleteLifecycle, LosePrimary, Archive, Crash, journalVars
  <2>6. QED
    BY <2>2, <2>3, <2>4, <2>5, Ledger
<1>3. ASSUME NEW e \in Entries PROVE installs'[e] >= installs[e]
  <2>1. ASSUME NEW s \in Starts, InstalledFor(s) PROVE installs'[e] >= installs[e]
    BY <1>1, <2>1 DEF InstalledFor
  <2>2. QED
    BY <1>1, <2>1, Installations
<1>4. QED
  BY <1>1, <1>2, <1>3 DEF Peopled

LEMMA StepsStaffing ==
    ASSUME OnceInv, [Next]_vars
    PROVE  Staffing'
<1>1. StartInv /\ StartInv' /\ Billed /\ Staffing
  BY Steps DEF OnceInv
<1>2. /\ actors \in Nat /\ installs \in [Entries -> Nat] /\ EntryOf \in [Starts -> Entries]
      /\ {"none", "plain"} \cap Entries = {} /\ Messages \cap Starts = {}
  BY <1>1, RunStartAssumption DEF StartInv, TypeOK
<1>3. Peopled => Peopled'
  BY <1>1, StaysPeopled
<1>4. ASSUME Peopled' PROVE created' \/ archived'
  <2>1. created \/ archived \/ actors' > 0
    <3>1. CASE Peopled
      BY <1>1, <3>1 DEF Staffing
    <3>2. CASE ~Peopled /\ actors' = 0
      <4>1. ~ UNCHANGED installs
        BY <1>2, <1>4, <3>2 DEF Peopled
      <4>2. ASSUME NEW s \in Starts, phase[s] = "inInstall" PROVE FALSE
        BY <1>1, <3>2, <4>2 DEF Staffing, InRun, InQueue
      <4>3. QED
        BY <1>1, <4>1, <4>2, Installations
    <3>3. QED
      BY <1>1, <3>1, <3>2 DEF StartInv, TypeOK
  <2>2. CASE actors' > 0
    BY <1>1, <2>2 DEF StartInv, Whole, Readiness
  <2>3. QED
    BY <1>1, <2>1, <2>2, RunStays
<1>5. ASSUME NEW s \in Starts, phase'[s] \in InRun PROVE Peopled'
  <2>1. phase[s] \in InRun \/ RunStarted
    BY <1>1, <1>5, Progresses DEF Progress, Requests
  <2>2. QED
    BY <1>1, <1>3, <2>1 DEF Staffing, RunStarted
<1>6. ASSUME NEW s \in Starts, phase'[s] = "joined" PROVE prep'.owner = s
  <2>1. s \in prep'.waiters /\ s \notin Messages /\ s \in Requests
    BY <1>1, <1>2, <1>6 DEF StartInv, Fits, Requests
  <2>2. prep' # NoPrep
    BY <2>1, <1>1, Prepares DEF StartInv
  <2>3. CASE prep'.owner = prep.owner /\ prep'.waiters \subseteq prep.waiters \cup Messages
    <3>1. s \in prep.waiters
      BY <2>1, <2>3
    <3>2. phase[s] = "joined"
      BY <1>1, <2>1, <3>1 DEF StartInv, Fits
    <3>3. QED
      BY <1>1, <2>3, <3>2 DEF Staffing
  <2>4. CASE \E m \in Messages : prep' = Begun(m, IF pending = "none" THEN "workspace" ELSE "lifecycle")
    BY <2>1, <2>4 DEF Begun
  <2>5. CASE \E t \in Starts : prep' = Begun(t, "parameters")
    BY <2>1, <2>5 DEF Begun
  <2>6. QED
    BY <1>1, <2>2, <2>3, <2>4, <2>5, Preparation
<1>7. ASSUME archived' \/ deletion' = "removing" PROVE UnderWay' = {}
  <2>1. CASE archived \/ deletion = "removing"
    <3>1. UnderWay = {} /\ deletion # "none"
      BY <1>1, <2>1 DEF Staffing, StartInv, Whole, Deletes
    <3>2. QED
      BY <1>1, <3>1, StaysDrained
  <2>2. CASE ~archived /\ deletion # "removing"
    <3>1. UNCHANGED archived
      BY <1>1, <2>2, Ledger DEF StartInRun, WorkStops, PrepareWorkspace, InstallScript, CompleteLifecycle, WorkUnchanged, LosePrimary,
                           Archive, Crash, deletionVars
    <3>2. deletion' = "removing" /\ deletion # "removing"
      BY <1>7, <2>2, <3>1
    <3>3. Drain
      BY <3>2, DeletionFrame DEF DeletionStep, RequestDeletion, RecordIntent, Dispose, Archive, RemoveIntent, Crash, ResumedDeletion
    <3>4. UnderWay = {} /\ deletion # "none"
      BY <3>3 DEF Drain
    <3>5. QED
      BY <1>1, <3>4, StaysDrained
  <2>3. QED
    BY <2>1, <2>2
<1>8. ASSUME prep'.at \in {"parameters", "prepare", "workspace", "install"}, prep'.owner \in Starts, pending' = "none"
      PROVE  ~Peopled'
  <2>1. prep' # NoPrep
    BY <1>1, <1>8, Prepares DEF StartInv
  <2>2. CASE \E m \in Messages : prep' = Begun(m, IF pending = "none" THEN "workspace" ELSE "lifecycle")
    BY <1>2, <1>8, <2>2 DEF Begun
  <2>3. ASSUME ~Peopled, pending = "none", UNCHANGED actors PROVE ~Peopled'
    <3>1. UNCHANGED installs
      <4>1. ASSUME NEW s \in Starts, phase[s] = "inInstall" PROVE FALSE
        BY <1>1, <2>3, <4>1 DEF Staffing, InRun, InQueue
      <4>2. ASSUME prep.owner \in Starts, pending' = EntryOf[prep.owner] PROVE FALSE
        BY <1>2, <1>8, <4>2
      <4>3. QED
        BY <1>1, <4>1, <4>2, Installations
    <3>2. QED
      BY <2>3, <3>1 DEF Peopled
  <2>4. ASSUME NEW s \in Starts, ~RunStarted, phase[s] \in {"asked", "decided"}, UNCHANGED <<pending, actors>> PROVE ~Peopled'
    <3>1. s \in UnderWay
      BY <2>4 DEF UnderWay, Ended, Requests
    <3>2. ~archived
      BY <1>1, <3>1 DEF Staffing
    <3>3. ~Peopled
      BY <1>1, <1>8, <2>4, <3>2 DEF RunStarted, Staffing
    <3>4. QED
      BY <1>8, <2>3, <2>4, <3>3
  <2>5. CASE prep'.owner = prep.owner /\ (prep'.at = prep.at \/ CheckParameters \/ CreateRun \/ PrepareWorkspace \/ InstallScript)
    <3>1. CASE InstallScript
      BY <1>2, <1>8, <2>5, <3>1 DEF InstallScript
    <3>2. CASE PrepareWorkspace
      <4>1. prep.at = "workspace" /\ prep.owner \in Starts /\ prep.owner \notin Messages
        BY <1>2, <1>8, <2>5, <3>2 DEF PrepareWorkspace, WorkGoesOn
      <4>2. UNCHANGED pending
        BY <3>2, <4>1 DEF PrepareWorkspace
      <4>3. ~Peopled
        BY <1>1, <1>8, <4>1, <4>2 DEF Staffing
      <4>4. ~Installed(prep.owner)
        BY <1>2, <1>8, <4>1, <4>2 DEF Installed
      <4>5. UNCHANGED actors
        BY <3>2, <4>1, <4>4 DEF PrepareWorkspace
      <4>6. QED
        BY <1>8, <2>3, <4>2, <4>3, <4>5
    <3>3. CASE CheckParameters \/ CreateRun
      <4>1. prep.at \in {"parameters", "prepare"} /\ UNCHANGED <<pending, actors>>
        BY <3>3 DEF CheckParameters, CreateRun, WorkGoesOn, Fails, journalVars
      <4>2. ~Peopled
        BY <1>1, <1>8, <2>5, <4>1 DEF Staffing
      <4>3. QED
        BY <1>8, <2>3, <4>1, <4>2
    <3>4. CASE prep'.at = prep.at
      <4>1. CASE UNCHANGED <<pending, actors>>
        <5>1. ~Peopled
          BY <1>1, <1>8, <2>5, <3>4, <4>1 DEF Staffing
        <5>2. QED
          BY <1>8, <2>3, <4>1, <5>1
      <4>2. CASE (\E s \in Starts : StartInRun(s)) \/ LosePrimary \/ Archive
        BY <4>1, <4>2 DEF StartInRun, LosePrimary, startVars, Archive, DeletionUnchanged
      <4>3. CASE WorkStops \/ CompleteLifecycle \/ Crash
        BY <2>1, <4>3 DEF WorkStops, Fails, CompleteLifecycle, Settled, Crash
      <4>4. QED
        BY <3>1, <3>2, <4>1, <4>2, <4>3, Ledger
    <3>5. QED
      BY <2>5, <3>1, <3>2, <3>3, <3>4
  <2>6. QED
    BY <1>1, <2>1, <2>2, <2>4, <2>5, Preparation
<1>9. QED
  BY <1>4, <1>5, <1>6, <1>7, <1>8 DEF Staffing

\* The starts of a template that were accepted, after a step: those before it, and at most one.
LEMMA MoreAccepted ==
    ASSUME Spare, StartInv, NEW x, Progress(x), NEW e \in Entries
    PROVE  /\ Accepted(e) \subseteq Accepted(e)' /\ Accepted(e)' \subseteq Accepted(e) \cup {x}
           /\ IsFiniteSet(Accepted(e)') /\ Started(e) \in Nat /\ Started(e)' \in Nat /\ Started(e)' >= Started(e)
<1>1. Accepted(e) \subseteq Accepted(e)' /\ Accepted(e)' \subseteq Accepted(e) \cup {x}
  BY DEF Accepted, Progress, Becomes, Requests
<1>2. IsFiniteSet(Accepted(e))
  BY DEF Spare
<1>3. IsFiniteSet(Accepted(e) \cup {x})
  BY <1>2, FS_AddElement
<1>4. PICK S, T : S = Accepted(e) /\ T = Accepted(e)'
  OBVIOUS
<1>5. IsFiniteSet(T) /\ S \subseteq T
  BY <1>1, <1>3, <1>4, FS_Subset
<1>6. Cardinality(S) \in Nat /\ Cardinality(T) \in Nat /\ Cardinality(S) <= Cardinality(T)
  BY <1>5, FS_Subset, FS_CardinalityType
<1>7. Started(e) = Cardinality(S) /\ Started(e)' = Cardinality(T)
  BY <1>4 DEF Started, Accepted
<1>8. QED
  BY <1>1, <1>4, <1>5, <1>6, <1>7

\* A script is installed inside the run for the start that is accepted or refused with it, and by the preparation for
\* none.
LEMMA StepsSpare ==
    ASSUME OnceInv, [Next]_vars
    PROVE  Spare'
<1>1. StartInv /\ StartInv' /\ Staffing /\ Spare
  BY Steps DEF OnceInv
<1>2. /\ installs \in [Entries -> Nat] /\ installs' \in [Entries -> Nat] /\ EntryOf \in [Starts -> Entries]
      /\ unqueued \in [Entries -> Nat]
  BY <1>1, RunStartAssumption DEF StartInv, TypeOK, Spare
<1>3. PICK x : Progress(x)
  BY <1>1, Progresses
<1>4. \A e \in Entries : IsFiniteSet(Accepted(e)') /\ Started(e) \in Nat /\ Started(e)' \in Nat /\ Started(e)' >= Started(e)
  BY <1>1, <1>3, MoreAccepted
<1>5. UNCHANGED unqueued \/ \E s \in Starts : StartInRun(s) /\ InstalledInVain(s)
  <2>1. CASE WorkStops \/ PrepareWorkspace \/ InstallScript \/ CompleteLifecycle
    BY <2>1 DEF WorkStops, PrepareWorkspace, InstallScript, CompleteLifecycle, WorkUnchanged, boundVars, lateVars
  <2>2. CASE LosePrimary \/ Archive \/ Crash
    BY <2>2 DEF LosePrimary, Archive, Crash, DeletionUnchanged, lateVars
  <2>3. ASSUME NEW s \in Starts, StartInRun(s) PROVE UNCHANGED unqueued \/ InstalledInVain(s)
    BY <2>3 DEF StartInRun
  <2>4. QED
    BY <2>1, <2>2, <2>3, Ledger
\* The scripts without a start and without a refusal, when one of them is added to both sides.
<1>6. ASSUME unqueued' \in [Entries -> Nat], \A e \in Entries : installs'[e] - unqueued'[e] - Started(e)' <= installs[e] - unqueued[e] - Started(e)
      PROVE  Spare'
  <2>1. \A e \in Entries : /\ installs'[e] \in Nat /\ installs[e] \in Nat /\ unqueued'[e] \in Nat /\ unqueued[e] \in Nat
                           /\ Started(e) \in Nat /\ Started(e)' \in Nat
    BY <1>2, <1>4, <1>6
  <2>2. \A e \in Entries : installs'[e] > unqueued'[e] + Started(e)' => installs[e] > unqueued[e] + Started(e)
    BY <1>6, <2>1
  <2>3. \A e \in Entries : installs'[e] <= 1 + unqueued'[e] + Started(e)'
    <3> TAKE e \in Entries
    <3>1. installs[e] <= 1 + unqueued[e] + Started(e)
      BY <1>1 DEF Spare
    <3>2. QED
      BY <1>6, <2>1, <3>1
  <2>4. QED
    BY <1>1, <1>4, <1>6, <2>2, <2>3 DEF Spare
<1>7. CASE UNCHANGED <<installs, unqueued>>
  BY <1>2, <1>4, <1>6, <1>7
<1>8. CASE /\ prep.at = "install" /\ prep.owner \in Starts /\ pending = "none"
           /\ InstalledFor(prep.owner) /\ UNCHANGED unqueued
  <2>1. \A e \in Entries : installs[e] = 0
    BY <1>1, <1>2, <1>8 DEF Staffing, Peopled
  <2>2. PICK f \in Entries : installs' = [installs EXCEPT ![f] = @ + 1]
    BY <1>2, <1>8 DEF InstalledFor
  <2>3. \A e \in Entries : installs'[e] = IF e = f THEN 1 ELSE 0
    BY <1>2, <2>1, <2>2
  <2>4. \A e \in Entries : unqueued'[e] \in Nat /\ Started(e)' \in Nat
    BY <1>2, <1>4, <1>8
  <2>5. \A e \in Entries : installs'[e] <= 1 + unqueued'[e] + Started(e)'
    BY <2>3, <2>4
  <2>6. \A e \in Entries : installs'[e] > unqueued'[e] + Started(e)' => e = f
    BY <2>3, <2>4
  <2>7. QED
    BY <1>2, <1>4, <1>8, <2>5, <2>6 DEF Spare
<1>9. ASSUME NEW s \in Starts, StartInRun(s), InstalledFor(s) PROVE Spare'
  <2>1. PICK f \in Entries : f = EntryOf[s]
    BY <1>2
  <2>2. \A e \in Entries : installs'[e] = IF e = f THEN installs[e] + 1 ELSE installs[e]
    BY <1>2, <1>9, <2>1 DEF InstalledFor
  <2>3. CASE InstalledInVain(s)
    <3>1. unqueued' = [unqueued EXCEPT ![f] = @ + 1]
      BY <2>1, <2>3 DEF InstalledInVain
    <3>2. unqueued' \in [Entries -> Nat] /\ \A e \in Entries : unqueued'[e] = IF e = f THEN unqueued[e] + 1 ELSE unqueued[e]
      BY <1>2, <3>1
    <3>3. \A e \in Entries : installs'[e] - unqueued'[e] - Started(e)' <= installs[e] - unqueued[e] - Started(e)
      BY <1>2, <1>4, <2>2, <3>2
    <3>4. QED
      BY <1>6, <3>2, <3>3
  <2>4. CASE ~InstalledInVain(s)
    <3>1. installs' # installs
      BY <1>2, <2>1, <2>2
    <3>2. /\ UNCHANGED unqueued /\ Moved(s, "accepted") /\ phase[s] = "inInstall" /\ s \in Requests
      BY <1>9, <2>4, <3>1 DEF StartInRun, Requests
    <3>3. phase'[s] = "accepted"
      BY <1>1, <3>2, Moves DEF StartInv, Phases
    <3>4. Started(f)' = Started(f) + 1
      <4>1. PICK S, T : S = Accepted(f) /\ T = Accepted(f)'
        OBVIOUS
      <4>2. s \notin S /\ s \in T /\ IsFiniteSet(S)
        BY <1>1, <2>1, <3>2, <3>3, <4>1 DEF Accepted, Spare
      <4>3. S \subseteq T /\ T \subseteq S \cup {x}
        BY <1>1, <1>3, <4>1, MoreAccepted
      <4>4. T = S \cup {s}
        BY <4>2, <4>3
      <4>5. Cardinality(T) = Cardinality(S) + 1
        BY <4>2, <4>4, FS_AddElement
      <4>6. QED
        BY <4>1, <4>5 DEF Started, Accepted
    <3>5. \A e \in Entries : installs'[e] - unqueued'[e] - Started(e)' <= installs[e] - unqueued[e] - Started(e)
      BY <1>2, <1>4, <2>2, <3>2, <3>4
    <3>6. QED
      BY <1>2, <1>6, <3>2, <3>5
  <2>5. QED
    BY <2>3, <2>4
<1>10. QED
  BY <1>1, <1>5, <1>7, <1>8, <1>9, Installations DEF InstalledInVain

LEMMA OnceInitially ==
    ASSUME Init
    PROVE  OnceInv
<1>1. StartInv
  BY Initially
<1>2. NoPrep.at = "none" /\ UnderWay = {} /\ (\A s \in Starts : phase[s] = "idle") /\ ~Peopled
  BY DEF Init, NoPrep, UnderWay, Requests, Peopled
<1>3. Billed /\ Staffing
  BY <1>2 DEF Init, Billed, Staffing, InRun, InQueue
<1>4. /\ unqueued \in [Entries -> Nat]
      /\ \A e \in Entries : Accepted(e) = {} /\ installs[e] = 0 /\ unqueued[e] = 0
  BY <1>2 DEF Init, Accepted
<1>5. IsFiniteSet({}) /\ Cardinality({}) = 0
  BY FS_EmptySet
<1>6. \A e \in Entries : Started(e) = 0
  BY <1>4, <1>5 DEF Started, Accepted
<1>7. \A e \in Entries : IsFiniteSet(Accepted(e)) /\ installs[e] <= 1 + unqueued[e] + Started(e)
  <2> TAKE e \in Entries
  <2>1. IsFiniteSet(Accepted(e))
    BY <1>4, <1>5
  <2>2. installs[e] <= 1 + unqueued[e] + Started(e)
    BY <1>4, <1>6
  <2>3. QED
    BY <2>1, <2>2
<1>8. \A e \in Entries : ~(installs[e] > unqueued[e] + Started(e))
  BY <1>4, <1>6
<1>9. QED
  BY <1>1, <1>3, <1>4, <1>7, <1>8 DEF OnceInv, Spare

\* What the books say of a run holds between any two steps, together with what RunStart's other steps keep.
THEOREM OnceInvariant == Spec => []OnceInv
<1>1. Init => OnceInv
  BY OnceInitially
<1>2. OnceInv /\ [Next]_vars => OnceInv'
  BY Steps, StepsBilled, StepsStaffing, StepsSpare DEF OnceInv
<1>3. QED
  BY <1>1, <1>2, PTL DEF Spec

\* Between any two steps the types hold; the plugins heard of the run once for each primary actor, and once more for each
\* time that they did not make it ready; at most one script is installed without its start, but for those of starts
\* inside the run that were refused after their install; and the chat shows what is so.
THEOREM RunStartInvariant == Spec => []RunStartInv
<1>1. OnceInv => RunStartInv
  <2> SUFFICES ASSUME OnceInv PROVE RunStartInv
    OBVIOUS
  <2>1. TypeOK /\ StartupShown
    BY DEF OnceInv, StartInv, Whole, Shown, StartupShown
  <2>2. hooks <= 1 + losses + unready
    BY DEF OnceInv, Billed, StartInv, Whole, Readiness, TypeOK, Peopled
  <2>3. QED
    BY <2>1, <2>2 DEF OnceInv, Spare, StartedOnce, RunStartInv
<1>2. QED
  BY <1>1, OnceInvariant, PTL

\* No step adds to the run or takes from it once it is archived.
LEMMA ArchivedFrame ==
    ASSUME OnceInv, [Next]_vars, archived
    PROVE  UNCHANGED <<created, actors, primary, installs>>
<1>1. created = FALSE /\ primary = 0 /\ deletion # "none"
  BY DEF OnceInv, StartInv, Whole, Deletes, TypeOK
<1>2. CASE \E m \in Messages : Arrive(m) \/ MessageStep(m)
  <2> PICK m \in Messages : Arrive(m) \/ MessageStep(m)
    BY <1>2
  <2>1. phase[m] # "ensure" /\ (Objection(m) = "none" => deletion = "none")
    BY <1>1, Objections DEF OnceInv, StartInv, Fits, Requests
  <2>2. ~EnsureRun(m) \/ UNCHANGED created
    BY <1>1, <2>1 DEF EnsureRun
  <2>3. QED
    BY <2>2 DEF MessageStep, Arrive, MessageHooks, EnsureRun, MessageStarted, Directing, Enqueue, journalVars
<1>3. CASE \E s \in Starts : Ask(s) \/ StartStep(s)
  <2> PICK s \in Starts : Ask(s) \/ StartStep(s)
    BY <1>3
  <2>1. Objection(s) # "none" /\ phase[s] # "inInstall"
    BY <1>1, Objections DEF OnceInv, Staffing, UnderWay, Ended, Requests
  <2>2. QED
    BY <2>1 DEF StartStep, Ask, StartPackage, Choose, TakeTurn, StartInRun, InstalledInVain, journalVars
<1>4. CASE \E o \in Requests : Leave(o) \/ GiveUp(o)
  BY <1>4 DEF Leave, GiveUp, journalVars
<1>5. CASE WorkStep
  <2>1. \A at : ~WorkGoesOn(at)
    BY <1>1, WorkAllowed DEF OnceInv
  <2>2. ASSUME prep # NoPrep, prep.cut = "no" PROVE FALSE
    <3>1. PICK o \in Requests : phase[o] \in {"joining", "joined"}
      BY <2>2 DEF OnceInv, StartInv, TypeOK
    <3>2. QED
      BY <3>1 DEF OnceInv, Staffing, UnderWay, Ended
  <2>3. QED
    BY <1>5, <2>1, <2>2 DEF WorkStep, WorkStops, Fails, FailsInstalled, FailsTold, CheckParameters, CreateRun, PrepareWorkspace,
                            InstallScript, CompleteLifecycle
<1>6. CASE DeletionStep \/ RequestDeletion
  BY <1>1, <1>6 DEF DeletionStep, RequestDeletion, RecordIntent, Dispose, Drain, Archive, RemoveIntent, Elsewhere, journalVars
<1>7. CASE StopRun \/ LosePrimary \/ Crash
  BY <1>7 DEF StopRun, LosePrimary, Crash, journalVars
<1>8. CASE UNCHANGED vars
  BY <1>8 DEF vars, journalVars
<1>9. QED
  BY <1>2, <1>3, <1>4, <1>5, <1>6, <1>7, <1>8 DEF Next

\* From the request to delete the run no input is accepted, what is archived stays as it is, and a recorded deletion goes on.
THEOREM DeletionStays == Spec => DeletionIsFinal
<1>1. ASSUME StartInv, [Next]_vars, NEW o \in Requests, deletion # "none" PROVE ~Becomes(o, "accepted")
  <2> SUFFICES ASSUME Becomes(o, "accepted") PROVE FALSE
    OBVIOUS
  <2>1. Concluded(o, "accepted")
    BY <1>1, Endings DEF Ended
  <2>2. QED
    BY <1>1, <2>1, Objections DEF Concluded
<1>2. ASSUME StartInv, [Next]_vars, intent PROVE deletion' \notin {"none", "recording"} \/ deletion \in {"recording", "failed"}
  <2>1. deletion # "none"
    BY <1>2 DEF StartInv, Whole, Deletes
  <2>2. CASE UNCHANGED deletion
    BY <2>1, <2>2
  <2>3. CASE DeletionStep \/ RequestDeletion
    BY <1>2, <2>1, <2>3 DEF DeletionStep, RequestDeletion, RecordIntent, Dispose, Drain, Archive, RemoveIntent
  <2>4. CASE Crash
    BY <1>2, <2>4 DEF Crash, ResumedDeletion
  <2>5. QED
    BY <1>2, <2>2, <2>3, <2>4, DeletionFrame
<1>3. ASSUME OnceInv, [Next]_vars, archived PROVE UNCHANGED <<created, actors, primary, installs>>
  BY <1>3, ArchivedFrame
<1>4. QED
  <2>1. OnceInv /\ [Next]_vars =>
            [/\ deletion # "none" => \A o \in Requests : ~Becomes(o, "accepted")
             /\ intent => deletion' \notin {"none", "recording"} \/ deletion \in {"recording", "failed"}
             /\ archived => UNCHANGED <<created, actors, primary, installs>>]_vars
    BY <1>1, <1>2, <1>3 DEF OnceInv
  <2>2. QED
    BY <2>1, OnceInvariant, PTL DEF Spec, DeletionIsFinal

=============================================================================
