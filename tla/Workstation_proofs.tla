-------------------------- MODULE Workstation_proofs --------------------------
(***************************************************************************)
(* The workstation and the registry of the server that calls it: for any   *)
(* finite sets of runs and commands and any number of stops, faults and    *)
(* renewed sign-ins.                                                       *)
(***************************************************************************)
EXTENDS Workstation, FiniteSetTheorems, TLAPS

-----------------------------------------------------------------------------
(* The line to the workstation.  Two requests in this order clash if the     *)
(* second may not follow the first: a command is started once, observed by    *)
(* one caller, and started after a stop of its run only once that has been    *)
(* answered, which also keeps the stops apart.  L are the runs a delivery of  *)
(* which exceeded its time limit, F those a stop of which failed.             *)

IsStop(m) == m.op \in {"stop", "delete"}

StartIn(s, t) == \E m \in ToSet(s) : m.op = "start" /\ m.of = t
WaitIn(s, t) == \E m \in ToSet(s) : m.op = "wait" /\ m.of = t /\ m.heard
StopIn(s, r) == \E m \in ToSet(s) : IsStop(m) /\ m.of = r

Clash(x, y, L, F) ==
    \/ x.op = "start" /\ y.op = "start" /\ x.of = y.of
    \/ x.op = "wait" /\ y.op = "wait" /\ x.of = y.of /\ x.heard /\ y.heard
    \/ IsStop(x) /\ IsStop(y) /\ x.of = y.of /\ x.of \notin L
    \/ IsStop(x) /\ y.op = "start" /\ x.of = RunOf[y.of] /\ x.of \notin L \cup F

Orderly(s, L, F) == \A i, j \in 1..Len(s) : i < j => ~Clash(s[i], s[j], L, F)

LEMMA InSet ==
    ASSUME NEW s \in Seq(Requests)
    PROVE  /\ \A i \in 1..Len(s) : s[i] \in ToSet(s) /\ s[i] \in Requests
           /\ \A m \in ToSet(s) : m \in Requests /\ \E i \in 1..Len(s) : s[i] = m
           /\ Len(s) \in Nat
BY DEF ToSet

LEMMA InJoined ==
    ASSUME NEW s \in Seq(Requests), NEW u \in Seq(Requests)
    PROVE  /\ s \o u \in Seq(Requests)
           /\ ToSet(s \o u) = ToSet(s) \cup ToSet(u)
<1>1. s \o u \in Seq(Requests) /\ Len(s \o u) = Len(s) + Len(u) /\ Len(s) \in Nat /\ Len(u) \in Nat
  OBVIOUS
<1>2. \A i \in 1..Len(s \o u) : (s \o u)[i] = IF i <= Len(s) THEN s[i] ELSE u[i - Len(s)]
  OBVIOUS
<1>3. \A m \in ToSet(s \o u) : m \in ToSet(s) \cup ToSet(u)
  <2> SUFFICES ASSUME NEW i \in 1..Len(s \o u) PROVE (s \o u)[i] \in ToSet(s) \cup ToSet(u)
    BY <1>1, InSet
  <2>1. CASE i <= Len(s)
    BY <2>1, <1>1, <1>2, InSet
  <2>2. CASE i > Len(s)
    <3>1. i - Len(s) \in 1..Len(u)
      BY <2>2, <1>1
    <3> QED
      BY <3>1, <2>2, <1>1, <1>2, InSet
  <2> QED
    BY <2>1, <2>2, <1>1
<1>4. \A i \in 1..Len(s) : i \in 1..Len(s \o u) /\ (s \o u)[i] = s[i]
  BY <1>1, <1>2
<1>5. \A i \in 1..Len(u) : i + Len(s) \in 1..Len(s \o u) /\ (s \o u)[i + Len(s)] = u[i]
  BY <1>1, <1>2
<1>6. \A m \in ToSet(s) \cup ToSet(u) : m \in ToSet(s \o u)
  <2>1. ASSUME NEW m \in ToSet(s) PROVE m \in ToSet(s \o u)
    <3>1. PICK i \in 1..Len(s) : s[i] = m
      BY InSet
    <3> QED
      BY <3>1, <1>1, <1>4, InSet
  <2>2. ASSUME NEW m \in ToSet(u) PROVE m \in ToSet(s \o u)
    <3>1. PICK i \in 1..Len(u) : u[i] = m
      BY InSet
    <3> QED
      BY <3>1, <1>1, <1>5, InSet
  <2> QED
    BY <2>1, <2>2
<1> QED
  BY <1>1, <1>3, <1>6

LEMMA OrderlyJoined ==
    ASSUME NEW s \in Seq(Requests), NEW u \in Seq(Requests), NEW L, NEW F,
           Orderly(s, L, F), Orderly(u, L, F),
           \A x \in ToSet(s), y \in ToSet(u) : ~Clash(x, y, L, F)
    PROVE  Orderly(s \o u, L, F)
<1> SUFFICES ASSUME NEW i \in 1..Len(s \o u), NEW j \in 1..Len(s \o u), i < j
             PROVE ~Clash((s \o u)[i], (s \o u)[j], L, F)
  BY DEF Orderly
<1>1. /\ Len(s \o u) = Len(s) + Len(u) /\ Len(s) \in Nat /\ Len(u) \in Nat
      /\ \A k \in 1..Len(s \o u) : (s \o u)[k] = IF k <= Len(s) THEN s[k] ELSE u[k - Len(s)]
  OBVIOUS
<1>2. CASE j <= Len(s)
  BY <1>1, <1>2 DEF Orderly
<1>3. CASE i <= Len(s) /\ j > Len(s)
  <2>1. i \in 1..Len(s) /\ j - Len(s) \in 1..Len(u)
    BY <1>1, <1>3
  <2>2. (s \o u)[i] = s[i] /\ (s \o u)[j] = u[j - Len(s)]
    BY <1>1, <1>3
  <2>3. s[i] \in ToSet(s) /\ u[j - Len(s)] \in ToSet(u)
    BY <2>1, InSet
  <2> QED
    BY <2>2, <2>3
<1>4. CASE i > Len(s)
  <2>1. i - Len(s) \in 1..Len(u) /\ j - Len(s) \in 1..Len(u) /\ i - Len(s) < j - Len(s)
    BY <1>1, <1>4
  <2>2. (s \o u)[i] = u[i - Len(s)] /\ (s \o u)[j] = u[j - Len(s)]
    BY <1>1, <1>4
  <2> QED
    BY <2>1, <2>2 DEF Orderly
<1> QED
  BY <1>1, <1>2, <1>3, <1>4

LEMMA InEmpty == <<>> \in Seq(Requests) /\ ToSet(<<>>) = {} /\ \A L, F : Orderly(<<>>, L, F)
BY DEF ToSet, Orderly

LEMMA InSingle ==
    ASSUME NEW m \in Requests
    PROVE  <<m>> \in Seq(Requests) /\ ToSet(<<m>>) = {m} /\ \A L, F : Orderly(<<m>>, L, F)
<1>1. <<m>> \in Seq(Requests) /\ Len(<<m>>) = 1 /\ <<m>>[1] = m
  OBVIOUS
<1>2. \A i \in 1..Len(<<m>>) : i = 1
  BY <1>1
<1>3. ToSet(<<m>>) = {m}
  BY <1>1 DEF ToSet
<1> QED
  BY <1>1, <1>2, <1>3 DEF Orderly

LEMMA InTail ==
    ASSUME NEW s \in Seq(Requests), s # <<>>
    PROVE  /\ Tail(s) \in Seq(Requests) /\ Head(s) \in Requests
           /\ ToSet(s) = {Head(s)} \cup ToSet(Tail(s))
           /\ \A L, F : Orderly(s, L, F) =>
                 Orderly(Tail(s), L, F) /\ \A y \in ToSet(Tail(s)) : ~Clash(Head(s), y, L, F)
<1>1. /\ Tail(s) \in Seq(Requests) /\ Head(s) = s[1] /\ Len(s) \in Nat /\ Len(s) >= 1
      /\ Len(Tail(s)) = Len(s) - 1 /\ \A i \in 1..Len(Tail(s)) : Tail(s)[i] = s[i + 1]
  OBVIOUS
<1>2. \A i \in 1..Len(Tail(s)) : i + 1 \in 1..Len(s) /\ 1 < i + 1
  BY <1>1
<1>3. \A i \in 1..Len(s) : i = 1 \/ (i - 1 \in 1..Len(Tail(s)) /\ Tail(s)[i - 1] = s[i])
  BY <1>1
<1>4. ToSet(s) = {Head(s)} \cup ToSet(Tail(s))
  <2>1. ASSUME NEW m \in ToSet(s) PROVE m = Head(s) \/ m \in ToSet(Tail(s))
    <3>1. PICK i \in 1..Len(s) : s[i] = m
      BY InSet
    <3>2. CASE i - 1 \in 1..Len(Tail(s)) /\ Tail(s)[i - 1] = s[i]
      BY <3>1, <3>2, <1>1, InSet
    <3> QED
      BY <3>1, <3>2, <1>1, <1>3
  <2>2. Head(s) \in ToSet(s)
    BY <1>1, InSet
  <2>3. ASSUME NEW m \in ToSet(Tail(s)) PROVE m \in ToSet(s)
    <3>1. PICK i \in 1..Len(Tail(s)) : Tail(s)[i] = m
      BY <1>1, InSet
    <3> QED
      BY <3>1, <1>1, <1>2, InSet
  <2> QED
    BY <2>1, <2>2, <2>3
<1>5. ASSUME NEW L, NEW F, Orderly(s, L, F)
      PROVE  Orderly(Tail(s), L, F) /\ \A y \in ToSet(Tail(s)) : ~Clash(Head(s), y, L, F)
  <2>1. Orderly(Tail(s), L, F)
    <3> SUFFICES ASSUME NEW i \in 1..Len(Tail(s)), NEW j \in 1..Len(Tail(s)), i < j
                 PROVE ~Clash(Tail(s)[i], Tail(s)[j], L, F)
      BY DEF Orderly
    <3>1. i + 1 \in 1..Len(s) /\ j + 1 \in 1..Len(s) /\ i + 1 < j + 1
      BY <1>1
    <3> QED
      BY <3>1, <1>1, <1>5 DEF Orderly
  <2>2. ASSUME NEW y \in ToSet(Tail(s)) PROVE ~Clash(Head(s), y, L, F)
    <3>1. PICK i \in 1..Len(Tail(s)) : Tail(s)[i] = y
      BY <1>1, InSet
    <3>2. 1 \in 1..Len(s) /\ i + 1 \in 1..Len(s) /\ 1 < i + 1 /\ s[i + 1] = y
      BY <3>1, <1>1, <1>2
    <3> QED
      BY <3>2, <1>1, <1>5 DEF Orderly
  <2> QED
    BY <2>1, <2>2
<1> QED
  BY <1>1, <1>4, <1>5, InSet

LEMMA InListed ==
    ASSUME NEW S \in SUBSET Requests, IsFiniteSet(S)
    PROVE  /\ SetToSeq(S) \in Seq(Requests) /\ ToSet(SetToSeq(S)) = S
           /\ \A L, F : (\A x, y \in S : x # y => ~Clash(x, y, L, F)) => Orderly(SetToSeq(S), L, F)
<1>1. Cardinality(S) \in Nat /\ ExistsBijection(1..Cardinality(S), S)
  BY FS_CardinalityType
<1>2. PICK f \in Bijection(1..Cardinality(S), S) : TRUE
  BY <1>1 DEF ExistsBijection
<1>3. f \in [1..Cardinality(S) -> S] /\ IsInjective(f)
  BY <1>2 DEF Bijection, Injection, IsInjective
<1>4. SetToSeq(S) \in [1..Cardinality(S) -> S] /\ IsInjective(SetToSeq(S))
  BY <1>3 DEF SetToSeq
<1> DEFINE q == SetToSeq(S)
<1>5. q \in Seq(Requests) /\ Len(q) = Cardinality(S)
  BY <1>1, <1>4
<1>6. q \in Surjection(1..Cardinality(S), S)
  <2>1. q \in Injection(1..Cardinality(S), S)
    BY <1>4 DEF Injection, IsInjective
  <2>2. IsFiniteSet(1..Cardinality(S)) /\ Cardinality(1..Cardinality(S)) = Cardinality(S)
    BY <1>1, FS_Interval
  <2> QED
    BY <2>1, <2>2, FS_Injection
<1>7. ToSet(q) = S
  BY <1>6, <1>4 DEF ToSet, Surjection
<1>8. ASSUME NEW L, NEW F, \A x, y \in S : x # y => ~Clash(x, y, L, F) PROVE Orderly(q, L, F)
  <2> SUFFICES ASSUME NEW i \in 1..Len(q), NEW j \in 1..Len(q), i < j PROVE ~Clash(q[i], q[j], L, F)
    BY DEF Orderly
  <2>1. q[i] \in S /\ q[j] \in S /\ q[i] # q[j]
    BY <1>1, <1>4, <1>5 DEF IsInjective
  <2> QED
    BY <2>1, <1>8
<1> QED
  BY <1>5, <1>7, <1>8

LEMMA FiniteImage ==
    ASSUME NEW S, IsFiniteSet(S), NEW f \in [S -> Requests]
    PROVE  {f[x] : x \in S} \in SUBSET Requests /\ IsFiniteSet({f[x] : x \in S})
<1> DEFINE T == {f[x] : x \in S}
<1>1. f \in Surjection(S, T)
  BY DEF Surjection
<1> QED
  BY <1>1, FS_Surjection

\* What is sent without its caller: nothing is lost and the order stays.
LEMMA InUnheard ==
    ASSUME TypeOK, NEW S
    PROVE  /\ Unheard(S) \in Seq(Requests) /\ (down = <<>> => Unheard(S) = <<>>)
           /\ \A m \in ToSet(Unheard(S)) : \E x \in ToSet(down) :
                 m = IF x \in S THEN [x EXCEPT !.heard = FALSE] ELSE x
           /\ \A x \in ToSet(down) : (IF x \in S THEN [x EXCEPT !.heard = FALSE] ELSE x) \in ToSet(Unheard(S))
           /\ \A L, F : Orderly(down, L, F) => Orderly(Unheard(S), L, F)
<1> DEFINE q == Unheard(S)
           Quieted(x) == IF x \in S THEN [x EXCEPT !.heard = FALSE] ELSE x
<1>1. down \in Seq(Requests) /\ Len(down) \in Nat
  BY DEF TypeOK
<1>2. \A x \in Requests : /\ Quieted(x) \in Requests /\ Quieted(x).op = x.op /\ Quieted(x).of = x.of
                          /\ Quieted(x).heard => x.heard
  BY DEF Requests
<1>3. q = [i \in 1..Len(down) |-> Quieted(down[i])]
  BY DEF Unheard
<1>4. \A i \in 1..Len(down) : down[i] \in Requests /\ q[i] = Quieted(down[i])
  BY <1>1, <1>3
<1> HIDE DEF Quieted
<1>5. q \in Seq(Requests) /\ Len(q) = Len(down)
  BY <1>1, <1>2, <1>3, <1>4
<1>6. ASSUME NEW m \in ToSet(q) PROVE \E x \in ToSet(down) : m = Quieted(x)
  <2>1. PICK i \in 1..Len(q) : q[i] = m
    BY <1>5, InSet
  <2> QED
    BY <2>1, <1>1, <1>4, <1>5, InSet
<1>7. ASSUME NEW x \in ToSet(down) PROVE Quieted(x) \in ToSet(q)
  <2>1. PICK i \in 1..Len(down) : down[i] = x
    BY <1>1, InSet
  <2> QED
    BY <2>1, <1>4, <1>5, InSet
<1>8. ASSUME NEW L, NEW F, Orderly(down, L, F) PROVE Orderly(q, L, F)
  <2> SUFFICES ASSUME NEW i \in 1..Len(q), NEW j \in 1..Len(q), i < j PROVE ~Clash(q[i], q[j], L, F)
    BY DEF Orderly
  <2>1. ~Clash(down[i], down[j], L, F)
    BY <1>5, <1>8 DEF Orderly
  <2> QED
    BY <2>1, <1>2, <1>4, <1>5 DEF Clash, IsStop
<1>9. down = <<>> => q = <<>>
  BY <1>5
<1> QED
  BY <1>5, <1>6, <1>7, <1>8, <1>9 DEF Quieted

-----------------------------------------------------------------------------
(* The inductive invariant *)

There == {"running", "ended"}
Heard(r) == \E a \in asking[r] : a.heard

\* A command that goes on or may still do so, one that was called with effect, one whose end is known or certain.
Live(t) == task[t] = "starting" \/ task[t] \in There \/ StartIn(down, t)
Past(t) == task[t] \in There \cup {"gone", "refused"}
Over(t) == t \in reported \/ task[t] \in {"gone", "refused"} \/ (task[t] \in There /\ RunOf[t] \in needsStop)

\* Who waits for the delivery of a stop, and what keeps it pending.
DeliveryOf(r) ==
    /\ delivery[r] # NoDelivery => pending[r] # "none" /\ entry # "none" /\ (delivery[r].current \/ pending[r] = "delete")
    /\ delivery[r].owner = "none" <=> delivery[r] = NoDelivery
    /\ delivery[r].owner \in Tasks => delivery[r].owner \notin delivery[r].joined
    /\ \A t \in Tasks : t \in delivery[r].joined \cup {delivery[r].owner} <=> RunOf[t] = r /\ Waiting(t)

\* Without a sign-in nothing is under way and nothing waits at the workstation.
Quiet == entry # "live" =>
    /\ down = <<>> /\ up = {}
    /\ \A r \in Runs : ~Heard(r)
    /\ \A t \in Tasks : waits[t] = "no" /\ task[t] # "starting"

SignIn ==
    /\ SignedInOverStream
    /\ announced # "no" => link
    /\ announced # "asking" => named = {}
    /\ \A t \in named : Past(t)
    /\ renewals = 0 /\ announced = "asking" => entry # "live"

\* A command is called once, runs only after its call, and is observed only after it ran.
StartOf(t) ==
    /\ start[t] = "none" => t \notin before
    /\ start[t] \in {"none", "held"} => task[t] = "none" /\ ~StartIn(down, t) /\ watch[t] = "none"
    /\ StartIn(down, t) => task[t] = "none"
    /\ t \in before => start[t] \in {"started", "failed"}
    /\ Answer("started", t) \in up => Past(t)
    /\ watch[t] # "none" => Past(t)
    /\ renewals = 0 /\ watch[t] # "none" => start[t] \in {"started", "failed"}

\* An observation is on its way, at the workstation or answered, and only one of them.
ObservationOf(t) ==
    /\ WaitIn(down, t) => watch[t] = "asked" /\ waits[t] = "no"
    /\ waits[t] # "no" => watch[t] = "asked"
    /\ WaitIn(down, t) \/ waits[t] # "no" => Answer("ended", t) \notin up /\ Answer("lost", t) \notin up
    /\ Answer("ended", t) \in up => watch[t] = "asked" /\ Answer("lost", t) \notin up /\ t \in reported
    /\ Answer("lost", t) \in up => watch[t] = "asked" /\ Over(t)

\* What is to end at the workstation.
StopsOf(t) ==
    /\ RunOf[t] \in reset => task[t] # "starting" /\ (task[t] \in There => RunOf[t] \in needsStop)
    /\ task[t] = "starting" /\ RunOf[t] \in needsStop => RunOf[t] \in stopping
    /\ t \in cut => task[t] = "gone" \/ (task[t] \in There /\ RunOf[t] \in needsStop)
    /\ announced # "no" /\ t \in cut => task[t] = "gone"

\* As long as no delivery of the stop of r exceeds its time limit, what is called behind a stop waits for it, and
\* one request at a time delivers the stop.
InTimeTask(r, t) ==
    /\ pending[r] # "none" /\ Live(t) => t \in before \cup cut
    /\ task[t] \in There /\ t \notin before \cup cut => r \notin needsStop

InTimeRun(r) ==
    /\ StopIn(down, r) => delivery[r] # NoDelivery /\ ~Heard(r) /\ Answer("stopped", r) \notin up /\ Answer("refused", r) \notin up
    /\ Heard(r) => delivery[r] # NoDelivery /\ Answer("stopped", r) \notin up /\ Answer("refused", r) \notin up
    /\ Answer("stopped", r) \in up => delivery[r] # NoDelivery /\ Answer("refused", r) \notin up
    /\ Answer("refused", r) \in up => delivery[r] # NoDelivery
    /\ delivery[r].owner \in Tasks => pending[r] = "delete"
    /\ delivery[r] = NoDelivery /\ pending[r] # "none" /\ entry # "none" => pending[r] = "delete"

\* A run is deleted after a stop, and nothing is called for it afterwards.
DeletionOf(r) ==
    /\ pending[r] = "delete" => r \notin exists
    /\ r \notin exists => \A t \in Tasks : RunOf[t] = r => start[t] = "none" \/ t \in before

\* A stop that reached the workstation ends what came before it, and nothing follows it on the line.
CarriedOut(r, t) ==
    /\ Heard(r) => task[t] # "starting" /\ ~StartIn(down, t)
    /\ Answer("stopped", r) \in up => ~Live(t)

\* What StopEndsEarlierTasks says of a command.
EarlierOf(t) ==
    t \in before /\ pending[RunOf[t]] = "none" /\ RunOf[t] \notin failed \cup forgotten \cup late =>
        task[t] \in {"none", "refused", "gone"} /\ ~StartIn(down, t)

\* Without a renewed sign-in and a failed stop an end is told once, and nobody observes the command afterwards.
NoticeOf(t) ==
    /\ notices[t] <= 1
    /\ notices[t] = 1 => watch[t] = "none" /\ Over(t) /\ t \notin named /\ start[t] \in {"started", "failed"}

IInv ==
    /\ TypeOK /\ Quiet /\ SignIn /\ stopping \subseteq needsStop
    /\ \A r \in Runs : DeliveryOf(r) /\ DeletionOf(r) /\ (Answer("refused", r) \in up => r \in failed)
    /\ \A t \in Tasks : StartOf(t) /\ ObservationOf(t) /\ StopsOf(t)
    /\ \A r \in Runs : r \notin late => InTimeRun(r)
    /\ \A t \in Tasks : RunOf[t] \notin late => InTimeTask(RunOf[t], t)
    /\ \A t \in Tasks : RunOf[t] \notin late \cup failed => CarriedOut(RunOf[t], t)
    /\ Orderly(down, late, failed)
    /\ \A t \in Tasks : EarlierOf(t)
    /\ \A t \in Tasks : renewals = 0 /\ RunOf[t] \notin failed => NoticeOf(t)

LEMMA NothingDue == \A x : ~StartIn(<<>>, x) /\ ~WaitIn(<<>>, x) /\ ~StopIn(<<>>, x)
BY InEmpty DEF StartIn, WaitIn, StopIn

LEMMA InvInit == Init => IInv
<1> SUFFICES ASSUME Init PROVE IInv
  OBVIOUS
<1>1. TypeOK
  <2>1. 0 \in 0..MaxStops /\ 0 \in 0..MaxFaults /\ 0 \in 0..MaxRenewals
    BY WorkstationAssumption
  <2>2. delivery \in [Runs -> Deliveries] /\ asking \in [Runs -> SUBSET [op : {"stop", "delete"}, heard : BOOLEAN]]
    BY DEF Init, Deliveries, NoDelivery, Callers
  <2>3. down \in Seq(Requests) /\ up \subseteq Answers
    BY InEmpty DEF Init
  <2> QED
    BY <2>1, <2>2, <2>3, WorkstationAssumption DEF Init, TypeOK
<1>2. \A r \in Runs : DeliveryOf(r) /\ DeletionOf(r) /\ (Answer("refused", r) \in up => r \in failed)
  BY WorkstationAssumption DEF Init, DeliveryOf, DeletionOf, NoDelivery, Waiting
<1>3. Quiet /\ SignIn /\ stopping \subseteq needsStop
  BY DEF Init, Quiet, SignIn, SignedInOverStream, Heard
<1>4. \A t \in Tasks : StartOf(t) /\ ObservationOf(t) /\ StopsOf(t)
  BY NothingDue DEF Init, StartOf, ObservationOf, StopsOf
<1>5. /\ \A r \in Runs : InTimeRun(r)
      /\ \A t \in Tasks : InTimeTask(RunOf[t], t) /\ CarriedOut(RunOf[t], t)
  BY NothingDue, WorkstationAssumption DEF Init, InTimeRun, InTimeTask, CarriedOut, Live, Heard, NoDelivery, There
<1>6. Orderly(down, late, failed) /\ \A t \in Tasks : EarlierOf(t)
  BY InEmpty DEF Init, EarlierOf
<1>7. \A t \in Tasks : NoticeOf(t)
  BY DEF Init, NoticeOf
<1> QED
  BY <1>1, <1>2, <1>3, <1>4, <1>5, <1>6, <1>7 DEF IInv

-----------------------------------------------------------------------------
(* The commands at the workstation *)

LEMMA EndTaskStep ==
    ASSUME IInv, NEW t \in Tasks, EndTask(t)
    PROVE  IInv'
<1>1. /\ task[t] = "running" /\ task' = [task EXCEPT ![t] = "ended"]
      /\ UNCHANGED <<full, exists, entry, pending, delivery, retry, start, watch, notices, link, announced, named, down, up,
                     waits, reported, stopping, needsStop, reset, asking, before, late, failed, forgotten, cut, unheard,
                     stops, faults, renewals>>
  BY DEF EndTask, stopVars, callVars, lineVars, wireVars, historyVars, boundVars
<1>2. TypeOK /\ TypeOK'
  BY <1>1 DEF IInv, TypeOK
<1>3. Quiet' /\ SignIn' /\ (stopping \subseteq needsStop)'
  BY <1>1, <1>2 DEF IInv, TypeOK, Quiet, SignIn, SignedInOverStream, Heard, Past, There
<1>4. \A r \in Runs : DeliveryOf(r)' /\ DeletionOf(r)' /\ (Answer("refused", r) \in up => r \in failed)'
  BY <1>1 DEF IInv, DeliveryOf, DeletionOf, Waiting
<1>5. ASSUME NEW u \in Tasks PROVE StartOf(u)' /\ ObservationOf(u)' /\ StopsOf(u)'
  BY <1>1, <1>2 DEF IInv, TypeOK, StartOf, ObservationOf, StopsOf, Past, Over, There
<1>6. ASSUME NEW r \in Runs, r \notin late PROVE InTimeRun(r)'
  BY <1>1, <1>6 DEF IInv, InTimeRun, Heard
<1>7. ASSUME NEW u \in Tasks
      PROVE  /\ RunOf[u] \notin late => InTimeTask(RunOf[u], u)'
             /\ RunOf[u] \notin late \cup failed => CarriedOut(RunOf[u], u)'
             /\ renewals = 0 /\ RunOf[u] \notin failed => NoticeOf(u)'
  BY <1>1, <1>2 DEF IInv, TypeOK, InTimeTask, CarriedOut, NoticeOf, Live, Over, Heard, There
<1>8. (\A u \in Tasks : EarlierOf(u))' /\ Orderly(down', late', failed')
  BY <1>1, <1>2 DEF IInv, TypeOK, EarlierOf
<1> QED
  BY <1>1, <1>2, <1>3, <1>4, <1>5, <1>6, <1>7, <1>8 DEF IInv

LEMMA SpawnStep ==
    ASSUME IInv, NEW t \in Tasks, Spawn(t)
    PROVE  IInv'
<1>1. /\ task[t] = "starting" /\ RunOf[t] \notin stopping
      /\ task' = [task EXCEPT ![t] = "running"] /\ up' = up \cup {Answer("started", t)}
      /\ UNCHANGED <<full, exists, entry, pending, delivery, retry, start, watch, notices, link, announced, named,
                     down, waits, reported, stopping, needsStop, reset, asking, before, late, failed, forgotten,
                     cut, unheard, stops, faults, renewals>>
  BY DEF Spawn, stopVars, callVars, lineVars, boundVars, historyVars
<1>2. TypeOK /\ TypeOK'
  BY <1>1 DEF IInv, TypeOK, Answers, Answer
<1>a. \A op, x : Answer(op, x) \in up' <=> Answer(op, x) \in up \/ (op = "started" /\ x = t)
  BY <1>1 DEF Answer
<1>3. Quiet' /\ SignIn' /\ (stopping \subseteq needsStop)'
  BY <1>1, <1>2 DEF IInv, TypeOK, Quiet, SignIn, SignedInOverStream, Heard, Past, There
<1>4. \A r \in Runs : DeliveryOf(r)' /\ DeletionOf(r)' /\ (Answer("refused", r) \in up => r \in failed)'
  BY <1>1, <1>a DEF IInv, DeliveryOf, DeletionOf, Waiting
<1>5. ASSUME NEW u \in Tasks PROVE StartOf(u)' /\ ObservationOf(u)' /\ StopsOf(u)'
  <2>1. StartOf(u)' /\ ObservationOf(u)'
    BY <1>1, <1>2, <1>a DEF IInv, TypeOK, StartOf, ObservationOf, Past, Over, There
  <2>2. StopsOf(u)'
    BY <1>1, <1>2 DEF IInv, TypeOK, StopsOf, There
  <2> QED
    BY <2>1, <2>2
<1>6. ASSUME NEW r \in Runs, r \notin late PROVE InTimeRun(r)'
  BY <1>1, <1>6, <1>a DEF IInv, InTimeRun, Heard
<1>7. ASSUME NEW u \in Tasks
      PROVE  /\ RunOf[u] \notin late => InTimeTask(RunOf[u], u)'
             /\ RunOf[u] \notin late \cup failed => CarriedOut(RunOf[u], u)'
             /\ renewals = 0 /\ RunOf[u] \notin failed => NoticeOf(u)'
  BY <1>1, <1>2, <1>a DEF IInv, TypeOK, InTimeTask, CarriedOut, NoticeOf, StopsOf, Live, Over, Heard, There
<1>8. (\A u \in Tasks : EarlierOf(u))' /\ Orderly(down', late', failed')
  BY <1>1, <1>2 DEF IInv, TypeOK, EarlierOf
<1> QED
  BY <1>1, <1>2, <1>3, <1>4, <1>5, <1>6, <1>7, <1>8 DEF IInv

LEMMA ObserveStep ==
    ASSUME IInv, NEW t \in Tasks, Observe(t)
    PROVE  IInv'
<1>1. /\ waits[t] = "held" /\ RunOf[t] \notin stopping
      /\ waits' = [waits EXCEPT ![t] = IF task[t] \in There THEN "on" ELSE "no"]
      /\ up' = IF task[t] \in There THEN up ELSE up \cup {Answer("lost", t)}
      /\ UNCHANGED <<full, exists, entry, pending, delivery, retry, start, watch, notices, link, announced, named,
                     down, task, reported, stopping, needsStop, reset, asking, before, late, failed, forgotten, cut,
                     unheard, stops, faults, renewals>>
  BY DEF Observe, There, stopVars, callVars, lineVars, boundVars, historyVars
<1>2. TypeOK /\ TypeOK'
  BY <1>1 DEF IInv, TypeOK, Answers, Answer
<1>a. \A op, x : Answer(op, x) \in up' <=> Answer(op, x) \in up \/ (op = "lost" /\ x = t /\ task[t] \notin There)
  BY <1>1 DEF Answer
<1>3. Quiet' /\ SignIn' /\ (stopping \subseteq needsStop)'
  BY <1>1, <1>2 DEF IInv, TypeOK, Quiet, SignIn, SignedInOverStream, Heard, Past
<1>4. \A r \in Runs : DeliveryOf(r)' /\ DeletionOf(r)' /\ (Answer("refused", r) \in up => r \in failed)'
  BY <1>1, <1>a DEF IInv, DeliveryOf, DeletionOf, Waiting
<1>5. ASSUME NEW u \in Tasks PROVE StartOf(u)' /\ ObservationOf(u)' /\ StopsOf(u)'
  <2>1. StartOf(u)' /\ StopsOf(u)'
    BY <1>1, <1>2, <1>a DEF IInv, TypeOK, StartOf, StopsOf, Past
  <2>2. ObservationOf(u)'
    BY <1>1, <1>2, <1>a DEF IInv, TypeOK, StartOf, ObservationOf, Past, Over, There
  <2> QED
    BY <2>1, <2>2
<1>6. ASSUME NEW r \in Runs, r \notin late PROVE InTimeRun(r)'
  BY <1>1, <1>6, <1>a DEF IInv, InTimeRun, Heard
<1>7. ASSUME NEW u \in Tasks
      PROVE  /\ RunOf[u] \notin late => InTimeTask(RunOf[u], u)'
             /\ RunOf[u] \notin late \cup failed => CarriedOut(RunOf[u], u)'
             /\ renewals = 0 /\ RunOf[u] \notin failed => NoticeOf(u)'
  BY <1>1, <1>2, <1>a DEF IInv, InTimeTask, CarriedOut, NoticeOf, Live, Over, Heard
<1>8. (\A u \in Tasks : EarlierOf(u))' /\ Orderly(down', late', failed')
  BY <1>1 DEF IInv, EarlierOf
<1> QED
  BY <1>1, <1>2, <1>3, <1>4, <1>5, <1>6, <1>7, <1>8 DEF IInv

LEMMA ReturnEndStep ==
    ASSUME IInv, NEW t \in Tasks, ReturnEnd(t)
    PROVE  IInv'
<1>1. /\ waits[t] = "on" /\ task[t] = "ended"
      /\ waits' = [waits EXCEPT ![t] = "no"]
      /\ reported' = reported \cup {t}
      /\ up' = up \cup {Answer("ended", t)}
      /\ UNCHANGED <<full, exists, entry, pending, delivery, retry, start, watch, notices, link, announced, named,
                     down, task, stopping, needsStop, reset, asking, before, late, failed, forgotten, cut, unheard,
                     stops, faults, renewals>>
  BY DEF ReturnEnd, stopVars, callVars, lineVars, boundVars, historyVars
<1>2. TypeOK /\ TypeOK'
  BY <1>1 DEF IInv, TypeOK, Answers, Answer
<1>a. \A op, x : Answer(op, x) \in up' <=> Answer(op, x) \in up \/ (op = "ended" /\ x = t)
  BY <1>1 DEF Answer
<1>3. Quiet' /\ SignIn' /\ (stopping \subseteq needsStop)'
  BY <1>1, <1>2 DEF IInv, TypeOK, Quiet, SignIn, SignedInOverStream, Heard, Past
<1>4. \A r \in Runs : DeliveryOf(r)' /\ DeletionOf(r)' /\ (Answer("refused", r) \in up => r \in failed)'
  BY <1>1, <1>a DEF IInv, DeliveryOf, DeletionOf, Waiting
<1>5. ASSUME NEW u \in Tasks PROVE StartOf(u)' /\ ObservationOf(u)' /\ StopsOf(u)'
  <2>1. StartOf(u)' /\ StopsOf(u)'
    BY <1>1, <1>2, <1>a DEF IInv, TypeOK, StartOf, StopsOf, Past
  <2>2. ObservationOf(u)'
    BY <1>1, <1>2, <1>a DEF IInv, TypeOK, ObservationOf, Over
  <2> QED
    BY <2>1, <2>2
<1>6. ASSUME NEW r \in Runs, r \notin late PROVE InTimeRun(r)'
  BY <1>1, <1>6, <1>a DEF IInv, InTimeRun, Heard
<1>7. ASSUME NEW u \in Tasks
      PROVE  /\ RunOf[u] \notin late => InTimeTask(RunOf[u], u)'
             /\ RunOf[u] \notin late \cup failed => CarriedOut(RunOf[u], u)'
             /\ renewals = 0 /\ RunOf[u] \notin failed => NoticeOf(u)'
  BY <1>1, <1>2, <1>a DEF IInv, InTimeTask, CarriedOut, NoticeOf, Live, Over, Heard
<1>8. (\A u \in Tasks : EarlierOf(u))' /\ Orderly(down', late', failed')
  BY <1>1 DEF IInv, EarlierOf
<1> QED
  BY <1>1, <1>2, <1>3, <1>4, <1>5, <1>6, <1>7, <1>8 DEF IInv

LEMMA AnsweredIs ==
    ASSUME NEW r \in Runs, NEW op, NEW o, NEW x
    PROVE  Answer(o, x) \in Answered(r, op) <=> o = op /\ x = r /\ Heard(r)
BY DEF Answered, Answer, Heard

LEMMA FinishStopStep ==
    ASSUME IInv, NEW r \in Runs, FinishStop(r)
    PROVE  IInv'
<1>1. /\ r \in stopping /\ stopping' = stopping \ {r} /\ needsStop' = needsStop \ {r}
      /\ task' = [t \in Tasks |-> IF RunOf[t] = r /\ task[t] \in There THEN "gone" ELSE task[t]]
      /\ up' = up \cup Answered(r, "stopped")
      /\ asking' = [asking EXCEPT ![r] = {}]
      /\ UNCHANGED <<full, exists, entry, pending, delivery, retry, start, watch, notices, link, announced, named,
                     down, waits, reported, reset, before, late, failed, forgotten, cut, unheard, stops, faults,
                     renewals>>
  BY DEF FinishStop, There, stopVars, callVars, lineVars, boundVars, historyVars
<1>2. TypeOK /\ TypeOK'
  <2>1. up' \subseteq Answers
    BY <1>1 DEF IInv, TypeOK, Answers, Answer, Answered
  <2> QED
    BY <1>1, <2>1, WorkstationAssumption DEF IInv, TypeOK
<1>a. \A op, x : Answer(op, x) \in up' <=> Answer(op, x) \in up \/ (op = "stopped" /\ x = r /\ Heard(r))
  BY <1>1, AnsweredIs
<1>b. \A q \in Runs : Heard(q)' <=> Heard(q) /\ q # r
  BY <1>1, <1>2 DEF Heard, TypeOK
<1>c. \A t \in Tasks : RunOf[t] \in Runs
  BY WorkstationAssumption
<1>3. Quiet' /\ SignIn' /\ (stopping \subseteq needsStop)'
  BY <1>1, <1>2, <1>a, <1>b, AnsweredIs DEF IInv, TypeOK, Quiet, SignIn, SignedInOverStream, Past, There, Answered, Heard
<1>4. \A q \in Runs : DeliveryOf(q)' /\ DeletionOf(q)' /\ (Answer("refused", q) \in up => q \in failed)'
  BY <1>1, <1>a DEF IInv, DeliveryOf, DeletionOf, Waiting
<1>5. ASSUME NEW u \in Tasks PROVE StartOf(u)' /\ ObservationOf(u)' /\ StopsOf(u)'
  <2>1. StartOf(u)'
    BY <1>1, <1>2, <1>a DEF IInv, TypeOK, StartOf, Past, There
  <2>2. ObservationOf(u)'
    BY <1>1, <1>2, <1>a DEF IInv, TypeOK, ObservationOf, Over, There
  <2>3. StopsOf(u)'
    BY <1>1, <1>2 DEF IInv, TypeOK, StopsOf, There
  <2> QED
    BY <2>1, <2>2, <2>3
<1>6. ASSUME NEW q \in Runs, q \notin late PROVE InTimeRun(q)'
  BY <1>1, <1>6, <1>a, <1>b DEF IInv, InTimeRun
<1>7. ASSUME NEW u \in Tasks
      PROVE  /\ RunOf[u] \notin late => InTimeTask(RunOf[u], u)'
             /\ RunOf[u] \notin late \cup failed => CarriedOut(RunOf[u], u)'
             /\ renewals = 0 /\ RunOf[u] \notin failed => NoticeOf(u)'
  <2>1. RunOf[u] \notin late => InTimeTask(RunOf[u], u)'
    BY <1>1, <1>2 DEF IInv, TypeOK, InTimeTask, Live, There
  <2>2. RunOf[u] \notin late \cup failed => CarriedOut(RunOf[u], u)'
    BY <1>1, <1>2, <1>a, <1>b, <1>c DEF IInv, TypeOK, CarriedOut, Live, There
  <2>3. renewals = 0 /\ RunOf[u] \notin failed => NoticeOf(u)'
    BY <1>1, <1>2 DEF IInv, TypeOK, NoticeOf, Over, There
  <2> QED
    BY <2>1, <2>2, <2>3
<1>8. (\A u \in Tasks : EarlierOf(u))' /\ Orderly(down', late', failed')
  BY <1>1, <1>2 DEF IInv, TypeOK, EarlierOf
<1> QED
  BY <1>1, <1>2, <1>3, <1>4, <1>5, <1>6, <1>7, <1>8 DEF IInv

LEMMA FailStopStep ==
    ASSUME IInv, NEW r \in Runs, FailStop(r)
    PROVE  IInv'
<1> DEFINE starting == {t \in TasksOf(r) : task[t] = "starting"}
           held == {t \in TasksOf(r) : waits[t] = "held"}
<1>1. /\ r \in stopping /\ stopping' = stopping \ {r}
      /\ task' = [t \in Tasks |-> IF t \in starting THEN "refused" ELSE task[t]]
      /\ waits' = [t \in Tasks |-> IF t \in held THEN "no" ELSE waits[t]]
      /\ up' = up \cup Answered(r, "refused") \cup {Answer("notStarted", t) : t \in starting} \cup {Answer("lost", t) : t \in held}
      /\ asking' = [asking EXCEPT ![r] = {}] /\ failed' = failed \cup {r} /\ Fault
      /\ UNCHANGED <<full, exists, entry, pending, delivery, retry, start, watch, notices, link, announced, named,
                     down, reported, needsStop, reset, before, late, forgotten, cut, unheard, stops, renewals>>
  BY DEF FailStop, Fault, stopVars, callVars, lineVars, boundVars, historyVars
<1>c. \A t \in Tasks : /\ RunOf[t] \in Runs
                       /\ t \in starting <=> RunOf[t] = r /\ task[t] = "starting"
                       /\ t \in held <=> RunOf[t] = r /\ waits[t] = "held"
  BY WorkstationAssumption DEF TasksOf
<1> HIDE DEF starting, held
<1>2. TypeOK /\ TypeOK'
  <2>1. up' \subseteq Answers
    <3>1. Answered(r, "refused") \subseteq Answers
      BY DEF Answers, Answer, Answered
    <3>2. {Answer("notStarted", t) : t \in starting} \subseteq Answers /\ {Answer("lost", t) : t \in held} \subseteq Answers
      BY DEF Answers, Answer, starting, held, TasksOf
    <3> QED
      BY <1>1, <3>1, <3>2 DEF IInv, TypeOK
  <2>2. faults' \in 0..MaxFaults
    BY <1>1, WorkstationAssumption DEF IInv, TypeOK, Fault
  <2> QED
    BY <1>1, <2>1, <2>2 DEF IInv, TypeOK
<1>a. /\ \A q \in Runs : Answer("refused", q) \in up' <=> Answer("refused", q) \in up \/ (q = r /\ Heard(r))
      /\ \A q \in Runs : Answer("stopped", q) \in up' <=> Answer("stopped", q) \in up
      /\ \A t \in Tasks : Answer("lost", t) \in up' <=> Answer("lost", t) \in up \/ t \in held
      /\ \A t \in Tasks : Answer("ended", t) \in up' <=> Answer("ended", t) \in up
      /\ \A t \in Tasks : Answer("started", t) \in up' <=> Answer("started", t) \in up
  <2>1. \A o, x : Answer(o, x) \in {Answer("notStarted", t) : t \in starting} <=> o = "notStarted" /\ x \in starting
    BY DEF Answer
  <2>2. \A o, x : Answer(o, x) \in {Answer("lost", t) : t \in held} <=> o = "lost" /\ x \in held
    BY DEF Answer
  <2> QED
    BY <1>1, <2>1, <2>2, AnsweredIs
<1>b. \A q \in Runs : Heard(q)' <=> Heard(q) /\ q # r
  BY <1>1, <1>2 DEF Heard, TypeOK
<1>d. entry = "live" \/ (up' = up /\ task' = task /\ waits' = waits)
  <2> SUFFICES ASSUME entry # "live" PROVE up' = up /\ task' = task /\ waits' = waits
    OBVIOUS
  <2>1. starting = {} /\ held = {} /\ ~Heard(r)
    BY DEF IInv, Quiet, starting, held, TasksOf
  <2>2. Answered(r, "refused") = {}
    BY <2>1 DEF Answered, Heard
  <2> QED
    BY <1>1, <1>2, <2>1, <2>2 DEF TypeOK
<1>3. Quiet' /\ SignIn' /\ (stopping \subseteq needsStop)'
  <2>1. Quiet'
    BY <1>1, <1>b, <1>d DEF IInv, Quiet
  <2> QED
    BY <1>1, <1>2, <1>c, <2>1 DEF IInv, TypeOK, SignIn, SignedInOverStream, Past, There
<1>4. \A q \in Runs : DeliveryOf(q)' /\ DeletionOf(q)' /\ (Answer("refused", q) \in up => q \in failed)'
  BY <1>1, <1>a DEF IInv, DeliveryOf, DeletionOf, Waiting
<1>5. ASSUME NEW u \in Tasks PROVE StartOf(u)' /\ ObservationOf(u)' /\ StopsOf(u)'
  <2>1. StartOf(u)'
    BY <1>1, <1>2, <1>a, <1>c DEF IInv, TypeOK, StartOf, Past, There
  <2>2. ASSUME u \in held PROVE Over(u)'
    <3>1. Past(u) /\ RunOf[u] \in needsStop
      BY <1>1, <1>c, <2>2 DEF IInv, StartOf, ObservationOf
    <3>2. task'[u] = task[u] \/ task'[u] = "refused"
      BY <1>1
    <3> QED
      BY <1>1, <3>1, <3>2 DEF Past, Over
  <2>3. Over(u) => Over(u)'
    BY <1>1, <1>2, <1>c DEF TypeOK, Over, There
  <2>4. ObservationOf(u)'
    BY <1>1, <1>2, <1>a, <1>c, <2>2, <2>3 DEF IInv, TypeOK, ObservationOf
  <2>5. StopsOf(u)'
    BY <1>1, <1>2, <1>c DEF IInv, TypeOK, StopsOf, There
  <2> QED
    BY <2>1, <2>4, <2>5
<1>6. ASSUME NEW q \in Runs, q \notin late PROVE InTimeRun(q)'
  BY <1>1, <1>6, <1>a, <1>b DEF IInv, InTimeRun
<1>7. ASSUME NEW u \in Tasks
      PROVE  /\ RunOf[u] \notin late => InTimeTask(RunOf[u], u)'
             /\ RunOf[u] \notin late \cup failed' => CarriedOut(RunOf[u], u)'
             /\ renewals = 0 /\ RunOf[u] \notin failed' => NoticeOf(u)'
  <2>1. RunOf[u] \notin late => InTimeTask(RunOf[u], u)'
    BY <1>1, <1>2, <1>c DEF IInv, TypeOK, InTimeTask, Live, There
  <2>2. RunOf[u] \notin late \cup failed' => CarriedOut(RunOf[u], u)'
    BY <1>1, <1>2, <1>a, <1>b, <1>c DEF IInv, TypeOK, CarriedOut, Live, There
  <2>3. renewals = 0 /\ RunOf[u] \notin failed' => NoticeOf(u)'
    BY <1>1, <1>2, <1>c DEF IInv, TypeOK, NoticeOf, Over, There
  <2> QED
    BY <2>1, <2>2, <2>3
<1>8. (\A u \in Tasks : EarlierOf(u))' /\ Orderly(down', late', failed')
  <2>1. (\A u \in Tasks : EarlierOf(u))'
    BY <1>1, <1>2, <1>c DEF IInv, TypeOK, EarlierOf
  <2>2. Orderly(down', late', failed')
    BY <1>1 DEF IInv, Orderly, Clash
  <2> QED
    BY <2>1, <2>2
<1> QED
  BY <1>1, <1>2, <1>3, <1>4, <1>5, <1>6, <1>7, <1>8 DEF IInv

-----------------------------------------------------------------------------
(* Requests that arrive *)

LEMMA DueInTail ==
    ASSUME NEW s \in Seq(Requests), s # <<>>
    PROVE  \A x : /\ StartIn(s, x) <=> StartIn(Tail(s), x) \/ (Head(s).op = "start" /\ Head(s).of = x)
                  /\ WaitIn(s, x) <=> WaitIn(Tail(s), x) \/ (Head(s).op = "wait" /\ Head(s).of = x /\ Head(s).heard)
                  /\ StopIn(s, x) <=> StopIn(Tail(s), x) \/ (IsStop(Head(s)) /\ Head(s).of = x)
BY InTail DEF StartIn, WaitIn, StopIn

\* Nothing on the line clashes with the request before it.
LEMMA AfterHead ==
    ASSUME NEW s \in Seq(Requests), s # <<>>, NEW L, NEW F, Orderly(s, L, F)
    PROVE  LET m == Head(s)
           IN  /\ m.op = "start" => ~StartIn(Tail(s), m.of)
               /\ m.op = "wait" /\ m.heard => ~WaitIn(Tail(s), m.of)
               /\ IsStop(m) /\ m.of \notin L => ~StopIn(Tail(s), m.of)
               /\ IsStop(m) /\ m.of \notin L \cup F => \A t \in Tasks : RunOf[t] = m.of => ~StartIn(Tail(s), t)
<1>1. \A y \in ToSet(Tail(s)) : ~Clash(Head(s), y, L, F)
  BY InTail
<1> QED
  BY <1>1 DEF Clash, StartIn, WaitIn, StopIn

LEMMA StopArrivesStep ==
    ASSUME IInv, StopArrives
    PROVE  IInv'
<1> DEFINE r == Head(down).of
           aborted == {t \in Tasks : waits[t] = "on" /\ RunOf[t] \in {r}}
<1>1. /\ down # <<>> /\ IsStop(Head(down)) /\ down' = Tail(down)
      /\ stopping' = stopping \cup {r} /\ needsStop' = needsStop \cup {r} /\ reset' = reset \cup {r}
      /\ up' = up \cup {Answer("notStarted", t) : t \in RefusedBy(r)} \cup {Answer("lost", t) : t \in aborted}
      /\ task' = [t \in Tasks |-> IF t \in RefusedBy(r) THEN "refused" ELSE task[t]]
      /\ waits' = [t \in Tasks |-> IF RunOf[t] = r /\ waits[t] = "on" THEN "no" ELSE waits[t]]
      /\ asking' = [asking EXCEPT ![r] = @ \cup {[op |-> Head(down).op, heard |-> Head(down).heard]}]
      /\ UNCHANGED <<full, exists, entry, pending, delivery, retry, start, watch, notices, link, announced, named,
                     reported, before, late, failed, forgotten, cut, unheard, stops, faults, renewals>>
  BY DEF StopArrives, NextRequest, EndProcesses, IsStop, stopVars, callVars, lineVars, boundVars, historyVars
<1>r. r \in Runs /\ Head(down) \in Requests /\ Head(down).op \in {"stop", "delete"} /\ Head(down).heard \in BOOLEAN
  BY <1>1, InTail DEF IInv, TypeOK, Requests, IsStop
<1>c. \A t \in Tasks : /\ RunOf[t] \in Runs
                       /\ t \in RefusedBy(r) <=> RunOf[t] = r /\ task[t] = "starting"
                       /\ t \in aborted <=> RunOf[t] = r /\ waits[t] = "on"
  BY WorkstationAssumption DEF TasksOf, RefusedBy
<1>u. up' \subseteq Answers
  <2>1. {Answer("notStarted", t) : t \in RefusedBy(r)} \subseteq Answers /\ {Answer("lost", t) : t \in aborted} \subseteq Answers
    BY DEF Answers, Answer, RefusedBy, TasksOf
  <2> QED
    BY <1>1, <2>1 DEF IInv, TypeOK
<1>a. /\ \A q \in Runs : Answer("refused", q) \in up' <=> Answer("refused", q) \in up
      /\ \A q \in Runs : Answer("stopped", q) \in up' <=> Answer("stopped", q) \in up
      /\ \A t \in Tasks : Answer("lost", t) \in up' <=> Answer("lost", t) \in up \/ t \in aborted
      /\ \A t \in Tasks : Answer("ended", t) \in up' <=> Answer("ended", t) \in up
      /\ \A t \in Tasks : Answer("started", t) \in up' <=> Answer("started", t) \in up
  <2>1. \A o, x : Answer(o, x) \in {Answer("notStarted", t) : t \in RefusedBy(r)} <=> o = "notStarted" /\ x \in RefusedBy(r)
    BY DEF Answer
  <2>2. \A o, x : Answer(o, x) \in {Answer("lost", t) : t \in aborted} <=> o = "lost" /\ x \in aborted
    BY DEF Answer
  <2> QED
    BY <1>1, <2>1, <2>2
<1> HIDE DEF aborted
<1>2. TypeOK /\ TypeOK'
  <2>1. TypeOK /\ down' \in Seq(Requests)
    BY <1>1, InTail DEF IInv, TypeOK
  <2>2. asking' \in [Runs -> SUBSET [op : {"stop", "delete"}, heard : BOOLEAN]]
    BY <1>1, <1>r, <2>1 DEF TypeOK
  <2>3. /\ task' \in [Tasks -> {"none", "starting", "running", "ended", "gone", "refused"}]
        /\ waits' \in [Tasks -> {"no", "held", "on"}]
    BY <1>1, <2>1 DEF TypeOK
  <2>4. (stopping \cup needsStop \cup reset \subseteq Runs)'
    BY <1>1, <1>r, <2>1 DEF TypeOK
  <2> QED
    BY <1>1, <1>u, <2>1, <2>2, <2>3, <2>4 DEF TypeOK
<1>b. \A q \in Runs : Heard(q)' <=> Heard(q) \/ (q = r /\ Head(down).heard)
  <2> DEFINE g == [op |-> Head(down).op, heard |-> Head(down).heard]
  <2>1. g.heard = Head(down).heard /\ asking' = [asking EXCEPT ![r] = @ \cup {g}]
    BY <1>1
  <2> HIDE DEF g
  <2>2. asking'[r] = asking[r] \cup {g} /\ \A q \in Runs : q # r => asking'[q] = asking[q]
    BY <1>2, <1>r, <2>1 DEF TypeOK
  <2> QED
    BY <2>1, <2>2 DEF Heard
<1>d. /\ \A x : /\ StartIn(down', x) <=> StartIn(down, x)
                /\ WaitIn(down', x) <=> WaitIn(down, x)
                /\ StopIn(down', x) => StopIn(down, x)
      /\ StopIn(down, r)
  BY <1>1, <1>2, DueInTail DEF TypeOK, IsStop
<1>e. Orderly(down', late', failed') /\ (r \notin late => ~StopIn(down', r))
      /\ (r \notin late \cup failed => \A t \in Tasks : RunOf[t] = r => ~StartIn(down', t))
  BY <1>1, <1>2, AfterHead, InTail DEF IInv, TypeOK
<1>f. entry = "live"
  BY <1>1 DEF IInv, Quiet
<1>3. Quiet' /\ SignIn' /\ (stopping \subseteq needsStop)'
  BY <1>1, <1>2, <1>c, <1>f DEF IInv, TypeOK, Quiet, SignIn, SignedInOverStream, Past, There
<1>4. \A q \in Runs : DeliveryOf(q)' /\ DeletionOf(q)' /\ (Answer("refused", q) \in up => q \in failed)'
  BY <1>1, <1>a DEF IInv, DeliveryOf, DeletionOf, Waiting
<1>5. ASSUME NEW u \in Tasks PROVE StartOf(u)' /\ ObservationOf(u)' /\ StopsOf(u)'
  <2>1. StartOf(u)'
    BY <1>1, <1>2, <1>a, <1>c, <1>d DEF IInv, TypeOK, StartOf, Past, There
  <2>2. ASSUME u \in aborted PROVE Over(u)'
    <3>1. Past(u) /\ RunOf[u] \in needsStop'
      BY <1>1, <1>c, <2>2 DEF IInv, StartOf, ObservationOf
    <3>2. task'[u] = task[u] \/ task'[u] = "refused"
      BY <1>1
    <3> QED
      BY <1>1, <3>1, <3>2 DEF Past, Over
  <2>3. Over(u) => Over(u)'
    BY <1>1, <1>2, <1>c DEF TypeOK, Over, There
  <2>4. ObservationOf(u)'
    BY <1>1, <1>2, <1>a, <1>c, <1>d, <2>2, <2>3 DEF IInv, TypeOK, ObservationOf
  <2>5. StopsOf(u)'
    BY <1>1, <1>2, <1>c DEF IInv, TypeOK, StopsOf, There
  <2> QED
    BY <2>1, <2>4, <2>5
<1>6. ASSUME NEW q \in Runs, q \notin late PROVE InTimeRun(q)'
  BY <1>1, <1>6, <1>a, <1>b, <1>d, <1>e DEF IInv, InTimeRun
<1>7. ASSUME NEW u \in Tasks
      PROVE  /\ RunOf[u] \notin late => InTimeTask(RunOf[u], u)'
             /\ RunOf[u] \notin late \cup failed => CarriedOut(RunOf[u], u)'
             /\ renewals = 0 /\ RunOf[u] \notin failed => NoticeOf(u)'
  <2>0. task'[u] = task[u] \/ (task[u] = "starting" /\ task'[u] = "refused" /\ RunOf[u] = r)
    BY <1>1, <1>c
  <2>1. RunOf[u] \notin late => InTimeTask(RunOf[u], u)'
    <3>1. r \notin late => pending[r] # "none"
      BY <1>r, <1>d DEF IInv, InTimeRun, DeliveryOf
    <3> QED
      BY <1>1, <1>c, <1>d, <2>0, <3>1 DEF IInv, InTimeTask, Live, There
  <2>2. RunOf[u] \notin late \cup failed => CarriedOut(RunOf[u], u)'
    BY <1>1, <1>a, <1>b, <1>c, <1>d, <1>e, <2>0 DEF IInv, CarriedOut, Live, There
  <2>3. renewals = 0 /\ RunOf[u] \notin failed => NoticeOf(u)'
    BY <1>1, <2>0 DEF IInv, NoticeOf, Over, There
  <2> QED
    BY <2>1, <2>2, <2>3
<1>8. (\A u \in Tasks : EarlierOf(u))'
  BY <1>1, <1>2, <1>c, <1>d DEF IInv, TypeOK, EarlierOf
<1> QED
  BY <1>1, <1>2, <1>3, <1>4, <1>5, <1>6, <1>7, <1>8, <1>e DEF IInv

LEMMA OtherArrivesStep ==
    ASSUME IInv, OtherArrives
    PROVE  IInv'
<1> DEFINE t == Head(down).of
           r == RunOf[t]
           again == IF r \in reset \cup needsStop THEN {r} ELSE {}
           aborted == {u \in Tasks : waits[u] = "on" /\ RunOf[u] \in again}
           isStart == Head(down).op = "start"
           isWait == Head(down).op = "wait" /\ Head(down).heard
<1>1. /\ down # <<>> /\ Head(down).op \in {"start", "wait"} /\ down' = Tail(down)
      /\ stopping' = stopping \cup again /\ needsStop' = needsStop \cup again /\ reset' = reset \ {r}
      /\ up' = up \cup {} \cup {Answer("lost", u) : u \in aborted}
      /\ task' = [task EXCEPT ![t] = IF isStart THEN "starting" ELSE @]
      /\ waits' = [u \in Tasks |-> IF u = t /\ isWait THEN "held"
                                   ELSE IF RunOf[u] \in again /\ waits[u] = "on" THEN "no" ELSE waits[u]]
      /\ UNCHANGED <<full, exists, entry, pending, delivery, retry, start, watch, notices, link, announced, named,
                     reported, asking, before, late, failed, forgotten, cut, unheard, stops, faults, renewals>>
  BY DEF OtherArrives, NextRequest, EndProcesses, stopVars, callVars, lineVars, boundVars, historyVars
<1>r. t \in Tasks /\ r \in Runs /\ Head(down) \in Requests
  BY <1>1, InTail, WorkstationAssumption DEF IInv, TypeOK, Requests
<1>c. \A u \in Tasks : RunOf[u] \in Runs /\ (u \in aborted <=> RunOf[u] \in again /\ waits[u] = "on")
  BY WorkstationAssumption
<1>u. up' \subseteq Answers
  BY <1>1 DEF IInv, TypeOK, Answers, Answer
<1>a. /\ \A q \in Runs : Answer("refused", q) \in up' <=> Answer("refused", q) \in up
      /\ \A q \in Runs : Answer("stopped", q) \in up' <=> Answer("stopped", q) \in up
      /\ \A u \in Tasks : Answer("lost", u) \in up' <=> Answer("lost", u) \in up \/ u \in aborted
      /\ \A u \in Tasks : Answer("ended", u) \in up' <=> Answer("ended", u) \in up
      /\ \A u \in Tasks : Answer("started", u) \in up' <=> Answer("started", u) \in up
  <2>1. \A o, x : Answer(o, x) \in {Answer("lost", u) : u \in aborted} <=> o = "lost" /\ x \in aborted
    BY DEF Answer
  <2> QED
    BY <1>1, <2>1
<1>g. again \subseteq {r} /\ (r \in reset \cup needsStop => r \in again) /\ (r \in again => r \in reset \cup needsStop)
  OBVIOUS
<1>i. \A u \in Tasks : /\ task'[u] = IF u = t /\ isStart THEN "starting" ELSE task[u]
                       /\ waits'[u] = IF u = t /\ isWait THEN "held" ELSE IF u \in aborted THEN "no" ELSE waits[u]
  BY <1>1, <1>c, <1>r DEF IInv, TypeOK
<1>d. /\ \A x : /\ StartIn(down, x) <=> StartIn(down', x) \/ (isStart /\ x = t)
                /\ WaitIn(down, x) <=> WaitIn(down', x) \/ (isWait /\ x = t)
                /\ StopIn(down', x) => StopIn(down, x)
      /\ isStart => ~StartIn(down', t)
      /\ isWait => ~WaitIn(down', t)
  BY <1>1, DueInTail, AfterHead DEF IInv, TypeOK
<1>e. Orderly(down', late', failed')
  BY <1>1, InTail DEF IInv, TypeOK
<1>f. entry = "live"
  BY <1>1 DEF IInv, Quiet
<1> HIDE DEF aborted, again, isStart, isWait
<1>2. TypeOK /\ TypeOK'
  <2>1. (stopping \cup needsStop \cup reset \subseteq Runs)'
    BY <1>1, <1>r, <1>g DEF IInv, TypeOK
  <2>2. task' \in [Tasks -> {"none", "starting", "running", "ended", "gone", "refused"}] /\ waits' \in [Tasks -> {"no", "held", "on"}]
    BY <1>1 DEF IInv, TypeOK
  <2> QED
    BY <1>1, <1>r, <1>u, <2>1, <2>2, InTail DEF IInv, TypeOK
<1>3. Quiet' /\ SignIn' /\ (stopping \subseteq needsStop)'
  BY <1>1, <1>f, <1>i, <1>d DEF IInv, TypeOK, Quiet, SignIn, SignedInOverStream, StartOf, Past, There
<1>4. \A q \in Runs : DeliveryOf(q)' /\ DeletionOf(q)' /\ (Answer("refused", q) \in up => q \in failed)'
  BY <1>1, <1>a DEF IInv, DeliveryOf, DeletionOf, Waiting
<1>5. ASSUME NEW u \in Tasks PROVE StartOf(u)' /\ ObservationOf(u)' /\ StopsOf(u)'
  <2>1. StartOf(u)'
    BY <1>1, <1>a, <1>d, <1>i DEF IInv, StartOf, Past, There
  <2>2. ASSUME u \in aborted PROVE Over(u)'
    <3>1. Past(u) /\ RunOf[u] \in needsStop' /\ task[u] # "none"
      BY <1>1, <1>c, <2>2 DEF IInv, StartOf, ObservationOf, Past, There
    <3>2. task'[u] = task[u]
      BY <1>i, <1>d, <3>1 DEF IInv, StartOf
    <3> QED
      BY <1>1, <3>1, <3>2 DEF Past, Over
  <2>3. Over(u) => Over(u)'
    BY <1>1, <1>i, <1>d DEF IInv, StartOf, Over, There
  <2>4. ObservationOf(u)'
    BY <1>1, <1>a, <1>c, <1>d, <1>i, <2>2, <2>3 DEF IInv, ObservationOf
  <2>5. StopsOf(u)'
    BY <1>1, <1>i, <1>g, <1>d DEF IInv, StopsOf, StartOf, There
  <2> QED
    BY <2>1, <2>4, <2>5
<1>6. ASSUME NEW q \in Runs, q \notin late PROVE InTimeRun(q)'
  BY <1>1, <1>6, <1>a, <1>d DEF IInv, InTimeRun, Heard
<1>7. ASSUME NEW u \in Tasks
      PROVE  /\ RunOf[u] \notin late => InTimeTask(RunOf[u], u)'
             /\ RunOf[u] \notin late \cup failed => CarriedOut(RunOf[u], u)'
             /\ renewals = 0 /\ RunOf[u] \notin failed => NoticeOf(u)'
  <2>0. (Live(u)' => Live(u)) /\ (task'[u] \in There => task[u] \in There)
    BY <1>i, <1>d DEF Live, There
  <2>1. RunOf[u] \notin late => InTimeTask(RunOf[u], u)'
    BY <1>1, <1>g, <2>0 DEF IInv, InTimeTask, StopsOf
  <2>2. RunOf[u] \notin late \cup failed => CarriedOut(RunOf[u], u)'
    BY <1>1, <1>a, <1>d, <1>i, <1>c, <2>0 DEF IInv, CarriedOut, Heard
  <2>3. renewals = 0 /\ RunOf[u] \notin failed => NoticeOf(u)'
    BY <1>1, <1>i, <1>d DEF IInv, NoticeOf, Over, There, StartOf
  <2> QED
    BY <2>1, <2>2, <2>3
<1>8. (\A u \in Tasks : EarlierOf(u))'
  BY <1>1, <1>i, <1>d DEF IInv, EarlierOf
<1> QED
  BY <1>1, <1>2, <1>3, <1>4, <1>5, <1>6, <1>7, <1>8, <1>e DEF IInv

-----------------------------------------------------------------------------
(* The connection of the workstation *)

LEMMA ReconnectStep ==
    ASSUME IInv, Reconnect
    PROVE  IInv'
<1>1. /\ ~link /\ link' = TRUE /\ stopping' = stopping \cup needsStop
      /\ UNCHANGED <<full, exists, entry, pending, delivery, retry, start, watch, notices, announced, named, down,
                     up, task, waits, reported, needsStop, reset, asking, before, late, failed, forgotten, cut,
                     unheard, stops, faults, renewals>>
  BY DEF Reconnect, stopVars, callVars, wireVars, boundVars, historyVars
<1>2. TypeOK /\ TypeOK'
  BY <1>1 DEF IInv, TypeOK
<1>3. Quiet' /\ SignIn' /\ (stopping \subseteq needsStop)'
  BY <1>1 DEF IInv, Quiet, SignIn, SignedInOverStream, Heard, Past
<1>4. \A q \in Runs : DeliveryOf(q)' /\ DeletionOf(q)' /\ (Answer("refused", q) \in up => q \in failed)'
  BY <1>1 DEF IInv, DeliveryOf, DeletionOf, Waiting
<1>5. ASSUME NEW u \in Tasks PROVE StartOf(u)' /\ ObservationOf(u)' /\ StopsOf(u)'
  BY <1>1 DEF IInv, StartOf, ObservationOf, StopsOf, Past, Over
<1>6. ASSUME NEW q \in Runs, q \notin late PROVE InTimeRun(q)'
  BY <1>1, <1>6 DEF IInv, InTimeRun, Heard
<1>7. ASSUME NEW u \in Tasks
      PROVE  /\ RunOf[u] \notin late => InTimeTask(RunOf[u], u)'
             /\ RunOf[u] \notin late \cup failed => CarriedOut(RunOf[u], u)'
             /\ renewals = 0 /\ RunOf[u] \notin failed => NoticeOf(u)'
  BY <1>1 DEF IInv, InTimeTask, CarriedOut, NoticeOf, Live, Over, Heard
<1>8. (\A u \in Tasks : EarlierOf(u))' /\ Orderly(down', late', failed')
  BY <1>1 DEF IInv, EarlierOf
<1> QED
  BY <1>1, <1>2, <1>3, <1>4, <1>5, <1>6, <1>7, <1>8 DEF IInv

LEMMA AnnounceStep ==
    ASSUME IInv, Announce
    PROVE  IInv'
<1>1. /\ link /\ needsStop = {} /\ announced \in {"no", "yes"}
      /\ announced = "yes" => renewals < MaxRenewals
      /\ renewals' = IF announced = "yes" THEN renewals + 1 ELSE renewals
      /\ announced' = "asking" /\ named' = Unreported
      /\ UNCHANGED <<full, exists, entry, pending, delivery, retry, start, watch, notices, link, down, up, task,
                     waits, reported, stopping, needsStop, reset, asking, before, late, failed, forgotten, cut,
                     unheard, stops, faults>>
  BY DEF Announce, MaySignIn, stopVars, callVars, wireVars, executorVars, historyVars
<1>2. TypeOK /\ TypeOK'
  <2>1. renewals' \in 0..MaxRenewals
    BY <1>1, WorkstationAssumption DEF IInv, TypeOK
  <2> QED
    BY <1>1, <2>1 DEF IInv, TypeOK, Unreported
<1>n. renewals' = 0 => renewals = 0 /\ announced = "no"
  BY <1>1, <1>2 DEF TypeOK
<1>3. Quiet' /\ SignIn' /\ (stopping \subseteq needsStop)'
  BY <1>1, <1>n DEF IInv, Quiet, SignIn, SignedInOverStream, Heard, Past, Unreported, There
<1>4. \A q \in Runs : DeliveryOf(q)' /\ DeletionOf(q)' /\ (Answer("refused", q) \in up => q \in failed)'
  BY <1>1 DEF IInv, DeliveryOf, DeletionOf, Waiting
<1>5. ASSUME NEW u \in Tasks PROVE StartOf(u)' /\ ObservationOf(u)' /\ StopsOf(u)'
  BY <1>1, <1>n DEF IInv, StartOf, ObservationOf, StopsOf, Past, Over
<1>6. ASSUME NEW q \in Runs, q \notin late PROVE InTimeRun(q)'
  BY <1>1, <1>6 DEF IInv, InTimeRun, Heard
<1>7. ASSUME NEW u \in Tasks
      PROVE  /\ RunOf[u] \notin late => InTimeTask(RunOf[u], u)'
             /\ RunOf[u] \notin late \cup failed => CarriedOut(RunOf[u], u)'
             /\ renewals' = 0 /\ RunOf[u] \notin failed => NoticeOf(u)'
  BY <1>1, <1>n DEF IInv, InTimeTask, CarriedOut, NoticeOf, Live, Over, Heard, Unreported, There
<1>8. (\A u \in Tasks : EarlierOf(u))' /\ Orderly(down', late', failed')
  BY <1>1 DEF IInv, EarlierOf
<1> QED
  BY <1>1, <1>2, <1>3, <1>4, <1>5, <1>6, <1>7, <1>8 DEF IInv

\* What is left at the workstation when its stream is lost.
Cleared ==
    /\ Quiet' /\ SignIn' /\ (stopping \subseteq needsStop)' /\ Orderly(down', late', failed')
    /\ down' = <<>> /\ up' = {} /\ named' = {} /\ reported' = reported /\ cut \subseteq cut'
    /\ link' \in BOOLEAN /\ announced' \in {"no", "asking", "yes"} /\ (stopping \cup needsStop \cup reset \subseteq Runs)'
    /\ task' \in [Tasks -> {"none", "starting", "running", "ended", "gone", "refused"}] /\ cut' \subseteq Tasks
    /\ waits' \in [Tasks -> {"no", "held", "on"}]
    /\ asking' \in [Runs -> SUBSET [op : {"stop", "delete"}, heard : BOOLEAN]]
    /\ \A t \in Tasks : /\ StopsOf(t)' /\ waits'[t] = "no"
                        /\ task'[t] = IF task[t] = "starting" THEN "refused" ELSE task[t]
                        /\ (Past(t) => Past(t)') /\ (Over(t) => Over(t)') /\ (Live(t)' => task[t] \in There)
                        /\ task[t] \in There /\ t \notin cut' => (RunOf[t] \in needsStop' => RunOf[t] \in needsStop)
    /\ \A r \in Runs : ~Heard(r)'

LEMMA AfterStreamLost ==
    ASSUME IInv, StreamLost, entry' # "live"
    PROVE  Cleared
<1>1. /\ link' = FALSE /\ announced' = "no" /\ named' = {}
      /\ down' = <<>> /\ up' = {}
      /\ task' = [t \in Tasks |-> IF task[t] = "starting" THEN "refused" ELSE task[t]]
      /\ waits' = [t \in Tasks |-> "no"]
      /\ asking' = [r \in Runs |-> {[a EXCEPT !.heard = FALSE] : a \in asking[r]}]
      /\ IF link THEN stopping' = stopping \cup Leased ELSE UNCHANGED stopping
      /\ needsStop' = needsStop \cup Leased /\ reset' = reset \cup Leased
      /\ cut' = cut \cup {t \in Tasks : RunOf[t] \in full /\ task[t] \in There}
      /\ UNCHANGED reported
  BY DEF StreamLost, There
<1>2. TypeOK
  BY DEF IInv
<1>3. asking' \in [Runs -> SUBSET [op : {"stop", "delete"}, heard : BOOLEAN]] /\ \A r \in Runs : ~Heard(r)'
  <2> SUFFICES ASSUME NEW r \in Runs
               PROVE  /\ {[a EXCEPT !.heard = FALSE] : a \in asking[r]} \subseteq [op : {"stop", "delete"}, heard : BOOLEAN]
                      /\ ~Heard(r)'
    BY <1>1
  <2>1. asking[r] \subseteq [op : {"stop", "delete"}, heard : BOOLEAN]
    BY <1>2 DEF TypeOK
  <2>2. \A a \in asking[r] : /\ [a EXCEPT !.heard = FALSE] \in [op : {"stop", "delete"}, heard : BOOLEAN]
                             /\ [a EXCEPT !.heard = FALSE].heard = FALSE
    BY <2>1
  <2>3. asking'[r] = {[a EXCEPT !.heard = FALSE] : a \in asking[r]}
    BY <1>1
  <2> QED
    BY <2>2, <2>3 DEF Heard
<1>4. /\ (stopping \cup needsStop \cup reset \subseteq Runs)' /\ (stopping \subseteq needsStop)'
      /\ Leased \subseteq full \ reset /\ \A t \in Tasks : RunOf[t] \in full \ reset /\ task[t] # "none" => RunOf[t] \in Leased
  BY <1>1, <1>2 DEF IInv, TypeOK, Leased, TasksOf
<1>5. Quiet' /\ SignIn'
  <2>1. \A t \in Tasks : waits'[t] = "no" /\ task'[t] # "starting"
    BY <1>1
  <2> QED
    BY <1>1, <1>3, <2>1 DEF Quiet, SignIn, SignedInOverStream
<1>6. ASSUME NEW t \in Tasks
      PROVE  /\ task'[t] = IF task[t] = "starting" THEN "refused" ELSE task[t]
             /\ (Past(t) => Past(t)') /\ (Over(t) => Over(t)') /\ (Live(t)' => task[t] \in There)
  BY <1>1, NothingDue DEF Past, Over, Live, There
<1>7. ASSUME NEW t \in Tasks
      PROVE  /\ StopsOf(t)'
             /\ task[t] \in There /\ t \notin cut' => (RunOf[t] \in needsStop' => RunOf[t] \in needsStop)
  <2>1. task[t] \in There => task[t] # "none"
    BY DEF There
  <2>2. task'[t] # "starting" /\ (task'[t] \in There <=> task[t] \in There) /\ (task[t] = "gone" => task'[t] = "gone")
    BY <1>6 DEF There
  <2>3. StopsOf(t)
    BY DEF IInv
  <2>4. task[t] \in There /\ RunOf[t] \in full \cup reset => RunOf[t] \in needsStop'
    BY <1>1, <1>4, <2>1, <2>3 DEF StopsOf
  <2>5. t \in cut' => t \in cut \/ (RunOf[t] \in full /\ task[t] \in There)
    BY <1>1
  <2>6. StopsOf(t)'
    BY <1>1, <1>4, <2>2, <2>3, <2>4, <2>5 DEF StopsOf
  <2>7. task[t] \in There /\ t \notin cut' => RunOf[t] \notin Leased
    BY <1>1, <1>4
  <2> QED
    BY <1>1, <2>6, <2>7
<1> QED
  BY <1>1, <1>2, <1>3, <1>4, <1>5, <1>6, <1>7, InEmpty DEF TypeOK, Cleared

LEMMA LoseStreamStep ==
    ASSUME IInv, LoseStream
    PROVE  IInv'
<1>1. /\ StreamLost /\ Fault /\ entry' = IF entry = "live" THEN "dead" ELSE entry
      /\ UNCHANGED <<full, exists, pending, delivery, retry, start, watch, notices, before, late, failed, forgotten, unheard, stops, renewals>>
  BY DEF LoseStream, stopVars, callVars
<1>a. entry' # "live" /\ (entry' = "none" <=> entry = "none")
  BY <1>1
<1>l. Cleared
  BY <1>1, <1>a, AfterStreamLost
<1>2. TypeOK /\ TypeOK'
  <2>1. faults' \in 0..MaxFaults
    BY <1>1, WorkstationAssumption DEF IInv, TypeOK, Fault
  <2> QED
    BY <1>1, <1>a, <2>1, InEmpty, <1>l DEF IInv, TypeOK, Cleared
<1>3. Quiet' /\ SignIn' /\ (stopping \subseteq needsStop)' /\ Orderly(down', late', failed')
  BY <1>1, <1>a, <1>l DEF Cleared
<1>4. \A q \in Runs : DeliveryOf(q)' /\ DeletionOf(q)' /\ (Answer("refused", q) \in up => q \in failed)'
  BY <1>1, <1>a, <1>l DEF IInv, DeliveryOf, DeletionOf, Waiting, Cleared
<1>5. ASSUME NEW u \in Tasks PROVE StartOf(u)' /\ ObservationOf(u)' /\ StopsOf(u)'
  BY <1>1, <1>a, <1>l, NothingDue DEF IInv, StartOf, ObservationOf, Cleared
<1>6. ASSUME NEW q \in Runs, q \notin late PROVE InTimeRun(q)'
  BY <1>1, <1>6, <1>a, <1>l, NothingDue DEF IInv, InTimeRun, Cleared
<1>7. ASSUME NEW u \in Tasks
      PROVE  /\ RunOf[u] \notin late => InTimeTask(RunOf[u], u)'
             /\ RunOf[u] \notin late \cup failed => CarriedOut(RunOf[u], u)'
             /\ renewals = 0 /\ RunOf[u] \notin failed => NoticeOf(u)'
             /\ EarlierOf(u)'
  <2>1. RunOf[u] \notin late => InTimeTask(RunOf[u], u)'
    BY <1>1, <1>a, <1>l DEF IInv, InTimeTask, Live, There, Cleared
  <2>2. CarriedOut(RunOf[u], u)'
    BY <1>1, <1>a, <1>l, NothingDue, WorkstationAssumption DEF CarriedOut, Cleared
  <2>3. renewals = 0 /\ RunOf[u] \notin failed => NoticeOf(u)'
    BY <1>1, <1>a, <1>l DEF IInv, NoticeOf, Cleared
  <2>4. EarlierOf(u)'
    BY <1>1, <1>a, <1>l, NothingDue DEF IInv, EarlierOf, Cleared
  <2> QED
    BY <2>1, <2>2, <2>3, <2>4
<1> QED
  BY <1>1, <1>2, <1>3, <1>4, <1>5, <1>6, <1>7 DEF IInv

LEMMA CrashStep ==
    ASSUME IInv, Crash
    PROVE  IInv'
<1>1. /\ StreamLost /\ Fault /\ entry' = "none" /\ delivery' = [r \in Runs |-> NoDelivery] /\ retry' = FALSE
      /\ pending' = [r \in Runs |-> "none"]
      /\ start' = [t \in Tasks |-> IF start[t] \in {"held", "asked"} THEN "failed" ELSE start[t]]
      /\ watch' = [t \in Tasks |-> "none"]
      /\ forgotten' = forgotten \cup {r \in Runs : pending[r] # "none"}
      /\ unheard' = unheard \cup {t \in reported : notices[t] = 0}
      /\ UNCHANGED <<full, exists, notices, before, late, failed, stops, renewals>>
  BY DEF Crash, AfterDisconnect
<1>l. Cleared
  BY <1>1, AfterStreamLost
<1>2. TypeOK /\ TypeOK'
  <2>1. faults' \in 0..MaxFaults
    BY <1>1, WorkstationAssumption DEF IInv, TypeOK, Fault
  <2>2. delivery' \in [Runs -> Deliveries]
    BY <1>1 DEF Deliveries, NoDelivery, Callers
  <2>3. start' \in [Tasks -> {"none", "held", "asked", "started", "failed"}]
    BY <1>1 DEF IInv, TypeOK
  <2> QED
    BY <1>1, <2>1, <2>2, <2>3, InEmpty, <1>l DEF IInv, TypeOK, Cleared
<1>3. Quiet' /\ SignIn' /\ (stopping \subseteq needsStop)' /\ Orderly(down', late', failed')
  BY <1>1, <1>l DEF Cleared
<1>s. \A t \in Tasks : start'[t] = (IF start[t] \in {"held", "asked"} THEN "failed" ELSE start[t]) /\ watch'[t] = "none"
  BY <1>1
<1>4. \A q \in Runs : DeliveryOf(q)' /\ DeletionOf(q)' /\ (Answer("refused", q) \in up => q \in failed)'
  <2>1. \A q \in Runs : delivery'[q] = NoDelivery /\ pending'[q] = "none" /\ NoDelivery.owner = "none" /\ NoDelivery.joined = {}
    BY <1>1 DEF NoDelivery
  <2>2. \A q \in Runs : DeliveryOf(q)'
    BY <2>1, <1>s, WorkstationAssumption DEF DeliveryOf, Waiting
  <2>3. \A q \in Runs : DeletionOf(q)' /\ (Answer("refused", q) \in up => q \in failed)'
    BY <1>1, <2>1, <1>s, <1>l DEF IInv, DeletionOf, Cleared
  <2> QED
    BY <2>2, <2>3
<1>5. ASSUME NEW u \in Tasks PROVE StartOf(u)' /\ ObservationOf(u)' /\ StopsOf(u)'
  <2>1. StartOf(u)'
    BY <1>1, <1>s, <1>l, NothingDue DEF IInv, StartOf, Cleared
  <2>2. ObservationOf(u)' /\ StopsOf(u)'
    BY <1>1, <1>l, NothingDue DEF ObservationOf, Cleared
  <2> QED
    BY <2>1, <2>2
<1>6. ASSUME NEW q \in Runs, q \notin late PROVE InTimeRun(q)'
  BY <1>1, <1>l, NothingDue, WorkstationAssumption DEF InTimeRun, NoDelivery, Cleared
<1>7. ASSUME NEW u \in Tasks
      PROVE  /\ RunOf[u] \notin late => InTimeTask(RunOf[u], u)'
             /\ RunOf[u] \notin late \cup failed => CarriedOut(RunOf[u], u)'
             /\ renewals = 0 /\ RunOf[u] \notin failed => NoticeOf(u)'
             /\ EarlierOf(u)'
  <2>0. RunOf[u] \in Runs /\ pending'[RunOf[u]] = "none"
    BY <1>1, WorkstationAssumption
  <2>1. RunOf[u] \notin late => InTimeTask(RunOf[u], u)'
    BY <1>1, <2>0, <1>l DEF IInv, InTimeTask, There, Cleared
  <2>2. CarriedOut(RunOf[u], u)'
    BY <1>1, <2>0, <1>l, NothingDue DEF CarriedOut, Cleared
  <2>3. renewals = 0 /\ RunOf[u] \notin failed => NoticeOf(u)'
    BY <1>1, <1>s, <1>l DEF IInv, NoticeOf, Cleared
  <2>4. EarlierOf(u)'
    BY <1>1, <2>0, <1>l, NothingDue DEF IInv, EarlierOf, Cleared
  <2> QED
    BY <2>1, <2>2, <2>3, <2>4
<1> QED
  BY <1>1, <1>2, <1>3, <1>4, <1>5, <1>6, <1>7 DEF IInv

LEMMA DisconnectedStep ==
    ASSUME IInv, Disconnected
    PROVE  IInv'
<1>1. /\ entry = "dead" /\ entry' = "none" /\ delivery' = [r \in Runs |-> NoDelivery]
      /\ retry' = (retry \/ \E r \in Runs : delivery[r] # NoDelivery)
      /\ start' = [t \in Tasks |-> IF start[t] \in {"held", "asked"} THEN "failed" ELSE start[t]]
      /\ watch' = [t \in Tasks |-> IF watch[t] \in {"held", "asked"} THEN "paused" ELSE watch[t]]
      /\ UNCHANGED <<full, exists, pending, notices, link, announced, named, down, up, task, waits, reported,
                     stopping, needsStop, reset, asking, before, late, failed, forgotten, cut, unheard, stops,
                     faults, renewals>>
  BY DEF Disconnected, AfterDisconnect, Reopened, lineVars, wireVars, executorVars, historyVars, boundVars
<1>2. TypeOK /\ TypeOK'
  <2>1. delivery' \in [Runs -> Deliveries]
    BY <1>1 DEF Deliveries, NoDelivery, Callers
  <2>2. start' \in [Tasks -> {"none", "held", "asked", "started", "failed"}] /\ watch' \in [Tasks -> {"none", "held", "asked", "paused"}]
    BY <1>1 DEF IInv, TypeOK
  <2> QED
    BY <1>1, <2>1, <2>2 DEF IInv, TypeOK
<1>q. down = <<>> /\ up = {} /\ (\A r \in Runs : ~Heard(r)) /\ \A t \in Tasks : waits[t] = "no" /\ task[t] # "starting"
  BY <1>1 DEF IInv, Quiet
<1>s. \A t \in Tasks : /\ start'[t] = IF start[t] \in {"held", "asked"} THEN "failed" ELSE start[t]
                       /\ watch'[t] = IF watch[t] \in {"held", "asked"} THEN "paused" ELSE watch[t]
  BY <1>1
<1>3. Quiet' /\ SignIn' /\ (stopping \subseteq needsStop)' /\ Orderly(down', late', failed')
  BY <1>1 DEF IInv, Quiet, SignIn, SignedInOverStream, Heard, Past
<1>4. \A q \in Runs : DeliveryOf(q)' /\ DeletionOf(q)' /\ (Answer("refused", q) \in up => q \in failed)'
  <2>1. \A q \in Runs : delivery'[q] = NoDelivery /\ NoDelivery.owner = "none" /\ NoDelivery.joined = {}
    BY <1>1 DEF NoDelivery
  <2>2. \A q \in Runs : DeliveryOf(q)'
    BY <2>1, <1>s, WorkstationAssumption DEF DeliveryOf, Waiting
  <2>3. \A q \in Runs : DeletionOf(q)' /\ (Answer("refused", q) \in up => q \in failed)'
    BY <1>1, <2>1, <1>s DEF IInv, DeletionOf
  <2> QED
    BY <2>2, <2>3
<1>5. ASSUME NEW u \in Tasks PROVE StartOf(u)' /\ ObservationOf(u)' /\ StopsOf(u)'
  <2>1. StartOf(u)'
    BY <1>1, <1>s DEF IInv, StartOf, Past
  <2>2. ObservationOf(u)' /\ StopsOf(u)'
    BY <1>1, <1>q, NothingDue DEF IInv, ObservationOf, StopsOf
  <2> QED
    BY <2>1, <2>2
<1>6. ASSUME NEW q \in Runs, q \notin late PROVE InTimeRun(q)'
  BY <1>1, <1>q, NothingDue, WorkstationAssumption DEF InTimeRun, NoDelivery, Heard
<1>7. ASSUME NEW u \in Tasks
      PROVE  /\ RunOf[u] \notin late => InTimeTask(RunOf[u], u)'
             /\ RunOf[u] \notin late \cup failed => CarriedOut(RunOf[u], u)'
             /\ renewals = 0 /\ RunOf[u] \notin failed => NoticeOf(u)'
             /\ EarlierOf(u)'
  <2>1. RunOf[u] \notin late => InTimeTask(RunOf[u], u)'
    BY <1>1 DEF IInv, InTimeTask, Live
  <2>2. RunOf[u] \notin late \cup failed => CarriedOut(RunOf[u], u)'
    BY <1>1 DEF IInv, CarriedOut, Live, Heard
  <2>3. renewals = 0 /\ RunOf[u] \notin failed => NoticeOf(u)'
    BY <1>1, <1>s DEF IInv, NoticeOf, Over
  <2>4. EarlierOf(u)'
    BY <1>1 DEF IInv, EarlierOf
  <2> QED
    BY <2>1, <2>2, <2>3, <2>4
<1> QED
  BY <1>1, <1>2, <1>3, <1>4, <1>5, <1>6, <1>7 DEF IInv

-----------------------------------------------------------------------------
(* Calls of the server *)

LEMMA DueInJoined ==
    ASSUME NEW s \in Seq(Requests), NEW u \in Seq(Requests)
    PROVE  \A x : /\ StartIn(s \o u, x) <=> StartIn(s, x) \/ StartIn(u, x)
                  /\ WaitIn(s \o u, x) <=> WaitIn(s, x) \/ WaitIn(u, x)
                  /\ StopIn(s \o u, x) <=> StopIn(s, x) \/ StopIn(u, x)
BY InJoined DEF StartIn, WaitIn, StopIn

LEMMA DueInSingle ==
    ASSUME NEW m \in Requests
    PROVE  \A x : /\ StartIn(<<m>>, x) <=> m.op = "start" /\ m.of = x
                  /\ WaitIn(<<m>>, x) <=> m.op = "wait" /\ m.of = x /\ m.heard
                  /\ StopIn(<<m>>, x) <=> IsStop(m) /\ m.of = x
BY InSingle DEF StartIn, WaitIn, StopIn

\* What may be put at the end of the line.
LEMMA OrderlyAppended ==
    ASSUME NEW s \in Seq(Requests), NEW m \in Requests, NEW L, NEW F, Orderly(s, L, F),
           m.op = "start" => ~StartIn(s, m.of) /\ (RunOf[m.of] \notin L \cup F => ~StopIn(s, RunOf[m.of])),
           m.op = "wait" => ~WaitIn(s, m.of),
           IsStop(m) => m.of \in L \/ ~StopIn(s, m.of)
    PROVE  s \o <<m>> \in Seq(Requests) /\ Orderly(s \o <<m>>, L, F)
<1>1. \A x \in ToSet(s) : ~Clash(x, m, L, F)
  <2> SUFFICES ASSUME NEW x \in ToSet(s) PROVE ~Clash(x, m, L, F)
    OBVIOUS
  <2>1. ~(x.op = "start" /\ m.op = "start" /\ x.of = m.of)
    BY DEF StartIn
  <2>2. ~(x.op = "wait" /\ m.op = "wait" /\ x.of = m.of /\ x.heard /\ m.heard)
    BY DEF WaitIn
  <2>3. ~(IsStop(x) /\ IsStop(m) /\ x.of = m.of /\ x.of \notin L)
    BY DEF StopIn
  <2>4. ~(IsStop(x) /\ m.op = "start" /\ x.of = RunOf[m.of] /\ x.of \notin L \cup F)
    BY DEF StopIn
  <2> QED
    BY <2>1, <2>2, <2>3, <2>4 DEF Clash
<1> QED
  BY <1>1, InSingle, InJoined, OrderlyJoined

LEMMA RequestIs ==
    /\ \A t \in Tasks, op \in {"start", "wait"} : Request(op, t) \in Requests
    /\ \A r \in Runs, op \in {"stop", "delete"} : Request(op, r) \in Requests
    /\ \A op, x : Request(op, x).op = op /\ Request(op, x).of = x /\ Request(op, x).heard = TRUE
BY DEF Request, Requests

LEMMA AnswerIs ==
    ASSUME TypeOK, NEW a \in up
    PROVE  /\ a = Answer(a.op, a.of)
           /\ \A op, x : Answer(op, x) \in up \ {a} <=> Answer(op, x) \in up /\ ~(op = a.op /\ x = a.of)
BY DEF TypeOK, Answers, Answer

\* A call of t is held back by the pending stop of its run or goes out.
CallHeld(t) == entry # "none" /\ pending[RunOf[t]] # "none"

CallMade(t, op) ==
    /\ down' \in Seq(Requests) /\ Orderly(down', late, failed)
    /\ entry # "live" => down' = down
    /\ \A x : /\ StartIn(down', x) <=> StartIn(down, x) \/ (op = "start" /\ x = t /\ entry = "live" /\ ~CallHeld(t))
              /\ WaitIn(down', x) <=> WaitIn(down, x) \/ (op = "wait" /\ x = t /\ entry = "live" /\ ~CallHeld(t))
              /\ StopIn(down', x) => StopIn(down, x) \/ (x = RunOf[t] /\ CallHeld(t) /\ delivery[x] = NoDelivery)
    /\ delivery' \in [Runs -> Deliveries]
    /\ \A q \in Runs :
        /\ delivery'[q] = NoDelivery <=> delivery[q] = NoDelivery /\ ~(q = RunOf[t] /\ CallHeld(t))
        /\ delivery'[q] # NoDelivery => pending[q] # "none" /\ entry # "none" /\ (delivery'[q].current \/ pending[q] = "delete")
        /\ delivery'[q].owner = "none" <=> delivery'[q] = NoDelivery
        /\ delivery'[q].owner \in Tasks => delivery'[q].owner \notin delivery'[q].joined /\ (q \in late \/ pending[q] = "delete")
        /\ \A u \in Tasks : u \in delivery'[q].joined \cup {delivery'[q].owner} <=>
              RunOf[u] = q /\ (Waiting(u) \/ (u = t /\ CallHeld(t)))

LEMMA CallMakes ==
    ASSUME IInv, NEW t \in Tasks, NEW op \in {"start", "wait"}, ~Waiting(t),
           op = "start" => ~StartIn(down, t), op = "wait" => ~WaitIn(down, t),
           entry = "none" => UNCHANGED <<delivery, down>>,
           CallHeld(t) => Deliver(RunOf[t], pending[RunOf[t]], delivery[RunOf[t]], t),
           entry # "none" /\ ~CallHeld(t) => down' = Sent(<<Request(op, t)>>) /\ UNCHANGED delivery
    PROVE  CallMade(t, op)
<1> DEFINE r == RunOf[t]
           d == delivery[r]
<1>1. /\ r \in Runs /\ TypeOK /\ down \in Seq(Requests) /\ Orderly(down, late, failed) /\ delivery \in [Runs -> Deliveries]
      /\ pending[r] \in {"none", "stop", "delete"} /\ d \in Deliveries
      /\ \A q \in Runs : DeliveryOf(q) /\ (q \notin late => InTimeRun(q))
  BY WorkstationAssumption DEF IInv, TypeOK
<1>2. CASE entry = "none"
  BY <1>1, <1>2 DEF CallMade, CallHeld, DeliveryOf, InTimeRun
<1>3. CASE entry # "none" /\ ~CallHeld(t)
  <2>1. pending[r] = "none" /\ d = NoDelivery /\ delivery' = delivery
    BY <1>1, <1>3 DEF CallHeld, DeliveryOf
  <2>2. CASE entry # "live"
    BY <1>1, <1>3, <2>1, <2>2 DEF CallMade, DeliveryOf, InTimeRun, Sent
  <2>3. CASE entry = "live"
    <3>1. down' = down \o <<Request(op, t)>>
      BY <1>3, <2>3 DEF Sent
    <3>2. r \in late \/ ~StopIn(down, r)
      BY <1>1, <2>1 DEF InTimeRun
    <3>3. down' \in Seq(Requests) /\ Orderly(down', late, failed)
      BY <1>1, <3>1, <3>2, RequestIs, OrderlyAppended DEF IsStop
    <3>4. \A x : /\ StartIn(down', x) <=> StartIn(down, x) \/ (op = "start" /\ x = t)
                 /\ WaitIn(down', x) <=> WaitIn(down, x) \/ (op = "wait" /\ x = t)
                 /\ StopIn(down', x) => StopIn(down, x)
      <4>1. Request(op, t) \in Requests /\ <<Request(op, t)>> \in Seq(Requests) /\ ~IsStop(Request(op, t))
        BY RequestIs, InSingle DEF IsStop
      <4>2. \A x : /\ StartIn(<<Request(op, t)>>, x) <=> op = "start" /\ t = x
                   /\ WaitIn(<<Request(op, t)>>, x) <=> op = "wait" /\ t = x
                   /\ ~StopIn(<<Request(op, t)>>, x)
        BY <4>1, RequestIs, DueInSingle
      <4> QED
        BY <1>1, <3>1, <4>1, <4>2, DueInJoined
    <3> QED
      BY <1>1, <1>3, <2>1, <2>3, <3>3, <3>4 DEF CallMade, DeliveryOf, InTimeRun
  <2> QED
    BY <2>2, <2>3
<1>4. CASE CallHeld(t) /\ d # NoDelivery
  <2>1. delivery' = [delivery EXCEPT ![r] = [d EXCEPT !.joined = @ \cup {t}]] /\ down' = down
    BY <1>4 DEF Deliver, CallHeld
  <2>2. delivery'[r] \in Deliveries /\ delivery'[r].owner = d.owner /\ delivery'[r].current = d.current
        /\ delivery'[r].joined = d.joined \cup {t} /\ \A q \in Runs : q # r => delivery'[q] = delivery[q]
    BY <1>1, <2>1 DEF Deliveries, Callers
  <2>3. delivery' \in [Runs -> Deliveries]
    BY <1>1, <2>1, <2>2
  <2>4. d.owner # "none" /\ d.owner # t /\ delivery'[r] # NoDelivery
    <3>1. d.owner # "none" /\ d.owner # t
      BY <1>1, <1>4 DEF DeliveryOf
    <3> QED
      BY <2>2, <3>1 DEF NoDelivery
  <2> QED
    BY <1>1, <1>4, <2>1, <2>2, <2>3, <2>4 DEF CallMade, CallHeld, DeliveryOf, InTimeRun
<1>5. CASE CallHeld(t) /\ d = NoDelivery
  <2>0. pending[r] \in {"stop", "delete"} /\ entry # "none"
    BY <1>1, <1>5 DEF CallHeld
  <2>1. delivery' = [delivery EXCEPT ![r] = Begun(pending[r], t)] /\ down' = Sent(<<Request(pending[r], r)>>)
    BY <1>5, <2>0 DEF Deliver
  <2>2. delivery'[r] \in Deliveries /\ delivery'[r].owner = t /\ delivery'[r].current = TRUE
        /\ delivery'[r].joined = {} /\ \A q \in Runs : q # r => delivery'[q] = delivery[q]
    BY <1>1, <2>0, <2>1 DEF Deliveries, Callers, Begun
  <2>3. delivery' \in [Runs -> Deliveries]
    BY <1>1, <2>1, <2>2
  <2>4. t # "none" /\ delivery'[r] # NoDelivery
    BY <2>2, WorkstationAssumption DEF NoDelivery
  <2>5. (r \in late \/ pending[r] = "delete") /\ \A u \in Tasks : RunOf[u] = r => ~Waiting(u)
    BY <1>1, <1>5, <2>0, WorkstationAssumption DEF InTimeRun, DeliveryOf, NoDelivery
  <2>6. \A q \in Runs :
        /\ delivery'[q] = NoDelivery <=> delivery[q] = NoDelivery /\ ~(q = RunOf[t] /\ CallHeld(t))
        /\ delivery'[q] # NoDelivery => pending[q] # "none" /\ entry # "none" /\ (delivery'[q].current \/ pending[q] = "delete")
        /\ delivery'[q].owner = "none" <=> delivery'[q] = NoDelivery
        /\ delivery'[q].owner \in Tasks => delivery'[q].owner \notin delivery'[q].joined /\ (q \in late \/ pending[q] = "delete")
        /\ \A u \in Tasks : u \in delivery'[q].joined \cup {delivery'[q].owner} <=>
              RunOf[u] = q /\ (Waiting(u) \/ (u = t /\ CallHeld(t)))
    BY <1>1, <1>5, <2>0, <2>2, <2>4, <2>5 DEF DeliveryOf, InTimeRun
  <2>7. CASE entry # "live"
    <3>1. down' = down
      BY <2>1, <2>7 DEF Sent
    <3> QED
      BY <1>1, <1>5, <2>3, <2>6, <2>7, <3>1 DEF CallMade
  <2>8. CASE entry = "live"
    <3> DEFINE m == Request(pending[r], r)
    <3>1. down' = down \o <<m>> /\ m \in Requests /\ m.op \in {"stop", "delete"} /\ m.of = r /\ IsStop(m)
      BY <1>1, <2>0, <2>1, <2>8, RequestIs DEF Sent, IsStop
    <3>2. r \in late \/ ~StopIn(down, r)
      BY <1>1, <1>5 DEF InTimeRun
    <3>3. down' \in Seq(Requests) /\ Orderly(down', late, failed)
      BY <1>1, <3>1, <3>2, OrderlyAppended
    <3>4. \A x : /\ StartIn(down', x) <=> StartIn(down, x)
                 /\ WaitIn(down', x) <=> WaitIn(down, x)
                 /\ StopIn(down', x) => StopIn(down, x) \/ x = r
      <4>1. \A x : ~StartIn(<<m>>, x) /\ ~WaitIn(<<m>>, x) /\ (StopIn(<<m>>, x) => x = r)
        BY <3>1, DueInSingle
      <4>2. <<m>> \in Seq(Requests)
        BY <3>1, InSingle
      <4> HIDE DEF m
      <4> QED
        BY <1>1, <3>1, <4>1, <4>2, DueInJoined
    <3> QED
      BY <1>1, <1>5, <2>3, <2>6, <2>8, <3>3, <3>4 DEF CallMade
  <2> QED
    BY <2>7, <2>8
<1> QED
  BY <1>2, <1>3, <1>4, <1>5 DEF CallHeld

LEMMA StartTaskStep ==
    ASSUME IInv, NEW t \in Tasks, StartTask(t)
    PROVE  IInv'
<1> DEFINE r == RunOf[t]
<1>1. /\ start[t] = "none" /\ r \in exists
      /\ start' = [start EXCEPT ![t] = IF entry = "none" THEN "failed" ELSE IF CallHeld(t) THEN "held" ELSE "asked"]
      /\ UNCHANGED <<full, exists, entry, pending, retry, watch, notices, link, announced, named, up, task, waits,
                     reported, stopping, needsStop, reset, asking, before, late, failed, forgotten, cut, unheard,
                     stops, faults, renewals>>
  BY DEF StartTask, Call, HeldBack, CallHeld, lineVars, executorVars, historyVars, boundVars
<1>m. CallMade(t, "start")
  <2>1. ~Waiting(t) /\ ~StartIn(down, t)
    BY <1>1 DEF IInv, StartOf, Waiting
  <2>2. /\ entry = "none" => UNCHANGED <<delivery, down>>
        /\ CallHeld(t) => Deliver(r, pending[r], delivery[r], t)
        /\ entry # "none" /\ ~CallHeld(t) => down' = Sent(<<Request("start", t)>>) /\ UNCHANGED delivery
    BY DEF StartTask, Call, HeldBack, CallHeld
  <2> QED
    BY <2>1, <2>2, CallMakes
<1>2. TypeOK /\ TypeOK'
  BY <1>1, <1>m DEF IInv, TypeOK, CallMade
<1>s. /\ \A u \in Tasks : u # t => start'[u] = start[u]
      /\ start'[t] # "none" /\ start'[t] = (IF entry = "none" THEN "failed" ELSE IF CallHeld(t) THEN "held" ELSE "asked")
      /\ task[t] = "none" /\ watch[t] = "none" /\ ~StartIn(down, t) /\ t \notin before
      /\ \A u \in Tasks : Waiting(u)' <=> Waiting(u) \/ (u = t /\ CallHeld(t))
  BY <1>1, <1>2 DEF IInv, TypeOK, StartOf, Waiting, CallHeld
<1>3. Quiet' /\ SignIn' /\ (stopping \subseteq needsStop)' /\ Orderly(down', late', failed')
  BY <1>1, <1>m DEF IInv, Quiet, SignIn, SignedInOverStream, Heard, Past, CallMade
<1>4. \A q \in Runs : DeliveryOf(q)' /\ DeletionOf(q)' /\ (Answer("refused", q) \in up => q \in failed)'
  <2>1. \A q \in Runs : DeliveryOf(q)'
    BY <1>1, <1>s, <1>m DEF DeliveryOf, CallMade
  <2>2. \A q \in Runs : DeletionOf(q)'
    BY <1>1, <1>s DEF IInv, DeletionOf
  <2> QED
    BY <1>1, <2>1, <2>2 DEF IInv
<1>5. ASSUME NEW u \in Tasks PROVE StartOf(u)' /\ ObservationOf(u)' /\ StopsOf(u)'
  <2>1. StartOf(u)'
    BY <1>1, <1>s, <1>m DEF IInv, StartOf, Past, CallMade, CallHeld
  <2>2. ObservationOf(u)' /\ StopsOf(u)'
    BY <1>1, <1>m DEF IInv, ObservationOf, StopsOf, Over, CallMade
  <2> QED
    BY <2>1, <2>2
<1>6. ASSUME NEW q \in Runs, q \notin late PROVE InTimeRun(q)'
  BY <1>1, <1>6, <1>m DEF IInv, InTimeRun, Heard, CallMade
<1>7. ASSUME NEW u \in Tasks
      PROVE  /\ RunOf[u] \notin late => InTimeTask(RunOf[u], u)'
             /\ RunOf[u] \notin late \cup failed => CarriedOut(RunOf[u], u)'
             /\ renewals = 0 /\ RunOf[u] \notin failed => NoticeOf(u)'
             /\ EarlierOf(u)'
  <2>0. RunOf[u] \in Runs /\ (StartIn(down', u) => StartIn(down, u) \/ (u = t /\ entry = "live" /\ pending[r] = "none"))
    BY <1>1, <1>m, WorkstationAssumption DEF CallMade, CallHeld
  <2>1. RunOf[u] \notin late => InTimeTask(RunOf[u], u)'
    BY <1>1, <2>0 DEF IInv, InTimeTask, Live
  <2>2. RunOf[u] \notin late \cup failed => CarriedOut(RunOf[u], u)'
    <3>1. RunOf[u] \notin late \cup failed => CarriedOut(RunOf[u], u) /\ InTimeRun(RunOf[u]) /\ DeliveryOf(RunOf[u])
      BY <2>0 DEF IInv
    <3> QED
      BY <1>1, <2>0, <3>1 DEF CarriedOut, InTimeRun, DeliveryOf, Live, Heard
  <2>3. renewals = 0 /\ RunOf[u] \notin failed => NoticeOf(u)'
    BY <1>1, <1>s DEF IInv, NoticeOf, Over
  <2>4. EarlierOf(u)'
    BY <1>1, <1>s, <2>0 DEF IInv, EarlierOf
  <2> QED
    BY <2>1, <2>2, <2>3, <2>4
<1> QED
  BY <1>1, <1>2, <1>3, <1>4, <1>5, <1>6, <1>7 DEF IInv

\* A command that is observed from now on: its run is left as it is but for the observation.
LEMMA ObservedFrom ==
    ASSUME IInv, NEW t \in Tasks, CallMade(t, "wait"), ~Waiting(t), Past(t), start[t] \notin {"none", "held"}, watch[t] \in {"none", "paused"},
           watch' = [watch EXCEPT ![t] = IF entry = "none" THEN "paused" ELSE IF CallHeld(t) THEN "held" ELSE "asked"],
           \A u \in Tasks : u # t => start'[u] = start[u],
           start' \in [Tasks -> {"none", "held", "asked", "started", "failed"}],
           start'[t] \in {"started", "failed"} \/ (start'[t] = start[t] /\ renewals > 0),
           NEW a, up' = up \/ (a \in up /\ up' = up \ {a}),
           watch[t] = "none" => (renewals = 0 /\ RunOf[t] \notin failed => notices[t] # 1),
           UNCHANGED <<full, exists, entry, pending, retry, notices, link, announced, named, task, waits, reported,
                     stopping, needsStop, reset, asking, before, late, failed, forgotten, cut, unheard, stops,
                     faults, renewals>>
    PROVE  IInv'
<1>2. TypeOK /\ TypeOK'
  BY DEF IInv, TypeOK, CallMade
<1>a. \A op, x : Answer(op, x) \in up' => Answer(op, x) \in up
  OBVIOUS
<1>s. /\ \A u \in Tasks : u # t => start'[u] = start[u] /\ watch'[u] = watch[u]
      /\ start'[t] \notin {"none", "held"}
      /\ watch'[t] = (IF entry = "none" THEN "paused" ELSE IF CallHeld(t) THEN "held" ELSE "asked")
      /\ \A u \in Tasks : Waiting(u)' <=> Waiting(u) \/ (u = t /\ CallHeld(t))
      /\ \A u \in Tasks : start[u] \in {"started", "failed"} => start'[u] \in {"started", "failed"}
  BY <1>2 DEF TypeOK, Waiting, CallHeld
<1>3. Quiet' /\ SignIn' /\ (stopping \subseteq needsStop)' /\ Orderly(down', late', failed')
  <2>1. entry # "live" => up' = {} /\ down' = <<>>
    BY DEF IInv, Quiet, CallMade
  <2> QED
    BY <2>1 DEF IInv, Quiet, SignIn, SignedInOverStream, Heard, Past, CallMade
<1>4. \A q \in Runs : DeliveryOf(q)' /\ DeletionOf(q)' /\ (Answer("refused", q) \in up => q \in failed)'
  <2>1. \A q \in Runs : DeliveryOf(q)'
    BY <1>s DEF DeliveryOf, CallMade
  <2>2. \A q \in Runs : DeletionOf(q)'
    BY <1>s DEF IInv, DeletionOf
  <2> QED
    BY <1>a, <2>1, <2>2 DEF IInv
<1>5. ASSUME NEW u \in Tasks PROVE StartOf(u)' /\ ObservationOf(u)' /\ StopsOf(u)'
  <2>0. (Past(u)' <=> Past(u)) /\ (Over(u)' <=> Over(u)) /\ (StartIn(down', u) <=> StartIn(down, u))
        /\ (WaitIn(down', u) <=> WaitIn(down, u) \/ (u = t /\ entry = "live" /\ ~CallHeld(t)))
    BY DEF Past, Over, CallMade
  <2>1. StartOf(u)'
    BY <1>a, <1>s, <2>0 DEF IInv, StartOf
  <2>2. ObservationOf(u)'
    BY <1>a, <1>s, <2>0 DEF IInv, ObservationOf
  <2>3. StopsOf(u)'
    BY DEF IInv, StopsOf
  <2> QED
    BY <2>1, <2>2, <2>3
<1>6. ASSUME NEW q \in Runs, q \notin late PROVE InTimeRun(q)'
  BY <1>6, <1>a DEF IInv, InTimeRun, Heard, CallMade
<1>7. ASSUME NEW u \in Tasks
      PROVE  /\ RunOf[u] \notin late => InTimeTask(RunOf[u], u)'
             /\ RunOf[u] \notin late \cup failed => CarriedOut(RunOf[u], u)'
             /\ renewals = 0 /\ RunOf[u] \notin failed => NoticeOf(u)'
             /\ EarlierOf(u)'
  <2>0. StartIn(down', u) <=> StartIn(down, u)
    BY DEF CallMade
  <2>1. RunOf[u] \notin late => InTimeTask(RunOf[u], u)'
    BY <2>0 DEF IInv, InTimeTask, Live
  <2>2. RunOf[u] \notin late \cup failed => CarriedOut(RunOf[u], u)'
    BY <1>a, <2>0 DEF IInv, CarriedOut, Live, Heard
  <2>3. renewals = 0 /\ RunOf[u] \notin failed => NoticeOf(u)'
    BY <1>s DEF IInv, NoticeOf, Over
  <2>4. EarlierOf(u)'
    BY <2>0 DEF IInv, EarlierOf
  <2> QED
    BY <2>1, <2>2, <2>3, <2>4
<1> QED
  BY <1>2, <1>3, <1>4, <1>5, <1>6, <1>7 DEF IInv

LEMMA StartAnsweredStep ==
    ASSUME IInv, NEW t \in Tasks, StartAnswered(t)
    PROVE  IInv'
<1>1. PICK a \in up :
        /\ a.of = t /\ a.op \in {"started", "notStarted"} /\ up' = up \ {a}
        /\ start' = [start EXCEPT ![t] = IF @ # "asked" THEN @ ELSE IF a.op = "started" THEN "started" ELSE "failed"]
        /\ IF a.op = "started" /\ start[t] = "asked" /\ watch[t] = "none"
           THEN Call(t, "wait", watch, "paused") ELSE UNCHANGED <<watch, delivery, down>>
  BY DEF StartAnswered
<1>2. UNCHANGED <<full, exists, entry, pending, retry, notices, link, announced, named, task, waits, reported,
                     stopping, needsStop, reset, asking, before, late, failed, forgotten, cut, unheard, stops,
                     faults, renewals>>
  BY DEF StartAnswered, lineVars, executorVars, historyVars, boundVars
<1>3. /\ TypeOK /\ a = Answer(a.op, t) /\ start' \in [Tasks -> {"none", "held", "asked", "started", "failed"}]
      /\ \A u \in Tasks : u # t => start'[u] = start[u]
      /\ start'[t] = IF start[t] # "asked" THEN start[t] ELSE IF a.op = "started" THEN "started" ELSE "failed"
  BY <1>1, AnswerIs DEF IInv, TypeOK
<1>4. CASE a.op = "started" /\ start[t] = "asked" /\ watch[t] = "none"
  <2>1. ~Waiting(t) /\ Past(t) /\ ~WaitIn(down, t)
    BY <1>1, <1>3, <1>4 DEF IInv, StartOf, ObservationOf, Waiting
  <2>2. /\ entry = "none" => UNCHANGED <<delivery, down>>
        /\ CallHeld(t) => Deliver(RunOf[t], pending[RunOf[t]], delivery[RunOf[t]], t)
        /\ entry # "none" /\ ~CallHeld(t) => down' = Sent(<<Request("wait", t)>>) /\ UNCHANGED delivery
        /\ watch' = [watch EXCEPT ![t] = IF entry = "none" THEN "paused" ELSE IF CallHeld(t) THEN "held" ELSE "asked"]
    BY <1>1, <1>4 DEF Call, HeldBack, CallHeld
  <2>3. CallMade(t, "wait")
    BY <2>1, <2>2, CallMakes
  <2>4. renewals = 0 /\ RunOf[t] \notin failed => notices[t] # 1
    BY <1>4 DEF IInv, NoticeOf
  <2>5. start[t] \notin {"none", "held"} /\ watch[t] \in {"none", "paused"} /\ start'[t] \in {"started", "failed"}
    BY <1>3, <1>4
  <2> QED
    BY <1>1, <1>2, <1>3, <2>1, <2>2, <2>3, <2>4, <2>5, ObservedFrom
<1>5. CASE ~(a.op = "started" /\ start[t] = "asked" /\ watch[t] = "none")
  <2>1. UNCHANGED <<watch, delivery, down>>
    BY <1>1, <1>5
  <2>2. TypeOK'
    BY <1>1, <1>2, <1>3, <2>1 DEF TypeOK
  <2>a. \A op, x : Answer(op, x) \in up' => Answer(op, x) \in up
    BY <1>1
  <2>s. /\ \A u \in Tasks : (start'[u] \in {"none", "held"} \/ start[u] \in {"none", "held"}) => start'[u] = start[u]
        /\ \A u \in Tasks : start[u] \in {"started", "failed"} => start'[u] = start[u]
        /\ \A u \in Tasks : Waiting(u)' <=> Waiting(u)
    BY <1>3, <2>1 DEF Waiting
  <2>3. Quiet' /\ SignIn' /\ (stopping \subseteq needsStop)' /\ Orderly(down', late', failed')
    <3>1. entry = "live"
      BY <1>1 DEF IInv, Quiet
    <3> QED
      BY <1>2, <2>1, <3>1 DEF IInv, Quiet, SignIn, SignedInOverStream, Past
  <2>4. \A q \in Runs : DeliveryOf(q)' /\ DeletionOf(q)' /\ (Answer("refused", q) \in up => q \in failed)'
    BY <1>2, <2>1, <2>a, <2>s DEF IInv, DeliveryOf, DeletionOf
  <2>5. ASSUME NEW u \in Tasks PROVE StartOf(u)' /\ ObservationOf(u)' /\ StopsOf(u)'
    <3>0. (Past(u)' <=> Past(u)) /\ (Over(u)' <=> Over(u))
      BY <1>2 DEF Past, Over
    <3>1. StartOf(u)'
      BY <1>2, <2>1, <2>a, <2>s, <3>0 DEF IInv, StartOf
    <3>2. ObservationOf(u)' /\ StopsOf(u)'
      BY <1>2, <2>1, <2>a, <3>0 DEF IInv, ObservationOf, StopsOf
    <3> QED
      BY <3>1, <3>2
  <2>6. ASSUME NEW q \in Runs, q \notin late PROVE InTimeRun(q)'
    BY <1>2, <2>1, <2>6, <2>a DEF IInv, InTimeRun, Heard
  <2>7. ASSUME NEW u \in Tasks
        PROVE  /\ RunOf[u] \notin late => InTimeTask(RunOf[u], u)'
               /\ RunOf[u] \notin late \cup failed => CarriedOut(RunOf[u], u)'
               /\ renewals = 0 /\ RunOf[u] \notin failed => NoticeOf(u)'
               /\ EarlierOf(u)'
    BY <1>2, <2>1, <2>a, <2>s DEF IInv, InTimeTask, CarriedOut, NoticeOf, EarlierOf, Live, Over, Heard
  <2> QED
    BY <1>2, <2>1, <2>2, <2>3, <2>4, <2>5, <2>6, <2>7 DEF IInv
<1> QED
  BY <1>4, <1>5

LEMMA WatchAgainStep ==
    ASSUME IInv, NEW t \in Tasks, WatchAgain(t)
    PROVE  IInv'
<1>1. /\ watch[t] = "paused" /\ entry # "none"
      /\ watch' = [watch EXCEPT ![t] = IF entry = "none" THEN "paused" ELSE IF CallHeld(t) THEN "held" ELSE "asked"]
      /\ CallHeld(t) => Deliver(RunOf[t], pending[RunOf[t]], delivery[RunOf[t]], t)
      /\ ~CallHeld(t) => down' = Sent(<<Request("wait", t)>>) /\ UNCHANGED delivery
  BY DEF WatchAgain, Call, HeldBack, CallHeld
<1>2. UNCHANGED <<full, exists, entry, pending, retry, start, notices, link, announced, named, up, task, waits,
                     reported, stopping, needsStop, reset, asking, before, late, failed, forgotten, cut, unheard,
                     stops, faults, renewals>>
  BY DEF WatchAgain, lineVars, executorVars, historyVars, boundVars
<1>3. ~Waiting(t) /\ Past(t) /\ ~WaitIn(down, t) /\ start[t] \notin {"none", "held"}
  BY <1>1 DEF IInv, StartOf, ObservationOf, Waiting
<1>4. CallMade(t, "wait")
  BY <1>1, <1>3, CallMakes
<1>5. start'[t] \in {"started", "failed"} \/ (start'[t] = start[t] /\ renewals > 0)
  BY <1>1, <1>2 DEF IInv, TypeOK, StartOf
<1>6. start' \in [Tasks -> {"none", "held", "asked", "started", "failed"}]
  BY <1>2 DEF IInv, TypeOK
<1>7. watch[t] \in {"none", "paused"} /\ (watch[t] = "none" => (renewals = 0 /\ RunOf[t] \notin failed => notices[t] # 1))
  BY <1>1
<1> QED
  BY <1>1, <1>2, <1>3, <1>4, <1>5, <1>6, <1>7, ObservedFrom

LEMMA WatchAnsweredStep ==
    ASSUME IInv, NEW t \in Tasks, WatchAnswered(t)
    PROVE  IInv'
<1>1. PICK a \in up : a.of = t /\ a.op \in {"ended", "lost"} /\ up' = up \ {a}
  BY DEF WatchAnswered
<1>2. /\ watch' = [watch EXCEPT ![t] = "none"]
      /\ notices' = [notices EXCEPT ![t] = IF RunOf[t] \in exists THEN @ + 1 ELSE @]
      /\ UNCHANGED <<full, exists, entry, pending, delivery, retry, start, link, announced, named, down, task,
                     waits, reported, stopping, needsStop, reset, asking, before, late, failed, forgotten, cut,
                     unheard, stops, faults, renewals>>
  BY DEF WatchAnswered, stopVars, lineVars, executorVars, historyVars, boundVars
<1>3. TypeOK /\ TypeOK'
  BY <1>1, <1>2 DEF IInv, TypeOK
<1>a. /\ \A op, x : Answer(op, x) \in up' => Answer(op, x) \in up
      /\ Answer(a.op, t) \in up /\ Answer(a.op, t) \notin up' /\ a.op \in {"ended", "lost"}
  BY <1>1, <1>3, AnswerIs
<1>4. /\ entry = "live" /\ watch[t] = "asked" /\ Answer("ended", t) \notin up' /\ Answer("lost", t) \notin up'
      /\ Over(t) /\ Past(t) /\ ~WaitIn(down, t) /\ waits[t] = "no"
  <2>1. entry = "live" /\ ObservationOf(t) /\ StartOf(t) /\ waits[t] \in {"no", "held", "on"}
    BY <1>1, <1>3 DEF IInv, Quiet, TypeOK
  <2>2. CASE a.op = "ended"
    BY <1>a, <2>1, <2>2 DEF ObservationOf, StartOf, Over
  <2>3. CASE a.op = "lost"
    BY <1>a, <2>1, <2>3 DEF ObservationOf, StartOf, Over
  <2> QED
    BY <1>a, <2>2, <2>3
<1>s. /\ watch'[t] = "none" /\ \A u \in Tasks : u # t => watch'[u] = watch[u] /\ notices'[u] = notices[u]
      /\ notices[t] \in Nat /\ notices'[t] \in {notices[t], notices[t] + 1}
      /\ \A u \in Tasks : Waiting(u)' <=> Waiting(u)
  BY <1>2, <1>3, <1>4 DEF TypeOK, Waiting
<1>5. Quiet' /\ SignIn' /\ (stopping \subseteq needsStop)' /\ Orderly(down', late', failed')
  BY <1>2, <1>4 DEF IInv, Quiet, SignIn, SignedInOverStream, Past
<1>6. \A q \in Runs : DeliveryOf(q)' /\ DeletionOf(q)' /\ (Answer("refused", q) \in up => q \in failed)'
  BY <1>2, <1>a, <1>s DEF IInv, DeliveryOf, DeletionOf
<1>7. ASSUME NEW u \in Tasks PROVE StartOf(u)' /\ ObservationOf(u)' /\ StopsOf(u)'
  <2>0. (Past(u)' <=> Past(u)) /\ (Over(u)' <=> Over(u))
    BY <1>2 DEF Past, Over
  <2>1. StartOf(u)'
    BY <1>2, <1>a, <1>s, <2>0 DEF IInv, StartOf
  <2>2. ObservationOf(u)'
    BY <1>2, <1>a, <1>s, <1>4, <2>0 DEF IInv, ObservationOf
  <2>3. StopsOf(u)'
    BY <1>2 DEF IInv, StopsOf
  <2> QED
    BY <2>1, <2>2, <2>3
<1>8. ASSUME NEW q \in Runs, q \notin late PROVE InTimeRun(q)'
  BY <1>2, <1>8, <1>a DEF IInv, InTimeRun, Heard
<1>9. ASSUME NEW u \in Tasks
      PROVE  /\ RunOf[u] \notin late => InTimeTask(RunOf[u], u)'
             /\ RunOf[u] \notin late \cup failed => CarriedOut(RunOf[u], u)'
             /\ renewals = 0 /\ RunOf[u] \notin failed => NoticeOf(u)'
             /\ EarlierOf(u)'
  <2>1. /\ RunOf[u] \notin late => InTimeTask(RunOf[u], u)'
        /\ RunOf[u] \notin late \cup failed => CarriedOut(RunOf[u], u)'
        /\ EarlierOf(u)'
    BY <1>2, <1>a DEF IInv, InTimeTask, CarriedOut, EarlierOf, Live, Heard
  <2>2. ASSUME renewals = 0, RunOf[u] \notin failed PROVE NoticeOf(u)'
    <3>1. CASE u # t
      BY <1>2, <1>s, <2>2, <3>1 DEF IInv, NoticeOf, Over
    <3>2. CASE u = t
      <4>1. notices[t] = 0
        BY <1>4, <1>s, <2>2, <3>2 DEF IInv, NoticeOf
      <4>2. t \notin named /\ start[t] \in {"started", "failed"}
        BY <1>4, <2>2 DEF IInv, SignIn, StartOf
      <4> QED
        BY <1>2, <1>4, <1>s, <3>2, <4>1, <4>2 DEF NoticeOf, Over
    <3> QED
      BY <3>1, <3>2
  <2> QED
    BY <1>2, <2>1, <2>2
<1> QED
  BY <1>2, <1>3, <1>5, <1>6, <1>7, <1>8, <1>9 DEF IInv

-----------------------------------------------------------------------------
(* The stop and the deletion of a run *)

LEMMA DueUnheard ==
    ASSUME TypeOK, NEW S
    PROVE  /\ \A x : /\ StartIn(Unheard(S), x) <=> StartIn(down, x)
                     /\ StopIn(Unheard(S), x) <=> StopIn(down, x)
                     /\ WaitIn(Unheard(S), x) => WaitIn(down, x)
           /\ \A x : (\A m \in ToSet(down) : m.op = "wait" /\ m.of = x => m \in S) => ~WaitIn(Unheard(S), x)
<1>1. \A x \in ToSet(down) : /\ [x EXCEPT !.heard = FALSE].op = x.op /\ [x EXCEPT !.heard = FALSE].of = x.of
                             /\ [x EXCEPT !.heard = FALSE].heard = FALSE
  <2>1. \A x \in ToSet(down) : x \in Requests
    BY InSet DEF TypeOK
  <2> QED
    BY <2>1 DEF Requests
<1>2. /\ \A m \in ToSet(Unheard(S)) : \E x \in ToSet(down) : m = IF x \in S THEN [x EXCEPT !.heard = FALSE] ELSE x
      /\ \A x \in ToSet(down) : (IF x \in S THEN [x EXCEPT !.heard = FALSE] ELSE x) \in ToSet(Unheard(S))
  BY InUnheard
<1>3. \A m \in ToSet(Unheard(S)) : \E x \in ToSet(down) : m.op = x.op /\ m.of = x.of /\ (m.heard => m = x /\ x \notin S)
  <2> SUFFICES ASSUME NEW m \in ToSet(Unheard(S))
               PROVE  \E x \in ToSet(down) : m.op = x.op /\ m.of = x.of /\ (m.heard => m = x /\ x \notin S)
    OBVIOUS
  <2>1. PICK x \in ToSet(down) : m = IF x \in S THEN [x EXCEPT !.heard = FALSE] ELSE x
    BY <1>2
  <2>2. CASE x \in S
    BY <1>1, <2>1, <2>2
  <2>3. CASE x \notin S
    BY <2>1, <2>3
  <2> QED
    BY <2>2, <2>3
<1>4. \A x \in ToSet(down) : \E m \in ToSet(Unheard(S)) : m.op = x.op /\ m.of = x.of
  BY <1>1, <1>2
<1>5. ASSUME NEW x PROVE StartIn(Unheard(S), x) <=> StartIn(down, x)
  BY <1>3, <1>4 DEF StartIn
<1>6. ASSUME NEW x PROVE StopIn(Unheard(S), x) <=> StopIn(down, x)
  BY <1>3, <1>4 DEF StopIn, IsStop
<1>7. ASSUME NEW x PROVE /\ WaitIn(Unheard(S), x) => WaitIn(down, x)
                         /\ (\A m \in ToSet(down) : m.op = "wait" /\ m.of = x => m \in S) => ~WaitIn(Unheard(S), x)
  BY <1>3 DEF WaitIn
<1> QED
  BY <1>5, <1>6, <1>7

\* A stop of r at the end of the line.
LEMMA StopAppended ==
    ASSUME NEW s \in Seq(Requests), NEW r \in Runs, NEW kind \in {"stop", "delete"}, NEW L, NEW F, Orderly(s, L, F),
           r \in L \/ ~StopIn(s, r)
    PROVE  LET u == s \o <<Request(kind, r)>>
           IN  /\ u \in Seq(Requests) /\ Orderly(u, L, F)
               /\ \A x : /\ StartIn(u, x) <=> StartIn(s, x)
                         /\ WaitIn(u, x) <=> WaitIn(s, x)
                         /\ StopIn(u, x) <=> StopIn(s, x) \/ x = r
<1> DEFINE m == Request(kind, r)
<1>1. m \in Requests /\ m.op \in {"stop", "delete"} /\ m.of = r /\ IsStop(m)
  BY RequestIs DEF IsStop
<1>2. \A x : ~StartIn(<<m>>, x) /\ ~WaitIn(<<m>>, x) /\ (StopIn(<<m>>, x) <=> x = r)
  BY <1>1, DueInSingle
<1>3. <<m>> \in Seq(Requests)
  BY <1>1, InSingle
<1> HIDE DEF m
<1>4. s \o <<m>> \in Seq(Requests) /\ Orderly(s \o <<m>>, L, F)
  BY <1>1, OrderlyAppended
<1>5. \A x : /\ StartIn(s \o <<m>>, x) <=> StartIn(s, x)
             /\ WaitIn(s \o <<m>>, x) <=> WaitIn(s, x)
             /\ StopIn(s \o <<m>>, x) <=> StopIn(s, x) \/ x = r
  BY <1>2, <1>3, DueInJoined
<1> QED
  BY <1>4, <1>5 DEF m

LEMMA SameDelivery ==
    ASSUME NEW x \in Deliveries, NEW y \in Deliveries,
           x.kind = y.kind, x.current = y.current, x.owner = y.owner, x.joined = y.joined
    PROVE  x = y
BY DEF Deliveries

LEMMA DeleteRunStep ==
    ASSUME IInv, NEW r \in Runs, DeleteRun(r)
    PROVE  IInv'
<1> DEFINE d == [delivery[r] EXCEPT !.current = FALSE]
<1>1. /\ r \in exists /\ (\A t \in Tasks : RunOf[t] = r => start[t] = "none" \/ t \in before)
      /\ exists' = exists \ {r} /\ pending' = [pending EXCEPT ![r] = "delete"]
      /\ UNCHANGED <<full, entry, retry, start, watch, notices, link, announced, named, up, task, waits, reported,
                     stopping, needsStop, reset, asking, before, late, failed, forgotten, cut, unheard, stops,
                     faults, renewals>>
  BY DEF DeleteRun, TasksOf, callVars, lineVars, executorVars, historyVars, boundVars
<1>t. /\ TypeOK /\ down \in Seq(Requests) /\ Orderly(down, late, failed) /\ delivery \in [Runs -> Deliveries] /\ delivery[r] \in Deliveries
      /\ entry \in {"none", "live", "dead"} /\ DeliveryOf(r) /\ (r \notin late => InTimeRun(r))
  BY DEF IInv, TypeOK
<1>d. /\ d \in Deliveries /\ d.owner = delivery[r].owner /\ d.joined = delivery[r].joined /\ d.current = FALSE
      /\ d = NoDelivery <=> delivery[r] = NoDelivery
  <2>1. d \in Deliveries /\ d.owner = delivery[r].owner /\ d.joined = delivery[r].joined /\ d.current = FALSE
    BY <1>t DEF Deliveries
  <2>2. d = NoDelivery => delivery[r] = NoDelivery
    BY <1>t, <2>1 DEF DeliveryOf, NoDelivery
  <2>3. ASSUME delivery[r] = NoDelivery PROVE d = NoDelivery
    <3>1. d.kind = delivery[r].kind
      BY <1>t DEF Deliveries
    <3> HIDE DEF d
    <3>2. NoDelivery \in Deliveries /\ NoDelivery.current = FALSE
      BY DEF NoDelivery, Deliveries, Callers
    <3> QED
      BY <2>1, <2>3, <3>1, <3>2, SameDelivery
  <2> QED
    BY <2>1, <2>2, <2>3
<1>e. /\ entry = "none" => UNCHANGED <<delivery, down>>
      /\ entry # "none" /\ d = NoDelivery => delivery' = [delivery EXCEPT ![r] = Begun("delete", "caller")] /\ down' = Sent(<<Request("delete", r)>>)
      /\ entry # "none" /\ d # NoDelivery => delivery' = [delivery EXCEPT ![r] = [d EXCEPT !.joined = @ \cup {"caller"}]] /\ UNCHANGED down
  BY DEF DeleteRun, Deliver
<1> HIDE DEF d
<1>l. /\ down' \in Seq(Requests) /\ Orderly(down', late, failed) /\ (entry # "live" => down' = down)
      /\ \A x : /\ StartIn(down', x) <=> StartIn(down, x)
                /\ WaitIn(down', x) <=> WaitIn(down, x)
                /\ StopIn(down', x) => StopIn(down, x) \/ (x = r /\ delivery[r] = NoDelivery /\ entry = "live")
  <2>1. CASE entry = "live" /\ d = NoDelivery
    <3>1. down' = down \o <<Request("delete", r)>> /\ (r \in late \/ ~StopIn(down, r))
      BY <1>d, <1>e, <1>t, <2>1 DEF Sent, InTimeRun
    <3> QED
      BY <1>d, <1>t, <2>1, <3>1, StopAppended
  <2>2. CASE ~(entry = "live" /\ d = NoDelivery)
    BY <1>e, <1>t, <2>2 DEF Sent
  <2> QED
    BY <2>1, <2>2
<1>v. /\ delivery' \in [Runs -> Deliveries] /\ \A q \in Runs : q # r => delivery'[q] = delivery[q]
      /\ entry = "none" => delivery'[r] = delivery[r]
      /\ entry # "none" => delivery'[r].owner \in {"caller", delivery[r].owner} \ {"none"} /\ delivery'[r] # NoDelivery
      /\ \A t \in Tasks : t \in delivery'[r].joined <=> t \in delivery[r].joined
      /\ \A t \in Tasks : t = delivery'[r].owner <=> t = delivery[r].owner
  <2>1. CASE entry = "none"
    BY <1>t, <1>e, <2>1
  <2>2. CASE entry # "none" /\ d = NoDelivery
    <3>1. Begun("delete", "caller") \in Deliveries /\ Begun("delete", "caller").owner = "caller" /\ Begun("delete", "caller").joined = {}
      BY DEF Begun, Deliveries, Callers
    <3>2. delivery[r].owner = "none" /\ delivery[r].joined = {} /\ delivery[r] = NoDelivery
      BY <1>d, <2>2 DEF NoDelivery
    <3>3. delivery'[r] = Begun("delete", "caller") /\ delivery' \in [Runs -> Deliveries] /\ \A q \in Runs : q # r => delivery'[q] = delivery[q]
      BY <1>t, <1>e, <2>2, <3>1
    <3>4. delivery'[r] # NoDelivery
      BY <3>1, <3>3 DEF NoDelivery
    <3> QED
      BY <2>2, <3>1, <3>2, <3>3, <3>4, WorkstationAssumption
  <2>3. CASE entry # "none" /\ d # NoDelivery
    <3> DEFINE g == [d EXCEPT !.joined = @ \cup {"caller"}]
    <3>1. g \in Deliveries /\ g.owner = delivery[r].owner /\ g.joined = delivery[r].joined \cup {"caller"}
      BY <1>d DEF Deliveries, Callers
    <3>2. delivery' = [delivery EXCEPT ![r] = g]
      BY <1>e, <2>3
    <3> HIDE DEF g
    <3>3. delivery'[r] = g /\ delivery' \in [Runs -> Deliveries] /\ \A q \in Runs : q # r => delivery'[q] = delivery[q]
      BY <1>t, <3>1, <3>2
    <3>4. delivery[r].owner # "none" /\ g # NoDelivery
      BY <1>t, <1>d, <2>3, <3>1 DEF DeliveryOf, NoDelivery
    <3> QED
      BY <2>3, <3>1, <3>3, <3>4, WorkstationAssumption
  <2> QED
    BY <2>1, <2>2, <2>3
<1>p. pending'[r] = "delete" /\ \A q \in Runs : q # r => pending'[q] = pending[q]
  BY <1>1, <1>t DEF TypeOK
<1>2. TypeOK'
  BY <1>1, <1>t, <1>l, <1>v DEF TypeOK
<1>3. Quiet' /\ SignIn' /\ (stopping \subseteq needsStop)' /\ Orderly(down', late', failed')
  BY <1>1, <1>l DEF IInv, Quiet, SignIn, SignedInOverStream, Heard, Past
<1>4. ASSUME NEW q \in Runs PROVE DeliveryOf(q)' /\ DeletionOf(q)' /\ (Answer("refused", q) \in up => q \in failed)'
  <2>1. DeliveryOf(q)'
    <3>1. CASE q # r
      BY <1>1, <1>p, <1>v, <3>1 DEF IInv, DeliveryOf, Waiting
    <3>2. CASE q = r
      BY <1>1, <1>p, <1>t, <1>v, <3>2 DEF DeliveryOf, Waiting
    <3> QED
      BY <3>1, <3>2
  <2>2. DeletionOf(q)'
    BY <1>1, <1>p DEF IInv, DeletionOf
  <2> QED
    BY <1>1, <2>1, <2>2 DEF IInv
<1>5. ASSUME NEW u \in Tasks PROVE StartOf(u)' /\ ObservationOf(u)' /\ StopsOf(u)'
  BY <1>1, <1>l DEF IInv, StartOf, ObservationOf, StopsOf, Past, Over
<1>6. ASSUME NEW q \in Runs, q \notin late PROVE InTimeRun(q)'
  <2>1. CASE q # r
    BY <1>1, <1>6, <1>l, <1>p, <1>v, <2>1 DEF IInv, InTimeRun, Heard
  <2>2. CASE q = r
    <3>1. delivery'[r] = NoDelivery => delivery[r] = NoDelivery /\ entry = "none"
      BY <1>v
    <3> QED
      BY <1>1, <1>6, <1>t, <1>l, <1>p, <2>2, <3>1 DEF InTimeRun, Heard
  <2> QED
    BY <2>1, <2>2
<1>7. ASSUME NEW u \in Tasks
      PROVE  /\ RunOf[u] \notin late => InTimeTask(RunOf[u], u)'
             /\ RunOf[u] \notin late \cup failed => CarriedOut(RunOf[u], u)'
             /\ renewals = 0 /\ RunOf[u] \notin failed => NoticeOf(u)'
             /\ EarlierOf(u)'
  <2>0. RunOf[u] \in Runs /\ (Live(u)' <=> Live(u))
    BY <1>1, <1>l, WorkstationAssumption DEF Live
  <2>1. ASSUME RunOf[u] \notin late PROVE InTimeTask(RunOf[u], u)'
    <3>1. RunOf[u] = r => (Live(u) => u \in before)
      BY <1>1 DEF IInv, StartOf, Live, There
    <3> QED
      BY <1>1, <1>p, <2>0, <2>1, <3>1 DEF IInv, InTimeTask
  <2>2. RunOf[u] \notin late \cup failed => CarriedOut(RunOf[u], u)'
    BY <1>1, <1>l, <2>0 DEF IInv, CarriedOut, Heard
  <2>3. renewals = 0 /\ RunOf[u] \notin failed => NoticeOf(u)'
    BY <1>1 DEF IInv, NoticeOf, Over
  <2>4. EarlierOf(u)'
    BY <1>1, <1>l, <1>p, <2>0 DEF IInv, EarlierOf
  <2> QED
    BY <2>1, <2>2, <2>3, <2>4
<1> QED
  BY <1>1, <1>2, <1>3, <1>4, <1>5, <1>6, <1>7 DEF IInv

LEMMA StopRunStep ==
    ASSUME IInv, NEW r \in Runs, StopRun(r)
    PROVE  IInv'
<1> DEFINE T == TasksOf(r)
           kind == IF pending[r] = "none" THEN "stop" ELSE pending[r]
           d == Ghosted(delivery[r], T)
           rest == Unobserved(T)
<1>1. /\ r \in exists /\ stops < MaxStops /\ stops' = stops + 1
      /\ start' = [t \in Tasks |-> IF t \in T /\ start[t] \in {"held", "asked"} THEN "failed" ELSE start[t]]
      /\ watch' = [t \in Tasks |-> IF t \in T THEN "none" ELSE watch[t]]
      /\ waits' = [t \in Tasks |-> IF t \in T THEN "no" ELSE waits[t]]
      /\ up' = {a \in up : ~(a.of \in T /\ a.op \in {"ended", "lost"})}
      /\ pending' = [pending EXCEPT ![r] = kind]
      /\ before' = before \cup {t \in T : start[t] # "none"}
      /\ UNCHANGED <<full, exists, entry, retry, notices, link, announced, named, task, reported, stopping,
                     needsStop, reset, asking, late, failed, forgotten, cut, unheard, faults, renewals>>
  BY DEF StopRun, lineVars
<1>e. /\ entry = "none" => delivery' = delivery /\ down' = rest
      /\ entry # "none" /\ d = NoDelivery => /\ delivery' = [delivery EXCEPT ![r] = Begun(kind, "caller")]
                                             /\ down' = IF entry = "live" THEN Append(rest, Request(kind, r)) ELSE rest
      /\ entry # "none" /\ d # NoDelivery => delivery' = [delivery EXCEPT ![r] = [d EXCEPT !.joined = @ \cup {"caller"}]] /\ down' = rest
  BY DEF StopRun
<1>t. /\ TypeOK /\ down \in Seq(Requests) /\ Orderly(down, late, failed) /\ delivery \in [Runs -> Deliveries] /\ delivery[r] \in Deliveries
      /\ entry \in {"none", "live", "dead"} /\ DeliveryOf(r) /\ (r \notin late => InTimeRun(r)) /\ kind \in {"stop", "delete"}
  BY DEF IInv, TypeOK
<1>T. \A t \in Tasks : (t \in T <=> RunOf[t] = r) /\ RunOf[t] \in Runs
  BY WorkstationAssumption DEF TasksOf
<1>d. /\ d \in Deliveries /\ d.current = delivery[r].current /\ d.owner \notin Tasks /\ d.joined \cap Tasks = {}
      /\ d.owner = "none" <=> delivery[r].owner = "none"
      /\ d = NoDelivery <=> delivery[r] = NoDelivery
  <2>1. /\ d.kind = delivery[r].kind /\ d.current = delivery[r].current
        /\ d.owner = IF delivery[r].owner \in T THEN "catchup" ELSE delivery[r].owner
        /\ d.joined = IF delivery[r].joined \cap T = {} THEN delivery[r].joined ELSE (delivery[r].joined \ T) \cup {"catchup"}
        /\ d \in Deliveries
    BY <1>t DEF Deliveries, Ghosted, Callers
  <2> HIDE DEF d
  <2>2. \A t \in Tasks : t \in delivery[r].joined \cup {delivery[r].owner} => t \in T
    BY <1>t, <1>T DEF DeliveryOf
  <2>3. d.owner \notin Tasks /\ d.joined \cap Tasks = {} /\ (d.owner = "none" <=> delivery[r].owner = "none")
    BY <2>1, <2>2, WorkstationAssumption DEF TasksOf
  <2>4. d = NoDelivery => delivery[r] = NoDelivery
    BY <1>t, <2>3 DEF DeliveryOf, NoDelivery
  <2>5. ASSUME delivery[r] = NoDelivery PROVE d = NoDelivery
    <3>1. NoDelivery \in Deliveries /\ NoDelivery.owner = "none" /\ NoDelivery.joined = {}
      BY DEF NoDelivery, Deliveries, Callers
    <3>2. "none" \notin T
      BY WorkstationAssumption DEF TasksOf
    <3>3. d.owner = NoDelivery.owner /\ d.joined = NoDelivery.joined
      BY <2>1, <2>5, <3>1, <3>2
    <3> QED
      BY <2>1, <2>5, <3>1, <3>3, SameDelivery
  <2> QED
    BY <2>1, <2>3, <2>4, <2>5
<1>w. /\ rest \in Seq(Requests) /\ Orderly(rest, late, failed) /\ (down = <<>> => rest = <<>>)
      /\ \A x : /\ StartIn(rest, x) <=> StartIn(down, x)
                /\ WaitIn(rest, x) => WaitIn(down, x) /\ x \notin T
                /\ StopIn(rest, x) <=> StopIn(down, x)
  <2> DEFINE S == {m \in ToSet(down) : m.op = "wait" /\ m.of \in T}
  <2>1. rest = Unheard(S)
    BY DEF Unobserved
  <2>2. \A x \in T : \A m \in ToSet(down) : m.op = "wait" /\ m.of = x => m \in S
    OBVIOUS
  <2> HIDE DEF S
  <2>3. \A x : x \in T => ~WaitIn(Unheard(S), x)
    BY <1>t, <2>2, DueUnheard
  <2> QED
    BY <1>t, <2>1, <2>3, DueUnheard, InUnheard
<1> HIDE DEF T, d, rest, kind
<1>l. /\ down' \in Seq(Requests) /\ Orderly(down', late, failed) /\ (entry # "live" => down' = rest)
      /\ \A x : /\ StartIn(down', x) <=> StartIn(down, x)
                /\ WaitIn(down', x) => WaitIn(down, x) /\ x \notin T
                /\ StopIn(down', x) => StopIn(down, x) \/ (x = r /\ delivery[r] = NoDelivery /\ entry = "live")
  <2>1. CASE entry = "live" /\ d = NoDelivery
    <3>1. down' = Append(rest, Request(kind, r)) /\ (r \in late \/ ~StopIn(rest, r))
      BY <1>d, <1>e, <1>t, <1>w, <2>1 DEF InTimeRun
    <3>2. down' = rest \o <<Request(kind, r)>>
      BY <1>w, <1>t, <3>1, RequestIs
    <3>3. /\ down' \in Seq(Requests) /\ Orderly(down', late, failed)
          /\ \A x : /\ StartIn(down', x) <=> StartIn(rest, x)
                    /\ WaitIn(down', x) <=> WaitIn(rest, x)
                    /\ StopIn(down', x) <=> StopIn(rest, x) \/ x = r
      <4>1. rest \in Seq(Requests) /\ Orderly(rest, late, failed) /\ kind \in {"stop", "delete"} /\ (r \in late \/ ~StopIn(rest, r))
        BY <1>t, <1>w, <3>1
      <4> QED
        BY <4>1, <3>2, StopAppended
    <3>4. delivery[r] = NoDelivery
      BY <1>d, <2>1
    <3> QED
      BY <1>w, <2>1, <3>3, <3>4
  <2>2. CASE ~(entry = "live" /\ d = NoDelivery)
    <3>1. down' = rest
      BY <1>e, <1>t, <2>2
    <3> QED
      BY <1>w, <3>1
  <2> QED
    BY <2>1, <2>2
<1>v. /\ delivery' \in [Runs -> Deliveries] /\ \A q \in Runs : q # r => delivery'[q] = delivery[q]
      /\ entry = "none" => delivery'[r] = NoDelivery /\ delivery[r] = NoDelivery
      /\ entry # "none" => delivery'[r].owner # "none" /\ delivery'[r] # NoDelivery
      /\ delivery'[r].owner \notin Tasks /\ delivery'[r].joined \cap Tasks = {}
      /\ delivery'[r] # NoDelivery => delivery'[r].current \/ pending[r] = "delete"
  <2>1. CASE entry = "none"
    BY <1>t, <1>e, <2>1, WorkstationAssumption DEF DeliveryOf, NoDelivery
  <2>2. CASE entry # "none" /\ d = NoDelivery
    <3>1. Begun(kind, "caller") \in Deliveries /\ Begun(kind, "caller").owner = "caller"
          /\ Begun(kind, "caller").joined = {} /\ Begun(kind, "caller").current = TRUE
      BY <1>t DEF Begun, Deliveries, Callers
    <3>2. delivery'[r] = Begun(kind, "caller") /\ delivery' \in [Runs -> Deliveries] /\ \A q \in Runs : q # r => delivery'[q] = delivery[q]
      BY <1>t, <1>e, <2>2, <3>1
    <3>3. delivery'[r] # NoDelivery
      BY <3>1, <3>2 DEF NoDelivery
    <3> QED
      BY <2>2, <3>1, <3>2, <3>3, WorkstationAssumption
  <2>3. CASE entry # "none" /\ d # NoDelivery
    <3> DEFINE g == [d EXCEPT !.joined = @ \cup {"caller"}]
    <3>1. g \in Deliveries /\ g.owner = d.owner /\ g.current = d.current /\ g.joined = d.joined \cup {"caller"}
      BY <1>d DEF Deliveries, Callers
    <3>2. delivery' = [delivery EXCEPT ![r] = g]
      BY <1>e, <2>3
    <3> HIDE DEF g
    <3>3. delivery'[r] = g /\ delivery' \in [Runs -> Deliveries] /\ \A q \in Runs : q # r => delivery'[q] = delivery[q]
      BY <1>t, <3>1, <3>2
    <3>4. d.owner # "none" /\ g # NoDelivery
      BY <1>t, <1>d, <2>3, <3>1 DEF DeliveryOf, NoDelivery
    <3>5. d.current \/ pending[r] = "delete"
      BY <1>t, <1>d, <2>3 DEF DeliveryOf
    <3> QED
      BY <1>d, <2>3, <3>1, <3>3, <3>4, <3>5, WorkstationAssumption
  <2> QED
    BY <2>1, <2>2, <2>3
<1>p. pending'[r] = kind /\ kind \in {"stop", "delete"} /\ (pending[r] # "none" => kind = pending[r]) /\ (kind = "delete" => pending[r] = "delete")
      /\ \A q \in Runs : q # r => pending'[q] = pending[q]
  BY <1>1, <1>t DEF TypeOK, kind
<1>s. \A u \in Tasks :
        /\ u \in T => start'[u] \notin {"held", "asked"} /\ watch'[u] = "none" /\ waits'[u] = "no" /\ (start[u] # "none" => u \in before')
        /\ u \notin T => start'[u] = start[u] /\ watch'[u] = watch[u] /\ waits'[u] = waits[u] /\ (u \in before' => u \in before)
        /\ start'[u] = "none" <=> start[u] = "none"
        /\ start'[u] = "held" => start[u] = "held"
        /\ start[u] \in {"started", "failed"} => start'[u] = start[u]
        /\ u \in before => u \in before'
        /\ u \in before' => u \in before \/ (u \in T /\ start[u] # "none")
        /\ start'[u] \in {"none", "held", "asked", "started", "failed"}
  BY <1>1, <1>t DEF TypeOK
<1>a. \A u \in Tasks : /\ Answer("started", u) \in up' => Answer("started", u) \in up
                       /\ Answer("ended", u) \in up' <=> Answer("ended", u) \in up /\ u \notin T
                       /\ Answer("lost", u) \in up' <=> Answer("lost", u) \in up /\ u \notin T
  BY <1>1 DEF Answer
<1>b. \A q \in Runs : /\ Answer("stopped", q) \in up' <=> Answer("stopped", q) \in up
                      /\ Answer("refused", q) \in up' <=> Answer("refused", q) \in up
  BY <1>1 DEF Answer
<1>2. TypeOK'
  <2>1. stops' \in 0..MaxStops
    BY <1>1, <1>t, WorkstationAssumption DEF TypeOK
  <2>2. before' \subseteq Tasks
    BY <1>1, <1>t DEF TypeOK, T, TasksOf
  <2>3. pending' \in [Runs -> {"none", "stop", "delete"}]
    BY <1>1, <1>t DEF TypeOK
  <2>4. start' \in [Tasks -> {"none", "held", "asked", "started", "failed"}] /\ watch' \in [Tasks -> {"none", "held", "asked", "paused"}]
        /\ waits' \in [Tasks -> {"no", "held", "on"}] /\ up' \subseteq Answers
    BY <1>1, <1>t DEF TypeOK
  <2> QED
    BY <1>1, <1>t, <1>l, <1>v, <2>1, <2>2, <2>3, <2>4 DEF TypeOK
<1>3. Quiet' /\ SignIn' /\ (stopping \subseteq needsStop)' /\ Orderly(down', late', failed')
  <2>1. Quiet'
    <3>1. entry # "live" => down' = <<>> /\ up' = {}
      BY <1>1, <1>w, <1>l DEF IInv, Quiet
    <3> QED
      BY <1>1, <3>1 DEF IInv, Quiet, Heard
  <2> QED
    BY <1>1, <1>l, <2>1 DEF IInv, SignIn, SignedInOverStream, Past
<1>4. ASSUME NEW q \in Runs PROVE DeliveryOf(q)' /\ DeletionOf(q)' /\ (Answer("refused", q) \in up => q \in failed)'
  <2>1. DeliveryOf(q)'
    <3>1. CASE q # r
      <4>1. \A u \in Tasks : RunOf[u] = q => (Waiting(u)' <=> Waiting(u))
        BY <1>s, <1>T, <3>1 DEF Waiting
      <4> QED
        BY <1>1, <1>p, <1>v, <3>1, <4>1 DEF IInv, DeliveryOf
    <3>2. CASE q = r
      <4>1. \A u \in Tasks : RunOf[u] = r => ~Waiting(u)'
        BY <1>s, <1>T DEF Waiting
      <4>2. \A u \in Tasks : u \notin delivery'[r].joined \cup {delivery'[r].owner}
        BY <1>v
      <4>3. delivery'[r].owner = "none" <=> delivery'[r] = NoDelivery
        BY <1>v DEF NoDelivery
      <4>4. delivery'[r] # NoDelivery => pending'[r] # "none" /\ entry' # "none" /\ (delivery'[r].current \/ pending'[r] = "delete")
        BY <1>1, <1>p, <1>v
      <4> QED
        BY <1>v, <3>2, <4>1, <4>2, <4>3, <4>4 DEF DeliveryOf
    <3> QED
      BY <3>1, <3>2
  <2>2. DeletionOf(q)'
    BY <1>1, <1>p, <1>s DEF IInv, DeletionOf
  <2> QED
    BY <1>1, <1>b, <2>1, <2>2 DEF IInv
<1>5. ASSUME NEW u \in Tasks PROVE StartOf(u)' /\ ObservationOf(u)' /\ StopsOf(u)'
  <2>0. (Past(u)' <=> Past(u)) /\ (Over(u)' <=> Over(u))
    BY <1>1 DEF Past, Over
  <2>1. StartOf(u)'
    <3>1. CASE u \in T
      BY <1>1, <1>a, <1>l, <1>s, <2>0, <3>1 DEF IInv, StartOf
    <3>2. CASE u \notin T
      BY <1>1, <1>a, <1>l, <1>s, <2>0, <3>2 DEF IInv, StartOf
    <3> QED
      BY <3>1, <3>2
  <2>2. ObservationOf(u)'
    BY <1>1, <1>a, <1>l, <1>s, <2>0 DEF IInv, ObservationOf
  <2>3. StopsOf(u)'
    BY <1>1 DEF IInv, StopsOf
  <2> QED
    BY <2>1, <2>2, <2>3
<1>6. ASSUME NEW q \in Runs, q \notin late PROVE InTimeRun(q)'
  <2>1. CASE q # r
    BY <1>1, <1>6, <1>b, <1>l, <1>p, <1>v, <2>1 DEF IInv, InTimeRun, Heard
  <2>2. CASE q = r
    <3>1. delivery'[r] = NoDelivery => delivery[r] = NoDelivery /\ entry = "none"
      BY <1>v
    <3> QED
      BY <1>1, <1>6, <1>t, <1>b, <1>l, <1>v, <2>2, <3>1 DEF InTimeRun, Heard
  <2> QED
    BY <2>1, <2>2
<1>7. ASSUME NEW u \in Tasks
      PROVE  /\ RunOf[u] \notin late => InTimeTask(RunOf[u], u)'
             /\ RunOf[u] \notin late \cup failed => CarriedOut(RunOf[u], u)'
             /\ renewals = 0 /\ RunOf[u] \notin failed => NoticeOf(u)'
             /\ EarlierOf(u)'
  <2>0. RunOf[u] \in Runs /\ (Live(u)' <=> Live(u)) /\ (u \in T <=> RunOf[u] = r)
    BY <1>1, <1>l, <1>T DEF Live
  <2>1. ASSUME RunOf[u] \notin late PROVE InTimeTask(RunOf[u], u)'
    <3>1. RunOf[u] = r => (Live(u) => u \in before')
      BY <1>s, <2>0 DEF IInv, StartOf, Live, There
    <3> QED
      BY <1>1, <1>p, <1>s, <2>0, <2>1, <3>1 DEF IInv, InTimeTask
  <2>2. RunOf[u] \notin late \cup failed => CarriedOut(RunOf[u], u)'
    BY <1>1, <1>b, <1>l, <2>0 DEF IInv, CarriedOut, Heard
  <2>3. renewals = 0 /\ RunOf[u] \notin failed => NoticeOf(u)'
    BY <1>1, <1>s DEF IInv, NoticeOf, Over
  <2>4. EarlierOf(u)'
    BY <1>1, <1>l, <1>p, <1>s, <2>0 DEF IInv, EarlierOf
  <2> QED
    BY <2>1, <2>2, <2>3, <2>4
<1> QED
  BY <1>1, <1>2, <1>3, <1>4, <1>5, <1>6, <1>7 DEF IInv

-----------------------------------------------------------------------------
(* The end of a delivery *)

\* Calls that go out together, and stops of several runs.
CallsOf(Q, op) == {Request(op[t], t) : t \in Q}
StopsTo(R, kind) == {Request(kind[r], r) : r \in R}

LEMMA CallsAppended ==
    ASSUME NEW s \in Seq(Requests), NEW L, NEW F, Orderly(s, L, F),
           NEW Q \in SUBSET Tasks, NEW op \in [Q -> {"start", "wait"}],
           \A t \in Q : op[t] = "start" => ~StartIn(s, t) /\ (RunOf[t] \notin L \cup F => ~StopIn(s, RunOf[t])),
           \A t \in Q : op[t] = "wait" => ~WaitIn(s, t)
    PROVE  LET u == s \o SetToSeq(CallsOf(Q, op))
           IN  /\ u \in Seq(Requests) /\ Orderly(u, L, F)
               /\ \A x : /\ StartIn(u, x) <=> StartIn(s, x) \/ (x \in Q /\ op[x] = "start")
                         /\ WaitIn(u, x) <=> WaitIn(s, x) \/ (x \in Q /\ op[x] = "wait")
                         /\ StopIn(u, x) <=> StopIn(s, x)
<1> DEFINE S == CallsOf(Q, op)
           v == SetToSeq(S)
<1>1. S \in SUBSET Requests /\ IsFiniteSet(S)
  <2> DEFINE f == [t \in Q |-> Request(op[t], t)]
  <2>1. f \in [Q -> Requests] /\ S = {f[t] : t \in Q}
    BY RequestIs DEF CallsOf
  <2>2. IsFiniteSet(Q)
    BY WorkstationAssumption, FS_Subset
  <2> HIDE DEF f
  <2> QED
    BY <2>1, <2>2, FiniteImage
<1>2. \A m \in S : m.of \in Q /\ m.op = op[m.of] /\ m.op \in {"start", "wait"} /\ m.heard = TRUE
  BY RequestIs DEF CallsOf
<1>3. \A t \in Q : Request(op[t], t) \in S /\ Request(op[t], t).op = op[t] /\ Request(op[t], t).of = t /\ Request(op[t], t).heard
  BY RequestIs DEF CallsOf
<1>4. \A x, y \in S : x # y => x.of # y.of
  BY RequestIs DEF CallsOf
<1> HIDE DEF S
<1>5. \A x, y \in S : x # y => ~Clash(x, y, L, F)
  BY <1>2, <1>4 DEF Clash, IsStop
<1>6. v \in Seq(Requests) /\ ToSet(v) = S /\ Orderly(v, L, F)
  BY <1>1, <1>5, InListed
<1> HIDE DEF v
<1>7. \A x : /\ StartIn(v, x) <=> x \in Q /\ op[x] = "start"
             /\ WaitIn(v, x) <=> x \in Q /\ op[x] = "wait"
             /\ ~StopIn(v, x)
  <2>1. \A x : ~StopIn(v, x)
    BY <1>2, <1>6 DEF StopIn, IsStop
  <2>2. ASSUME NEW x PROVE StartIn(v, x) <=> x \in Q /\ op[x] = "start"
    BY <1>2, <1>3, <1>6 DEF StartIn
  <2>3. ASSUME NEW x PROVE WaitIn(v, x) <=> x \in Q /\ op[x] = "wait"
    BY <1>2, <1>3, <1>6 DEF WaitIn
  <2> QED
    BY <2>1, <2>2, <2>3
<1>8. ASSUME NEW x \in ToSet(s), NEW y \in ToSet(v) PROVE ~Clash(x, y, L, F)
  <2>1. y.of \in Q /\ y.op = op[y.of] /\ y.op \in {"start", "wait"}
    BY <1>2, <1>6
  <2>2. ~(x.op = "start" /\ y.op = "start" /\ x.of = y.of)
    BY <2>1 DEF StartIn
  <2>3. ~(x.op = "wait" /\ y.op = "wait" /\ x.of = y.of /\ x.heard /\ y.heard)
    BY <2>1 DEF WaitIn
  <2>4. ~(IsStop(x) /\ y.op = "start" /\ x.of = RunOf[y.of] /\ x.of \notin L \cup F)
    BY <2>1 DEF StopIn
  <2> QED
    BY <2>1, <2>2, <2>3, <2>4 DEF Clash, IsStop
<1>9. s \o v \in Seq(Requests) /\ Orderly(s \o v, L, F)
  BY <1>6, <1>8, InJoined, OrderlyJoined
<1>10. \A x : /\ StartIn(s \o v, x) <=> StartIn(s, x) \/ (x \in Q /\ op[x] = "start")
              /\ WaitIn(s \o v, x) <=> WaitIn(s, x) \/ (x \in Q /\ op[x] = "wait")
              /\ StopIn(s \o v, x) <=> StopIn(s, x)
  BY <1>6, <1>7, DueInJoined
<1> QED
  BY <1>9, <1>10 DEF v, S

LEMMA StopsAppended ==
    ASSUME NEW s \in Seq(Requests), NEW L, NEW F, Orderly(s, L, F),
           NEW R \in SUBSET Runs, NEW kind \in [Runs -> {"none", "stop", "delete"}],
           \A r \in R : kind[r] # "none" /\ (r \in L \/ ~StopIn(s, r))
    PROVE  LET u == s \o SetToSeq(StopsTo(R, kind))
           IN  /\ u \in Seq(Requests) /\ Orderly(u, L, F)
               /\ \A x : /\ StartIn(u, x) <=> StartIn(s, x)
                         /\ WaitIn(u, x) <=> WaitIn(s, x)
                         /\ StopIn(u, x) <=> StopIn(s, x) \/ x \in R
<1> DEFINE S == StopsTo(R, kind)
           v == SetToSeq(S)
<1>1. S \in SUBSET Requests /\ IsFiniteSet(S)
  <2> DEFINE f == [r \in R |-> Request(kind[r], r)]
  <2>1. f \in [R -> Requests] /\ S = {f[r] : r \in R}
    BY RequestIs DEF StopsTo
  <2>2. IsFiniteSet(R)
    BY WorkstationAssumption, FS_Subset
  <2> HIDE DEF f
  <2> QED
    BY <2>1, <2>2, FiniteImage
<1>2. \A m \in S : m.of \in R /\ m.op \in {"stop", "delete"}
  BY RequestIs DEF StopsTo
<1>3. \A r \in R : Request(kind[r], r) \in S /\ Request(kind[r], r).op \in {"stop", "delete"} /\ Request(kind[r], r).of = r
  BY RequestIs DEF StopsTo
<1>4. \A x, y \in S : x # y => x.of # y.of
  BY RequestIs DEF StopsTo
<1> HIDE DEF S
<1>5. \A x, y \in S : x # y => ~Clash(x, y, L, F)
  BY <1>2, <1>4 DEF Clash, IsStop
<1>6. v \in Seq(Requests) /\ ToSet(v) = S /\ Orderly(v, L, F)
  BY <1>1, <1>5, InListed
<1> HIDE DEF v
<1>7. \A x : ~StartIn(v, x) /\ ~WaitIn(v, x) /\ (StopIn(v, x) <=> x \in R)
  <2>1. \A x : ~StartIn(v, x) /\ ~WaitIn(v, x)
    BY <1>2, <1>6 DEF StartIn, WaitIn
  <2>2. ASSUME NEW x PROVE StopIn(v, x) <=> x \in R
    BY <1>2, <1>3, <1>6 DEF StopIn, IsStop
  <2> QED
    BY <2>1, <2>2
<1>8. ASSUME NEW x \in ToSet(s), NEW y \in ToSet(v) PROVE ~Clash(x, y, L, F)
  <2>1. y.of \in R /\ y.op \in {"stop", "delete"}
    BY <1>2, <1>6
  <2>2. ~(IsStop(x) /\ x.of = y.of /\ x.of \notin L)
    BY <2>1 DEF StopIn
  <2> QED
    BY <2>1, <2>2 DEF Clash
<1>9. s \o v \in Seq(Requests) /\ Orderly(s \o v, L, F)
  BY <1>6, <1>8, InJoined, OrderlyJoined
<1>10. \A x : /\ StartIn(s \o v, x) <=> StartIn(s, x)
              /\ WaitIn(s \o v, x) <=> WaitIn(s, x)
              /\ StopIn(s \o v, x) <=> StopIn(s, x) \/ x \in R
  BY <1>6, <1>7, DueInJoined
<1> QED
  BY <1>9, <1>10 DEF v, S

\* What the end of a delivery of the stop of r leaves, if queue was under way then; L are the runs with a delivery
\* that exceeded its time limit, this one included.
Settled(r, result, queue, L) ==
    /\ retry' \in BOOLEAN /\ pending' \in [Runs -> {"none", "stop", "delete"}] /\ delivery' \in [Runs -> Deliveries]
    /\ start' \in [Tasks -> {"none", "held", "asked", "started", "failed"}]
    /\ watch' \in [Tasks -> {"none", "held", "asked", "paused"}] /\ notices' \in [Tasks -> Nat]
    /\ down' \in Seq(Requests) /\ Orderly(down', L, failed) /\ (entry # "live" => down' = <<>>)
    /\ \A q \in Runs : DeliveryOf(q)' /\ (q # r => pending'[q] = pending[q] /\ delivery'[q] = delivery[q])
    /\ pending'[r] \in {"none", pending[r]}
    /\ r \notin L => /\ result # "unreached"
                     /\ delivery'[r] # NoDelivery => pending'[r] = "delete"
                     /\ pending'[r] # "none" => pending'[r] = "delete"
    /\ \A t \in Tasks :
        /\ StartIn(down', t) => StartIn(down, t) \/ (start[t] = "held" /\ start'[t] = "asked" /\ RunOf[t] = r /\ (r \in L \/ pending'[r] = "none"))
        /\ WaitIn(down', t) => WaitIn(down, t) \/ (watch[t] = "held" /\ watch'[t] = "asked")
        /\ start'[t] = start[t] \/ (start[t] = "held" /\ start'[t] \in {"asked", "failed"})
        /\ watch'[t] = watch[t] \/ (watch[t] = "held" /\ watch'[t] \in {"asked", "none"})
        /\ notices'[t] = notices[t] \/ (result = "refused" /\ RunOf[t] = r)
    /\ \A q \in Runs : StopIn(down', q) => StopIn(queue, q) \/ (q = r /\ delivery'[r] # NoDelivery)

LEMMA SettleMakes ==
    ASSUME IInv, NEW r \in Runs, delivery[r] # NoDelivery, NEW result \in {"done", "refused", "unreached"},
           NEW queue \in Seq(Requests), NEW L, Orderly(queue, L, failed), late \subseteq L,
           \A x : /\ StartIn(queue, x) => StartIn(down, x)
                  /\ WaitIn(queue, x) => WaitIn(down, x),
           entry # "live" => queue = <<>>, r \in L \/ ~StopIn(queue, r), result = "unreached" => r \in L,
           entry' = entry, Settle(r, result, queue)
    PROVE  Settled(r, result, queue, L)
<1> DEFINE d == delivery[r]
           left == Left(r, result)
           again == result # "refused" /\ left # "none" /\ d.joined # {}
           resumed == Resumed(r, result, again)
           fails == FailedWith(r, result)
           calls == SetToSeq({RequestOf(t) : t \in resumed})
<1>1. /\ pending' = [pending EXCEPT ![r] = left] /\ retry' = RetryAfter(result)
      /\ start' = [t \in Tasks |-> IF start[t] = "held" /\ t \in resumed THEN "asked"
                                   ELSE IF start[t] = "held" /\ t \in fails THEN "failed" ELSE start[t]]
      /\ watch' = [t \in Tasks |-> IF watch[t] = "held" /\ t \in resumed THEN "asked"
                                   ELSE IF watch[t] = "held" /\ t \in fails THEN "none" ELSE watch[t]]
      /\ notices' = [t \in Tasks |-> IF watch[t] = "held" /\ t \in fails /\ r \in exists THEN notices[t] + 1 ELSE notices[t]]
  BY DEF Settle
<1>2. /\ again => \E next \in d.joined : delivery' = [delivery EXCEPT ![r] = [Begun(left, next) EXCEPT !.joined = d.joined \ {next}]]
      /\ ~again => delivery' = [delivery EXCEPT ![r] = NoDelivery]
      /\ down' = IF entry # "live" THEN queue ELSE queue \o calls \o (IF again THEN <<Request(left, r)>> ELSE <<>>)
  BY DEF Settle
<1>t. /\ TypeOK /\ delivery \in [Runs -> Deliveries] /\ d \in Deliveries /\ pending[r] \in {"stop", "delete"} /\ entry # "none"
      /\ entry \in {"none", "live", "dead"} /\ d.joined \subseteq Callers /\ DeliveryOf(r) /\ DeletionOf(r) /\ d.owner # "none"
      /\ r \notin late => InTimeRun(r)
  BY DEF IInv, TypeOK, DeliveryOf, Deliveries
<1>k. /\ left \in {"none", pending[r]} /\ (left = "none" <=> result # "unreached" /\ d.current)
      /\ left # "none" /\ result # "unreached" => pending[r] = "delete"
  BY <1>t DEF Left, DeliveryOf
<1>r. /\ \A t \in resumed \cup fails : t \in Tasks /\ RunOf[t] = r /\ Waiting(t)
      /\ resumed \subseteq Tasks
      /\ result = "refused" => resumed = {}
      /\ result # "refused" => fails = {}
      /\ again => \A t \in Tasks : t \in resumed <=> t = d.owner
      /\ ~again => \A t \in Tasks : RunOf[t] = r /\ Waiting(t) => t \in resumed \cup fails
  BY <1>t DEF Resumed, FailedWith, DeliveryOf
<1>g. again => left \in {"stop", "delete"} /\ result # "refused"
  BY <1>t, <1>k
<1> DEFINE op == [t \in resumed |-> IF start[t] = "held" THEN "start" ELSE "wait"]
<1>c. calls = SetToSeq(CallsOf(resumed, op))
  BY DEF RequestOf, CallsOf
<1> HIDE DEF left, again, resumed, fails, calls
<1>o. op \in [resumed -> {"start", "wait"}] /\ \A t \in resumed : (op[t] = "start" <=> start[t] = "held") /\ (op[t] = "wait" <=> start[t] # "held")
  OBVIOUS
<1> HIDE DEF op
<1>s. ASSUME NEW t \in resumed, start[t] = "held" PROVE r \in L \/ left = "none"
  <2>1. t \in Tasks /\ RunOf[t] = r
    BY <1>r
  <2>2. t \notin before
    BY <1>s, <2>1 DEF IInv, StartOf
  <2>3. r \in exists
    BY <1>s, <1>t, <2>1, <2>2 DEF DeletionOf
  <2> QED
    BY <1>k, <1>t, <2>3 DEF DeletionOf
<1>l. /\ down' \in Seq(Requests) /\ Orderly(down', L, failed)
      /\ \A x : /\ StartIn(down', x) => StartIn(down, x) \/ (x \in resumed /\ op[x] = "start")
                /\ WaitIn(down', x) => WaitIn(down, x) \/ (x \in resumed /\ op[x] = "wait")
                /\ StopIn(down', x) => StopIn(queue, x) \/ (x = r /\ again)
  <2>1. CASE entry # "live"
    BY <1>2, <2>1
  <2>2. CASE entry = "live"
    <3> DEFINE s == queue \o calls
    <3>s. s = queue \o SetToSeq(CallsOf(resumed, op))
      BY <1>c
    <3> HIDE DEF s
    <3>1. \A t \in resumed : op[t] = "start" => ~StartIn(queue, t) /\ (RunOf[t] \notin L \cup failed => ~StopIn(queue, RunOf[t]))
      BY <1>r, <1>o DEF IInv, StartOf
    <3>2. \A t \in resumed : op[t] = "wait" => ~WaitIn(queue, t)
      BY <1>r, <1>o DEF IInv, ObservationOf, Waiting
    <3>3. /\ s \in Seq(Requests) /\ Orderly(s, L, failed)
          /\ \A x : /\ StartIn(s, x) <=> StartIn(queue, x) \/ (x \in resumed /\ op[x] = "start")
                    /\ WaitIn(s, x) <=> WaitIn(queue, x) \/ (x \in resumed /\ op[x] = "wait")
                    /\ StopIn(s, x) <=> StopIn(queue, x)
      <4>1. /\ resumed \in SUBSET Tasks /\ op \in [resumed -> {"start", "wait"}] /\ queue \in Seq(Requests)
            /\ Orderly(queue, L, failed)
            /\ \A t \in resumed : op[t] = "start" => ~StartIn(queue, t) /\ (RunOf[t] \notin L \cup failed => ~StopIn(queue, RunOf[t]))
            /\ \A t \in resumed : op[t] = "wait" => ~WaitIn(queue, t)
        BY <1>r, <1>o, <3>1, <3>2
      <4>2. LET u == queue \o SetToSeq(CallsOf(resumed, op))
            IN  /\ u \in Seq(Requests) /\ Orderly(u, L, failed)
                /\ \A x : /\ StartIn(u, x) <=> StartIn(queue, x) \/ (x \in resumed /\ op[x] = "start")
                          /\ WaitIn(u, x) <=> WaitIn(queue, x) \/ (x \in resumed /\ op[x] = "wait")
                          /\ StopIn(u, x) <=> StopIn(queue, x)
        BY <4>1, CallsAppended
      <4> QED
        BY <3>s, <4>2
    <3>4. down' = s \o (IF again THEN <<Request(left, r)>> ELSE <<>>)
      BY <1>2, <2>2 DEF s
    <3>5. CASE again
      <4>1. left \in {"stop", "delete"} /\ (r \in L \/ ~StopIn(s, r)) /\ down' = s \o <<Request(left, r)>>
        BY <1>g, <3>3, <3>4, <3>5
      <4>2. s \in Seq(Requests) /\ Orderly(s, L, failed)
        BY <3>3
      <4>3. /\ down' \in Seq(Requests) /\ Orderly(down', L, failed)
            /\ \A x : /\ StartIn(down', x) <=> StartIn(s, x)
                      /\ WaitIn(down', x) <=> WaitIn(s, x)
                      /\ StopIn(down', x) <=> StopIn(s, x) \/ x = r
        BY <4>1, <4>2, StopAppended
      <4> QED
        BY <3>3, <3>5, <4>3
    <3>6. CASE ~again
      <4>1. down' = s
        BY <3>3, <3>4, <3>6
      <4> QED
        BY <3>3, <4>1
    <3> QED
      BY <3>5, <3>6
  <2> QED
    BY <2>1, <2>2
<1>p. pending'[r] = left /\ pending' \in [Runs -> {"none", "stop", "delete"}] /\ \A q \in Runs : q # r => pending'[q] = pending[q]
  BY <1>1, <1>t, <1>k DEF TypeOK
<1>v. /\ delivery' \in [Runs -> Deliveries] /\ \A q \in Runs : q # r => delivery'[q] = delivery[q]
      /\ again => /\ delivery'[r] # NoDelivery /\ delivery'[r].current = TRUE
                  /\ delivery'[r].owner \notin delivery'[r].joined /\ delivery'[r].owner # "none"
                  /\ delivery'[r].joined \cup {delivery'[r].owner} = d.joined
      /\ ~again => delivery'[r] = NoDelivery
  <2>1. CASE again
    <3>1. PICK next \in d.joined : delivery' = [delivery EXCEPT ![r] = [Begun(left, next) EXCEPT !.joined = d.joined \ {next}]]
      BY <1>2, <2>1
    <3> DEFINE g == [Begun(left, next) EXCEPT !.joined = d.joined \ {next}]
    <3>2. g \in Deliveries /\ g.owner = next /\ g.current = TRUE /\ g.joined = d.joined \ {next}
      BY <1>t, <1>g, <2>1 DEF Begun, Deliveries
    <3> HIDE DEF g
    <3>3. next # "none"
      BY <1>t, WorkstationAssumption DEF Callers
    <3>4. delivery'[r] = g /\ delivery' \in [Runs -> Deliveries] /\ \A q \in Runs : q # r => delivery'[q] = delivery[q]
      BY <1>t, <3>1, <3>2 DEF g
    <3>5. g # NoDelivery
      BY <3>2, <3>3 DEF NoDelivery
    <3>6. delivery'[r].joined \cup {delivery'[r].owner} = d.joined
      BY <3>2, <3>4
    <3> QED
      BY <2>1, <3>2, <3>3, <3>4, <3>5, <3>6
  <2>2. CASE ~again
    <3>1. NoDelivery \in Deliveries
      BY DEF NoDelivery, Deliveries, Callers
    <3> QED
      BY <1>t, <1>2, <2>2, <3>1
  <2> QED
    BY <2>1, <2>2
<1>3. ASSUME NEW t \in Tasks
      PROVE  /\ start'[t] = start[t] \/ (start[t] = "held" /\ start'[t] \in {"asked", "failed"})
             /\ watch'[t] = watch[t] \/ (watch[t] = "held" /\ watch'[t] \in {"asked", "none"})
             /\ t \in resumed /\ start[t] = "held" => start'[t] = "asked"
             /\ t \in resumed /\ watch[t] = "held" => watch'[t] = "asked"
             /\ Waiting(t)' <=> Waiting(t) /\ t \notin resumed \cup fails
             /\ notices'[t] = notices[t] \/ t \in fails
  BY <1>1 DEF Waiting
<1>4. ASSUME NEW q \in Runs PROVE DeliveryOf(q)'
  <2>1. CASE q # r
    <3>1. \A t \in Tasks : RunOf[t] = q => (Waiting(t)' <=> Waiting(t))
      BY <1>3, <1>r, <2>1
    <3>2. DeliveryOf(q)
      BY DEF IInv
    <3> QED
      BY <1>p, <1>v, <2>1, <3>1, <3>2 DEF DeliveryOf
  <2>2. CASE q = r /\ again
    <3>1. \A t \in Tasks : t \in delivery'[r].joined \cup {delivery'[r].owner} <=> RunOf[t] = r /\ Waiting(t)'
      <4>1. fails = {} /\ \A t \in Tasks : t \in resumed <=> t = d.owner
        BY <1>r, <1>g, <2>2
      <4>2. ASSUME NEW t \in Tasks PROVE t \in d.joined <=> RunOf[t] = r /\ Waiting(t) /\ t # d.owner
        BY <1>t DEF DeliveryOf
      <4> QED
        BY <1>3, <1>v, <2>2, <4>1, <4>2
    <3> QED
      BY <1>p, <1>t, <1>g, <1>v, <2>2, <3>1 DEF DeliveryOf
  <2>3. CASE q = r /\ ~again
    <3>1. delivery'[r] = NoDelivery /\ NoDelivery.owner = "none" /\ NoDelivery.joined = {}
      BY <1>v, <2>3 DEF NoDelivery
    <3>2. \A t \in Tasks : RunOf[t] = r => ~Waiting(t)'
      BY <1>r, <1>3, <2>3
    <3> QED
      BY <2>3, <3>1, <3>2, WorkstationAssumption DEF DeliveryOf
  <2> QED
    BY <2>1, <2>2, <2>3
<1>5. /\ retry' \in BOOLEAN /\ notices' \in [Tasks -> Nat]
      /\ start' \in [Tasks -> {"none", "held", "asked", "started", "failed"}]
      /\ watch' \in [Tasks -> {"none", "held", "asked", "paused"}]
  <2>1. notices' \in [Tasks -> Nat]
    BY <1>1, <1>t DEF TypeOK
  <2>2. retry' \in BOOLEAN
    BY <1>1, <1>t DEF TypeOK, RetryAfter
  <2>3. start' \in [Tasks -> {"none", "held", "asked", "started", "failed"}]
    BY <1>1, <1>t DEF TypeOK
  <2>4. watch' \in [Tasks -> {"none", "held", "asked", "paused"}]
    BY <1>1, <1>t DEF TypeOK
  <2> QED
    BY <2>1, <2>2, <2>3, <2>4
<1>6. ASSUME NEW t \in Tasks
      PROVE  /\ StartIn(down', t) => StartIn(down, t) \/ (start[t] = "held" /\ start'[t] = "asked" /\ RunOf[t] = r /\ (r \in L \/ pending'[r] = "none"))
             /\ WaitIn(down', t) => WaitIn(down, t) \/ (watch[t] = "held" /\ watch'[t] = "asked")
             /\ notices'[t] = notices[t] \/ (result = "refused" /\ RunOf[t] = r)
  <2>1. StartIn(down', t) => StartIn(down, t) \/ (start[t] = "held" /\ start'[t] = "asked" /\ RunOf[t] = r /\ (r \in L \/ pending'[r] = "none"))
    BY <1>l, <1>o, <1>s, <1>r, <1>3, <1>p
  <2>2. WaitIn(down', t) => WaitIn(down, t) \/ (watch[t] = "held" /\ watch'[t] = "asked")
    BY <1>l, <1>o, <1>r, <1>3 DEF Waiting
  <2>3. notices'[t] = notices[t] \/ (result = "refused" /\ RunOf[t] = r)
    BY <1>3, <1>r
  <2> QED
    BY <2>1, <2>2, <2>3
<1>7. r \notin L => /\ result # "unreached"
                    /\ delivery'[r] # NoDelivery => pending'[r] = "delete"
                    /\ pending'[r] # "none" => pending'[r] = "delete"
  BY <1>k, <1>p, <1>v, <1>g
<1>8. entry # "live" => down' = <<>>
  BY <1>2
<1>9. \A q \in Runs : StopIn(down', q) => StopIn(queue, q) \/ (q = r /\ delivery'[r] # NoDelivery)
  BY <1>l, <1>v
<1>10. pending'[r] \in {"none", pending[r]}
  BY <1>p, <1>k
<1> QED
  BY <1>p, <1>v, <1>l, <1>3, <1>4, <1>5, <1>6, <1>7, <1>8, <1>9, <1>10 DEF Settled

\* An answer to a delivery that is over leaves everything as it is.
LEMMA SettleNothing ==
    ASSUME IInv, NEW r \in late, delivery[r] = NoDelivery, NEW result \in {"done", "refused"}, entry' = entry,
           Settle(r, result, down)
    PROVE  Settled(r, result, down, late)
<1> DEFINE again == FALSE
           calls == SetToSeq({RequestOf(t) : t \in {}})
<1>t. /\ TypeOK /\ r \in Runs /\ delivery[r].current = FALSE /\ delivery[r].owner = "none" /\ delivery[r].joined = {}
      /\ down \in Seq(Requests) /\ Orderly(down, late, failed) /\ (entry # "live" => down = <<>>)
  BY DEF IInv, TypeOK, NoDelivery, Quiet
<1>1. Left(r, result) = pending[r] /\ ("none" \notin Tasks)
  BY <1>t, WorkstationAssumption DEF Left
<1>2. Resumed(r, result, FALSE) = {} /\ FailedWith(r, result) = {}
  BY <1>t, <1>1 DEF Resumed, FailedWith
<1>3. /\ pending' = [pending EXCEPT ![r] = pending[r]] /\ retry' = RetryAfter(result)
      /\ delivery' = [delivery EXCEPT ![r] = NoDelivery]
      /\ start' = [t \in Tasks |-> start[t]] /\ watch' = [t \in Tasks |-> watch[t]]
      /\ notices' = [t \in Tasks |-> notices[t]]
      /\ down' = IF entry # "live" THEN down ELSE down \o calls \o <<>>
  BY <1>t, <1>1, <1>2 DEF Settle
<1>4. /\ UNCHANGED <<pending, delivery, start, watch, notices>> /\ retry' \in BOOLEAN
  BY <1>t, <1>3 DEF TypeOK, RetryAfter
<1>5. /\ down' \in Seq(Requests) /\ Orderly(down', late, failed) /\ (entry # "live" => down' = <<>>)
      /\ \A x : /\ StartIn(down', x) <=> StartIn(down, x)
                /\ WaitIn(down', x) <=> WaitIn(down, x)
                /\ StopIn(down', x) <=> StopIn(down, x)
  <2>1. CASE entry = "live"
    <3> DEFINE op == [t \in {} |-> "wait"]
               s == down \o calls
    <3>1. op \in [{} -> {"start", "wait"}] /\ {} \in SUBSET Tasks
      OBVIOUS
    <3>2. s = down \o SetToSeq(CallsOf({}, op))
      BY DEF CallsOf
    <3> HIDE DEF op, s
    <3>3. /\ s \in Seq(Requests) /\ Orderly(s, late, failed)
          /\ \A x : /\ StartIn(s, x) <=> StartIn(down, x)
                    /\ WaitIn(s, x) <=> WaitIn(down, x)
                    /\ StopIn(s, x) <=> StopIn(down, x)
      BY <1>t, <3>1, <3>2, CallsAppended
    <3>4. down' = s \o <<>>
      BY <1>3, <2>1 DEF s
    <3>5. down' = s
      BY <3>3, <3>4
    <3> QED
      BY <2>1, <3>3, <3>5
  <2>2. CASE entry # "live"
    BY <1>t, <1>3, <2>2
  <2> QED
    BY <2>1, <2>2
<1>6. ASSUME NEW q \in Runs PROVE DeliveryOf(q)'
  <2>1. DeliveryOf(q)
    BY DEF IInv
  <2> QED
    BY <1>4, <2>1 DEF DeliveryOf, Waiting
<1> QED
  BY <1>t, <1>4, <1>5, <1>6 DEF Settled, TypeOK

\* What the end of a delivery keeps, whether the workstation answered or not.
LEMMA AfterSettled ==
    ASSUME IInv, NEW r \in Runs, NEW result, NEW queue, NEW L, Settled(r, result, queue, L), up' \subseteq up,
           result = "refused" => r \in failed,
           UNCHANGED <<exists, announced, named, task, waits, reported, stopping, needsStop, reset, before, failed, cut, renewals>>
    PROVE  /\ \A q \in Runs : DeliveryOf(q)' /\ DeletionOf(q)' /\ (Answer("refused", q) \in up => q \in failed)'
           /\ \A t \in Tasks : /\ StartOf(t)' /\ ObservationOf(t)' /\ StopsOf(t)'
                               /\ (renewals = 0 /\ RunOf[t] \notin failed => NoticeOf(t))'
<1>1. ASSUME NEW q \in Runs PROVE DeliveryOf(q)' /\ DeletionOf(q)' /\ (Answer("refused", q) \in up => q \in failed)'
  <2>1. DeletionOf(q)'
    <3>1. pending'[q] \in {"none", pending[q]} /\ \A t \in Tasks : start[t] = "none" => start'[t] = "none"
      BY DEF Settled
    <3> QED
      BY <3>1 DEF IInv, DeletionOf
  <2> QED
    BY <2>1 DEF IInv, Settled
<1>2. ASSUME NEW t \in Tasks
      PROVE  /\ StartOf(t)' /\ ObservationOf(t)' /\ StopsOf(t)'
             /\ (renewals = 0 /\ RunOf[t] \notin failed => NoticeOf(t))'
  <2>1. /\ StartIn(down', t) => StartIn(down, t) \/ (start[t] = "held" /\ start'[t] = "asked")
        /\ WaitIn(down', t) => WaitIn(down, t) \/ (watch[t] = "held" /\ watch'[t] = "asked")
        /\ start'[t] = start[t] \/ (start[t] = "held" /\ start'[t] \in {"asked", "failed"})
        /\ watch'[t] = watch[t] \/ (watch[t] = "held" /\ watch'[t] \in {"asked", "none"})
        /\ notices'[t] = notices[t] \/ RunOf[t] \in failed
    BY DEF Settled
  <2>2. StartOf(t)'
    BY <2>1 DEF IInv, StartOf, Past
  <2>3. ObservationOf(t)'
    BY <2>1 DEF IInv, ObservationOf, Over
  <2>4. StopsOf(t)'
    BY DEF IInv, StopsOf
  <2>5. (renewals = 0 /\ RunOf[t] \notin failed => NoticeOf(t))'
    BY <2>1 DEF IInv, NoticeOf, Over
  <2> QED
    BY <2>2, <2>3, <2>4, <2>5
<1> QED
  BY <1>1, <1>2

LEMMA StopAnsweredStep ==
    ASSUME IInv, NEW r \in Runs, StopAnswered(r)
    PROVE  IInv'
<1>1. PICK a \in up : /\ a.op \in {"stopped", "refused"} /\ a.of = r /\ up' = up \ {a}
                      /\ Settle(r, IF a.op = "stopped" THEN "done" ELSE "refused", down)
  BY DEF StopAnswered
<1> DEFINE result == IF a.op = "stopped" THEN "done" ELSE "refused"
<1>2. UNCHANGED <<full, exists, entry, link, announced, named, task, waits, reported, stopping, needsStop, reset, asking,
                  before, late, failed, forgotten, cut, unheard, stops, faults, renewals>>
  BY DEF StopAnswered, lineVars, executorVars, historyVars, boundVars
<1>t. /\ TypeOK /\ entry = "live" /\ down \in Seq(Requests) /\ Orderly(down, late, failed)
      /\ a = Answer(a.op, r) /\ (Answer("refused", r) \in up => r \in failed)
  BY <1>1, AnswerIs DEF IInv, TypeOK, Quiet
<1>i. r \notin late => /\ delivery[r] # NoDelivery /\ ~StopIn(down, r) /\ ~Heard(r)
                       /\ Answer("stopped", r) \notin up' /\ Answer("refused", r) \notin up'
  <2>1. ASSUME r \notin late PROVE InTimeRun(r)
    BY <2>1 DEF IInv
  <2> QED
    BY <1>1, <1>t, <2>1, AnswerIs DEF InTimeRun
<1>r. result \in {"done", "refused"} /\ (result = "refused" => r \in failed) /\ (result = "done" => Answer("stopped", r) \in up)
  BY <1>1, <1>t
<1>e. entry' = entry /\ Settle(r, result, down)
  BY <1>1, <1>2
<1> HIDE DEF result
<1>s. Settled(r, result, down, late)
  <2>1. CASE delivery[r] # NoDelivery
    <3>1. entry # "live" => down = <<>>
      BY <1>t
    <3> QED
      BY <1>t, <1>i, <1>r, <1>e, <2>1, <3>1, SettleMakes
  <2>2. CASE delivery[r] = NoDelivery
    BY <1>i, <1>r, <1>e, <2>2, SettleNothing
  <2> QED
    BY <2>1, <2>2
<1>3. TypeOK'
  BY <1>1, <1>2, <1>t, <1>s DEF TypeOK, Settled
<1>4. Quiet' /\ SignIn' /\ (stopping \subseteq needsStop)' /\ Orderly(down', late', failed')
  <2>1. Orderly(down', late, failed)
    BY <1>s DEF Settled
  <2> QED
    BY <1>2, <1>t, <2>1 DEF IInv, Quiet, SignIn, SignedInOverStream, Past
<1>5. /\ \A q \in Runs : DeliveryOf(q)' /\ DeletionOf(q)' /\ (Answer("refused", q) \in up => q \in failed)'
      /\ \A t \in Tasks : /\ StartOf(t)' /\ ObservationOf(t)' /\ StopsOf(t)'
                          /\ (renewals = 0 /\ RunOf[t] \notin failed => NoticeOf(t))'
  <2>1. up' \subseteq up
    BY <1>1
  <2> QED
    BY <1>2, <1>r, <1>s, <2>1, AfterSettled
<1>q. \A q \in Runs : /\ q # r => pending'[q] = pending[q] /\ delivery'[q] = delivery[q]
                      /\ StopIn(down', q) => StopIn(down, q) \/ (q = r /\ delivery'[r] # NoDelivery)
                      /\ Heard(q)' <=> Heard(q)
                      /\ Answer("stopped", q) \in up' => Answer("stopped", q) \in up
                      /\ Answer("refused", q) \in up' => Answer("refused", q) \in up
  BY <1>1, <1>2, <1>s DEF Settled, Heard
<1>6. ASSUME NEW q \in Runs, q \notin late PROVE InTimeRun(q)'
  <2>1. CASE q # r
    <3>1. InTimeRun(q)
      BY <1>6 DEF IInv
    <3> QED
      BY <1>2, <1>q, <2>1, <3>1 DEF InTimeRun
  <2>2. CASE q = r
    <3>1. /\ delivery'[r] # NoDelivery => pending'[r] = "delete"
          /\ pending'[r] # "none" => pending'[r] = "delete"
          /\ delivery'[r].owner = "none" <=> delivery'[r] = NoDelivery
      BY <1>6, <1>s, <2>2 DEF Settled, DeliveryOf
    <3> QED
      BY <1>6, <1>i, <1>q, <2>2, <3>1, WorkstationAssumption DEF InTimeRun
  <2> QED
    BY <2>1, <2>2
<1>7. ASSUME NEW t \in Tasks
      PROVE  /\ RunOf[t] \notin late => InTimeTask(RunOf[t], t)'
             /\ RunOf[t] \notin late \cup failed => CarriedOut(RunOf[t], t)'
             /\ EarlierOf(t)'
  <2>0. /\ RunOf[t] \in Runs /\ pending'[r] \in {"none", pending[r]}
        /\ StartIn(down', t) => StartIn(down, t) \/ (start[t] = "held" /\ RunOf[t] = r /\ (r \in late \/ pending'[r] = "none"))
        /\ t \in before => start[t] # "held"
    BY <1>s, WorkstationAssumption DEF IInv, StartOf, Settled
  <2>1. ASSUME RunOf[t] \notin late PROVE InTimeTask(RunOf[t], t)'
    <3>1. InTimeTask(RunOf[t], t)
      BY <2>1 DEF IInv
    <3>2. pending'[RunOf[t]] # "none" => pending[RunOf[t]] # "none" /\ (Live(t)' => Live(t))
      BY <1>2, <1>q, <2>0, <2>1 DEF Live
    <3> QED
      BY <1>2, <3>1, <3>2 DEF InTimeTask
  <2>2. ASSUME RunOf[t] \notin late \cup failed PROVE CarriedOut(RunOf[t], t)'
    <3>1. CarriedOut(RunOf[t], t)
      BY <2>2 DEF IInv
    <3>2. CASE RunOf[t] = r
      BY <1>i, <1>q, <2>0, <2>2, <3>2 DEF CarriedOut
    <3>3. CASE RunOf[t] # r
      BY <1>2, <1>q, <2>0, <3>1, <3>3 DEF CarriedOut, Live
    <3> QED
      BY <3>2, <3>3
  <2>3. EarlierOf(t)'
    <3> SUFFICES ASSUME t \in before, pending'[RunOf[t]] = "none", RunOf[t] \notin failed \cup forgotten \cup late
                 PROVE  task[t] \in {"none", "refused", "gone"} /\ ~StartIn(down', t)
      BY <1>2 DEF EarlierOf
    <3>1. StartIn(down', t) => StartIn(down, t)
      BY <2>0
    <3>2. CASE pending[RunOf[t]] = "none"
      BY <3>1, <3>2 DEF IInv, EarlierOf
    <3>3. CASE pending[RunOf[t]] # "none"
      <4>1. RunOf[t] = r
        BY <1>q, <2>0, <3>3
      <4>2. Answer("stopped", r) \in up /\ CarriedOut(r, t)
        BY <1>r, <4>1 DEF IInv
      <4> QED
        BY <1>t, <3>1, <4>2 DEF CarriedOut, Live, There, TypeOK
    <3> QED
      BY <3>2, <3>3
  <2> QED
    BY <2>1, <2>2, <2>3
<1> QED
  BY <1>2, <1>3, <1>4, <1>5, <1>6, <1>7 DEF IInv

LEMMA StopTimeLimitStep ==
    ASSUME IInv, NEW r \in Runs, StopTimeLimit(r)
    PROVE  IInv'
<1> DEFINE queue == Muffled(r)
           L == late \cup {r}
<1>1. /\ faults < MaxFaults /\ faults' = faults + 1 /\ delivery[r] # NoDelivery /\ Settle(r, "unreached", queue)
      /\ up' = {a \in up : a.of # r}
      /\ asking' = [asking EXCEPT ![r] = {[a EXCEPT !.heard = FALSE] : a \in asking[r]}]
      /\ late' = L
      /\ UNCHANGED <<full, exists, entry, link, announced, named, task, waits, reported, stopping, needsStop, reset,
                     before, failed, forgotten, cut, unheard, stops, renewals>>
  BY DEF StopTimeLimit, Fault, lineVars
<1>t. TypeOK /\ Orderly(down, late, failed) /\ (entry # "live" => down = <<>>)
  BY DEF IInv, Quiet
<1>u. /\ queue \in Seq(Requests) /\ Orderly(queue, L, failed) /\ (entry # "live" => queue = <<>>)
      /\ \A x : /\ StartIn(queue, x) => StartIn(down, x)
                /\ WaitIn(queue, x) => WaitIn(down, x)
                /\ StopIn(queue, x) => StopIn(down, x)
  <2>1. queue = Unheard({m \in ToSet(down) : m.of = r})
    BY DEF Muffled
  <2>2. Orderly(down, L, failed)
    <3>1. \A x, y : Clash(x, y, L, failed) => Clash(x, y, late, failed)
      BY DEF Clash
    <3> QED
      BY <1>t, <3>1 DEF Orderly
  <2> QED
    BY <1>t, <2>1, <2>2, InUnheard, DueUnheard
<1>l. late \subseteq L /\ r \in L /\ (\A q : q \notin L => q # r /\ q \notin late)
  OBVIOUS
<1> HIDE DEF queue, L
<1>s. Settled(r, "unreached", queue, L)
  BY <1>1, <1>u, <1>l, SettleMakes
<1>q. \A q \in Runs : q # r =>
        /\ pending'[q] = pending[q] /\ delivery'[q] = delivery[q]
        /\ StopIn(down', q) => StopIn(down, q)
        /\ Heard(q)' <=> Heard(q)
        /\ Answer("stopped", q) \in up' => Answer("stopped", q) \in up
        /\ Answer("refused", q) \in up' => Answer("refused", q) \in up
  BY <1>1, <1>t, <1>u, <1>s DEF Settled, Heard, TypeOK
<1>m. asking' \in [Runs -> SUBSET [op : {"stop", "delete"}, heard : BOOLEAN]] /\ ~Heard(r)'
  <2>1. \A a \in asking[r] : /\ [a EXCEPT !.heard = FALSE] \in [op : {"stop", "delete"}, heard : BOOLEAN]
                             /\ [a EXCEPT !.heard = FALSE].heard = FALSE
    <3>1. \A a \in asking[r] : a \in [op : {"stop", "delete"}, heard : BOOLEAN]
      BY <1>t DEF TypeOK
    <3> QED
      BY <3>1
  <2>2. asking'[r] = {[a EXCEPT !.heard = FALSE] : a \in asking[r]}
    BY <1>1, <1>t DEF TypeOK
  <2> QED
    BY <1>1, <1>t, <2>1, <2>2 DEF TypeOK, Heard
<1>3. TypeOK'
  <2>1. faults' \in 0..MaxFaults /\ late' \subseteq Runs /\ up' \subseteq Answers
    BY <1>1, <1>t, WorkstationAssumption DEF TypeOK, L
  <2> QED
    BY <1>1, <1>t, <1>s, <1>m, <2>1 DEF TypeOK, Settled
<1>4. Quiet' /\ SignIn' /\ (stopping \subseteq needsStop)' /\ Orderly(down', late', failed')
  <2>1. Orderly(down', L, failed) /\ (entry # "live" => down' = <<>>)
    BY <1>s DEF Settled
  <2>2. Quiet'
    <3>1. ASSUME entry # "live", NEW q \in Runs PROVE ~Heard(q)'
      BY <1>q, <1>m, <3>1 DEF IInv, Quiet
    <3> QED
      BY <1>1, <2>1, <3>1 DEF IInv, Quiet
  <2> QED
    BY <1>1, <2>1, <2>2 DEF IInv, SignIn, SignedInOverStream, Past
<1>5. /\ \A q \in Runs : DeliveryOf(q)' /\ DeletionOf(q)' /\ (Answer("refused", q) \in up => q \in failed)'
      /\ \A t \in Tasks : /\ StartOf(t)' /\ ObservationOf(t)' /\ StopsOf(t)'
                          /\ (renewals = 0 /\ RunOf[t] \notin failed => NoticeOf(t))'
  <2>1. up' \subseteq up
    BY <1>1
  <2> QED
    BY <1>1, <1>s, <2>1, AfterSettled
<1>6. ASSUME NEW q \in Runs, q \notin late' PROVE InTimeRun(q)'
  <2>1. q # r /\ InTimeRun(q)
    BY <1>1, <1>6, <1>l DEF IInv
  <2> QED
    BY <1>1, <1>q, <2>1 DEF InTimeRun
<1>7. ASSUME NEW t \in Tasks
      PROVE  /\ RunOf[t] \notin late' => InTimeTask(RunOf[t], t)'
             /\ RunOf[t] \notin late' \cup failed => CarriedOut(RunOf[t], t)'
             /\ EarlierOf(t)'
  <2>0. RunOf[t] \in Runs /\ (RunOf[t] \notin late' => RunOf[t] # r /\ RunOf[t] \notin late)
        /\ (RunOf[t] # r => (StartIn(down', t) => StartIn(down, t)))
    BY <1>1, <1>l, <1>s, WorkstationAssumption DEF Settled
  <2>1. RunOf[t] \notin late' => InTimeTask(RunOf[t], t)'
    BY <1>1, <1>q, <2>0 DEF IInv, InTimeTask, Live
  <2>2. RunOf[t] \notin late' \cup failed => CarriedOut(RunOf[t], t)'
    BY <1>1, <1>q, <2>0 DEF IInv, CarriedOut, Live
  <2>3. EarlierOf(t)'
    BY <1>1, <1>q, <2>0 DEF IInv, EarlierOf
  <2> QED
    BY <2>1, <2>2, <2>3
<1> QED
  BY <1>1, <1>3, <1>4, <1>5, <1>6, <1>7 DEF IInv

LEMMA RetryStopsStep ==
    ASSUME IInv, RetryStops
    PROVE  IInv'
<1> DEFINE due == IF entry = "none" THEN {} ELSE {r \in Runs : pending[r] # "none"}
           new == {r \in due : delivery[r] = NoDelivery}
           requests == SetToSeq({Request(pending[r], r) : r \in new})
<1>1. /\ delivery' = [r \in Runs |-> IF r \in new THEN Begun(pending[r], "catchup")
                                     ELSE IF r \in due THEN [delivery[r] EXCEPT !.joined = @ \cup {"catchup"}] ELSE delivery[r]]
      /\ down' = Sent(requests) /\ retry' = FALSE
      /\ UNCHANGED <<full, exists, entry, pending, start, watch, notices, link, announced, named, up, task, waits,
                     reported, stopping, needsStop, reset, asking, before, late, failed, forgotten, cut, unheard, stops,
                     faults, renewals>>
  BY DEF RetryStops, callVars, lineVars, executorVars, historyVars, boundVars
<1>t. TypeOK /\ down \in Seq(Requests) /\ Orderly(down, late, failed) /\ delivery \in [Runs -> Deliveries]
  BY DEF IInv, TypeOK
<1>n. /\ new \in SUBSET Runs /\ due \in SUBSET Runs
      /\ \A r \in new : delivery[r] = NoDelivery /\ pending[r] # "none" /\ entry # "none" /\ (r \in late \/ ~StopIn(down, r))
                        /\ (r \in late \/ pending[r] = "delete")
      /\ \A r \in due : r \notin new => delivery[r] # NoDelivery
      /\ \A r \in Runs : r \notin due => entry = "none" \/ pending[r] = "none"
  BY DEF IInv, InTimeRun
<1>l. /\ down' \in Seq(Requests) /\ Orderly(down', late, failed) /\ (entry # "live" => down' = down)
      /\ \A x : /\ StartIn(down', x) <=> StartIn(down, x)
                /\ WaitIn(down', x) <=> WaitIn(down, x)
                /\ StopIn(down', x) => StopIn(down, x) \/ x \in new
  <2>1. CASE entry = "live"
    <3>1. down' = down \o SetToSeq(StopsTo(new, pending))
      BY <1>1, <2>1 DEF Sent, StopsTo
    <3> HIDE DEF new
    <3>2. /\ pending \in [Runs -> {"none", "stop", "delete"}] /\ new \in SUBSET Runs
          /\ \A r \in new : pending[r] # "none" /\ (r \in late \/ ~StopIn(down, r))
          /\ down \in Seq(Requests) /\ Orderly(down, late, failed)
      BY <1>t, <1>n DEF TypeOK
    <3>3. /\ down' \in Seq(Requests) /\ Orderly(down', late, failed)
          /\ \A x : /\ StartIn(down', x) <=> StartIn(down, x)
                    /\ WaitIn(down', x) <=> WaitIn(down, x)
                    /\ StopIn(down', x) <=> StopIn(down, x) \/ x \in new
      BY <3>1, <3>2, StopsAppended
    <3> QED
      BY <2>1, <3>3
  <2>2. CASE entry # "live"
    BY <1>1, <1>t, <2>2 DEF Sent
  <2> QED
    BY <2>1, <2>2
<1> HIDE DEF new, due, requests
<1>v. ASSUME NEW r \in Runs
      PROVE  /\ delivery'[r] \in Deliveries
             /\ delivery'[r] = NoDelivery <=> delivery[r] = NoDelivery /\ r \notin new
             /\ delivery'[r].owner = "none" <=> delivery'[r] = NoDelivery
             /\ delivery'[r] # NoDelivery => delivery'[r].current \/ pending[r] = "delete"
             /\ \A t \in Tasks : /\ t \in delivery'[r].joined <=> t \in delivery[r].joined
                                 /\ t = delivery'[r].owner <=> t = delivery[r].owner
  <2>0. DeliveryOf(r) /\ delivery[r] \in Deliveries /\ NoDelivery \in Deliveries /\ NoDelivery.owner = "none"
    BY <1>t DEF IInv, NoDelivery, Deliveries, Callers
  <2>1. CASE r \in new
    <3>1. Begun(pending[r], "catchup") \in Deliveries /\ Begun(pending[r], "catchup").owner = "catchup"
          /\ Begun(pending[r], "catchup").joined = {} /\ Begun(pending[r], "catchup").current = TRUE
      BY <1>t, <1>n, <2>1 DEF TypeOK, Begun, Deliveries, Callers
    <3>2. delivery'[r] = Begun(pending[r], "catchup") /\ delivery'[r] # NoDelivery
      BY <1>1, <2>0, <2>1, <3>1
    <3>3. delivery[r].owner = "none" /\ delivery[r].joined = {}
      BY <1>n, <2>1 DEF NoDelivery
    <3> QED
      BY <2>1, <3>1, <3>2, <3>3, WorkstationAssumption
  <2>2. CASE r \in due /\ r \notin new
    <3> DEFINE g == [delivery[r] EXCEPT !.joined = @ \cup {"catchup"}]
    <3>1. g \in Deliveries /\ g.owner = delivery[r].owner /\ g.current = delivery[r].current
          /\ g.joined = delivery[r].joined \cup {"catchup"}
      BY <2>0 DEF Deliveries, Callers
    <3>2. delivery'[r] = g
      BY <1>1, <2>2
    <3> HIDE DEF g
    <3>3. delivery[r] # NoDelivery /\ g.owner # "none" /\ g # NoDelivery
      BY <1>n, <2>0, <2>2, <3>1 DEF DeliveryOf
    <3> QED
      BY <2>0, <2>2, <3>1, <3>2, <3>3, WorkstationAssumption DEF DeliveryOf
  <2>3. CASE r \notin due /\ r \notin new
    BY <1>1, <2>0, <2>3 DEF DeliveryOf
  <2> QED
    BY <1>n, <2>1, <2>2, <2>3
<1>2. TypeOK'
  <2>1. delivery' \in [Runs -> Deliveries]
    BY <1>1, <1>v
  <2> QED
    BY <1>1, <1>t, <1>l, <2>1 DEF TypeOK
<1>3. Quiet' /\ SignIn' /\ (stopping \subseteq needsStop)' /\ Orderly(down', late', failed')
  BY <1>1, <1>l DEF IInv, Quiet, SignIn, SignedInOverStream, Heard, Past
<1>4. ASSUME NEW r \in Runs PROVE DeliveryOf(r)' /\ DeletionOf(r)' /\ (Answer("refused", r) \in up => r \in failed)'
  <2>1. DeliveryOf(r) /\ (r \in new => pending[r] # "none" /\ entry # "none")
    BY <1>n DEF IInv
  <2>2. DeliveryOf(r)'
    BY <1>1, <1>v, <2>1 DEF DeliveryOf, Waiting
  <2> QED
    BY <1>1, <2>2 DEF IInv, DeletionOf
<1>5. ASSUME NEW t \in Tasks PROVE StartOf(t)' /\ ObservationOf(t)' /\ StopsOf(t)'
  BY <1>1, <1>l DEF IInv, StartOf, ObservationOf, StopsOf, Past, Over
<1>6. ASSUME NEW r \in Runs, r \notin late PROVE InTimeRun(r)'
  <2>1. InTimeRun(r) /\ (delivery'[r].owner \in Tasks => delivery[r].owner \in Tasks)
    BY <1>6, <1>v DEF IInv
  <2>2. /\ StopIn(down', r) => StopIn(down, r) \/ r \in new
        /\ r \in new => delivery[r] = NoDelivery
        /\ delivery'[r] = NoDelivery <=> delivery[r] = NoDelivery /\ r \notin new
        /\ Heard(r)' <=> Heard(r)
    BY <1>1, <1>l, <1>n, <1>v DEF Heard
  <2> QED
    BY <1>1, <2>1, <2>2 DEF InTimeRun
<1>7. ASSUME NEW t \in Tasks
      PROVE  /\ RunOf[t] \notin late => InTimeTask(RunOf[t], t)'
             /\ RunOf[t] \notin late \cup failed => CarriedOut(RunOf[t], t)'
             /\ renewals = 0 /\ RunOf[t] \notin failed => NoticeOf(t)'
             /\ EarlierOf(t)'
  BY <1>1, <1>l DEF IInv, InTimeTask, CarriedOut, NoticeOf, EarlierOf, Live, Over, Heard
<1> QED
  BY <1>1, <1>2, <1>3, <1>4, <1>5, <1>6, <1>7 DEF IInv

-----------------------------------------------------------------------------
(* The sign-in *)

LEMMA RegisterStep ==
    ASSUME IInv, Register
    PROVE  IInv'
<1> DEFINE renewed == entry = "live"
           observed == {t \in named : RunOf[t] \in exists /\ watch[t] = "none"}
           due == {r \in Runs : pending[r] # "none"} \cup Absent
           kind == [r \in Runs |-> IF r \in Absent /\ pending[r] = "none" THEN "stop" ELSE pending[r]]
           new == {r \in due : ~renewed \/ delivery[r] = NoDelivery}
           resumed == IF renewed THEN {} ELSE {delivery[r].owner : r \in Runs} \cap Tasks
           held == {t \in observed : RunOf[t] \in due}
           Q == resumed \cup (observed \ held)
           op == [t \in Q |-> IF start[t] = "held" THEN "start" ELSE "wait"]
           From(r) == IF r \in new THEN Begun(kind[r], "catchup") ELSE delivery[r]
           More(r) == delivery[r].joined \cup (held \cap TasksOf(r)) \cup (IF r \in new THEN {} ELSE {"catchup"})
<1>1. /\ announced = "asking" /\ announced' = "yes" /\ named' = {} /\ entry' = "live" /\ pending' = kind
      /\ retry' = (retry \/ (~renewed /\ \E r \in Runs : delivery[r] # NoDelivery))
      /\ delivery' = [r \in Runs |-> IF r \notin due THEN NoDelivery ELSE [From(r) EXCEPT !.joined = More(r)]]
      /\ start' = [t \in Tasks |-> IF start[t] = "held" /\ t \in resumed THEN "asked"
                                   ELSE IF start[t] = "asked" /\ ~renewed THEN "failed" ELSE start[t]]
      /\ watch' = [t \in Tasks |-> IF t \in held THEN "held" ELSE IF t \in observed THEN "asked"
                                   ELSE IF watch[t] = "held" /\ t \in resumed THEN "asked"
                                   ELSE IF watch[t] = "asked" /\ ~renewed THEN "paused" ELSE watch[t]]
      /\ UNCHANGED <<full, exists, notices, link, up, task, waits, reported, stopping, needsStop, reset, asking, before,
                     late, failed, forgotten, cut, unheard, stops, faults, renewals>>
  BY DEF Register, Reopened, executorVars, historyVars, boundVars
<1>2. down' = down \o SetToSeq({Request(kind[r], r) : r \in new})
                   \o SetToSeq({RequestOf(t) : t \in resumed} \cup {Request("wait", t) : t \in observed \ held})
  BY DEF Register
<1>t. /\ TypeOK /\ down \in Seq(Requests) /\ Orderly(down, late, failed) /\ delivery \in [Runs -> Deliveries]
      /\ named \subseteq Tasks /\ pending \in [Runs -> {"none", "stop", "delete"}]
  BY DEF IInv, TypeOK
<1>R. \A t \in Tasks : RunOf[t] \in Runs
  BY WorkstationAssumption
<1>q. ~renewed => /\ down = <<>> /\ up = {} /\ (\A r \in Runs : ~Heard(r))
                  /\ \A t \in Tasks : waits[t] = "no" /\ task[t] # "starting"
  BY DEF IInv, Quiet
<1>k. /\ due \in SUBSET Runs /\ kind \in [Runs -> {"none", "stop", "delete"}]
      /\ \A r \in Runs : /\ kind[r] = "none" <=> r \notin due
                         /\ kind[r] = "delete" <=> pending[r] = "delete"
                         /\ kind[r] = "none" => pending[r] = "none"
                         /\ r \in due => pending[r] # "none" \/ r \notin exists
  <2>1. Absent \subseteq Runs \ exists
    BY <1>t, <1>R DEF Absent
  <2> QED
    BY <1>t, <2>1
<1>d. ASSUME NEW r \in Runs
      PROVE  /\ DeliveryOf(r) /\ DeletionOf(r) /\ (r \notin late => InTimeRun(r))
             /\ r \notin due => delivery[r] = NoDelivery
             /\ delivery[r] = NoDelivery => delivery[r].owner = "none" /\ delivery[r].joined = {}
             /\ delivery[r] \in Deliveries
  <2>1. DeliveryOf(r) /\ DeletionOf(r) /\ (r \notin late => InTimeRun(r)) /\ delivery[r] \in Deliveries
    BY <1>t DEF IInv
  <2>2. r \notin due => delivery[r] = NoDelivery
    BY <2>1 DEF DeliveryOf
  <2>3. delivery[r] = NoDelivery => delivery[r].owner = "none" /\ delivery[r].joined = {}
    BY DEF NoDelivery
  <2> QED
    BY <2>1, <2>2, <2>3
<1>n. \A r \in Runs : r \in new <=> r \in due /\ (~renewed \/ delivery[r] = NoDelivery)
  BY <1>k
<1>r. /\ resumed \subseteq Tasks /\ (renewed => resumed = {})
      /\ ~renewed => \A t \in Tasks : t \in resumed <=> delivery[RunOf[t]].owner = t
      /\ \A t \in resumed : Waiting(t)
  BY <1>d, <1>R DEF DeliveryOf
<1>o. \A t \in observed : /\ t \in Tasks /\ t \in named /\ watch[t] = "none" /\ Past(t) /\ task[t] # "none"
                          /\ start[t] \notin {"none", "held"} /\ ~Waiting(t)
  BY <1>t DEF IInv, SignIn, StartOf, Past, There, Waiting
<1>h. \A t \in Tasks : t \in held <=> t \in observed /\ RunOf[t] \in due
  OBVIOUS
<1>p. op \in [Q -> {"start", "wait"}] /\ (\A t \in Q : (op[t] = "start" <=> start[t] = "held") /\ (op[t] = "wait" <=> start[t] # "held"))
  OBVIOUS
<1>w. Q \in SUBSET Tasks /\ \A t \in Tasks : t \in Q <=> t \in resumed \/ (t \in observed /\ t \notin held)
  BY <1>r, <1>o
<1>c. {RequestOf(t) : t \in resumed} \cup {Request("wait", t) : t \in observed \ held} = CallsOf(Q, op)
  <2>1. \A t \in resumed : RequestOf(t) = Request(op[t], t)
    BY DEF RequestOf
  <2>2. \A t \in observed \ held : Request("wait", t) = Request(op[t], t)
    BY <1>o
  <2> HIDE DEF op, resumed, observed, held
  <2> QED
    BY <2>1, <2>2 DEF CallsOf
<1>s. ASSUME NEW t \in resumed, start[t] = "held" PROVE RunOf[t] \in late
  <2>1. t \in Tasks /\ RunOf[t] \in Runs /\ delivery[RunOf[t]].owner = t
    BY <1>r, <1>R
  <2>2. t \notin before
    BY <1>s, <2>1 DEF IInv, StartOf
  <2> QED
    BY <1>s, <1>d, <2>1, <2>2 DEF InTimeRun, DeletionOf
<1> HIDE DEF observed, due, kind, new, resumed, held, Q, op
<1>l. /\ down' \in Seq(Requests) /\ Orderly(down', late, failed)
      /\ \A x : /\ StartIn(down', x) <=> StartIn(down, x) \/ (x \in Q /\ start[x] = "held")
                /\ WaitIn(down', x) <=> WaitIn(down, x) \/ (x \in Q /\ start[x] # "held")
                /\ StopIn(down', x) <=> StopIn(down, x) \/ x \in new
  <2> DEFINE s == down \o SetToSeq(StopsTo(new, kind))
  <2>1. new \in SUBSET Runs /\ \A r \in new : kind[r] # "none" /\ (r \in late \/ ~StopIn(down, r))
    <3>1. ASSUME NEW r \in new PROVE r \in Runs /\ kind[r] # "none" /\ (r \in late \/ ~StopIn(down, r))
      <4>1. r \in Runs /\ kind[r] # "none"
        BY <1>k, <3>1 DEF new
      <4>2. CASE renewed
        BY <1>d, <1>n, <4>1, <4>2 DEF InTimeRun
      <4>3. CASE ~renewed
        BY <1>q, <4>1, <4>3, NothingDue
      <4> QED
        BY <4>1, <4>2, <4>3
    <3> QED
      BY <3>1
  <2>2. /\ s \in Seq(Requests) /\ Orderly(s, late, failed)
        /\ \A x : /\ StartIn(s, x) <=> StartIn(down, x)
                  /\ WaitIn(s, x) <=> WaitIn(down, x)
                  /\ StopIn(s, x) <=> StopIn(down, x) \/ x \in new
    BY <1>t, <1>k, <2>1, StopsAppended
  <2>3. down' = s \o SetToSeq(CallsOf(Q, op))
    BY <1>2, <1>c DEF StopsTo
  <2> HIDE DEF s
  <2>4. \A t \in Q : op[t] = "start" => ~StartIn(s, t) /\ (RunOf[t] \notin late \cup failed => ~StopIn(s, RunOf[t]))
    <3> SUFFICES ASSUME NEW t \in Q, op[t] = "start" PROVE ~StartIn(s, t) /\ RunOf[t] \in late
      OBVIOUS
    <3>1. t \in Tasks /\ start[t] = "held" /\ t \in resumed
      BY <1>p, <1>w, <1>o
    <3> QED
      BY <1>s, <2>2, <3>1 DEF IInv, StartOf
  <2>5. \A t \in Q : op[t] = "wait" => ~WaitIn(s, t)
    <3> SUFFICES ASSUME NEW t \in Q PROVE ~WaitIn(down, t)
      BY <2>2
    <3>1. CASE renewed
      <4>1. t \in observed /\ t \in Tasks /\ watch[t] = "none"
        BY <1>r, <1>w, <1>o, <3>1
      <4> QED
        BY <4>1 DEF IInv, ObservationOf
    <3>2. CASE ~renewed
      BY <1>q, <3>2, NothingDue
    <3> QED
      BY <3>1, <3>2
  <2>6. /\ down' \in Seq(Requests) /\ Orderly(down', late, failed)
        /\ \A x : /\ StartIn(down', x) <=> StartIn(s, x) \/ (x \in Q /\ op[x] = "start")
                  /\ WaitIn(down', x) <=> WaitIn(s, x) \/ (x \in Q /\ op[x] = "wait")
                  /\ StopIn(down', x) <=> StopIn(s, x)
    <3>1. /\ s \in Seq(Requests) /\ Orderly(s, late, failed) /\ Q \in SUBSET Tasks /\ op \in [Q -> {"start", "wait"}]
          /\ \A t \in Q : op[t] = "start" => ~StartIn(s, t) /\ (RunOf[t] \notin late \cup failed => ~StopIn(s, RunOf[t]))
          /\ \A t \in Q : op[t] = "wait" => ~WaitIn(s, t)
      BY <1>p, <1>w, <2>2, <2>4, <2>5
    <3>2. LET u == s \o SetToSeq(CallsOf(Q, op))
          IN  /\ u \in Seq(Requests) /\ Orderly(u, late, failed)
              /\ \A x : /\ StartIn(u, x) <=> StartIn(s, x) \/ (x \in Q /\ op[x] = "start")
                        /\ WaitIn(u, x) <=> WaitIn(s, x) \/ (x \in Q /\ op[x] = "wait")
                        /\ StopIn(u, x) <=> StopIn(s, x)
      BY <3>1, CallsAppended
    <3> QED
      BY <2>3, <3>2
  <2> QED
    BY <1>p, <2>2, <2>6
<1>3. ASSUME NEW t \in Tasks
      PROVE  /\ start'[t] = "none" <=> start[t] = "none"
             /\ start'[t] = "held" <=> start[t] = "held" /\ t \notin resumed
             /\ start[t] \in {"started", "failed"} => start'[t] = start[t]
             /\ start[t] = "asked" /\ ~renewed => start'[t] = "failed"
             /\ t \in held => watch'[t] = "held"
             /\ t \in observed /\ t \notin held => watch'[t] = "asked"
             /\ watch[t] = "none" /\ t \notin observed => watch'[t] = "none"
             /\ watch[t] = "held" /\ t \in resumed => watch'[t] = "asked"
             /\ watch[t] = "held" /\ t \notin resumed => watch'[t] = "held"
             /\ watch[t] \notin {"none", "held"} => watch'[t] # "held"
             /\ watch[t] = "asked" /\ renewed => watch'[t] = "asked"
             /\ Waiting(t)' <=> (Waiting(t) /\ t \notin resumed) \/ t \in held
             /\ t \in Q => (t \in resumed /\ Waiting(t) /\ ~renewed) \/ (t \in observed /\ t \notin held /\ start[t] # "held")
  <2>1. /\ start'[t] = IF start[t] = "held" /\ t \in resumed THEN "asked"
                       ELSE IF start[t] = "asked" /\ ~renewed THEN "failed" ELSE start[t]
        /\ watch'[t] = IF t \in held THEN "held" ELSE IF t \in observed THEN "asked"
                       ELSE IF watch[t] = "held" /\ t \in resumed THEN "asked"
                       ELSE IF watch[t] = "asked" /\ ~renewed THEN "paused" ELSE watch[t]
    BY <1>1
  <2>2. t \in observed => watch[t] = "none" /\ start[t] \notin {"none", "held"} /\ ~Waiting(t)
    BY <1>o
  <2>3. t \in held => t \in observed
    BY <1>h
  <2>4. t \in resumed => Waiting(t) /\ ~renewed
    BY <1>r
  <2>5. Waiting(t)' <=> (Waiting(t) /\ t \notin resumed) \/ t \in held
    BY <2>1, <2>2, <2>3 DEF Waiting
  <2>6. t \in Q => (t \in resumed /\ Waiting(t) /\ ~renewed) \/ (t \in observed /\ t \notin held /\ start[t] # "held")
    BY <1>w, <2>2, <2>4
  <2> QED
    BY <2>1, <2>2, <2>3, <2>5, <2>6
<1>v. ASSUME NEW r \in Runs
      PROVE  /\ delivery'[r] \in Deliveries
             /\ delivery'[r] = NoDelivery <=> r \notin due
             /\ delivery'[r].owner = "none" <=> delivery'[r] = NoDelivery
             /\ r \in due => delivery'[r].current \/ kind[r] = "delete"
             /\ delivery'[r].owner \in Tasks => r \notin new /\ delivery'[r].owner = delivery[r].owner
                                                /\ delivery'[r].owner \notin delivery'[r].joined
             /\ \A t \in Tasks : t \in delivery'[r].joined \cup {delivery'[r].owner} <=> RunOf[t] = r /\ Waiting(t)'
  <2>0. /\ DeliveryOf(r) /\ delivery[r] \in Deliveries /\ NoDelivery \in Deliveries
        /\ NoDelivery.owner = "none" /\ NoDelivery.joined = {}
        /\ (delivery[r] = NoDelivery => delivery[r].owner = "none" /\ delivery[r].joined = {})
    BY <1>d DEF NoDelivery, Deliveries, Callers
  <2>1. CASE r \notin due
    <3>1. delivery'[r] = NoDelivery /\ delivery[r] = NoDelivery /\ r \notin new
      BY <1>1, <1>d, <1>n, <2>1
    <3>2. \A t \in Tasks : RunOf[t] = r => ~Waiting(t)'
      BY <1>3, <1>h, <2>0, <2>1, <3>1, WorkstationAssumption DEF DeliveryOf
    <3> QED
      BY <2>0, <2>1, <3>1, <3>2, WorkstationAssumption
  <2>2. CASE r \in due
    <3> DEFINE d == From(r)
               more == More(r)
               g == [d EXCEPT !.joined = more]
    <3>1. d \in Deliveries /\ (r \in new => d.owner = "catchup" /\ d.current = TRUE) /\ (r \notin new => d = delivery[r])
      <4>1. CASE r \in new
        BY <1>k, <2>2, <4>1 DEF Begun, Deliveries, Callers
      <4>2. CASE r \notin new
        BY <2>0, <4>2
      <4> QED
        BY <4>1, <4>2
    <3>2. /\ more \subseteq Callers
          /\ \A t \in Tasks : t \in more <=> t \in delivery[r].joined \/ (t \in held /\ RunOf[t] = r)
      <4>1. delivery[r].joined \subseteq Callers /\ held \cap TasksOf(r) \subseteq Callers /\ {"catchup"} \subseteq Callers
        BY <2>0 DEF Deliveries, Callers, TasksOf
      <4> QED
        BY <4>1, WorkstationAssumption DEF TasksOf
    <3> HIDE DEF d, more
    <3>3. g \in Deliveries /\ g.owner = d.owner /\ g.current = d.current /\ g.joined = more
      BY <3>1, <3>2 DEF Deliveries
    <3>4. delivery'[r] = g
      BY <1>1, <2>2 DEF d, more
    <3> HIDE DEF g
    <3>5. /\ d.owner # "none" /\ (d.current \/ kind[r] = "delete")
          /\ d.owner \in Tasks => r \notin new /\ d.owner = delivery[r].owner /\ d.owner \notin more
      <4>1. CASE r \in new
        BY <3>1, <4>1, WorkstationAssumption
      <4>2. CASE r \notin new
        <5>1. d = delivery[r] /\ delivery[r] # NoDelivery
          BY <1>n, <2>2, <3>1, <4>2
        <5>2. ASSUME d.owner \in Tasks PROVE d.owner \notin more
          BY <1>o, <1>h, <2>0, <3>2, <5>1, <5>2 DEF DeliveryOf
        <5> QED
          BY <1>k, <2>0, <4>2, <5>1, <5>2 DEF DeliveryOf
      <4> QED
        BY <4>1, <4>2
    <3>6. ASSUME NEW t \in Tasks PROVE t \in more \cup {d.owner} <=> RunOf[t] = r /\ Waiting(t)'
      <4>1. Waiting(t)' <=> (Waiting(t) /\ t \notin resumed) \/ t \in held
        BY <1>3
      <4>2. t \in delivery[r].joined \cup {delivery[r].owner} <=> RunOf[t] = r /\ Waiting(t)
        BY <2>0 DEF DeliveryOf
      <4>3. CASE r \in new
        <5>1. t # d.owner
          BY <3>1, <4>3, WorkstationAssumption
        <5>2. CASE ~renewed
          <6>1. RunOf[t] = r => (t \in resumed <=> t = delivery[r].owner)
            BY <1>r, <5>2
          <6>2. t = delivery[r].owner => t \notin delivery[r].joined
            BY <2>0 DEF DeliveryOf
          <6> QED
            BY <3>2, <4>1, <4>2, <5>1, <6>1, <6>2
        <5>3. CASE renewed
          <6>1. t \notin resumed /\ delivery[r].joined = {} /\ delivery[r].owner = "none"
            BY <1>n, <1>r, <2>0, <4>3, <5>3
          <6> QED
            BY <3>2, <4>1, <4>2, <5>1, <6>1, WorkstationAssumption
        <5> QED
          BY <5>2, <5>3
      <4>4. CASE r \notin new
        <5>1. d = delivery[r] /\ t \notin resumed
          BY <1>n, <1>r, <2>2, <3>1, <4>4
        <5> QED
          BY <3>2, <4>1, <4>2, <5>1
      <4> QED
        BY <4>3, <4>4
    <3>7. g # NoDelivery
      BY <2>0, <3>3, <3>5
    <3> QED
      BY <2>2, <3>3, <3>4, <3>5, <3>6, <3>7
  <2> QED
    BY <2>1, <2>2
<1>4. TypeOK'
  <2>1. delivery' \in [Runs -> Deliveries]
    BY <1>1, <1>v
  <2>2. start' \in [Tasks -> {"none", "held", "asked", "started", "failed"}]
    BY <1>1, <1>t DEF TypeOK
  <2>3. watch' \in [Tasks -> {"none", "held", "asked", "paused"}]
    BY <1>1, <1>t DEF TypeOK
  <2>4. retry' \in BOOLEAN /\ pending' \in [Runs -> {"none", "stop", "delete"}]
    BY <1>1, <1>k, <1>t DEF TypeOK
  <2> QED
    BY <1>1, <1>t, <1>l, <2>1, <2>2, <2>3, <2>4 DEF TypeOK
<1>5. Quiet' /\ SignIn' /\ (stopping \subseteq needsStop)' /\ Orderly(down', late', failed')
  BY <1>1, <1>l DEF IInv, Quiet, SignIn, SignedInOverStream
<1>6. ASSUME NEW r \in Runs PROVE DeliveryOf(r)' /\ DeletionOf(r)' /\ (Answer("refused", r) \in up => r \in failed)'
  <2>1. DeliveryOf(r)'
    BY <1>1, <1>k, <1>v DEF DeliveryOf
  <2>2. DeletionOf(r)'
    BY <1>1, <1>k, <1>d, <1>3 DEF DeletionOf
  <2> QED
    BY <1>1, <2>1, <2>2 DEF IInv
<1>7. ASSUME NEW t \in Tasks PROVE StartOf(t)' /\ ObservationOf(t)' /\ StopsOf(t)'
  <2>0. /\ StartOf(t) /\ ObservationOf(t) /\ StopsOf(t)
        /\ StartIn(down', t) => StartIn(down, t) \/ (start[t] = "held" /\ start'[t] = "asked")
        /\ (Past(t)' <=> Past(t)) /\ (Over(t)' <=> Over(t))
    BY <1>1, <1>l, <1>3, <1>t DEF IInv, Past, Over, TypeOK
  <2>1. StartOf(t)'
    <3>1. watch'[t] # "none" => watch[t] # "none" \/ t \in observed
      BY <1>3
    <3>2. renewals = 0 => ~renewed
      BY <1>1 DEF IInv, SignIn
    <3>3. renewals = 0 /\ watch'[t] # "none" => start'[t] \in {"started", "failed"}
      BY <1>o, <1>3, <1>t, <2>0, <3>1, <3>2 DEF StartOf, TypeOK
    <3>4. start'[t] \in {"none", "held"} => start[t] = start'[t] /\ ~StartIn(down', t) /\ watch'[t] = "none"
      BY <1>o, <1>3, <2>0, <3>1 DEF StartOf
    <3> QED
      BY <1>1, <1>o, <1>3, <2>0, <3>1, <3>3, <3>4 DEF StartOf
  <2>2. ObservationOf(t)'
    <3>1. WaitIn(down', t) /\ ~WaitIn(down, t) => /\ watch'[t] = "asked" /\ waits[t] = "no"
                                                  /\ Answer("ended", t) \notin up /\ Answer("lost", t) \notin up
      <4> SUFFICES ASSUME t \in Q, start[t] # "held"
                   PROVE  /\ watch'[t] = "asked" /\ waits[t] = "no"
                          /\ Answer("ended", t) \notin up /\ Answer("lost", t) \notin up
        BY <1>l
      <4>1. CASE t \in resumed /\ Waiting(t) /\ ~renewed
        BY <1>3, <1>q, <4>1 DEF Waiting
      <4>2. CASE t \in observed /\ t \notin held
        BY <1>o, <1>3, <2>0, <4>2 DEF ObservationOf
      <4> QED
        BY <1>3, <4>1, <4>2
    <3>2. (WaitIn(down, t) \/ waits[t] # "no" \/ up # {}) => renewed
      BY <1>q, NothingDue
    <3> QED
      BY <1>1, <1>3, <2>0, <3>1, <3>2 DEF ObservationOf
  <2>3. StopsOf(t)'
    BY <1>1, <2>0 DEF StopsOf
  <2> QED
    BY <2>1, <2>2, <2>3
<1>8. ASSUME NEW r \in Runs, r \notin late PROVE InTimeRun(r)'
  <2>1. InTimeRun(r) /\ (Heard(r)' <=> Heard(r)) /\ (StopIn(down', r) => StopIn(down, r) \/ r \in new)
    BY <1>1, <1>d, <1>l, <1>8 DEF Heard
  <2>2. delivery[r] # NoDelivery => delivery'[r] # NoDelivery
    BY <1>d, <1>v
  <2>3. r \in new => delivery'[r] # NoDelivery /\ ~Heard(r) /\ Answer("stopped", r) \notin up /\ Answer("refused", r) \notin up
    BY <1>n, <1>q, <1>v, <2>1 DEF InTimeRun
  <2>4. delivery'[r].owner \in Tasks => kind[r] = "delete"
    BY <1>k, <1>v, <2>1 DEF InTimeRun
  <2>5. delivery'[r] = NoDelivery => kind[r] = "none"
    BY <1>k, <1>v
  <2> QED
    BY <1>1, <2>1, <2>2, <2>3, <2>4, <2>5 DEF InTimeRun
<1>9. ASSUME NEW t \in Tasks
      PROVE  /\ RunOf[t] \notin late => InTimeTask(RunOf[t], t)'
             /\ RunOf[t] \notin late \cup failed => CarriedOut(RunOf[t], t)'
             /\ renewals = 0 /\ RunOf[t] \notin failed => NoticeOf(t)'
             /\ EarlierOf(t)'
  <2>0. /\ StartOf(t) /\ RunOf[t] \in Runs
        /\ StartIn(down', t) => StartIn(down, t) \/ (start[t] = "held" /\ RunOf[t] \in late /\ ~renewed)
    BY <1>l, <1>s, <1>3, <1>R DEF IInv
  <2>1. ASSUME RunOf[t] \notin late PROVE InTimeTask(RunOf[t], t)'
    <3>1. Live(t)' => Live(t)
      BY <1>1, <2>0, <2>1 DEF Live
    <3>2. Live(t) /\ RunOf[t] \notin exists => t \in before
      BY <1>d, <2>0 DEF DeletionOf, StartOf, Live, There
    <3>3. kind[RunOf[t]] # "none" => pending[RunOf[t]] # "none" \/ RunOf[t] \notin exists
      BY <1>k, <2>0
    <3> QED
      BY <1>1, <2>1, <3>1, <3>2, <3>3 DEF IInv, InTimeTask
  <2>2. ASSUME RunOf[t] \notin late \cup failed PROVE CarriedOut(RunOf[t], t)'
    BY <1>1, <2>0, <2>2 DEF IInv, CarriedOut, Live, Heard
  <2>3. ASSUME renewals = 0, RunOf[t] \notin failed PROVE NoticeOf(t)'
    <3>1. NoticeOf(t)
      BY <2>3 DEF IInv
    <3>2. t \in observed => t \in named
      BY <1>o
    <3> QED
      BY <1>1, <1>3, <3>1, <3>2 DEF NoticeOf, Over
  <2>4. EarlierOf(t)'
    <3>1. kind[RunOf[t]] = "none" => pending[RunOf[t]] = "none"
      BY <1>k, <2>0
    <3> QED
      BY <1>1, <2>0, <3>1 DEF IInv, EarlierOf, StartOf
  <2> QED
    BY <2>1, <2>2, <2>3, <2>4
<1> QED
  BY <1>1, <1>4, <1>5, <1>6, <1>7, <1>8, <1>9 DEF IInv

-----------------------------------------------------------------------------
LEMMA StutterStep ==
    ASSUME IInv, UNCHANGED vars
    PROVE  IInv'
<1>1. UNCHANGED <<full, exists, entry, pending, delivery, retry, start, watch, notices, link, announced, named, down, up,
                  task, waits, reported, stopping, needsStop, reset, asking, before, late, failed, forgotten, cut,
                  unheard, stops, faults, renewals>>
  BY DEF vars, stopVars, callVars, lineVars, wireVars, executorVars, historyVars, boundVars
<1>2. TypeOK' /\ Quiet' /\ SignIn' /\ (stopping \subseteq needsStop)' /\ Orderly(down', late', failed')
  BY <1>1 DEF IInv, TypeOK, Quiet, SignIn, SignedInOverStream, Heard, Past
<1>3. ASSUME NEW r \in Runs
      PROVE  /\ DeliveryOf(r)' /\ DeletionOf(r)' /\ (Answer("refused", r) \in up => r \in failed)'
             /\ r \notin late => InTimeRun(r)'
  BY <1>1 DEF IInv, DeliveryOf, DeletionOf, InTimeRun, Heard, Waiting
<1>4. ASSUME NEW t \in Tasks
      PROVE  /\ StartOf(t)' /\ ObservationOf(t)' /\ StopsOf(t)' /\ EarlierOf(t)'
             /\ RunOf[t] \notin late => InTimeTask(RunOf[t], t)'
             /\ RunOf[t] \notin late \cup failed => CarriedOut(RunOf[t], t)'
             /\ renewals = 0 /\ RunOf[t] \notin failed => NoticeOf(t)'
  BY <1>1 DEF IInv, StartOf, ObservationOf, StopsOf, EarlierOf, InTimeTask, CarriedOut, NoticeOf, Live, Past, Over, Heard
<1> QED
  BY <1>1, <1>2, <1>3, <1>4 DEF IInv

LEMMA InvNext == IInv /\ [Next]_vars => IInv'
<1> SUFFICES ASSUME IInv, [Next]_vars PROVE IInv'
  OBVIOUS
<1>1. ASSUME NEW r \in Runs, StopRun(r) \/ DeleteRun(r) \/ StopAnswered(r) \/ StopTimeLimit(r) \/ FinishStop(r) \/ FailStop(r)
      PROVE  IInv'
  BY <1>1, StopRunStep, DeleteRunStep, StopAnsweredStep, StopTimeLimitStep, FinishStopStep, FailStopStep
<1>2. ASSUME NEW t \in Tasks, StartTask(t) \/ StartAnswered(t) \/ WatchAgain(t) \/ WatchAnswered(t)
      PROVE  IInv'
  BY <1>2, StartTaskStep, StartAnsweredStep, WatchAgainStep, WatchAnsweredStep
<1>3. ASSUME NEW t \in Tasks, Spawn(t) \/ Observe(t) \/ EndTask(t) \/ ReturnEnd(t)
      PROVE  IInv'
  BY <1>3, SpawnStep, ObserveStep, EndTaskStep, ReturnEndStep
<1>4. ASSUME RetryStops \/ LoseStream \/ Disconnected \/ Crash \/ Reconnect \/ Announce \/ Register \/ StopArrives \/ OtherArrives
      PROVE  IInv'
  BY <1>4, RetryStopsStep, LoseStreamStep, DisconnectedStep, CrashStep, ReconnectStep, AnnounceStep, RegisterStep,
     StopArrivesStep, OtherArrivesStep
<1> QED
  BY <1>1, <1>2, <1>3, <1>4, StutterStep DEF Next

-----------------------------------------------------------------------------
(* What it shows *)

LEMMA InvImplied == IInv => WorkstationInv
<1> SUFFICES ASSUME IInv PROVE WorkstationInv
  OBVIOUS
<1>1. TypeOK /\ SignedInOverStream
  BY DEF IInv, SignIn
<1>2. CallsWaitForDelivery
  BY WorkstationAssumption DEF IInv, DeliveryOf, CallsWaitForDelivery
<1>3. StopEndsEarlierTasks
  <2> SUFFICES ASSUME NEW t \in before, pending[RunOf[t]] = "none", RunOf[t] \notin failed \cup forgotten \cup late
               PROVE  /\ task[t] \in {"none", "refused", "gone"}
                      /\ \A i \in 1..Len(down) : ~(down[i].op = "start" /\ down[i].of = t)
    BY DEF StopEndsEarlierTasks
  <2>1. t \in Tasks /\ down \in Seq(Requests)
    BY <1>1 DEF TypeOK
  <2>2. task[t] \in {"none", "refused", "gone"} /\ ~StartIn(down, t)
    BY <2>1 DEF IInv, EarlierOf
  <2> QED
    BY <2>1, <2>2, InSet DEF StartIn
<1>4. FullAccessEndsWithStream
  BY <1>1 DEF IInv, StopsOf, FullAccessEndsWithStream, TypeOK
<1>5. NoticedOnceUnlessRenewed
  BY <1>1 DEF IInv, NoticeOf, NoticedOnceUnlessRenewed, TypeOK
<1> QED
  BY <1>1, <1>2, <1>3, <1>4, <1>5 DEF WorkstationInv

\* What holds of commands, stops and notices on both sides of the connection, for any number of runs, commands, stops,
\* faults and renewed sign-ins: no call waits for ever behind a delivery that is not under way, a stop that was carried
\* out has ended what was called before it, full access ends with the stream and no end is told twice (clients.ts,
\* background-tasks.ts, workspace-client.ts).
THEOREM WorkstationInvariant == Spec => []WorkstationInv
<1>1. Spec => []IInv
  BY InvInit, InvNext, PTL DEF Spec
<1> QED
  BY <1>1, InvImplied, PTL

LEMMA OnlyStopsEnd ==
    ASSUME IInv, [Next]_vars, NEW t \in Tasks, task[t] # "gone", task'[t] = "gone"
    PROVE  t \in before \cup cut \/ RunOf[t] \in late
<1>t. task \in [Tasks -> {"none", "starting", "running", "ended", "gone", "refused"}]
  BY DEF IInv, TypeOK
<1>1. ASSUME NEW r \in Runs, FinishStop(r) PROVE t \in before \cup cut \/ RunOf[t] \in late
  <2>1. RunOf[t] = r /\ task[t] \in There /\ r \in needsStop
    BY <1>1, <1>t DEF FinishStop, IInv, There
  <2> QED
    BY <2>1 DEF IInv, InTimeTask
<1>2. \A r \in Runs : ~StopRun(r) /\ ~DeleteRun(r) /\ ~StopAnswered(r) /\ ~StopTimeLimit(r)
  BY DEF StopRun, DeleteRun, StopAnswered, StopTimeLimit, executorVars
<1>3. \A r \in Runs : ~FailStop(r)
  BY <1>t DEF FailStop
<1>4. \A u \in Tasks : ~StartTask(u) /\ ~StartAnswered(u) /\ ~WatchAgain(u) /\ ~WatchAnswered(u)
  BY DEF StartTask, StartAnswered, WatchAgain, WatchAnswered, executorVars
<1>5. \A u \in Tasks : ~Spawn(u) /\ ~Observe(u) /\ ~EndTask(u) /\ ~ReturnEnd(u)
  BY <1>t DEF Spawn, Observe, EndTask, ReturnEnd
<1>6. ~RetryStops /\ ~Disconnected /\ ~Reconnect /\ ~Announce /\ ~Register
  BY DEF RetryStops, Disconnected, Reconnect, Announce, Register, executorVars
<1>7. ~LoseStream /\ ~Crash
  BY <1>t DEF LoseStream, Crash, StreamLost
<1>8. ~StopArrives /\ ~OtherArrives
  BY <1>t DEF StopArrives, OtherArrives
<1>9. ~UNCHANGED vars
  BY DEF vars, executorVars
<1> QED
  BY <1>1, <1>2, <1>3, <1>4, <1>5, <1>6, <1>7, <1>8, <1>9 DEF Next

\* No stop ends a command that was called after it, unless a delivery of a stop of its run exceeded its time limit
\* (clients.ts call, #deliverStop).
THEOREM StopSparesLater == Spec => StopSparesLaterTasks
<1>1. Spec => []IInv
  BY InvInit, InvNext, PTL DEF Spec
<1>2. IInv /\ [Next]_vars => [\A t \in Tasks : (task[t] # "gone" /\ task'[t] = "gone") => t \in before \cup cut \/ RunOf[t] \in late]_vars
  BY OnlyStopsEnd
<1> QED
  BY <1>1, <1>2, PTL DEF Spec, StopSparesLaterTasks

=============================================================================
