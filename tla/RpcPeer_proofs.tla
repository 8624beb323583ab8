---------------------------- MODULE RpcPeer_proofs ----------------------------
(***************************************************************************)
(* An ended call of RpcPeer leaves nothing behind, an answer belongs to    *)
(* its own request, and what was withdrawn never runs: for any ids, time   *)
(* limits, number of streams and number of calls.                          *)
(***************************************************************************)
EXTENDS RpcPeer, TLAPS

IsRequest(m) == m.kind = "request"

\* A call is asked for at most once in q.
Once(q) == \A n, k \in DOMAIN q : IsRequest(q[n]) /\ IsRequest(q[k]) /\ q[n].call = q[k].call => n = k

\* What the client runs under an id was asked for over its present stream.
EntriesFit == \A i \in Ids : running[i] # Idle => running[i][2] = i /\ running[i][1] = link

\* As long as its stream lasts a handler has its entry.
Serves == \A c \in Calls : handler[c] \in {"runs", "answers"} /\ c[1] = link => Current(c)

Begun ==
    \A c \in Calls :
        /\ call[c] # "new" => c[1] <= opened
        /\ handler[c] # "none" => call[c] \in {"sent", "settled"}

\* A request waits to be sent only once, and only as long as it was not.
Queued ==
    /\ Once(tick)
    /\ \A n \in DOMAIN tick : IsRequest(tick[n]) => call[tick[n].call] \in {"queued", "withdrawn"}

\* A request on a stream was sent over it, and its handler has not begun.
Carried ==
    \A s \in Streams :
        /\ Once(down[s])
        /\ \A n \in DOMAIN down[s] :
              /\ down[s][n].call[1] = s
              /\ IsRequest(down[s][n]) =>
                    call[down[s][n].call] \in {"sent", "settled"} /\ handler[down[s][n].call] = "none"

\* An answer, or the failure of one, comes from a handler that has returned, and goes over the stream it was asked over.
Said ==
    /\ \A n \in DOMAIN work : Final(work[n]) => handler[work[n].call] \notin {"none", "runs"}
    /\ \A n \in DOMAIN up :
          /\ Final(up[n].said) => handler[up[n].said.call] \notin {"none", "runs"}
          /\ up[n].over = up[n].said.call[1]

NeverMistaken == \A c \in Calls : outcome[c] # "mistaken"

IInv ==
    TypeOK /\ NothingLeft /\ EntriesFit /\ Serves /\ Begun /\ Queued /\ Carried /\ Said /\ NeverMistaken

-----------------------------------------------------------------------------
(* Sequences, and the pairs that calls are. *)

LEMMA TailOf ==
    ASSUME NEW S, NEW q \in Seq(S), q # <<>>
    PROVE  /\ Head(q) \in S /\ Tail(q) \in Seq(S)
           /\ 1 \in DOMAIN q /\ Head(q) = q[1]
           /\ \A n \in DOMAIN Tail(q) : n + 1 \in DOMAIN q /\ Tail(q)[n] = q[n + 1] /\ n \in Nat
OBVIOUS

LEMMA AppendOf ==
    ASSUME NEW S, NEW q \in Seq(S), NEW m \in S
    PROVE  /\ Append(q, m) \in Seq(S)
           /\ \A n \in DOMAIN Append(q, m) :
                 (n \in DOMAIN q /\ Append(q, m)[n] = q[n]) \/ (n = Len(q) + 1 /\ n \notin DOMAIN q /\ Append(q, m)[n] = m)
OBVIOUS

LEMMA ElementOf ==
    ASSUME NEW S, NEW q \in Seq(S), NEW n \in DOMAIN q PROVE q[n] \in S
OBVIOUS

LEMMA CallOf ==
    ASSUME NEW K, NEW q \in Seq([kind : K, call : Calls]), NEW n \in DOMAIN q PROVE q[n].call \in Calls
<1>1. q[n] \in [kind : K, call : Calls]
  BY ElementOf
<1> QED
  BY <1>1

LEMMA TailOnce ==
    ASSUME NEW S, NEW q \in Seq(S), q # <<>>, Once(q)
    PROVE  /\ Once(Tail(q))
           /\ \A n \in DOMAIN Tail(q) : IsRequest(Head(q)) /\ IsRequest(Tail(q)[n]) => Tail(q)[n].call # Head(q).call
<1>1. /\ 1 \in DOMAIN q /\ Head(q) = q[1]
      /\ \A n \in DOMAIN Tail(q) : n + 1 \in DOMAIN q /\ Tail(q)[n] = q[n + 1] /\ n \in Nat /\ n # 0
  BY TailOf
<1>2. Once(Tail(q))
  <2> SUFFICES ASSUME NEW n \in DOMAIN Tail(q), NEW k \in DOMAIN Tail(q),
                      IsRequest(Tail(q)[n]), IsRequest(Tail(q)[k]), Tail(q)[n].call = Tail(q)[k].call
               PROVE  n = k
    BY DEF Once
  <2>1. n + 1 = k + 1
    BY <1>1 DEF Once
  <2> QED
    BY <2>1, <1>1
<1>3. ASSUME NEW n \in DOMAIN Tail(q), IsRequest(Head(q)), IsRequest(Tail(q)[n]), Tail(q)[n].call = Head(q).call
      PROVE  FALSE
  <2>1. n + 1 = 1
    BY <1>1, <1>3 DEF Once
  <2> QED
    BY <2>1, <1>1
<1> QED
  BY <1>2, <1>3

LEMMA AppendOnce ==
    ASSUME NEW S, NEW q \in Seq(S), NEW m \in S, Once(q),
           IsRequest(m) => \A n \in DOMAIN q : IsRequest(q[n]) => q[n].call # m.call
    PROVE  Once(Append(q, m))
<1> SUFFICES ASSUME NEW n \in DOMAIN Append(q, m), NEW k \in DOMAIN Append(q, m),
                    IsRequest(Append(q, m)[n]), IsRequest(Append(q, m)[k]),
                    Append(q, m)[n].call = Append(q, m)[k].call
             PROVE  n = k
  BY DEF Once
<1>1. \A j \in DOMAIN Append(q, m) :
         (j \in DOMAIN q /\ Append(q, m)[j] = q[j]) \/ (j = Len(q) + 1 /\ j \notin DOMAIN q /\ Append(q, m)[j] = m)
  BY AppendOf
<1>2. CASE n \in DOMAIN q /\ k \in DOMAIN q
  BY <1>1, <1>2 DEF Once
<1>3. CASE n \in DOMAIN q /\ k \notin DOMAIN q
  BY <1>1, <1>3
<1>4. CASE n \notin DOMAIN q /\ k \in DOMAIN q
  BY <1>1, <1>4
<1>5. CASE n \notin DOMAIN q /\ k \notin DOMAIN q
  BY <1>1, <1>5
<1> QED
  BY <1>2, <1>3, <1>4, <1>5

LEMMA CallParts ==
    ASSUME NEW c \in Calls
    PROVE  /\ c[1] \in Streams /\ c[2] \in Ids /\ c = <<c[1], c[2]>> /\ c # Idle
           /\ c[1] \in Nat /\ c[1] # 0 /\ c[2] \in Nat
<1>1. c[1] \in Streams /\ c[2] \in Ids /\ c = <<c[1], c[2]>>
  BY DEF Calls
<1>2. c[1] \in Nat /\ c[1] # 0 /\ c[2] \in Nat
  BY <1>1, RpcPeerAssumption DEF Streams
<1>3. c # Idle
  BY <1>2 DEF Idle
<1> QED
  BY <1>1, <1>2, <1>3

-----------------------------------------------------------------------------
(* Calls that go on. *)

\* Nothing that is said of what has begun and of what is carried is undone by a call or a handler that ends.
LEMMA GoOn ==
    ASSUME TypeOK, Begun, Carried,
           \A c \in Calls : \/ call'[c] = call[c]
                            \/ call[c] = "queued" /\ call'[c] = "withdrawn"
                            \/ call[c] = "sent" /\ call'[c] = "settled",
           \A c \in Calls : handler'[c] = handler[c] \/ (handler[c] # "none" /\ handler'[c] \notin {"none", "runs"}),
           UNCHANGED <<opened, down>>
    PROVE  /\ Begun' /\ Carried'
           /\ \A c \in Calls : handler[c] \notin {"none", "runs"} => handler'[c] \notin {"none", "runs"}
<1>1. Begun'
  BY DEF Begun
<1>2. Carried'
  <2> SUFFICES ASSUME NEW s \in Streams
               PROVE  /\ Once(down[s])
                      /\ \A n \in DOMAIN down[s] :
                            /\ down[s][n].call[1] = s
                            /\ IsRequest(down[s][n]) =>
                                  call'[down[s][n].call] \in {"sent", "settled"} /\ handler'[down[s][n].call] = "none"
    BY DEF Carried
  <2>1. down[s] \in Seq([kind : {"request", "cancel"}, call : Calls])
    BY DEF TypeOK
  <2>2. \A n \in DOMAIN down[s] : down[s][n].call \in Calls
    BY <2>1, CallOf
  <2> QED
    BY <2>2 DEF Carried
<1> QED
  BY <1>1, <1>2

LEMMA SettleCalls ==
    ASSUME TypeOK, NothingLeft, NeverMistaken, NEW cs \in SUBSET Pending,
           NEW why \in {"answered", "cancelled", "timeout", "closed"}, Settle(cs, why)
    PROVE  /\ call' \in [Calls -> {"new", "queued", "sent", "settled", "withdrawn"}]
           /\ outcome' \in [Calls -> {"none", "answered", "mistaken", "cancelled", "timeout", "closed"}]
           /\ timer' \subseteq Calls /\ grace' \subseteq Calls /\ heard' \subseteq Calls
           /\ \A c \in Calls : \/ call'[c] = call[c] /\ c \notin cs
                               \/ call[c] = "queued" /\ call'[c] = "withdrawn" /\ c \in cs
                               \/ call[c] = "sent" /\ call'[c] = "settled" /\ c \in cs
           /\ Pending' = Pending \ cs
           /\ timer' \subseteq Pending' /\ grace' \subseteq Pending' /\ heard' \subseteq Pending'
           /\ NeverMistaken'
<1>1. /\ call' \in [Calls -> {"new", "queued", "sent", "settled", "withdrawn"}]
      /\ outcome' \in [Calls -> {"none", "answered", "mistaken", "cancelled", "timeout", "closed"}]
      /\ timer' \subseteq Calls /\ grace' \subseteq Calls /\ heard' \subseteq Calls
  BY DEF TypeOK, Settle
<1>2. \A c \in Calls : \/ call'[c] = call[c] /\ c \notin cs
                       \/ call[c] = "queued" /\ call'[c] = "withdrawn" /\ c \in cs
                       \/ call[c] = "sent" /\ call'[c] = "settled" /\ c \in cs
  BY DEF Settle, Pending
<1>3. Pending' = Pending \ cs
  BY <1>2 DEF Pending
<1>4. timer' \subseteq Pending' /\ grace' \subseteq Pending' /\ heard' \subseteq Pending'
  BY <1>3 DEF NothingLeft, Settle
<1>5. NeverMistaken'
  BY DEF NeverMistaken, Settle
<1> QED
  BY <1>1, <1>2, <1>3, <1>4, <1>5

\* A call that ends leaves the invariant as it was, where nothing else changes but what waits to be sent.
LEMMA SettleStep ==
    ASSUME IInv, NEW cs \in SUBSET Pending, NEW why \in {"answered", "cancelled", "timeout", "closed"}, Settle(cs, why),
           closed' = closed \/ (\E s \in 1 .. opened : closed' = closed \cup {s} /\ cs = {c \in Pending : c[1] = s}),
           tick' = tick \/ (\E c \in Calls : tick' = Append(tick, Message("cancel", c))),
           UNCHANGED <<opened, link, down, clientVars, up>>
    PROVE  IInv'
<1> USE DEF IInv
<1>1. /\ call' \in [Calls -> {"new", "queued", "sent", "settled", "withdrawn"}]
      /\ outcome' \in [Calls -> {"none", "answered", "mistaken", "cancelled", "timeout", "closed"}]
      /\ timer' \subseteq Calls /\ grace' \subseteq Calls /\ heard' \subseteq Calls
      /\ \A c \in Calls : \/ call'[c] = call[c] /\ c \notin cs
                          \/ call[c] = "queued" /\ call'[c] = "withdrawn" /\ c \in cs
                          \/ call[c] = "sent" /\ call'[c] = "settled" /\ c \in cs
      /\ Pending' = Pending \ cs
      /\ timer' \subseteq Pending' /\ grace' \subseteq Pending' /\ heard' \subseteq Pending'
      /\ NeverMistaken'
  BY SettleCalls
<1>2. UNCHANGED <<opened, link, down, handler, running, aborted, told, work, up>>
  BY DEF clientVars
<1>3. EntriesFit' /\ Serves' /\ Begun' /\ Carried'
  <2>1. Begun' /\ Carried'
    BY <1>1, <1>2, GoOn
  <2> QED
    BY <1>2, <2>1 DEF EntriesFit, Serves, Current
<1>4. tick' \in Seq([kind : {"request", "cancel"}, call : Calls]) /\ Queued'
  <2>1. tick \in Seq([kind : {"request", "cancel"}, call : Calls]) /\ Queued
    BY DEF TypeOK
  <2>2. CASE tick' = tick
    <3>1. \A n \in DOMAIN tick : tick[n].call \in Calls
      BY <2>1, CallOf
    <3> QED
      BY <1>1, <2>1, <2>2, <3>1 DEF Queued
  <2>3. ASSUME NEW c \in Calls, tick' = Append(tick, Message("cancel", c))
        PROVE  tick' \in Seq([kind : {"request", "cancel"}, call : Calls]) /\ Queued'
    <3>1. Message("cancel", c) \in [kind : {"request", "cancel"}, call : Calls] /\ ~IsRequest(Message("cancel", c))
      BY DEF Message, IsRequest
    <3>2. /\ tick' \in Seq([kind : {"request", "cancel"}, call : Calls])
          /\ \A n \in DOMAIN tick' :
                (n \in DOMAIN tick /\ tick'[n] = tick[n])
                \/ (n = Len(tick) + 1 /\ n \notin DOMAIN tick /\ tick'[n] = Message("cancel", c))
      BY <2>1, <2>3, <3>1, AppendOf
    <3>3. Once(tick')
      BY <2>1, <2>3, <3>1, AppendOnce DEF Queued
    <3>4. ASSUME NEW n \in DOMAIN tick', IsRequest(tick'[n]) PROVE call'[tick'[n].call] \in {"queued", "withdrawn"}
      <4>1. n \in DOMAIN tick /\ tick'[n] = tick[n]
        BY <3>1, <3>2, <3>4
      <4>2. tick[n].call \in Calls
        BY <2>1, <4>1, CallOf
      <4> QED
        BY <1>1, <2>1, <3>4, <4>1, <4>2 DEF Queued
    <3> QED
      BY <3>2, <3>3, <3>4 DEF Queued
  <2> QED
    BY <2>2, <2>3
<1>5. closed' \subseteq 1 .. opened /\ \A c \in Pending' : c[1] \notin closed'
  BY <1>1 DEF TypeOK, NothingLeft
<1>6. TypeOK'
  BY <1>1, <1>2, <1>4, <1>5 DEF TypeOK
<1>7. NothingLeft'
  BY <1>1, <1>5 DEF NothingLeft
<1>8. Said'
  BY <1>2 DEF Said
<1> QED
  BY <1>1, <1>3, <1>4, <1>6, <1>7, <1>8

-----------------------------------------------------------------------------
(* The calling peer. *)

LEMMA RequestStep ==
    ASSUME IInv, NEW c \in Calls, Request(c) PROVE IInv'
<1> USE DEF IInv
<1> DEFINE m == Message("request", c)
<1>1. /\ call[c] = "new" /\ c[1] <= opened /\ c[1] \notin closed
      /\ call' = [call EXCEPT ![c] = "queued"] /\ tick' = Append(tick, m)
      /\ timer' = (IF c[2] \in Untimed THEN timer ELSE timer \cup {c}) /\ heard' = heard \cup {c}
      /\ UNCHANGED <<opened, link, closed, outcome, grace, down, handler, running, aborted, told, work, up>>
  BY DEF Request, clientVars
<1>2. /\ call' \in [Calls -> {"new", "queued", "sent", "settled", "withdrawn"}]
      /\ call'[c] = "queued" /\ \A d \in Calls : d # c => call'[d] = call[d]
      /\ Pending' = Pending \cup {c}
  BY <1>1 DEF TypeOK, Pending
<1>3. /\ m \in [kind : {"request", "cancel"}, call : Calls] /\ m.call = c
      /\ tick \in Seq([kind : {"request", "cancel"}, call : Calls])
  BY DEF Message, TypeOK
<1>4. /\ tick' \in Seq([kind : {"request", "cancel"}, call : Calls])
      /\ \A n \in DOMAIN tick' : (n \in DOMAIN tick /\ tick'[n] = tick[n]) \/ tick'[n] = m
  BY <1>1, <1>3, AppendOf
<1>5. TypeOK'
  BY <1>1, <1>2, <1>4 DEF TypeOK
<1>6. NothingLeft'
  BY <1>1, <1>2 DEF NothingLeft
<1>7. Queued'
  <2>1. \A n \in DOMAIN tick : tick[n].call \in Calls /\ (IsRequest(tick[n]) => tick[n].call # c)
    BY <1>1, <1>3, CallOf DEF Queued
  <2>2. Once(tick')
    BY <1>1, <1>3, <2>1, AppendOnce DEF Queued
  <2>3. \A n \in DOMAIN tick' : IsRequest(tick'[n]) => call'[tick'[n].call] \in {"queued", "withdrawn"}
    BY <1>2, <1>3, <1>4, <2>1 DEF Queued
  <2> QED
    BY <2>2, <2>3 DEF Queued
<1>8. Carried'
  <2> SUFFICES ASSUME NEW s \in Streams
               PROVE  /\ Once(down[s])
                      /\ \A n \in DOMAIN down[s] :
                            /\ down[s][n].call[1] = s
                            /\ IsRequest(down[s][n]) =>
                                  call'[down[s][n].call] \in {"sent", "settled"} /\ handler[down[s][n].call] = "none"
    BY <1>1 DEF Carried
  <2>1. down[s] \in Seq([kind : {"request", "cancel"}, call : Calls])
    BY DEF TypeOK
  <2>2. \A n \in DOMAIN down[s] : down[s][n].call \in Calls
    BY <2>1, CallOf
  <2> QED
    BY <1>1, <1>2, <2>2 DEF Carried
<1>9. Begun'
  BY <1>1, <1>2 DEF Begun
<1>10. EntriesFit' /\ Serves' /\ Said' /\ NeverMistaken'
  BY <1>1 DEF EntriesFit, Serves, Current, Said, NeverMistaken
<1> QED
  BY <1>5, <1>6, <1>7, <1>8, <1>9, <1>10

LEMMA AbortStep ==
    ASSUME IInv, NEW c \in Calls, Abort(c) PROVE IInv'
<1> USE DEF IInv
<1>1. c \in Pending
  BY DEF Abort, NothingLeft
<1>2. CASE Settle({c}, "cancelled") /\ UNCHANGED tick
  BY <1>1, <1>2, SettleStep DEF Abort
<1>3. CASE /\ call[c] = "sent" /\ tick' = Append(tick, Message("cancel", c))
           /\ grace' = grace \cup {c} /\ heard' = heard \ {c} /\ UNCHANGED <<call, outcome, timer>>
  <2>1. UNCHANGED <<opened, link, closed, call, outcome, timer, down, handler, running, aborted, told, work, up>>
    BY <1>3 DEF Abort, clientVars
  <2>2. /\ Message("cancel", c) \in [kind : {"request", "cancel"}, call : Calls] /\ ~IsRequest(Message("cancel", c))
        /\ tick \in Seq([kind : {"request", "cancel"}, call : Calls])
    BY DEF Message, IsRequest, TypeOK
  <2>3. /\ tick' \in Seq([kind : {"request", "cancel"}, call : Calls])
        /\ \A n \in DOMAIN tick' :
              (n \in DOMAIN tick /\ tick'[n] = tick[n]) \/ tick'[n] = Message("cancel", c)
    BY <1>3, <2>2, AppendOf
  <2>4. TypeOK'
    BY <1>3, <2>1, <2>3 DEF TypeOK
  <2>5. Queued'
    <3>1. Once(tick')
      BY <1>3, <2>2, AppendOnce DEF Queued
    <3> QED
      BY <2>1, <2>2, <2>3, <3>1 DEF Queued
  <2>6. NothingLeft'
    BY <1>1, <1>3, <2>1 DEF NothingLeft, Pending
  <2>7. EntriesFit' /\ Serves' /\ Begun' /\ Carried' /\ Said' /\ NeverMistaken'
    BY <2>1 DEF EntriesFit, Serves, Current, Begun, Carried, Said, NeverMistaken
  <2> QED
    BY <2>4, <2>5, <2>6, <2>7
<1> QED
  BY <1>2, <1>3 DEF Abort

\* The time limit, the end of the grace period, and the end of a stream at the server.
LEMMA TimerSteps ==
    ASSUME IInv, (\E c \in Calls : TimeLimit(c) \/ GraceEnds(c)) \/ (\E s \in Streams : Close(s)) PROVE IInv'
<1> USE DEF IInv
<1>1. ASSUME NEW c \in Calls, TimeLimit(c) PROVE IInv'
  <2>1. {c} \in SUBSET Pending
    BY <1>1 DEF TimeLimit, NothingLeft
  <2> QED
    BY <1>1, <2>1, SettleStep DEF TimeLimit
<1>2. ASSUME NEW c \in Calls, GraceEnds(c) PROVE IInv'
  <2>1. {c} \in SUBSET Pending
    BY <1>2 DEF GraceEnds, NothingLeft
  <2> QED
    BY <1>2, <2>1, SettleStep DEF GraceEnds
<1>3. ASSUME NEW s \in Streams, Close(s) PROVE IInv'
  <2>1. s \in 1 .. opened
    BY <1>3 DEF Close, TypeOK, Streams
  <2> QED
    BY <1>3, <2>1, SettleStep DEF Close
<1> QED
  BY <1>1, <1>2, <1>3

LEMMA SendStep ==
    ASSUME IInv, Send PROVE IInv'
<1> USE DEF IInv
<1> DEFINE Sendable == [kind : {"request", "cancel"}, call : Calls]
           m == Head(tick)
           goes == Due(m) /\ link = m.call[1] /\ link \notin closed
<1>1. /\ tick # <<>> /\ tick' = Tail(tick)
      /\ down' = (IF goes THEN [down EXCEPT ![link] = Append(@, m)] ELSE down)
      /\ call' = (IF m.kind = "request" /\ m.call \in Pending THEN [call EXCEPT ![m.call] = "sent"] ELSE call)
      /\ UNCHANGED <<opened, link, closed, outcome, timer, grace, heard, handler, running, aborted, told, work, up>>
  BY DEF Send, clientVars
<1>2. /\ m \in Sendable /\ Tail(tick) \in Seq(Sendable) /\ 1 \in DOMAIN tick /\ m = tick[1]
      /\ \A n \in DOMAIN Tail(tick) : n + 1 \in DOMAIN tick /\ Tail(tick)[n] = tick[n + 1]
      /\ tick \in Seq(Sendable) /\ down \in [Streams -> Seq(Sendable)]
  BY <1>1, TailOf DEF TypeOK
<1>3. /\ Once(Tail(tick))
      /\ \A n \in DOMAIN Tail(tick) : IsRequest(m) /\ IsRequest(Tail(tick)[n]) => Tail(tick)[n].call # m.call
  BY <1>1, <1>2, TailOnce DEF Queued
<1>4. /\ call' \in [Calls -> {"new", "queued", "sent", "settled", "withdrawn"}]
      /\ \A c \in Calls : call'[c] = call[c] \/ (IsRequest(m) /\ c = m.call /\ call[c] = "queued" /\ call'[c] = "sent")
  BY <1>1, <1>2 DEF TypeOK, Queued, IsRequest, Pending
<1>5. Pending' = Pending
  BY <1>4 DEF Pending
<1>6. Queued'
  <2>1. ASSUME NEW n \in DOMAIN tick', IsRequest(tick'[n]) PROVE call'[tick'[n].call] \in {"queued", "withdrawn"}
    <3>1. /\ tick'[n] = tick[n + 1] /\ n + 1 \in DOMAIN tick /\ tick'[n].call \in Calls
      BY <1>1, <1>2, <2>1, CallOf
    <3>2. call[tick'[n].call] \in {"queued", "withdrawn"}
      BY <2>1, <3>1 DEF Queued
    <3>3. call'[tick'[n].call] = call[tick'[n].call]
      BY <1>1, <1>3, <1>4, <2>1, <3>1
    <3> QED
      BY <3>2, <3>3
  <2> QED
    BY <1>1, <1>3, <2>1 DEF Queued
<1>7. goes => link \in Streams
  BY <1>2, CallParts
<1>8. down' \in [Streams -> Seq(Sendable)]
  <2>1. CASE goes
    <3>1. Append(down[link], m) \in Seq(Sendable)
      BY <1>2, <1>7, <2>1, AppendOf
    <3> QED
      BY <1>1, <1>2, <2>1, <3>1
  <2>2. CASE ~goes
    BY <1>1, <1>2, <2>2
  <2> QED
    BY <2>1, <2>2
<1>9. Carried'
  <2> SUFFICES ASSUME NEW s \in Streams
               PROVE  /\ Once(down'[s])
                      /\ \A n \in DOMAIN down'[s] :
                            /\ down'[s][n].call[1] = s
                            /\ IsRequest(down'[s][n]) =>
                                  call'[down'[s][n].call] \in {"sent", "settled"} /\ handler[down'[s][n].call] = "none"
    BY <1>1, SMTT(30) DEF Carried
  <2>1. \A n \in DOMAIN down[s] :
           /\ down[s][n].call \in Calls /\ down[s][n].call[1] = s
           /\ IsRequest(down[s][n]) =>
                 /\ call[down[s][n].call] \in {"sent", "settled"} /\ handler[down[s][n].call] = "none"
                 /\ call'[down[s][n].call] \in {"sent", "settled"}
    <3>1. down[s] \in Seq(Sendable)
      BY <1>2
    <3>2. \A n \in DOMAIN down[s] : down[s][n].call \in Calls
      BY <3>1, CallOf
    <3> QED
      BY <1>4, <3>2 DEF Carried
  <2>2. CASE ~goes \/ s # link
    <3>1. down'[s] = down[s]
      BY <1>1, <1>2, <2>2
    <3> QED
      BY <2>1, <3>1 DEF Carried
  <2>3. CASE goes /\ s = link
    <3>1. down'[s] = Append(down[s], m) /\ down[s] \in Seq(Sendable)
      BY <1>1, <1>2, <2>3
    <3>2. \A n \in DOMAIN down'[s] : (n \in DOMAIN down[s] /\ down'[s][n] = down[s][n]) \/ down'[s][n] = m
      BY <1>2, <3>1, AppendOf
    <3>3. m.call[1] = s
      BY <2>3
    <3>4. IsRequest(m) => /\ call[m.call] = "queued" /\ call'[m.call] = "sent" /\ m.call \in Calls
                          /\ handler[m.call] = "none"
      <4>1. IsRequest(m) => m.call \in Pending /\ m.call \in Calls
        BY <1>2, <2>3 DEF Due, IsRequest
      <4>2. IsRequest(m) => call[m.call] = "queued"
        BY <1>2, <4>1 DEF Queued, Pending
      <4>3. IsRequest(m) => call'[m.call] = "sent"
        BY <1>1, <4>1 DEF IsRequest, TypeOK
      <4> QED
        BY <4>1, <4>2, <4>3 DEF Begun
    <3>5. Once(down'[s])
      <4>1. IsRequest(m) => \A n \in DOMAIN down[s] : IsRequest(down[s][n]) => down[s][n].call # m.call
        BY <2>1, <3>4
      <4>2. Once(down[s])
        BY DEF Carried
      <4> QED
        BY <1>2, <3>1, <4>1, <4>2, AppendOnce
    <3> QED
      BY <2>1, <3>2, <3>3, <3>4, <3>5
  <2> QED
    BY <2>2, <2>3
<1>10. TypeOK'
  BY <1>1, <1>2, <1>4, <1>8 DEF TypeOK
<1>11. NothingLeft'
  BY <1>1, <1>5 DEF NothingLeft
<1>12. Begun'
  BY <1>1, <1>4 DEF Begun
<1>13. EntriesFit' /\ Serves' /\ Said' /\ NeverMistaken'
  BY <1>1 DEF EntriesFit, Serves, Current, Said, NeverMistaken
<1> QED
  BY <1>6, <1>9, <1>10, <1>11, <1>12, <1>13

-----------------------------------------------------------------------------
(* The answering peer. *)

LEMMA ReceiveStep ==
    ASSUME IInv, Receive PROVE IInv'
<1> USE DEF IInv
<1> DEFINE Sendable == [kind : {"request", "cancel"}, call : Calls]
           m == Head(down[link])
<1>1. /\ work = <<>> /\ link # 0 /\ down[link] # <<>> /\ down' = [down EXCEPT ![link] = Tail(@)]
      /\ UNCHANGED <<opened, link, closed, call, outcome, timer, grace, heard, tick, told, work, up>>
      /\ \/ /\ m.kind = "request" /\ handler' = [handler EXCEPT ![m.call] = "runs"]
            /\ running' = [running EXCEPT ![m.call[2]] = m.call] /\ UNCHANGED aborted
         \/ /\ m.kind = "cancel" /\ aborted' = aborted \cup ({running[m.call[2]]} \ {Idle})
            /\ UNCHANGED <<handler, running>>
  BY DEF Receive, peerVars
<1>2. link \in Streams /\ down \in [Streams -> Seq(Sendable)] /\ down[link] \in Seq(Sendable)
  BY <1>1 DEF TypeOK
<1>3. /\ m \in Sendable /\ Tail(down[link]) \in Seq(Sendable) /\ 1 \in DOMAIN down[link] /\ m = down[link][1]
      /\ \A n \in DOMAIN Tail(down[link]) :
            n + 1 \in DOMAIN down[link] /\ Tail(down[link])[n] = down[link][n + 1]
  BY <1>1, <1>2, TailOf
<1>4. /\ Once(Tail(down[link]))
      /\ \A n \in DOMAIN Tail(down[link]) :
            IsRequest(m) /\ IsRequest(Tail(down[link])[n]) => Tail(down[link])[n].call # m.call
  BY <1>1, <1>2, TailOnce DEF Carried
<1>5. m.call \in Calls /\ m.call[1] = link /\ m.call[2] \in Ids /\ m.call # Idle
  BY <1>2, <1>3, CallParts DEF Carried
<1>6. m.kind = "request" => handler[m.call] = "none" /\ call[m.call] \in {"sent", "settled"}
  BY <1>2, <1>3 DEF Carried, IsRequest
<1>7. down' \in [Streams -> Seq(Sendable)] /\ down'[link] = Tail(down[link]) /\ \A s \in Streams \ {link} : down'[s] = down[s]
  BY <1>1, <1>2, <1>3
<1>8. /\ handler' \in [Calls -> {"none", "runs", "answers", "ends", "done"}]
      /\ running' \in [Ids -> Calls \cup {Idle}] /\ aborted' \subseteq Calls
  BY <1>1, <1>5 DEF TypeOK
<1>9. \A c \in Calls : handler'[c] = handler[c] \/ (m.kind = "request" /\ c = m.call /\ handler'[c] = "runs")
  BY <1>1 DEF TypeOK
<1>10. TypeOK'
  BY <1>1, <1>7, <1>8 DEF TypeOK
<1>11. EntriesFit'
  BY <1>1, <1>5 DEF EntriesFit, TypeOK
<1>12. Serves'
  <2> SUFFICES ASSUME NEW c \in Calls, handler'[c] \in {"runs", "answers"}, c[1] = link
               PROVE  running'[c[2]] = c
    BY <1>1 DEF Serves, Current
  <2>1. c[2] \in Ids /\ c = <<c[1], c[2]>> /\ m.call = <<m.call[1], m.call[2]>>
    BY <1>5, CallParts
  <2>2. CASE m.kind = "request" /\ c = m.call
    BY <1>1, <1>5, <2>2 DEF TypeOK
  <2>3. CASE ~(m.kind = "request" /\ c = m.call)
    <3>1. running[c[2]] = c
      BY <1>9, <2>3 DEF Serves, Current
    <3>2. m.kind = "request" => c[2] # m.call[2]
      BY <1>5, <2>1, <2>3
    <3> QED
      BY <1>1, <1>5, <2>1, <3>1, <3>2 DEF TypeOK
  <2> QED
    BY <2>2, <2>3
<1>13. Begun'
  BY <1>1, <1>6, <1>9 DEF Begun
<1>14. Carried'
  <2> SUFFICES ASSUME NEW s \in Streams
               PROVE  /\ Once(down'[s])
                      /\ \A n \in DOMAIN down'[s] :
                            /\ down'[s][n].call[1] = s
                            /\ IsRequest(down'[s][n]) =>
                                  call[down'[s][n].call] \in {"sent", "settled"} /\ handler'[down'[s][n].call] = "none"
    BY <1>1, SMTT(30) DEF Carried
  <2>1. \A n \in DOMAIN down'[s] : down'[s][n].call \in Calls
    <3>1. down'[s] \in Seq(Sendable)
      BY <1>7
    <3> QED
      BY <3>1, CallOf
  <2>2. CASE s # link
    <3>1. down'[s] = down[s]
      BY <1>7, <2>2
    <3>2. \A n \in DOMAIN down[s] : down[s][n].call # m.call
      BY <1>5, <2>2 DEF Carried
    <3> QED
      BY <1>9, <2>1, <3>1, <3>2 DEF Carried
  <2>3. CASE s = link
    <3>1. down'[s] = Tail(down[link])
      BY <1>7, <2>3
    <3>2. ASSUME NEW n \in DOMAIN Tail(down[link])
          PROVE  /\ Tail(down[link])[n].call[1] = link
                 /\ IsRequest(Tail(down[link])[n]) =>
                      /\ call[Tail(down[link])[n].call] \in {"sent", "settled"}
                      /\ handler[Tail(down[link])[n].call] = "none"
      BY <1>2, <1>3, <3>2 DEF Carried
    <3>3. m.kind = "request" => \A n \in DOMAIN Tail(down[link]) :
              IsRequest(Tail(down[link])[n]) => Tail(down[link])[n].call # m.call
      BY <1>4 DEF IsRequest
    <3> QED
      BY <1>4, <1>9, <2>1, <2>3, <3>1, <3>2, <3>3
  <2> QED
    BY <2>2, <2>3
<1>15. Said'
  <2>1. \A n \in DOMAIN up : up[n].said.call \in Calls
    <3>1. \A n \in DOMAIN up : up[n] \in [over : Streams, said : [kind : {"progress", "answer", "failure"}, call : Calls]]
      BY ElementOf DEF TypeOK
    <3> QED
      BY <3>1
  <2>2. \A n \in DOMAIN up : Final(up[n].said) => handler'[up[n].said.call] \notin {"none", "runs"}
    BY <1>6, <1>9, <2>1 DEF Said
  <2> QED
    BY <1>1, <2>2 DEF Said
<1>16. NothingLeft' /\ Queued' /\ NeverMistaken'
  BY <1>1 DEF NothingLeft, Pending, Queued, NeverMistaken
<1> QED
  BY <1>10, <1>11, <1>12, <1>13, <1>14, <1>15, <1>16

\* What a message of the client is, and that it stays true of its handler.
LEMMA SaidOf ==
    ASSUME TypeOK
    PROVE  /\ \A n \in DOMAIN work : work[n].call \in Calls
           /\ \A n \in DOMAIN up : up[n].over \in Streams /\ up[n].said.call \in Calls
<1>1. \A n \in DOMAIN work : work[n].call \in Calls
  BY CallOf DEF TypeOK
<1>2. \A n \in DOMAIN up : up[n] \in [over : Streams, said : [kind : {"progress", "answer", "failure"}, call : Calls]]
  BY ElementOf DEF TypeOK
<1> QED
  BY <1>1, <1>2

LEMMA ReturnStep ==
    ASSUME IInv, NEW c \in Calls, Return(c) PROVE IInv'
<1> USE DEF IInv
<1> DEFINE Words == [kind : {"progress", "answer", "failure"}, call : Calls]
<1>1. /\ handler[c] = "runs"
      /\ \/ Current(c) /\ handler' = [handler EXCEPT ![c] = "answers"] /\ work' = Append(work, Message("answer", c))
         \/ ~Current(c) /\ handler' = [handler EXCEPT ![c] = "ends"] /\ work' = work
      /\ UNCHANGED <<opened, link, closed, call, outcome, timer, grace, heard, tick, down, running, aborted, told, up>>
  BY DEF Return, peerVars
<1>2. Message("answer", c) \in Words /\ Message("answer", c).call = c /\ work \in Seq(Words)
  BY DEF Message, TypeOK
<1>3. /\ Append(work, Message("answer", c)) \in Seq(Words)
      /\ \A n \in DOMAIN Append(work, Message("answer", c)) :
            \/ n \in DOMAIN work /\ Append(work, Message("answer", c))[n] = work[n]
            \/ Append(work, Message("answer", c))[n] = Message("answer", c)
  BY <1>2, AppendOf
<1>4. /\ handler' \in [Calls -> {"none", "runs", "answers", "ends", "done"}]
      /\ handler'[c] \in {"answers", "ends"} /\ \A d \in Calls : d # c => handler'[d] = handler[d]
      /\ handler'[c] = "answers" => Current(c)
  BY <1>1 DEF TypeOK
<1>5. TypeOK'
  BY <1>1, <1>2, <1>3, <1>4 DEF TypeOK
<1>6. Begun' /\ Carried' /\ \A d \in Calls : handler[d] \notin {"none", "runs"} => handler'[d] \notin {"none", "runs"}
  BY <1>1, <1>4, GoOn
<1>7. Serves' /\ EntriesFit'
  BY <1>1, <1>4 DEF Serves, Current, EntriesFit
<1>8. Said'
  <2>1. \A n \in DOMAIN work' : (n \in DOMAIN work /\ work'[n] = work[n]) \/ work'[n].call = c
    BY <1>1, <1>2, <1>3
  <2>2. \A n \in DOMAIN work' : Final(work'[n]) => handler'[work'[n].call] \notin {"none", "runs"}
    BY <1>4, <1>6, <2>1, SaidOf DEF Said
  <2> QED
    BY <1>1, <1>6, <2>2, SaidOf DEF Said
<1>9. NothingLeft' /\ Queued' /\ NeverMistaken'
  BY <1>1 DEF NothingLeft, Pending, Queued, NeverMistaken
<1> QED
  BY <1>5, <1>6, <1>7, <1>8, <1>9

LEMMA ProgressStep ==
    ASSUME IInv, NEW c \in Calls, Progress(c) PROVE IInv'
<1> USE DEF IInv
<1> DEFINE Words == [kind : {"progress", "answer", "failure"}, call : Calls]
           m == Message("progress", c)
<1>1. /\ told' = {c} /\ work' = Append(work, m)
      /\ UNCHANGED <<opened, link, closed, call, outcome, timer, grace, heard, tick, down, handler, running, aborted, up>>
  BY DEF Progress, peerVars
<1>2. m \in Words /\ ~Final(m) /\ work \in Seq(Words)
  BY DEF Message, Final, TypeOK
<1>3. work' \in Seq(Words) /\ \A n \in DOMAIN work' : (n \in DOMAIN work /\ work'[n] = work[n]) \/ work'[n] = m
  BY <1>1, <1>2, AppendOf
<1>4. TypeOK'
  BY <1>1, <1>3 DEF TypeOK
<1>5. Said'
  BY <1>1, <1>2, <1>3 DEF Said
<1>6. NothingLeft' /\ EntriesFit' /\ Serves' /\ Begun' /\ Queued' /\ Carried' /\ NeverMistaken'
  BY <1>1 DEF NothingLeft, Pending, EntriesFit, Serves, Current, Begun, Queued, Carried, NeverMistaken
<1> QED
  BY <1>4, <1>5, <1>6

LEMMA PostStep ==
    ASSUME IInv, Post PROVE IInv'
<1> USE DEF IInv
<1> DEFINE Words == [kind : {"progress", "answer", "failure"}, call : Calls]
           Posts == [over : Streams, said : Words]
           m == Head(work)
           p == [over |-> link, said |-> m]
           goes == Current(m.call) /\ link # 0
<1>1. /\ work # <<>> /\ work' = Tail(work) /\ up' = (IF goes THEN Append(up, p) ELSE up)
      /\ handler' = (IF Final(m) /\ ~goes THEN [handler EXCEPT ![m.call] = "ends"] ELSE handler)
      /\ UNCHANGED <<opened, link, closed, call, outcome, timer, grace, heard, tick, down, running, aborted, told>>
  BY DEF Post, peerVars
<1>2. work \in Seq(Words) /\ up \in Seq(Posts)
  BY DEF TypeOK
<1>3. /\ m \in Words /\ Tail(work) \in Seq(Words) /\ 1 \in DOMAIN work /\ m = work[1]
      /\ \A n \in DOMAIN Tail(work) : n + 1 \in DOMAIN work /\ Tail(work)[n] = work[n + 1]
  BY <1>1, <1>2, TailOf
<1>4. /\ m.call \in Calls /\ m.call[2] \in Ids /\ m.call # Idle
      /\ Final(m) => handler[m.call] \notin {"none", "runs"}
  BY <1>3, CallParts DEF Said
<1>5. goes => link \in Streams /\ m.call[1] = link /\ p \in Posts
  BY <1>3, <1>4 DEF Current, EntriesFit, TypeOK
<1>6. up' \in Seq(Posts) /\ \A n \in DOMAIN up' : (n \in DOMAIN up /\ up'[n] = up[n]) \/ (goes /\ up'[n] = p)
  <2>1. CASE goes
    BY <1>1, <1>2, <1>5, <2>1, AppendOf
  <2>2. CASE ~goes
    BY <1>1, <1>2, <2>2
  <2> QED
    BY <2>1, <2>2
<1>7. /\ handler' \in [Calls -> {"none", "runs", "answers", "ends", "done"}]
      /\ \A d \in Calls : handler'[d] = handler[d] \/ (handler[d] \notin {"none", "runs"} /\ handler'[d] = "ends")
  BY <1>1, <1>4 DEF TypeOK
<1>8. TypeOK'
  BY <1>1, <1>3, <1>6, <1>7 DEF TypeOK
<1>9. Begun' /\ Carried' /\ \A d \in Calls : handler[d] \notin {"none", "runs"} => handler'[d] \notin {"none", "runs"}
  BY <1>1, <1>7, GoOn
<1>10. Serves' /\ EntriesFit'
  BY <1>1, <1>7 DEF Serves, Current, EntriesFit
<1>11. Said'
  <2>1. ASSUME NEW n \in DOMAIN work' PROVE Final(work'[n]) => handler'[work'[n].call] \notin {"none", "runs"}
    BY <1>1, <1>3, <1>9, <2>1, SaidOf DEF Said
  <2>2. ASSUME NEW n \in DOMAIN up'
        PROVE  /\ Final(up'[n].said) => handler'[up'[n].said.call] \notin {"none", "runs"}
               /\ up'[n].over = up'[n].said.call[1]
    <3>1. CASE n \in DOMAIN up /\ up'[n] = up[n]
      BY <1>9, <3>1, SaidOf DEF Said
    <3>2. CASE goes /\ up'[n] = p
      BY <1>4, <1>5, <1>9, <3>2
    <3> QED
      BY <1>6, <3>1, <3>2
  <2> QED
    BY <2>1, <2>2 DEF Said
<1>12. NothingLeft' /\ Queued' /\ NeverMistaken'
  BY <1>1 DEF NothingLeft, Pending, Queued, NeverMistaken
<1> QED
  BY <1>8, <1>9, <1>10, <1>11, <1>12

LEMMA ArriveStep ==
    ASSUME IInv, NEW lost \in BOOLEAN, NEW fails \in BOOLEAN, Arrive(lost, fails) PROVE IInv'
<1> USE DEF IInv
<1> DEFINE Words == [kind : {"progress", "answer", "failure"}, call : Calls]
           Posts == [over : Streams, said : Words]
           m == Head(up)
           c == m.said.call
           failure == Message("failure", c)
<1>1. up # <<>> /\ up \in Seq(Posts)
  BY DEF Arrive, TypeOK
<1>2. /\ m \in Posts /\ Tail(up) \in Seq(Posts) /\ 1 \in DOMAIN up /\ m = up[1]
      /\ \A n \in DOMAIN Tail(up) : n + 1 \in DOMAIN up /\ Tail(up)[n] = up[n + 1]
  BY <1>1, TailOf
<1>3. c \in Calls /\ m.over = c[1] /\ Named(m.over, m.said) = c
  <2>1. c \in Calls /\ m.over = c[1]
    BY <1>2 DEF Said
  <2>2. c = <<c[1], c[2]>>
    BY <2>1, CallParts
  <2> QED
    BY <2>1, <2>2 DEF Named
<1>4. Final(m.said) => handler[c] \notin {"none", "runs"}
  BY <1>2 DEF Said
<1>5. /\ up' = Tail(up)
      /\ (c \in Pending /\ Settle({c}, "answered")) \/ UNCHANGED <<call, outcome, timer, grace, heard>>
      /\ handler' = handler \/ (Final(m.said) /\ handler' = [handler EXCEPT ![c] = "ends"])
      /\ work' = work \/ (m.said.kind = "answer" /\ work' = Append(work, failure))
      /\ told' \in {told, {c}}
      /\ UNCHANGED <<opened, link, closed, tick, down, running, aborted>>
  BY <1>3 DEF Arrive
<1>6. /\ handler' \in [Calls -> {"none", "runs", "answers", "ends", "done"}]
      /\ \A d \in Calls : handler'[d] = handler[d] \/ (handler[d] \notin {"none", "runs"} /\ handler'[d] = "ends")
  BY <1>3, <1>4, <1>5 DEF TypeOK
<1>7. /\ call' \in [Calls -> {"new", "queued", "sent", "settled", "withdrawn"}]
      /\ outcome' \in [Calls -> {"none", "answered", "mistaken", "cancelled", "timeout", "closed"}]
      /\ timer' \subseteq Calls /\ grace' \subseteq Calls /\ heard' \subseteq Calls
      /\ \A d \in Calls : \/ call'[d] = call[d]
                          \/ call[d] = "queued" /\ call'[d] = "withdrawn"
                          \/ call[d] = "sent" /\ call'[d] = "settled"
      /\ timer' \subseteq Pending' /\ grace' \subseteq Pending' /\ heard' \subseteq Pending'
      /\ Pending' \subseteq Pending /\ NeverMistaken'
  <2>1. CASE c \in Pending /\ Settle({c}, "answered")
    <3>1. {c} \in SUBSET Pending
      BY <2>1
    <3> QED
      BY <2>1, <3>1, SettleCalls
  <2>2. CASE UNCHANGED <<call, outcome, timer, grace, heard>>
    BY <2>2 DEF TypeOK, NothingLeft, Pending, NeverMistaken
  <2> QED
    BY <1>5, <2>1, <2>2
<1>8. TypeOK'
  <2>1. failure \in Words /\ work \in Seq(Words)
    BY <1>3 DEF Message, TypeOK
  <2>2. Append(work, failure) \in Seq(Words)
    BY <2>1, AppendOf
  <2>3. work' = work \/ work' = Append(work, failure)
    BY <1>5
  <2> HIDE DEF Words, failure
  <2>4. work' \in Seq(Words)
    BY <2>1, <2>2, <2>3
  <2>5. told' \subseteq Calls
    BY <1>3, <1>5 DEF TypeOK
  <2> QED
    BY <1>2, <1>5, <1>6, <1>7, <2>4, <2>5 DEF TypeOK, Words
<1>9. NothingLeft'
  BY <1>5, <1>7 DEF NothingLeft
<1>10. Begun' /\ Carried' /\ \A d \in Calls : handler[d] \notin {"none", "runs"} => handler'[d] \notin {"none", "runs"}
  BY <1>5, <1>6, <1>7, GoOn
<1>11. Serves' /\ EntriesFit'
  BY <1>5, <1>6 DEF Serves, Current, EntriesFit
<1>12. Queued'
  <2>1. \A n \in DOMAIN tick : tick[n].call \in Calls
    BY CallOf DEF TypeOK
  <2> QED
    BY <1>5, <1>7, <2>1 DEF Queued
<1>13. Said'
  <2>1. ASSUME NEW n \in DOMAIN work' PROVE Final(work'[n]) => handler'[work'[n].call] \notin {"none", "runs"}
    <3>1. \A k \in DOMAIN work : Final(work[k]) => handler'[work[k].call] \notin {"none", "runs"}
      BY <1>10, SaidOf DEF Said
    <3>2. m.said.kind = "answer" => handler'[c] \notin {"none", "runs"}
      BY <1>3, <1>4, <1>10 DEF Final
    <3>3. failure \in Words /\ failure.call = c /\ work \in Seq(Words)
      BY <1>3 DEF Message, TypeOK
    <3>4. (n \in DOMAIN work /\ work'[n] = work[n]) \/ (m.said.kind = "answer" /\ work'[n] = failure)
      BY <1>5, <3>3, AppendOf
    <3> QED
      BY <3>1, <3>2, <3>3, <3>4
  <2>2. ASSUME NEW n \in DOMAIN Tail(up)
        PROVE  /\ Final(Tail(up)[n].said) => handler'[Tail(up)[n].said.call] \notin {"none", "runs"}
               /\ Tail(up)[n].over = Tail(up)[n].said.call[1]
    BY <1>2, <1>10, <2>2, SaidOf DEF Said
  <2> QED
    BY <1>5, <2>1, <2>2 DEF Said
<1> QED
  BY <1>7, <1>8, <1>9, <1>10, <1>11, <1>12, <1>13

LEMMA EndStep ==
    ASSUME IInv, NEW c \in Calls, End(c) PROVE IInv'
<1> USE DEF IInv
<1>1. /\ handler[c] = "ends" /\ handler' = [handler EXCEPT ![c] = "done"] /\ running' = EntryAfter(c)
      /\ UNCHANGED <<opened, link, closed, call, outcome, timer, grace, heard, tick, down, aborted, told, work, up>>
  BY DEF End, peerVars
<1>2. c[2] \in Ids
  BY CallParts
<1>3. /\ handler' \in [Calls -> {"none", "runs", "answers", "ends", "done"}]
      /\ handler'[c] = "done" /\ \A d \in Calls : d # c => handler'[d] = handler[d]
  BY <1>1 DEF TypeOK
<1>4. /\ running' \in [Ids -> Calls \cup {Idle}]
      /\ \A i \in Ids : running'[i] = running[i] \/ (running[i] = c /\ running'[i] = Idle)
  BY <1>1, <1>2 DEF TypeOK, EntryAfter, Current
<1>5. TypeOK'
  BY <1>1, <1>3, <1>4 DEF TypeOK
<1>6. EntriesFit'
  BY <1>1, <1>4 DEF EntriesFit
<1>7. Serves'
  <2> SUFFICES ASSUME NEW d \in Calls, handler'[d] \in {"runs", "answers"}, d[1] = link
               PROVE  running'[d[2]] = d
    BY <1>1 DEF Serves, Current
  <2>1. d # c /\ d[2] \in Ids
    BY <1>3, CallParts
  <2>2. running[d[2]] = d
    BY <1>3, <2>1 DEF Serves, Current
  <2> QED
    BY <1>4, <2>1, <2>2
<1>8. Begun' /\ Carried' /\ \A d \in Calls : handler[d] \notin {"none", "runs"} => handler'[d] \notin {"none", "runs"}
  BY <1>1, <1>3, GoOn
<1>9. Said'
  BY <1>1, <1>8, SaidOf DEF Said
<1>10. NothingLeft' /\ Queued' /\ NeverMistaken'
  BY <1>1 DEF NothingLeft, Pending, Queued, NeverMistaken
<1> QED
  BY <1>5, <1>6, <1>7, <1>8, <1>9, <1>10

LEMMA LoseStreamStep ==
    ASSUME IInv, LoseStream PROVE IInv'
<1> USE DEF IInv
<1>1. /\ work = <<>> /\ link # 0 /\ link' = 0 /\ down' = [down EXCEPT ![link] = <<>>]
      /\ aborted' = aborted \cup ({running[i] : i \in Ids} \ {Idle}) /\ running' = [i \in Ids |-> Idle]
      /\ UNCHANGED <<opened, closed, call, outcome, timer, grace, heard, tick, handler, told, work, up>>
  BY DEF LoseStream, peerVars
<1>2. down' \in [Streams -> Seq([kind : {"request", "cancel"}, call : Calls])]
  <2> DEFINE S == Seq([kind : {"request", "cancel"}, call : Calls])
  <2>1. down \in [Streams -> S]
    BY DEF TypeOK
  <2>2. <<>> \in S
    OBVIOUS
  <2> HIDE DEF S
  <2>3. down' \in [Streams -> S]
    BY <1>1, <2>1, <2>2
  <2> QED
    BY <2>3 DEF S
<1>3. aborted' \subseteq Calls /\ running' \in [Ids -> Calls \cup {Idle}]
  BY <1>1 DEF TypeOK
<1>4. TypeOK'
  BY <1>1, <1>2, <1>3 DEF TypeOK
<1>5. EntriesFit'
  BY <1>1 DEF EntriesFit
<1>6. Serves'
  BY <1>1, CallParts DEF Serves
<1>7. Carried'
  <2>1. \A s \in Streams : down'[s] = down[s] \/ down'[s] = <<>>
    BY <1>1 DEF TypeOK
  <2>2. Once(<<>>)
    BY DEF Once
  <2> QED
    BY <1>1, <2>1, <2>2 DEF Carried
<1>8. NothingLeft' /\ Begun' /\ Queued' /\ Said' /\ NeverMistaken'
  BY <1>1 DEF NothingLeft, Pending, Begun, Queued, Said, NeverMistaken
<1> QED
  BY <1>4, <1>5, <1>6, <1>7, <1>8

LEMMA OpenStreamStep ==
    ASSUME IInv, OpenStream PROVE IInv'
<1> USE DEF IInv
<1>1. /\ link = 0 /\ opened < MaxStreams /\ opened' = opened + 1 /\ link' = opened + 1
      /\ UNCHANGED <<closed, call, outcome, timer, grace, heard, tick, down, handler, running, aborted, told, work, up>>
  BY DEF OpenStream, peerVars, clientVars
<1>2. opened \in Nat /\ opened' \in Streams /\ 1 .. opened \subseteq 1 .. opened'
  BY <1>1, RpcPeerAssumption DEF TypeOK, Streams
<1>3. TypeOK'
  BY <1>1, <1>2 DEF TypeOK
<1>4. \A i \in Ids : running[i] = Idle
  <2> SUFFICES ASSUME NEW i \in Ids, running[i] # Idle PROVE FALSE
    OBVIOUS
  <2>1. running[i] \in Calls /\ running[i][1] = 0
    BY <1>1 DEF EntriesFit, TypeOK
  <2> QED
    BY <2>1, CallParts
<1>5. EntriesFit'
  BY <1>1, <1>4 DEF EntriesFit
<1>6. \A c \in Calls : c[1] \in Nat /\ (call[c] # "new" => c[1] <= opened)
  BY CallParts DEF Begun
<1>7. Begun'
  <2>1. \A c \in Calls : call[c] # "new" => c[1] <= opened + 1
    BY <1>2, <1>6
  <2> QED
    BY <1>1, <2>1 DEF Begun
<1>8. Serves'
  <2> SUFFICES ASSUME NEW c \in Calls, handler[c] \in {"runs", "answers"}, c[1] = opened + 1
               PROVE  FALSE
    BY <1>1 DEF Serves
  <2>1. c[1] <= opened
    BY <1>6 DEF Begun
  <2> QED
    BY <1>2, <2>1
<1>9. NothingLeft' /\ Queued' /\ Carried' /\ Said' /\ NeverMistaken'
  BY <1>1 DEF NothingLeft, Pending, Queued, Carried, Said, NeverMistaken
<1> QED
  BY <1>3, <1>5, <1>7, <1>8, <1>9

-----------------------------------------------------------------------------
(* All steps. *)

LEMMA EveryStep ==
    ASSUME IInv, [Next]_vars PROVE IInv'
<1>1. ASSUME NEW c \in Calls, Request(c) \/ Abort(c) \/ Return(c) \/ Progress(c) \/ End(c) PROVE IInv'
  BY <1>1, RequestStep, AbortStep, ReturnStep, ProgressStep, EndStep
<1>2. CASE (\E c \in Calls : TimeLimit(c) \/ GraceEnds(c)) \/ (\E s \in Streams : Close(s))
  BY <1>2, TimerSteps
<1>3. CASE Send
  BY <1>3, SendStep
<1>4. CASE Receive
  BY <1>4, ReceiveStep
<1>5. CASE Post
  BY <1>5, PostStep
<1>6. CASE \E lost, fails \in BOOLEAN : Arrive(lost, fails)
  BY <1>6, ArriveStep
<1>7. CASE LoseStream
  BY <1>7, LoseStreamStep
<1>8. CASE OpenStream
  BY <1>8, OpenStreamStep
<1>9. CASE UNCHANGED vars
  <2>1. UNCHANGED <<opened, link, closed, call, outcome, timer, grace, heard, tick, down, handler, running, aborted,
                    told, work, up>>
    BY <1>9 DEF vars, peerVars, clientVars
  <2>2. TypeOK'
    BY <2>1 DEF IInv, TypeOK
  <2>3. NothingLeft' /\ EntriesFit' /\ Serves' /\ Begun' /\ NeverMistaken'
    BY <2>1 DEF IInv, NothingLeft, Pending, EntriesFit, Serves, Current, Begun, NeverMistaken
  <2>4. Queued' /\ Carried' /\ Said'
    BY <2>1 DEF IInv, Queued, Carried, Said
  <2> QED
    BY <2>2, <2>3, <2>4 DEF IInv
<1> QED
  BY <1>1, <1>2, <1>3, <1>4, <1>5, <1>6, <1>7, <1>8, <1>9 DEF Next

LEMMA Start == Init => IInv
<1> SUFFICES ASSUME Init PROVE IInv
  OBVIOUS
<1>1. TypeOK
  <2>1. 1 \in Streams
    BY RpcPeerAssumption DEF Streams
  <2> QED
    BY <2>1 DEF Init, TypeOK
<1>2. NothingLeft /\ EntriesFit /\ Serves /\ Begun /\ NeverMistaken
  BY DEF Init, NothingLeft, Pending, EntriesFit, Serves, Begun, NeverMistaken
<1>3. Queued /\ Said
  BY DEF Init, Queued, Once, Said
<1>4. Carried
  BY DEF Init, Carried, Once
<1> QED
  BY <1>1, <1>2, <1>3, <1>4 DEF IInv

LEMMA Always == Spec => []IInv
<1>1. IInv /\ [Next]_vars => IInv'
  BY EveryStep
<1> QED
  BY <1>1, Start, PTL DEF Spec

\* Types; a call that has ended leaves no timer, no grace period and no listener behind, and none outlives its stream's
\* peer; an answer settles only its own call although ids repeat on later streams; and what the caller took back before
\* it was sent is never carried out (settle, cancel, close and answer of peer.ts).
THEOREM PeerInvariant == Spec => []PeerInv
<1>1. IInv => PeerInv
  <2> SUFFICES ASSUME IInv PROVE PeerInv
    OBVIOUS
  <2>1. \A n \in DOMAIN up : Named(up[n].over, up[n].said) = up[n].said.call
    <3> SUFFICES ASSUME NEW n \in DOMAIN up PROVE <<up[n].over, up[n].said.call[2]>> = up[n].said.call
      BY DEF Named
    <3>1. up[n].said.call \in Calls /\ up[n].over = up[n].said.call[1]
      BY SaidOf DEF IInv, Said
    <3> QED
      BY <3>1, CallParts
  <2> QED
    BY <2>1 DEF IInv, PeerInv, OwnAnswers, NeverMistaken, WithdrawnNeverRuns, Begun
<1> QED
  BY <1>1, Always, PTL

\* While its stream lasts a handler is never silenced: its result finds its own entry (answer of peer.ts).
THEOREM SilencedOnly == Spec => SilencedOnlyWithStream
<1>1. IInv /\ [Next]_vars => [\A c \in Calls : handler[c] = "runs" /\ handler'[c] = "ends" => link # c[1]]_vars
  <2> SUFFICES ASSUME IInv, Next, NEW c \in Calls, handler[c] = "runs", handler'[c] = "ends"
               PROVE  link # c[1]
    BY DEF vars, clientVars
  <2> USE DEF IInv
  <2>1. ASSUME NEW d \in Calls, Request(d) \/ Abort(d) \/ TimeLimit(d) \/ GraceEnds(d) \/ Progress(d) PROVE FALSE
    BY <2>1 DEF Request, Abort, TimeLimit, GraceEnds, Progress, clientVars
  <2>2. CASE Send \/ LoseStream \/ OpenStream \/ \E s \in Streams : Close(s)
    BY <2>2 DEF Send, LoseStream, OpenStream, Close, clientVars
  <2>3. CASE Receive
    BY <2>3 DEF Receive, TypeOK
  <2>4. CASE Post
    <3>1. work # <<>> /\ work \in Seq([kind : {"progress", "answer", "failure"}, call : Calls])
      BY <2>4 DEF Post, TypeOK
    <3>2. 1 \in DOMAIN work /\ Head(work) = work[1]
      BY <3>1, TailOf
    <3> QED
      BY <2>4, <3>2 DEF Post, TypeOK, Said
  <2>5. ASSUME NEW lost \in BOOLEAN, NEW fails \in BOOLEAN, Arrive(lost, fails) PROVE FALSE
    <3>1. up # <<>> /\ up \in Seq([over : Streams, said : [kind : {"progress", "answer", "failure"}, call : Calls]])
      BY <2>5 DEF Arrive, TypeOK
    <3>2. 1 \in DOMAIN up /\ Head(up) = up[1]
      BY <3>1, TailOf
    <3> QED
      BY <2>5, <3>2 DEF Arrive, TypeOK, Said
  <2>6. ASSUME NEW d \in Calls, Return(d) PROVE link # c[1]
    BY <2>6 DEF Return, TypeOK, Serves
  <2>7. ASSUME NEW d \in Calls, End(d) PROVE FALSE
    BY <2>7 DEF End, TypeOK
  <2> QED
    BY <2>1, <2>2, <2>3, <2>4, <2>5, <2>6, <2>7 DEF Next
<1> QED
  BY <1>1, Always, PTL DEF Spec, SilencedOnlyWithStream
=============================================================================
