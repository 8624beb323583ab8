--------------------------- MODULE RpcChannel_proofs ---------------------------
(***************************************************************************)
(* The subscriptions of a client and their requests at the server: for any *)
(* finite set of subscriptions and any number of streams, requests,        *)
(* changes and faults.                                                     *)
(***************************************************************************)
EXTENDS RpcChannel, FiniteSetTheorems, SequenceTheorems, TLAPS

\* What is known of the requests of a client: nothing before they are made; a
\* subscription waits for the answer to one that it has not read and is bound to
\* one that it has, and neither has been ended.
Requests ==
    /\ Len(asked) <= MaxBinds
    /\ \A b \in Binds \ Made : state[b] = "none"
    /\ \A b \in Binds : state[b] \in {"none", "sent"} => answer[b] = "none"
    /\ \A b \in ends : answer[b] = "read"
    /\ conn = 0 => again = {}
    /\ \A b \in Made : state[b] = "opening" => answer[b] = "none" \/ On(b) \in closed
    /\ \A b \in Made : answer[b] = "ok" => state[b] \in {"held", "revoked"} \/ On(b) \in closed
    /\ \A s \in Subs :
        /\ binding[s] # 0 => answer[binding[s]] # "read"
        /\ bound[s] # 0 => answer[bound[s]] = "read" /\ bound[s] \notin ends

IInv == TypeOK /\ ListenersServe /\ BoundIsPresent /\ Requests

-----------------------------------------------------------------------------
(* Sequences and sets *)

LEMMA ElementsOf ==
    ASSUME NEW S, NEW q \in Seq(S)
    PROVE  /\ DOMAIN q = 1..Len(q) /\ Len(q) \in Nat
           /\ \A n \in DOMAIN q : q[n] \in S /\ q[n] \in Range(q)
           /\ Range(q) \subseteq S
           /\ \A v \in Range(q) : \E n \in DOMAIN q : q[n] = v
<1>1. DOMAIN q = 1..Len(q) /\ Len(q) \in Nat /\ \A n \in DOMAIN q : q[n] \in S
  OBVIOUS
<1> QED
  BY <1>1 DEF Range

LEMMA ListOf ==
    ASSUME NEW S, IsFiniteSet(S)
    PROVE  /\ SetToSeq(S) \in Seq(S)
           /\ IsInjective(SetToSeq(S))
           /\ Range(SetToSeq(S)) = S
<1>1. Cardinality(S) \in Nat /\ ExistsBijection(1..Cardinality(S), S)
  BY FS_CardinalityType
<1>2. PICK f \in Bijection(1..Cardinality(S), S) : TRUE
  BY <1>1 DEF ExistsBijection
<1>3. f \in [1..Cardinality(S) -> S] /\ IsInjective(f)
  BY <1>2 DEF Bijection, Injection, IsInjective
<1>4. SetToSeq(S) \in [1..Cardinality(S) -> S] /\ IsInjective(SetToSeq(S))
  BY <1>3 DEF SetToSeq
<1> DEFINE q == SetToSeq(S)
<1>5. q \in Seq(S)
  BY <1>1, <1>4
<1>6. q \in Injection(1..Cardinality(S), S) /\ IsFiniteSet(1..Cardinality(S)) /\ Cardinality(1..Cardinality(S)) = Cardinality(S)
  <2>1. q \in Injection(1..Cardinality(S), S)
    BY <1>4 DEF Injection, IsInjective
  <2>2. IsFiniteSet(1..Cardinality(S)) /\ Cardinality(1..Cardinality(S)) = Cardinality(S)
    BY <1>1, FS_Interval
  <2> QED
    BY <2>1, <2>2
<1>7. q \in Surjection(1..Cardinality(S), S)
  BY <1>6, FS_Injection
<1>8. Range(q) = S
  BY <1>4, <1>7 DEF Surjection, Range
<1> QED
  BY <1>4, <1>5, <1>8

-----------------------------------------------------------------------------
(* The requests bind makes *)

Asked(top) == [sub : Subs, over : 1..top]

LEMMA BindAdds ==
    ASSUME asked \in Seq(Asked(opened)), Len(asked) <= MaxBinds,
           opened \in Nat, NEW top \in Nat, opened <= top,
           NEW ss \in SUBSET Subs, NEW g \in 1..top, Bind(ss, g)
    PROVE  /\ asked' \in Seq(Asked(top)) /\ Len(asked') <= MaxBinds /\ Made \subseteq Made' /\ Made' \subseteq Binds
           /\ \A b \in Made : asked'[b] = asked[b]
           /\ \E number \in [ss -> Made' \ Made] :
                /\ \A s \in ss : asked'[number[s]] = [sub |-> s, over |-> g]
                /\ binding' = [s \in Subs |-> IF s \in ss THEN number[s] ELSE binding[s]]
                /\ state' = [b \in Binds |-> IF b \in Made' \ Made THEN "sent" ELSE state[b]]
<1> DEFINE order == SetToSeq(ss)
           new == [n \in DOMAIN order |-> [sub |-> order[n], over |-> g]]
           place(s) == CHOOSE n \in DOMAIN order : order[n] = s
           number == [s \in ss |-> Len(asked) + place(s)]
<1>1. IsFiniteSet(ss)
  BY RpcChannelAssumption, FS_Subset
<1>2. order \in Seq(ss) /\ Range(order) = ss /\ IsInjective(order)
  BY <1>1, ListOf
<1>3. /\ DOMAIN order = 1..Len(order) /\ Len(order) \in Nat
      /\ \A n \in DOMAIN order : order[n] \in ss
      /\ \A s \in ss : \E n \in DOMAIN order : order[n] = s
  BY <1>2, ElementsOf
<1>4. \A s \in ss : place(s) \in DOMAIN order /\ order[place(s)] = s
  BY <1>3
<1>5. /\ Len(asked) + Len(order) <= MaxBinds
      /\ asked' = asked \o new
      /\ binding' = [s \in Subs |-> IF s \in ss THEN number[s] ELSE binding[s]]
      /\ state' = [b \in Binds |-> IF \E s \in ss : number[s] = b THEN "sent" ELSE state[b]]
  BY DEF Bind
<1> HIDE DEF order, place
<1>6. new \in Seq(Asked(top)) /\ Len(new) = Len(order)
  <2>1. \A n \in 1..Len(order) : [sub |-> order[n], over |-> g] \in Asked(top)
    BY <1>3 DEF Asked
  <2> QED
    BY <1>3, <2>1
<1> HIDE DEF new
<1>7. asked \in Seq(Asked(top))
  <2>1. Asked(opened) \subseteq Asked(top)
    BY DEF Asked
  <2> QED
    BY <2>1, SeqMonotonic
<1>8. /\ asked' \in Seq(Asked(top)) /\ Len(asked') = Len(asked) + Len(order)
      /\ \A n \in 1..(Len(asked) + Len(order)) : asked'[n] = IF n <= Len(asked) THEN asked[n] ELSE new[n - Len(asked)]
  <2>1. asked' = asked \o new /\ asked \in Seq(Asked(top)) /\ new \in Seq(Asked(top)) /\ Len(new) = Len(order)
    BY <1>5, <1>6, <1>7
  <2>2. /\ asked \o new \in Seq(Asked(top)) /\ Len(asked \o new) = Len(asked) + Len(new)
        /\ \A n \in 1..(Len(asked) + Len(new)) : (asked \o new)[n] = IF n <= Len(asked) THEN asked[n] ELSE new[n - Len(asked)]
    BY <2>1, ConcatProperties
  <2> QED
    BY <2>1, <2>2
<1>9. Len(asked) \in Nat /\ Made = 1..Len(asked) /\ Made' = 1..(Len(asked) + Len(order))
  BY <1>7, <1>8, ElementsOf DEF Made
<1>10. MaxBinds \in Nat
  BY RpcChannelAssumption
<1>11. Len(asked') <= MaxBinds /\ Made \subseteq Made' /\ Made' \subseteq Binds
  <2>1. Len(asked) + Len(order) <= MaxBinds
    BY <1>5
  <2> QED
    BY <1>3, <1>8, <1>9, <1>10, <2>1 DEF Binds
<1>12. \A b \in Made : asked'[b] = asked[b]
  BY <1>3, <1>8, <1>9
<1>13. ASSUME NEW s \in ss
       PROVE  /\ number[s] \in Made' \ Made
              /\ asked'[number[s]] = [sub |-> s, over |-> g]
  <2>1. place(s) \in 1..Len(order) /\ order[place(s)] = s
    BY <1>3, <1>4
  <2>2. /\ number[s] \in 1..(Len(asked) + Len(order)) /\ ~(number[s] <= Len(asked))
        /\ number[s] - Len(asked) = place(s)
    BY <1>3, <1>9, <2>1
  <2>3. asked'[number[s]] = new[place(s)]
    BY <1>8, <2>2
  <2>4. new[place(s)] = [sub |-> s, over |-> g]
    BY <1>3, <2>1 DEF new
  <2> QED
    BY <1>9, <2>2, <2>3, <2>4
<1>14. number \in [ss -> Made' \ Made]
  BY <1>13
<1>15. ASSUME NEW b \in Made' \ Made PROVE \E s \in ss : number[s] = b
  <2>1. b \in Nat /\ Len(asked) + 1 <= b /\ b <= Len(asked) + Len(order)
    BY <1>3, <1>9
  <2>2. PICK n \in Nat : b = Len(asked) + n /\ n \in DOMAIN order
    <3>1. b - Len(asked) \in Nat /\ b = Len(asked) + (b - Len(asked)) /\ b - Len(asked) \in DOMAIN order
      BY <1>3, <1>9, <2>1
    <3> QED
      BY <3>1
  <2>3. order[n] \in ss /\ place(order[n]) = n
    BY <1>2, <1>3, <1>4, <2>2 DEF IsInjective
  <2> QED
    BY <2>2, <2>3
<1>16. state' = [b \in Binds |-> IF b \in Made' \ Made THEN "sent" ELSE state[b]]
  <2>1. \A b \in Binds : (\E s \in ss : number[s] = b) <=> b \in Made' \ Made
    BY <1>13, <1>15
  <2> HIDE DEF number
  <2> QED
    BY <1>5, <2>1
<1> HIDE DEF number
<1> QED
  BY <1>5, <1>8, <1>11, <1>12, <1>13, <1>14, <1>16

LEMMA RequestOf ==
    ASSUME TypeOK, Len(asked) <= MaxBinds, NEW b \in Made
    PROVE  /\ b \in Binds /\ b \in Nat /\ b # 0 /\ Of(b) \in Subs /\ On(b) \in 1..opened /\ On(b) \in Streams
           /\ opened \in Nat /\ Len(asked) \in Nat /\ MaxBinds \in Nat /\ MaxStreams \in Nat
<1>1. /\ asked \in Seq([sub : Subs, over : 1..opened]) /\ opened \in 0..MaxStreams
      /\ MaxBinds \in Nat /\ MaxStreams \in Nat
  BY RpcChannelAssumption DEF TypeOK
<1>2. Made = 1..Len(asked) /\ Len(asked) \in Nat /\ asked[b] \in [sub : Subs, over : 1..opened]
  BY <1>1, ElementsOf DEF Made
<1>3. asked[b].sub \in Subs /\ asked[b].over \in 1..opened
  BY <1>2
<1> QED
  BY <1>1, <1>2, <1>3 DEF Binds, Streams, Of, On

\* The request a subscription waits for, or is bound to.
LEMMA BoundOf ==
    ASSUME TypeOK, BoundIsPresent, Len(asked) <= MaxBinds, NEW s \in Subs, NEW b \in {bound[s], binding[s]} \ {0}
    PROVE  /\ b \in Made /\ b \in Binds /\ Of(b) = s /\ On(b) = conn /\ sub[s] = "wanted"
           /\ conn # 0 /\ conn = opened /\ conn \in 1..opened
<1>1. Made = 1..Len(asked) /\ Len(asked) \in Nat
  BY ElementsOf DEF TypeOK, Made
<1>2. b \in Made
  BY <1>1 DEF TypeOK
<1>3. sub[s] = "wanted" /\ Of(b) = s /\ On(b) = conn
  BY DEF BoundIsPresent
<1>4. On(b) \in 1..opened /\ b \in Binds /\ opened \in Nat
  BY <1>2, RequestOf
<1>5. conn \in {0, opened}
  BY DEF TypeOK
<1> QED
  BY <1>2, <1>3, <1>4, <1>5

LEMMA BindKeeps ==
    ASSUME IInv, NEW ss \in SUBSET Subs, NEW g \in Streams, Bind(ss, g),
           conn' = g, opened' = g, opened <= g, conn \in {0, g},
           sub' \in [Subs -> {"none", "wanted", "released"}],
           \A s \in ss : sub'[s] = "wanted" /\ bound[s] = 0 /\ binding[s] = 0 /\ s \notin again',
           \A s \in Wanted : sub'[s] = "wanted",
           again' \subseteq again,
           UNCHANGED <<keeps, bound, early, seen, answer, serverVars, wireVars, closed, value, expired, faults>>
    PROVE  IInv'
<1> USE DEF IInv
<1>1. /\ UNCHANGED <<keeps, bound, early, seen, answer, listening, buffer, flush, signal, from>>
      /\ UNCHANGED <<cut, ends, stream, closed, value, expired, faults>>
  BY DEF serverVars, wireVars
<1>2. /\ asked \in Seq(Asked(opened)) /\ Len(asked) <= MaxBinds /\ opened \in Nat /\ g \in Nat /\ g \in 1..g
      /\ MaxStreams \in Nat /\ g <= MaxStreams /\ g # 0
  BY RpcChannelAssumption DEF TypeOK, Asked, Requests, Streams
<1>3. /\ asked' \in Seq(Asked(g)) /\ Len(asked') <= MaxBinds /\ Made \subseteq Made' /\ Made' \subseteq Binds
      /\ \A b \in Made : asked'[b] = asked[b]
      /\ \E number \in [ss -> Made' \ Made] :
           /\ \A s \in ss : asked'[number[s]] = [sub |-> s, over |-> g]
           /\ binding' = [s \in Subs |-> IF s \in ss THEN number[s] ELSE binding[s]]
           /\ state' = [b \in Binds |-> IF b \in Made' \ Made THEN "sent" ELSE state[b]]
  BY <1>2, BindAdds
<1>4. PICK number \in [ss -> Made' \ Made] :
         /\ \A s \in ss : asked'[number[s]] = [sub |-> s, over |-> g]
         /\ binding' = [s \in Subs |-> IF s \in ss THEN number[s] ELSE binding[s]]
         /\ state' = [b \in Binds |-> IF b \in Made' \ Made THEN "sent" ELSE state[b]]
  BY <1>3
<1>5. /\ Made = 1..Len(asked) /\ Len(asked) \in Nat /\ Made' = 1..Len(asked') /\ Len(asked') \in Nat
      /\ 0..Len(asked) \subseteq 0..Len(asked')
  <2>1. Made = 1..Len(asked) /\ Len(asked) \in Nat /\ Made' = 1..Len(asked') /\ Len(asked') \in Nat
    BY <1>2, <1>3, ElementsOf DEF Made
  <2>2. Len(asked) <= Len(asked')
    BY <1>3, <2>1
  <2> QED
    BY <2>1, <2>2
<1>6. \A b \in Made : Of(b)' = Of(b) /\ On(b)' = On(b) /\ state'[b] = state[b]
  BY <1>3, <1>4 DEF Of, On
<1>7. ASSUME NEW s \in ss PROVE Of(number[s])' = s /\ On(number[s])' = g /\ state'[number[s]] = "sent" /\ number[s] # 0
  <2>1. number[s] \in Made' \ Made /\ number[s] \in Binds /\ asked'[number[s]] = [sub |-> s, over |-> g]
    BY <1>3, <1>4
  <2>2. asked'[number[s]].sub = s /\ asked'[number[s]].over = g
    BY <2>1
  <2>3. state'[number[s]] = "sent"
    BY <1>4, <2>1
  <2>4. number[s] # 0
    BY <1>5, <2>1
  <2> QED
    BY <2>2, <2>3, <2>4 DEF Of, On
<1>8. ASSUME NEW h PROVE Held(h)' = Held(h)
  <2>1. \A b \in Made' \ Made : state'[b] = "sent"
    BY <1>3, <1>4
  <2> QED
    BY <1>3, <1>6, <2>1, ZenonT(60) DEF Held
<1>9. TypeOK'
  <2>1. bound' \in [Subs -> 0..Len(asked')] /\ binding' \in [Subs -> 0..Len(asked')]
    <3>1. bound \in [Subs -> 0..Len(asked)] /\ binding \in [Subs -> 0..Len(asked)]
      BY DEF TypeOK
    <3>2. \A s \in ss : number[s] \in 0..Len(asked')
      BY <1>4, <1>5
    <3> QED
      BY <1>1, <1>4, <1>5, <3>1, <3>2
  <2>2. again' \subseteq Wanted'
    BY DEF Wanted, TypeOK
  <2>3. asked' \in Seq([sub : Subs, over : 1..opened'])
    BY <1>3 DEF Asked
  <2>4. state' \in [Binds -> {"none", "sent", "opening", "held", "revoked", "over"}]
    BY <1>4 DEF TypeOK
  <2>5. listening' \cup flush' \cup signal' \cup cut' \cup ends' \subseteq Made' /\ expired' \subseteq Made'
    BY <1>1, <1>3 DEF TypeOK
  <2>6. stream' \in [Streams -> Seq([of : Made', says : 0..value'])]
    <3>1. ASSUME NEW h \in Streams PROVE stream[h] \in Seq([of : Made', says : 0..value])
      <4>1. stream[h] \in Seq([of : Made, says : 0..value])
        BY DEF TypeOK
      <4>2. [of : Made, says : 0..value] \subseteq [of : Made', says : 0..value]
        BY <1>3
      <4> QED
        BY <4>1, <4>2, SeqMonotonic, ZenonT(60)
    <3>2. stream \in [Streams -> Seq([of : Made, says : 0..value])]
      BY DEF TypeOK
    <3> QED
      BY <1>1, <3>1, <3>2
  <2>7. closed' \subseteq 1..opened' /\ opened' \in 0..MaxStreams /\ conn' \in {0, opened'}
    BY <1>1, <1>2 DEF TypeOK
  <2> QED
    BY <1>1, <2>1, <2>2, <2>3, <2>4, <2>5, <2>6, <2>7 DEF TypeOK
<1>10. ListenersServe'
  BY <1>1, <1>4, <1>6, <1>8 DEF ListenersServe, TypeOK
<1>11. BoundIsPresent'
  <2> SUFFICES ASSUME NEW s \in Subs
               PROVE  /\ \A b \in {bound'[s], binding'[s]} \ {0} : sub'[s] = "wanted" /\ Of(b)' = s /\ On(b)' = conn'
                      /\ bound'[s] # 0 \/ binding'[s] # 0 => s \notin again' /\ 0 \in {bound'[s], binding'[s]}
                      /\ bound'[s] # 0 => (state'[bound'[s]] \in {"held", "revoked"} \/ conn' \in closed')
    BY DEF BoundIsPresent
  <2>1. CASE s \in ss
    BY <1>1, <1>4, <1>7, <2>1
  <2>2. CASE s \notin ss
    <3>1. bound'[s] = bound[s] /\ binding'[s] = binding[s]
      BY <1>1, <1>4, <2>2
    <3>2. ASSUME NEW b \in {bound[s], binding[s]} \ {0}
          PROVE  /\ b \in Made /\ Of(b) = s /\ On(b) = conn /\ sub[s] = "wanted" /\ conn = g
      BY BoundOf DEF Requests
    <3>3. ASSUME NEW b \in {bound[s], binding[s]} \ {0}
          PROVE  sub'[s] = "wanted" /\ Of(b)' = s /\ On(b)' = conn' /\ state'[b] = state[b]
      BY <1>6, <3>2 DEF Wanted
    <3> QED
      BY <1>1, <3>1, <3>2, <3>3 DEF BoundIsPresent
  <2> QED
    BY <2>1, <2>2
<1>12. Requests'
  <2>1. \A b \in Binds \ Made' : state'[b] = "none" /\ answer'[b] = "none"
    BY <1>1, <1>3, <1>4 DEF Requests
  <2>2. \A b \in Made' : answer'[b] = "ok" => state'[b] \in {"held", "revoked"} \/ On(b)' \in closed'
    <3>1. \A b \in Made' \ Made : answer'[b] # "ok"
      BY <1>1, <1>3 DEF Requests
    <3> QED
      BY <1>1, <1>6, <3>1 DEF Requests
  <2>3. ASSUME NEW s \in Subs
        PROVE  /\ binding'[s] # 0 => answer'[binding'[s]] # "read"
               /\ bound'[s] # 0 => answer'[bound'[s]] = "read" /\ bound'[s] \notin ends'
    <3>1. CASE s \in ss
      <4>1. binding'[s] = number[s] /\ bound'[s] = 0
        BY <1>1, <1>4, <3>1
      <4>2. number[s] \in Binds \ Made /\ number[s] \notin ends
        BY <1>3, <1>4, <3>1 DEF TypeOK
      <4> QED
        BY <1>1, <4>1, <4>2 DEF Requests
    <3>2. CASE s \notin ss
      BY <1>1, <1>4, <3>2 DEF Requests
    <3> QED
      BY <3>1, <3>2
  <2>4. conn' # 0
    BY <1>2
  <2>5. \A b \in Binds : state'[b] \in {"none", "sent"} => answer'[b] = "none"
    BY <1>1, <1>4 DEF Requests
  <2>6. \A b \in ends' : answer'[b] = "read"
    BY <1>1 DEF Requests
  <2>7. \A b \in Made' : state'[b] = "opening" => answer'[b] = "none" \/ On(b)' \in closed'
    <3>1. \A b \in Made' \ Made : state'[b] = "sent"
      BY <1>3, <1>4
    <3> QED
      BY <1>1, <1>6, <3>1 DEF Requests
  <2> QED
    BY <1>3, <2>1, <2>2, <2>3, <2>4, <2>5, <2>6, <2>7 DEF Requests
<1> QED
  BY <1>9, <1>10, <1>11, <1>12

LEMMA SubscribeKeeps ==
    ASSUME IInv, NEW s \in Subs, Subscribe(s)
    PROVE  IInv'
<1> USE DEF IInv
<1>1. /\ sub[s] = "none" /\ sub' = [sub EXCEPT ![s] = "wanted"]
      /\ UNCHANGED <<keeps, conn, bound, again, early, seen, answer, serverVars, wireVars, opened, closed, value, expired, faults>>
  BY DEF Subscribe
<1>2. /\ sub \in [Subs -> {"none", "wanted", "released"}] /\ conn \in {0, opened} /\ opened \in 0..MaxStreams
      /\ MaxStreams \in Nat /\ again \subseteq Wanted
  BY RpcChannelAssumption DEF TypeOK
<1>3. /\ sub' \in [Subs -> {"none", "wanted", "released"}] /\ sub'[s] = "wanted"
      /\ \A r \in Wanted : sub'[r] = "wanted"
  BY <1>1, <1>2 DEF Wanted
<1>4. bound[s] = 0 /\ binding[s] = 0 /\ s \notin again
  <2>1. s \notin again
    BY <1>1, <1>2 DEF Wanted
  <2>2. bound[s] = 0 /\ binding[s] = 0
    BY <1>1 DEF BoundIsPresent
  <2> QED
    BY <2>1, <2>2
<1>5. CASE conn # 0
  <2>1. Bind({s}, conn)
    BY <1>5 DEF Subscribe
  <2>2. {s} \in SUBSET Subs /\ conn \in Streams /\ opened' = conn /\ conn' = conn /\ opened <= conn
    BY <1>1, <1>2, <1>5 DEF Streams
  <2> QED
    BY <1>1, <1>3, <1>4, <2>1, <2>2, BindKeeps
<1>6. CASE conn = 0
  <2>1. UNCHANGED <<asked, binding, state>>
    BY <1>6 DEF Subscribe
  <2>2. TypeOK'
    BY <1>1, <1>3, <2>1 DEF TypeOK, Made, Wanted, serverVars, wireVars
  <2>3. ListenersServe'
    BY <1>1, <2>1 DEF ListenersServe, Held, Made, On, serverVars
  <2>4. BoundIsPresent'
    BY <1>1, <1>3, <2>1 DEF BoundIsPresent, Of, On, Wanted
  <2>5. Requests'
    BY <1>1, <2>1 DEF Requests, On, Made, wireVars
  <2> QED
    BY <2>2, <2>3, <2>4, <2>5
<1> QED
  BY <1>5, <1>6

LEMMA ConnectKeeps ==
    ASSUME IInv, Connect
    PROVE  IInv'
<1> USE DEF IInv
<1>1. /\ conn = 0 /\ opened < MaxStreams /\ opened' = opened + 1 /\ conn' = opened + 1
      /\ Bind(Unasked, opened + 1)
      /\ UNCHANGED <<keeps, sub, bound, again, early, seen, answer, serverVars, wireVars, closed, value, expired, faults>>
  BY DEF Connect
<1>2. sub \in [Subs -> {"none", "wanted", "released"}] /\ opened \in 0..MaxStreams /\ MaxStreams \in Nat
  BY RpcChannelAssumption DEF TypeOK
<1>3. again = {}
  BY <1>1 DEF Requests
<1>4. Unasked \in SUBSET Subs /\ opened + 1 \in Streams /\ opened <= opened + 1 /\ conn \in {0, opened + 1}
  BY <1>1, <1>2 DEF Unasked, Wanted, Streams
<1>5. \A s \in Unasked : sub'[s] = "wanted" /\ bound[s] = 0 /\ binding[s] = 0 /\ s \notin again'
  BY <1>1, <1>3 DEF Unasked, Wanted
<1>6. /\ \A s \in Wanted : sub'[s] = "wanted"
      /\ again' \subseteq again /\ sub' \in [Subs -> {"none", "wanted", "released"}]
  BY <1>1, <1>2 DEF Wanted
<1> QED
  BY <1>1, <1>4, <1>5, <1>6, BindKeeps

LEMMA RetryKeeps ==
    ASSUME IInv, NEW s \in Subs, Retry(s)
    PROVE  IInv'
<1> USE DEF IInv
<1>1. /\ s \in again /\ again' = again \ {s} /\ Bind({s}, conn)
      /\ UNCHANGED <<keeps, sub, conn, bound, early, seen, answer, serverVars, wireVars, opened, closed, value, expired, faults>>
  BY DEF Retry
<1>2. /\ sub \in [Subs -> {"none", "wanted", "released"}] /\ conn \in {0, opened} /\ opened \in 0..MaxStreams
      /\ MaxStreams \in Nat /\ again \subseteq Wanted
  BY RpcChannelAssumption DEF TypeOK
<1>3. conn # 0
  BY <1>1 DEF Requests
<1>4. {s} \in SUBSET Subs /\ conn \in Streams /\ conn' = conn /\ opened' = conn /\ opened <= conn /\ conn \in {0, conn}
  BY <1>1, <1>2, <1>3 DEF Streams
<1>5. sub'[s] = "wanted" /\ bound[s] = 0 /\ binding[s] = 0 /\ s \notin again'
  BY <1>1, <1>2 DEF Wanted, BoundIsPresent
<1>6. /\ \A r \in Wanted : sub'[r] = "wanted"
      /\ again' \subseteq again /\ sub' \in [Subs -> {"none", "wanted", "released"}]
  BY <1>1, <1>2 DEF Wanted
<1> QED
  BY <1>1, <1>4, <1>5, <1>6, BindKeeps

-----------------------------------------------------------------------------
(* What the client does without making a request *)

\* What happens to a subscription when a request is given up or refused, or the stream ends.
LetGo(s) == bound'[s] = 0 /\ binding'[s] = 0 /\ s \notin again'
Kept(s) ==
    /\ conn' = conn /\ sub'[s] = sub[s]
    /\ bound'[s] = bound[s] /\ binding'[s] = binding[s] /\ (s \in again' => s \in again)
Postponed(s) ==
    /\ conn' = conn /\ sub'[s] = sub[s]
    /\ binding[s] # 0 /\ bound'[s] = 0 /\ binding'[s] = 0

LEMMA LessBound ==
    ASSUME IInv,
           \A s \in Subs : LetGo(s) \/ Kept(s) \/ Postponed(s),
           \A s \in Subs : bound'[s] # 0 => bound'[s] \notin ends',
           \A b \in ends' : answer'[b] = "read",
           \A b \in Binds : answer'[b] = answer[b] \/ (answer'[b] = "read" /\ answer[b] # "none" /\ \A s \in Subs : binding'[s] # b),
           sub' \in [Subs -> {"none", "wanted", "released"}], conn' \in {0, conn}, again' \subseteq Subs,
           bound' \in [Subs -> Nat], binding' \in [Subs -> Nat],
           answer' \in [Binds -> {"none", "ok", "refused", "read"}],
           cut' \subseteq Made, ends' \subseteq Made,
           early' \in [Binds -> Seq(0..value)], stream' \in [Streams -> Seq([of : Made, says : 0..value])],
           faults' \in 0..MaxFaults,
           UNCHANGED <<keeps, seen, asked, state, serverVars, opened, closed, value, expired>>
    PROVE  IInv'
<1> USE DEF IInv
<1>1. /\ UNCHANGED <<keeps, seen, asked, state, listening, buffer, flush, signal, from, opened, closed, value, expired>>
      /\ Made' = Made /\ \A b \in Made : Of(b)' = Of(b) /\ On(b)' = On(b)
  BY DEF serverVars, Made, Of, On
<1>2. ASSUME NEW s \in Subs, NEW b \in {bound[s], binding[s]} \ {0}
      PROVE  b \in Made /\ b \in Binds /\ Of(b) = s /\ On(b) = conn /\ sub[s] = "wanted" /\ conn # 0
  BY BoundOf DEF Requests
<1>3. \A s \in Subs : (sub[s] = "wanted" /\ conn # 0) \/ (bound[s] = 0 /\ binding[s] = 0 /\ s \notin again)
  BY <1>2 DEF TypeOK, Wanted, Requests
<1>4. \A s \in Subs : bound'[s] \in {0, bound[s]} /\ binding'[s] \in {0, binding[s]}
  BY DEF LetGo, Kept, Postponed
<1>5. TypeOK'
  <2>1. bound' \in [Subs -> 0..Len(asked)] /\ binding' \in [Subs -> 0..Len(asked)]
    <3>1. Made = 1..Len(asked) /\ Len(asked) \in Nat
      BY ElementsOf DEF TypeOK, Made
    <3>2. \A s \in Subs : bound[s] \in 0..Len(asked) /\ binding[s] \in 0..Len(asked) /\ 0 \in 0..Len(asked)
      BY <3>1 DEF TypeOK
    <3>3. \A s \in Subs : bound'[s] \in 0..Len(asked) /\ binding'[s] \in 0..Len(asked)
      BY <1>4, <3>2
    <3> QED
      BY <1>1, <3>3
  <2>2. again' \subseteq Wanted'
    <3>1. \A s \in again' : sub'[s] = "wanted"
      BY <1>3 DEF LetGo, Kept, Postponed
    <3> QED
      BY <3>1 DEF Wanted
  <2>3. conn' \in {0, opened'}
    BY <1>1 DEF TypeOK
  <2>4. listening' \cup flush' \cup signal' \cup cut' \cup ends' \subseteq Made'
    BY <1>1 DEF TypeOK
  <2>5. stream' \in [Streams -> Seq([of : Made', says : 0..value'])]
    BY <1>1
  <2> QED
    BY <1>1, <2>1, <2>2, <2>3, <2>4, <2>5, ZenonT(60) DEF TypeOK
<1>6. ListenersServe'
  BY <1>1 DEF ListenersServe, Held
<1>7. BoundIsPresent'
  <2> SUFFICES ASSUME NEW s \in Subs
               PROVE  /\ \A b \in {bound'[s], binding'[s]} \ {0} : sub'[s] = "wanted" /\ Of(b)' = s /\ On(b)' = conn'
                      /\ bound'[s] # 0 \/ binding'[s] # 0 => s \notin again' /\ 0 \in {bound'[s], binding'[s]}
                      /\ bound'[s] # 0 => (state'[bound'[s]] \in {"held", "revoked"} \/ conn' \in closed')
    BY DEF BoundIsPresent
  <2>1. CASE bound'[s] = 0 /\ binding'[s] = 0
    BY <2>1
  <2>2. CASE Kept(s)
    <3>1. sub'[s] = sub[s] /\ conn' = conn /\ bound'[s] = bound[s] /\ binding'[s] = binding[s] /\ (s \in again' => s \in again)
      BY <2>2 DEF Kept
    <3>2. \A b \in {bound[s], binding[s]} \ {0} : sub[s] = "wanted" /\ Of(b)' = s /\ On(b)' = conn
      BY <1>1, <1>2
    <3>3. /\ bound[s] # 0 \/ binding[s] # 0 => s \notin again /\ 0 \in {bound[s], binding[s]}
          /\ bound[s] # 0 => (state[bound[s]] \in {"held", "revoked"} \/ conn \in closed)
      BY DEF BoundIsPresent
    <3> QED
      BY <1>1, <3>1, <3>2, <3>3
  <2> QED
    BY <2>1, <2>2 DEF LetGo, Postponed
<1>8. Requests'
  <2>1. /\ \A b \in Binds \ Made' : state'[b] = "none"
        /\ \A b \in Binds : state'[b] \in {"none", "sent"} => answer'[b] = "none"
    BY <1>1 DEF Requests
  <2>2. \A b \in Made' : answer'[b] = "ok" => state'[b] \in {"held", "revoked"} \/ On(b)' \in closed'
    <3>1. Made \subseteq Binds
      BY RequestOf DEF Requests
    <3>2. \A b \in Made : answer'[b] = "ok" => answer[b] = "ok"
      BY <3>1
    <3>3. \A b \in Made : answer[b] = "ok" => state[b] \in {"held", "revoked"} \/ On(b) \in closed
      BY DEF Requests
    <3> QED
      BY <1>1, <3>2, <3>3
  <2>3. ASSUME NEW s \in Subs
        PROVE  /\ binding'[s] # 0 => answer'[binding'[s]] # "read"
               /\ bound'[s] # 0 => answer'[bound'[s]] = "read" /\ bound'[s] \notin ends'
    <3>1. binding'[s] # 0 => answer'[binding'[s]] = answer[binding'[s]] /\ binding'[s] = binding[s]
      BY <1>2, <1>4
    <3>2. bound'[s] # 0 => bound'[s] = bound[s] /\ answer'[bound'[s]] = "read"
      <4>1. \A b \in Binds : answer[b] = "read" => answer'[b] = "read"
        OBVIOUS
      <4>2. bound[s] # 0 => bound[s] \in Binds /\ answer[bound[s]] = "read"
        BY <1>2 DEF Requests
      <4> QED
        BY <1>4, <4>1, <4>2
    <3> QED
      BY <3>1, <3>2 DEF Requests
  <2>4. conn' = 0 => again' = {}
    BY <1>3 DEF LetGo, Kept, Postponed
  <2>5. \A b \in Made' : state'[b] = "opening" => answer'[b] = "none" \/ On(b)' \in closed'
    <3>1. \A b \in Made : b \in Binds /\ (answer[b] = "none" => answer'[b] = "none")
      BY RequestOf DEF Requests
    <3> QED
      BY <1>1, <3>1 DEF Requests
  <2> QED
    BY <1>1, <2>1, <2>2, <2>3, <2>4, <2>5 DEF Requests
<1> QED
  BY <1>5, <1>6, <1>7, <1>8

LEMMA CountsFaults ==
    ASSUME faults \in 0..MaxFaults, Fault \/ UNCHANGED faults
    PROVE  faults' \in 0..MaxFaults
<1>1. MaxFaults \in Nat
  BY RpcChannelAssumption
<1> QED
  BY <1>1 DEF Fault

\* The requests that are given up, or ended, are requests.
LEMMA GivenUp ==
    ASSUME IInv
    PROVE  /\ cut \cup ({binding[s] : s \in Subs} \ {0}) \subseteq Made /\ ends \subseteq Made
           /\ \A s \in Subs : {bound[s], binding[s]} \ {0} \subseteq Made
           /\ bound \in [Subs -> Nat] /\ binding \in [Subs -> Nat]
<1>1. \A s \in Subs : \A b \in {bound[s], binding[s]} \ {0} : b \in Made
  BY BoundOf DEF IInv, Requests
<1>2. Len(asked) \in Nat /\ bound \in [Subs -> 0..Len(asked)] /\ binding \in [Subs -> 0..Len(asked)]
  BY ElementsOf DEF IInv, TypeOK
<1> QED
  BY <1>1, <1>2 DEF IInv, TypeOK

LEMMA StopStreamKeeps ==
    ASSUME IInv, StopStream, sub' \in [Subs -> {"none", "wanted", "released"}], faults' \in 0..MaxFaults,
           UNCHANGED <<keeps, seen, bindVars, serverVars, opened, closed, value, expired>>
    PROVE  IInv'
<1> USE DEF IInv
<1>1. /\ conn' = 0 /\ bound' = [s \in Subs |-> 0] /\ binding' = [s \in Subs |-> 0] /\ again' = {}
      /\ early' = [b \in Binds |-> <<>>]
      /\ cut' = cut \cup ({binding[s] : s \in Subs} \ {0}) /\ ends' = {}
      /\ stream' = IF conn = 0 THEN stream ELSE [stream EXCEPT ![conn] = <<>>]
  BY DEF StopStream, BoundAfter, Unbound
<1>2. UNCHANGED <<keeps, seen, asked, state, answer, serverVars, opened, closed, value, expired>>
  BY DEF bindVars
<1>3. \A s \in Subs : LetGo(s)
  BY <1>1 DEF LetGo
<1>4. early' \in [Binds -> Seq(0..value)] /\ stream' \in [Streams -> Seq([of : Made, says : 0..value])]
  <2>1. \A S : <<>> \in Seq(S)
    OBVIOUS
  <2>2. early' \in [Binds -> Seq(0..value)]
    BY <1>1, <2>1
  <2>3. stream \in [Streams -> Seq([of : Made, says : 0..value])]
    BY DEF TypeOK
  <2> QED
    BY <1>1, <2>1, <2>2, <2>3
<1>5. answer' \in [Binds -> {"none", "ok", "refused", "read"}]
  BY <1>2 DEF TypeOK
<1>6. cut' \subseteq Made /\ ends' \subseteq Made /\ again' \subseteq Subs
  BY <1>1, GivenUp
<1>7. bound' \in [Subs -> Nat] /\ binding' \in [Subs -> Nat]
  BY <1>1
<1>8. conn' \in {0, conn} /\ (\A s \in Subs : bound'[s] # 0 => bound'[s] \notin ends') /\ \A b \in ends' : answer'[b] = "read"
  BY <1>1
<1> QED
  BY <1>2, <1>3, <1>4, <1>5, <1>6, <1>7, <1>8, LessBound

LEMMA LoseStreamKeeps ==
    ASSUME IInv, LoseStream
    PROVE  IInv'
<1>1. StopStream /\ UNCHANGED <<keeps, sub, seen, bindVars, serverVars, opened, closed, value, expired>>
  BY DEF LoseStream
<1>2. Fault \/ UNCHANGED faults
  BY DEF LoseStream
<1>3. faults' \in 0..MaxFaults /\ sub' \in [Subs -> {"none", "wanted", "released"}]
  BY <1>1, <1>2, CountsFaults DEF IInv, TypeOK
<1> QED
  BY <1>1, <1>3, StopStreamKeeps

LEMMA ReleaseKeeps ==
    ASSUME IInv, NEW s \in Subs, Release(s)
    PROVE  IInv'
<1> USE DEF IInv
<1>1. /\ sub[s] = "wanted" /\ sub' = [sub EXCEPT ![s] = "released"]
      /\ UNCHANGED <<keeps, seen, bindVars, serverVars, opened, closed, value, expired, faults>>
  BY DEF Release
<1>2. sub \in [Subs -> {"none", "wanted", "released"}] /\ faults \in 0..MaxFaults
  BY DEF TypeOK
<1>3. sub' \in [Subs -> {"none", "wanted", "released"}] /\ faults' \in 0..MaxFaults
  BY <1>1, <1>2
<1>4. CASE Wanted = {s} /\ ~keeps
  <2>1. StopStream
    BY <1>4 DEF Release
  <2> QED
    BY <1>1, <1>3, <2>1, StopStreamKeeps
<1>5. CASE ~(Wanted = {s} /\ ~keeps)
  <2>1. /\ bound' = [bound EXCEPT ![s] = 0] /\ binding' = [binding EXCEPT ![s] = 0] /\ again' = again \ {s}
        /\ cut' = cut \cup ({binding[s]} \ {0}) /\ ends' = ends \cup ({bound[s]} \ {0})
        /\ UNCHANGED <<conn, early, stream>>
    BY <1>5 DEF Release
  <2>2. bound \in [Subs -> Nat] /\ binding \in [Subs -> Nat]
    BY GivenUp
  <2>3. \A r \in Subs : LetGo(r) \/ Kept(r)
    <3>1. LetGo(s)
      BY <2>1, <2>2 DEF LetGo
    <3>2. \A r \in Subs \ {s} : Kept(r)
      BY <1>1, <1>2, <2>1, <2>2 DEF Kept
    <3> QED
      BY <3>1, <3>2
  <2>4. ASSUME NEW r \in Subs, bound'[r] # 0 PROVE bound'[r] \notin ends'
    <3>1. r # s /\ bound'[r] = bound[r] /\ bound[r] # 0
      BY <2>1, <2>2, <2>4
    <3>2. bound[r] \notin ends /\ Of(bound[r]) = r
      BY <3>1, BoundOf DEF Requests
    <3>3. bound[s] # 0 => Of(bound[s]) = s
      BY BoundOf DEF Requests
    <3> QED
      BY <2>1, <3>1, <3>2, <3>3
  <2>9. \A b \in ends' : answer'[b] = "read"
    BY <1>1, <2>1 DEF Requests, bindVars
  <2>5. cut' \subseteq Made /\ ends' \subseteq Made /\ again' \subseteq Subs
    <3>1. again \subseteq Subs /\ cut \subseteq Made
      BY DEF TypeOK, Wanted
    <3> QED
      BY <2>1, <3>1, GivenUp
  <2>6. bound' \in [Subs -> Nat] /\ binding' \in [Subs -> Nat]
    BY <2>1, <2>2
  <2>7. early' \in [Binds -> Seq(0..value)] /\ stream' \in [Streams -> Seq([of : Made, says : 0..value])]
    BY <2>1 DEF TypeOK
  <2>8. UNCHANGED <<asked, state, answer>> /\ answer \in [Binds -> {"none", "ok", "refused", "read"}]
    BY <1>1 DEF bindVars, TypeOK
  <2> QED
    BY <1>1, <1>3, <2>1, <2>3, <2>4, <2>5, <2>6, <2>7, <2>8, <2>9, LessBound
<1> QED
  BY <1>4, <1>5

LEMMA TimeLimitKeeps ==
    ASSUME IInv, NEW s \in Subs, TimeLimit(s)
    PROVE  IInv'
<1> USE DEF IInv
<1>1. /\ binding[s] # 0 /\ Fault
      /\ cut' = cut \cup {binding[s]} /\ binding' = [binding EXCEPT ![s] = 0] /\ again' = again \cup {s}
      /\ UNCHANGED <<keeps, sub, conn, bound, early, seen, bindVars, serverVars, ends, stream, opened, closed, value, expired>>
  BY DEF TimeLimit
<1>2. /\ sub \in [Subs -> {"none", "wanted", "released"}] /\ faults \in 0..MaxFaults
      /\ bound \in [Subs -> Nat] /\ binding \in [Subs -> Nat] /\ again \subseteq Subs
  BY GivenUp DEF TypeOK, Wanted
<1>3. \A r \in Subs : Kept(r) \/ Postponed(r)
  <2>1. bound[s] = 0
    BY <1>1, <1>2 DEF BoundIsPresent
  <2>2. Postponed(s)
    BY <1>1, <1>2, <2>1 DEF Postponed
  <2>3. \A r \in Subs \ {s} : Kept(r)
    BY <1>1, <1>2 DEF Kept
  <2> QED
    BY <2>2, <2>3
<1>4. /\ \A r \in Subs : bound'[r] # 0 => bound'[r] \notin ends'
      /\ \A b \in ends' : answer'[b] = "read"
  BY <1>1 DEF Requests, bindVars
<1>5. cut' \subseteq Made /\ ends' \subseteq Made /\ again' \subseteq Subs
  BY <1>1, <1>2, GivenUp
<1>6. bound' \in [Subs -> Nat] /\ binding' \in [Subs -> Nat] /\ faults' \in 0..MaxFaults
  BY <1>1, <1>2, CountsFaults
<1>7. early' \in [Binds -> Seq(0..value)] /\ stream' \in [Streams -> Seq([of : Made, says : 0..value])]
  BY <1>1 DEF TypeOK
<1>8. UNCHANGED <<asked, state, answer>> /\ answer \in [Binds -> {"none", "ok", "refused", "read"}]
  BY <1>1 DEF bindVars, TypeOK
<1> QED
  BY <1>1, <1>2, <1>3, <1>4, <1>5, <1>6, <1>7, <1>8, LessBound

LEMMA ReadAnswerKeeps ==
    ASSUME IInv, NEW b \in Made, ReadAnswer(b)
    PROVE  IInv'
<1> USE DEF IInv
<1> DEFINE s == Of(b)
<1>1. /\ answer[b] \in {"ok", "refused"} /\ answer' = [answer EXCEPT ![b] = "read"]
      /\ UNCHANGED <<keeps, sub, conn, asked, state, serverVars, wireVars, opened, closed, value, expired, faults>>
  BY DEF ReadAnswer
<1>2. b \in Binds /\ b # 0 /\ s \in Subs
  BY RequestOf DEF Requests
<1>3. /\ answer \in [Binds -> {"none", "ok", "refused", "read"}]
      /\ answer' \in [Binds -> {"none", "ok", "refused", "read"}]
      /\ bound \in [Subs -> Nat] /\ binding \in [Subs -> Nat] /\ again \subseteq Subs
  <2>1. answer \in [Binds -> {"none", "ok", "refused", "read"}] /\ again \subseteq Subs
    BY DEF TypeOK, Wanted
  <2> QED
    BY <1>1, <2>1, GivenUp
<1>4. \A r \in Subs : binding[r] = b => r = s
  BY <1>2, BoundOf DEF Requests
<1>5. /\ UNCHANGED <<keeps, sub, conn, asked, state, listening, buffer, flush, signal, from>>
      /\ UNCHANGED <<cut, ends, stream, opened, closed, value, expired, faults>>
      /\ Made' = Made /\ \A x \in Made : Of(x)' = Of(x) /\ On(x)' = On(x)
  BY <1>1 DEF serverVars, wireVars, Made, Of, On
<1>6. /\ cut' \subseteq Made /\ ends' \subseteq Made /\ stream' \in [Streams -> Seq([of : Made, says : 0..value])]
      /\ sub' \in [Subs -> {"none", "wanted", "released"}] /\ faults' \in 0..MaxFaults /\ conn' \in {0, conn}
  <2>1. /\ cut \subseteq Made /\ ends \subseteq Made /\ stream \in [Streams -> Seq([of : Made, says : 0..value])]
        /\ sub \in [Subs -> {"none", "wanted", "released"}] /\ faults \in 0..MaxFaults
    BY DEF TypeOK
  <2> QED
    BY <1>5, <2>1
<1>10. \A x \in ends' : answer'[x] = "read"
  BY <1>1, <1>2, <1>3, <1>5 DEF Requests
<1>7. CASE binding[s] # b
  <2>1. UNCHANGED <<binding, bound, again, early, seen>>
    BY <1>7 DEF ReadAnswer
  <2>2. \A r \in Subs : Kept(r) /\ binding'[r] # b
    BY <1>4, <1>5, <1>7, <2>1 DEF Kept
  <2>3. \A r \in Subs : bound'[r] # 0 => bound'[r] \notin ends'
    BY <1>5, <2>1 DEF Requests
  <2>4. \A x \in Binds : answer'[x] = answer[x] \/ (answer'[x] = "read" /\ answer[x] # "none" /\ \A r \in Subs : binding'[r] # x)
    BY <1>1, <1>3, <2>2
  <2>5. early' \in [Binds -> Seq(0..value)]
    BY <2>1 DEF TypeOK
  <2> QED
    BY <1>3, <1>5, <1>6, <1>1, <1>10, <2>1, <2>2, <2>3, <2>4, <2>5, LessBound
<1>8. CASE binding[s] = b /\ answer[b] = "refused"
  <2>1. binding' = [binding EXCEPT ![s] = 0] /\ again' = again \cup {s} /\ UNCHANGED <<bound, seen, early>>
    BY <1>8 DEF ReadAnswer
  <2>2. \A r \in Subs : (Kept(r) \/ Postponed(r)) /\ binding'[r] # b
    <3>1. bound[s] = 0
      BY <1>2, <1>3, <1>8 DEF BoundIsPresent
    <3>2. Postponed(s) /\ binding'[s] # b
      BY <1>2, <1>3, <1>5, <1>8, <2>1, <3>1 DEF Postponed
    <3>3. \A r \in Subs \ {s} : Kept(r) /\ binding'[r] # b
      BY <1>3, <1>4, <1>5, <2>1 DEF Kept
    <3> QED
      BY <3>2, <3>3
  <2>3. \A r \in Subs : bound'[r] # 0 => bound'[r] \notin ends'
    BY <1>5, <2>1 DEF Requests
  <2>4. \A x \in Binds : answer'[x] = answer[x] \/ (answer'[x] = "read" /\ answer[x] # "none" /\ \A r \in Subs : binding'[r] # x)
    BY <1>1, <1>3, <2>2
  <2>5. early' \in [Binds -> Seq(0..value)]
    BY <2>1 DEF TypeOK
  <2>6. bound' \in [Subs -> Nat] /\ binding' \in [Subs -> Nat] /\ again' \subseteq Subs
    BY <1>2, <1>3, <2>1
  <2> QED
    BY <1>3, <1>5, <1>6, <1>1, <1>10, <2>1, <2>2, <2>3, <2>4, <2>5, <2>6, LessBound
<1>9. CASE binding[s] = b /\ answer[b] = "ok"
  <2>1. /\ binding' = [binding EXCEPT ![s] = 0] /\ bound' = [bound EXCEPT ![s] = b]
        /\ seen' = [seen EXCEPT ![s] = early[b]] /\ early' = [early EXCEPT ![b] = <<>>]
        /\ UNCHANGED again
    BY <1>9 DEF ReadAnswer
  <2>2. /\ bound[s] = 0 /\ s \notin again /\ On(b) = conn /\ sub[s] = "wanted" /\ b \notin ends
        /\ (state[b] \in {"held", "revoked"} \/ conn \in closed)
    <3>1. On(b) = conn /\ sub[s] = "wanted"
      BY <1>2, <1>9, BoundOf DEF Requests
    <3>2. bound[s] = 0 /\ s \notin again
      BY <1>2, <1>3, <1>9 DEF BoundIsPresent
    <3> QED
      BY <1>2, <1>9, <3>1, <3>2 DEF Requests
  <2>3. /\ \A r \in Subs \ {s} : bound'[r] = bound[r] /\ binding'[r] = binding[r]
        /\ bound'[s] = b /\ binding'[s] = 0
    BY <1>2, <1>3, <2>1
  <2>4. TypeOK'
    <3>1. /\ bound' \in [Subs -> 0..Len(asked)] /\ binding' \in [Subs -> 0..Len(asked)]
      <4>1. /\ bound \in [Subs -> 0..Len(asked)] /\ binding \in [Subs -> 0..Len(asked)]
            /\ Made = 1..Len(asked) /\ Len(asked) \in Nat
        BY ElementsOf DEF TypeOK, Made
      <4>2. b \in 0..Len(asked) /\ 0 \in 0..Len(asked)
        BY <4>1
      <4> QED
        BY <2>1, <4>1, <4>2
    <3>2. early' \in [Binds -> Seq(0..value)] /\ seen' \in [Subs -> Seq(0..value)]
      <4>1. early \in [Binds -> Seq(0..value)] /\ seen \in [Subs -> Seq(0..value)] /\ <<>> \in Seq(0..value)
        BY DEF TypeOK
      <4> QED
        BY <1>2, <2>1, <4>1
    <3> QED
      BY <1>3, <1>5, <2>1, <3>1, <3>2 DEF TypeOK, Wanted
  <2>5. ListenersServe'
    BY <1>5 DEF ListenersServe, Held
  <2>6. BoundIsPresent'
    <3> SUFFICES ASSUME NEW r \in Subs
                 PROVE  /\ \A x \in {bound'[r], binding'[r]} \ {0} : sub'[r] = "wanted" /\ Of(x)' = r /\ On(x)' = conn'
                        /\ bound'[r] # 0 \/ binding'[r] # 0 => r \notin again' /\ 0 \in {bound'[r], binding'[r]}
                        /\ bound'[r] # 0 => (state'[bound'[r]] \in {"held", "revoked"} \/ conn' \in closed')
      BY DEF BoundIsPresent
    <3>1. CASE r = s
      BY <1>5, <2>1, <2>2, <2>3, <3>1
    <3>2. CASE r # s
      <4>1. \A x \in {bound[r], binding[r]} \ {0} : sub[r] = "wanted" /\ Of(x)' = r /\ On(x)' = conn
        BY <1>5, BoundOf DEF Requests
      <4>2. /\ bound[r] # 0 \/ binding[r] # 0 => r \notin again /\ 0 \in {bound[r], binding[r]}
            /\ bound[r] # 0 => (state[bound[r]] \in {"held", "revoked"} \/ conn \in closed)
        BY DEF BoundIsPresent
      <4> QED
        BY <1>5, <2>1, <2>3, <3>2, <4>1, <4>2
    <3> QED
      BY <3>1, <3>2
  <2>7. Requests'
    <3>1. \A r \in Subs : /\ binding'[r] # 0 => answer'[binding'[r]] # "read"
                          /\ bound'[r] # 0 => answer'[bound'[r]] = "read" /\ bound'[r] \notin ends'
      <4>1. answer'[b] = "read" /\ b \notin ends'
        BY <1>1, <1>2, <1>3, <1>5, <2>2
      <4>2. ASSUME NEW r \in Subs \ {s}
            PROVE  /\ binding[r] # 0 => answer'[binding[r]] # "read"
                   /\ bound[r] # 0 => answer'[bound[r]] = "read" /\ bound[r] \notin ends'
        <5>1. binding[r] # 0 => answer'[binding[r]] = answer[binding[r]]
          BY <1>1, <1>3, <1>4
        <5>2. bound[r] # 0 => answer[bound[r]] = "read" /\ bound[r] # b
          BY <1>9 DEF Requests
        <5>3. bound[r] # 0 => answer'[bound[r]] = "read"
          BY <1>1, <1>3, <5>2
        <5> QED
          BY <1>5, <5>1, <5>3 DEF Requests
      <4> QED
        BY <2>3, <4>1, <4>2
    <3>2. /\ \A x \in Binds \ Made' : state'[x] = "none"
          /\ \A x \in Binds : state'[x] \in {"none", "sent"} => answer'[x] = "none"
      BY <1>1, <1>3, <1>5 DEF Requests
    <3>3. \A x \in Made' : answer'[x] = "ok" => state'[x] \in {"held", "revoked"} \/ On(x)' \in closed'
      <4>1. \A x \in Made : x \in Binds /\ (answer'[x] = "ok" => answer[x] = "ok")
        BY <1>1, <1>3, RequestOf DEF Requests
      <4> QED
        BY <1>5, <4>1 DEF Requests
    <3>4. \A x \in Made' : state'[x] = "opening" => answer'[x] = "none" \/ On(x)' \in closed'
      <4>1. \A x \in Made : x \in Binds /\ (answer[x] = "none" => answer'[x] = "none")
        BY <1>1, <1>3, RequestOf DEF Requests
      <4> QED
        BY <1>5, <4>1 DEF Requests
    <3> QED
      BY <1>5, <1>10, <2>1, <3>1, <3>2, <3>3, <3>4 DEF Requests
  <2> QED
    BY <2>4, <2>5, <2>6, <2>7
<1> QED
  BY <1>1, <1>7, <1>8, <1>9

-----------------------------------------------------------------------------
(* Steps that leave the subscriptions of the client their requests *)

LEMMA ServerKeeps ==
    ASSUME IInv,
           UNCHANGED <<keeps, sub, conn, bound, binding, again, asked, opened>>,
           \A b \in Binds \ Made : state'[b] = state[b],
           \A b \in Binds : answer'[b] = answer[b] \/ (answer[b] = "none" /\ answer'[b] \in {"ok", "refused"}),
           \A b \in Binds : state'[b] \in {"none", "sent"} => answer'[b] = answer[b] /\ state'[b] = state[b],
           \A b \in Made : answer'[b] = "ok" => state'[b] \in {"held", "revoked"} \/ On(b) \in closed',
           \A b \in Made : state'[b] = "opening" => answer'[b] = "none" \/ On(b) \in closed',
           \A s \in Subs : bound[s] # 0 => state'[bound[s]] \in {"held", "revoked"} \/ conn \in closed',
           \A b \in listening' : state'[b] \in {"opening", "held"},
           \A b \in Made : state'[b] = "held" => On(b) \notin closed',
           state' \in [Binds -> {"none", "sent", "opening", "held", "revoked", "over"}],
           answer' \in [Binds -> {"none", "ok", "refused", "read"}],
           ends' \subseteq ends, closed \subseteq closed', closed' \subseteq 1..opened,
           listening' \cup flush' \cup signal' \cup cut' \cup expired' \subseteq Made,
           value' \in 0..MaxChanges, faults' \in 0..MaxFaults,
           early' \in [Binds -> Seq(0..value')], seen' \in [Subs -> Seq(0..value')],
           buffer' \in [Binds -> Seq(0..value')], from' \in [Binds -> 0..value'],
           stream' \in [Streams -> Seq([of : Made, says : 0..value'])]
    PROVE  IInv'
<1> USE DEF IInv
<1>1. Made' = Made /\ \A b \in Made : Of(b)' = Of(b) /\ On(b)' = On(b)
  BY DEF Made, Of, On
<1>2. \A s \in Subs : \A b \in {bound[s], binding[s]} \ {0} : b \in Made /\ b \in Binds
  BY BoundOf DEF Requests
<1>3. TypeOK'
  <2>1. listening' \cup flush' \cup signal' \cup cut' \cup ends' \subseteq Made'
    BY <1>1 DEF TypeOK
  <2> QED
    BY <1>1, <2>1 DEF TypeOK, Wanted
<1>4. ListenersServe'
  BY <1>1 DEF ListenersServe, Held
<1>5. BoundIsPresent'
  <2>1. ASSUME NEW s \in Subs, NEW b \in {bound[s], binding[s]} \ {0} PROVE sub[s] = "wanted" /\ Of(b)' = s /\ On(b)' = conn
    <3>1. b \in Made /\ sub[s] = "wanted" /\ Of(b) = s /\ On(b) = conn
      BY BoundOf DEF Requests
    <3> QED
      BY <1>1, <3>1
  <2> QED
    BY <2>1 DEF BoundIsPresent
<1>6. Requests'
  <2>1. \A b \in Binds : state'[b] \in {"none", "sent"} => answer'[b] = "none"
    BY DEF Requests
  <2>2. \A b \in ends' : answer'[b] = "read"
    <3>1. \A b \in ends : b \in Binds /\ answer[b] = "read"
      BY RequestOf DEF Requests, TypeOK
    <3> QED
      BY <3>1
  <2>3. \A s \in Subs : /\ binding'[s] # 0 => answer'[binding'[s]] # "read"
                        /\ bound'[s] # 0 => answer'[bound'[s]] = "read" /\ bound'[s] \notin ends'
    BY <1>2, ZenonT(60) DEF Requests
  <2>4. \A b \in Binds \ Made' : state'[b] = "none"
    BY <1>1 DEF Requests
  <2>5. \A b \in Made' : /\ state'[b] = "opening" => answer'[b] = "none" \/ On(b)' \in closed'
                         /\ answer'[b] = "ok" => state'[b] \in {"held", "revoked"} \/ On(b)' \in closed'
    BY <1>1
  <2>6. Len(asked') <= MaxBinds /\ (conn' = 0 => again' = {})
    BY DEF Requests
  <2> QED
    BY <2>1, <2>2, <2>3, <2>4, <2>5, <2>6 DEF Requests
<1> QED
  BY <1>3, <1>4, <1>5, <1>6

\* What the lemma asks of a step that changes no request.
LEMMA RequestsStay ==
    ASSUME IInv, UNCHANGED <<asked, state, answer, listening, closed>>
    PROVE  /\ \A b \in Binds \ Made : state'[b] = state[b]
           /\ \A b \in Binds : answer'[b] = answer[b] \/ (answer[b] = "none" /\ answer'[b] \in {"ok", "refused"})
           /\ \A b \in Binds : state'[b] \in {"none", "sent"} => answer'[b] = answer[b] /\ state'[b] = state[b]
           /\ \A b \in Made : answer'[b] = "ok" => state'[b] \in {"held", "revoked"} \/ On(b) \in closed'
           /\ \A b \in Made : state'[b] = "opening" => answer'[b] = "none" \/ On(b) \in closed'
           /\ \A s \in Subs : bound[s] # 0 => state'[bound[s]] \in {"held", "revoked"} \/ conn \in closed'
           /\ \A b \in listening' : state'[b] \in {"opening", "held"}
           /\ \A b \in Made : state'[b] = "held" => On(b) \notin closed'
           /\ state' \in [Binds -> {"none", "sent", "opening", "held", "revoked", "over"}]
           /\ answer' \in [Binds -> {"none", "ok", "refused", "read"}]
           /\ closed \subseteq closed' /\ closed' \subseteq 1..opened
BY DEF IInv, TypeOK, Requests, ListenersServe, BoundIsPresent, Held

\* The types that do not depend on the requests of a step.
LEMMA Rest ==
    ASSUME IInv
    PROVE  /\ listening \subseteq Made /\ flush \subseteq Made /\ signal \subseteq Made /\ cut \subseteq Made /\ ends \subseteq Made
           /\ expired \subseteq Made /\ value \in 0..MaxChanges /\ value \in Nat /\ MaxChanges \in Nat /\ faults \in 0..MaxFaults
           /\ early \in [Binds -> Seq(0..value)] /\ seen \in [Subs -> Seq(0..value)]
           /\ buffer \in [Binds -> Seq(0..value)] /\ from \in [Binds -> 0..value]
           /\ stream \in [Streams -> Seq([of : Made, says : 0..value])]
           /\ closed \subseteq 1..opened
           /\ state \in [Binds -> {"none", "sent", "opening", "held", "revoked", "over"}]
           /\ answer \in [Binds -> {"none", "ok", "refused", "read"}]
           /\ Made \subseteq Binds
<1>1. MaxChanges \in Nat
  BY RpcChannelAssumption
<1>2. Made \subseteq Binds
  BY RequestOf DEF IInv, Requests
<1>3. listening \cup flush \cup signal \cup cut \cup ends \subseteq Made
  BY DEF IInv, TypeOK
<1>4. /\ expired \subseteq Made /\ value \in 0..MaxChanges /\ faults \in 0..MaxFaults
      /\ early \in [Binds -> Seq(0..value)] /\ seen \in [Subs -> Seq(0..value)]
      /\ buffer \in [Binds -> Seq(0..value)] /\ from \in [Binds -> 0..value]
      /\ stream \in [Streams -> Seq([of : Made, says : 0..value])]
      /\ closed \subseteq 1..opened
      /\ state \in [Binds -> {"none", "sent", "opening", "held", "revoked", "over"}]
      /\ answer \in [Binds -> {"none", "ok", "refused", "read"}]
  BY DEF IInv, TypeOK
<1>5. value \in Nat
  BY <1>1, <1>4
<1>6. listening \subseteq Made /\ flush \subseteq Made /\ signal \subseteq Made /\ cut \subseteq Made /\ ends \subseteq Made
  BY <1>3
<1> QED
  BY <1>1, <1>2, <1>4, <1>5, <1>6

LEMMA EventKeeps ==
    ASSUME IInv, Event
    PROVE  IInv'
<1> DEFINE m == Head(stream[conn])
           s == Of(m.of)
<1>1. /\ conn # 0 /\ stream[conn] # <<>> /\ stream' = [stream EXCEPT ![conn] = Tail(@)]
      /\ UNCHANGED <<keeps, sub, conn, bound, binding, again, bindVars, serverVars, cut, ends, opened, closed, value>>
  BY DEF Event
<1>2. \/ bound[s] = m.of /\ seen' = [seen EXCEPT ![s] = Append(@, m.says)] /\ UNCHANGED <<early, expired, faults>>
      \/ \E old \in SUBSET {b \in Made : early[b] # <<>>} :
           /\ UNCHANGED faults \/ Fault
           /\ expired' = expired \cup old
           /\ early' = [b \in Binds |-> (IF b \in old THEN <<>> ELSE early[b]) \o (IF b = m.of THEN <<m.says>> ELSE <<>>)]
           /\ UNCHANGED seen
  BY DEF Event
<1>3. UNCHANGED <<asked, state, answer, listening, buffer, flush, signal, from>>
  BY <1>1 DEF bindVars, serverVars
<1>4. conn \in Streams
  BY <1>1 DEF IInv, TypeOK, Streams
<1>5. m \in [of : Made, says : 0..value] /\ Tail(stream[conn]) \in Seq([of : Made, says : 0..value])
  <2>1. stream[conn] \in Seq([of : Made, says : 0..value])
    BY <1>4, Rest
  <2> QED
    BY <1>1, <2>1, HeadTailProperties
<1>6. m.of \in Made /\ m.says \in 0..value
  BY <1>5
<1> HIDE DEF m, s
<1>7. stream' \in [Streams -> Seq([of : Made, says : 0..value])]
  <2>1. stream \in [Streams -> Seq([of : Made, says : 0..value])]
    BY Rest
  <2> QED
    BY <1>1, <1>4, <1>5, <2>1
<1>8. /\ early' \in [Binds -> Seq(0..value)] /\ seen' \in [Subs -> Seq(0..value)]
      /\ faults' \in 0..MaxFaults /\ expired' \subseteq Made
  <2>1. CASE bound[s] = m.of /\ seen' = [seen EXCEPT ![s] = Append(@, m.says)] /\ UNCHANGED <<early, expired, faults>>
    <3>1. s \in Subs
      BY <1>6, RequestOf DEF IInv, Requests, s
    <3>2. seen \in [Subs -> Seq(0..value)]
      BY Rest
    <3>3. Append(seen[s], m.says) \in Seq(0..value)
      BY <1>6, <3>1, <3>2
    <3> QED
      BY <2>1, <3>1, <3>2, <3>3, Rest
  <2>2. ASSUME NEW old \in SUBSET {b \in Made : early[b] # <<>>},
               UNCHANGED faults \/ Fault, expired' = expired \cup old, UNCHANGED seen,
               early' = [b \in Binds |-> (IF b \in old THEN <<>> ELSE early[b]) \o (IF b = m.of THEN <<m.says>> ELSE <<>>)]
        PROVE  /\ early' \in [Binds -> Seq(0..value)] /\ seen' \in [Subs -> Seq(0..value)]
               /\ faults' \in 0..MaxFaults /\ expired' \subseteq Made
    <3>1. faults' \in 0..MaxFaults
      BY <2>2, Rest, CountsFaults
    <3>2. ASSUME NEW b \in Binds
          PROVE  (IF b \in old THEN <<>> ELSE early[b]) \o (IF b = m.of THEN <<m.says>> ELSE <<>>) \in Seq(0..value)
      <4>1. /\ (IF b \in old THEN <<>> ELSE early[b]) \in Seq(0..value)
            /\ (IF b = m.of THEN <<m.says>> ELSE <<>>) \in Seq(0..value)
        <5>1. <<>> \in Seq(0..value) /\ <<m.says>> \in Seq(0..value)
          BY <1>6
        <5>2. early[b] \in Seq(0..value)
          BY Rest
        <5> QED
          BY <5>1, <5>2
      <4> QED
        BY <4>1, ConcatProperties
    <3> QED
      BY <2>2, <3>1, <3>2, Rest
  <2> QED
    BY <1>2, <2>1, <2>2
<1> QED
  BY <1>1, <1>3, <1>7, <1>8, RequestsStay, Rest, ServerKeeps

-----------------------------------------------------------------------------
(* The requests at the server *)

\* A step that changes only the request b: whatever it becomes, it was neither read nor is it the client's.
LEMMA OneMoves ==
    ASSUME IInv, NEW b \in Made, NEW to \in {"opening", "held", "revoked", "over"}, NEW says \in {"none", "ok", "refused", "read"},
           state' = [state EXCEPT ![b] = to], answer' = [answer EXCEPT ![b] = says],
           UNCHANGED <<asked, opened, closed>>,
           says = answer[b] \/ (answer[b] = "none" /\ says \in {"ok", "refused"}),
           says = "ok" => to \in {"held", "revoked"} \/ On(b) \in closed,
           to = "opening" => says = "none",
           to = "held" => On(b) \notin closed,
           to \in {"held", "revoked"} \/ (\A s \in Subs : bound[s] # b) \/ On(b) \in closed,
           listening' \subseteq listening \cup {b},
           b \in listening' => to \in {"opening", "held"}
    PROVE  /\ \A x \in Binds \ Made : state'[x] = state[x]
           /\ \A x \in Binds : answer'[x] = answer[x] \/ (answer[x] = "none" /\ answer'[x] \in {"ok", "refused"})
           /\ \A x \in Binds : state'[x] \in {"none", "sent"} => answer'[x] = answer[x] /\ state'[x] = state[x]
           /\ \A x \in Made : answer'[x] = "ok" => state'[x] \in {"held", "revoked"} \/ On(x) \in closed'
           /\ \A x \in Made : state'[x] = "opening" => answer'[x] = "none" \/ On(x) \in closed'
           /\ \A s \in Subs : bound[s] # 0 => state'[bound[s]] \in {"held", "revoked"} \/ conn \in closed'
           /\ \A x \in listening' : state'[x] \in {"opening", "held"}
           /\ \A x \in Made : state'[x] = "held" => On(x) \notin closed'
           /\ state' \in [Binds -> {"none", "sent", "opening", "held", "revoked", "over"}]
           /\ answer' \in [Binds -> {"none", "ok", "refused", "read"}]
           /\ listening' \subseteq Made /\ closed \subseteq closed' /\ closed' \subseteq 1..opened
<1>1. /\ b \in Binds /\ Made \subseteq Binds /\ listening \subseteq Made /\ closed \subseteq 1..opened
      /\ state \in [Binds -> {"none", "sent", "opening", "held", "revoked", "over"}]
      /\ answer \in [Binds -> {"none", "ok", "refused", "read"}]
  BY Rest
<1>2. /\ \A x \in Binds \ {b} : state'[x] = state[x] /\ answer'[x] = answer[x]
      /\ state'[b] = to /\ answer'[b] = says
  BY <1>1
<1>3. ASSUME NEW s \in Subs, bound[s] # 0 PROVE state'[bound[s]] \in {"held", "revoked"} \/ conn \in closed'
  <2>1. bound[s] \in Binds /\ On(bound[s]) = conn
    BY <1>3, BoundOf DEF IInv, Requests
  <2>2. state[bound[s]] \in {"held", "revoked"} \/ conn \in closed
    BY <1>3 DEF IInv, BoundIsPresent
  <2> QED
    BY <1>2, <2>1, <2>2
<1>4. \A x \in Made : state[x] = "held" => On(x) \notin closed
  BY DEF IInv, ListenersServe, Held
<1>5. /\ \A x \in Made : state'[x] = "held" => On(x) \notin closed'
      /\ \A x \in Made : answer'[x] = "ok" => state'[x] \in {"held", "revoked"} \/ On(x) \in closed'
      /\ \A x \in Made : state'[x] = "opening" => answer'[x] = "none" \/ On(x) \in closed'
  BY <1>1, <1>2, <1>4 DEF IInv, Requests
<1>6. \A x \in listening' : state'[x] \in {"opening", "held"}
  BY <1>1, <1>2 DEF IInv, ListenersServe
<1> QED
  BY <1>1, <1>2, <1>3, <1>5, <1>6

LEMMA NotBound ==
    ASSUME IInv, NEW b \in Made, state[b] \notin {"held", "revoked"}
    PROVE  (\A s \in Subs : bound[s] # b) \/ On(b) \in closed
<1> SUFFICES ASSUME NEW s \in Subs, bound[s] = b PROVE On(b) \in closed
  OBVIOUS
<1>1. b # 0
  BY RequestOf DEF IInv, Requests
<1>2. On(b) = conn
  BY <1>1, BoundOf DEF IInv, Requests
<1> QED
  BY <1>1, <1>2 DEF IInv, BoundIsPresent

LEMMA ArriveKeeps ==
    ASSUME IInv, NEW b \in Made, Arrive(b)
    PROVE  IInv'
<1>1. /\ state[b] = "sent"
      /\ UNCHANGED <<clientVars, asked, serverVars, wireVars, opened, closed, value, expired, faults>>
  BY DEF Arrive
<1>2. b \in Binds /\ answer[b] = "none" /\ b \notin listening /\ answer \in [Binds -> {"none", "ok", "refused", "read"}]
  BY <1>1, Rest DEF IInv, Requests, ListenersServe
<1>3. PICK to \in {"opening", "over"}, says \in {"none", "refused"} :
         /\ state' = [state EXCEPT ![b] = to] /\ answer' = [answer EXCEPT ![b] = says]
         /\ to = "opening" => says = "none"
  <2>1. [answer EXCEPT ![b] = "none"] = answer
    BY <1>2
  <2> QED
    BY <2>1 DEF Arrive
<1>4. UNCHANGED <<listening, buffer, flush, signal, from>> /\ UNCHANGED <<cut, ends, stream>>
  BY <1>1 DEF serverVars, wireVars
<1>5. UNCHANGED <<keeps, sub, conn, bound, binding, again, early, seen>>
  BY <1>1 DEF clientVars
<1> QED
  BY <1>1, <1>2, <1>3, <1>4, <1>5, NotBound, OneMoves, Rest, ServerKeeps

LEMMA OpenKeeps ==
    ASSUME IInv, NEW b \in Made, Open(b)
    PROVE  IInv'
<1>1. /\ state[b] = "opening" /\ listening' = listening \cup {b}
      /\ buffer' = [buffer EXCEPT ![b] = <<value>>] /\ from' = [from EXCEPT ![b] = value]
      /\ UNCHANGED <<clientVars, bindVars, flush, signal, wireVars, opened, closed, value, expired, faults>>
  BY DEF Open
<1>2. /\ UNCHANGED <<keeps, sub, conn, bound, binding, again, early, seen, asked, state, answer>>
      /\ UNCHANGED <<cut, ends, stream>>
  BY <1>1 DEF clientVars, bindVars, wireVars
<1>3. buffer' \in [Binds -> Seq(0..value)] /\ from' \in [Binds -> 0..value]
  <2>1. value \in 0..value /\ <<value>> \in Seq(0..value)
    BY Rest
  <2>2. buffer \in [Binds -> Seq(0..value)] /\ from \in [Binds -> 0..value]
    BY Rest
  <2> QED
    BY <1>1, <2>1, <2>2
<1>4. /\ \A x \in listening' : state'[x] \in {"opening", "held"}
      /\ \A x \in Made : state'[x] = "held" => On(x) \notin closed'
      /\ \A x \in Binds : state'[x] = state[x] /\ answer'[x] = answer[x]
      /\ \A x \in Made : answer'[x] = "ok" => state'[x] \in {"held", "revoked"} \/ On(x) \in closed'
      /\ \A x \in Made : state'[x] = "opening" => answer'[x] = "none" \/ On(x) \in closed'
      /\ \A s \in Subs : bound[s] # 0 => state'[bound[s]] \in {"held", "revoked"} \/ conn \in closed'
  BY <1>1, <1>2 DEF IInv, ListenersServe, Held, Requests, BoundIsPresent
<1>5. listening' \cup flush' \cup signal' \cup cut' \cup expired' \subseteq Made
  BY <1>1, <1>2, Rest
<1> QED
  BY <1>1, <1>2, <1>3, <1>4, <1>5, Rest, ServerKeeps

LEMMA RefuseOpenKeeps ==
    ASSUME IInv, NEW b \in Made, RefuseOpen(b)
    PROVE  IInv'
<1>1. /\ state[b] = "opening" /\ b \notin listening /\ Fault
      /\ state' = [state EXCEPT ![b] = "over"]
      /\ answer' = [answer EXCEPT ![b] = IF @ = "none" THEN "refused" ELSE @]
      /\ UNCHANGED <<clientVars, asked, serverVars, wireVars, opened, closed, value, expired>>
  BY DEF RefuseOpen
<1>2. b \in Binds /\ answer \in [Binds -> {"none", "ok", "refused", "read"}] /\ faults' \in 0..MaxFaults
  BY <1>1, Rest, CountsFaults
<1>3. PICK says \in {"none", "ok", "refused", "read"} :
         /\ answer' = [answer EXCEPT ![b] = says]
         /\ says = answer[b] \/ (answer[b] = "none" /\ says = "refused")
  BY <1>1, <1>2
<1>4. says = "ok" => On(b) \in closed
  BY <1>1, <1>3 DEF IInv, Requests
<1>5. UNCHANGED <<listening, buffer, flush, signal, from>> /\ UNCHANGED <<cut, ends, stream>>
  BY <1>1 DEF serverVars, wireVars
<1>6. UNCHANGED <<keeps, sub, conn, bound, binding, again, early, seen>>
  BY <1>1 DEF clientVars
<1> QED
  BY <1>1, <1>2, <1>3, <1>4, <1>5, <1>6, NotBound, OneMoves, Rest, ServerKeeps

LEMMA OpenedKeeps ==
    ASSUME IInv, NEW b \in Made, Opened(b)
    PROVE  IInv'
<1>1. /\ state[b] = "opening" /\ b \in listening
      /\ UNCHANGED <<clientVars, asked, buffer, signal, from, wireVars, opened, closed, value, expired, faults>>
  BY DEF Opened
<1>2. b \in Binds /\ answer \in [Binds -> {"none", "ok", "refused", "read"}]
  BY Rest
<1>3. answer[b] = "none" \/ On(b) \in closed
  BY <1>1 DEF IInv, Requests
<1>4. UNCHANGED <<keeps, sub, conn, bound, binding, again, early, seen>> /\ UNCHANGED <<cut, ends, stream>>
  BY <1>1 DEF clientVars, wireVars
<1>5. CASE Alive(b)
  <2>1. /\ state' = [state EXCEPT ![b] = "held"] /\ answer' = [answer EXCEPT ![b] = "ok"]
        /\ flush' = flush \cup {b} /\ UNCHANGED listening
    BY <1>5 DEF Opened
  <2>2. On(b) \notin closed
    BY <1>5 DEF Alive
  <2>3. flush' \subseteq Made
    BY <2>1, Rest
  <2> QED
    BY <1>1, <1>2, <1>3, <1>4, <2>1, <2>2, <2>3, NotBound, OneMoves, Rest, ServerKeeps
<1>6. CASE ~Alive(b)
  <2>1. /\ state' = [state EXCEPT ![b] = "over"] /\ listening' = listening \ {b} /\ UNCHANGED flush
        /\ answer' = [answer EXCEPT ![b] = IF @ = "none" THEN "refused" ELSE @]
    BY <1>6 DEF Opened
  <2>2. PICK says \in {"none", "ok", "refused", "read"} :
           /\ answer' = [answer EXCEPT ![b] = says]
           /\ says = answer[b] \/ (answer[b] = "none" /\ says = "refused")
    BY <1>2, <2>1
  <2>3. says = "ok" => On(b) \in closed
    BY <1>3, <2>2
  <2> QED
    BY <1>1, <1>2, <1>4, <2>1, <2>2, <2>3, NotBound, OneMoves, Rest, ServerKeeps
<1> QED
  BY <1>5, <1>6

LEMMA FlushKeeps ==
    ASSUME IInv, NEW b \in Made, Flush(b)
    PROVE  IInv'
<1>1. /\ b \in flush /\ flush' = flush \ {b}
      /\ stream' = IF state[b] = "held"
                   THEN [stream EXCEPT ![On(b)] = @ \o [n \in DOMAIN buffer[b] |-> Message(b, buffer[b][n])]]
                   ELSE stream
      /\ buffer' = [buffer EXCEPT ![b] = <<>>]
      /\ UNCHANGED <<clientVars, bindVars, listening, signal, from, cut, ends, opened, closed, value, expired, faults>>
  BY DEF Flush
<1>2. UNCHANGED <<keeps, sub, conn, bound, binding, again, early, seen, asked, state, answer>>
  BY <1>1 DEF clientVars, bindVars
<1> DEFINE sent == [n \in DOMAIN buffer[b] |-> Message(b, buffer[b][n])]
<1>3. sent \in Seq([of : Made, says : 0..value])
  <2>1. b \in Binds /\ buffer[b] \in Seq(0..value)
    BY Rest
  <2>2. DOMAIN buffer[b] = 1..Len(buffer[b]) /\ Len(buffer[b]) \in Nat /\ \A n \in DOMAIN buffer[b] : buffer[b][n] \in 0..value
    BY <2>1, ElementsOf
  <2>3. \A n \in 1..Len(buffer[b]) : Message(b, buffer[b][n]) \in [of : Made, says : 0..value]
    BY <2>2 DEF Message
  <2> QED
    BY <2>2, <2>3
<1> HIDE DEF sent
<1>4. stream' \in [Streams -> Seq([of : Made, says : 0..value])]
  <2>1. On(b) \in Streams
    BY RequestOf DEF IInv, Requests
  <2>2. stream \in [Streams -> Seq([of : Made, says : 0..value])]
    BY Rest
  <2>3. stream[On(b)] \o sent \in Seq([of : Made, says : 0..value])
    BY <1>3, <2>1, <2>2, ConcatProperties
  <2>4. stream' = IF state[b] = "held" THEN [stream EXCEPT ![On(b)] = stream[On(b)] \o sent] ELSE stream
    BY <1>1 DEF sent
  <2> QED
    BY <2>1, <2>2, <2>3, <2>4
<1>5. buffer' \in [Binds -> Seq(0..value)] /\ flush' \subseteq Made
  <2>1. buffer \in [Binds -> Seq(0..value)] /\ <<>> \in Seq(0..value)
    BY Rest
  <2> QED
    BY <1>1, <2>1, Rest
<1> QED
  BY <1>1, <1>2, <1>4, <1>5, RequestsStay, Rest, ServerKeeps

\* The messages of one change, in any order.
LEMMA ToldOf ==
    ASSUME IInv, NEW bs \in SUBSET Made, NEW v
    PROVE  LET told == {Message(b, v) : b \in bs}
           IN  SetToSeq(told) \in Seq(told) /\ IsInjective(SetToSeq(told)) /\ Range(SetToSeq(told)) = told
<1> DEFINE told == {Message(b, v) : b \in bs}
<1>1. IsFiniteSet(bs)
  <2>1. MaxBinds \in Nat /\ Made \subseteq Binds
    BY Rest, RpcChannelAssumption
  <2>2. IsFiniteSet(1..MaxBinds)
    BY <2>1, FS_Interval
  <2> QED
    BY <2>1, <2>2, FS_Subset DEF Binds
<1>2. [b \in bs |-> Message(b, v)] \in Surjection(bs, told)
  BY DEF Surjection
<1>3. IsFiniteSet(told)
  BY <1>1, <1>2, FS_Surjection
<1> QED
  BY <1>3, ListOf

LEMMA ChangeKeeps ==
    ASSUME IInv, Change
    PROVE  IInv'
<1> DEFINE told(g) == {Message(b, value + 1) : b \in {h \in Held(g) : h \in listening}}
<1>1. /\ value < MaxChanges /\ value' = value + 1
      /\ buffer' = [b \in Binds |-> IF b \in listening /\ Buffered(b) THEN Append(buffer[b], value + 1) ELSE buffer[b]]
      /\ stream' = [g \in Streams |-> IF g \in closed THEN stream[g] ELSE stream[g] \o SetToSeq(told(g))]
      /\ UNCHANGED <<clientVars, bindVars, listening, flush, signal, from, cut, ends, opened, closed, expired, faults>>
  BY DEF Change
<1>2. /\ UNCHANGED <<keeps, sub, conn, bound, binding, again, early, seen, asked, state, answer>>
      /\ UNCHANGED <<listening, flush, signal, from, cut, ends, opened, closed, expired, faults>>
  BY <1>1 DEF clientVars, bindVars
<1>3. /\ value' \in 0..MaxChanges /\ value + 1 \in 0..value' /\ 0..value \subseteq 0..value'
      /\ value \in Nat
  <2>1. value \in Nat /\ MaxChanges \in Nat
    BY Rest
  <2> QED
    BY <1>1, <2>1
<1>4. Seq(0..value) \subseteq Seq(0..value')
  BY <1>3, SeqMonotonic
<1>5. Seq([of : Made, says : 0..value]) \subseteq Seq([of : Made, says : 0..value'])
  <2>1. [of : Made, says : 0..value] \subseteq [of : Made, says : 0..value']
    BY <1>3
  <2> QED
    BY <2>1, SeqMonotonic
<1>6. buffer' \in [Binds -> Seq(0..value')]
  <2>1. buffer \in [Binds -> Seq(0..value')]
    BY <1>4, Rest
  <2>2. \A b \in Binds : Append(buffer[b], value + 1) \in Seq(0..value')
    BY <1>3, <2>1
  <2> QED
    BY <1>1, <2>1, <2>2
<1>7. ASSUME NEW g \in Streams PROVE SetToSeq(told(g)) \in Seq([of : Made, says : 0..value'])
  <2>1. {h \in Held(g) : h \in listening} \subseteq Made
    BY DEF Held
  <2>2. SetToSeq(told(g)) \in Seq(told(g))
    BY <2>1, ToldOf
  <2>3. told(g) \subseteq [of : Made, says : 0..value']
    BY <1>3, <2>1 DEF Message
  <2> HIDE DEF told
  <2> QED
    BY <2>2, <2>3, SeqMonotonic
<1> HIDE DEF told
<1>8. stream' \in [Streams -> Seq([of : Made, says : 0..value'])]
  <2>1. stream \in [Streams -> Seq([of : Made, says : 0..value'])]
    BY <1>5, Rest
  <2>2. \A g \in Streams : stream[g] \o SetToSeq(told(g)) \in Seq([of : Made, says : 0..value'])
    BY <1>7, <2>1, ConcatProperties
  <2> QED
    BY <1>1, <2>1, <2>2
<1>9. early' \in [Binds -> Seq(0..value')] /\ seen' \in [Subs -> Seq(0..value')] /\ from' \in [Binds -> 0..value']
  BY <1>2, <1>3, <1>4, Rest
<1> QED
  BY <1>2, <1>3, <1>6, <1>8, <1>9, RequestsStay, Rest, ServerKeeps

LEMMA EndArrivesKeeps ==
    ASSUME IInv, NEW b \in Made, EndArrives(b)
    PROVE  IInv'
<1>1. /\ b \in ends /\ ends' = ends \ {b} /\ Ended({b} \cap Held(On(b)))
      /\ UNCHANGED <<clientVars, asked, answer, buffer, flush, signal, from, cut, stream, opened, closed, value, expired, faults>>
  BY DEF EndArrives
<1>2. /\ b \in Binds /\ state \in [Binds -> {"none", "sent", "opening", "held", "revoked", "over"}]
      /\ answer \in [Binds -> {"none", "ok", "refused", "read"}]
  BY Rest
<1>3. UNCHANGED <<keeps, sub, conn, bound, binding, again, early, seen>>
  BY <1>1 DEF clientVars
<1>4. ends' \subseteq ends
  BY <1>1
<1>5. CASE state[b] = "held"
  <2>1. {b} \cap Held(On(b)) = {b}
    BY <1>5 DEF Held
  <2>2. state' = [state EXCEPT ![b] = "over"] /\ listening' = listening \ {b}
    <3>1. /\ state' = [x \in Binds |-> IF x \in {b} THEN "over" ELSE state[x]]
          /\ listening' = listening \ {b}
      BY <1>1, <2>1 DEF Ended
    <3> QED
      BY <1>2, <3>1
  <2>3. answer[b] = "read" /\ \A s \in Subs : bound[s] # b
    <3>1. b # 0
      BY RequestOf DEF IInv, Requests
    <3> QED
      BY <1>1, <3>1 DEF IInv, Requests
  <2>4. answer' = [answer EXCEPT ![b] = answer[b]]
    BY <1>1, <1>2
  <2>5. listening' \subseteq listening \cup {b} /\ b \notin listening'
    BY <2>2
  <2> QED
    BY <1>1, <1>2, <1>3, <1>4, <2>2, <2>3, <2>4, <2>5, OneMoves, Rest, ServerKeeps
<1>6. CASE state[b] # "held"
  <2>1. {b} \cap Held(On(b)) = {}
    BY <1>6 DEF Held
  <2>2. UNCHANGED <<state, listening>>
    <3>1. /\ state' = [x \in Binds |-> IF x \in {} THEN "over" ELSE state[x]]
          /\ listening' = listening \ {}
      BY <1>1, <2>1 DEF Ended
    <3> QED
      BY <1>2, <3>1
  <2> QED
    BY <1>1, <1>3, <1>4, <2>2, RequestsStay, Rest, ServerKeeps
<1> QED
  BY <1>5, <1>6

LEMMA RevokeKeeps ==
    ASSUME IInv, NEW b \in Made, Revoke(b)
    PROVE  IInv'
<1>1. /\ state[b] = "held" /\ Fault
      /\ state' = [state EXCEPT ![b] = "revoked"] /\ listening' = listening \ {b}
      /\ UNCHANGED <<clientVars, asked, answer, buffer, flush, signal, from, wireVars, opened, closed, value, expired>>
  BY DEF Revoke
<1>2. b \in Binds /\ answer \in [Binds -> {"none", "ok", "refused", "read"}] /\ faults' \in 0..MaxFaults
  BY <1>1, Rest, CountsFaults
<1>3. answer' = [answer EXCEPT ![b] = answer[b]]
  BY <1>1, <1>2
<1>4. UNCHANGED <<keeps, sub, conn, bound, binding, again, early, seen>> /\ UNCHANGED <<cut, ends, stream>>
  BY <1>1 DEF clientVars, wireVars
<1>5. listening' \subseteq listening \cup {b} /\ b \notin listening'
  BY <1>1
<1> QED
  BY <1>1, <1>2, <1>3, <1>4, <1>5, OneMoves, Rest, ServerKeeps

LEMMA DisconnectKeeps ==
    ASSUME IInv, NEW b \in Made, Disconnect(b)
    PROVE  IInv'
<1>1. /\ b \in cut /\ cut' = cut \ {b}
      /\ state' = [state EXCEPT ![b] = IF @ = "sent" THEN "over" ELSE @]
      /\ signal' = IF state[b] = "opening" THEN signal \cup {b} ELSE signal
      /\ UNCHANGED <<clientVars, asked, answer, listening, buffer, flush, from, ends, stream, opened, closed, value, expired, faults>>
  BY DEF Disconnect
<1>2. /\ b \in Binds /\ state \in [Binds -> {"none", "sent", "opening", "held", "revoked", "over"}]
      /\ answer \in [Binds -> {"none", "ok", "refused", "read"}]
  BY Rest
<1>3. UNCHANGED <<keeps, sub, conn, bound, binding, again, early, seen>>
  BY <1>1 DEF clientVars
<1>4. cut' \subseteq Made /\ signal' \subseteq Made
  BY <1>1, Rest
<1>5. CASE state[b] = "sent"
  <2>1. state' = [state EXCEPT ![b] = "over"] /\ answer' = [answer EXCEPT ![b] = "none"]
    <3>1. answer[b] = "none"
      BY <1>2, <1>5 DEF IInv, Requests
    <3> QED
      BY <1>1, <1>2, <1>5, <3>1
  <2>2. b \notin listening /\ answer[b] = "none"
    BY <1>2, <1>5 DEF IInv, ListenersServe, Requests
  <2> QED
    BY <1>1, <1>2, <1>3, <1>4, <1>5, <2>1, <2>2, NotBound, OneMoves, Rest, ServerKeeps
<1>6. CASE state[b] # "sent"
  <2>1. state' = state
    BY <1>1, <1>2, <1>6
  <2> QED
    BY <1>1, <1>3, <1>4, <2>1, RequestsStay, Rest, ServerKeeps
<1> QED
  BY <1>5, <1>6

LEMMA EndStreamKeeps ==
    ASSUME IInv, NEW g \in Streams, EndStream(g)
    PROVE  IInv'
<1> DEFINE opening == {b \in Made : state[b] = "opening" /\ On(b) = g}
<1>1. /\ g <= opened /\ g \notin closed /\ closed' = closed \cup {g}
      /\ signal' = signal \cup opening
      /\ answer' = [b \in Binds |-> IF b \in opening /\ answer[b] = "none" THEN "refused" ELSE answer[b]]
      /\ state' = [b \in Binds |-> IF b \in Held(g) THEN "over" ELSE state[b]] /\ listening' = listening \ Held(g)
      /\ UNCHANGED <<clientVars, asked, buffer, flush, from, wireVars, opened, value, expired>>
  BY DEF EndStream, Ended
<1>2. faults' \in 0..MaxFaults
  <2>1. Fault \/ UNCHANGED faults
    BY DEF EndStream
  <2> QED
    BY <2>1, Rest, CountsFaults
<1>3. UNCHANGED <<keeps, sub, conn, bound, binding, again, early, seen>> /\ UNCHANGED <<cut, ends, stream>>
  BY <1>1 DEF clientVars, wireVars
<1>4. /\ Made \subseteq Binds /\ state \in [Binds -> {"none", "sent", "opening", "held", "revoked", "over"}]
      /\ answer \in [Binds -> {"none", "ok", "refused", "read"}]
  BY Rest
<1>5. /\ \A b \in Made : (state'[b] = IF state[b] = "held" /\ On(b) = g THEN "over" ELSE state[b])
      /\ \A b \in Made : (answer'[b] = IF state[b] = "opening" /\ On(b) = g /\ answer[b] = "none" THEN "refused" ELSE answer[b])
      /\ \A b \in Binds \ Made : state'[b] = state[b] /\ answer'[b] = answer[b]
      /\ \A b \in listening' : b \in listening /\ b \notin Held(g)
  BY <1>1, <1>4 DEF Held
<1>6. signal' \subseteq Made /\ listening' \subseteq Made
  BY <1>1, Rest
<1>7. closed' \subseteq 1..opened /\ closed \subseteq closed'
  <2>1. g \in 1..opened
    BY <1>1 DEF IInv, TypeOK, Streams
  <2> QED
    BY <1>1, <2>1, Rest
<1> HIDE DEF opening
<1>8. /\ state' \in [Binds -> {"none", "sent", "opening", "held", "revoked", "over"}]
      /\ answer' \in [Binds -> {"none", "ok", "refused", "read"}]
  BY <1>1, <1>4
<1>9. /\ \A b \in Binds : answer'[b] = answer[b] \/ (answer[b] = "none" /\ answer'[b] \in {"ok", "refused"})
      /\ \A b \in Binds : state'[b] \in {"none", "sent"} => answer'[b] = answer[b] /\ state'[b] = state[b]
  BY <1>5
<1> DEFINE Before(b) == /\ answer[b] = "ok" => state[b] \in {"held", "revoked"} \/ On(b) \in closed
                        /\ state[b] = "opening" => answer[b] = "none" \/ On(b) \in closed
<1>14. \A b \in Made : Before(b)
  BY DEF IInv, Requests
<1>15. closed' = closed \cup {g}
  BY <1>1
<1>10. ASSUME NEW b \in Made PROVE answer'[b] = "ok" => state'[b] \in {"held", "revoked"} \/ On(b) \in closed'
  <2>1. Before(b)
    BY <1>14
  <2> QED
    BY <1>5, <1>15, <2>1
<1>11. ASSUME NEW b \in Made PROVE state'[b] = "opening" => answer'[b] = "none" \/ On(b) \in closed'
  <2>1. Before(b)
    BY <1>14
  <2> QED
    BY <1>5, <1>15, <2>1
<1> HIDE DEF Before
<1>12. ASSUME NEW s \in Subs, bound[s] # 0 PROVE state'[bound[s]] \in {"held", "revoked"} \/ conn \in closed'
  <2>1. bound[s] \in Made /\ On(bound[s]) = conn
    BY <1>12, BoundOf DEF IInv, Requests
  <2>2. state[bound[s]] \in {"held", "revoked"} \/ conn \in closed
    BY <1>12 DEF IInv, BoundIsPresent
  <2> QED
    BY <1>1, <1>5, <2>1, <2>2
<1>13. /\ \A b \in listening' : state'[b] \in {"opening", "held"}
       /\ \A b \in Made : state'[b] = "held" => On(b) \notin closed'
  <2>1. \A b \in listening' : b \in Made /\ state[b] \in {"opening", "held"} /\ ~(state[b] = "held" /\ On(b) = g)
    BY <1>5, Rest DEF IInv, ListenersServe, Held
  <2>2. \A b \in Made : state[b] = "held" => On(b) \notin closed
    BY DEF IInv, ListenersServe, Held
  <2> QED
    BY <1>1, <1>5, <2>1, <2>2
<1> QED
  BY <1>1, <1>2, <1>3, <1>5, <1>6, <1>7, <1>8, <1>9, <1>10, <1>11, <1>12, <1>13, Rest, ServerKeeps

-----------------------------------------------------------------------------
LEMMA Starts ==
    ASSUME Init
    PROVE  IInv
<1>1. /\ MaxStreams \in Nat /\ MaxChanges \in Nat /\ MaxFaults \in Nat /\ MaxBinds \in Nat
      /\ Made = {} /\ Len(asked) = 0 /\ asked \in Seq([sub : Subs, over : 1..opened])
  BY RpcChannelAssumption DEF Init, Made
<1>2. \A S : <<>> \in Seq(S)
  OBVIOUS
<1>3. TypeOK
  BY <1>1, <1>2 DEF Init, TypeOK, Wanted
<1>4. ListenersServe /\ BoundIsPresent
  BY DEF Init, ListenersServe, BoundIsPresent
<1>5. Requests
  BY <1>1 DEF Init, Requests
<1> QED
  BY <1>3, <1>4, <1>5 DEF IInv

LEMMA StutterKeeps ==
    ASSUME IInv, UNCHANGED vars
    PROVE  IInv'
<1>1. /\ UNCHANGED <<keeps, sub, conn, bound, binding, again, early, seen, asked, state, answer>>
      /\ UNCHANGED <<listening, buffer, flush, signal, from, cut, ends, stream, opened, closed, value, expired, faults>>
  BY DEF vars, clientVars, bindVars, serverVars, wireVars
<1> QED
  BY <1>1, RequestsStay, Rest, ServerKeeps

LEMMA StepKeeps ==
    ASSUME IInv, [Next]_vars
    PROVE  IInv'
<1>1. ASSUME NEW s \in Subs, Subscribe(s) \/ Release(s) \/ TimeLimit(s) \/ Retry(s) PROVE IInv'
  BY <1>1, SubscribeKeeps, ReleaseKeeps, TimeLimitKeeps, RetryKeeps
<1>2. ASSUME Connect \/ LoseStream \/ Event \/ Change PROVE IInv'
  BY <1>2, ConnectKeeps, LoseStreamKeeps, EventKeeps, ChangeKeeps
<1>3. ASSUME NEW b \in Made, ReadAnswer(b) \/ Arrive(b) \/ Open(b) \/ RefuseOpen(b) \/ Opened(b) PROVE IInv'
  BY <1>3, ReadAnswerKeeps, ArriveKeeps, OpenKeeps, RefuseOpenKeeps, OpenedKeeps
<1>4. ASSUME NEW b \in Made, Flush(b) \/ EndArrives(b) \/ Revoke(b) \/ Disconnect(b) PROVE IInv'
  BY <1>4, FlushKeeps, EndArrivesKeeps, RevokeKeeps, DisconnectKeeps
<1>5. ASSUME NEW g \in Streams, EndStream(g) PROVE IInv'
  BY <1>5, EndStreamKeeps
<1>6. CASE UNCHANGED vars
  BY <1>6, StutterKeeps
<1> QED
  BY <1>1, <1>2, <1>3, <1>4, <1>5, <1>6 DEF Next

LEMMA Inductive == Spec => []IInv
<1>1. Init => IInv
  BY Starts
<1>2. IInv /\ [Next]_vars => IInv'
  BY StepKeeps
<1> QED
  BY <1>1, <1>2, PTL DEF Spec

\* Whatever is lost or overtaken, no listener stays for a subscription that has ended, and the client is bound
\* only to its own request over the present stream (subscribe against close of dispatcher.ts, bind against stop
\* of client.ts).
THEOREM ChannelInvariant == Spec => []ChannelInv
<1>1. IInv => ChannelInv
  BY DEF IInv, ChannelInv
<1> QED
  BY <1>1, Inductive, PTL

-----------------------------------------------------------------------------
(* What was said to whom *)

\* What the client has of a request, what is on its way to it, and all of it with what the server still keeps.
Got(b) == IF bound[Of(b)] = b THEN seen[Of(b)] ELSE early[b]
Sent(b) == {v \in 0..value : Message(b, v) \in Range(stream[On(b)])}
All(b) == Range(Got(b)) \cup Sent(b) \cup Range(buffer[b])

\* Nothing of b may be missing.
Served(b) ==
    /\ b \in listening /\ b \notin expired
    /\ state[b] = "opening" \/ b \in {bound[Of(b)], binding[Of(b)]}

\* A stream carries only messages of the requests made over it, none twice.
Carried == \A g \in Streams : IsInjective(stream[g]) /\ \A m \in Range(stream[g]) : On(m.of) = g

\* Nothing comes before the provider was opened, and from the buffer nothing before the request is held.
Fresh ==
    /\ \A b \in Made : bound[Of(b)] = b => early[b] = <<>>
    /\ \A b \in Binds \ listening : state[b] \in {"none", "sent", "opening"} => buffer[b] = <<>> /\ early[b] = <<>>
    /\ \A b \in Made : state[b] \in {"none", "sent", "opening"} => Got(b) = <<>> /\ Sent(b) = {} /\ b \notin flush
    /\ \A b \in Made : state[b] = "held" => b \in listening /\ (buffer[b] # <<>> => b \in flush)

\* A message is in one place, once.
Parted(b) ==
    /\ IsInjective(Got(b)) /\ IsInjective(buffer[b])
    /\ Range(Got(b)) \cap Range(buffer[b]) = {}
    /\ Range(Got(b)) \cap Sent(b) = {}
    /\ Range(buffer[b]) \cap Sent(b) = {}

\* Everything since the opening is in one of the three places.
Complete(b) == All(b) \subseteq from[b]..value /\ (Served(b) => All(b) = from[b]..value)

Delivery == Carried /\ Fresh /\ \A b \in Made : Parted(b) /\ Complete(b)

LEMMA Nothing == IsInjective(<<>>) /\ Range(<<>>) = {} /\ \A S : <<>> \in Seq(S)
BY DEF IsInjective, Range

LEMMA JoinRange ==
    ASSUME NEW S, NEW q \in Seq(S), NEW r \in Seq(S)
    PROVE  q \o r \in Seq(S) /\ Range(q \o r) = Range(q) \cup Range(r)
<1>1. /\ q \o r \in Seq(S) /\ Len(q \o r) = Len(q) + Len(r)
      /\ \A n \in 1..(Len(q) + Len(r)) : (q \o r)[n] = IF n <= Len(q) THEN q[n] ELSE r[n - Len(q)]
  BY ConcatProperties
<1>2. /\ DOMAIN q = 1..Len(q) /\ Len(q) \in Nat /\ DOMAIN r = 1..Len(r) /\ Len(r) \in Nat
      /\ DOMAIN (q \o r) = 1..(Len(q) + Len(r))
  BY <1>1, ElementsOf
<1>3. ASSUME NEW v \in Range(q) PROVE v \in Range(q \o r)
  <2>1. PICK n \in 1..Len(q) : q[n] = v
    BY <1>2 DEF Range
  <2>2. n \in 1..(Len(q) + Len(r)) /\ (q \o r)[n] = v
    BY <1>1, <1>2, <2>1
  <2> QED
    BY <1>2, <2>2 DEF Range
<1>4. ASSUME NEW v \in Range(r) PROVE v \in Range(q \o r)
  <2>1. PICK n \in 1..Len(r) : r[n] = v
    BY <1>2 DEF Range
  <2>2. Len(q) + n \in 1..(Len(q) + Len(r)) /\ ~(Len(q) + n <= Len(q)) /\ Len(q) + n - Len(q) = n
    BY <1>2
  <2>3. (q \o r)[Len(q) + n] = v
    BY <1>1, <2>1, <2>2
  <2> QED
    BY <1>2, <2>2, <2>3 DEF Range
<1>5. ASSUME NEW v \in Range(q \o r) PROVE v \in Range(q) \cup Range(r)
  <2>1. PICK n \in 1..(Len(q) + Len(r)) : (q \o r)[n] = v
    BY <1>2 DEF Range
  <2>2. CASE n <= Len(q)
    <3>1. n \in 1..Len(q) /\ q[n] = v
      BY <1>1, <1>2, <2>1, <2>2
    <3> QED
      BY <1>2, <3>1 DEF Range
  <2>3. CASE ~(n <= Len(q))
    <3>1. n - Len(q) \in 1..Len(r) /\ r[n - Len(q)] = v
      BY <1>1, <1>2, <2>1, <2>3
    <3> QED
      BY <1>2, <3>1 DEF Range
  <2> QED
    BY <2>2, <2>3
<1> QED
  BY <1>1, <1>3, <1>4, <1>5

LEMMA JoinDistinct ==
    ASSUME NEW S, NEW q \in Seq(S), NEW r \in Seq(S), IsInjective(q), IsInjective(r), Range(q) \cap Range(r) = {}
    PROVE  IsInjective(q \o r)
<1>1. /\ Len(q \o r) = Len(q) + Len(r) /\ q \o r \in Seq(S)
      /\ \A n \in 1..(Len(q) + Len(r)) : (q \o r)[n] = IF n <= Len(q) THEN q[n] ELSE r[n - Len(q)]
  BY ConcatProperties
<1>2. /\ DOMAIN q = 1..Len(q) /\ Len(q) \in Nat /\ DOMAIN r = 1..Len(r) /\ Len(r) \in Nat
      /\ DOMAIN (q \o r) = 1..(Len(q) + Len(r))
  BY <1>1, ElementsOf
<1>3. ASSUME NEW n \in 1..(Len(q) + Len(r))
      PROVE  \/ n \in DOMAIN q /\ (q \o r)[n] = q[n]
             \/ n - Len(q) \in DOMAIN r /\ (q \o r)[n] = r[n - Len(q)] /\ ~(n <= Len(q))
  BY <1>1, <1>2
<1>4. \A i \in DOMAIN q : q[i] \in Range(q)
  BY DEF Range
<1>5. \A i \in DOMAIN r : r[i] \in Range(r)
  BY DEF Range
<1>6. ASSUME NEW n \in 1..(Len(q) + Len(r)), NEW k \in 1..(Len(q) + Len(r)), (q \o r)[n] = (q \o r)[k] PROVE n = k
  <2>1. CASE n \in DOMAIN q /\ (q \o r)[n] = q[n] /\ k \in DOMAIN q /\ (q \o r)[k] = q[k]
    BY <1>6, <2>1 DEF IsInjective
  <2>2. CASE /\ n - Len(q) \in DOMAIN r /\ (q \o r)[n] = r[n - Len(q)]
             /\ k - Len(q) \in DOMAIN r /\ (q \o r)[k] = r[k - Len(q)]
    <3>1. n - Len(q) = k - Len(q)
      BY <1>6, <2>2 DEF IsInjective
    <3> QED
      BY <1>2, <3>1
  <2>3. CASE n \in DOMAIN q /\ (q \o r)[n] = q[n] /\ k - Len(q) \in DOMAIN r /\ (q \o r)[k] = r[k - Len(q)]
    BY <1>4, <1>5, <1>6, <2>3
  <2>5. CASE k \in DOMAIN q /\ (q \o r)[k] = q[k] /\ n - Len(q) \in DOMAIN r /\ (q \o r)[n] = r[n - Len(q)]
    BY <1>4, <1>5, <1>6, <2>5
  <2>4. /\ (n \in DOMAIN q /\ (q \o r)[n] = q[n]) \/ (n - Len(q) \in DOMAIN r /\ (q \o r)[n] = r[n - Len(q)])
        /\ (k \in DOMAIN q /\ (q \o r)[k] = q[k]) \/ (k - Len(q) \in DOMAIN r /\ (q \o r)[k] = r[k - Len(q)])
    BY <1>3
  <2> QED
    BY <2>1, <2>2, <2>3, <2>4, <2>5
<1> QED
  BY <1>2, <1>6 DEF IsInjective

LEMMA AddDistinct ==
    ASSUME NEW S, NEW q \in Seq(S), NEW v \in S
    PROVE  /\ q \o <<v>> \in Seq(S) /\ Append(q, v) = q \o <<v>> /\ Range(q \o <<v>>) = Range(q) \cup {v}
           /\ IsInjective(q) /\ v \notin Range(q) => IsInjective(q \o <<v>>)
<1>1. <<v>> \in Seq(S) /\ Range(<<v>>) = {v} /\ IsInjective(<<v>>)
  BY DEF Range, IsInjective
<1>2. Append(q, v) = q \o <<v>>
  OBVIOUS
<1>3. IsInjective(q) /\ v \notin Range(q) => IsInjective(q \o <<v>>)
  BY <1>1, JoinDistinct
<1>4. q \o <<v>> \in Seq(S) /\ Range(q \o <<v>>) = Range(q) \cup {v}
  <2>1. q \o <<v>> \in Seq(S) /\ Range(q \o <<v>>) = Range(q) \cup Range(<<v>>)
    BY <1>1, JoinRange, ZenonT(60)
  <2> QED
    BY <1>1, <2>1
<1> QED
  BY <1>2, <1>3, <1>4

LEMMA TakeDistinct ==
    ASSUME NEW S, NEW q \in Seq(S), q # <<>>, IsInjective(q)
    PROVE  IsInjective(Tail(q)) /\ Range(Tail(q)) = Range(q) \ {Head(q)} /\ Head(q) \in Range(q)
<1>1. /\ Tail(q) \in Seq(S) /\ Len(q) \in Nat /\ Len(q) # 0 /\ Len(Tail(q)) = Len(q) - 1 /\ Head(q) = q[1]
      /\ DOMAIN q = 1..Len(q) /\ DOMAIN Tail(q) = 1..(Len(q) - 1)
      /\ \A n \in 1..(Len(q) - 1) : Tail(q)[n] = q[n + 1]
  BY ElementsOf
<1>2. \A n \in 1..(Len(q) - 1) : n + 1 \in DOMAIN q /\ n + 1 # 1
  BY <1>1
<1>3. 1 \in DOMAIN q
  BY <1>1
<1>4. IsInjective(Tail(q))
  <2> SUFFICES ASSUME NEW n \in 1..(Len(q) - 1), NEW k \in 1..(Len(q) - 1), Tail(q)[n] = Tail(q)[k] PROVE n = k
    BY <1>1 DEF IsInjective
  <2>1. n + 1 = k + 1
    BY <1>1, <1>2 DEF IsInjective
  <2> QED
    BY <1>1, <2>1
<1>5. ASSUME NEW x \in Range(Tail(q)) PROVE x \in Range(q) \ {Head(q)}
  <2>1. PICK n \in 1..(Len(q) - 1) : x = q[n + 1]
    BY <1>1, <1>5 DEF Range
  <2>2. x \in Range(q) /\ x # q[1]
    BY <1>2, <1>3, <2>1 DEF Range, IsInjective
  <2> QED
    BY <1>1, <2>2
<1>6. ASSUME NEW x \in Range(q) \ {Head(q)} PROVE x \in Range(Tail(q))
  <2>1. PICK n \in 1..Len(q) : x = q[n]
    BY <1>1 DEF Range
  <2>2. n # 1
    BY <1>1, <2>1
  <2>3. n - 1 \in 1..(Len(q) - 1) /\ n - 1 + 1 = n
    BY <1>1, <2>2
  <2>4. Tail(q)[n - 1] = x
    BY <1>1, <2>1, <2>3
  <2> QED
    BY <1>1, <2>3, <2>4 DEF Range
<1> QED
  BY <1>1, <1>3, <1>5, <1>4, <1>6 DEF Range

\* A step in which nothing is said: what some requests have is dropped with the stream, and of them nothing is asked any more.
LEMMA NothingSaid ==
    ASSUME IInv, Delivery,
           UNCHANGED <<asked, buffer, from, value>>,
           \A g \in Streams : stream'[g] \in {stream[g], <<>>},
           \A b \in Binds : early'[b] \in {early[b], <<>>},
           \A b \in Made : Got(b)' \in {Got(b), <<>>},
           \A b \in Made : bound'[Of(b)] = b => early'[b] = <<>>,
           \A b \in Binds \ listening' : state'[b] \in {"none", "sent", "opening"} =>
               b \notin listening /\ state[b] \in {"none", "sent", "opening"},
           \A b \in Made : state'[b] \in {"none", "sent", "opening"} =>
               state[b] \in {"none", "sent", "opening"} /\ (b \in flush' => b \in flush),
           \A b \in Made : state'[b] = "held" => b \in listening' /\ (b \in flush' \/ (state[b] = "held" /\ b \notin flush)),
           \A b \in Made : Served(b)' =>
               Served(b) /\ (state[b] = "opening" \/ (Got(b)' = Got(b) /\ stream'[On(b)] = stream[On(b)]))
    PROVE  Delivery'
<1>1. Made' = Made /\ \A b \in Made : Of(b)' = Of(b) /\ On(b)' = On(b) /\ On(b) \in Streams /\ b \in Binds
  BY RequestOf DEF IInv, Requests, Made, Of, On
<1>2. ASSUME NEW b \in Made PROVE /\ Sent(b)' \in {Sent(b), {}}
                                  /\ stream'[On(b)] = stream[On(b)] => Sent(b)' = Sent(b)
  <2>1. On(b)' = On(b) /\ stream'[On(b)] \in {stream[On(b)], <<>>}
    BY <1>1
  <2> QED
    BY <2>1, Nothing DEF Sent, Message
<1>3. Carried'
  <2> SUFFICES ASSUME NEW g \in Streams PROVE IsInjective(stream'[g]) /\ \A m \in Range(stream'[g]) : On(m.of)' = g
    BY DEF Carried
  <2>1. CASE stream'[g] = <<>>
    BY <2>1, Nothing
  <2>2. CASE stream'[g] = stream[g]
    <3>1. \A m \in Range(stream[g]) : On(m.of)' = On(m.of)
      BY DEF On
    <3> QED
      BY <2>2, <3>1 DEF Delivery, Carried
  <2> QED
    BY <2>1, <2>2
<1>4. Fresh'
  <2>1. \A b \in Made' : bound'[Of(b)'] = b => early'[b] = <<>>
    BY <1>1
  <2>2. \A b \in Binds \ listening' : state'[b] \in {"none", "sent", "opening"} => buffer'[b] = <<>> /\ early'[b] = <<>>
    <3>1. \A b \in Binds \ listening : state[b] \in {"none", "sent", "opening"} => buffer[b] = <<>> /\ early[b] = <<>>
      BY DEF Delivery, Fresh
    <3> QED
      BY <3>1
  <2>3. \A b \in Made : state'[b] \in {"none", "sent", "opening"} => Got(b)' = <<>> /\ Sent(b)' = {} /\ b \notin flush'
    <3>1. \A b \in Made : state[b] \in {"none", "sent", "opening"} => Got(b) = <<>> /\ Sent(b) = {} /\ b \notin flush
      BY DEF Delivery, Fresh
    <3> QED
      BY <1>2, <3>1
  <2>4. \A b \in Made : state'[b] = "held" => b \in listening' /\ (buffer'[b] # <<>> => b \in flush')
    <3>1. \A b \in Made : state[b] = "held" => (buffer[b] # <<>> => b \in flush)
      BY DEF Delivery, Fresh
    <3> QED
      BY <3>1
  <2> QED
    BY <1>1, <2>1, <2>2, <2>3, <2>4 DEF Fresh
<1>5. ASSUME NEW b \in Made PROVE Parted(b)'
  <2>1. Parted(b) /\ Got(b)' \in {Got(b), <<>>} /\ Sent(b)' \in {Sent(b), {}} /\ buffer'[b] = buffer[b]
    BY <1>2 DEF Delivery
  <2> QED
    BY <2>1, Nothing DEF Parted
<1>6. ASSUME NEW b \in Made PROVE Complete(b)'
  <2>1. /\ Complete(b) /\ Got(b)' \in {Got(b), <<>>} /\ Sent(b)' \in {Sent(b), {}}
        /\ buffer'[b] = buffer[b] /\ from'[b] = from[b] /\ value' = value
    BY <1>2 DEF Delivery
  <2>2. All(b)' \subseteq All(b)
    BY <2>1, Nothing DEF All
  <2>3. ASSUME Served(b)' PROVE All(b)' = All(b) /\ Served(b)
    <3>1. Got(b)' = Got(b) /\ Sent(b)' = Sent(b)
      <4>1. state[b] = "opening" => Got(b) = <<>> /\ Sent(b) = {}
        BY DEF Delivery, Fresh
      <4> QED
        BY <1>2, <2>1, <2>3, <4>1
    <3> QED
      BY <2>1, <2>3, <3>1 DEF All
  <2> QED
    BY <2>1, <2>2, <2>3 DEF Complete
<1> QED
  BY <1>1, <1>3, <1>4, <1>5, <1>6 DEF Delivery

\* What is held is listened to, and its messages of the opening have a timer.
LEMMA HeldIsServed ==
    ASSUME IInv, Delivery
    PROVE  /\ \A b \in Made : state[b] = "held" => b \in listening
           /\ \A b \in Made : b # 0 /\ b \in Binds /\ Of(b) \in Subs /\ On(b) \in Streams
           /\ \A b \in listening : b \in Made /\ state[b] \in {"opening", "held"}
<1>1. \A b \in Made : b # 0 /\ b \in Binds /\ Of(b) \in Subs /\ On(b) \in Streams
  BY RequestOf DEF IInv, Requests
<1> QED
  BY <1>1, Rest DEF Delivery, Fresh, IInv, ListenersServe

LEMMA OnTheWay ==
    ASSUME IInv, NEW g \in Streams
    PROVE  /\ stream[g] \in Seq([of : Made, says : 0..value])
           /\ \A m \in Range(stream[g]) : m.of \in Made /\ m.says \in 0..value /\ m = Message(m.of, m.says)
<1>1. stream[g] \in Seq([of : Made, says : 0..value])
  BY Rest
<1>2. Range(stream[g]) \subseteq [of : Made, says : 0..value]
  BY <1>1, ElementsOf
<1> QED
  BY <1>1, <1>2 DEF Message

LEMMA StopStreamSays ==
    ASSUME IInv, Delivery, StopStream, UNCHANGED <<seen, bindVars, serverVars, value, expired>>
    PROVE  Delivery'
<1>1. /\ bound' = [s \in Subs |-> 0] /\ binding' = [s \in Subs |-> 0]
      /\ early' = [b \in Binds |-> <<>>]
      /\ stream' = IF conn = 0 THEN stream ELSE [stream EXCEPT ![conn] = <<>>]
  BY DEF StopStream, BoundAfter, Unbound
<1>2. UNCHANGED <<seen, asked, state, answer, listening, buffer, flush, signal, from, value, expired>>
  BY DEF bindVars, serverVars
<1>3. \A g \in Streams : stream'[g] \in {stream[g], <<>>}
  <2>1. stream \in [Streams -> Seq([of : Made, says : 0..value])]
    BY Rest
  <2> QED
    BY <1>1, <2>1
<1>4. \A b \in Made : Of(b)' = Of(b)
  BY <1>2 DEF Of
<1>5. ASSUME NEW b \in Made PROVE Got(b)' = <<>> /\ bound'[Of(b)] # b /\ binding'[Of(b)] # b
  <2>1. b # 0 /\ b \in Binds /\ Of(b) \in Subs
    BY HeldIsServed
  <2> QED
    BY <1>1, <1>4, <2>1 DEF Got
<1>6. \A b \in Made : Served(b)' => Served(b) /\ state[b] = "opening"
  BY <1>2, <1>4, <1>5 DEF Served
<1>7. \A b \in Made : state'[b] = "held" => b \in listening' /\ (b \in flush' \/ (state[b] = "held" /\ b \notin flush))
  BY <1>2, HeldIsServed
<1> QED
  BY <1>1, <1>2, <1>3, <1>5, <1>6, <1>7, NothingSaid

LEMMA LoseStreamSays ==
    ASSUME IInv, Delivery, LoseStream
    PROVE  Delivery'
BY StopStreamSays DEF LoseStream

LEMMA ReleaseSays ==
    ASSUME IInv, Delivery, NEW s \in Subs, Release(s)
    PROVE  Delivery'
<1>1. UNCHANGED <<keeps, seen, bindVars, serverVars, opened, closed, value, expired, faults>>
  BY DEF Release
<1>2. CASE Wanted = {s} /\ ~keeps
  BY <1>1, <1>2, StopStreamSays DEF Release
<1>3. CASE ~(Wanted = {s} /\ ~keeps)
  <2>1. bound' = [bound EXCEPT ![s] = 0] /\ binding' = [binding EXCEPT ![s] = 0] /\ UNCHANGED <<conn, early, stream>>
    BY <1>3 DEF Release
  <2>2. UNCHANGED <<seen, asked, state, answer, listening, buffer, flush, signal, from, value, expired>>
    BY <1>1 DEF bindVars, serverVars
  <2>3. bound \in [Subs -> Nat] /\ binding \in [Subs -> Nat]
    BY GivenUp
  <2>4. ASSUME NEW b \in Made
        PROVE  /\ Got(b)' \in {Got(b), <<>>}
               /\ bound'[Of(b)] = b => early'[b] = <<>>
               /\ Served(b)' => Served(b) /\ (state[b] = "opening" \/ (Got(b)' = Got(b) /\ stream'[On(b)] = stream[On(b)]))
    <3>1. b # 0 /\ Of(b)' = Of(b) /\ Of(b) \in Subs
      BY <2>2, HeldIsServed DEF Of
    <3>2. bound[Of(b)] = b => early[b] = <<>>
      BY DEF Delivery, Fresh
    <3>3. CASE Of(b) = s
      <4>1. bound'[Of(b)] = 0 /\ binding'[Of(b)] = 0
        BY <2>1, <2>3, <3>3
      <4> QED
        BY <2>1, <2>2, <3>1, <3>2, <4>1 DEF Got, Served
    <3>4. CASE Of(b) # s
      <4>1. bound'[Of(b)] = bound[Of(b)] /\ binding'[Of(b)] = binding[Of(b)]
        BY <2>1, <2>3, <3>1, <3>4
      <4> QED
        BY <2>1, <2>2, <3>1, <3>2, <4>1 DEF Got, Served
    <3> QED
      BY <3>3, <3>4
  <2>5. \A b \in Made : state'[b] = "held" => b \in listening' /\ (b \in flush' \/ (state[b] = "held" /\ b \notin flush))
    BY <2>2, HeldIsServed
  <2> QED
    BY <2>1, <2>2, <2>4, <2>5, NothingSaid
<1> QED
  BY <1>2, <1>3

LEMMA TimeLimitSays ==
    ASSUME IInv, Delivery, NEW s \in Subs, TimeLimit(s)
    PROVE  Delivery'
<1>1. /\ binding' = [binding EXCEPT ![s] = 0]
      /\ UNCHANGED <<conn, bound, early, seen, bindVars, serverVars, stream, value, expired>>
  BY DEF TimeLimit
<1>2. UNCHANGED <<asked, state, answer, listening, buffer, flush, signal, from>>
  BY <1>1 DEF bindVars, serverVars
<1>3. binding \in [Subs -> Nat]
  BY GivenUp
<1>4. ASSUME NEW b \in Made
      PROVE  /\ Got(b)' = Got(b)
             /\ bound'[Of(b)] = b => early'[b] = <<>>
             /\ Served(b)' => Served(b)
  <2>1. b # 0 /\ Of(b)' = Of(b) /\ Of(b) \in Subs
    BY <1>2, HeldIsServed DEF Of
  <2>2. bound[Of(b)] = b => early[b] = <<>>
    BY DEF Delivery, Fresh
  <2>3. binding'[Of(b)] = b => binding[Of(b)] = b
    BY <1>1, <1>3, <2>1
  <2> QED
    BY <1>1, <1>2, <2>1, <2>2, <2>3 DEF Got, Served
<1>5. \A b \in Made : state'[b] = "held" => b \in listening' /\ (b \in flush' \/ (state[b] = "held" /\ b \notin flush))
  BY <1>2, HeldIsServed
<1> QED
  BY <1>1, <1>2, <1>4, <1>5, NothingSaid

\* The early messages become what was seen.
LEMMA ReadAnswerSays ==
    ASSUME IInv, Delivery, NEW b \in Made, ReadAnswer(b)
    PROVE  Delivery'
<1> DEFINE s == Of(b)
<1>1. UNCHANGED <<keeps, sub, conn, asked, state, serverVars, wireVars, opened, closed, value, expired, faults>>
  BY DEF ReadAnswer
<1>2. UNCHANGED <<asked, state, listening, buffer, flush, signal, from, stream, value, expired>>
  BY <1>1 DEF serverVars, wireVars
<1>3. b # 0 /\ b \in Binds /\ s \in Subs /\ bound \in [Subs -> Nat] /\ binding \in [Subs -> Nat]
  BY HeldIsServed, GivenUp
<1>4. /\ early \in [Binds -> Seq(0..value)] /\ seen \in [Subs -> Seq(0..value)]
  BY Rest
<1>5. \/ UNCHANGED <<bound, early, seen>> /\ (UNCHANGED binding \/ binding' = [binding EXCEPT ![s] = 0])
      \/ /\ binding[s] = b /\ binding' = [binding EXCEPT ![s] = 0] /\ bound' = [bound EXCEPT ![s] = b]
         /\ seen' = [seen EXCEPT ![s] = early[b]] /\ early' = [early EXCEPT ![b] = <<>>]
  BY DEF ReadAnswer
<1>6. \A x \in Made : x # 0 /\ Of(x)' = Of(x) /\ Of(x) \in Subs /\ x \in Binds /\ (bound[Of(x)] = x => early[x] = <<>>)
  BY <1>2, HeldIsServed DEF Of, Delivery, Fresh
<1>7. ASSUME NEW x \in Made
      PROVE  /\ Got(x)' = Got(x)
             /\ bound'[Of(x)] = x => early'[x] = <<>>
             /\ x \in {bound'[Of(x)], binding'[Of(x)]} => x \in {bound[Of(x)], binding[Of(x)]}
             /\ early'[x] \in {early[x], <<>>}
  <2>1. CASE UNCHANGED <<bound, early, seen>> /\ (UNCHANGED binding \/ binding' = [binding EXCEPT ![s] = 0])
    BY <1>3, <1>6, <2>1 DEF Got
  <2>2. CASE /\ binding[s] = b /\ binding' = [binding EXCEPT ![s] = 0] /\ bound' = [bound EXCEPT ![s] = b]
             /\ seen' = [seen EXCEPT ![s] = early[b]] /\ early' = [early EXCEPT ![b] = <<>>]
    <3>1. bound[s] = 0
      BY <1>3, <2>2 DEF IInv, BoundIsPresent
    <3>2. /\ bound'[s] = b /\ seen'[s] = early[b] /\ early'[b] = <<>> /\ binding'[s] = 0
          /\ \A r \in Subs \ {s} : bound'[r] = bound[r] /\ seen'[r] = seen[r] /\ binding'[r] = binding[r]
          /\ \A y \in Binds \ {b} : early'[y] = early[y]
      BY <1>3, <1>4, <2>2
    <3>3. CASE x = b
      BY <1>3, <1>6, <2>2, <3>1, <3>2, <3>3 DEF Got
    <3>4. CASE x # b /\ Of(x) = s
      BY <1>3, <1>6, <3>1, <3>2, <3>4 DEF Got
    <3>5. CASE x # b /\ Of(x) # s
      BY <1>3, <1>6, <3>2, <3>5 DEF Got
    <3> QED
      BY <3>3, <3>4, <3>5
  <2> QED
    BY <1>5, <2>1, <2>2
<1>8. \A x \in Made : Served(x)' => Served(x)
  BY <1>2, <1>6, <1>7 DEF Served
<1>9. \A x \in Binds : early'[x] \in {early[x], <<>>}
  BY <1>3, <1>4, <1>5
<1>10. \A x \in Made : state'[x] = "held" => x \in listening' /\ (x \in flush' \/ (state[x] = "held" /\ x \notin flush))
  BY <1>2, HeldIsServed
<1> QED
  BY <1>2, <1>7, <1>8, <1>9, <1>10, NothingSaid

\* Requests move at the server.
LEMMA ServerIsQuiet ==
    ASSUME IInv, Delivery,
           UNCHANGED <<clientVars, asked, buffer, from, stream, value, expired>>,
           listening' \subseteq listening, \A b \in listening \ listening' : state'[b] \in {"revoked", "over"},
           \A b \in Made : \/ state'[b] = state[b]
                           \/ state[b] = "sent" /\ state'[b] = "opening"
                           \/ state'[b] = "held" /\ b \in listening' /\ b \in flush'
                           \/ state'[b] \in {"revoked", "over"},
           \A b \in Binds \ Made : state'[b] = state[b],
           flush \subseteq flush', \A b \in flush' \ flush : state'[b] = "held"
    PROVE  Delivery'
<1>1. UNCHANGED <<bound, binding, early, seen>>
  BY DEF clientVars
<1>2. ASSUME NEW b \in Made PROVE /\ Got(b)' = Got(b) /\ (bound'[Of(b)] = b => early'[b] = <<>>)
                                  /\ Served(b)' => Served(b)
  <2>1. Of(b)' = Of(b)
    BY DEF Of
  <2>2. bound[Of(b)] = b => early[b] = <<>>
    BY DEF Delivery, Fresh
  <2>3. b \in listening' /\ state'[b] = "opening" => state[b] = "opening"
    BY HeldIsServed
  <2> QED
    BY <1>1, <2>1, <2>2, <2>3 DEF Got, Served
<1>3. ASSUME NEW b \in Made, state'[b] = "held" PROVE b \in listening' /\ (b \in flush' \/ (state[b] = "held" /\ b \notin flush))
  BY <1>3, HeldIsServed
<1>4. ASSUME NEW b \in Binds \ listening', state'[b] \in {"none", "sent", "opening"}
      PROVE  b \notin listening /\ state[b] \in {"none", "sent", "opening"}
  BY <1>4
<1>5. \A b \in Made : state'[b] \in {"none", "sent", "opening"} =>
               state[b] \in {"none", "sent", "opening"} /\ (b \in flush' => b \in flush)
  OBVIOUS
<1> QED
  BY <1>1, <1>2, <1>3, <1>4, <1>5, NothingSaid

LEMMA ArriveSays ==
    ASSUME IInv, Delivery, NEW b \in Made, Arrive(b)
    PROVE  Delivery'
<1>1. /\ state[b] = "sent"
      /\ UNCHANGED <<clientVars, asked, serverVars, wireVars, value, expired>>
      /\ state' \in {[state EXCEPT ![b] = "over"], [state EXCEPT ![b] = "opening"]}
  BY DEF Arrive
<1>2. UNCHANGED <<listening, buffer, flush, from, stream>>
  BY <1>1 DEF serverVars, wireVars
<1>3. \A x \in Binds : state'[x] = state[x] \/ (x = b /\ state'[x] \in {"over", "opening"})
  BY <1>1, Rest
<1> QED
  BY <1>1, <1>2, <1>3, HeldIsServed, ServerIsQuiet

LEMMA RefuseOpenSays ==
    ASSUME IInv, Delivery, NEW b \in Made, RefuseOpen(b)
    PROVE  Delivery'
<1>1. /\ UNCHANGED <<clientVars, asked, serverVars, wireVars, value, expired>>
      /\ state' = [state EXCEPT ![b] = "over"]
  BY DEF RefuseOpen
<1>2. UNCHANGED <<listening, buffer, flush, from, stream>>
  BY <1>1 DEF serverVars, wireVars
<1>3. \A x \in Binds : state'[x] = state[x] \/ (x = b /\ state'[x] = "over")
  BY <1>1, Rest
<1> QED
  BY <1>1, <1>2, <1>3, HeldIsServed, ServerIsQuiet

LEMMA OpenedSays ==
    ASSUME IInv, Delivery, NEW b \in Made, Opened(b)
    PROVE  Delivery'
<1>1. /\ b \in listening
      /\ UNCHANGED <<clientVars, asked, buffer, from, wireVars, value, expired>>
      /\ \/ state' = [state EXCEPT ![b] = "held"] /\ flush' = flush \cup {b} /\ UNCHANGED listening
         \/ state' = [state EXCEPT ![b] = "over"] /\ listening' = listening \ {b} /\ UNCHANGED flush
  BY DEF Opened
<1>2. UNCHANGED stream
  BY <1>1 DEF wireVars
<1>3. /\ \A x \in Binds \ {b} : state'[x] = state[x]
      /\ b \in Binds /\ (state'[b] = "held" \/ state'[b] = "over")
  BY <1>1, Rest
<1>4. CASE state' = [state EXCEPT ![b] = "held"] /\ flush' = flush \cup {b} /\ UNCHANGED listening
  <2>1. state'[b] = "held"
    BY <1>3, <1>4, Rest
  <2>2. \A x \in Made : state'[x] = state[x] \/ (state'[x] = "held" /\ x \in listening' /\ x \in flush')
    BY <1>1, <1>3, <1>4, <2>1, HeldIsServed
  <2> QED
    BY <1>1, <1>2, <1>3, <1>4, <2>1, <2>2, ServerIsQuiet
<1>5. CASE state' = [state EXCEPT ![b] = "over"] /\ listening' = listening \ {b} /\ UNCHANGED flush
  <2>1. state'[b] = "over"
    BY <1>3, <1>5, Rest
  <2>2. \A x \in Made : state'[x] = state[x] \/ state'[x] \in {"revoked", "over"}
    BY <1>3, <2>1, HeldIsServed
  <2> QED
    BY <1>1, <1>2, <1>3, <1>5, <2>1, <2>2, ServerIsQuiet
<1> QED
  BY <1>1, <1>4, <1>5

\* A set of held requests ends.
LEMMA EndedSays ==
    ASSUME IInv, Delivery, NEW bs \in SUBSET Made, Ended(bs),
           UNCHANGED <<clientVars, asked, buffer, flush, from, stream, value, expired>>
    PROVE  Delivery'
<1>1. /\ state' = [b \in Binds |-> IF b \in bs THEN "over" ELSE state[b]]
      /\ listening' = listening \ bs
  BY DEF Ended
<1>2. /\ \A b \in Binds : state'[b] = IF b \in bs THEN "over" ELSE state[b]
      /\ bs \subseteq Binds /\ Made \subseteq Binds
  BY <1>1, Rest
<1>3. \A b \in Made : state'[b] = state[b] \/ state'[b] \in {"revoked", "over"}
  BY <1>2
<1>4. \A b \in listening \ listening' : state'[b] \in {"revoked", "over"}
  BY <1>1, <1>2
<1> QED
  BY <1>1, <1>2, <1>3, <1>4, ServerIsQuiet

LEMMA EndArrivesSays ==
    ASSUME IInv, Delivery, NEW b \in Made, EndArrives(b)
    PROVE  Delivery'
<1>1. {b} \cap Held(On(b)) \in SUBSET Made
  OBVIOUS
<1> QED
  BY <1>1, EndedSays DEF EndArrives

LEMMA EndStreamSays ==
    ASSUME IInv, Delivery, NEW g \in Streams, EndStream(g)
    PROVE  Delivery'
<1>1. Held(g) \in SUBSET Made
  BY DEF Held
<1>2. Ended(Held(g)) /\ UNCHANGED <<clientVars, asked, buffer, flush, from, wireVars, value, expired>>
  BY DEF EndStream
<1> QED
  BY <1>1, <1>2, EndedSays DEF wireVars

LEMMA RevokeSays ==
    ASSUME IInv, Delivery, NEW b \in Made, Revoke(b)
    PROVE  Delivery'
<1>1. /\ state' = [state EXCEPT ![b] = "revoked"] /\ listening' = listening \ {b}
      /\ UNCHANGED <<clientVars, asked, buffer, flush, from, wireVars, value, expired>>
  BY DEF Revoke
<1>2. UNCHANGED stream
  BY <1>1 DEF wireVars
<1>3. \A x \in Binds : state'[x] = IF x = b THEN "revoked" ELSE state[x]
  BY <1>1, Rest
<1>4. Made \subseteq Binds
  BY Rest
<1> QED
  BY <1>1, <1>2, <1>3, <1>4, ServerIsQuiet

LEMMA DisconnectSays ==
    ASSUME IInv, Delivery, NEW b \in Made, Disconnect(b)
    PROVE  Delivery'
<1>1. /\ state' = [state EXCEPT ![b] = IF @ = "sent" THEN "over" ELSE @]
      /\ UNCHANGED <<clientVars, asked, listening, buffer, flush, from, stream, value, expired>>
  BY DEF Disconnect
<1>2. \A x \in Binds : state'[x] = state[x] \/ (x = b /\ state'[x] = "over")
  BY <1>1, Rest
<1>3. Made \subseteq Binds
  BY Rest
<1> QED
  BY <1>1, <1>2, <1>3, ServerIsQuiet

-----------------------------------------------------------------------------
(* What is new *)

\* New requests have nothing yet.
LEMMA BindSays ==
    ASSUME IInv, Delivery, NEW ss \in SUBSET Subs, NEW g \in Streams, opened <= g, Bind(ss, g),
           \A s \in ss : bound[s] = 0 /\ binding[s] = 0,
           UNCHANGED <<bound, early, seen, serverVars, wireVars, value, expired>>
    PROVE  Delivery'
<1>1. UNCHANGED <<bound, early, seen, listening, buffer, flush, signal, from, stream, value, expired>>
  BY DEF serverVars, wireVars
<1>2. /\ asked \in Seq(Asked(opened)) /\ Len(asked) <= MaxBinds /\ opened \in Nat /\ g \in Nat /\ g \in 1..g
      /\ opened <= g
  BY RpcChannelAssumption DEF IInv, TypeOK, Asked, Requests, Streams
<1>3. /\ Made \subseteq Made' /\ Made' \subseteq Binds
      /\ \A b \in Made : asked'[b] = asked[b]
      /\ \E number \in [ss -> Made' \ Made] :
           /\ \A s \in ss : asked'[number[s]] = [sub |-> s, over |-> g]
           /\ binding' = [s \in Subs |-> IF s \in ss THEN number[s] ELSE binding[s]]
           /\ state' = [b \in Binds |-> IF b \in Made' \ Made THEN "sent" ELSE state[b]]
  BY <1>2, BindAdds
<1>4. PICK number \in [ss -> Made' \ Made] :
         /\ binding' = [s \in Subs |-> IF s \in ss THEN number[s] ELSE binding[s]]
         /\ state' = [b \in Binds |-> IF b \in Made' \ Made THEN "sent" ELSE state[b]]
  BY <1>3
<1>5. /\ \A b \in Made : Of(b)' = Of(b) /\ On(b)' = On(b) /\ state'[b] = state[b]
      /\ \A b \in Made' \ Made : state'[b] = "sent"
      /\ \A b \in Binds \ Made' : state'[b] = state[b]
  BY <1>3, <1>4 DEF Of, On
<1>6. \A b \in Made : Got(b)' = Got(b) /\ Sent(b)' = Sent(b)
  BY <1>1, <1>5 DEF Got, Sent, Message
<1>7. ASSUME NEW b \in Made' \ Made
      PROVE  /\ b \notin listening /\ buffer[b] = <<>> /\ early[b] = <<>> /\ b \notin flush
             /\ \A s \in Subs : bound[s] # b
  <2>1. b \in Binds /\ state[b] = "none" /\ b \notin listening /\ b \notin flush
    BY <1>3, Rest DEF IInv, Requests
  <2>2. \A s \in Subs : bound[s] # b
    <3>1. b # 0
      BY <2>1 DEF Binds
    <3> QED
      BY <3>1, BoundOf DEF IInv, Requests
  <2> QED
    BY <2>1, <2>2 DEF Delivery, Fresh
<1>8. ASSUME NEW b \in Made' \ Made PROVE Got(b)' = <<>> /\ Sent(b)' = {} /\ Of(b)' \in Subs
  <2>1. Of(b)' \in Subs
    <3>1. asked' \in Seq(Asked(g)) /\ asked'[b] \in Asked(g)
      BY <1>2, BindAdds, ElementsOf DEF Made
    <3> QED
      BY <3>1 DEF Asked, Of
  <2>2. Got(b)' = <<>>
    BY <1>1, <1>7, <2>1 DEF Got
  <2>3. \A h \in Streams : \A m \in Range(stream[h]) : m.of \in Made
    BY OnTheWay
  <2>4. On(b)' \in Streams
    <3>1. asked'[b] \in Asked(g)
      BY <1>2, BindAdds, ElementsOf DEF Made
    <3>2. asked'[b].over \in 1..g
      BY <3>1 DEF Asked
    <3> QED
      BY <1>2, <3>2, RpcChannelAssumption DEF On, Streams
  <2>5. \A v : Message(b, v).of = b
    BY DEF Message
  <2> QED
    BY <1>1, <2>1, <2>2, <2>3, <2>4, <2>5 DEF Sent
<1>9. Carried'
  <2>1. ASSUME NEW h \in Streams, NEW m \in Range(stream[h]) PROVE On(m.of)' = h
    <3>1. m.of \in Made /\ On(m.of) = h
      BY OnTheWay DEF Delivery, Carried
    <3> QED
      BY <1>5, <3>1
  <2> QED
    BY <1>1, <2>1 DEF Delivery, Carried
<1>10. Fresh'
  <2>1. \A b \in Made' : bound'[Of(b)'] = b => early'[b] = <<>>
    BY <1>1, <1>5, <1>7 DEF Delivery, Fresh
  <2>2. \A b \in Binds \ listening' : state'[b] \in {"none", "sent", "opening"} => buffer'[b] = <<>> /\ early'[b] = <<>>
    BY <1>1, <1>5, <1>7 DEF Delivery, Fresh
  <2>3. \A b \in Made' : state'[b] \in {"none", "sent", "opening"} => Got(b)' = <<>> /\ Sent(b)' = {} /\ b \notin flush'
    BY <1>1, <1>5, <1>6, <1>7, <1>8 DEF Delivery, Fresh
  <2>4. \A b \in Made' : state'[b] = "held" => b \in listening' /\ (buffer'[b] # <<>> => b \in flush')
    BY <1>1, <1>5 DEF Delivery, Fresh
  <2> QED
    BY <2>1, <2>2, <2>3, <2>4 DEF Fresh
<1>11. ASSUME NEW b \in Made PROVE Parted(b)' /\ Complete(b)'
  <2>1. Parted(b) /\ Complete(b) /\ Of(b) \in Subs
    BY HeldIsServed DEF Delivery
  <2>2. Served(b)' => Served(b)
    <3>1. binding'[Of(b)] = b => binding[Of(b)] = b
      BY <1>4, <2>1
    <3> QED
      BY <1>1, <1>5, <3>1 DEF Served
  <2> QED
    BY <1>1, <1>6, <2>1, <2>2 DEF Parted, Complete, All
<1>12. ASSUME NEW b \in Made' \ Made PROVE Parted(b)' /\ Complete(b)'
  BY <1>1, <1>7, <1>8, Nothing DEF Parted, Complete, All, Served
<1> QED
  BY <1>3, <1>9, <1>10, <1>11, <1>12 DEF Delivery

LEMMA SilentSays ==
    ASSUME Delivery, UNCHANGED <<bound, binding, early, seen, asked, state, listening, buffer, flush, from, stream, value, expired>>
    PROVE  Delivery'
<1>1. Made' = Made /\ \A b \in Made : Got(b)' = Got(b) /\ Sent(b)' = Sent(b) /\ Served(b)' = Served(b)
  BY DEF Made, Got, Sent, Served, Of, On, Message
<1>2. Carried'
  BY DEF Delivery, Carried, On
<1>3. Fresh'
  BY <1>1 DEF Delivery, Fresh, Of, Made
<1>4. \A b \in Made : Parted(b)' /\ Complete(b)'
  BY <1>1 DEF Delivery, Parted, Complete, All
<1> QED
  BY <1>1, <1>2, <1>3, <1>4 DEF Delivery

LEMMA SubscribeSays ==
    ASSUME IInv, Delivery, NEW s \in Subs, Subscribe(s)
    PROVE  Delivery'
<1>1. /\ sub[s] = "none"
      /\ UNCHANGED <<conn, bound, early, seen, answer, serverVars, wireVars, value, expired>>
  BY DEF Subscribe
<1>2. CASE conn # 0
  <2>1. Bind({s}, conn)
    BY <1>2 DEF Subscribe
  <2>2. conn \in Streams /\ opened <= conn
    BY <1>2, RpcChannelAssumption DEF IInv, TypeOK, Streams
  <2>3. bound[s] = 0 /\ binding[s] = 0
    BY <1>1 DEF IInv, BoundIsPresent
  <2> QED
    BY <1>1, <2>1, <2>2, <2>3, BindSays
<1>3. CASE conn = 0
  <2>1. UNCHANGED <<asked, binding, state>>
    BY <1>3 DEF Subscribe
  <2> QED
    BY <1>1, <2>1, SilentSays DEF serverVars, wireVars
<1> QED
  BY <1>2, <1>3

LEMMA ConnectSays ==
    ASSUME IInv, Delivery, Connect
    PROVE  Delivery'
<1>1. /\ opened < MaxStreams /\ Bind(Unasked, opened + 1)
      /\ UNCHANGED <<bound, early, seen, serverVars, wireVars, value, expired>>
  BY DEF Connect
<1>2. opened + 1 \in Streams /\ opened <= opened + 1
  BY <1>1, RpcChannelAssumption DEF IInv, TypeOK, Streams
<1>3. Unasked \in SUBSET Subs /\ \A s \in Unasked : bound[s] = 0 /\ binding[s] = 0
  BY DEF Unasked, Wanted
<1> QED
  BY <1>1, <1>2, <1>3, BindSays

LEMMA RetrySays ==
    ASSUME IInv, Delivery, NEW s \in Subs, Retry(s)
    PROVE  Delivery'
<1>1. /\ s \in again /\ Bind({s}, conn)
      /\ UNCHANGED <<bound, early, seen, serverVars, wireVars, value, expired>>
  BY DEF Retry
<1>2. conn # 0
  BY <1>1 DEF IInv, Requests
<1>3. conn \in Streams /\ opened <= conn
  BY <1>2, RpcChannelAssumption DEF IInv, TypeOK, Streams
<1>4. bound[s] = 0 /\ binding[s] = 0
  BY <1>1 DEF IInv, BoundIsPresent
<1> QED
  BY <1>1, <1>3, <1>4, BindSays

\* The provider says what its state is.
LEMMA OpenSays ==
    ASSUME IInv, Delivery, NEW b \in Made, Open(b)
    PROVE  Delivery'
<1>1. /\ state[b] = "opening" /\ b \notin listening /\ listening' = listening \cup {b}
      /\ buffer' = [buffer EXCEPT ![b] = <<value>>] /\ from' = [from EXCEPT ![b] = value]
      /\ UNCHANGED <<clientVars, bindVars, flush, signal, wireVars, value, expired>>
  BY DEF Open
<1>2. UNCHANGED <<bound, binding, early, seen, asked, state, stream>>
  BY <1>1 DEF clientVars, bindVars, wireVars
<1>3. /\ b \in Binds /\ value \in Nat /\ buffer'[b] = <<value>> /\ from'[b] = value
      /\ \A x \in Binds \ {b} : buffer'[x] = buffer[x] /\ from'[x] = from[x]
      /\ Made \subseteq Binds
  BY <1>1, Rest
<1>4. /\ Made' = Made
      /\ \A x \in Made : Of(x)' = Of(x) /\ On(x)' = On(x) /\ Got(x)' = Got(x) /\ Sent(x)' = Sent(x)
  BY <1>1, <1>2 DEF Made, Of, On, Got, Sent, Message
<1>5. Carried'
  BY <1>2 DEF Delivery, Carried, On
<1>6. Fresh'
  <2>1. \A x \in Made : bound[Of(x)] = x => early[x] = <<>>
    BY DEF Delivery, Fresh
  <2>2. \A x \in Binds \ listening' : state[x] \in {"none", "sent", "opening"} => buffer'[x] = <<>> /\ early[x] = <<>>
    BY <1>1, <1>3 DEF Delivery, Fresh
  <2>3. \A x \in Made : state[x] \in {"none", "sent", "opening"} => Got(x) = <<>> /\ Sent(x) = {} /\ x \notin flush
    BY DEF Delivery, Fresh
  <2>4. \A x \in Made : state[x] = "held" => x \in listening' /\ (buffer'[x] # <<>> => x \in flush)
    BY <1>1, <1>3 DEF Delivery, Fresh
  <2> QED
    BY <1>1, <1>2, <1>4, <2>1, <2>2, <2>3, <2>4 DEF Fresh
<1>7. Parted(b)' /\ Complete(b)'
  <2>1. Got(b)' = <<>> /\ Sent(b)' = {}
    BY <1>1, <1>4 DEF Delivery, Fresh
  <2>2. IsInjective(<<value>>) /\ Range(<<value>>) = {value}
    BY DEF IsInjective, Range
  <2>3. value..value = {value}
    BY <1>3
  <2>4. All(b)' = {value} /\ from'[b] = value /\ value' = value
    BY <1>1, <1>3, <2>1, <2>2, Nothing DEF All
  <2> QED
    BY <1>3, <2>1, <2>2, <2>3, <2>4, Nothing DEF Parted, Complete
<1>8. ASSUME NEW x \in Made \ {b} PROVE Parted(x)' /\ Complete(x)'
  <2>1. buffer'[x] = buffer[x] /\ from'[x] = from[x] /\ (Served(x)' => Served(x))
    BY <1>1, <1>2, <1>3, <1>4 DEF Served
  <2>2. Parted(x) /\ Complete(x)
    BY DEF Delivery
  <2> QED
    BY <1>1, <1>4, <2>1, <2>2 DEF Parted, Complete, All
<1> QED
  BY <1>4, <1>5, <1>6, <1>7, <1>8 DEF Delivery

\* The client takes a message from its stream.
LEMMA EventSays ==
    ASSUME IInv, Delivery, Event
    PROVE  Delivery'
<1> DEFINE m == Head(stream[conn])
<1>1. /\ conn # 0 /\ stream[conn] # <<>> /\ stream' = [stream EXCEPT ![conn] = Tail(@)]
      /\ UNCHANGED <<bound, binding, bindVars, serverVars, value>>
  BY DEF Event
<1>3. UNCHANGED <<asked, state, listening, buffer, flush, from, bound, binding, value>>
  BY <1>1 DEF bindVars, serverVars
<1>4. conn \in Streams
  BY <1>1 DEF IInv, TypeOK, Streams
<1>5. /\ stream[conn] \in Seq([of : Made, says : 0..value]) /\ IsInjective(stream[conn])
      /\ \A x \in Range(stream[conn]) : x.of \in Made /\ x.says \in 0..value /\ x = Message(x.of, x.says)
  BY <1>4, OnTheWay DEF Delivery, Carried
<1>6. IsInjective(Tail(stream[conn])) /\ Range(Tail(stream[conn])) = Range(stream[conn]) \ {m} /\ m \in Range(stream[conn])
  BY <1>1, <1>5, TakeDistinct
<1>7. stream'[conn] = Tail(stream[conn]) /\ \A g \in Streams \ {conn} : stream'[g] = stream[g]
  <2>1. stream \in [Streams -> Seq([of : Made, says : 0..value])]
    BY Rest
  <2> QED
    BY <1>1, <1>4, <2>1
<1>8. PICK b \in Made, v \in 0..value : m = Message(b, v) /\ On(b) = conn
  BY <1>4, <1>5, <1>6 DEF Delivery, Carried
<1>23. m.of = b /\ m.says = v
  BY <1>8 DEF Message
<1>2. \/ bound[Of(b)] = b /\ seen' = [seen EXCEPT ![Of(b)] = Append(@, v)] /\ UNCHANGED <<early, expired>>
      \/ /\ bound[Of(b)] # b
         /\ \E old \in SUBSET {x \in Made : early[x] # <<>>} :
              /\ expired' = expired \cup old
              /\ early' = [x \in Binds |-> (IF x \in old THEN <<>> ELSE early[x]) \o (IF x = b THEN <<v>> ELSE <<>>)]
              /\ UNCHANGED seen
  <2>1. \/ bound[Of(m.of)] = m.of /\ seen' = [seen EXCEPT ![Of(m.of)] = Append(@, m.says)] /\ UNCHANGED <<early, expired>>
        \/ /\ bound[Of(m.of)] # m.of
           /\ \E old \in SUBSET {x \in Made : early[x] # <<>>} :
                /\ expired' = expired \cup old
                /\ early' = [x \in Binds |-> (IF x \in old THEN <<>> ELSE early[x]) \o (IF x = m.of THEN <<m.says>> ELSE <<>>)]
                /\ UNCHANGED seen
    BY DEF Event
  <2> HIDE DEF m
  <2>2. [seen EXCEPT ![Of(m.of)] = Append(@, m.says)] = [seen EXCEPT ![Of(b)] = Append(@, v)]
    BY <1>23, Zenon
  <2>3. ASSUME NEW old
        PROVE  [x \in Binds |-> (IF x \in old THEN <<>> ELSE early[x]) \o (IF x = m.of THEN <<m.says>> ELSE <<>>)]
                 = [x \in Binds |-> (IF x \in old THEN <<>> ELSE early[x]) \o (IF x = b THEN <<v>> ELSE <<>>)]
    BY <1>23, Zenon
  <2>4. bound[Of(m.of)] = m.of <=> bound[Of(b)] = b
    BY <1>23, Zenon
  <2> QED
    BY <2>1, <2>2, <2>3, <2>4, Zenon
<1> HIDE DEF m
<1>9. v \in Sent(b)
  BY <1>6, <1>8 DEF Sent
<1>10. /\ Made' = Made
       /\ \A x \in Made : Of(x)' = Of(x) /\ On(x)' = On(x) /\ x \in Binds /\ Of(x) \in Subs /\ On(x) \in Streams
  BY <1>3, HeldIsServed DEF Made, Of, On
<1>11. \A x \in Made : Sent(x)' = IF x = b THEN Sent(x) \ {v} ELSE Sent(x)
  <2>1. ASSUME NEW x \in Made, NEW w \in 0..value
        PROVE  Message(x, w) \in Range(stream'[On(x)]) <=> Message(x, w) \in Range(stream[On(x)]) /\ ~(x = b /\ w = v)
    <3>1. Message(x, w) = Message(b, v) <=> x = b /\ w = v
      BY DEF Message
    <3>2. CASE On(x) = conn
      BY <1>6, <1>7, <1>8, <3>1, <3>2
    <3>3. CASE On(x) # conn
      BY <1>7, <1>8, <1>10, <3>3
    <3> QED
      BY <3>2, <3>3
  <2>2. \A x \in Made, w \in 0..value : Message(x, w)' = Message(x, w)
    BY DEF Message
  <2>3. ASSUME NEW x \in Made PROVE Sent(x)' = {w \in 0..value : Message(x, w) \in Range(stream'[On(x)])}
    BY <1>3, <1>10 DEF Sent, Message
  <2> QED
    BY <1>8, <2>1, <2>3 DEF Sent
<1>12. /\ early \in [Binds -> Seq(0..value)] /\ seen \in [Subs -> Seq(0..value)]
       /\ Of(b) \in Subs /\ b \in Binds
  BY <1>8, <1>10, Rest
<1>13. \A x \in Made : Got(x) \in Seq(0..value)
  BY <1>10, <1>12 DEF Got
<1>14. \A x \in Made : bound[Of(x)] = x => early[x] = <<>>
  BY DEF Delivery, Fresh
<1> DEFINE Base(x, old) == IF x \in old THEN <<>> ELSE Got(x)
<1>15. \E old \in SUBSET Made :
         /\ expired' = expired \cup old
         /\ Got(b)' = Base(b, old) \o <<v>>
         /\ \A x \in Made \ {b} : Got(x)' = Base(x, old)
         /\ \A x \in Made : bound[Of(x)] = x => early'[x] = <<>>
         /\ \A x \in Binds \ {b} : early'[x] \in {early[x], <<>>}
  <2>1. CASE bound[Of(b)] = b /\ seen' = [seen EXCEPT ![Of(b)] = Append(@, v)] /\ UNCHANGED <<early, expired>>
    <3>1. seen'[Of(b)] = seen[Of(b)] \o <<v>> /\ \A s \in Subs \ {Of(b)} : seen'[s] = seen[s]
      BY <1>8, <1>12, <2>1, AddDistinct
    <3>2. Got(b)' = Got(b) \o <<v>>
      BY <1>3, <1>8, <1>10, <2>1, <3>1 DEF Got
    <3>3. \A x \in Made \ {b} : Got(x)' = Got(x)
      BY <1>3, <1>10, <2>1, <3>1 DEF Got
    <3>4. expired' = expired \cup {} /\ {} \in SUBSET Made
      BY <2>1
    <3>5. \A x \in Made : bound[Of(x)] = x => early'[x] = <<>>
      BY <1>14, <2>1
    <3>6. \A x \in Made : Base(x, {}) = Got(x)
      OBVIOUS
    <3> HIDE DEF Base
    <3> QED
      BY <1>8, <2>1, <3>2, <3>3, <3>4, <3>5, <3>6
  <2>2. ASSUME bound[Of(b)] # b,
               NEW old \in SUBSET {x \in Made : early[x] # <<>>},
               expired' = expired \cup old, UNCHANGED seen,
               early' = [x \in Binds |-> (IF x \in old THEN <<>> ELSE early[x]) \o (IF x = b THEN <<v>> ELSE <<>>)]
        PROVE  /\ expired' = expired \cup old
               /\ Got(b)' = Base(b, old) \o <<v>>
               /\ \A x \in Made \ {b} : Got(x)' = Base(x, old)
               /\ \A x \in Made : bound[Of(x)] = x => early'[x] = <<>>
               /\ \A x \in Binds \ {b} : early'[x] \in {early[x], <<>>}
    <3>1. ASSUME NEW x \in Binds \ {b} PROVE early'[x] = IF x \in old THEN <<>> ELSE early[x]
      <4>1. (IF x \in old THEN <<>> ELSE early[x]) \in Seq(0..value)
        BY <1>12, Nothing
      <4>2. \A q \in Seq(0..value) : q \o <<>> = q
        OBVIOUS
      <4> QED
        BY <2>2, <4>1, <4>2
    <3>2. early'[b] = (IF b \in old THEN <<>> ELSE early[b]) \o <<v>>
      BY <1>12, <2>2
    <3>3. \A x \in Made : bound[Of(x)] = x => x \notin old /\ x # b
      BY <1>14, <2>2
    <3>4. Got(b)' = Base(b, old) \o <<v>>
      BY <1>3, <1>8, <1>10, <2>2, <3>2 DEF Got
    <3>5. \A x \in Made \ {b} : Got(x)' = Base(x, old)
      BY <1>3, <1>10, <2>2, <3>1, <3>3 DEF Got
    <3>6. \A x \in Made : bound[Of(x)] = x => early'[x] = <<>>
      BY <1>10, <1>14, <3>1, <3>3
    <3> QED
      BY <2>2, <3>1, <3>4, <3>5, <3>6
  <2> HIDE DEF Base
  <2>3. CASE /\ bound[Of(b)] # b
             /\ \E old \in SUBSET {x \in Made : early[x] # <<>>} :
                  /\ expired' = expired \cup old
                  /\ early' = [x \in Binds |-> (IF x \in old THEN <<>> ELSE early[x]) \o (IF x = b THEN <<v>> ELSE <<>>)]
                  /\ UNCHANGED seen
    <3>1. PICK old \in SUBSET {x \in Made : early[x] # <<>>} :
                  /\ expired' = expired \cup old
                  /\ early' = [x \in Binds |-> (IF x \in old THEN <<>> ELSE early[x]) \o (IF x = b THEN <<v>> ELSE <<>>)]
                  /\ UNCHANGED seen
      BY <2>3
    <3>2. old \in SUBSET Made
      OBVIOUS
    <3> QED
      BY <2>2, <2>3, <3>1, <3>2
  <2> QED
    BY <1>2, <2>1, <2>3
<1>16. PICK old \in SUBSET Made :
         /\ expired' = expired \cup old
         /\ Got(b)' = Base(b, old) \o <<v>>
         /\ \A x \in Made \ {b} : Got(x)' = Base(x, old)
         /\ \A x \in Made : bound[Of(x)] = x => early'[x] = <<>>
         /\ \A x \in Binds \ {b} : early'[x] \in {early[x], <<>>}
  BY <1>15
<1>17. state[b] \notin {"none", "sent", "opening"}
  BY <1>8, <1>9 DEF Delivery, Fresh
<1>18. Carried'
  <2> SUFFICES ASSUME NEW g \in Streams PROVE IsInjective(stream'[g]) /\ \A x \in Range(stream'[g]) : On(x.of)' = g
    BY DEF Carried
  <2>1. \A x \in Range(stream[g]) : On(x.of)' = On(x.of) /\ On(x.of) = g
    BY <1>3 DEF On, Delivery, Carried
  <2>2. IsInjective(stream[g])
    BY DEF Delivery, Carried
  <2> QED
    BY <1>6, <1>7, <2>1, <2>2
<1>19. Fresh'
  <2>1. \A x \in Made' : bound'[Of(x)'] = x => early'[x] = <<>>
    BY <1>3, <1>10, <1>16
  <2>2. \A x \in Binds \ listening' : state'[x] \in {"none", "sent", "opening"} => buffer'[x] = <<>> /\ early'[x] = <<>>
    <3>1. \A x \in Binds \ listening : state[x] \in {"none", "sent", "opening"} => buffer[x] = <<>> /\ early[x] = <<>>
      BY DEF Delivery, Fresh
    <3> QED
      BY <1>3, <1>16, <1>17, <3>1
  <2>3. \A x \in Made' : state'[x] \in {"none", "sent", "opening"} => Got(x)' = <<>> /\ Sent(x)' = {} /\ x \notin flush'
    <3>1. \A x \in Made : state[x] \in {"none", "sent", "opening"} => Got(x) = <<>> /\ Sent(x) = {} /\ x \notin flush
      BY DEF Delivery, Fresh
    <3> QED
      BY <1>3, <1>10, <1>11, <1>16, <1>17, <3>1
  <2>4. \A x \in Made' : state'[x] = "held" => x \in listening' /\ (buffer'[x] # <<>> => x \in flush')
    BY <1>3, <1>10 DEF Delivery, Fresh
  <2> QED
    BY <2>1, <2>2, <2>3, <2>4 DEF Fresh
<1>20. ASSUME NEW x \in Made
       PROVE  /\ IsInjective(Base(x, old)) /\ Range(Base(x, old)) \subseteq Range(Got(x)) /\ Base(x, old) \in Seq(0..value)
              /\ x \notin old => Base(x, old) = Got(x)
  <2>1. IsInjective(Got(x)) /\ Got(x) \in Seq(0..value)
    BY <1>13 DEF Delivery, Parted
  <2> QED
    BY <2>1, Nothing
<1> HIDE DEF Base
<1>21. ASSUME NEW x \in Made
       PROVE  /\ IsInjective(Got(x)')
              /\ Range(Got(x)') = Range(Base(x, old)) \cup (IF x = b THEN {v} ELSE {})
  <2>1. CASE x = b
    <3>1. v \notin Range(Base(b, old))
      BY <1>8, <1>9, <1>20 DEF Delivery, Parted
    <3>2. IsInjective(Base(b, old)) /\ Base(b, old) \in Seq(0..value)
      BY <1>8, <1>20
    <3>3. PICK S : S = 0..value
      OBVIOUS
    <3>4. v \in S /\ Base(b, old) \in Seq(S)
      BY <1>8, <3>2, <3>3
    <3>5. IsInjective(Base(b, old) \o <<v>>) /\ Range(Base(b, old) \o <<v>>) = Range(Base(b, old)) \cup {v}
      BY <3>1, <3>2, <3>4, AddDistinct
    <3> QED
      BY <1>16, <2>1, <3>5
  <2>2. CASE x # b
    BY <1>16, <1>20, <2>2
  <2> QED
    BY <2>1, <2>2
<1>22. ASSUME NEW x \in Made PROVE Parted(x)' /\ Complete(x)'
  <2>1. /\ Parted(x) /\ Complete(x)
        /\ buffer'[x] = buffer[x] /\ from'[x] = from[x] /\ value' = value
        /\ Sent(x)' = IF x = b THEN Sent(x) \ {v} ELSE Sent(x)
        /\ Range(Got(x)') = Range(Base(x, old)) \cup (IF x = b THEN {v} ELSE {})
        /\ IsInjective(Got(x)') /\ Range(Base(x, old)) \subseteq Range(Got(x))
        /\ x = b => v \in Sent(x)
    BY <1>3, <1>9, <1>11, <1>20, <1>21 DEF Delivery
  <2>2. Parted(x)'
    BY <2>1 DEF Parted
  <2>3. All(x)' \subseteq All(x)
    BY <2>1 DEF All
  <2>4. ASSUME Served(x)' PROVE Served(x) /\ All(x)' = All(x)
    <3>1. Served(x) /\ x \notin old
      BY <1>3, <1>10, <1>16, <2>4 DEF Served
    <3>2. Base(x, old) = Got(x)
      BY <1>20, <3>1
    <3> QED
      BY <2>1, <3>1, <3>2 DEF All
  <2> QED
    BY <2>1, <2>2, <2>3, <2>4 DEF Complete
<1> QED
  BY <1>10, <1>18, <1>19, <1>22 DEF Delivery

\* The messages of a request, one for each value.
LEMMA MessagesOf ==
    ASSUME NEW b, NEW S, NEW q \in Seq(S), IsInjective(q)
    PROVE  LET sent == [n \in DOMAIN q |-> Message(b, q[n])]
           IN  /\ sent \in Seq({Message(b, w) : w \in S}) /\ IsInjective(sent)
               /\ Range(sent) = {Message(b, w) : w \in Range(q)}
<1> DEFINE sent == [n \in DOMAIN q |-> Message(b, q[n])]
<1>1. DOMAIN q = 1..Len(q) /\ Len(q) \in Nat /\ \A n \in DOMAIN q : q[n] \in S
  BY ElementsOf
<1>2. sent \in Seq({Message(b, w) : w \in S})
  BY <1>1
<1>3. IsInjective(sent)
  BY DEF IsInjective, Message
<1>4. Range(sent) = {Message(b, w) : w \in Range(q)}
  BY DEF Range
<1> QED
  BY <1>2, <1>3, <1>4

\* What the server kept at the opening goes on its way.
LEMMA FlushSays ==
    ASSUME IInv, Delivery, NEW b \in Made, Flush(b)
    PROVE  Delivery'
<1> DEFINE g == On(b)
           sent == [n \in DOMAIN buffer[b] |-> Message(b, buffer[b][n])]
<1>1. /\ b \in flush /\ flush' = flush \ {b}
      /\ stream' = IF state[b] = "held" THEN [stream EXCEPT ![g] = stream[g] \o sent] ELSE stream
      /\ buffer' = [buffer EXCEPT ![b] = <<>>]
      /\ UNCHANGED <<clientVars, bindVars, listening, from, value, expired>>
  BY DEF Flush
<1>2. UNCHANGED <<bound, binding, early, seen, asked, state, listening, from, value, expired>>
  BY <1>1 DEF clientVars, bindVars
<1>3. /\ Made' = Made
      /\ \A x \in Made : Of(x)' = Of(x) /\ On(x)' = On(x) /\ x \in Binds /\ Of(x) \in Subs /\ On(x) \in Streams /\ Got(x)' = Got(x)
  BY <1>2, HeldIsServed DEF Made, Of, On, Got
<1>4. buffer'[b] = <<>> /\ \A x \in Binds \ {b} : buffer'[x] = buffer[x]
  BY <1>1, <1>3, Rest
<1>5. state[b] \notin {"none", "sent", "opening"}
  BY <1>1 DEF Delivery, Fresh
<1>6. PICK S : S = 0..value
  OBVIOUS
<1>7. buffer[b] \in Seq(S) /\ IsInjective(buffer[b])
  BY <1>3, <1>6, Rest DEF Delivery, Parted
<1>8. /\ sent \in Seq({Message(b, w) : w \in S}) /\ IsInjective(sent)
      /\ Range(sent) = {Message(b, w) : w \in Range(buffer[b])}
  BY <1>7, MessagesOf
<1>9. Range(buffer[b]) \subseteq 0..value
  BY <1>6, <1>7, ElementsOf
<1> HIDE DEF sent
<1>10. /\ stream[g] \in Seq([of : Made, says : 0..value]) /\ IsInjective(stream[g])
       /\ \A m \in Range(stream[g]) : On(m.of) = g
  BY <1>3, OnTheWay DEF Delivery, Carried
<1>11. sent \in Seq([of : Made, says : 0..value])
  <2>1. {Message(b, w) : w \in S} \subseteq [of : Made, says : 0..value]
    BY <1>6 DEF Message
  <2> QED
    BY <1>8, <2>1, SeqMonotonic
<1>12. Range(stream[g]) \cap Range(sent) = {}
  <2>1. ASSUME NEW m \in Range(stream[g]), m \in Range(sent) PROVE FALSE
    <3>1. PICK w \in Range(buffer[b]) : m = Message(b, w)
      BY <1>8, <2>1
    <3>2. w \in Sent(b)
      BY <1>9, <2>1, <3>1 DEF Sent
    <3> QED
      BY <3>1, <3>2 DEF Delivery, Parted
  <2> QED
    BY <2>1
<1>13. PICK M : M = [of : Made, says : 0..value]
  OBVIOUS
<1>14. /\ IsInjective(stream[g] \o sent)
       /\ Range(stream[g] \o sent) = Range(stream[g]) \cup {Message(b, w) : w \in Range(buffer[b])}
  <2>1. stream[g] \in Seq(M) /\ sent \in Seq(M)
    BY <1>10, <1>11, <1>13
  <2>2. IsInjective(stream[g] \o sent)
    BY <1>8, <1>10, <1>12, <2>1, JoinDistinct
  <2>3. Range(stream[g] \o sent) = Range(stream[g]) \cup Range(sent)
    BY <2>1, JoinRange
  <2> QED
    BY <1>8, <2>2, <2>3
<1> HIDE DEF g
<1>15. g \in Streams /\ g = On(b) /\ stream \in [Streams -> Seq([of : Made, says : 0..value])]
  BY <1>3, Rest DEF g
<1>16. CASE state[b] = "held"
  <2>1. PICK h \in Streams : h = g
    BY <1>15
  <2>2. /\ IsInjective(stream'[h]) /\ \A k \in Streams \ {h} : stream'[k] = stream[k]
        /\ Range(stream'[h]) = Range(stream[h]) \cup {Message(b, w) : w \in Range(buffer[b])}
    BY <1>1, <1>14, <1>15, <1>16, <2>1
  <2>3. \A x \in Made : Sent(x)' = IF x = b THEN Sent(b) \cup Range(buffer[b]) ELSE Sent(x)
    <3>1. ASSUME NEW x \in Made, NEW w \in 0..value
          PROVE  Message(x, w) \in Range(stream'[On(x)]) <=> Message(x, w) \in Range(stream[On(x)]) \/ (x = b /\ w \in Range(buffer[b]))
      <4>1. Message(x, w) \in {Message(b, y) : y \in Range(buffer[b])} <=> x = b /\ w \in Range(buffer[b])
        BY DEF Message
      <4>2. CASE On(x) = h
        BY <2>2, <4>1, <4>2
      <4>3. CASE On(x) # h
        BY <1>3, <1>15, <2>1, <2>2, <4>1, <4>3
      <4> QED
        BY <4>2, <4>3
    <3>2. ASSUME NEW x \in Made PROVE Sent(x)' = {w \in 0..value : Message(x, w) \in Range(stream'[On(x)])}
      BY <1>2, <1>3 DEF Sent, Message
    <3> QED
      BY <1>9, <3>1, <3>2 DEF Sent
  <2>4. Carried'
    <3> SUFFICES ASSUME NEW k \in Streams PROVE IsInjective(stream'[k]) /\ \A m \in Range(stream'[k]) : On(m.of)' = k
      BY DEF Carried
    <3>1. \A m \in Range(stream[k]) : On(m.of)' = On(m.of) /\ On(m.of) = k
      BY <1>2 DEF On, Delivery, Carried
    <3>2. \A w : Message(b, w).of = b
      BY DEF Message
    <3>3. On(b)' = g
      BY <1>3, <1>15
    <3> QED
      BY <2>1, <2>2, <3>1, <3>2, <3>3 DEF Delivery, Carried
  <2>5. Fresh'
    <3>1. \A x \in Made : bound[Of(x)] = x => early[x] = <<>>
      BY DEF Delivery, Fresh
    <3>2. \A x \in Binds \ listening : state[x] \in {"none", "sent", "opening"} => buffer'[x] = <<>> /\ early[x] = <<>>
      BY <1>4 DEF Delivery, Fresh
    <3>3. \A x \in Made : state[x] \in {"none", "sent", "opening"} => Got(x) = <<>> /\ Sent(x)' = {} /\ x \notin flush'
      BY <1>1, <1>5, <2>3 DEF Delivery, Fresh
    <3>4. \A x \in Made : state[x] = "held" => x \in listening /\ (buffer'[x] # <<>> => x \in flush')
      BY <1>1, <1>3, <1>4 DEF Delivery, Fresh
    <3> QED
      BY <1>2, <1>3, <3>1, <3>2, <3>3, <3>4 DEF Fresh
  <2>6. ASSUME NEW x \in Made PROVE Parted(x)' /\ Complete(x)'
    <3>1. /\ Parted(x) /\ Complete(x) /\ Got(x)' = Got(x) /\ (Served(x)' => Served(x))
          /\ from' = from /\ value' = value
      BY <1>2, <1>3 DEF Delivery, Served
    <3>2. CASE x = b
      <4>1. Sent(b)' = Sent(b) \cup Range(buffer[b]) /\ buffer'[b] = <<>>
        BY <1>4, <2>3
      <4> QED
        BY <3>1, <3>2, <4>1, Nothing DEF Parted, Complete, All
    <3>3. CASE x # b
      <4>1. Sent(x)' = Sent(x) /\ buffer'[x] = buffer[x]
        BY <1>3, <1>4, <2>3, <3>3
      <4> QED
        BY <3>1, <4>1 DEF Parted, Complete, All
    <3> QED
      BY <3>2, <3>3
  <2> QED
    BY <1>3, <2>4, <2>5, <2>6 DEF Delivery
<1>17. CASE state[b] # "held"
  <2>1. stream' = stream /\ \A x \in Made : Sent(x)' = Sent(x)
    BY <1>1, <1>2, <1>3, <1>17 DEF Sent, Message
  <2>2. Carried'
    BY <1>2, <2>1 DEF Delivery, Carried, On
  <2>3. b \notin listening
    BY <1>5, <1>17, HeldIsServed
  <2>4. Fresh'
    <3>1. \A x \in Made : bound[Of(x)] = x => early[x] = <<>>
      BY DEF Delivery, Fresh
    <3>2. \A x \in Binds \ listening : state[x] \in {"none", "sent", "opening"} => buffer'[x] = <<>> /\ early[x] = <<>>
      BY <1>4 DEF Delivery, Fresh
    <3>3. \A x \in Made : state[x] \in {"none", "sent", "opening"} => Got(x) = <<>> /\ Sent(x) = {} /\ x \notin flush'
      BY <1>1 DEF Delivery, Fresh
    <3>4. \A x \in Made : state[x] = "held" => x \in listening /\ (buffer'[x] # <<>> => x \in flush')
      BY <1>1, <1>3, <1>4 DEF Delivery, Fresh
    <3> QED
      BY <1>2, <1>3, <2>1, <3>1, <3>2, <3>3, <3>4 DEF Fresh
  <2>5. ASSUME NEW x \in Made PROVE Parted(x)' /\ Complete(x)'
    <3>1. /\ Parted(x) /\ Complete(x) /\ Got(x)' = Got(x) /\ (Served(x)' => Served(x)) /\ Sent(x)' = Sent(x)
          /\ from' = from /\ value' = value
      BY <1>2, <1>3, <2>1 DEF Delivery, Served
    <3>2. CASE x = b
      <4>1. ~Served(b)'
        BY <1>2, <2>3 DEF Served
      <4> QED
        BY <1>4, <3>1, <3>2, <4>1, Nothing DEF Parted, Complete, All
    <3>3. CASE x # b
      <4>1. buffer'[x] = buffer[x]
        BY <1>3, <1>4, <3>3
      <4> QED
        BY <3>1, <4>1 DEF Parted, Complete, All
    <3> QED
      BY <3>2, <3>3
  <2> QED
    BY <1>3, <2>2, <2>4, <2>5 DEF Delivery
<1> QED
  BY <1>16, <1>17

\* The provider changes and tells its listeners.
LEMMA ChangeSays ==
    ASSUME IInv, Delivery, Change
    PROVE  Delivery'
<1>1. PICK v \in Nat : v = value + 1
  BY Rest
<1> DEFINE told(g) == {Message(b, v) : b \in {h \in Held(g) : h \in listening}}
<1>2. /\ value' = v
      /\ buffer' = [b \in Binds |-> IF b \in listening /\ Buffered(b) THEN Append(buffer[b], v) ELSE buffer[b]]
      /\ stream' = [g \in Streams |-> IF g \in closed THEN stream[g] ELSE stream[g] \o SetToSeq(told(g))]
      /\ UNCHANGED <<clientVars, bindVars, listening, flush, from, closed, expired>>
  BY <1>1 DEF Change
<1>3. UNCHANGED <<bound, binding, early, seen, asked, state, listening, flush, from, closed, expired>>
  BY <1>2 DEF clientVars, bindVars
<1>4. /\ Made' = Made
      /\ \A x \in Made : Of(x)' = Of(x) /\ On(x)' = On(x) /\ x \in Binds /\ Of(x) \in Subs /\ On(x) \in Streams
      /\ \A x \in Made : Got(x)' = Got(x) /\ Served(x)' = Served(x)
  BY <1>3, HeldIsServed DEF Made, Of, On, Got, Served
<1>5. value \in Nat /\ ~(v <= value) /\ 0..v = (0..value) \cup {v} /\ v \notin 0..value
  <2>1. value \in Nat
    BY Rest
  <2> QED
    BY <1>1, <2>1
<1>6. ASSUME NEW g \in Streams
      PROVE  /\ IsInjective(SetToSeq(told(g))) /\ Range(SetToSeq(told(g))) = told(g) /\ SetToSeq(told(g)) \in Seq(told(g))
             /\ g \in closed => told(g) = {}
             /\ \A m \in told(g) : m.says = v /\ On(m.of) = g
  <2>1. {h \in Held(g) : h \in listening} \subseteq Made
    BY DEF Held
  <2>2. g \in closed => Held(g) = {}
    BY DEF IInv, ListenersServe
  <2>3. IsInjective(SetToSeq(told(g))) /\ Range(SetToSeq(told(g))) = told(g) /\ SetToSeq(told(g)) \in Seq(told(g))
    BY <2>1, ToldOf
  <2>4. \A m \in told(g) : m.says = v /\ On(m.of) = g
    BY DEF Held, Message
  <2> QED
    BY <2>2, <2>3, <2>4
<1>7. \A x \in Made : \A w : Message(x, w) \in told(On(x)) <=> w = v /\ state[x] = "held" /\ x \in listening
  BY DEF Held, Message
<1> HIDE DEF told
<1>8. ASSUME NEW g \in Streams
      PROVE  IsInjective(stream'[g]) /\ Range(stream'[g]) = Range(stream[g]) \cup told(g)
  <2>1. /\ stream[g] \in Seq([of : Made, says : 0..value]) /\ IsInjective(stream[g])
        /\ \A m \in Range(stream[g]) : m.says \in 0..value
    BY OnTheWay DEF Delivery, Carried
  <2>2. CASE g \in closed
    BY <1>2, <1>6, <2>1, <2>2
  <2>3. CASE g \notin closed
    <3>1. PICK M : M = [of : Made, says : 0..value] \cup told(g)
      OBVIOUS
    <3>2. stream[g] \in Seq(M) /\ SetToSeq(told(g)) \in Seq(M)
      <4>1. [of : Made, says : 0..value] \subseteq M /\ told(g) \subseteq M
        BY <3>1
      <4> QED
        BY <1>6, <2>1, <4>1, SeqMonotonic, ZenonT(60)
    <3>3. Range(stream[g]) \cap Range(SetToSeq(told(g))) = {}
      BY <1>5, <1>6, <2>1
    <3>4. PICK q \in Seq(M) : q = SetToSeq(told(g))
      BY <3>2
    <3>5. IsInjective(stream[g] \o q) /\ Range(stream[g] \o q) = Range(stream[g]) \cup Range(q)
      BY <1>6, <2>1, <3>2, <3>3, <3>4, JoinDistinct, JoinRange
    <3> QED
      BY <1>2, <1>6, <2>3, <3>4, <3>5
  <2> QED
    BY <2>2, <2>3
<1>9. \A x \in Made : Sent(x)' = Sent(x) \cup (IF state[x] = "held" /\ x \in listening THEN {v} ELSE {})
  <2>1. ASSUME NEW x \in Made, NEW w \in 0..v
        PROVE  Message(x, w) \in Range(stream'[On(x)])
                 <=> (w \in 0..value /\ Message(x, w) \in Range(stream[On(x)])) \/ (w = v /\ state[x] = "held" /\ x \in listening)
    <3>1. Range(stream'[On(x)]) = Range(stream[On(x)]) \cup told(On(x))
      BY <1>4, <1>8
    <3>2. Message(x, w) \in Range(stream[On(x)]) => w \in 0..value
      <4>1. Message(x, w) \in Range(stream[On(x)]) => Message(x, w).says \in 0..value
        BY <1>4, OnTheWay
      <4> QED
        BY <4>1 DEF Message
    <3> QED
      BY <1>7, <3>1, <3>2
  <2>2. ASSUME NEW x \in Made PROVE Sent(x)' = {w \in 0..v : Message(x, w) \in Range(stream'[On(x)])}
    BY <1>2, <1>4 DEF Sent, Message
  <2> QED
    BY <1>5, <2>1, <2>2 DEF Sent
<1>10. ASSUME NEW x \in Made
       PROVE  /\ IsInjective(buffer'[x])
              /\ Range(buffer'[x]) = Range(buffer[x]) \cup (IF state[x] = "opening" /\ x \in listening THEN {v} ELSE {})
              /\ ~(state[x] = "opening" /\ x \in listening) => buffer'[x] = buffer[x]
  <2>1. x \in Binds /\ IsInjective(buffer[x])
    BY <1>4 DEF Delivery, Parted
  <2>2. PICK S : S = 0..value
    OBVIOUS
  <2>3. buffer[x] \in Seq(S)
    BY <2>1, <2>2, Rest
  <2>4. v \notin Range(buffer[x])
    BY <1>5, <2>2, <2>3, ElementsOf
  <2>5. PICK T : T = S \cup {v}
    OBVIOUS
  <2>6. buffer[x] \in Seq(T) /\ v \in T
    BY <2>3, <2>5, SeqMonotonic
  <2>7. IsInjective(Append(buffer[x], v)) /\ Range(Append(buffer[x], v)) = Range(buffer[x]) \cup {v}
    <3>1. PICK q \in Seq(T) : q = buffer[x]
      BY <2>6
    <3>2. Append(q, v) = q \o <<v>> /\ Range(q \o <<v>>) = Range(q) \cup {v}
      BY <2>6, AddDistinct
    <3>3. IsInjective(q \o <<v>>)
      BY <2>1, <2>4, <2>6, <3>1, AddDistinct
    <3> QED
      BY <3>1, <3>2, <3>3
  <2>8. buffer'[x] = IF x \in listening /\ state[x] = "opening" THEN Append(buffer[x], v) ELSE buffer[x]
    BY <1>2, <2>1 DEF Buffered
  <2> QED
    BY <2>1, <2>7, <2>8
<1>11. Carried'
  <2> SUFFICES ASSUME NEW g \in Streams PROVE IsInjective(stream'[g]) /\ \A m \in Range(stream'[g]) : On(m.of)' = g
    BY DEF Carried
  <2>1. \A m \in Range(stream[g]) \cup told(g) : On(m.of)' = On(m.of) /\ On(m.of) = g
    BY <1>3, <1>6 DEF On, Delivery, Carried
  <2> QED
    BY <1>8, <2>1
<1>12. Fresh'
  <2>1. \A x \in Made : bound[Of(x)] = x => early[x] = <<>>
    BY DEF Delivery, Fresh
  <2>2. \A x \in Binds \ listening : state[x] \in {"none", "sent", "opening"} => buffer'[x] = <<>> /\ early[x] = <<>>
    <3>1. \A x \in Binds \ listening : buffer'[x] = buffer[x]
      BY <1>2
    <3> QED
      BY <3>1 DEF Delivery, Fresh
  <2>3. \A x \in Made : state[x] \in {"none", "sent", "opening"} => Got(x) = <<>> /\ Sent(x)' = {} /\ x \notin flush
    BY <1>9 DEF Delivery, Fresh
  <2>4. \A x \in Made : state[x] = "held" => x \in listening /\ (buffer'[x] # <<>> => x \in flush)
    BY <1>10 DEF Delivery, Fresh
  <2> QED
    BY <1>3, <1>4, <2>1, <2>2, <2>3, <2>4 DEF Fresh
<1>13. ASSUME NEW x \in Made PROVE Parted(x)' /\ Complete(x)'
  <2>1. /\ Parted(x) /\ Complete(x) /\ from'[x] = from[x] /\ from[x] \in 0..value
        /\ Got(x)' = Got(x) /\ Served(x)' = Served(x)
    BY <1>3, <1>4, Rest DEF Delivery
  <2>2. v \notin Range(Got(x)) /\ v \notin Range(buffer[x]) /\ v \notin Sent(x)
    <3>1. All(x) \subseteq from[x]..value
      BY <2>1 DEF Complete
    <3>2. v \notin from[x]..value
      BY <1>5, <2>1
    <3> QED
      BY <3>1, <3>2 DEF All
  <2>3. Parted(x)'
    BY <1>9, <1>10, <2>1, <2>2 DEF Parted
  <2>4. /\ All(x)' \subseteq All(x) \cup {v}
        /\ x \in listening => All(x)' = All(x) \cup {v}
    <3>1. x \in listening => state[x] \in {"opening", "held"}
      BY HeldIsServed
    <3> QED
      BY <1>9, <1>10, <2>1, <3>1 DEF All
  <2>5. from[x]..v = (from[x]..value) \cup {v}
    BY <1>1, <1>5, <2>1
  <2>6. Served(x) => x \in listening
    BY DEF Served
  <2>7. Complete(x)'
    BY <1>2, <2>1, <2>4, <2>5, <2>6 DEF Complete
  <2> QED
    BY <2>3, <2>7
<1> QED
  BY <1>4, <1>11, <1>12, <1>13 DEF Delivery

-----------------------------------------------------------------------------
LEMMA StartsSilent ==
    ASSUME Init
    PROVE  Delivery
<1>1. Made = {} /\ \A g \in Streams : stream[g] = <<>>
  BY DEF Init, Made
<1>2. Carried
  BY <1>1, Nothing DEF Carried
<1>3. Fresh
  BY <1>1 DEF Init, Fresh
<1> QED
  BY <1>1, <1>2, <1>3 DEF Delivery

LEMMA StepSays ==
    ASSUME IInv, Delivery, [Next]_vars
    PROVE  Delivery'
<1>1. ASSUME NEW s \in Subs, Subscribe(s) \/ Release(s) \/ TimeLimit(s) \/ Retry(s) PROVE Delivery'
  BY <1>1, SubscribeSays, ReleaseSays, TimeLimitSays, RetrySays
<1>2. ASSUME Connect \/ LoseStream \/ Event \/ Change PROVE Delivery'
  BY <1>2, ConnectSays, LoseStreamSays, EventSays, ChangeSays
<1>3. ASSUME NEW b \in Made, ReadAnswer(b) \/ Arrive(b) \/ Open(b) \/ RefuseOpen(b) \/ Opened(b) PROVE Delivery'
  BY <1>3, ReadAnswerSays, ArriveSays, OpenSays, RefuseOpenSays, OpenedSays
<1>4. ASSUME NEW b \in Made, Flush(b) \/ EndArrives(b) \/ Revoke(b) \/ Disconnect(b) PROVE Delivery'
  BY <1>4, FlushSays, EndArrivesSays, RevokeSays, DisconnectSays
<1>5. ASSUME NEW g \in Streams, EndStream(g) PROVE Delivery'
  BY <1>5, EndStreamSays
<1>6. CASE UNCHANGED vars
  BY <1>6, SilentSays DEF vars, clientVars, bindVars, serverVars, wireVars
<1> QED
  BY <1>1, <1>2, <1>3, <1>4, <1>5, <1>6 DEF Next

LEMMA BoundHasAll ==
    ASSUME IInv, Delivery
    PROVE  EachOnce
<1> SUFFICES ASSUME NEW s \in Subs, bound[s] # 0
             PROVE  /\ IsInjective(seen[s])
                    /\ Drained(bound[s]) /\ state[bound[s]] = "held" /\ bound[s] \notin expired
                         => Range(seen[s]) = from[bound[s]]..value
  BY DEF EachOnce
<1>1. PICK b \in Made : b = bound[s] /\ Of(b) = s
  BY BoundOf DEF IInv, Requests
<1>2. Got(b) = seen[s] /\ Parted(b) /\ Complete(b)
  BY <1>1 DEF Delivery, Got
<1>3. ASSUME Drained(b), state[b] = "held", b \notin expired
      PROVE  Range(seen[s]) = from[b]..value
  <2>1. buffer[b] = <<>> /\ b \in listening
    BY <1>3 DEF Delivery, Fresh, Drained
  <2>2. Sent(b) = {}
    <3>1. \A w : Message(b, w) \notin Range(stream[On(b)])
      BY <1>3 DEF Drained, Range, Message
    <3> QED
      BY <3>1 DEF Sent
  <2>3. Served(b)
    BY <1>1, <1>3, <2>1 DEF Served
  <2> QED
    BY <1>2, <2>1, <2>2, <2>3, Nothing DEF Complete, All
<1> QED
  BY <1>1, <1>2, <1>3 DEF Parted

\* A bound subscription has every change since the provider was opened for it, none twice, whatever overtakes the
\* answer and whichever streams and requests came before (subscribe of dispatcher.ts against bind and event of client.ts).
THEOREM EachStateOnce == Spec => []EachOnce
<1>1. Init => IInv /\ Delivery
  BY Starts, StartsSilent
<1>2. IInv /\ Delivery /\ [Next]_vars => IInv' /\ Delivery'
  BY StepKeeps, StepSays
<1>3. IInv /\ Delivery => EachOnce
  BY BoundHasAll
<1> QED
  BY <1>1, <1>2, <1>3, PTL DEF Spec

=============================================================================
