------------------------------ MODULE RpcChannel ------------------------------
(***************************************************************************)
(* Channels of the message layer: the subscriptions of one client          *)
(* (apps/web rpc/client.ts) to a provider of the server, over the          *)
(* transport (rpc/http-transport.ts) and the dispatcher (rpc/dispatcher.ts)*)
(* of the server.                                                          *)
(*                                                                         *)
(* A subscription is asked for in an HTTP request of its own; its messages *)
(* come over the event stream, so that they and the answer to the request  *)
(* overtake each other.  A lost stream is noticed by either side when it   *)
(* notices; the client opens another and asks for everything again.  The   *)
(* provider repeats its state to whom it opens, then sends every change;   *)
(* what it says is the number of its last change.                          *)
(*                                                                         *)
(* Left out: calls of methods and of the server (RpcPeer has the latter),  *)
(* the handlers of a client, rights, progress, a stream without sign-in.   *)
(***************************************************************************)
EXTENDS Naturals, SequencesExt

CONSTANTS
    Subs,         \* the subscriptions of the client
    MaxSubs,      \* MAX_SUBSCRIPTIONS of a connection
    MaxStreams,   \* bound: streams opened
    MaxBinds,     \* bound: requests for a subscription
    MaxChanges,   \* bound: changes of the provider
    MaxFaults     \* bound: lost streams, exceeded time limits, refusals, revoked access, expired messages

ASSUME RpcChannelAssumption ==
    IsFiniteSet(Subs) /\ {MaxSubs, MaxStreams, MaxBinds, MaxChanges, MaxFaults} \subseteq Nat

Streams == 1 .. MaxStreams
Binds == 1 .. MaxBinds

VARIABLES
    sub,        \* each subscription of the client: "none", "wanted", "released"
    keeps,      \* the client also answers calls of the server and keeps its stream for them
    conn,       \* the stream the client has, 0 without one
    bound,      \* the request that gave a subscription its id at the server, 0 without one
    binding,    \* the request that is to give it one, 0 without one
    again,      \* subscriptions with a timer for another request
    early,      \* messages of subscriptions the client does not know yet
    seen,       \* what each subscription got since it was bound
    asked,      \* the requests, in the order they were made: their subscription and stream
    state,      \* each request at the server: "sent", "opening", "held", "revoked", "over"
    listening,  \* requests whose listener the provider has
    buffer,     \* messages from while it opened
    flush,      \* requests with a timer that sends them
    signal,     \* requests the server knows to be cancelled
    answer,     \* the answer on its way: "none", "ok", "refused", "read"
    cut,        \* requests the client has given up without the server knowing
    ends,       \* requests to end a subscription on their way
    opened,     \* streams opened so far
    closed,     \* streams the server has closed
    stream,     \* what is on its way on each
    value,      \* the last change of the provider
    from,       \* history: the state each opened subscription started from
    expired,    \* history: requests whose early messages were dropped
    faults
clientVars == <<keeps, sub, conn, bound, binding, again, early, seen>>
bindVars == <<asked, state, answer>>
serverVars == <<listening, buffer, flush, signal, from>>
wireVars == <<cut, ends, stream>>
vars == <<clientVars, bindVars, serverVars, wireVars, opened, closed, value, expired, faults>>

Init ==
    /\ keeps \in BOOLEAN /\ sub = [s \in Subs |-> "none"] /\ conn = 0
    /\ bound = [s \in Subs |-> 0] /\ binding = [s \in Subs |-> 0] /\ again = {}
    /\ early = [b \in Binds |-> <<>>] /\ seen = [s \in Subs |-> <<>>]
    /\ asked = <<>> /\ state = [b \in Binds |-> "none"] /\ answer = [b \in Binds |-> "none"]
    /\ listening = {} /\ buffer = [b \in Binds |-> <<>>] /\ flush = {} /\ signal = {} /\ from = [b \in Binds |-> 0]
    /\ cut = {} /\ ends = {} /\ stream = [g \in Streams |-> <<>>]
    /\ opened = 0 /\ closed = {} /\ value = 0 /\ expired = {} /\ faults = 0

Fault == faults < MaxFaults /\ faults' = faults + 1
Wanted == {s \in Subs : sub[s] = "wanted"}
Of(b) == asked[b].sub
On(b) == asked[b].over
Made == DOMAIN asked
Held(g) == {b \in Made : state[b] = "held" /\ On(b) = g}
Message(b, m) == [of |-> b, says |-> m]

-----------------------------------------------------------------------------
(* The client. *)

\* bind, for each of ss, over stream g.
Bind(ss, g) ==
    LET order == SetToSeq(ss)
        number == [s \in ss |-> Len(asked) + CHOOSE n \in DOMAIN order : order[n] = s]
    IN  /\ Len(asked) + Len(order) <= MaxBinds
        /\ asked' = asked \o [n \in DOMAIN order |-> [sub |-> order[n], over |-> g]]
        /\ binding' = [s \in Subs |-> IF s \in ss THEN number[s] ELSE binding[s]]
        /\ state' = [b \in Binds |-> IF \E s \in ss : number[s] = b THEN "sent" ELSE state[b]]

Subscribe(s) ==
    /\ sub[s] = "none"
    /\ sub' = [sub EXCEPT ![s] = "wanted"]
    /\ IF conn # 0 THEN Bind({s}, conn) ELSE UNCHANGED <<asked, binding, state>>
    /\ UNCHANGED <<keeps, conn, bound, again, early, seen, answer, serverVars, wireVars, opened, closed, value, expired, faults>>

\* bind asks for nothing that is bound or asked for.
Unasked == {s \in Wanted : bound[s] = 0 /\ binding[s] = 0}

\* open and hello of a new stream, after a retry or for the first subscription; everything wanted is asked for.
Connect ==
    /\ conn = 0 /\ (Wanted # {} \/ keeps) /\ opened < MaxStreams
    /\ opened' = opened + 1 /\ conn' = opened + 1
    /\ Bind(Unasked, opened + 1)
    /\ UNCHANGED <<keeps, sub, bound, again, early, seen, answer, serverVars, wireVars, closed, value, expired, faults>>

Unbound == [s \in Subs |-> 0]

\* Fault: the ids of the old connection are kept.
BoundStays == bound

\* The ids that are left after a stream.
BoundAfter == Unbound

\* stop: bindings, ids, timers and early messages go with the stream, and the requests made over it.
StopStream ==
    /\ conn' = 0
    /\ bound' = BoundAfter /\ binding' = Unbound /\ again' = {}
    /\ early' = [b \in Binds |-> <<>>]
    /\ cut' = cut \cup ({binding[s] : s \in Subs} \ {0})
    /\ ends' = {}
    /\ stream' = IF conn = 0 THEN stream ELSE [stream EXCEPT ![conn] = <<>>]

\* The stream ended, was lost, or has been silent for too long.
LoseStream ==
    /\ conn # 0
    /\ IF conn \in closed THEN UNCHANGED faults ELSE Fault
    /\ StopStream
    /\ UNCHANGED <<keeps, sub, seen, bindVars, serverVars, opened, closed, value, expired>>

\* The release of a subscription: a request for it is aborted, a known id is ended, and what needs no stream ends it.
Release(s) ==
    /\ sub[s] = "wanted"
    /\ sub' = [sub EXCEPT ![s] = "released"]
    /\ IF Wanted = {s} /\ ~keeps THEN StopStream
       ELSE /\ bound' = [bound EXCEPT ![s] = 0] /\ binding' = [binding EXCEPT ![s] = 0] /\ again' = again \ {s}
            /\ cut' = cut \cup ({binding[s]} \ {0})
            /\ ends' = ends \cup ({bound[s]} \ {0})
            /\ UNCHANGED <<conn, early, stream>>
    /\ UNCHANGED <<keeps, seen, bindVars, serverVars, opened, closed, value, expired, faults>>

\* The answer to a request that is still waited for: its early messages come first, a refusal is retried.
ReadAnswer(b) ==
    /\ answer[b] \in {"ok", "refused"}
    /\ answer' = [answer EXCEPT ![b] = "read"]
    /\ IF binding[Of(b)] = b
       THEN /\ binding' = [binding EXCEPT ![Of(b)] = 0]
            /\ IF answer[b] = "ok"
               THEN /\ bound' = [bound EXCEPT ![Of(b)] = b]
                    /\ seen' = [seen EXCEPT ![Of(b)] = early[b]]
                    /\ early' = [early EXCEPT ![b] = <<>>]
                    /\ UNCHANGED again
               ELSE again' = again \cup {Of(b)} /\ UNCHANGED <<bound, seen, early>>
       ELSE UNCHANGED <<binding, bound, again, early, seen>>
    /\ UNCHANGED <<keeps, sub, conn, asked, state, serverVars, wireVars, opened, closed, value, expired, faults>>

\* The request exceeds its time limit.
TimeLimit(s) ==
    /\ binding[s] # 0 /\ Fault
    /\ cut' = cut \cup {binding[s]}
    /\ binding' = [binding EXCEPT ![s] = 0] /\ again' = again \cup {s}
    /\ UNCHANGED <<keeps, sub, conn, bound, early, seen, bindVars, serverVars, ends, stream, opened, closed, value, expired>>

Retry(s) ==
    /\ s \in again
    /\ again' = again \ {s}
    /\ Bind({s}, conn)
    /\ UNCHANGED <<keeps, sub, conn, bound, early, seen, answer, serverVars, wireVars, opened, closed, value, expired, faults>>

\* event: a message of a subscription that is not known yet is kept a while; older ones may be dropped then.
Event ==
    /\ conn # 0 /\ stream[conn] # <<>>
    /\ stream' = [stream EXCEPT ![conn] = Tail(@)]
    /\ LET m == Head(stream[conn])
           s == Of(m.of)
       IN  IF bound[s] = m.of
           THEN seen' = [seen EXCEPT ![s] = Append(@, m.says)] /\ UNCHANGED <<early, expired, faults>>
           ELSE \E old \in SUBSET {b \in Made : early[b] # <<>>} :
                  /\ IF old = {} THEN UNCHANGED faults ELSE Fault
                  /\ expired' = expired \cup old
                  /\ early' = [b \in Binds |-> (IF b \in old THEN <<>> ELSE early[b])
                                                \o (IF b = m.of THEN <<m.says>> ELSE <<>>)]
                  /\ UNCHANGED seen
    /\ UNCHANGED <<keeps, sub, conn, bound, binding, again, bindVars, serverVars, cut, ends, opened, closed, value>>

-----------------------------------------------------------------------------
(* The server. *)

\* A request arrives; the number of subscriptions is looked at before the provider is opened.
Arrive(b) ==
    /\ state[b] = "sent"
    /\ IF On(b) \in closed \/ Cardinality(Held(On(b))) >= MaxSubs
       THEN state' = [state EXCEPT ![b] = "over"] /\ answer' = [answer EXCEPT ![b] = "refused"]
       ELSE state' = [state EXCEPT ![b] = "opening"] /\ UNCHANGED answer
    /\ UNCHANGED <<clientVars, asked, serverVars, wireVars, opened, closed, value, expired, faults>>

\* The provider registers the listener and says what its state is.
Open(b) ==
    /\ state[b] = "opening" /\ b \notin listening
    /\ listening' = listening \cup {b}
    /\ buffer' = [buffer EXCEPT ![b] = <<value>>] /\ from' = [from EXCEPT ![b] = value]
    /\ UNCHANGED <<clientVars, bindVars, flush, signal, wireVars, opened, closed, value, expired, faults>>

\* The provider refuses, or the rights or parameters do.
RefuseOpen(b) ==
    /\ state[b] = "opening" /\ b \notin listening /\ Fault
    /\ state' = [state EXCEPT ![b] = "over"]
    /\ answer' = [answer EXCEPT ![b] = IF @ = "none" THEN "refused" ELSE @]
    /\ UNCHANGED <<clientVars, asked, serverVars, wireVars, opened, closed, value, expired>>

\* Fault: nothing is looked at after the wait.
AliveAlways(b) == TRUE

\* Whether the subscription is still wanted when the provider has opened.
Alive(b) == On(b) \notin closed /\ b \notin signal

\* subscribe, after its await: what was opened in vain is stopped, otherwise the connection holds it and is answered.
Opened(b) ==
    /\ state[b] = "opening" /\ b \in listening
    /\ IF Alive(b)
       THEN /\ state' = [state EXCEPT ![b] = "held"]
            /\ flush' = flush \cup {b}
            /\ answer' = [answer EXCEPT ![b] = "ok"]
            /\ UNCHANGED listening
       ELSE /\ state' = [state EXCEPT ![b] = "over"]
            /\ listening' = listening \ {b}
            /\ answer' = [answer EXCEPT ![b] = IF @ = "none" THEN "refused" ELSE @]
            /\ UNCHANGED flush
    /\ UNCHANGED <<clientVars, asked, buffer, signal, from, wireVars, opened, closed, value, expired, faults>>

\* The timer sends what came while the provider opened.
Flush(b) ==
    /\ b \in flush
    /\ flush' = flush \ {b}
    /\ stream' = IF state[b] = "held"
                 THEN [stream EXCEPT ![On(b)] = @ \o [n \in DOMAIN buffer[b] |-> Message(b, buffer[b][n])]]
                 ELSE stream
    /\ buffer' = [buffer EXCEPT ![b] = <<>>]
    /\ UNCHANGED <<clientVars, bindVars, listening, signal, from, cut, ends, opened, closed, value, expired, faults>>

\* Fault: what comes while the provider opens is not kept.
BufferedNever(b) == FALSE

\* Kept until the provider has opened.
Buffered(b) == state[b] = "opening"

\* The provider changes and tells its listeners.
Change ==
    /\ value < MaxChanges
    /\ value' = value + 1
    /\ buffer' = [b \in Binds |-> IF b \in listening /\ Buffered(b) THEN Append(buffer[b], value + 1) ELSE buffer[b]]
    /\ stream' = [g \in Streams |->
                    IF g \in closed THEN stream[g]
                    ELSE stream[g] \o SetToSeq({Message(b, value + 1) : b \in {h \in Held(g) : h \in listening}})]
    /\ UNCHANGED <<clientVars, bindVars, listening, flush, signal, from, cut, ends, opened, closed, expired, faults>>

\* Subscriptions that end let go of their listeners.
Ended(bs) ==
    /\ state' = [b \in Binds |-> IF b \in bs THEN "over" ELSE state[b]]
    /\ listening' = listening \ bs

EndArrives(b) ==
    /\ b \in ends
    /\ ends' = ends \ {b}
    /\ Ended({b} \cap Held(On(b)))
    /\ UNCHANGED <<clientVars, asked, answer, buffer, flush, signal, from, cut, stream, opened, closed, value, expired, faults>>

\* The access of the caller to the run of the channel is taken away; it is not told.
Revoke(b) ==
    /\ state[b] = "held" /\ Fault
    /\ state' = [state EXCEPT ![b] = "revoked"] /\ listening' = listening \ {b}
    /\ UNCHANGED <<clientVars, asked, answer, buffer, flush, signal, from, wireVars, opened, closed, value, expired>>

\* The server notices that a request was given up; what it has answered already stays.
Disconnect(b) ==
    /\ b \in cut
    /\ cut' = cut \ {b}
    /\ state' = [state EXCEPT ![b] = IF @ = "sent" THEN "over" ELSE @]
    /\ signal' = IF state[b] = "opening" THEN signal \cup {b} ELSE signal
    /\ UNCHANGED <<clientVars, asked, answer, listening, buffer, flush, from, ends, stream, opened, closed, value, expired, faults>>

\* A stream ends at the server: its subscriptions end, the requests made over it are cancelled.
EndStream(g) ==
    /\ g <= opened /\ g \notin closed
    /\ IF conn = g THEN Fault ELSE UNCHANGED faults
    /\ closed' = closed \cup {g}
    /\ LET opening == {b \in Made : state[b] = "opening" /\ On(b) = g}
       IN  /\ signal' = signal \cup opening
           /\ answer' = [b \in Binds |-> IF b \in opening /\ answer[b] = "none" THEN "refused" ELSE answer[b]]
    /\ Ended(Held(g))
    /\ UNCHANGED <<clientVars, asked, buffer, flush, from, wireVars, opened, value, expired>>

Next ==
    \/ \E s \in Subs : Subscribe(s) \/ Release(s) \/ TimeLimit(s) \/ Retry(s)
    \/ Connect \/ LoseStream \/ Event \/ Change
    \/ \E b \in Made : ReadAnswer(b) \/ Arrive(b) \/ Open(b) \/ RefuseOpen(b) \/ Opened(b) \/ Flush(b)
                       \/ EndArrives(b) \/ Revoke(b) \/ Disconnect(b)
    \/ \E g \in Streams : EndStream(g)

Fairness ==
    /\ WF_vars(Connect) /\ WF_vars(Event) /\ WF_vars(conn \in closed /\ LoseStream)
    /\ \A s \in Subs : WF_vars(Retry(s))
    /\ \A b \in Binds :
          WF_vars(b \in Made /\ (ReadAnswer(b) \/ Arrive(b) \/ Open(b) \/ Opened(b) \/ Flush(b) \/ Disconnect(b)))
    /\ \A g \in Streams : WF_vars(g # conn /\ EndStream(g))

Spec == Init /\ [][Next]_vars /\ Fairness

-----------------------------------------------------------------------------
TypeOK ==
    /\ keeps \in BOOLEAN /\ sub \in [Subs -> {"none", "wanted", "released"}] /\ conn \in {0, opened} /\ opened \in 0 .. MaxStreams
    /\ bound \in [Subs -> 0 .. Len(asked)] /\ binding \in [Subs -> 0 .. Len(asked)] /\ again \subseteq Wanted
    /\ early \in [Binds -> Seq(0 .. value)] /\ seen \in [Subs -> Seq(0 .. value)]
    /\ asked \in Seq([sub : Subs, over : 1 .. opened])
    /\ state \in [Binds -> {"none", "sent", "opening", "held", "revoked", "over"}]
    /\ answer \in [Binds -> {"none", "ok", "refused", "read"}]
    /\ listening \cup flush \cup signal \cup cut \cup ends \subseteq Made
    /\ buffer \in [Binds -> Seq(0 .. value)] /\ from \in [Binds -> 0 .. value]
    /\ closed \subseteq 1 .. opened /\ stream \in [Streams -> Seq([of : Made, says : 0 .. value])]
    /\ value \in 0 .. MaxChanges /\ expired \subseteq Made /\ faults \in 0 .. MaxFaults

\* The provider's listeners are those of subscriptions that are opening or held, and a closed stream holds none.
ListenersServe ==
    /\ \A b \in listening : state[b] \in {"opening", "held"}
    /\ \A g \in closed : Held(g) = {}

\* What the subscription is bound to is its own request over the present stream, one at a time.
\* (bind, its retries and the end of the stream of client.ts).
BoundIsPresent ==
    \A s \in Subs :
        /\ \A b \in {bound[s], binding[s]} \ {0} : sub[s] = "wanted" /\ Of(b) = s /\ On(b) = conn
        /\ bound[s] # 0 \/ binding[s] # 0 => s \notin again /\ 0 \in {bound[s], binding[s]}
        /\ bound[s] # 0 => (state[bound[s]] \in {"held", "revoked"} \/ conn \in closed)

\* Types; no listener stays for a subscription that has ended, and the client is bound to what is its own
\* (subscribe against close of dispatcher.ts, bind against stop of client.ts).
ChannelInv == TypeOK /\ ListenersServe /\ BoundIsPresent

\* Nothing of b is on its way any more.
Drained(b) == b \notin flush /\ \A n \in DOMAIN stream[On(b)] : stream[On(b)][n].of # b

\* A bound subscription gets every state since it was opened, none twice, whatever overtakes the answer.
EachOnce ==
    \A s \in Subs : bound[s] # 0 =>
        /\ IsInjective(seen[s])
        /\ Drained(bound[s]) /\ state[bound[s]] = "held" /\ bound[s] \notin expired
              => Range(seen[s]) = from[bound[s]] .. value

\* The bounds of the model are used up.
Spent == (conn = 0 /\ opened = MaxStreams) \/ (Len(asked) = MaxBinds /\ (conn = 0 \/ again # {}))

\* A wanted subscription has the latest state in the end, after whatever was lost.
Converges ==
    \A s \in Subs : <>[](sub[s] = "wanted" =>
        \/ Spent
        \/ bound[s] # 0 /\ (bound[s] \in expired \/ state[bound[s]] = "revoked")
        \/ bound[s] # 0 /\ value \in Range(seen[s]))

-----------------------------------------------------------------------------
(* What the documentation says and the code does not keep. *)

\* The provider's state at the opening comes before what it sends after it.
InitialStateFirst == \A s \in Subs : bound[s] # 0 /\ seen[s] # <<>> => seen[s][1] = from[bound[s]]

\* Releasing a subscription cancels its pending request: the server does not go on serving it.
ReleasedIsEnded ==
    \A b \in Made : state[b] = "held" /\ sub[Of(b)] = "released" => On(b) # conn \/ b \in ends \/ b \in cut

\* There are at most MaxSubs subscriptions of a connection.
AtMostMaxSubs == \A g \in Streams : Cardinality(Held(g)) <= MaxSubs
=============================================================================
