------------------------------- MODULE RpcPeer -------------------------------
(***************************************************************************)
(* Requests of the message layer (packages/ragents rpc/peer.ts) where they *)
(* are hardest to keep apart: the server calls a client over its event     *)
(* stream.  Every stream has a new peer on the server, which numbers its   *)
(* calls from 1; the client answers all of them with one peer, which       *)
(* outlives the streams (apps/web rpc/client.ts).  So ids repeat, and what *)
(* a handler has to say may come when the stream it was asked over is gone.*)
(*                                                                         *)
(* A message is sent in a microtask of its own; what a timer or the        *)
(* network brings comes after those that wait.                             *)
(*                                                                         *)
(* Left out: the way in the other direction (RpcChannel has it), several   *)
(* clients, methods without a handler, malformed messages, notifications   *)
(* other than those of a request, cancelOutgoing.                          *)
(***************************************************************************)
EXTENDS Naturals, Sequences, FiniteSets

CONSTANTS
    Ids,          \* the ids of the calls of one stream
    Untimed,      \* the ids called with timeoutMs null
    MaxStreams,   \* bound: streams the client opens
    MaxCalls      \* bound: calls over all streams

ASSUME RpcPeerAssumption ==
    /\ MaxStreams \in Nat \ {0} /\ MaxCalls \in Nat
    /\ Ids \subseteq Nat \ {0}
    /\ Untimed \subseteq Ids

Streams == 1 .. MaxStreams
Calls == Streams \X Ids
Idle == <<0, 0>>   \* no handler

VARIABLES
    opened,    \* streams opened so far
    link,      \* the stream the client has, 0 without one
    closed,    \* the streams whose peer the server has closed
    call,      \* each call: "new", "queued" until it is sent, "sent", then "settled", or "withdrawn" if it never was sent
    outcome,   \* how it was settled
    timer,     \* calls whose time limit is running
    grace,     \* cancelled calls that still wait for an answer
    heard,     \* calls whose signal is listened to
    tick,      \* microtasks of the server
    down,      \* messages on each stream
    handler,   \* the handler of each call at the client
    running,   \* the handler the client knows under each id
    aborted,   \* handlers whose signal is aborted
    told,      \* the handler that has reported progress or whose answer failed to be posted, at most one
    work,      \* microtasks of the client
    up         \* messages the client posts, in order
peerVars == <<closed, call, outcome, timer, grace, heard>>
clientVars == <<handler, running, aborted, told, work>>
vars == <<opened, link, peerVars, tick, down, clientVars, up>>

Message(kind, c) == [kind |-> kind, call |-> c]

Init ==
    /\ opened = 1 /\ link = 1 /\ closed = {}
    /\ call = [c \in Calls |-> "new"] /\ outcome = [c \in Calls |-> "none"]
    /\ timer = {} /\ grace = {} /\ heard = {}
    /\ tick = <<>> /\ down = [s \in Streams |-> <<>>]
    /\ handler = [c \in Calls |-> "none"] /\ running = [i \in Ids |-> Idle] /\ aborted = {} /\ told = {}
    /\ work = <<>> /\ up = <<>>

Pending == {c \in Calls : call[c] \in {"queued", "sent"}}

-----------------------------------------------------------------------------
(* The calling peer. *)

\* settle for each call of cs; everything that would settle it again is taken back.
Settle(cs, why) ==
    /\ call' = [c \in Calls |-> IF c \notin cs THEN call[c] ELSE IF call[c] = "queued" THEN "withdrawn" ELSE "settled"]
    /\ outcome' = [c \in Calls |-> IF c \in cs THEN why ELSE outcome[c]]
    /\ timer' = timer \ cs /\ grace' = grace \ cs /\ heard' = heard \ cs

\* request: on an open peer the call gets the next id.
Request(c) ==
    /\ c[1] <= opened /\ c[1] \notin closed
    /\ Cardinality({d \in Calls : call[d] # "new"}) < MaxCalls
    /\ call[c] = "new" /\ \A i \in Ids : i < c[2] => call[<<c[1], i>>] # "new"
    /\ call' = [call EXCEPT ![c] = "queued"]
    /\ timer' = IF c[2] \in Untimed THEN timer ELSE timer \cup {c}
    /\ heard' = heard \cup {c}
    /\ tick' = Append(tick, Message("request", c))
    /\ UNCHANGED <<opened, link, closed, outcome, grace, down, clientVars, up>>

\* Fault: without the timer of the grace period.
AbortForgets(c) ==
    /\ c \in heard
    /\ \/ call[c] = "queued" /\ Settle({c}, "cancelled") /\ UNCHANGED tick
       \/ /\ call[c] = "sent" /\ tick' = Append(tick, Message("cancel", c)) /\ heard' = heard \ {c}
          /\ UNCHANGED <<call, outcome, timer, grace>>
    /\ UNCHANGED <<opened, link, closed, down, clientVars, up>>

\* The signal of the caller aborts: a call not sent yet ends at once, another waits a while for its answer.
Abort(c) ==
    /\ c \in heard
    /\ \/ call[c] = "queued" /\ Settle({c}, "cancelled") /\ UNCHANGED tick
       \/ /\ call[c] = "sent"
          /\ tick' = Append(tick, Message("cancel", c))
          /\ grace' = grace \cup {c} /\ heard' = heard \ {c}
          /\ UNCHANGED <<call, outcome, timer>>
    /\ UNCHANGED <<opened, link, closed, down, clientVars, up>>

\* Only a request that is still waited for is sent.
Due(m) == m.kind = "cancel" \/ m.call \in Pending

\* deliver: a microtask sends its message; on a stream that is gone it is lost.
Send ==
    /\ tick # <<>>
    /\ LET m == Head(tick)
       IN  /\ tick' = Tail(tick)
           /\ down' = IF Due(m) /\ link = m.call[1] /\ link \notin closed
                      THEN [down EXCEPT ![link] = Append(@, m)] ELSE down
           /\ call' = IF m.kind = "request" /\ m.call \in Pending THEN [call EXCEPT ![m.call] = "sent"] ELSE call
    /\ UNCHANGED <<opened, link, closed, outcome, timer, grace, heard, clientVars, up>>

TimeLimit(c) ==
    /\ tick = <<>> /\ c \in timer
    /\ tick' = IF c[1] \in closed THEN tick ELSE Append(tick, Message("cancel", c))
    /\ Settle({c}, "timeout")
    /\ UNCHANGED <<opened, link, closed, down, clientVars, up>>

GraceEnds(c) ==
    /\ tick = <<>> /\ c \in grace
    /\ Settle({c}, "cancelled")
    /\ UNCHANGED <<opened, link, closed, tick, down, clientVars, up>>

\* The server notices the end of a stream, or ends it.
Close(s) ==
    /\ tick = <<>> /\ s <= opened /\ s \notin closed
    /\ closed' = closed \cup {s}
    /\ Settle({c \in Pending : c[1] = s}, "closed")
    /\ UNCHANGED <<opened, link, tick, down, clientVars, up>>

-----------------------------------------------------------------------------
(* The answering peer and its stream. *)

\* Only what the client still runs under its id may speak for it.
Current(c) == running[c[2]] = c

\* What comes down the stream of the client.
Receive ==
    /\ work = <<>> /\ link # 0 /\ down[link] # <<>>
    /\ down' = [down EXCEPT ![link] = Tail(@)]
    /\ LET m == Head(down[link])
       IN  \/ /\ m.kind = "request"
              /\ handler' = [handler EXCEPT ![m.call] = "runs"]
              /\ running' = [running EXCEPT ![m.call[2]] = m.call]
              /\ UNCHANGED aborted
           \/ /\ m.kind = "cancel"
              /\ aborted' = aborted \cup ({running[m.call[2]]} \ {Idle})
              /\ UNCHANGED <<handler, running>>
    /\ UNCHANGED <<opened, link, peerVars, tick, told, work, up>>

\* The answer of a handler, or the word that it failed to be posted, is the last it says.
Final(m) == m.kind # "progress"

\* A handler returns or throws.
Return(c) ==
    /\ handler[c] = "runs"
    /\ IF Current(c) THEN /\ handler' = [handler EXCEPT ![c] = "answers"]
                          /\ work' = Append(work, Message("answer", c))
       ELSE handler' = [handler EXCEPT ![c] = "ends"] /\ UNCHANGED work
    /\ UNCHANGED <<opened, link, peerVars, tick, down, running, aborted, told, up>>

\* context.progress; bound: one message, and none where an answer failed to be posted.
Progress(c) ==
    /\ handler[c] = "runs" /\ told = {}
    /\ told' = {c}
    /\ work' = Append(work, Message("progress", c))
    /\ UNCHANGED <<opened, link, peerVars, tick, down, handler, running, aborted, up>>

\* A microtask of the client posts its message, marked with the stream the client has now.
Post ==
    /\ work # <<>>
    /\ LET m == Head(work)
       IN  /\ work' = Tail(work)
           /\ up' = IF Current(m.call) /\ link # 0 THEN Append(up, [over |-> link, said |-> m]) ELSE up
           /\ handler' = IF Final(m) /\ ~(Current(m.call) /\ link # 0)
                         THEN [handler EXCEPT ![m.call] = "ends"] ELSE handler
    /\ UNCHANGED <<opened, link, peerVars, tick, down, running, aborted, told>>

\* The call that id names on a stream.
Named(over, said) == <<over, said.call[2]>>

\* What was posted arrives, or is lost with its stream; after an answer its handler ends.  The post may also fail or
\* exceed its time while the stream lasts, whether it arrived or not: then the handler answers that it failed, once.
\* Bound: one answer fails so, and none where a handler has reported progress.
Arrive(lost, fails) ==
    /\ tick = <<>> /\ up # <<>>
    /\ LET m == Head(up)
           c == Named(m.over, m.said)
           again == fails /\ m.said.kind = "answer" /\ Current(m.said.call)
       IN  /\ lost /\ ~fails => m.over # link
           /\ fails => m.over = link
           /\ again => told = {}
           /\ up' = Tail(up)
           /\ IF Final(m.said) /\ ~lost /\ m.over \notin closed /\ c \in Pending
              THEN Settle({c}, IF m.said.call = c THEN "answered" ELSE "mistaken")
              ELSE UNCHANGED <<call, outcome, timer, grace, heard>>
           /\ handler' = IF Final(m.said) /\ ~again THEN [handler EXCEPT ![m.said.call] = "ends"] ELSE handler
           /\ work' = IF again THEN Append(work, Message("failure", m.said.call)) ELSE work
           /\ told' = IF again THEN {m.said.call} ELSE told
    /\ UNCHANGED <<opened, link, closed, tick, down, running, aborted>>

\* Fault: without asking whose it is.
EntryDropped(c) == [running EXCEPT ![c[2]] = Idle]

\* The entry of a handler is dropped only while it is its own.
EntryAfter(c) == IF Current(c) THEN [running EXCEPT ![c[2]] = Idle] ELSE running

End(c) ==
    /\ handler[c] = "ends"
    /\ handler' = [handler EXCEPT ![c] = "done"]
    /\ running' = EntryAfter(c)
    /\ UNCHANGED <<opened, link, peerVars, tick, down, aborted, told, work, up>>

\* Fault: what runs stays known.
LoseStreamOnly ==
    /\ work = <<>> /\ link # 0
    /\ link' = 0 /\ down' = [down EXCEPT ![link] = <<>>]
    /\ UNCHANGED <<opened, peerVars, tick, clientVars, up>>

\* cancelIncoming, with the end of the stream: what runs is aborted and forgotten.
LoseStream ==
    /\ work = <<>> /\ link # 0
    /\ link' = 0 /\ down' = [down EXCEPT ![link] = <<>>]
    /\ aborted' = aborted \cup ({running[i] : i \in Ids} \ {Idle})
    /\ running' = [i \in Ids |-> Idle]
    /\ UNCHANGED <<opened, peerVars, tick, handler, told, work, up>>

OpenStream ==
    /\ work = <<>> /\ link = 0 /\ opened < MaxStreams
    /\ opened' = opened + 1 /\ link' = opened + 1
    /\ UNCHANGED <<peerVars, tick, down, clientVars, up>>

\* The client notices that the server has ended its stream.
StreamEnds == link \in closed /\ LoseStream

Next ==
    \/ \E c \in Calls : Request(c) \/ Abort(c) \/ TimeLimit(c) \/ GraceEnds(c)
    \/ Send \/ Receive \/ Post \/ (\E lost, fails \in BOOLEAN : Arrive(lost, fails))
    \/ \E c \in Calls : Return(c) \/ Progress(c) \/ End(c)
    \/ \E s \in Streams : Close(s)
    \/ LoseStream \/ OpenStream

\* Microtasks and timers come, and so does what a stream carries while it lasts; handlers, callers and streams may
\* take any time.
Fairness ==
    /\ WF_vars(StreamEnds) /\ WF_vars(Send) /\ WF_vars(Post) /\ WF_vars(Receive) /\ WF_vars(Arrive(FALSE, FALSE))
    /\ \A c \in Calls : WF_vars(TimeLimit(c)) /\ WF_vars(GraceEnds(c)) /\ WF_vars(End(c))

Spec == Init /\ [][Next]_vars /\ Fairness

-----------------------------------------------------------------------------
TypeOK ==
    /\ opened \in Streams /\ link \in {0, opened} /\ closed \subseteq 1 .. opened
    /\ call \in [Calls -> {"new", "queued", "sent", "settled", "withdrawn"}]
    /\ outcome \in [Calls -> {"none", "answered", "mistaken", "cancelled", "timeout", "closed"}]
    /\ timer \subseteq Calls /\ grace \subseteq Calls /\ heard \subseteq Calls
    /\ tick \in Seq([kind : {"request", "cancel"}, call : Calls])
    /\ down \in [Streams -> Seq([kind : {"request", "cancel"}, call : Calls])]
    /\ handler \in [Calls -> {"none", "runs", "answers", "ends", "done"}]
    /\ running \in [Ids -> Calls \cup {Idle}] /\ aborted \subseteq Calls /\ told \subseteq Calls
    /\ work \in Seq([kind : {"progress", "answer", "failure"}, call : Calls])
    /\ up \in Seq([over : Streams, said : [kind : {"progress", "answer", "failure"}, call : Calls]])

\* What can still settle a call belongs to a pending one, and that to an open peer.
NothingLeft ==
    /\ timer \subseteq Pending /\ grace \subseteq Pending /\ heard \subseteq Pending
    /\ \A c \in Pending : c[1] \notin closed

\* An old result, error, or progress message cannot answer a new request that reuses its id on a later stream
\* (docs/spec/plugins.md, message layer).
OwnAnswers ==
    /\ \A c \in Calls : outcome[c] # "mistaken"
    /\ \A n \in DOMAIN up : Named(up[n].over, up[n].said) = up[n].said.call

\* What the caller took back before it was sent is never carried out by the client.
WithdrawnNeverRuns == \A c \in Calls : call[c] = "withdrawn" => handler[c] = "none"

\* Types; a call that has ended leaves no timer, no grace period and no listener behind, and none outlives its stream's
\* peer; answers belong to their calls and nothing runs that was withdrawn (settle, cancel, close and answer of peer.ts).
PeerInv == TypeOK /\ NothingLeft /\ OwnAnswers /\ WithdrawnNeverRuns

\* A handler is silenced only with its stream: while that lasts no other handler's end takes its entry away.
SilencedOnlyWithStream ==
    [][\A c \in Calls : handler[c] = "runs" /\ handler'[c] = "ends" => link # c[1]]_vars

\* A cancelled call ends, answered or not, also when it has no time limit.
CancelledEnds == \A c \in Calls : (call[c] = "sent" /\ c \notin heard) ~> (call[c] = "settled")

\* The handler of a call the caller has given up is told, or was done before.
GivenUpIsTold ==
    \A c \in Calls : (outcome[c] \in {"cancelled", "timeout", "closed"} /\ handler[c] = "runs")
                       ~> (c \in aborted \/ handler[c] # "runs")

\* A cancellation goes through on both sides: the call ends, and its handler is told.
CancellationArrives == CancelledEnds /\ GivenUpIsTold
=============================================================================
