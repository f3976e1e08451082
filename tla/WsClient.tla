------------------------------ MODULE WsClient ------------------------------
(***************************************************************************)
(* The client library (client/src/ws/index.ts): one application with one   *)
(* socket.  Requests and what comes back cross the socket in order; the    *)
(* server is what WsRpc shows of it, the set of topics this socket is      *)
(* subscribed to.                                                          *)
(*                                                                         *)
(* The socket may hand over several frames in one turn of the event loop   *)
(* (the ws package does so for frames that arrive in one packet, browsers  *)
(* do not); what awaits an answer continues when the turn is over.  The    *)
(* application may call at any time, also from a callback between two      *)
(* frames of a turn.                                                       *)
(***************************************************************************)
EXTENDS Naturals, Sequences, FiniteSets

CONSTANTS
  Subs,           \* what the application may subscribe: one listener each
  Name,           \* Name[s]: the transaction or address as the application writes it
  Normal,         \* Normal[n]: the same as the server writes it, Invalid if it is none
  FramesPerTurn,  \* how many frames the socket hands over in one turn
  MaxCalls,       \* bound on the requests
  MaxNews         \* bound on the events of the store

Invalid == "invalid"
Names == {Name[s] : s \in Subs}
TopicSet == {Normal[n] : n \in Names} \ {Invalid}
TopicOf(s) == Normal[Name[s]]
Ids == 1..MaxCalls

ASSUME WsClientAssumption ==
  /\ Names \subseteq DOMAIN Normal
  /\ FramesPerTurn \in Nat \ {0}
  /\ MaxCalls \in Nat
  /\ MaxNews \in Nat

VARIABLES
  socket,     \* "connecting", "open", "closed"
  idCursor,   \* the id of the last request
  pending,    \* pendingRequests: the call that awaits the answer of an id, or NoCall
  phase,      \* where each subscription is: "idle", "asking", "granted" (its answer is in,
              \* its listener not yet), "on", "leaving"
  listening,  \* the subscriptions with a listener at eventEmitter
  inTurn,     \* the frames handed over in the turn that runs
  toServer,   \* requests on their way
  toClient,   \* answers and notifications on their way
  server,     \* the topics the server has this socket subscribed to
  news,       \* the number of the last event of the store
  accepted,   \* the subscriptions whose subscribe the server has handled and that have not left
  owed,       \* owed[s]: the events of its topic since s was accepted
  heard       \* heard[s]: the events its callback was given since then

client == <<socket, idCursor, pending, phase, listening, inTurn>>
clientVars == <<socket, idCursor, pending, phase, listening, inTurn, toServer, toClient, server, news,
          accepted, owed, heard>>

NoCall == [sub |-> "none", method |-> "none"]

ClientInit ==
  /\ socket = "connecting"
  /\ idCursor = 0
  /\ pending = [i \in Ids |-> NoCall]
  /\ phase = [s \in Subs |-> "idle"]
  /\ listening = {}
  /\ inTurn = 0
  /\ toServer = <<>>
  /\ toClient = <<>>
  /\ server = {}
  /\ news = 0
  /\ accepted = {}
  /\ owed = [s \in Subs |-> <<>>]
  /\ heard = [s \in Subs |-> <<>>]

-----------------------------------------------------------------------------
(***************************************************************************)
(* The client.                                                             *)
(***************************************************************************)

(* connect: onopen resolves the promise with a client. *)
Connect ==
  /\ socket = "connecting"
  /\ socket' = "open"
  /\ UNCHANGED <<idCursor, pending, phase, listening, inTurn, toServer, toClient, server, news,
                 accepted, owed, heard>>

NextId == idCursor + 1

(* A request that is sent on a socket that has closed goes nowhere. *)
RpcCall(s, method) ==
  /\ idCursor < MaxCalls
  /\ idCursor' = idCursor + 1
  /\ pending' = [pending EXCEPT ![NextId] = [sub |-> s, method |-> method]]
  /\ toServer' = IF socket = "open"
                 THEN Append(toServer, [id |-> NextId, method |-> method, name |-> Name[s]])
                 ELSE toServer

SubscribeUpdates(s) ==
  /\ socket # "connecting"
  /\ phase[s] = "idle"
  /\ RpcCall(s, "subscribe")
  /\ phase' = [phase EXCEPT ![s] = "asking"]
  /\ owed' = [owed EXCEPT ![s] = <<>>]
  /\ heard' = [heard EXCEPT ![s] = <<>>]
  /\ UNCHANGED <<socket, listening, inTurn, toClient, server, news, accepted>>

UnsubscribeUpdates_LocalOnly(s) ==
  /\ phase[s] = "on"
  /\ listening' = listening \ {s}
  /\ accepted' = accepted \ {s}
  /\ phase' = [phase EXCEPT ![s] = "idle"]
  /\ UNCHANGED <<socket, idCursor, pending, inTurn, toServer, toClient, server, news, owed, heard>>

UnsubscribeUpdates_ListenerLater(s) ==
  /\ phase[s] = "on"
  /\ RpcCall(s, "unsubscribe")
  /\ accepted' = accepted \ {s}
  /\ phase' = [phase EXCEPT ![s] = "leaving"]
  /\ UNCHANGED <<socket, listening, inTurn, toClient, server, news, owed, heard>>

UnsubscribeUpdates(s) ==
  /\ phase[s] = "on"
  /\ listening' = listening \ {s}
  /\ RpcCall(s, "unsubscribe")
  /\ accepted' = accepted \ {s}
  /\ phase' = [phase EXCEPT ![s] = "leaving"]
  /\ UNCHANGED <<socket, inTurn, toClient, server, news, owed, heard>>

(* The listener compares with the name in the answer, not with the one asked for. *)
Matches(s, topic) == topic = TopicOf(s)

(* handleNotification: the callbacks whose listener matches. *)
Notify(f) ==
  /\ heard' = [s \in Subs |-> IF s \in listening /\ Matches(s, f.topic)
                              THEN Append(heard[s], f.news) ELSE heard[s]]
  /\ UNCHANGED <<pending, phase>>

Settles_SuccessOnly(f) == f.kind = "success"

Settles(f) == f.kind \in {"success", "error"}

(* The call that asked is resolved or rejected, if there is one. *)
Settle(f) ==
  LET call == pending[f.id]
  IN  /\ IF Settles(f) /\ call # NoCall
         THEN /\ pending' = [pending EXCEPT ![f.id] = NoCall]
              /\ phase' = [phase EXCEPT ![call.sub] =
                             IF f.kind = "success" /\ call.method = "subscribe" THEN "granted" ELSE "idle"]
         ELSE UNCHANGED <<pending, phase>>
      /\ UNCHANGED heard

(* The message handler, for the next frame of the turn. *)
HandleFrame ==
  /\ toClient # <<>>
  /\ inTurn < FramesPerTurn
  /\ inTurn' = inTurn + 1
  /\ toClient' = Tail(toClient)
  /\ LET f == Head(toClient) IN IF f.kind = "notification" THEN Notify(f) ELSE Settle(f)
  /\ UNCHANGED <<socket, idCursor, listening, toServer, server, news, accepted, owed>>

(* The turn is over, and the calls it resolved continue: each subscription
   installs its listener. *)
EndTurn ==
  /\ inTurn > 0
  /\ inTurn' = 0
  /\ LET began == {s \in Subs : phase[s] = "granted"}
     IN  /\ listening' = listening \cup began
         /\ phase' = [s \in Subs |-> IF s \in began THEN "on" ELSE phase[s]]
  /\ UNCHANGED <<socket, idCursor, pending, toServer, toClient, server, news, accepted, owed, heard>>

(* The connection is lost: the library has no handler for it. *)
Close ==
  /\ socket = "open"
  /\ socket' = "closed"
  /\ toServer' = <<>>
  /\ toClient' = <<>>
  /\ server' = {}
  /\ UNCHANGED <<idCursor, pending, phase, listening, inTurn, news, accepted, owed, heard>>

-----------------------------------------------------------------------------
(***************************************************************************)
(* The server.                                                             *)
(***************************************************************************)

Answer(req) ==
  IF Normal[req.name] = Invalid THEN [kind |-> "error", id |-> req.id]
                                ELSE [kind |-> "success", id |-> req.id]

(* handleClientMessage for the next request. *)
Serve ==
  /\ toServer # <<>>
  /\ LET req == Head(toServer)
         topics == {Normal[req.name]} \ {Invalid}
         caller == {s \in Subs : pending[req.id].sub = s}
     IN  /\ toServer' = Tail(toServer)
         /\ toClient' = Append(toClient, Answer(req))
         /\ IF req.method = "subscribe"
            THEN /\ server' = server \cup topics
                 /\ accepted' = IF topics = {} THEN accepted ELSE accepted \cup caller
            ELSE /\ server' = server \ topics
                 /\ UNCHANGED accepted
  /\ UNCHANGED <<client, news, owed, heard>>

(* The store has something to tell about topic p. *)
Happens(p) ==
  /\ news < MaxNews
  /\ news' = news + 1
  /\ owed' = [s \in Subs |-> IF s \in accepted /\ TopicOf(s) = p
                             THEN Append(owed[s], news + 1) ELSE owed[s]]
  /\ toClient' = IF p \in server
                 THEN Append(toClient, [kind |-> "notification", topic |-> p, news |-> news + 1])
                 ELSE toClient
  /\ UNCHANGED <<client, toServer, server, accepted, heard>>

ClientNext ==
  \/ Connect
  \/ \E s \in Subs : SubscribeUpdates(s) \/ UnsubscribeUpdates(s)
  \/ HandleFrame
  \/ EndTurn
  \/ Close
  \/ Serve
  \/ \E p \in TopicSet : Happens(p)

ClientSpec == ClientInit /\ [][ClientNext]_clientVars

(* The server answers what it has received, and the event loops of both sides run. *)
ClientFairSpec == ClientSpec /\ WF_clientVars(Serve) /\ WF_clientVars(HandleFrame) /\ WF_clientVars(EndTurn)

-----------------------------------------------------------------------------
Frame == [kind : {"success", "error"}, id : Ids]
           \cup [kind : {"notification"}, topic : TopicSet, news : 1..MaxNews]

ClientTypeOK ==
  /\ socket \in {"connecting", "open", "closed"}
  /\ idCursor \in 0..MaxCalls
  /\ pending \in [Ids -> [sub : Subs, method : {"subscribe", "unsubscribe"}] \cup {NoCall}]
  /\ phase \in [Subs -> {"idle", "asking", "granted", "on", "leaving"}]
  /\ listening = {s \in Subs : phase[s] = "on"}
  /\ inTurn \in 0..FramesPerTurn
  /\ toServer \in Seq([id : Ids, method : {"subscribe", "unsubscribe"}, name : Names])
  /\ toClient \in Seq(Frame)
  /\ server \subseteq TopicSet
  /\ news \in 0..MaxNews
  /\ accepted \subseteq Subs
  /\ owed \in [Subs -> Seq(1..MaxNews)]
  /\ heard \in [Subs -> Seq(1..MaxNews)]

(* While the socket is open each pending request is either on its way or has
   exactly one answer on its way, and nothing else carries its id: an answer
   settles the call that asked.  index.ts:66-78, 101-107. *)
OneAnswerPerRequest ==
  socket = "open" =>
    \A i \in Ids :
      LET asked == {n \in DOMAIN toServer : toServer[n].id = i}
          answered == {n \in DOMAIN toClient :
                         toClient[n].kind # "notification" /\ toClient[n].id = i}
      IN  Cardinality(asked) + Cardinality(answered) = IF pending[i] = NoCall THEN 0 ELSE 1

(* A callback is given no event twice or out of order, and none from before its
   subscription was accepted or after unsubscribe was called, whatever was on
   its way: the numbers of events only grow.  index.ts:109-127. *)
OnlyOwedIsHeard ==
  \A s \in Subs : LET h == heard[s] IN
    /\ \A k, l \in DOMAIN h : k < l => h[k] < h[l]
    /\ \A k \in DOMAIN h : \E l \in DOMAIN owed[s] : owed[s][l] = h[k]

(* A callback whose subscription is the only one of its topic misses nothing but
   what the socket handed over in the turn of the answer, before the listener was
   installed: all other events are heard or on their way.  index.ts:109-120. *)
Alone(s) == \A t \in Subs \ {s} : TopicOf(t) # TopicOf(s)

OnlyItsTurnIsMissed ==
  \A s \in Subs : (socket = "open" /\ phase[s] = "on" /\ Alone(s)) =>
    \E m \in 0..(FramesPerTurn - 1) : \A l \in (m + 1)..Len(owed[s]) :
      \/ \E k \in DOMAIN heard[s] : heard[s][k] = owed[s][l]
      \/ \E n \in DOMAIN toClient :
           toClient[n].kind = "notification" /\ toClient[n].news = owed[s][l]

(* All of them, the invariant of the client. *)
ClientInv == ClientTypeOK /\ OneAnswerPerRequest /\ OnlyOwedIsHeard /\ OnlyItsTurnIsMissed

Quiet == /\ socket = "open" /\ inTurn = 0
         /\ toServer = <<>> /\ toClient = <<>>
         /\ \A i \in Ids : pending[i] = NoCall

(* When nothing is under way the server sends nothing that nobody listens to,
   however many subscriptions to one topic came and went.  index.ts:121-126,
   ws-rpc.ts:163-217. *)
NoIdleSubscription == Quiet => server \subseteq {TopicOf(s) : s \in listening}

(* A request is settled, by its result or its error, unless the socket closes:
   then it is pending for ever.  index.ts:101-107. *)
RequestsSettle == \A i \in Ids : pending[i] # NoCall ~> (pending[i] = NoCall \/ socket = "closed")

=============================================================================
