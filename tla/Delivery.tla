------------------------------- MODULE Delivery ------------------------------
(***************************************************************************)
(* What a client ends up with: the bounded broadcast channel of the bus    *)
(* (realtime/lib.rs) and the delivery loop of ws::handle_socket, beside    *)
(* the message handlers that publish and the history the client reloads.   *)
(*                                                                         *)
(* A receiver of tokio's broadcast channel is a position in the stream of  *)
(* its device.  It starts at the tail, and when it is more than Capacity   *)
(* events behind, its next recv fails once (Lagged), moves it to the       *)
(* oldest event still held, and the loop goes on.  Receivers of a device   *)
(* are independent of one another, so one socket per listener is enough.   *)
(*                                                                         *)
(* The client is not part of the repository.  It forgets its view when it  *)
(* connects, merges what history replies list and events tell, and never   *)
(* shows a message again that it was told is deleted.                      *)
(***************************************************************************)
EXTENDS Messaging

CONSTANTS
  Listeners,    \* the devices whose sockets are followed
  Capacity,     \* InProcessBus.capacity; 256 in the server
  MaxConnects,  \* bound: connections in a behaviour
  MaxLoads      \* bound: history requests in a behaviour

ASSUME DeliveryAssumption ==
  /\ Listeners \subseteq Devices
  /\ Capacity \in Nat \ {0}
  /\ MaxConnects \in Nat
  /\ MaxLoads \in Nat

\* What a client shows of the messages, and a history reply: the texts of
\* the rows it lists, and whether it was read after the last loss of events.
Views == [MsgIds -> Texts \cup {Empty, None}]

Reply(c, current, rows) == [conv |-> c, current |-> current, rows |-> rows]

Replies == [conv : Convs, current : BOOLEAN, rows : Views]

\* The marks of a view are no texts.
ASSUME MarksAssumption ==
  /\ Empty \notin Texts
  /\ None \notin Texts \cup {Empty}
  /\ None \notin Replies

VARIABLES
  sock,     \* [Listeners -> "closed", "announcing" or "open"]
  next,     \* [Listeners -> the index in its stream its receiver reads next]
  view,     \* [Listeners -> [MsgIds -> the text shown, Empty: deleted, None]]
  reply,    \* [Listeners -> a history reply on its way to the client, or None]
  gaps,     \* [Listeners -> why this connection may have missed events]
  loaded,   \* [Listeners -> conversations loaded since the last such gap]
  raced,    \* messages edited while the event of another edit was on its way
  connects, loads

dvars == <<sock, next, view, reply, gaps, loaded, raced, connects, loads>>
allVars == <<vars, dvars>>

NoView == [m \in MsgIds |-> None]

DeliveryInit ==
  /\ Init
  /\ sock = [d \in Listeners |-> "closed"]
  /\ next = [d \in Listeners |-> 1]
  /\ view = [d \in Listeners |-> NoView]
  /\ reply = [d \in Listeners |-> None]
  /\ gaps = [d \in Listeners |-> {}]
  /\ loaded = [d \in Listeners |-> {}]
  /\ raced = {}
  /\ connects = 0
  /\ loads = 0

Pending(d) == next[d] <= Len(stream[d])
Lagging(d) == next[d] + Capacity <= Len(stream[d])

\* The connections of ds may have missed events.
Missed(ds, why) ==
  [d \in Listeners |-> IF d \in ds THEN gaps[d] \cup {why} ELSE gaps[d]]

\* A reply that is on its way when events are lost no longer brings the
\* client up to date.
Outdated(q) == IF q = None THEN None ELSE Reply(q.conv, FALSE, q.rows)

(***************************************************************************)
(* The socket                                                              *)
(***************************************************************************)
\* The upgrade is answered and the task announces its account; the client
\* starts from an empty view.
Upgrade(d) ==
  /\ sock[d] = "closed"
  /\ connects < MaxConnects
  /\ connects' = connects + 1
  /\ sock' = [sock EXCEPT ![d] = "announcing"]
  /\ UNCHANGED <<vars, next, view, reply, gaps, loaded, raced, loads>>

\* bus.subscribe: only what is published from now on is received, which is
\* not all there is about a message some handler is busy with.
Subscribe(d) ==
  /\ sock[d] = "announcing"
  /\ sock' = [sock EXCEPT ![d] = "open"]
  /\ next' = [next EXCEPT ![d] = Len(stream[d]) + 1]
  /\ gaps' = IF Busy # {} THEN Missed({d}, "early") ELSE gaps
  /\ UNCHANGED <<vars, view, reply, loaded, raced, connects, loads>>

\* What a client shows of message e.msg once it was told e.
Shown(old, e) ==
  CASE e.type = "message.deleted" -> Empty
    [] e.type = "message.edited" -> IF old = Empty THEN Empty ELSE e.text
    [] OTHER -> IF old = None THEN e.text ELSE old

\* Mutants: only new messages, or only changes of known ones, are forwarded.
ForwardNewOnly(old, e) == IF e.type = "message.new" THEN Shown(old, e) ELSE old

ForwardChangesOnly(old, e) == IF e.type = "message.new" THEN old ELSE Shown(old, e)

\* An event taken from the receiver is sent to the client, whatever its type.
Forward(old, e) == Shown(old, e)

\* rx.recv is Ok and the event is sent over the socket.
Deliver(d) ==
  /\ sock[d] = "open"
  /\ Pending(d) /\ ~Lagging(d)
  /\ LET e == stream[d][next[d]] IN
     view' = [view EXCEPT ![d][e.msg] = Forward(@, e)]
  /\ next' = [next EXCEPT ![d] = @ + 1]
  /\ UNCHANGED <<vars, sock, reply, gaps, loaded, raced, connects, loads>>

\* rx.recv is Err(Lagged): "keep going".
Lag(d) ==
  /\ sock[d] = "open"
  /\ Lagging(d)
  /\ next' = [next EXCEPT ![d] = Len(stream[d]) - Capacity + 1]
  /\ gaps' = Missed({d}, "lag")
  /\ loaded' = [loaded EXCEPT ![d] = {}]
  /\ reply' = [reply EXCEPT ![d] = Outdated(@)]
  /\ UNCHANGED <<vars, sock, view, raced, connects, loads>>

\* What is left of a connection: nothing, on either side.
Closed(ds) ==
  /\ sock' = [d \in Listeners |-> IF d \in ds THEN "closed" ELSE sock[d]]
  /\ next' = [d \in Listeners |-> IF d \in ds THEN 1 ELSE next[d]]
  /\ view' = [d \in Listeners |-> IF d \in ds THEN NoView ELSE view[d]]
  /\ reply' = [d \in Listeners |-> IF d \in ds THEN None ELSE reply[d]]
  /\ gaps' = [d \in Listeners |-> IF d \in ds THEN {} ELSE gaps[d]]
  /\ loaded' = [d \in Listeners |-> IF d \in ds THEN {} ELSE loaded[d]]

\* The client closes, or sending to it fails; noticed in the loop only.
Disconnect(d) ==
  /\ sock[d] = "open"
  /\ Closed({d})
  /\ UNCHANGED <<vars, raced, connects, loads>>

\* A new process: no sockets, no handlers, the tables as they are.
Restart ==
  /\ Failures
  /\ \E d \in Listeners : sock[d] # "closed"
  /\ Closed(Listeners)
  /\ req' = [r \in Reqs |-> None]
  /\ UNCHANGED <<db, stream, calls, raced, connects, loads>>

(***************************************************************************)
(* GET /v0/messages: the rows are read, and reach the client later         *)
(***************************************************************************)
\* Mutant: an exclusive upper bound on seq.
HistoryRowsBelow(c, a) ==
  {m \in Stored : /\ messages[m].conv = c
                  /\ messages[m].seq < last_seq[c]
                  /\ ~messages[m].deleted
                  /\ <<m, a>> \notin hidden}

HistoryRows(c, a) ==
  {m \in Stored : /\ messages[m].conv = c
                  /\ ~messages[m].deleted
                  /\ <<m, a>> \notin hidden}

\* The client may ask as soon as it is answered, before the subscription.
HistoryRead(d, c) ==
  /\ sock[d] # "closed"
  /\ reply[d] = None
  /\ loads < MaxLoads
  /\ Owner[d] \in Members[c]
  /\ loads' = loads + 1
  /\ reply' = [reply EXCEPT ![d] =
       Reply(c, sock[d] = "open",
             [m \in MsgIds |->
                IF m \in HistoryRows(c, Owner[d]) THEN messages[m].text ELSE None])]
  /\ gaps' = IF sock[d] = "open" THEN gaps ELSE Missed({d}, "early")
  /\ UNCHANGED <<vars, sock, next, view, loaded, raced, connects>>

HistoryMerge(d) ==
  LET q == reply[d] IN
  /\ q # None
  /\ view' = [view EXCEPT ![d] =
       [m \in MsgIds |-> IF @[m] = None THEN q.rows[m] ELSE @[m]]]
  /\ loaded' = IF q.current THEN [loaded EXCEPT ![d] = @ \cup {q.conv}] ELSE loaded
  /\ reply' = [reply EXCEPT ![d] = None]
  /\ UNCHANGED <<vars, sock, next, gaps, raced, connects, loads>>

(***************************************************************************)
(* The handlers of Messaging                                               *)
(***************************************************************************)
\* A client learns what became of its own call from the answer.
Handle(r) ==
  LET h == req[r]
      answered == {d \in Listeners : req'[r] = None /\ d = h.dev /\ sock[d] # "closed"} IN
  /\ Step(r)
  /\ view' = [d \in Listeners |->
       IF d \in answered
       THEN [view[d] EXCEPT ![h.env.msg] = Shown(@, h.env)] ELSE view[d]]
  /\ gaps' = Missed({d \in answered : sock[d] = "announcing"}, "early")
  /\ UNCHANGED <<sock, next, reply, loaded, raced, connects, loads>>

\* A fan-out that fails, or a handler that ends early, tells nobody.
HandleFails(r) ==
  /\ Fault(r)
  /\ gaps' = Missed({d \in Listeners : sock[d] # "closed"}, "fault")
  /\ loaded' = [d \in Listeners |-> {}]
  /\ reply' = [d \in Listeners |-> Outdated(reply[d])]
  /\ UNCHANGED <<sock, next, view, raced, connects, loads>>

\* Events about m are still to be published, or to be received by its editor.
Unsettled(m, d) ==
  \/ \E s \in Busy : req[s].env.msg = m /\ req[s].env.type = "message.edited"
  \/ d \in Listeners /\ Pending(d)

HandleCall(r, d) ==
  LET e == req'[r].env IN
  /\ Call(r, d)
  /\ raced' = IF e.type = "message.edited" /\ Unsettled(e.msg, d)
              THEN raced \cup {e.msg} ELSE raced
  /\ UNCHANGED <<sock, next, view, reply, gaps, loaded, connects, loads>>

Hide(d, m) == HideMessage(d, m) /\ UNCHANGED dvars

DeliveryNext ==
  \/ \E r \in Reqs : Handle(r) \/ HandleFails(r) \/ \E d \in Devices : HandleCall(r, d)
  \/ \E d \in Devices, m \in MsgIds : Hide(d, m)
  \/ \E d \in Listeners :
       \/ Upgrade(d) \/ Subscribe(d) \/ Deliver(d) \/ Lag(d) \/ Disconnect(d)
       \/ HistoryMerge(d) \/ \E c \in Convs : HistoryRead(d, c)
  \/ Restart

\* The executor keeps polling a handler that can go on, and a socket task
\* whose receiver has something to give.
DeliverySpec ==
  /\ DeliveryInit
  /\ [][DeliveryNext]_allVars
  /\ \A r \in Reqs : WF_allVars(Handle(r))
  /\ \A d \in Listeners : WF_allVars(Deliver(d) \/ Lag(d))

(***************************************************************************)
(* Properties                                                              *)
(***************************************************************************)
Visible(c, a) ==
  {m \in Stored : messages[m].conv = c /\ ~messages[m].deleted /\ <<m, a>> \notin hidden}

\* The client of d has been given everything there is for it by now.
Quiet(d) == Busy = {} /\ sock[d] = "open" /\ ~Pending(d) /\ reply[d] = None

(* A reload brings back every missing message.  The bus drops what is      *)
(* published before the subscription, what a lagging receiver skips and    *)
(* what a failed fan-out or an aborted send never published; a client that *)
(* loaded the history after the last of these, by a SELECT made after the  *)
(* subscription, has every visible message once nothing is on its way.     *)
(* Which text it shows is ViewIsCurrent's; a deletion that was lost is not *)
(* made good by a reply, which only lists what there is.                   *)
NothingIsMissing ==
  \A d \in Listeners : Quiet(d) =>
    \A c \in loaded[d] : \A m \in Visible(c, Owner[d]) : view[d][m] # None

(* What a client shows is true: on a connection that lost nothing, whose   *)
(* history was not read before the subscription, every message shows its   *)
(* stored text, and a deleted one is not shown, once nothing is on its     *)
(* way; except a message of which two edits overlapped, because events are *)
(* published outside of the UPDATE and in either order.                    *)
ViewIsCurrent ==
  \A d \in Listeners : Quiet(d) /\ gaps[d] = {} =>
    \A m \in MsgIds \ raced :
      view[d][m] # None => view[d][m] = messages[m].text

(* A message that is stored while a device listens reaches its client, or  *)
(* the connection ends, or the receiver was overrun: neither the fan-out   *)
(* nor the delivery loop loses its place or waits for another handler, and *)
(* the loop goes on after a lag.                                           *)
MessageReachesClients ==
  \A d \in Listeners, m \in MsgIds :
    (/\ sock[d] = "open" /\ m \in Stored
     /\ d \in Audience(m) \ {messages[m].device}
     /\ Told(d, "message.new", m) = {})
      ~> (view[d][m] # None \/ sock[d] # "open" \/ "lag" \in gaps[d])
==============================================================================
