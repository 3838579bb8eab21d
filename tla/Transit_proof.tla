---------------------------- MODULE Transit_proof ----------------------------
(***************************************************************************)
(* What is on its way to a client, for Delivery_proof.                     *)
(*                                                                         *)
(* NothingIsMissing and ViewIsCurrent speak of states in which nothing is  *)
(* on its way.  In between, what a view lacks or shows wrongly is still to *)
(* come (Coming): it waits in the receiver, a handler is due to publish it *)
(* to the device (Due, of Events_proof), or it is the answer to a call of  *)
(* the device's own.  The statements of the handlers on a row announce an  *)
(* event to every client that may see the message (Announces), and their   *)
(* other steps move it on (Moves).                                         *)
(***************************************************************************)
EXTENDS Delivery, Events_proof

\* An event of E is on the stream of d from place i on, or will be.
From(d, i, E) ==
  \/ \E k \in i..Len(stream[d]) : stream[d][k] \in E
  \/ \E r \in Busy : req[r].env \in E /\ Due(req[r], d)

\* A call of d itself is about to be answered by an event of E.
Own(d, E) == \E r \in Busy : req[r].env \in E /\ req[r].dev = d

Coming(d, E) == From(d, next[d], E) \/ Own(d, E)

\* The events about m; those that bring a view to text t, the new messages
\* and the edits that take it elsewhere.
EventsOf(m) == {e \in Envelope : e.msg = m}
Corrections(m, t) == {e \in EventsOf(m) : e.type # "message.new" /\ e.text = t}
StaleNews(m, t) == {e \in EventsOf(m) : e.type = "message.new" /\ e.text # t}
StaleEdits(m, t) == {e \in EventsOf(m) : e.type = "message.edited" /\ e.text # t}

(***************************************************************************)
(* The tables, handlers and streams                                        *)
(***************************************************************************)
\* Only deletions are without a text.
Worded(e) == e.type = "message.deleted" <=> e.text = Empty

Placed(h) == Orderly(h) /\ Worded(h.env) /\ Owner[h.dev] \in Members[h.env.conv]

Written(row) == /\ row.deleted <=> row.text = Empty
                /\ row.sender \in Members[row.conv]

SourceInv ==
  /\ EventInv
  /\ \A r \in Busy : Placed(req[r])
  /\ \A m \in Stored : Written(messages[m])
  /\ \A d \in Devices : \A i \in DOMAIN stream[d] : Worded(stream[d][i])

(***************************************************************************)
(* A device                                                                *)
(***************************************************************************)
Known(d, m) == m \in Stored /\ Owner[d] \in Members[messages[m].conv]

\* A view and a reply are of stored messages, of one's own conversations,
\* and say of no message that it is deleted when it is not.
Faithful(d) ==
  /\ \A m \in MsgIds : view[d][m] # None =>
       Known(d, m) /\ (view[d][m] = Empty => messages[m].deleted)
  /\ reply[d] # None =>
       \A m \in MsgIds : reply[d].rows[m] # None => Known(d, m) /\ reply[d].rows[m] # Empty

\* Before the subscription.
Beginning(d) ==
  /\ sock[d] # "open" => loaded[d] = {} /\ (reply[d] # None => ~reply[d].current)
  /\ sock[d] # "open" /\ gaps[d] = {} => view[d] = NoView /\ reply[d] = None
  /\ sock[d] = "closed" => gaps[d] = {}

\* A message the client has, or is about to have.
Has(d, m) == view[d][m] # None \/ Coming(d, EventsOf(m))

Complete(d) ==
  /\ \A c \in loaded[d] :
       Owner[d] \in Members[c] /\ \A m \in Visible(c, Owner[d]) : Has(d, m)
  /\ reply[d] # None /\ reply[d].current =>
       /\ Owner[d] \in Members[reply[d].conv]
       /\ \A m \in Visible(reply[d].conv, Owner[d]) : reply[d].rows[m] # None \/ Has(d, m)

\* The message is deleted, and the view shows that or is about to.
Buried(d, m, t) ==
  t = Empty /\ (view[d][m] = Empty \/ Coming(d, Corrections(m, t)))

\* The text of m is t, and the view will be corrected, or shows it, or shows
\* nothing and is not about to show anything else.
Settling(d, m, t) ==
  \/ Coming(d, Corrections(m, t))
  \/ view[d][m] = t
  \/ /\ view[d][m] = None
     /\ ~Coming(d, StaleNews(m, t))
     /\ reply[d] # None => reply[d].rows[m] \in {None, t}

\* An edit to another text that waits in the receiver is followed by a
\* correction, and one that is yet to be published comes too late to matter.
Followed(d, m, t) ==
  \A i \in next[d]..Len(stream[d]) : stream[d][i] \in StaleEdits(m, t) =>
    Buried(d, m, t) \/ From(d, i + 1, Corrections(m, t))

Harmless(d, m, t) ==
  \A r \in Busy :
    req[r].env \in StaleEdits(m, t) /\ (Due(req[r], d) \/ req[r].dev = d) =>
      Buried(d, m, t)

InStep(d, m, t) == Settling(d, m, t) /\ Followed(d, m, t) /\ Harmless(d, m, t)

Current(d) ==
  sock[d] = "open" /\ gaps[d] = {} =>
    \A m \in Stored \ raced : Known(d, m) => InStep(d, m, messages[m].text)

Client(d) ==
  /\ next[d] \in 1..(Len(stream[d]) + 1)
  /\ Beginning(d)
  /\ Faithful(d)
  /\ Complete(d)
  /\ Current(d)

ClientTypes ==
  /\ sock \in [Listeners -> {"closed", "announcing", "open"}]
  /\ next \in [Listeners -> Nat]
  /\ view \in [Listeners -> Views]
  /\ reply \in [Listeners -> Replies \cup {None}]
  /\ loaded \in [Listeners -> SUBSET Convs]

DeliveryInv ==
  /\ SourceInv
  /\ ClientTypes
  /\ \A d \in Listeners : Client(d)

(***************************************************************************)
(* What is to come, step by step                                           *)
(***************************************************************************)
\* Handler r publishes its event to the devices ds, and goes on or ends.
Moves(r, ds) ==
  /\ r \in Busy
  /\ req[r].pc # "insert"
  /\ \A s \in Reqs \ {r} : req'[s] = req[s]
  /\ \A x \in Devices :
       stream'[x] = IF x \in ds THEN Append(stream[x], req[r].env) ELSE stream[x]
  /\ \A x \in ds : Due(req[r], x)
  /\ IF req'[r] = None THEN \A x \in Devices \ ds : ~Due(req[r], x)
     ELSE /\ Placed(req'[r])
          /\ req'[r].env = req[r].env
          /\ req'[r].dev = req[r].dev
          /\ \A x \in Devices : Due(req'[r], x) <=> Due(req[r], x) /\ x \notin ds

\* A stream that has become longer.
LEMMA Longer ==
  ASSUME NEW s \in Seq(Envelope), NEW e \in Envelope
  PROVE  /\ Len(s) \in Nat /\ Len(Append(s, e)) = Len(s) + 1
         /\ DOMAIN s = 1..Len(s) /\ DOMAIN Append(s, e) = 1..(Len(s) + 1)
         /\ \A k \in 1..Len(s) : Append(s, e)[k] = s[k]
         /\ Append(s, e)[Len(s) + 1] = e
  OBVIOUS

\* A publication moves an event from the handler to the stream.
LEMMA MovesFrom ==
  ASSUME TypeOK, NEW r \in Reqs, NEW ds \in SUBSET Devices, Moves(r, ds),
         NEW d \in Devices, NEW i \in Nat, i \in 1..(Len(stream[d]) + 1), NEW E
  PROVE  From(d, i, E)' <=> From(d, i, E)
<1>1. PICK s, e, h : s = stream[d] /\ h = req[r] /\ e = h.env
  BY Zenon
<1>2. s \in Seq(Envelope) /\ h \in Handler /\ e \in Envelope /\ h # None
  <2>1. s \in Seq(Envelope) /\ h \in Handler /\ h # None
    BY <1>1, Zenon DEF TypeOK, Moves, Busy
  <2> QED
    BY <1>1, <2>1 DEF Handler
<1>3. \A x \in Reqs \ {r} : (x \in Busy' <=> x \in Busy) /\ req'[x] = req[x]
  BY Zenon DEF Moves, Busy
<1>4. CASE d \in ds
  <2>1. stream'[d] = Append(s, e) /\ Due(h, d)
    BY <1>1, <1>4, Zenon DEF Moves
  <2>2. (\E k \in i..Len(stream'[d]) : stream'[d][k] \in E) <=>
        (\E k \in i..Len(s) : s[k] \in E) \/ e \in E
    BY <1>1, <1>2, <2>1, Longer
  <2>3. req'[r] # None => ~Due(req'[r], d)
    BY <1>4, Zenon DEF Moves
  <2>4. (\E x \in Busy' : req'[x].env \in E /\ Due(req'[x], d)) <=>
        (\E x \in Busy \ {r} : req[x].env \in E /\ Due(req[x], d))
    BY <1>3, <2>3, Zenon DEF Busy
  <2>5. (\E x \in Busy : req[x].env \in E /\ Due(req[x], d)) <=>
        (\E x \in Busy \ {r} : req[x].env \in E /\ Due(req[x], d)) \/ e \in E
    BY <1>1, <2>1, Zenon DEF Moves
  <2> QED
    BY <1>1, <2>2, <2>4, <2>5, Zenon DEF From
<1>5. CASE d \notin ds
  <2>1. stream'[d] = stream[d]
    BY <1>5, Zenon DEF Moves
  <2>2. (r \in Busy' /\ req'[r].env \in E /\ Due(req'[r], d)) <=>
        (r \in Busy /\ req[r].env \in E /\ Due(req[r], d))
    BY <1>5, Zenon DEF Moves, Busy
  <2>3. (\E x \in Busy' : req'[x].env \in E /\ Due(req'[x], d)) <=>
        (\E x \in Busy : req[x].env \in E /\ Due(req[x], d))
    BY <1>3, <2>2, Zenon DEF Busy
  <2> QED
    BY <2>1, <2>3, Zenon DEF From
<1> QED
  BY <1>4, <1>5

\* A call is answered when its handler ends.
LEMMA MovesOwn ==
  ASSUME NEW r \in Reqs, NEW ds, Moves(r, ds), NEW d \in Devices, NEW E
  PROVE  /\ Own(d, E)' => Own(d, E)
         /\ Own(d, E) => \/ Own(d, E)'
                         \/ req'[r] = None /\ req[r].dev = d /\ req[r].env \in E
<1>1. ASSUME NEW x \in Busy', req'[x].env \in E, req'[x].dev = d
      PROVE  x \in Busy /\ req[x].env \in E /\ req[x].dev = d
  BY <1>1, Zenon DEF Moves, Busy
<1>2. ASSUME NEW x \in Busy, req[x].env \in E, req[x].dev = d, x # r \/ req'[r] # None
      PROVE  x \in Busy' /\ req'[x].env \in E /\ req'[x].dev = d
  BY <1>2, Zenon DEF Moves, Busy
<1> QED
  BY <1>1, <1>2, Zenon DEF Own

(***************************************************************************)
(* The steps of a handler                                                  *)
(***************************************************************************)
\* An event with the same words, for the same device.
LEMMA StaysPlaced ==
  ASSUME NEW h, NEW g, Placed(h), Orderly(g), g.env = h.env, g.dev = h.dev
  PROVE  Placed(g)
  BY Zenon DEF Placed

LEMMA PreparesMoves ==
  ASSUME SourceInv, NEW r \in Reqs, Prepares(r)
  PROVE  Moves(r, {}) /\ UNCHANGED <<messages, hidden>>
<1>1. EventInv /\ (r \in Busy => Placed(req[r]) /\ Orderly(req[r]))
  BY Zenon DEF SourceInv, Placed
<1>2. /\ r \in Busy
      /\ UNCHANGED <<messages, hidden, stream>>
      /\ \A s \in Reqs \ {r} : req'[s] = req[s]
      /\ req'[r] # None => Orderly(req'[r])
      /\ Follows(req[r], req'[r])
  BY <1>1, PreparesFollow, Zenon
<1>3. PICK h, g : h = req[r] /\ g = req'[r]
  BY Zenon
<1>4. h.pc # "insert"
  <2>1. h.pc \in {"index", "unindex", "members", "fanout"}
    BY <1>3, Zenon DEF Prepares, RecordMedia, UnindexMedia, ListMembers, ListDevices, At
  <2> QED
    BY <2>1
<1>5. IF g = None THEN \A x \in Devices : ~Due(h, x)
      ELSE /\ Placed(g) /\ g.env = h.env /\ g.dev = h.dev
           /\ \A x \in Devices : Due(g, x) <=> Due(h, x)
  BY <1>1, <1>2, <1>3, StaysPlaced, Zenon DEF Follows
<1> QED
  BY <1>2, <1>3, <1>4, <1>5 DEF Moves

LEMMA PublishMovesOn ==
  ASSUME SourceInv, NEW r \in Reqs, NEW d \in Devices, Publish(r, d)
  PROVE  Moves(r, {d}) /\ UNCHANGED <<messages, hidden>>
<1>0. TypeOK
  BY Zenon DEF SourceInv, EventInv
<1>1. PICK h, g : h = req[r] /\ g = req'[r]
  BY Zenon
<1>2. r \in Busy /\ UNCHANGED <<messages, hidden>> /\ h.pc = "fanout"
  BY <1>1, Zenon DEF Publish, At, Busy, db
<1>3. Placed(h) /\ Orderly(h) /\ h \in Handler
  BY <1>0, <1>1, <1>2, Zenon DEF SourceInv, Placed, TypeOK, Busy
<1>4. /\ \A s \in Reqs \ {r} : req'[s] = req[s]
      /\ g # None => Orderly(g)
      /\ Due(h, d)
      /\ stream' = [stream EXCEPT ![d] = Append(stream[d], h.env)]
      /\ IF g = None THEN \A x \in Devices \ {d} : ~Due(h, x)
         ELSE /\ g.env = h.env /\ g.dev = h.dev /\ ~Due(g, d)
              /\ \A x \in Devices \ {d} : Due(g, x) <=> Due(h, x)
  BY <1>0, <1>1, <1>3, PublishMoves, Zenon
<1>5. g # None => Placed(g)
  BY <1>3, <1>4, StaysPlaced, Zenon
<1>6. \A x \in Devices :
        stream'[x] = IF x \in {d} THEN Append(stream[x], h.env) ELSE stream[x]
  BY <1>0, <1>4 DEF TypeOK
<1> QED
  BY <1>1, <1>2, <1>4, <1>5, <1>6, Zenon DEF Moves

\* A failure changes no table and no stream, and no event.
LEMMA FaultStops ==
  ASSUME SourceInv, NEW r \in Reqs, Fault(r)
  PROVE  /\ UNCHANGED <<messages, hidden, stream>>
         /\ \A s \in Reqs \ {r} : req'[s] = req[s]
         /\ req'[r] # None => Placed(req'[r])
<1>0. TypeOK
  BY Zenon DEF SourceInv, EventInv
<1>1. UNCHANGED <<messages, hidden, stream>>
  BY Zenon DEF Fault, ListMembersFails, ListDevicesFails, Abort, db
<1>2. CASE ListMembersFails(r) \/ Abort(r)
  <2>1. req' = [req EXCEPT ![r] = None]
    BY <1>2, Zenon DEF ListMembersFails, Abort, Done, Goto
  <2>2. req'[r] = None /\ \A s \in Reqs \ {r} : req'[s] = req[s]
    BY <1>0, <2>1 DEF TypeOK
  <2> QED
    BY <1>1, <2>2, Zenon
<1>3. CASE ListDevicesFails(r)
  <2>1. PICK h, g, todo : h = req[r] /\ g = req'[r] /\ todo = Tail(h.todo)
    BY Zenon
  <2>2. r \in Busy /\ h.pc = "fanout" /\ h.todo # <<>> /\ Continue(r, todo, {})
    BY <1>3, <2>1, Zenon DEF ListDevicesFails, At, Busy
  <2>3. Placed(h) /\ Orderly(h) /\ h \in Handler
    BY <1>0, <2>1, <2>2, Zenon DEF SourceInv, Placed, TypeOK, Busy
  <2>4. IsQueue(todo, Members[h.env.conv]) /\ todo \in Seq(Accounts) /\ h.pc # "insert"
    <3>1. IsQueue(h.todo, Members[h.env.conv]) /\ h.todo \in Seq(Accounts)
      BY <2>2, <2>3 DEF Orderly, Handler
    <3> QED
      BY <2>1, <2>2, <3>1, QueueEnds, HeadAndTail
  <2>5. PICK out : out = {}
    BY Zenon
  <2>6. /\ out \subseteq Devices
        /\ \A d \in out : /\ d # h.dev
                         /\ Owner[d] \in Members[h.env.conv]
                         /\ Owner[d] \notin Listed(todo)
    BY <2>5
  <2>7. Continue(r, todo, out) /\ h.pc # "insert"
    BY <2>2, <2>4, <2>5, Zenon
  <2>8. (\A s \in Reqs \ {r} : req'[s] = req[s]) /\ Onward(h, g, todo, out)
    BY <1>0, <2>1, <2>3, <2>4, <2>6, <2>7, ContinueMoves, Zenon
  <2>9. g # None => Placed(g)
    BY <2>3, <2>8, StaysPlaced DEF Onward
  <2> QED
    BY <1>1, <2>1, <2>8, <2>9, Zenon
<1> QED
  BY <1>2, <1>3, Zenon DEF Fault

\* Handler r has made its statement on the row of m, and all other devices
\* of the conversation are to be told.
Announces(r, m) ==
  /\ \A s \in Reqs \ {r} : req'[s] = req[s]
  /\ UNCHANGED <<stream, hidden>>
  /\ \A k \in MsgIds \ {m} : messages'[k] = messages[k]
  /\ m \in Stored'
  /\ Written(messages'[m])
  /\ req[r] # None => req[r].env.msg = None
  /\ req'[r] # None
  /\ Placed(req'[r])
  /\ req'[r].env \in EventsOf(m)
  /\ req'[r].env.conv = messages'[m].conv
  /\ req'[r].env.text = messages'[m].text
  /\ \A x \in Devices :
       Due(req'[r], x) <=> x # req'[r].dev /\ Owner[x] \in Members[messages'[m].conv]

LEMMA InsertAnnounces ==
  ASSUME SourceInv, NEW r \in Reqs, NEW m \in MsgIds, InsertMessage(r, m)
  PROVE  Announces(r, m) /\ m \notin Stored /\ req'[r].env.type = "message.new"
<1>0. TypeOK
  BY Zenon DEF SourceInv, EventInv
<1>1. PICK h, e, d, n : h = req[r] /\ e = h.env /\ d = h.dev /\ n = h.atts
  BY Zenon
<1>2. r \in Busy /\ h.pc = "insert" /\ h # None
  BY <1>1, Zenon DEF InsertMessage, At, Busy
<1>3. Truthful(h) /\ Placed(h) /\ h \in Handler
  BY <1>0, <1>1, <1>2, Zenon DEF SourceInv, EventInv, TypeOK, Busy
<1>4. /\ e \in Envelope /\ d \in Devices /\ n \in Nat /\ e.msg = None
      /\ e.type = "message.new" /\ e.text # Empty /\ Owner[d] \in Members[e.conv]
  BY <1>1, <1>2, <1>3 DEF Truthful, Placed, Orderly, Worded, Handler
<1> DEFINE x == Named(e, m)
           row == [conv |-> e.conv, seq |-> e.seq, sender |-> Owner[d], device |-> d,
                   text |-> e.text, edited |-> FALSE, deleted |-> FALSE]
<1>5. /\ x \in Envelope /\ x.msg = m /\ x.conv = e.conv /\ x.type = "message.new"
      /\ x.text = e.text
  BY <1>4 DEF Named, Event, Envelope
<1>6. row \in Row /\ row.conv = e.conv /\ row.text = e.text /\ Written(row)
  BY <1>4, OwnerAssumption DEF Row, Envelope, Written
<1>7. /\ Proceed(r, d, x, n) /\ UNCHANGED <<stream, hidden>>
      /\ messages[m] = None /\ messages' = [messages EXCEPT ![m] = row]
  BY <1>1, Zenon DEF InsertMessage
<1>8. Worded(x) /\ x \in EventsOf(m)
  BY <1>4, <1>5 DEF Worded, EventsOf
<1> HIDE DEF x, row
<1>9. /\ \A s \in Reqs \ {r} : req'[s] = req[s]
      /\ req'[r] # None /\ Orderly(req'[r])
      /\ req'[r].env = x /\ req'[r].dev = d
      /\ \A y \in Devices : Due(req'[r], y) <=> y # d /\ Owner[y] \in Members[x.conv]
  BY <1>0, <1>4, <1>5, <1>7, ProceedMoves
<1>10. /\ messages'[m] = row /\ m \notin Stored /\ m \in Stored'
       /\ \A k \in MsgIds \ {m} : messages'[k] = messages[k]
  BY <1>0, <1>6, <1>7, NoneAssumption DEF TypeOK, Stored
<1>11. Placed(req'[r])
  BY <1>4, <1>5, <1>8, <1>9, Zenon DEF Placed
<1>12. Announces(r, m)
  BY <1>1, <1>4, <1>5, <1>6, <1>7, <1>8, <1>9, <1>10, <1>11, Zenon DEF Announces
<1> QED
  BY <1>5, <1>9, <1>10, <1>12, Zenon

\* An UPDATE of the row of m by a call, which device d made.
LEMMA UpdateAnnounces ==
  ASSUME SourceInv, NEW r \in Reqs, NEW d \in Devices, NEW m \in Stored,
         NEW e \in EventsOf(m), NEW row \in Row, NEW stage \in {"members", "unindex"},
         Worded(e), Written(row), e.conv = row.conv, e.text = row.text,
         Owner[d] \in Members[row.conv],
         messages' = [messages EXCEPT ![m] = row],
         Start(r, Running(stage, d, e, 0, <<>>, {})),
         UNCHANGED <<stream, hidden>>
  PROVE  /\ Announces(r, m)
         /\ req[r] = None /\ req'[r].env = e /\ req'[r].dev = d
         /\ messages'[m] = row
<1>0. TypeOK
  BY Zenon DEF SourceInv, EventInv
<1> DEFINE g == Running(stage, d, e, 0, <<>>, {})
<1>1. g.pc = stage /\ g.dev = d /\ g.env = e
  BY Zenon DEF Running
<1>2. g \in Handler
  BY DEF Running, Handler, Stages, EventsOf, Stored
<1>3. req[r] = None /\ req' = [req EXCEPT ![r] = g]
  BY Zenon DEF Start
<1> HIDE DEF g
<1>4. req'[r] = g /\ g # None /\ \A s \in Reqs \ {r} : req'[s] = req[s]
  BY <1>0, <1>2, <1>3, NoneAssumption DEF TypeOK
<1>5. Placed(g)
  BY <1>1 DEF Placed, Orderly
<1>6. \A x \in Devices : Due(g, x) <=> x # d /\ Owner[x] \in Members[row.conv]
  BY <1>1 DEF Due
<1>7. /\ messages'[m] = row /\ m \in Stored'
      /\ \A k \in MsgIds \ {m} : messages'[k] = messages[k]
  BY <1>0, NoneAssumption DEF TypeOK, Stored
<1>8. Announces(r, m)
  BY <1>1, <1>3, <1>4, <1>5, <1>6, <1>7, Zenon DEF Announces
<1> QED
  BY <1>1, <1>3, <1>4, <1>7, <1>8, Zenon

LEMMA EditAnnounces ==
  ASSUME SourceInv, NEW r \in Reqs, NEW d \in Devices, NEW m \in MsgIds, NEW t \in Texts,
         EditMessage(r, d, m, t)
  PROVE  /\ Announces(r, m) /\ m \in Stored
         /\ req[r] = None /\ req'[r].env.type = "message.edited" /\ req'[r].dev = d
         /\ messages'[m].conv = messages[m].conv /\ ~messages[m].deleted
<1>1. PICK old : old = messages[m]
  BY Zenon
<1> DEFINE e == Event("message.edited", old.conv, m, 0, t)
           row == Rewritten(old, t, TRUE, FALSE)
<1>2. /\ m \in Stored /\ old.sender = Owner[d] /\ ~old.deleted
      /\ UNCHANGED <<stream, hidden>>
      /\ messages' = [messages EXCEPT ![m] = row]
      /\ Start(r, Running("members", d, e, 0, <<>>, {}))
  BY <1>1, Zenon DEF EditMessage, Editable, Edited, Stored
<1>3. old \in Row /\ Written(old)
  BY <1>1, <1>2, Zenon DEF SourceInv, EventInv, TypeOK, Stored
<1>4. row \in Row
  BY <1>3 DEF Rewritten, Row
<1>5. /\ row.conv = old.conv /\ row.text = t /\ row.sender = old.sender /\ ~row.deleted
  BY Zenon DEF Rewritten
<1>6. e \in EventsOf(m) /\ e.type = "message.edited" /\ e.conv = old.conv /\ e.text = t
  BY <1>2, <1>3, Zenon DEF Event, EventsOf, Envelope, Row, Stored
<1> HIDE DEF e, row
<1>7. /\ Worded(e) /\ Written(row) /\ Owner[d] \in Members[row.conv]
      /\ e.conv = row.conv /\ e.text = row.text /\ "members" \in {"members", "unindex"}
  BY <1>2, <1>3, <1>5, <1>6, MarksAssumption DEF Worded, Written
<1>8. /\ Announces(r, m)
      /\ req[r] = None /\ req'[r].env = e /\ req'[r].dev = d
      /\ messages'[m] = row
  BY <1>2, <1>4, <1>6, <1>7, UpdateAnnounces, Zenon
<1> QED
  BY <1>1, <1>2, <1>5, <1>6, <1>8, Zenon

LEMMA DeleteAnnounces ==
  ASSUME SourceInv, NEW r \in Reqs, NEW d \in Devices, NEW m \in MsgIds,
         DeleteMessage(r, d, m)
  PROVE  /\ Announces(r, m) /\ m \in Stored
         /\ req[r] = None /\ req'[r].env.type = "message.deleted" /\ req'[r].dev = d
         /\ messages'[m].conv = messages[m].conv /\ messages'[m].text = Empty
<1>1. PICK old : old = messages[m]
  BY Zenon
<1> DEFINE e == Event("message.deleted", old.conv, m, 0, Empty)
           row == Rewritten(old, Empty, old.edited, TRUE)
<1>2. /\ m \in Stored /\ Owner[d] \in Members[old.conv] /\ UNCHANGED <<stream, hidden>>
      /\ messages' = [messages EXCEPT ![m] = row]
      /\ Start(r, Running("unindex", d, e, 0, <<>>, {}))
  BY <1>1, Zenon DEF DeleteMessage, Tombstone, Stored
<1>3. old \in Row /\ Written(old)
  BY <1>1, <1>2, Zenon DEF SourceInv, EventInv, TypeOK, Stored
<1>4. row \in Row
  BY <1>3 DEF Rewritten, Row
<1>5. /\ row.conv = old.conv /\ row.text = Empty /\ row.sender = old.sender /\ row.deleted
  BY Zenon DEF Rewritten
<1>6. e \in EventsOf(m) /\ e.type = "message.deleted" /\ e.conv = old.conv /\ e.text = Empty
  BY <1>2, <1>3 DEF Event, EventsOf, Envelope, Row, Stored
<1> HIDE DEF e, row
<1>7. /\ Worded(e) /\ Written(row) /\ Owner[d] \in Members[row.conv]
      /\ e.conv = row.conv /\ e.text = row.text /\ "unindex" \in {"members", "unindex"}
  BY <1>2, <1>3, <1>5, <1>6, Zenon DEF Worded, Written
<1>8. /\ Announces(r, m)
      /\ req[r] = None /\ req'[r].env = e /\ req'[r].dev = d
      /\ messages'[m] = row
  BY <1>2, <1>4, <1>6, <1>7, UpdateAnnounces, Zenon
<1> QED
  BY <1>1, <1>2, <1>5, <1>6, <1>8, Zenon

LEMMA SourceFrame ==
  ASSUME SourceInv, EventInv', NEW r \in Reqs,
         \A s \in Reqs \ {r} : req'[s] = req[s],
         req'[r] # None => Placed(req'[r]),
         \A m \in Stored' : Written(messages'[m]),
         \A d \in Devices : \A i \in DOMAIN stream'[d] : Worded(stream'[d][i])
  PROVE  SourceInv'
<1>1. \A s \in Busy' : Placed(req'[s])
  BY Zenon DEF SourceInv, Busy
<1> QED
  BY <1>1, Zenon DEF SourceInv

LEMMA MovesKeepSource ==
  ASSUME SourceInv, EventInv', NEW r \in Reqs, NEW ds \in SUBSET Devices, Moves(r, ds),
         UNCHANGED messages
  PROVE  SourceInv'
<1>1. \A m \in Stored' : Written(messages'[m])
  BY Zenon DEF SourceInv, Stored
<1>2. PICK e : e = req[r].env
  BY Zenon
<1>3. Worded(e) /\ e \in Envelope
  <2>1. Placed(req[r]) /\ req[r] \in Handler
    BY Zenon DEF SourceInv, EventInv, TypeOK, Moves, Busy
  <2> QED
    BY <1>2, <2>1 DEF Placed, Handler
<1>4. ASSUME NEW d \in Devices, NEW i \in DOMAIN stream'[d] PROVE Worded(stream'[d][i])
  <2>1. PICK s \in Seq(Envelope) : s = stream[d]
    BY Zenon DEF SourceInv, EventInv, TypeOK
  <2>2. \A k \in DOMAIN s : Worded(s[k])
    BY <2>1, Zenon DEF SourceInv
  <2>3. CASE d \in ds
    <3>1. stream'[d] = Append(s, e)
      BY <1>2, <2>1, <2>3, Zenon DEF Moves
    <3>2. i \in DOMAIN s \/ i = Len(s) + 1
      BY <1>3, <1>4, <3>1, Longer
    <3>3. CASE i \in DOMAIN s
      BY <1>3, <2>2, <3>1, <3>3, Longer
    <3>4. CASE i = Len(s) + 1
      BY <1>3, <3>1, <3>4, Longer
    <3> QED
      BY <3>2, <3>3, <3>4
  <2>4. CASE d \notin ds
    BY <1>4, <2>1, <2>2, <2>4, Zenon DEF Moves
  <2> QED
    BY <2>3, <2>4
<1>5. req'[r] # None => Placed(req'[r])
  BY Zenon DEF Moves
<1>6. \A s \in Reqs \ {r} : req'[s] = req[s]
  BY Zenon DEF Moves
<1> QED
  BY <1>1, <1>4, <1>5, <1>6, SourceFrame, Zenon

LEMMA AnnouncesKeepSource ==
  ASSUME SourceInv, EventInv', NEW r \in Reqs, NEW m \in MsgIds, Announces(r, m)
  PROVE  SourceInv'
<1>1. \A k \in Stored' : Written(messages'[k])
  BY Zenon DEF SourceInv, Stored, Announces
<1>2. \A d \in Devices : \A i \in DOMAIN stream'[d] : Worded(stream'[d][i])
  BY Zenon DEF SourceInv, Announces
<1>3. Placed(req'[r]) /\ \A s \in Reqs \ {r} : req'[s] = req[s]
  BY Zenon DEF Announces
<1> QED
  BY <1>1, <1>2, <1>3, SourceFrame, Zenon

\* A send has taken a seq; nothing is said of any message.
LEMMA SendBegins ==
  ASSUME SourceInv, NEW r \in Reqs, NEW d \in Devices, NEW c \in Convs,
         NEW t \in Texts, NEW n \in 0..MaxAtts, SendMessage(r, d, c, t, n)
  PROVE  /\ UNCHANGED <<messages, hidden, stream>>
         /\ \A s \in Reqs \ {r} : req'[s] = req[s]
         /\ req[r] = None /\ req'[r] # None /\ Placed(req'[r])
         /\ req'[r].env.msg = None /\ req'[r].env.type = "message.new"
<1>0. TypeOK
  BY Zenon DEF SourceInv, EventInv
<1>1. PICK k : k = NextSeq(c)
  BY Zenon
<1> DEFINE g == Running("insert", d, Event("message.new", c, None, k, t), n, <<>>, {})
<1>2. /\ UNCHANGED <<messages, hidden, stream>> /\ Owner[d] \in Members[c]
      /\ req[r] = None /\ req' = [req EXCEPT ![r] = g]
  BY <1>1, Zenon DEF SendMessage, Start
<1>3. k \in Nat /\ n \in Nat
  BY <1>0, <1>1, BoundsAssumption DEF NextSeq, TypeOK
<1>4. g \in Handler
  BY <1>3 DEF Running, Event, Handler, Stages, Envelope
<1>5. /\ g.pc = "insert" /\ g.dev = d /\ g.env.msg = None /\ g.env.conv = c
      /\ g.env.type = "message.new" /\ g.env.text = t
  BY DEF Running, Event
<1> HIDE DEF g
<1>6. Placed(g)
  BY <1>2, <1>5, MarksAssumption DEF Placed, Orderly, Worded
<1>7. req'[r] = g /\ g # None /\ \A s \in Reqs \ {r} : req'[s] = req[s]
  BY <1>0, <1>2, <1>4, NoneAssumption DEF TypeOK
<1> QED
  BY <1>2, <1>5, <1>6, <1>7, Zenon

\* The messages and the streams stay as they are.
LEMMA StillKeepsSource ==
  ASSUME SourceInv, EventInv', UNCHANGED <<messages, stream>>,
         \A s \in Reqs : req'[s] # None => Placed(req'[s])
  PROVE  SourceInv'
<1>1. (\A m \in Stored' : Written(messages'[m])) /\ \A s \in Busy' : Placed(req'[s])
  BY Zenon DEF SourceInv, Stored, Busy
<1>2. \A d \in Devices : \A i \in DOMAIN stream'[d] : Worded(stream'[d][i])
  BY Zenon DEF SourceInv
<1> QED
  BY <1>1, <1>2, Zenon DEF SourceInv

LEMMA StepSource == SourceInv /\ [Next]_vars => SourceInv'
<1> SUFFICES ASSUME SourceInv, [Next]_vars PROVE SourceInv'
  OBVIOUS
<1>0. EventInv'
  BY StepEvents, Zenon DEF SourceInv
<1>1. \A s \in Reqs : req[s] # None => Placed(req[s])
  BY Zenon DEF SourceInv, Busy
<1>2. ASSUME NEW r \in Reqs, Step(r) PROVE SourceInv'
  <2>1. ASSUME NEW m \in MsgIds, InsertMessage(r, m) PROVE SourceInv'
    BY <1>0, <2>1, InsertAnnounces, AnnouncesKeepSource, Zenon
  <2>2. CASE Prepares(r)
    BY <1>0, <2>2, PreparesMoves, MovesKeepSource
  <2>3. ASSUME NEW d \in Devices, Publish(r, d) PROVE SourceInv'
    BY <1>0, <2>3, PublishMovesOn, MovesKeepSource, Zenon
  <2> QED
    BY <1>2, <2>1, <2>2, <2>3, Zenon DEF Step, Prepares
<1>3. ASSUME NEW r \in Reqs, Fault(r) PROVE SourceInv'
  BY <1>0, <1>1, <1>3, FaultStops, StillKeepsSource
<1>4. ASSUME NEW r \in Reqs, NEW d \in Devices, Call(r, d) PROVE SourceInv'
  <2>1. ASSUME NEW c \in Convs, NEW t \in Texts, NEW n \in 0..MaxAtts,
               SendMessage(r, d, c, t, n)
        PROVE  SourceInv'
    BY <1>0, <1>1, <2>1, SendBegins, StillKeepsSource
  <2>2. ASSUME NEW m \in MsgIds, NEW t \in Texts, EditMessage(r, d, m, t) PROVE SourceInv'
    BY <1>0, <2>2, EditAnnounces, AnnouncesKeepSource, Zenon
  <2>3. ASSUME NEW m \in MsgIds, DeleteMessage(r, d, m) PROVE SourceInv'
    BY <1>0, <2>3, DeleteAnnounces, AnnouncesKeepSource, Zenon
  <2> QED
    BY <1>4, <2>1, <2>2, <2>3, Zenon DEF Call
<1>5. ASSUME UNCHANGED <<messages, stream, req>> PROVE SourceInv'
  BY <1>0, <1>1, <1>5, StillKeepsSource, Zenon
<1> QED
  BY <1>2, <1>3, <1>4, <1>5, Zenon DEF Next, HideMessage, vars, db

(***************************************************************************)
(* Steps that leave a client as it is                                      *)
(***************************************************************************)
\* The connection of d is left alone.
Same(d) ==
  /\ sock'[d] = sock[d] /\ next'[d] = next[d] /\ gaps'[d] = gaps[d]
  /\ view'[d] = view[d] /\ reply'[d] = reply[d] /\ loaded'[d] = loaded[d]

\* Nothing happens to the events of E, as far as d is concerned.
Unmoved(d, E) ==
  /\ \A i : From(d, i, E)' <=> From(d, i, E)
  /\ Own(d, E)' <=> Own(d, E)
  /\ \A s \in Busy' : req'[s].env \in E => s \in Busy /\ req'[s] = req[s]

\* Handler r goes on, and is not about E.
LEMMA ElsewhereUnmoved ==
  ASSUME UNCHANGED stream, NEW r \in Reqs, \A s \in Reqs \ {r} : req'[s] = req[s],
         NEW d, NEW E,
         req[r] # None => req[r].env \notin E, req'[r] # None => req'[r].env \notin E
  PROVE  Unmoved(d, E)
<1>1. \A s \in Busy' : req'[s].env \in E => s \in Busy /\ req'[s] = req[s]
  BY Zenon DEF Busy
<1>2. \A s \in Busy : req[s].env \in E => s \in Busy' /\ req'[s] = req[s]
  BY Zenon DEF Busy
<1>3. (\E s \in Busy' : req'[s].env \in E /\ Due(req'[s], d)) <=>
      (\E s \in Busy : req[s].env \in E /\ Due(req[s], d))
  BY <1>1, <1>2, Zenon
<1>4. \A i : From(d, i, E)' <=> From(d, i, E)
  BY <1>3, Zenon DEF From
<1>5. Own(d, E)' <=> Own(d, E)
  BY <1>1, <1>2, Zenon DEF Own
<1> QED
  BY <1>1, <1>4, <1>5, Zenon DEF Unmoved

LEMMA IdleUnmoved ==
  ASSUME UNCHANGED <<stream, req>>, NEW d, NEW E
  PROVE  Unmoved(d, E)
  BY Zenon DEF Unmoved, From, Own, Busy

LEMMA UnmovedComing ==
  ASSUME NEW d, NEW E, Unmoved(d, E), next'[d] = next[d]
  PROVE  Coming(d, E)' <=> Coming(d, E)
<1>1. PICK n : n = next[d]
  BY Zenon
<1>2. From(d, n, E)' <=> From(d, n, E)
  BY Zenon DEF Unmoved
<1> QED
  BY <1>1, <1>2, Zenon DEF Coming, Unmoved

\* What the view shows and is about to show of m stays the same.
LEMMA StaysInStep ==
  ASSUME NEW d \in Listeners, NEW m, NEW t,
         Same(d), stream'[d] = stream[d],
         Unmoved(d, Corrections(m, t)), Unmoved(d, StaleNews(m, t)),
         Unmoved(d, StaleEdits(m, t)), InStep(d, m, t)
  PROVE  InStep(d, m, t)'
<1>1. PICK C, N, S : C = Corrections(m, t) /\ N = StaleNews(m, t) /\ S = StaleEdits(m, t)
  BY Zenon
<1>2. /\ Corrections(m, t)' = C /\ StaleNews(m, t)' = N /\ StaleEdits(m, t)' = S
  BY <1>1, Zenon DEF Corrections, StaleNews, StaleEdits, EventsOf
<1>3. (Coming(d, C)' <=> Coming(d, C)) /\ (Coming(d, N)' <=> Coming(d, N))
  BY <1>1, UnmovedComing, Zenon DEF Same
<1>4. Buried(d, m, t)' <=> Buried(d, m, t)
  BY <1>1, <1>3, Zenon DEF Buried, Same
<1>5. Settling(d, m, t)'
  BY <1>1, <1>3, Zenon DEF Settling, Same, InStep
<1>6. \A i : From(d, i, C)' <=> From(d, i, C)
  BY <1>1, Zenon DEF Unmoved
<1>7. Followed(d, m, t)'
  <2>1. PICK n : n = next[d] /\ n = next'[d]
    BY Zenon DEF Same
  <2>2. \A i \in n..Len(stream[d]) : stream[d][i] \in S =>
          Buried(d, m, t) \/ From(d, i + 1, C)
    BY <1>1, <2>1, Zenon DEF InStep, Followed
  <2>3. \A i \in n..Len(stream'[d]) : stream'[d][i] \in S =>
          Buried(d, m, t)' \/ From(d, i + 1, C)'
    BY <1>4, <1>6, <2>2, Zenon
  <2> QED
    BY <1>1, <2>1, <2>3, Zenon DEF Followed
<1>8. Harmless(d, m, t)'
  <2>1. \A s \in Busy' : req'[s].env \in S => s \in Busy /\ req'[s] = req[s]
    BY <1>1, Zenon DEF Unmoved
  <2>2. \A s \in Busy : req[s].env \in S /\ (Due(req[s], d) \/ req[s].dev = d) =>
          Buried(d, m, t)
    BY <1>1, Zenon DEF InStep, Harmless
  <2>3. \A s \in Busy' : req'[s].env \in S /\ (Due(req'[s], d) \/ req'[s].dev = d) =>
          Buried(d, m, t)'
    BY <1>4, <2>1, <2>2, Zenon
  <2> QED
    BY <1>1, <2>3, Zenon DEF Harmless
<1> QED
  BY <1>5, <1>7, <1>8, Zenon DEF InStep

LEMMA StaysFaithful ==
  ASSUME NEW d \in Listeners, Faithful(d), view'[d] = view[d], reply'[d] = reply[d],
         \A m \in MsgIds : Known(d, m) => Known(d, m)',
         \A m \in MsgIds : Known(d, m) /\ view[d][m] = Empty /\ messages[m].deleted =>
           messages'[m].deleted
  PROVE  Faithful(d)'
  BY Zenon DEF Faithful

\* A message the client must have is one it had, or is about to have.
LEMMA StaysComplete ==
  ASSUME NEW d \in Listeners, Complete(d), loaded'[d] = loaded[d], reply'[d] = reply[d],
         \A c, m : /\ Owner[d] \in Members[c]
                   /\ m \in Visible(c, Owner[d])'
                   => Has(d, m)' \/ (m \in Visible(c, Owner[d]) /\ ~Has(d, m))
  PROVE  Complete(d)'
<1>1. PICK a, q, l : a = Owner[d] /\ q = reply[d] /\ l = loaded[d]
  BY Zenon
<1>2. \A c \in l : a \in Members[c] /\ \A m \in Visible(c, a)' : Has(d, m)'
  BY <1>1, Zenon DEF Complete
<1>3. q # None /\ q.current =>
        a \in Members[q.conv] /\ \A m \in Visible(q.conv, a)' : q.rows[m] # None \/ Has(d, m)'
  BY <1>1, Zenon DEF Complete
<1> QED
  BY <1>1, <1>2, <1>3, Zenon DEF Complete

LEMMA StaysBeginning ==
  ASSUME NEW d \in Listeners, Same(d), Beginning(d)
  PROVE  Beginning(d)'
  BY Zenon DEF Same, Beginning

\* No row of messages changes, and nothing is said about one.
LEMMA IdleClient ==
  ASSUME NEW d \in Listeners, Client(d), Same(d),
         UNCHANGED <<messages, stream, raced>>, hidden \subseteq hidden',
         \A m \in MsgIds : \A E \in SUBSET EventsOf(m) : Unmoved(d, E)
  PROVE  Client(d)'
<1>1. next'[d] \in 1..(Len(stream'[d]) + 1)
  BY Zenon DEF Client, Same
<1>2. Stored' = Stored /\ \A m : Known(d, m)' <=> Known(d, m)
  BY Zenon DEF Known, Stored
<1>3. Faithful(d)'
  BY <1>2, StaysFaithful, Zenon DEF Client, Same
<1>4. \A m \in MsgIds : Has(d, m)' <=> Has(d, m)
  <2> TAKE m \in MsgIds
  <2>1. PICK E : E = EventsOf(m)
    BY Zenon
  <2>2. E \in SUBSET EventsOf(m)
    BY <2>1
  <2>3. Coming(d, E)' <=> Coming(d, E)
    BY <2>2, UnmovedComing, Zenon DEF Same
  <2> QED
    BY <2>1, <2>3, Zenon DEF Has, Same
<1>5. \A c, a : Visible(c, a)' \subseteq Visible(c, a) /\ Visible(c, a) \subseteq MsgIds
  BY <1>2 DEF Visible, Stored
<1>6. \A c, m : m \in Visible(c, Owner[d])' =>
        Has(d, m)' \/ (m \in Visible(c, Owner[d]) /\ ~Has(d, m))
  BY <1>4, <1>5, Zenon
<1>7. Complete(d)'
  BY <1>6, StaysComplete, Zenon DEF Client, Same
<1>8. ASSUME sock'[d] = "open", gaps'[d] = {}, NEW m \in Stored' \ raced', Known(d, m)'
      PROVE  InStep(d, m, messages[m].text)'
  <2>1. PICK t : t = messages[m].text /\ t = messages'[m].text
    BY Zenon
  <2>2. InStep(d, m, t) /\ m \in MsgIds
    BY <1>2, <1>8, <2>1, Zenon DEF Client, Current, Same, Stored
  <2>3. /\ Corrections(m, t) \in SUBSET EventsOf(m) /\ StaleNews(m, t) \in SUBSET EventsOf(m)
        /\ StaleEdits(m, t) \in SUBSET EventsOf(m)
    BY Zenon DEF Corrections, StaleNews, StaleEdits
  <2>4. InStep(d, m, t)'
    BY <2>2, <2>3, StaysInStep, Zenon
  <2> QED
    BY <2>1, <2>4, Zenon
<1>9. Current(d)'
  BY <1>8, Zenon DEF Current
<1>10. Beginning(d)'
  BY StaysBeginning, Zenon DEF Client
<1> QED
  BY <1>1, <1>3, <1>7, <1>9, <1>10, Zenon DEF Client

\* The steps of another connection, or of no handler.
LEMMA BystanderClient ==
  ASSUME NEW d \in Listeners, Client(d), Same(d),
         UNCHANGED <<messages, stream, req, raced>>, hidden \subseteq hidden'
  PROVE  Client(d)'
<1>1. \A m \in MsgIds : \A E \in SUBSET EventsOf(m) : Unmoved(d, E)
  BY IdleUnmoved, Zenon
<1> QED
  BY <1>1, IdleClient, Zenon

LEMMA SentClient ==
  ASSUME SourceInv, NEW r \in Reqs, NEW x \in Devices, NEW c \in Convs,
         NEW t \in Texts, NEW n \in 0..MaxAtts, SendMessage(r, x, c, t, n),
         UNCHANGED raced, NEW d \in Listeners, Client(d), Same(d)
  PROVE  Client(d)'
<1>1. /\ UNCHANGED <<messages, hidden, stream>>
      /\ \A s \in Reqs \ {r} : req'[s] = req[s]
      /\ req[r] = None /\ req'[r].env.msg = None
  BY SendBegins, Zenon
<1>2. ASSUME NEW m \in MsgIds, NEW E \in SUBSET EventsOf(m) PROVE Unmoved(d, E)
  <2>1. req'[r].env \notin E
    BY <1>1, NoneAssumption DEF EventsOf
  <2>2. UNCHANGED stream
    BY <1>1
  <2> QED
    BY <1>1, <2>1, <2>2, ElsewhereUnmoved, Zenon
<1>3. UNCHANGED <<messages, stream, raced>> /\ hidden \subseteq hidden'
  BY <1>1
<1> QED
  BY <1>2, <1>3, IdleClient, Zenon

(***************************************************************************)
(* A statement on a row                                                    *)
(***************************************************************************)
\* The event about m is on its way to every client that may see m.
LEMMA AnnouncedComes ==
  ASSUME NEW r \in Reqs, NEW m \in MsgIds, Announces(r, m),
         NEW d \in Listeners, Known(d, m)', NEW E, req'[r].env \in E
  PROVE  /\ Coming(d, E)'
         /\ d # req'[r].dev => \A i : From(d, i, E)'
<1>1. r \in Busy' /\ d \in Devices
  BY DeliveryAssumption, Zenon DEF Announces, Busy
<1>2. d # req'[r].dev => Due(req'[r], d)
  BY <1>1, Zenon DEF Announces, Known
<1>3. d # req'[r].dev => \A i : From(d, i, E)'
  BY <1>1, <1>2, Zenon DEF From
<1>4. d = req'[r].dev => Own(d, E)'
  BY <1>1, Zenon DEF Own
<1> QED
  BY <1>3, <1>4, Zenon DEF Coming

LEMMA AnnouncedClient ==
  ASSUME NEW r \in Reqs, NEW m \in MsgIds, Announces(r, m),
         m \in Stored => messages'[m].conv = messages[m].conv,
         m \in Stored /\ messages[m].deleted => messages'[m].deleted,
         raced \subseteq raced',
         NEW d \in Listeners, Client(d), Same(d),
         /\ sock[d] = "open" /\ gaps[d] = {} /\ m \notin raced' /\ Known(d, m)'
         => InStep(d, m, messages[m].text)'
  PROVE  Client(d)'
<1>1. /\ UNCHANGED <<stream, hidden>> /\ \A k \in MsgIds \ {m} : messages'[k] = messages[k]
      /\ m \in Stored' /\ Stored' = Stored \cup {m}
  BY DEF Announces, Stored
<1>2. ASSUME NEW k \in MsgIds \ {m}, NEW E, E \subseteq EventsOf(k) PROVE Unmoved(d, E)
  <2>1. k # None
    BY NoneAssumption
  <2>2. \A e \in E : e.msg = k
    BY <1>2, Zenon DEF EventsOf
  <2>3. /\ req[r] # None => req[r].env \notin E
        /\ req'[r] # None => req'[r].env \notin E
    BY <2>1, <2>2 DEF Announces, EventsOf
  <2>4. \A s \in Reqs \ {r} : req'[s] = req[s]
    BY Zenon DEF Announces
  <2> QED
    BY <1>1, <2>3, <2>4, ElsewhereUnmoved, Zenon
<1>3. next'[d] \in 1..(Len(stream'[d]) + 1)
  BY <1>1, Zenon DEF Client, Same
<1>4. \A k \in MsgIds : Known(d, k) => Known(d, k)'
  BY <1>1, Zenon DEF Known, Stored
<1>5. \A k \in MsgIds : Known(d, k) /\ messages[k].deleted => messages'[k].deleted
  BY <1>1 DEF Known
<1>6. Faithful(d)'
  BY <1>4, <1>5, StaysFaithful, Zenon DEF Client, Same
<1>7. ASSUME NEW c, NEW k, Owner[d] \in Members[c], k \in Visible(c, Owner[d])'
      PROVE  Has(d, k)' \/ (k \in Visible(c, Owner[d]) /\ ~Has(d, k))
  <2>1. k \in Stored' /\ messages'[k].conv = c /\ ~messages'[k].deleted /\ <<k, Owner[d]>> \notin hidden'
    BY <1>7, Zenon DEF Visible
  <2>2. CASE k = m
    <3>1. Known(d, m)'
      BY <1>7, <2>1, <2>2, Zenon DEF Known
    <3>2. PICK E : E = EventsOf(m)
      BY Zenon
    <3>3. Coming(d, E)'
      BY <3>1, <3>2, AnnouncedComes, Zenon DEF Announces
    <3> QED
      BY <2>2, <3>2, <3>3, Zenon DEF Has
  <2>3. CASE k # m
    <3>1. k \in MsgIds \ {m} /\ k \in Visible(c, Owner[d])
      BY <1>1, <2>1, <2>3 DEF Visible, Stored
    <3>2. PICK E : E = EventsOf(k)
      BY Zenon
    <3>3. E \subseteq EventsOf(k)
      BY <3>2
    <3>4. Coming(d, E)' <=> Coming(d, E)
      BY <1>2, <3>1, <3>3, UnmovedComing, Zenon DEF Same
    <3> QED
      BY <3>1, <3>2, <3>4, ZenonT(20) DEF Has, Same
  <2> QED
    BY <2>2, <2>3
<1>8. Complete(d)'
  BY <1>7, StaysComplete, Zenon DEF Client, Same
<1>9. ASSUME sock'[d] = "open", gaps'[d] = {}, NEW k \in Stored' \ raced', Known(d, k)'
      PROVE  InStep(d, k, messages[k].text)'
  <2>1. CASE k = m
    BY <1>9, <2>1, Zenon DEF Same
  <2>2. CASE k # m
    <3>1. k \in MsgIds \ {m} /\ k \in Stored \ raced /\ Known(d, k)
      BY <1>1, <1>9, <2>2 DEF Known, Stored
    <3>2. PICK t : t = messages[k].text /\ t = messages'[k].text
      BY <1>1, <3>1, Zenon
    <3>3. InStep(d, k, t)
      BY <1>9, <3>1, <3>2, Zenon DEF Client, Current, Same
    <3>4. /\ Corrections(k, t) \subseteq EventsOf(k) /\ StaleNews(k, t) \subseteq EventsOf(k)
          /\ StaleEdits(k, t) \subseteq EventsOf(k)
      BY DEF Corrections, StaleNews, StaleEdits
    <3>5. /\ Unmoved(d, Corrections(k, t)) /\ Unmoved(d, StaleNews(k, t))
          /\ Unmoved(d, StaleEdits(k, t)) /\ stream'[d] = stream[d]
      BY <1>1, <1>2, <3>1, <3>4, Zenon
    <3>6. InStep(d, k, t)'
      BY <3>3, <3>5, StaysInStep, Zenon
    <3> QED
      BY <3>2, <3>6, Zenon
  <2> QED
    BY <2>1, <2>2
<1>10. Current(d)'
  BY <1>9, Zenon DEF Current
<1>11. Beginning(d)'
  BY StaysBeginning, Zenon DEF Client
<1> QED
  BY <1>3, <1>6, <1>8, <1>10, <1>11, Zenon DEF Client

\* Of a message that is just stored, nobody has heard before.
LEMMA InsertedClient ==
  ASSUME SourceInv, NEW r \in Reqs, NEW m \in MsgIds, InsertMessage(r, m),
         UNCHANGED raced, NEW d \in Listeners, Client(d), Same(d)
  PROVE  Client(d)'
<1>1. Announces(r, m) /\ m \notin Stored /\ req'[r].env.type = "message.new"
  BY InsertAnnounces, Zenon
<1>2. PICK t, e : t = messages'[m].text /\ e = req'[r].env
  BY Zenon
<1>3. e.text = t /\ e.type = "message.new"
  BY <1>1, <1>2, Zenon DEF Announces
<1>4. PICK N, S : N = StaleNews(m, t) /\ S = StaleEdits(m, t)
  BY Zenon
<1>5. d \in Devices /\ \A x \in N \cup S : x.msg = m /\ x # e
  BY <1>3, <1>4, DeliveryAssumption DEF StaleNews, StaleEdits, EventsOf
<1>6. \A i \in DOMAIN stream[d] : stream[d][i].msg \in Stored
  BY <1>5, Zenon DEF SourceInv, EventInv, Heard, Backed
<1>7. \A s \in Busy' : req'[s].env \notin N \cup S
  <2>1. ASSUME NEW s \in Busy', s # r PROVE req'[s].env.msg # m
    <3>1. PICK h : h = req[s] /\ h = req'[s]
      BY <1>1, <2>1, Zenon DEF Announces, Busy
    <3>2. Truthful(h) /\ Orderly(h)
      BY <2>1, <3>1, Zenon DEF SourceInv, EventInv, Busy, Placed
    <3>3. h.env.msg = None \/ h.env.msg \in Stored
      BY <3>2, Zenon DEF Truthful, Orderly, Backed
    <3> QED
      BY <1>1, <3>1, <3>3, NoneAssumption
  <2> QED
    BY <1>2, <1>5, <2>1, Zenon
<1>8. next[d] \in 1..(Len(stream[d]) + 1) /\ stream[d] \in Seq(Envelope)
  BY <1>5, Zenon DEF Client, SourceInv, EventInv, TypeOK
<1>9. \A i \in next[d]..Len(stream[d]) : stream[d][i] \notin N \cup S
  BY <1>1, <1>5, <1>6, <1>8
<1>10. stream' = stream /\ next'[d] = next[d]
  BY <1>1, Zenon DEF Announces, Same
<1>11. ~Coming(d, N)'
  BY <1>7, <1>9, <1>10, ZenonT(20) DEF Coming, From, Own
<1>12. Settling(d, m, t)'
  <2>1. view[d][m] = None /\ (reply[d] # None => reply[d].rows[m] = None)
    BY <1>1, Zenon DEF Client, Faithful, Known
  <2> QED
    BY <1>4, <1>11, <2>1 DEF Settling, Same
<1>13. Followed(d, m, t)' /\ Harmless(d, m, t)'
  BY <1>4, <1>7, <1>9, <1>10, Zenon DEF Followed, Harmless
<1>14. InStep(d, m, t)'
  BY <1>12, <1>13, Zenon DEF InStep
<1>15. InStep(d, m, messages[m].text)'
  BY <1>2, <1>14, Zenon
<1> QED
  BY <1>1, <1>15, AnnouncedClient, Zenon

\* An edit that no other one overtakes.
LEMMA EditedClient ==
  ASSUME SourceInv, NEW r \in Reqs, NEW x \in Devices, NEW m \in MsgIds, NEW u \in Texts,
         EditMessage(r, x, m, u),
         raced' = IF Unsettled(m, x) THEN raced \cup {m} ELSE raced,
         NEW d \in Listeners, Client(d), Same(d)
  PROVE  Client(d)'
<1>1. /\ Announces(r, m) /\ m \in Stored
      /\ req[r] = None /\ req'[r].env.type = "message.edited" /\ req'[r].dev = x
      /\ messages'[m].conv = messages[m].conv /\ ~messages[m].deleted
  BY EditAnnounces, Zenon
<1>2. PICK t, e : t = messages'[m].text /\ e = req'[r].env
  BY Zenon
<1>3. PICK C, S : C = Corrections(m, t) /\ S = StaleEdits(m, t)
  BY Zenon
<1>4. e \in C /\ e \notin S
  BY <1>1, <1>2, <1>3 DEF Announces, Corrections, StaleEdits
<1>5. ASSUME m \notin raced', Known(d, m)' PROVE InStep(d, m, t)'
  <2>1. ~Unsettled(m, x)
    BY <1>5
  <2>2. Coming(d, C)' /\ (d # x => \A i : From(d, i, C)')
    BY <1>1, <1>2, <1>4, <1>5, AnnouncedComes, Zenon
  <2>3. Settling(d, m, t)'
    BY <1>3, <2>2, Zenon DEF Settling
  <2>4. Followed(d, m, t)'
    <3>1. CASE d # x
      BY <1>3, <2>2, <3>1, Zenon DEF Followed
    <3>2. CASE d = x
      <4>1. ~(next[d] <= Len(stream[d]))
        BY <2>1, <3>2, Zenon DEF Unsettled, Pending
      <4>2. next[d] \in Nat /\ Len(stream[d]) \in Nat
        <5>1. stream[d] \in Seq(Envelope) /\ next[d] \in 1..(Len(stream[d]) + 1)
          BY <3>2, Zenon DEF SourceInv, EventInv, TypeOK, Client
        <5> QED
          BY <5>1
      <4>3. next[d]..Len(stream[d]) = {}
        BY <4>1, <4>2
      <4>4. stream' = stream /\ next'[d] = next[d]
        BY <1>1, Zenon DEF Announces, Same
      <4> QED
        BY <4>3, <4>4, Zenon DEF Followed
    <3> QED
      BY <3>1, <3>2
  <2>5. \A s \in Busy' : req'[s].env \notin S
    <3>1. \A s \in Busy : req[s].env \notin S
      BY <1>3, <2>1 DEF Unsettled, StaleEdits, EventsOf
    <3> QED
      BY <1>1, <1>2, <1>4, <3>1, Zenon DEF Announces, Busy
  <2>6. Harmless(d, m, t)'
    BY <1>3, <2>5, Zenon DEF Harmless
  <2> QED
    BY <2>3, <2>4, <2>6, Zenon DEF InStep
<1>6. m \notin raced' /\ Known(d, m)' => InStep(d, m, messages[m].text)'
  BY <1>2, <1>5, Zenon
<1>7. raced \subseteq raced'
  OBVIOUS
<1> QED
  BY <1>1, <1>6, <1>7, AnnouncedClient, Zenon

LEMMA DeletedClient ==
  ASSUME SourceInv, NEW r \in Reqs, NEW x \in Devices, NEW m \in MsgIds,
         DeleteMessage(r, x, m), UNCHANGED raced,
         NEW d \in Listeners, Client(d), Same(d)
  PROVE  Client(d)'
<1>1. /\ Announces(r, m) /\ m \in Stored
      /\ req[r] = None /\ req'[r].env.type = "message.deleted" /\ req'[r].dev = x
      /\ messages'[m].conv = messages[m].conv /\ messages'[m].text = Empty
  BY DeleteAnnounces, ZenonT(20)
<1>2. PICK t, e : t = messages'[m].text /\ e = req'[r].env
  BY Zenon
<1>3. PICK C : C = Corrections(m, t)
  BY Zenon
<1>4. e \in C /\ t = Empty /\ messages'[m].deleted
  BY <1>1, <1>2, <1>3 DEF Announces, Corrections, Written
<1>5. ASSUME Known(d, m)' PROVE InStep(d, m, t)'
  <2>1. Coming(d, C)'
    BY <1>1, <1>2, <1>4, <1>5, AnnouncedComes, Zenon
  <2>2. Settling(d, m, t)' /\ Buried(d, m, t)'
    BY <1>3, <1>4, <2>1, Zenon DEF Settling, Buried
  <2> QED
    BY <2>2, Zenon DEF InStep, Followed, Harmless
<1>6. Known(d, m)' => InStep(d, m, messages[m].text)'
  BY <1>2, <1>5, Zenon
<1> QED
  BY <1>1, <1>4, <1>6, AnnouncedClient, Zenon

(***************************************************************************)
(* The view                                                                *)
(***************************************************************************)
\* What an event makes of a view of a message whose text is t.
LEMMA ShownIs ==
  ASSUME NEW old \in Texts \cup {Empty, None}, NEW e \in Envelope, Worded(e),
         NEW t \in Texts \cup {Empty}, old = Empty => t = Empty,
         e.type = "message.deleted" => t = Empty
  PROVE  /\ Shown(old, e) \in Texts \cup {Empty} /\ Shown(old, e) # None
         /\ Shown(old, e) = Empty => t = Empty
         /\ old = Empty => Shown(old, e) = Empty
         /\ e.type # "message.new" /\ e.text = t => Shown(old, e) = t
         /\ old = t /\ ~(e.type = "message.edited" /\ e.text # t) => Shown(old, e) = t
         /\ old = None /\ e.type = "message.new" /\ e.text = t => Shown(old, e) = t
         /\ old # None /\ e.type = "message.new" => Shown(old, e) = old
<1>1. e.type \in {"message.new", "message.edited", "message.deleted"}
      /\ e.text \in Texts \cup {Empty}
  BY DEF Envelope
<1>2. CASE e.type = "message.deleted"
  BY <1>1, <1>2, MarksAssumption, Zenon DEF Shown, Worded
<1>3. CASE e.type = "message.edited"
  BY <1>1, <1>3, MarksAssumption, Zenon DEF Shown, Worded
<1>4. CASE e.type = "message.new"
  BY <1>1, <1>4, MarksAssumption, Zenon DEF Shown, Worded
<1> QED
  BY <1>1, <1>2, <1>3, <1>4

\* The client of d is told event e about m, which was to come.
LEMMA ToldSettles ==
  ASSUME NEW d \in Listeners, NEW m \in MsgIds, NEW t \in Texts \cup {Empty},
         NEW e \in EventsOf(m), Worded(e),
         view[d][m] \in Texts \cup {Empty, None},
         view[d][m] = Empty => t = Empty,
         e.type = "message.deleted" => t = Empty,
         view'[d][m] = Shown(view[d][m], e), reply'[d] = reply[d],
         Settling(d, m, t),
         \A E : Coming(d, E) => Coming(d, E)' \/ e \in E,
         \A E : e \in E => Coming(d, E),
         e \in StaleEdits(m, t) => Buried(d, m, t) \/ Coming(d, Corrections(m, t))'
  PROVE  Settling(d, m, t)' /\ (Buried(d, m, t) => Buried(d, m, t)')
<1>1. PICK old, new : old = view[d][m] /\ new = view'[d][m]
  BY Zenon
<1>2. e \in Envelope /\ t # None
  BY MarksAssumption, Zenon DEF EventsOf
<1>3. /\ old = Empty => new = Empty
      /\ e.type # "message.new" /\ e.text = t => new = t
      /\ old = t /\ ~(e.type = "message.edited" /\ e.text # t) => new = t
      /\ old = None /\ e.type = "message.new" /\ e.text = t => new = t
      /\ old # None /\ e.type = "message.new" => new = old
  BY <1>1, <1>2, ShownIs
<1>4. PICK C : C = Corrections(m, t)
  BY Zenon
<1>5. e \in C => new = t
  BY <1>3, <1>4 DEF Corrections
<1>6. Coming(d, C) => Coming(d, C)' \/ new = t
  BY <1>5, Zenon
<1>7. Buried(d, m, t) => Buried(d, m, t)'
  <2>1. ASSUME Buried(d, m, t) PROVE t = Empty /\ (new = Empty \/ Coming(d, C)')
    BY <1>1, <1>3, <1>4, <1>6, <2>1, Zenon DEF Buried
  <2> QED
    BY <1>1, <1>4, <2>1, Zenon DEF Buried
<1>8. Coming(d, C)' \/ new = t
  <2>1. CASE Coming(d, C)
    BY <1>6, <2>1
  <2>2. CASE e \in StaleEdits(m, t)
    <3>1. CASE Buried(d, m, t)
      BY <1>1, <1>4, <1>7, <3>1, ZenonT(20) DEF Buried
    <3> QED
      BY <1>4, <2>2, <3>1, Zenon
  <2>3. CASE e \notin StaleEdits(m, t) /\ old = t
    BY <1>3, <2>3, Zenon DEF StaleEdits
  <2>4. CASE ~Coming(d, C) /\ old = None /\ e \notin StaleEdits(m, t)
    <3>1. ~Coming(d, StaleNews(m, t))
      BY <1>1, <1>2, <1>4, <2>4, Zenon DEF Settling
    <3>2. e \notin StaleNews(m, t) /\ e \notin C
      BY <2>4, <3>1, ZenonT(20)
    <3>3. e.type = "message.new" /\ e.text = t
      BY <1>2, <1>4, <2>4, <3>2 DEF StaleNews, StaleEdits, Corrections, EventsOf, Envelope, Worded
    <3> QED
      BY <1>3, <2>4, <3>3
  <2> QED
    BY <1>1, <1>4, <2>1, <2>2, <2>3, <2>4, ZenonT(20) DEF Settling
<1> QED
  BY <1>1, <1>4, <1>7, <1>8, Zenon DEF Settling

\* An event about a message that device d may see.
Sound(d, e) ==
  /\ e \in EventsOf(e.msg)
  /\ e.msg \in MsgIds
  /\ Worded(e)
  /\ Known(d, e.msg)
  /\ e.type = "message.deleted" => messages[e.msg].deleted

LEMMA StreamIsSound ==
  ASSUME SourceInv, NEW d \in Devices, NEW i \in DOMAIN stream[d]
  PROVE  Sound(d, stream[d][i])
<1>1. PICK e : e = stream[d][i]
  BY Zenon
<1>2. Backed(e) /\ Owner[d] \in Members[e.conv] /\ Worded(e)
  BY <1>1, Zenon DEF SourceInv, EventInv, Heard
<1>3. e \in Envelope
  <2>1. stream[d] \in Seq(Envelope)
    BY Zenon DEF SourceInv, EventInv, TypeOK
  <2> QED
    BY <1>1, <2>1
<1>4. e.msg \in Stored /\ e.msg \in MsgIds
  BY <1>2, Zenon DEF Backed, Stored
<1> QED
  BY <1>1, <1>2, <1>3, <1>4, Zenon DEF Sound, Known, EventsOf, Backed

LEMMA AnswerIsSound ==
  ASSUME SourceInv, NEW r \in Busy, req[r].pc # "insert"
  PROVE  Sound(req[r].dev, req[r].env)
<1>1. PICK h, e : h = req[r] /\ e = h.env
  BY Zenon
<1>2. h \in Handler /\ Truthful(h) /\ Placed(h)
  BY <1>1, Zenon DEF SourceInv, EventInv, TypeOK, Busy
<1>3. Backed(e) /\ Owner[h.dev] \in Members[e.conv] /\ Worded(e)
  BY <1>1, <1>2, Zenon DEF Truthful, Placed
<1>4. e \in Envelope
  BY <1>1, <1>2 DEF Handler
<1>5. e.msg \in Stored /\ e.msg \in MsgIds
  BY <1>3, Zenon DEF Backed, Stored
<1> QED
  BY <1>1, <1>3, <1>4, <1>5, Zenon DEF Sound, Known, EventsOf, Backed

\* A row and its text.
LEMMA TextOf ==
  ASSUME SourceInv, NEW m \in Stored
  PROVE  /\ messages[m].text \in Texts \cup {Empty} /\ messages[m].text # None
         /\ messages[m].deleted <=> messages[m].text = Empty
<1>1. messages[m] \in Row /\ Written(messages[m])
  BY Zenon DEF SourceInv, EventInv, TypeOK, Stored
<1> QED
  BY <1>1, MarksAssumption DEF Row, Written

\* The client of d is told e.
IsTold(d, e) == view'[d] = [view[d] EXCEPT ![e.msg] = Shown(view[d][e.msg], e)]

LEMMA ToldIsFaithful ==
  ASSUME SourceInv, NEW d \in Listeners, Faithful(d), view[d] \in Views,
         NEW e, Sound(d, e), IsTold(d, e), reply'[d] = reply[d], UNCHANGED messages
  PROVE  Faithful(d)' /\ view'[d] \in Views /\ view'[d][e.msg] # None
<1>1. PICK m, t, old : m = e.msg /\ t = messages[m].text /\ old = view[d][m]
  BY Zenon
<1>2. m \in MsgIds /\ m \in Stored /\ e \in Envelope /\ Worded(e)
  BY <1>1 DEF Sound, EventsOf, Known
<1>3. /\ t \in Texts \cup {Empty} /\ (messages[m].deleted <=> t = Empty)
  BY <1>1, <1>2, TextOf, Zenon
<1>4. /\ old \in Texts \cup {Empty, None} /\ (old = Empty => t = Empty)
      /\ (e.type = "message.deleted" => t = Empty)
  <2>1. old \in Texts \cup {Empty, None}
    BY <1>1, <1>2 DEF Views
  <2>2. old # None => (old = Empty => messages[m].deleted)
    BY <1>1, <1>2, Zenon DEF Faithful
  <2> QED
    BY <1>1, <1>3, <2>1, <2>2, MarksAssumption, Zenon DEF Sound
<1>5. PICK new : new = Shown(old, e)
  BY Zenon
<1>6. new \in Texts \cup {Empty} /\ new # None /\ (new = Empty => t = Empty)
  BY <1>2, <1>3, <1>4, <1>5, ShownIs, Zenon
<1>7. view'[d] = [view[d] EXCEPT ![m] = new]
  BY <1>1, <1>5, ZenonT(20) DEF IsTold
<1>8. view'[d] \in Views
  BY <1>2, <1>6, <1>7, Zenon DEF Views
<1>9. view'[d][m] = new /\ \A k \in MsgIds \ {m} : view'[d][k] = view[d][k]
  BY <1>2, <1>7 DEF Views
<1>10. \A k : Known(d, k)' <=> Known(d, k)
  BY Zenon DEF Known, Stored
<1>11. ASSUME NEW k \in MsgIds, view'[d][k] # None
       PROVE  Known(d, k)' /\ (view'[d][k] = Empty => messages'[k].deleted)
  <2>1. CASE k = m
    BY <1>1, <1>3, <1>6, <1>9, <1>10, <2>1, Zenon DEF Sound
  <2>2. CASE k # m
    BY <1>9, <1>10, <1>11, <2>2, Zenon DEF Faithful
  <2> QED
    BY <2>1, <2>2
<1>12. reply'[d] # None =>
         \A k \in MsgIds : reply'[d].rows[k] # None => Known(d, k)' /\ reply'[d].rows[k] # Empty
  BY <1>10, ZenonT(20) DEF Faithful
<1> QED
  BY <1>1, <1>6, <1>8, <1>9, <1>11, <1>12, Zenon DEF Faithful

(***************************************************************************)
(* An event reaches a client                                               *)
(***************************************************************************)
\* Event e has reached the client of d, and nothing else has changed for it.
Reached(d, e) ==
  /\ \A E : Coming(d, E)' => Coming(d, E)
  /\ \A E : Coming(d, E) => Coming(d, E)' \/ e \in E
  /\ \A E : e \in E => Coming(d, E)

LEMMA ReachedSettles ==
  ASSUME SourceInv, NEW d \in Listeners, Faithful(d), view[d] \in Views,
         NEW e, Sound(d, e), IsTold(d, e), reply'[d] = reply[d], Reached(d, e),
         NEW m \in Stored, NEW t, t = messages[m].text, Settling(d, m, t),
         e \in StaleEdits(m, t) => Buried(d, m, t) \/ Coming(d, Corrections(m, t))'
  PROVE  Settling(d, m, t)' /\ (Buried(d, m, t) => Buried(d, m, t)')
<1>1. /\ t \in Texts \cup {Empty} /\ (messages[m].deleted <=> t = Empty)
  BY TextOf, Zenon
<1>2. m \in MsgIds /\ e.msg \in MsgIds
  BY DEF Stored, Sound
<1>3. /\ \A E : Coming(d, E) => Coming(d, E)' \/ e \in E
      /\ \A E : e \in E => Coming(d, E)
      /\ \A E : Coming(d, E)' => Coming(d, E)
  BY Zenon DEF Reached
<1>4. CASE e.msg = m
  <2>1. /\ view[d][m] \in Texts \cup {Empty, None}
        /\ view'[d][m] = Shown(view[d][m], e)
    BY <1>2, <1>4, SMTT(20) DEF Views, IsTold
  <2>2. view[d][m] = Empty => t = Empty
    <3>1. Empty # None
      BY MarksAssumption
    <3> QED
      BY <1>1, <1>2, <3>1, ZenonT(20) DEF Faithful
  <2>3. e \in EventsOf(m) /\ Worded(e) /\ (e.type = "message.deleted" => t = Empty)
    BY <1>1, <1>4, Zenon DEF Sound
  <2> QED
    BY <1>1, <1>2, <1>3, <2>1, <2>2, <2>3, ToldSettles, Zenon
<1>5. CASE e.msg # m
  <2>1. view'[d][m] = view[d][m]
    BY <1>2, <1>5 DEF Views, IsTold
  <2>2. PICK C, N : C = Corrections(m, t) /\ N = StaleNews(m, t)
    BY Zenon
  <2>3. e \notin C /\ e \notin N
    BY <1>5, <2>2 DEF Corrections, StaleNews, EventsOf
  <2>4. (Coming(d, C)' <=> Coming(d, C)) /\ (Coming(d, N)' <=> Coming(d, N))
    BY <1>3, <2>3, Zenon
  <2> QED
    BY <2>1, <2>2, <2>4, ZenonT(20) DEF Settling, Buried
<1> QED
  BY <1>4, <1>5

LEMMA ReachedComplete ==
  ASSUME SourceInv, NEW d \in Listeners, Faithful(d), Complete(d), view[d] \in Views,
         NEW e, Sound(d, e), IsTold(d, e), reply'[d] = reply[d], loaded'[d] = loaded[d],
         Reached(d, e), UNCHANGED <<messages, hidden>>
  PROVE  Faithful(d)' /\ Complete(d)' /\ view'[d] \in Views
<1>1. Faithful(d)' /\ view'[d] \in Views /\ view'[d][e.msg] # None
  BY ToldIsFaithful, Zenon
<1>2. ASSUME NEW m \in MsgIds, Has(d, m) PROVE Has(d, m)'
  <2>1. PICK E : E = EventsOf(m)
    BY Zenon
  <2>2. view[d][m] # None => view'[d][m] # None
    BY <1>1, <1>2, Zenon DEF IsTold, Views, Sound
  <2>3. e \in E => view'[d][m] # None
    BY <1>1, <2>1, Zenon DEF EventsOf
  <2> QED
    BY <1>2, <2>1, <2>2, <2>3, Zenon DEF Has, Reached
<1>3. \A c, a : Visible(c, a)' = Visible(c, a) /\ Visible(c, a) \subseteq MsgIds
  BY DEF Visible, Stored
<1>4. \A c, m : m \in Visible(c, Owner[d])' =>
        Has(d, m)' \/ (m \in Visible(c, Owner[d]) /\ ~Has(d, m))
  BY <1>2, <1>3, Zenon
<1>5. Complete(d)'
  BY <1>4, StaysComplete, Zenon
<1> QED
  BY <1>1, <1>5

\* The receiver's next event is the first of those to come.
LEMMA FromNext ==
  ASSUME NEW d, NEW n \in Nat, NEW s \in Seq(Envelope), s = stream[d], n <= Len(s), NEW E
  PROVE  From(d, n, E) <=> s[n] \in E \/ From(d, n + 1, E)
<1>1. (\E k \in n..Len(s) : s[k] \in E) <=> s[n] \in E \/ \E k \in (n + 1)..Len(s) : s[k] \in E
  OBVIOUS
<1> QED
  BY <1>1, Zenon DEF From

LEMMA DeliveredClient ==
  ASSUME SourceInv, ClientTypes, NEW d \in Listeners, Client(d), Deliver(d)
  PROVE  Client(d)' /\ view' \in [Listeners -> Views]
<1>0. d \in Devices /\ d \in Listeners
  BY DeliveryAssumption
<1>1. PICK s, n : s = stream[d] /\ n = next[d]
  BY Zenon
<1>2. s \in Seq(Envelope) /\ n \in 1..(Len(s) + 1) /\ n <= Len(s)
  BY <1>0, <1>1, Zenon DEF SourceInv, EventInv, TypeOK, Client, Deliver, Pending
<1>3. n \in Nat /\ n \in DOMAIN s /\ n + 1 \in Nat
  BY <1>2
<1>4. PICK e : e = s[n]
  BY Zenon
<1>5. Sound(d, e)
  BY <1>0, <1>1, <1>3, <1>4, StreamIsSound, Zenon
<1>6. view[d] \in Views /\ view \in [Listeners -> Views] /\ e.msg \in MsgIds
  BY <1>5, Zenon DEF ClientTypes, Sound
<1>7. view' = [view EXCEPT ![d] = [view[d] EXCEPT ![e.msg] = Shown(view[d][e.msg], e)]]
  BY <1>1, <1>4 DEF Deliver, Forward
<1>8. IsTold(d, e)
  BY <1>6, <1>7, Zenon DEF IsTold
<1>9. /\ next'[d] = n + 1 /\ UNCHANGED <<messages, hidden, stream, req, raced>>
      /\ sock'[d] = sock[d] /\ reply'[d] = reply[d] /\ gaps'[d] = gaps[d]
      /\ loaded'[d] = loaded[d] /\ sock[d] = "open"
  BY <1>1 DEF Deliver, ClientTypes, vars, db
<1>10. \A E : Unmoved(d, E)
  BY <1>9, IdleUnmoved, Zenon
<1>11. \A E : (From(d, n + 1, E)' <=> From(d, n + 1, E)) /\ (Own(d, E)' <=> Own(d, E))
  BY <1>10, Zenon DEF Unmoved
<1>12. \A E : Coming(d, E) <=> (e \in E \/ From(d, n + 1, E) \/ Own(d, E))
  BY <1>1, <1>2, <1>3, <1>4, FromNext, Zenon DEF Coming
<1>13. \A E : Coming(d, E)' <=> (From(d, n + 1, E) \/ Own(d, E))
  <2>1. PICK k : k = n + 1
    BY Zenon
  <2>2. next'[d] = k /\ \A E : From(d, k, E)' <=> From(d, n + 1, E)
    BY <1>9, <1>11, <2>1, Zenon
  <2> QED
    BY <1>11, <2>2, Zenon DEF Coming
<1>14. Reached(d, e)
  BY <1>12, <1>13, Zenon DEF Reached
<1>15. Faithful(d)' /\ Complete(d)' /\ view'[d] \in Views
  BY <1>5, <1>6, <1>8, <1>9, <1>14, ReachedComplete, Zenon DEF Client
<1>16. view' \in [Listeners -> Views]
  BY <1>6, <1>7, <1>15, Zenon
<1>17. next'[d] \in 1..(Len(stream'[d]) + 1)
  BY <1>1, <1>2, <1>9, SMTT(20)
<1>18. Beginning(d)'
  BY <1>9 DEF Beginning
<1>19. ASSUME gaps'[d] = {}, NEW m \in Stored' \ raced', Known(d, m)'
       PROVE  InStep(d, m, messages[m].text)'
  <2>1. PICK t : t = messages[m].text /\ t = messages'[m].text
    BY <1>9, Zenon
  <2>2. m \in Stored /\ InStep(d, m, t)
    BY <1>9, <1>19, <2>1, Zenon DEF Client, Current, Known, Stored
  <2>3. PICK C, S : C = Corrections(m, t) /\ S = StaleEdits(m, t)
    BY Zenon
  <2>4. \A i \in n..Len(s) : s[i] \in S => Buried(d, m, t) \/ From(d, i + 1, C)
    BY <1>1, <2>2, <2>3, Zenon DEF InStep, Followed
  <2>5. e \in S => Buried(d, m, t) \/ Coming(d, C)'
    <3>1. n \in n..Len(s)
      BY <1>2
    <3> QED
      BY <1>4, <1>13, <2>4, <3>1, Zenon
  <2>6. Settling(d, m, t)' /\ (Buried(d, m, t) => Buried(d, m, t)')
    BY <1>5, <1>6, <1>8, <1>9, <1>14, <2>1, <2>2, <2>3, <2>5, ReachedSettles, Zenon
       DEF Client, InStep
  <2>7. Followed(d, m, t)'
    <3>1. \A i \in (n + 1)..Len(s) : i \in n..Len(s)
      BY <1>2
    <3>2. \A i : From(d, i, C)' <=> From(d, i, C)
      BY <1>10, Zenon DEF Unmoved
    <3>3. \A i \in (n + 1)..Len(s) : s[i] \in S => Buried(d, m, t)' \/ From(d, i + 1, C)'
      BY <2>4, <2>6, <3>1, <3>2, Zenon
    <3> QED
      BY <1>1, <1>9, <2>3, <3>3, Zenon DEF Followed
  <2>8. Harmless(d, m, t)'
    BY <1>9, <2>2, <2>6, Zenon DEF InStep, Harmless, Busy
  <2>9. InStep(d, m, t)'
    BY <2>6, <2>7, <2>8, Zenon DEF InStep
  <2> QED
    BY <2>1, <2>9, Zenon
<1>20. Current(d)'
  BY <1>19, ZenonT(20) DEF Current
<1> QED
  BY <1>15, <1>16, <1>17, <1>18, <1>20, Zenon DEF Client

\* What remains of an event when its handler moves on: its place on the
\* stream, or that it is still due.
LEMMA MovesFollowed ==
  ASSUME SourceInv, NEW r \in Reqs, NEW ds \in SUBSET Devices, Moves(r, ds),
         NEW d \in Listeners, next[d] \in 1..(Len(stream[d]) + 1), next'[d] = next[d],
         NEW m, NEW t, Followed(d, m, t), Harmless(d, m, t),
         Buried(d, m, t) => Buried(d, m, t)'
  PROVE  Followed(d, m, t)' /\ Harmless(d, m, t)'
<1>1. d \in Devices /\ TypeOK
  BY DeliveryAssumption DEF SourceInv, EventInv
<1>2. PICK s, n, h, e, C, S : /\ s = stream[d] /\ n = next[d] /\ h = req[r] /\ e = h.env
                              /\ C = Corrections(m, t) /\ S = StaleEdits(m, t)
  BY Zenon
<1>3. s \in Seq(Envelope) /\ r \in Busy /\ h \in Handler
  BY <1>1, <1>2, Zenon DEF TypeOK, Moves, Busy
<1>4. e \in Envelope /\ n \in 1..(Len(s) + 1) /\ Len(s) \in Nat
  BY <1>2, <1>3, SMTT(20) DEF Handler
<1>5. /\ stream'[d] = IF d \in ds THEN Append(s, e) ELSE s
      /\ d \in ds => Due(h, d)
      /\ \A x \in Reqs \ {r} : req'[x] = req[x]
      /\ req'[r] # None => /\ req'[r].env = e /\ req'[r].dev = h.dev
                           /\ Due(req'[r], d) => Due(h, d)
  BY <1>1, <1>2, Zenon DEF Moves
<1>6. \A x \in Busy : req[x].env \in S /\ (Due(req[x], d) \/ req[x].dev = d) =>
        Buried(d, m, t)'
  BY <1>2, Zenon DEF Harmless
<1>7. \A i \in n..Len(s) : s[i] \in S => Buried(d, m, t)' \/ From(d, i + 1, C)
  BY <1>2, Zenon DEF Followed
<1>8. ASSUME NEW i \in n..Len(s), s[i] \in S PROVE Buried(d, m, t)' \/ From(d, i + 1, C)'
  <2>1. PICK k : k = i + 1
    BY Zenon
  <2>2. k \in Nat /\ k \in 1..(Len(stream[d]) + 1)
    BY <1>2, <1>4, <1>8, <2>1
  <2>3. From(d, k, C)' <=> From(d, k, C)
    BY <1>1, <2>2, MovesFrom, ZenonT(20)
  <2> QED
    BY <1>7, <1>8, <2>1, <2>3, Zenon
<1>9. ASSUME NEW i \in n..Len(stream'[d]), stream'[d][i] \in S
      PROVE  Buried(d, m, t)' \/ From(d, i + 1, C)'
  <2>1. CASE d \in ds
    <3>1. stream'[d] = Append(s, e)
      BY <1>5, <2>1
    <3>2. CASE i \in n..Len(s)
      <4>1. s[i] \in S
        BY <1>3, <1>4, <1>9, <3>1, <3>2, Longer, SMTT(20)
      <4> QED
        BY <1>8, <3>2, <4>1, Zenon
    <3>3. CASE i \notin n..Len(s)
      <4>1. i = Len(s) + 1
        BY <1>3, <1>4, <1>9, <3>1, <3>3, Longer, SMTT(20)
      <4>2. e \in S
        BY <1>3, <1>4, <1>9, <3>1, <4>1, Longer, SMTT(20)
      <4> QED
        BY <1>2, <1>3, <1>5, <1>6, <2>1, <4>2, Zenon
    <3> QED
      BY <3>2, <3>3, Zenon
  <2>2. CASE d \notin ds
    <3>1. stream'[d] = s
      BY <1>5, <2>2
    <3> QED
      BY <1>8, <1>9, <3>1, ZenonT(20)
  <2> QED
    BY <2>1, <2>2, Zenon
<1>10. Followed(d, m, t)'
  BY <1>2, <1>9, Zenon DEF Followed
<1>11. Harmless(d, m, t)'
  <2>1. ASSUME NEW x \in Busy', req'[x].env \in S, Due(req'[x], d) \/ req'[x].dev = d
        PROVE  Buried(d, m, t)'
    <3>1. CASE x = r
      BY <1>2, <1>3, <1>5, <1>6, <2>1, <3>1, Zenon DEF Busy
    <3>2. CASE x # r
      BY <1>5, <1>6, <2>1, <3>2, Zenon DEF Busy
    <3> QED
      BY <3>1, <3>2
  <2> QED
    BY <1>2, <2>1, Zenon DEF Harmless
<1> QED
  BY <1>10, <1>11, Zenon

\* Whether handler r ends now and its caller d has a connection.
Answers(r, d) == req'[r] = None /\ d = req[r].dev /\ sock[d] # "closed"

\* What the answer of handler r, if any, does to the connection of d.
Answered(r, d) ==
  /\ sock'[d] = sock[d] /\ next'[d] = next[d]
  /\ reply'[d] = reply[d] /\ loaded'[d] = loaded[d]
  /\ IF Answers(r, d) THEN IsTold(d, req[r].env) ELSE view'[d] = view[d]
  /\ gaps'[d] = IF Answers(r, d) /\ sock[d] = "announcing"
                THEN gaps[d] \cup {"early"} ELSE gaps[d]

LEMMA MovesComing ==
  ASSUME SourceInv, NEW r \in Reqs, NEW ds \in SUBSET Devices, Moves(r, ds),
         NEW d \in Listeners, next[d] \in 1..(Len(stream[d]) + 1), next'[d] = next[d]
  PROVE  /\ \A E : Coming(d, E)' => Coming(d, E)
         /\ \A E : Coming(d, E) =>
              Coming(d, E)' \/ (req'[r] = None /\ req[r].dev = d /\ req[r].env \in E)
         /\ req[r].dev = d => \A E : req[r].env \in E => Coming(d, E)
<1>1. d \in Devices /\ TypeOK
  BY DeliveryAssumption DEF SourceInv, EventInv
<1>2. PICK n : n = next[d]
  BY Zenon
<1>3. n \in Nat /\ n \in 1..(Len(stream[d]) + 1)
  <2>1. stream[d] \in Seq(Envelope)
    BY <1>1, Zenon DEF TypeOK
  <2> QED
    BY <1>2, <2>1
<1>4. \A E : From(d, n, E)' <=> From(d, n, E)
  BY <1>1, <1>3, MovesFrom, Zenon
<1>5. \A E : /\ Own(d, E)' => Own(d, E)
             /\ Own(d, E) => Own(d, E)' \/ (req'[r] = None /\ req[r].dev = d /\ req[r].env \in E)
  BY <1>1, MovesOwn, Zenon
<1>6. req[r].dev = d => \A E : req[r].env \in E => Own(d, E)
  BY Zenon DEF Moves, Own
<1> QED
  BY <1>2, <1>4, <1>5, <1>6, Zenon DEF Coming

\* Of a client that is not subscribed nothing is expected.
LEMMA NotOpen ==
  ASSUME NEW d \in Listeners, Beginning(d)', sock'[d] # "open"
  PROVE  Complete(d)' /\ Current(d)'
<1>1. loaded'[d] = {} /\ ~(reply'[d] # None /\ reply'[d].current)
  BY ZenonT(20) DEF Beginning
<1>2. Complete(d)'
  BY <1>1, Zenon DEF Complete
<1> QED
  BY <1>2, Zenon DEF Current

LEMMA MovedClient ==
  ASSUME SourceInv, NEW r \in Reqs, NEW ds \in SUBSET Devices, Moves(r, ds),
         UNCHANGED <<messages, hidden, raced>>,
         NEW d \in Listeners, view[d] \in Views, sock[d] \in {"closed", "announcing", "open"},
         Client(d), Answered(r, d)
  PROVE  Client(d)' /\ view'[d] \in Views
<1>1. PICK e, n : e = req[r].env /\ n = next[d]
  BY Zenon
<1>2. next'[d] \in 1..(Len(stream'[d]) + 1)
  <2>1. PICK s : s = stream[d]
    BY Zenon
  <2>2. s \in Seq(Envelope) /\ req[r] \in Handler
    BY <2>1, DeliveryAssumption, Zenon DEF SourceInv, EventInv, TypeOK, Moves, Busy
  <2>3. e \in Envelope /\ d \in Devices
    BY <1>1, <2>2, DeliveryAssumption DEF Handler
  <2>4. stream'[d] = s \/ stream'[d] = Append(s, e)
    BY <1>1, <2>1, <2>3, Zenon DEF Moves
  <2>5. next'[d] = n /\ n \in 1..(Len(s) + 1)
    BY <1>1, <2>1, Zenon DEF Client, Answered
  <2> QED
    BY <2>2, <2>3, <2>4, <2>5, Longer, SMTT(20)
<1>3. Beginning(d)'
  <2>1. sock'[d] # "open" /\ gaps'[d] = {} => gaps[d] = {} /\ view'[d] = view[d]
    BY Zenon DEF Answered, Answers
  <2>2. sock'[d] = "closed" => gaps'[d] = gaps[d]
    BY Zenon DEF Answered, Answers
  <2> QED
    BY <2>1, <2>2, Zenon DEF Answered, Client, Beginning
<1>4. /\ \A E : Coming(d, E)' => Coming(d, E)
      /\ \A E : Coming(d, E) =>
           Coming(d, E)' \/ (req'[r] = None /\ req[r].dev = d /\ e \in E)
      /\ req[r].dev = d => \A E : e \in E => Coming(d, E)
  BY <1>1, MovesComing, Zenon DEF Client, Answered
<1>5. Stored' = Stored /\ \A k : Known(d, k)' <=> Known(d, k)
  BY Zenon DEF Known, Stored
<1>6. ASSUME NEW m \in Stored, NEW t, InStep(d, m, t), Settling(d, m, t)',
             Buried(d, m, t) => Buried(d, m, t)'
      PROVE  InStep(d, m, t)'
  BY <1>6, MovesFollowed, Zenon DEF InStep, Client, Answered
<1>7. CASE Answers(r, d)
  <2>1. Sound(d, e) /\ IsTold(d, e)
    BY <1>1, <1>7, AnswerIsSound, Zenon DEF Moves, Answers, Answered
  <2>2. Reached(d, e)
    BY <1>1, <1>4, <1>7, Zenon DEF Reached, Answers
  <2>3. Faithful(d)' /\ Complete(d)' /\ view'[d] \in Views
    BY <2>1, <2>2, ReachedComplete, Zenon DEF Client, Answered
  <2>4. ASSUME sock'[d] = "open", gaps'[d] = {}, NEW m \in Stored' \ raced', Known(d, m)'
        PROVE  InStep(d, m, messages[m].text)'
    <3>1. PICK t : t = messages[m].text /\ t = messages'[m].text
      BY Zenon
    <3>2. sock[d] = "open" /\ gaps[d] = {}
      BY <2>4, Zenon DEF Answered
    <3>3. m \in Stored /\ InStep(d, m, t)
      BY <1>5, <2>4, <3>1, <3>2, Zenon DEF Client, Current
    <3>4. e \in StaleEdits(m, t) => Buried(d, m, t)
      BY <1>1, <1>7, <3>3, Zenon DEF InStep, Harmless, Answers, Moves
    <3>5. Settling(d, m, t)' /\ (Buried(d, m, t) => Buried(d, m, t)')
      BY <2>1, <2>2, <3>1, <3>3, <3>4, ReachedSettles, Zenon DEF Client, Answered, InStep
    <3>6. InStep(d, m, t)'
      BY <1>6, <3>3, <3>5, Zenon
    <3> QED
      BY <3>1, <3>6, Zenon
  <2>5. Current(d)'
    BY <2>4, Zenon DEF Current
  <2> QED
    BY <1>2, <1>3, <2>3, <2>5, Zenon DEF Client
<1>8. CASE ~Answers(r, d)
  <2>1. view'[d] = view[d] /\ gaps'[d] = gaps[d] /\ reply'[d] = reply[d]
        /\ loaded'[d] = loaded[d] /\ sock'[d] = sock[d] /\ next'[d] = next[d]
    BY <1>8, Zenon DEF Answered
  <2>2. Faithful(d)'
    BY <1>5, <2>1, StaysFaithful, Zenon DEF Client
  <2>3. CASE sock[d] # "open"
    BY <1>2, <1>3, <2>1, <2>2, <2>3, NotOpen, Zenon DEF Client
  <2>4. CASE sock[d] = "open"
    <3>1. \A E : Coming(d, E)' <=> Coming(d, E)
      BY <1>4, <1>8, <2>4 DEF Answers
    <3>2. \A m \in MsgIds : Has(d, m) => Has(d, m)'
      <4> TAKE m \in MsgIds
      <4>1. PICK E : E = EventsOf(m)
        BY Zenon
      <4> QED
        BY <2>1, <3>1, <4>1, Zenon DEF Has
    <3>3. \A c, a : Visible(c, a)' = Visible(c, a) /\ Visible(c, a) \subseteq MsgIds
      BY DEF Visible, Stored
    <3>4. \A c, m : m \in Visible(c, Owner[d])' =>
            Has(d, m)' \/ (m \in Visible(c, Owner[d]) /\ ~Has(d, m))
      BY <3>2, <3>3, Zenon
    <3>5. Complete(d)'
      BY <2>1, <3>4, StaysComplete, Zenon DEF Client
    <3>6. ASSUME gaps'[d] = {}, NEW m \in Stored' \ raced', Known(d, m)'
          PROVE  InStep(d, m, messages[m].text)'
      <4>1. PICK t : t = messages[m].text /\ t = messages'[m].text
        BY Zenon
      <4>2. m \in Stored /\ InStep(d, m, t)
        BY <1>5, <2>1, <2>4, <3>6, <4>1, Zenon DEF Client, Current
      <4>3. PICK C, N : C = Corrections(m, t) /\ N = StaleNews(m, t)
        BY Zenon
      <4>4. Settling(d, m, t)' /\ (Buried(d, m, t) => Buried(d, m, t)')
        BY <2>1, <3>1, <4>2, <4>3, Zenon DEF InStep, Settling, Buried
      <4>5. InStep(d, m, t)'
        BY <1>6, <4>2, <4>4, Zenon
      <4> QED
        BY <4>1, <4>5, Zenon
    <3>7. Current(d)'
      BY <3>6, Zenon DEF Current
    <3> QED
      BY <1>2, <1>3, <2>1, <2>2, <3>5, <3>7, ZenonT(20) DEF Client
  <2> QED
    BY <2>1, <2>3, <2>4, Zenon
<1> QED
  BY <1>7, <1>8
==============================================================================
