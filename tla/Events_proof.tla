---------------------------- MODULE Events_proof -----------------------------
(***************************************************************************)
(* EventsAreBacked for any accounts, devices, requests and bounds, with or *)
(* without failures, and EveryoneIsTold without.                           *)
(*                                                                         *)
(* An event is published several statements after the one that made it     *)
(* true, so the invariant speaks of the handlers in between as well        *)
(* (Truthful): what a handler is about to say is true already, and it says *)
(* it to members only.  It stays true because rows only ever grow (Grown). *)
(***************************************************************************)
EXTENDS Messaging_proof

\* What an event claims about the table.
Backed(e) ==
  /\ e.msg \in Stored
  /\ messages[e.msg].conv = e.conv
  /\ e.type = "message.new" => e.seq = messages[e.msg].seq
  /\ e.type = "message.edited" => messages[e.msg].edited
  /\ e.type = "message.deleted" => messages[e.msg].deleted

\* A send that is not stored yet can only announce a new message; later on
\* the event is backed.  Only members are, and will be, told.
Truthful(h) ==
  /\ h.pc = "insert" => h.env.type = "message.new"
  /\ h.pc \in {"insert", "index"} => Owner[h.dev] \in Members[h.env.conv]
  /\ h.pc # "insert" => Backed(h.env)
  /\ h.todo \in Seq(Members[h.env.conv])
  /\ \A d \in h.out : Owner[d] \in Members[h.env.conv]

Heard ==
  \A d \in Devices : \A i \in DOMAIN stream[d] :
    Backed(stream[d][i]) /\ Owner[d] \in Members[stream[d][i].conv]

EventInv == TypeOK /\ Heard /\ \A r \in Busy : Truthful(req[r])

\* Short sequences.
LEMMA ShortSeq ==
  ASSUME NEW S, NEW a \in S, NEW b \in S
  PROVE  <<a>> \in Seq(S) /\ <<a, b>> \in Seq(S)
  OBVIOUS

\* The two parts of a sequence that is not empty.
LEMMA HeadAndTail ==
  ASSUME NEW S, NEW s \in Seq(S), s # <<>>
  PROVE  Tail(s) \in Seq(S) /\ Head(s) \in S
  OBVIOUS

\* The members a send tells.
LEMMA SendOrderMembers ==
  \A c \in Convs, me \in Accounts :
    me \in Members[c] => SendOrder(c, me) \in Seq(Members[c])
<1> SUFFICES ASSUME NEW c \in Convs, NEW me \in Members[c]
             PROVE  SendOrder(c, me) \in Seq(Members[c])
  OBVIOUS
<1>1. CASE Peer(c, me) = me
  BY <1>1, ShortSeq, Zenon DEF SendOrder
<1>2. CASE Peer(c, me) # me
  <2>1. \E a \in Members[c] : a # me
    BY <1>2 DEF Peer
  <2>2. Peer(c, me) \in Members[c]
    BY <1>2, <2>1 DEF Peer
  <2> QED
    BY <1>2, <2>2, ShortSeq, Zenon DEF SendOrder
<1> QED
  BY <1>1, <1>2

\* What was true of the rows stays true.
LEMMA BackedStays ==
  ASSUME Grown, NEW e, Backed(e)
  PROVE  Backed(e)'
  BY DEF Grown, Backed

LEMMA TruthStays ==
  ASSUME Grown, NEW h, Truthful(h)
  PROVE  Truthful(h)'
<1>1. h.pc # "insert" => Backed(h.env)'
  BY BackedStays DEF Truthful
<1> QED
  BY <1>1 DEF Truthful

LEMMA HeardStays ==
  ASSUME Grown, Heard, UNCHANGED stream
  PROVE  Heard'
  BY BackedStays DEF Heard

\* The step is one of handler r alone, and r stays truthful or is done.
TruthfulStep(r) ==
  /\ \A s \in Reqs \ {r} : req'[s] = req[s]
  /\ (req[r] # None => Truthful(req[r]))'

\* Such a step keeps the invariant.
LEMMA TruthfulStepKeeps ==
  ASSUME EventInv, TypeOK', Grown, Heard', NEW r \in Reqs, TruthfulStep(r)
  PROVE  EventInv'
<1>1. ASSUME NEW s \in Reqs, s # r, req'[s] # None PROVE Truthful(req[s])'
  <2>1. PICK h : h = req[s]
    BY Zenon
  <2>2. req'[s] = h
    BY <1>1, <2>1 DEF TruthfulStep
  <2>3. Truthful(h)
    BY <1>1, <2>1, <2>2 DEF EventInv, Busy
  <2>4. Truthful(h)'
    BY <2>3, TruthStays
  <2> QED
    BY <2>2, <2>4 DEF Truthful
<1>2. \A s \in Busy' : Truthful(req[s])'
  BY <1>1 DEF Busy, TruthfulStep
<1> QED
  BY <1>2 DEF EventInv

\* What follows an insert: attachments, or the fan-out to the members.
LEMMA ProceedIsTruthful ==
  ASSUME TypeOK, NEW r \in Reqs, NEW d \in Devices, NEW e \in Envelope, NEW n \in Nat,
         Proceed(r, d, e, n), Owner[d] \in Members[e.conv], Backed(e)'
  PROVE  TruthfulStep(r)
<1> DEFINE i == Running("index", d, e, n, <<>>, {})
           f == Running("fanout", d, e, 0, SendOrder(e.conv, Owner[d]), {})
<1>1. req' = [req EXCEPT ![r] = IF n > 0 THEN i ELSE f]
  BY DEF Proceed, Goto
<1>2. SendOrder(e.conv, Owner[d]) \in Seq(Members[e.conv])
  BY SendOrderMembers, OwnerAssumption DEF Envelope
<1>3. Truthful(i)'
  BY DEF Truthful, Running
<1>4. Truthful(f)'
  BY <1>2 DEF Truthful, Running
<1> HIDE DEF i, f
<1>5. req'[r] \in {i, f} /\ \A s \in Reqs \ {r} : req'[s] = req[s]
  BY <1>1 DEF TypeOK
<1>6. Truthful(req[r])'
  BY <1>3, <1>4, <1>5 DEF Truthful
<1> QED
  BY <1>5, <1>6 DEF TruthfulStep

\* A fan-out that goes on says the same, to members.
LEMMA ContinueIsTruthful ==
  ASSUME TypeOK, Grown, NEW r \in Reqs, NEW todo, NEW out,
         Truthful(req[r]), req[r].pc # "insert",
         todo \in Seq(Members[req[r].env.conv]),
         \A d \in out : Owner[d] \in Members[req[r].env.conv],
         Continue(r, todo, out)
  PROVE  TruthfulStep(r)
<1>1. PICK e, d : e = req[r].env /\ d = req[r].dev
  BY Zenon
<1> DEFINE f == Running("fanout", d, e, 0, todo, out)
<1>2. req' = [req EXCEPT ![r] = IF todo = <<>> /\ out = {} THEN None ELSE f]
  BY <1>1 DEF Continue, Goto
<1>3. Backed(e)'
  <2>1. Backed(e)
    BY <1>1, Zenon DEF Truthful
  <2> QED
    BY <2>1, BackedStays
<1>4. Truthful(f)'
  BY <1>1, <1>3 DEF Truthful, Running
<1> HIDE DEF f
<1>5. req'[r] \in {None, f} /\ \A s \in Reqs \ {r} : req'[s] = req[s]
  BY <1>2, Zenon DEF TypeOK
<1>6. req'[r] # None => Truthful(req[r])'
  BY <1>4, <1>5 DEF Truthful
<1> QED
  BY <1>5, <1>6 DEF TruthfulStep

\* Every action of a handler and every failure keeps the events backed.
LEMMA StepEvents == EventInv /\ [Next]_vars => EventInv'
<1> SUFFICES ASSUME EventInv, [Next]_vars PROVE EventInv'
  OBVIOUS
<1>0. TypeOK /\ TypeOK' /\ Grown
  BY StepType, RowsGrow DEF EventInv
<1>1. \A r \in Reqs : req[r] # None => Truthful(req[r]) /\ req[r] \in Handler
  BY <1>0 DEF EventInv, Busy, TypeOK
<1>2. ASSUME NEW r \in Reqs, TruthfulStep(r), UNCHANGED stream PROVE EventInv'
  <2>1. Heard'
    BY <1>0, <1>2, HeardStays DEF EventInv
  <2> QED
    BY <1>0, <1>2, <2>1, TruthfulStepKeeps
<1>3. ASSUME NEW r \in Reqs, NEW h, Start(r, h), Truthful(h)' PROVE TruthfulStep(r)
  <2>1. req'[r] = h /\ \A s \in Reqs \ {r} : req'[s] = req[s]
    BY <1>0, <1>3 DEF Start, TypeOK
  <2>2. Truthful(req[r])'
    BY <1>3, <2>1 DEF Truthful
  <2> QED
    BY <2>1, <2>2 DEF TruthfulStep
<1>4. ASSUME NEW r \in Reqs, NEW d \in Devices, NEW c \in Convs,
             NEW t \in Texts, NEW n \in 0..MaxAtts, SendMessage(r, d, c, t, n)
      PROVE  EventInv'
  <2>1. PICK k : k = NextSeq(c)
    BY Zenon
  <2> DEFINE h == Running("insert", d, Event("message.new", c, None, k, t), n, <<>>, {})
  <2>2. Start(r, h) /\ UNCHANGED stream /\ Owner[d] \in Members[c]
    BY <1>4, <2>1 DEF SendMessage
  <2>3. Truthful(h)'
    BY <2>2 DEF Truthful, Running, Event
  <2> HIDE DEF h
  <2> QED
    BY <1>2, <1>3, <2>2, <2>3
<1>5. ASSUME NEW r \in Reqs, NEW m \in MsgIds, InsertMessage(r, m) PROVE EventInv'
  <2>1. PICK e, d, n : e = req[r].env /\ d = req[r].dev /\ n = req[r].atts
    BY Zenon
  <2>2. /\ req[r] \in Handler /\ e \in Envelope /\ d \in Devices /\ n \in Nat
        /\ e.type = "message.new" /\ Owner[d] \in Members[e.conv]
    BY <1>1, <1>5, <2>1 DEF InsertMessage, At, Truthful, Handler
  <2> DEFINE x == Named(e, m)
  <2>3. /\ x \in Envelope /\ x.msg = m /\ x.conv = e.conv /\ x.seq = e.seq
        /\ x.type = "message.new"
    BY <2>2 DEF Named, Event, Envelope
  <2>4. /\ messages'[m] # None
        /\ messages'[m].conv = e.conv
        /\ messages'[m].seq = e.seq
    <3> DEFINE row == [conv |-> e.conv, seq |-> e.seq, sender |-> Owner[d], device |-> d,
                       text |-> e.text, edited |-> FALSE, deleted |-> FALSE]
    <3>1. messages' = [messages EXCEPT ![m] = row]
      BY <1>5, <2>1 DEF InsertMessage
    <3>2. row \in Row /\ row.conv = e.conv /\ row.seq = e.seq
      BY <2>2, OwnerAssumption, Zenon DEF Row, Envelope
    <3> HIDE DEF row
    <3> QED
      BY <1>0, <3>1, <3>2, NoneAssumption DEF TypeOK
  <2>5. Proceed(r, d, x, n) /\ UNCHANGED stream
    BY <1>5, <2>1 DEF InsertMessage
  <2> HIDE DEF x
  <2>6. Backed(x)'
    BY <2>3, <2>4 DEF Backed, Stored
  <2>7. TruthfulStep(r)
    BY <1>0, <2>2, <2>3, <2>5, <2>6, ProceedIsTruthful
  <2> QED
    BY <1>2, <2>5, <2>7
<1>6. ASSUME NEW r \in Reqs, RecordMedia(r) PROVE EventInv'
  <2>1. PICK e, d, n : e = req[r].env /\ d = req[r].dev /\ n = req[r].atts - 1
    BY Zenon
  <2>2. /\ e \in Envelope /\ d \in Devices /\ n \in Nat
        /\ Backed(e) /\ Owner[d] \in Members[e.conv]
    BY <1>1, <1>6, <2>1 DEF RecordMedia, At, Truthful, Handler
  <2>3. Proceed(r, d, e, n) /\ UNCHANGED stream
    BY <1>6, <2>1 DEF RecordMedia
  <2>4. Backed(e)'
    BY <1>0, <2>2, BackedStays
  <2>5. TruthfulStep(r)
    BY <1>0, <2>2, <2>3, <2>4, ProceedIsTruthful
  <2> QED
    BY <1>2, <2>3, <2>5
<1>7. ASSUME NEW r \in Reqs, NEW d \in Devices, NEW m \in MsgIds, NEW t \in Texts,
             EditMessage(r, d, m, t)
      PROVE  EventInv'
  <2>1. PICK c : c = messages[m].conv
    BY Zenon
  <2> DEFINE e == Event("message.edited", c, m, 0, t)
             h == Running("members", d, e, 0, <<>>, {})
             row == Rewritten(messages[m], t, TRUE, FALSE)
  <2>2. Start(r, h) /\ UNCHANGED stream /\ m \in Stored
        /\ messages' = [messages EXCEPT ![m] = row]
    BY <1>7, <2>1 DEF EditMessage, Editable, Edited, Stored
  <2>3. row.conv = c /\ row.edited
    BY <2>1 DEF Rewritten
  <2> HIDE DEF row
  <2>4. m \in Stored' /\ messages'[m].conv = c /\ messages'[m].edited
    BY <1>0, <2>2, <2>3 DEF Grown, TypeOK
  <2>5. Backed(e)'
    BY <2>4, Zenon DEF Backed, Event
  <2>6. Truthful(h)'
    BY <2>5 DEF Truthful, Running
  <2> HIDE DEF h
  <2> QED
    BY <1>2, <1>3, <2>2, <2>6
<1>8. ASSUME NEW r \in Reqs, NEW d \in Devices, NEW m \in MsgIds, DeleteMessage(r, d, m)
      PROVE  EventInv'
  <2>1. PICK c : c = messages[m].conv
    BY Zenon
  <2> DEFINE e == Event("message.deleted", c, m, 0, Empty)
             h == Running("unindex", d, e, 0, <<>>, {})
             row == Rewritten(messages[m], Empty, messages[m].edited, TRUE)
  <2>2. Start(r, h) /\ UNCHANGED stream /\ m \in Stored
        /\ messages' = [messages EXCEPT ![m] = row]
    BY <1>8, <2>1 DEF DeleteMessage, Tombstone, Stored
  <2>3. row.conv = c /\ row.deleted
    BY <2>1 DEF Rewritten
  <2> HIDE DEF row
  <2>4. m \in Stored' /\ messages'[m].conv = c /\ messages'[m].deleted
    BY <1>0, <2>2, <2>3 DEF Grown, TypeOK
  <2>5. Backed(e)'
    BY <2>4, Zenon DEF Backed, Event
  <2>6. Truthful(h)'
    BY <2>5 DEF Truthful, Running
  <2> HIDE DEF h
  <2> QED
    BY <1>2, <1>3, <2>2, <2>6
<1>9. ASSUME NEW r \in Reqs, UnindexMedia(r) PROVE EventInv'
  <2>1. PICK e, d : e = req[r].env /\ d = req[r].dev
    BY Zenon
  <2> DEFINE h == Running("members", d, e, 0, <<>>, {})
  <2>2. req' = [req EXCEPT ![r] = h] /\ UNCHANGED stream
    BY <1>9, <2>1, Zenon DEF UnindexMedia, Goto
  <2>3. Backed(e)
    BY <1>1, <1>9, <2>1 DEF UnindexMedia, At, Truthful
  <2>4. Backed(e)'
    BY <1>0, <2>3, BackedStays, Zenon
  <2>5. Truthful(h)'
    BY <2>4 DEF Truthful, Running
  <2> HIDE DEF h
  <2>6. req'[r] = h /\ \A s \in Reqs \ {r} : req'[s] = req[s]
    BY <1>0, <2>2 DEF TypeOK
  <2>7. Truthful(req[r])'
    BY <2>5, <2>6 DEF Truthful
  <2> QED
    BY <1>2, <2>2, <2>6, <2>7 DEF TruthfulStep
<1>10. ASSUME NEW r \in Reqs, ListMembers(r) PROVE EventInv'
  <2>1. /\ Truthful(req[r]) /\ req[r].pc # "insert" /\ req[r].env.conv \in Convs
        /\ UNCHANGED stream
    BY <1>1, <1>10 DEF ListMembers, At, Handler, Envelope
  <2>2. PICK todo \in Orders(Members[req[r].env.conv]) : Continue(r, todo, {})
    BY <1>10 DEF ListMembers
  <2>3. todo \in Seq(Members[req[r].env.conv])
    BY <2>1, OrdersMembers
  <2>4. TruthfulStep(r)
    BY <1>0, <2>1, <2>2, <2>3, ContinueIsTruthful
  <2> QED
    BY <1>2, <2>1, <2>4, Zenon
<1>11. ASSUME NEW r \in Reqs, ListDevices(r) \/ ListDevicesFails(r) PROVE EventInv'
  <2>1. /\ Truthful(req[r]) /\ req[r].pc # "insert" /\ req[r].todo # <<>>
        /\ UNCHANGED stream
    BY <1>1, <1>11 DEF ListDevices, ListDevicesFails, At
  <2>2. PICK todo, out, S : todo = Tail(req[r].todo)
                            /\ out = Recipients(Head(req[r].todo), req[r].dev)
                            /\ S = Members[req[r].env.conv]
    BY Zenon
  <2>3. req[r].todo \in Seq(S)
    BY <2>1, <2>2 DEF Truthful
  <2>4. todo \in Seq(S) /\ Head(req[r].todo) \in S
    BY <2>1, <2>2, <2>3, HeadAndTail, Zenon
  <2>5. \A d \in out : Owner[d] \in S
    BY <2>2, <2>4 DEF Recipients, DevicesOf
  <2>6. Continue(r, todo, out) \/ Continue(r, todo, {})
    BY <1>11, <2>2, Zenon DEF ListDevices, ListDevicesFails
  <2>7. CASE Continue(r, todo, out)
    BY <1>0, <1>2, <2>1, <2>2, <2>4, <2>5, <2>7, ContinueIsTruthful, Zenon
  <2>8. CASE Continue(r, todo, {})
    BY <1>0, <1>2, <2>1, <2>2, <2>4, <2>8, ContinueIsTruthful
  <2> QED
    BY <2>6, <2>7, <2>8
<1>12. ASSUME NEW r \in Reqs, NEW d \in Devices, Publish(r, d) PROVE EventInv'
  <2>1. /\ Truthful(req[r]) /\ req[r].pc # "insert" /\ d \in req[r].out
        /\ req[r].env \in Envelope
    BY <1>1, <1>12 DEF Publish, At, Handler
  <2>2. PICK todo, out, e : todo = req[r].todo /\ out = req[r].out \ {d} /\ e = req[r].env
    BY Zenon
  <2>3. Continue(r, todo, out)
    BY <1>12, <2>2, Zenon DEF Publish
  <2>4. TruthfulStep(r)
    BY <1>0, <2>1, <2>2, <2>3, ContinueIsTruthful DEF Truthful
  <2>5. Backed(e)' /\ Owner[d] \in Members[e.conv]
    <3>1. Backed(e) /\ Owner[d] \in Members[e.conv]
      BY <2>1, <2>2, Zenon DEF Truthful
    <3> QED
      BY <1>0, <3>1, BackedStays
  <2>6. Heard'
    <3> SUFFICES ASSUME NEW x \in Devices, NEW i \in DOMAIN stream'[x]
                 PROVE  Backed(stream[x][i])' /\ Owner[x] \in Members[stream'[x][i].conv]
      BY DEF Heard
    <3>1. PICK y : y = stream'[x][i]
      BY Zenon
    <3>2. \/ i \in DOMAIN stream[x] /\ y = stream[x][i]
          \/ x = d /\ y = e
      BY <1>0, <1>12, <2>1, <2>2, <3>1 DEF Publish, TypeOK
    <3>3. Backed(y)' /\ Owner[x] \in Members[y.conv]
      <4>1. CASE i \in DOMAIN stream[x] /\ y = stream[x][i]
        <5>1. Backed(y) /\ Owner[x] \in Members[y.conv]
          BY <4>1 DEF EventInv, Heard
        <5> QED
          BY <1>0, <5>1, BackedStays
      <4>2. CASE x = d /\ y = e
        BY <2>5, <4>2
      <4> QED
        BY <3>2, <4>1, <4>2
    <3> QED
      BY <3>1, <3>3, Zenon DEF Backed
  <2> QED
    BY <1>0, <2>4, <2>6, TruthfulStepKeeps
<1>13. ASSUME NEW r \in Reqs, ListMembersFails(r) \/ Abort(r) PROVE EventInv'
  <2>1. req'[r] = None /\ UNCHANGED stream /\ \A s \in Reqs \ {r} : req'[s] = req[s]
    BY <1>0, <1>13 DEF ListMembersFails, Abort, Done, Goto, TypeOK
  <2> QED
    BY <1>2, <2>1 DEF TruthfulStep
<1>14. ASSUME UNCHANGED <<stream, req>> PROVE EventInv'
  <2>1. CASE Reqs = {}
    <3>1. Heard'
      BY <1>0, <1>14, HeardStays DEF EventInv
    <3> QED
      BY <1>0, <2>1, <3>1 DEF EventInv, Busy
  <2>2. ASSUME NEW r \in Reqs PROVE TruthfulStep(r)
    <3>1. PICK h : h = req[r]
      BY Zenon
    <3>2. h # None => Truthful(h)'
      BY <1>0, <1>1, <3>1, TruthStays
    <3>3. req'[r] # None => Truthful(req[r])'
      BY <1>14, <3>1, <3>2 DEF Truthful
    <3> QED
      BY <1>14, <3>3 DEF TruthfulStep
  <2> QED
    BY <1>2, <1>14, <2>1, <2>2
<1>15. ASSUME NEW d \in Devices, NEW m \in MsgIds, HideMessage(d, m) PROVE EventInv'
  BY <1>14, <1>15 DEF HideMessage
<1>16. CASE UNCHANGED vars
  BY <1>14, <1>16 DEF vars
<1> QED
  BY <1>4, <1>5, <1>6, <1>7, <1>8, <1>9, <1>10, <1>11, <1>12, <1>13, <1>15, <1>16
  DEF Next, Step, Fault, Call

LEMMA InitEvents == Init => EventInv
  BY InitType, SMTT(20) DEF Init, EventInv, Heard, Busy

\* Every event on a device's stream is true of the tables and was meant for
\* a member of the conversation, however its handler and all others ended.
THEOREM EventsTellTheTruth == Spec => []EventsAreBacked
<1>1. EventInv => EventsAreBacked
  BY DEF EventInv, Heard, Backed, EventsAreBacked
<1> QED
  BY <1>1, InitEvents, StepEvents, PTL DEF Spec

(***************************************************************************)
(* The fan-out, for the theorems about who is told, below, and about what  *)
(* a client has (Delivery_proof).  Which devices a handler is still to     *)
(* tell (Due) changes with its publications alone.  That needs the         *)
(* accounts in its queue to be different ones, and none of them that of a  *)
(* device it is publishing to (Orderly).                                   *)
(***************************************************************************)
\* The accounts of a queue.
Listed(todo) == {todo[i] : i \in DOMAIN todo}

\* Handler h is still to publish its event to device d.
Due(h, d) ==
  /\ d # h.dev
  /\ Owner[d] \in Members[h.env.conv]
  /\ h.pc = "fanout" => d \in h.out \/ Owner[d] \in Listed(h.todo)

\* A queue of at most two different accounts of S.
IsQueue(todo, S) ==
  \/ todo = <<>>
  \/ \E a \in S : todo = <<a>>
  \/ \E a \in S, b \in S : a # b /\ todo = <<a, b>>

Orderly(h) ==
  /\ h.pc = "insert" => h.env.msg = None
  /\ h.pc = "fanout" =>
       /\ IsQueue(h.todo, Members[h.env.conv])
       /\ \A d \in h.out : /\ d # h.dev
                           /\ Owner[d] \in Members[h.env.conv]
                           /\ Owner[d] \notin Listed(h.todo)

\* A queue and what is left of it when its first account is taken.
LEMMA QueueEnds ==
  ASSUME NEW S, NEW s, IsQueue(s, S), s # <<>>
  PROVE  /\ IsQueue(Tail(s), S)
         /\ Head(s) \in S
         /\ Head(s) \notin Listed(Tail(s))
         /\ Listed(s) = {Head(s)} \cup Listed(Tail(s))
<1>1. Listed(<<>>) = {}
  BY DEF Listed
<1>2. ASSUME NEW a PROVE Listed(<<a>>) = {a} /\ Head(<<a>>) = a /\ Tail(<<a>>) = <<>>
  BY DEF Listed
<1>3. ASSUME NEW a, NEW b
      PROVE  Listed(<<a, b>>) = {a, b} /\ Head(<<a, b>>) = a /\ Tail(<<a, b>>) = <<b>>
  <2>1. DOMAIN <<a, b>> = {1, 2} /\ <<a, b>>[1] = a /\ <<a, b>>[2] = b
    OBVIOUS
  <2>2. Listed(<<a, b>>) = {a, b}
    BY <2>1 DEF Listed
  <2> QED
    BY <2>2
<1>4. CASE \E a \in S : s = <<a>>
  <2>1. PICK a \in S : s = <<a>>
    BY <1>4
  <2>2. Listed(s) = {a} /\ Head(s) = a /\ Tail(s) = <<>>
    BY <1>2, <2>1
  <2> QED
    BY <1>1, <2>2, Zenon DEF IsQueue
<1>5. CASE \E a \in S, b \in S : a # b /\ s = <<a, b>>
  <2>1. PICK a \in S, b \in S : a # b /\ s = <<a, b>>
    BY <1>5
  <2>2. Listed(s) = {a, b} /\ Head(s) = a /\ Tail(s) = <<b>> /\ Listed(<<b>>) = {b}
    BY <1>2, <1>3, <2>1
  <2>3. IsQueue(<<b>>, S)
    BY DEF IsQueue
  <2> QED
    BY <2>1, <2>2, <2>3
<1> QED
  BY <1>4, <1>5 DEF IsQueue

\* The queues of an edit or a delete, and of a send, are all members.
LEMMA OrdersAreQueues ==
  ASSUME NEW c \in Convs, NEW s \in Orders(Members[c])
  PROVE  IsQueue(s, Members[c]) /\ s # <<>> /\ Listed(s) = Members[c]
<1> DEFINE S == Members[c]
<1>1. /\ s \in {<<a>> : a \in S} \cup (S \X S)
      /\ \A a \in S : \E i \in DOMAIN s : s[i] = a
      /\ \A i, j \in DOMAIN s : s[i] = s[j] => i = j
  BY DEF Orders
<1>2. CASE \E a \in S : s = <<a>>
  BY <1>1, <1>2 DEF IsQueue, Listed
<1>3. CASE s \in S \X S
  <2>1. PICK a \in S, b \in S : s = <<a, b>>
    BY <1>3
  <2>2. a # b
    BY <1>1, <2>1
  <2> QED
    BY <1>1, <2>1, <2>2 DEF IsQueue, Listed
<1> QED
  BY <1>1, <1>2, <1>3

LEMMA SendOrderIsQueue ==
  ASSUME NEW c \in Convs, NEW me \in Members[c]
  PROVE  /\ IsQueue(SendOrder(c, me), Members[c])
         /\ SendOrder(c, me) # <<>>
         /\ Listed(SendOrder(c, me)) = Members[c]
<1>1. CASE Members[c] = {me}
  <2>1. SendOrder(c, me) = <<me>>
    BY <1>1 DEF SendOrder, Peer
  <2> QED
    BY <1>1, <2>1 DEF IsQueue, Listed
<1>2. CASE Members[c] # {me}
  <2>1. \E a \in Members[c] : a # me
    BY <1>2
  <2>2. PICK p : p = Peer(c, me)
    BY Zenon
  <2>3. p \in Members[c] /\ p # me
    BY <1>2, <2>1, <2>2 DEF Peer
  <2>4. SendOrder(c, me) = <<p, me>>
    BY <2>2, <2>3 DEF SendOrder
  <2>5. Members[c] = {p, me}
    BY <2>3, MembersAssumption
  <2> QED
    BY <2>3, <2>4, <2>5 DEF IsQueue, Listed
<1> QED
  BY <1>1, <1>2

(***************************************************************************)
(* A handler that goes on                                                  *)
(***************************************************************************)
\* From h to g nobody is told, and the same devices are still to be told.
Follows(h, g) ==
  IF g = None
  THEN \A d \in Devices : ~Due(h, d)
  ELSE /\ g.env = h.env
       /\ g.dev = h.dev
       /\ \A d \in Devices : Due(g, d) <=> Due(h, d)

\* The record of a handler past its insertion.
LEMMA RunningIsHandler ==
  ASSUME NEW stage \in Stages, NEW d \in Devices, NEW e \in Envelope, e.msg \in MsgIds,
         NEW n \in Nat, NEW todo \in Seq(Accounts), NEW out \in SUBSET Devices
  PROVE  Running(stage, d, e, n, todo, out) \in Handler
  BY DEF Running, Handler

\* From h the fan-out goes on as g, with this queue and these devices left.
Onward(h, g, todo, out) ==
  IF g = None
  THEN todo = <<>> /\ out = {}
  ELSE /\ Orderly(g)
       /\ g.env = h.env
       /\ g.dev = h.dev
       /\ \A d \in Devices : Due(g, d) <=> /\ d # h.dev
                                           /\ Owner[d] \in Members[h.env.conv]
                                           /\ d \in out \/ Owner[d] \in Listed(todo)

LEMMA ContinueMoves ==
  ASSUME TypeOK, NEW r \in Reqs, NEW h \in Handler, h = req[r], h.pc # "insert",
         NEW todo, NEW out, Continue(r, todo, out),
         IsQueue(todo, Members[h.env.conv]), todo \in Seq(Accounts), out \subseteq Devices,
         \A d \in out : /\ d # h.dev
                        /\ Owner[d] \in Members[h.env.conv]
                        /\ Owner[d] \notin Listed(todo)
  PROVE  /\ \A s \in Reqs \ {r} : req'[s] = req[s]
         /\ Onward(h, req'[r], todo, out)
<1> DEFINE g == Running("fanout", h.dev, h.env, 0, todo, out)
<1>1. req' = [req EXCEPT ![r] = IF todo = <<>> /\ out = {} THEN None ELSE g]
  BY Zenon DEF Continue, Goto
<1>2. g \in Handler
  <2>1. /\ "fanout" \in Stages /\ 0 \in Nat /\ h.dev \in Devices /\ h.env \in Envelope
        /\ h.env.msg \in MsgIds
    BY DEF Handler, Stages
  <2> QED
    BY <2>1, RunningIsHandler, Zenon
<1>3. g # None
  BY <1>2, NoneAssumption, Zenon
<1>4. /\ g.env = h.env /\ g.dev = h.dev /\ g.pc = "fanout" /\ g.todo = todo
      /\ g.out = out
  BY Zenon DEF Running
<1> HIDE DEF g
<1>5. Orderly(g)
  BY <1>4, Zenon DEF Orderly
<1>6. \A d \in Devices :
        Due(g, d) <=> /\ d # h.dev
                      /\ Owner[d] \in Members[h.env.conv]
                      /\ d \in out \/ Owner[d] \in Listed(todo)
  <2> TAKE d \in Devices
  <2>1. Due(g, d) <=> /\ d # g.dev
                      /\ Owner[d] \in Members[g.env.conv]
                      /\ d \in g.out \/ Owner[d] \in Listed(g.todo)
    BY <1>4, Zenon DEF Due
  <2>2. Listed(g.todo) = Listed(todo)
    BY <1>4
  <2> QED
    BY <1>4, <2>1, <2>2
<1>7. \A s \in Reqs \ {r} : req'[s] = req[s]
  BY <1>1, Zenon DEF TypeOK
<1>8. Onward(h, None, <<>>, {}) /\ Onward(h, g, todo, out)
  BY <1>3, <1>4, <1>5, <1>6 DEF Onward
<1>9. CASE todo = <<>> /\ out = {}
  BY <1>1, <1>7, <1>8, <1>9 DEF TypeOK
<1>10. CASE ~(todo = <<>> /\ out = {})
  BY <1>1, <1>7, <1>8, <1>10 DEF TypeOK
<1> QED
  BY <1>9, <1>10

\* An edit or a delete that lists the members tells them all.
LEMMA MembersFollow ==
  ASSUME TypeOK, NEW r \in Reqs, NEW h \in Handler, h = req[r], ListMembers(r)
  PROVE  /\ \A s \in Reqs \ {r} : req'[s] = req[s]
         /\ req'[r] # None => Orderly(req'[r])
         /\ Follows(h, req'[r])
<1>1. h.pc = "members" /\ h.env.conv \in Convs
  BY Zenon DEF ListMembers, At, Handler, Envelope
<1>2. PICK todo \in Orders(Members[h.env.conv]) : Continue(r, todo, {})
  BY DEF ListMembers
<1>3. /\ IsQueue(todo, Members[h.env.conv]) /\ todo # <<>>
      /\ Listed(todo) = Members[h.env.conv] /\ todo \in Seq(Accounts)
  BY <1>1, OrdersAreQueues, OrdersType, Zenon
<1>4. (\A s \in Reqs \ {r} : req'[s] = req[s]) /\ Onward(h, req'[r], todo, {})
  <2>1. PICK out : out = {}
    BY Zenon
  <2>2. h.pc # "insert" /\ out \subseteq Devices /\ \A d : d \notin out
    BY <1>1, <2>1
  <2>3. Continue(r, todo, out)
    BY <1>2, <2>1, Zenon
  <2> QED
    BY <1>3, <2>1, <2>2, <2>3, ContinueMoves, Zenon
<1>5. \A d \in Devices : Due(h, d) <=> d # h.dev /\ Owner[d] \in Members[h.env.conv]
  BY <1>1 DEF Due
<1>6. PICK g : g = req'[r]
  BY Zenon
<1>7. (g # None => Orderly(g)) /\ Follows(h, g)
  BY <1>3, <1>4, <1>5, <1>6, Zenon DEF Follows, Onward
<1> QED
  BY <1>4, <1>6, <1>7, Zenon

\* Listing the devices of the next account changes nothing for anyone.
LEMMA DevicesFollow ==
  ASSUME TypeOK, NEW r \in Reqs, NEW h \in Handler, h = req[r], Orderly(h), ListDevices(r)
  PROVE  /\ \A s \in Reqs \ {r} : req'[s] = req[s]
         /\ req'[r] # None => Orderly(req'[r])
         /\ Follows(h, req'[r])
<1>1. /\ h.pc = "fanout" /\ h.out = {} /\ h.todo # <<>> /\ h.todo \in Seq(Accounts)
      /\ IsQueue(h.todo, Members[h.env.conv])
  BY DEF ListDevices, At, Handler, Orderly
<1>2. PICK s, S, todo, a, out :
        /\ s = h.todo /\ S = Members[h.env.conv]
        /\ todo = Tail(s) /\ a = Head(s) /\ out = Recipients(a, h.dev)
  BY Zenon
<1>3. /\ IsQueue(todo, Members[h.env.conv]) /\ a \in Members[h.env.conv]
      /\ a \notin Listed(todo) /\ Listed(h.todo) = {a} \cup Listed(todo)
  <2>1. IsQueue(s, S) /\ s # <<>>
    BY <1>1, <1>2
  <2>2. /\ IsQueue(todo, S) /\ a \in S /\ a \notin Listed(todo)
        /\ Listed(s) = {a} \cup Listed(todo)
    BY <1>2, <2>1, QueueEnds, Zenon
  <2> QED
    BY <1>2, <2>2, Zenon
<1>4. todo \in Seq(Accounts)
  BY <1>1, <1>2, HeadAndTail, Zenon
<1>5. /\ out \subseteq Devices
      /\ \A d \in Devices : d \in out <=> Owner[d] = a /\ d # h.dev
  BY <1>2, Zenon DEF Recipients, DevicesOf
<1>6. Continue(r, todo, out)
  BY <1>2 DEF ListDevices
<1>7. \A d \in out : /\ d # h.dev
                     /\ Owner[d] \in Members[h.env.conv]
                     /\ Owner[d] \notin Listed(todo)
  BY <1>3, <1>5, Zenon
<1>8. (\A x \in Reqs \ {r} : req'[x] = req[x]) /\ Onward(h, req'[r], todo, out)
  <2>1. h.pc # "insert"
    BY <1>1
  <2> QED
    BY <1>3, <1>4, <1>5, <1>6, <1>7, <2>1, ContinueMoves, Zenon
<1>9. \A d \in Devices :
        Due(h, d) <=> /\ d # h.dev
                      /\ Owner[d] \in Members[h.env.conv]
                      /\ d \in out \/ Owner[d] \in Listed(todo)
  BY <1>1, <1>3, <1>5 DEF Due
<1>10. todo = <<>> /\ out = {} => \A d \in Devices : ~Due(h, d)
  BY <1>9 DEF Listed
<1>11. PICK g : g = req'[r]
  BY Zenon
<1>12. (g # None => Orderly(g)) /\ Follows(h, g)
  BY <1>8, <1>9, <1>10, <1>11, Zenon DEF Follows, Onward
<1> QED
  BY <1>8, <1>11, <1>12, Zenon

\* A send that goes on after an insert still has all devices to tell.
LEMMA ProceedMoves ==
  ASSUME TypeOK, NEW r \in Reqs, NEW d \in Devices, NEW e \in Envelope, NEW n \in Nat,
         e.msg \in MsgIds, Proceed(r, d, e, n), Owner[d] \in Members[e.conv]
  PROVE  /\ \A s \in Reqs \ {r} : req'[s] = req[s]
         /\ req'[r] # None /\ Orderly(req'[r])
         /\ req'[r].env = e /\ req'[r].dev = d
         /\ \A x \in Devices :
              Due(req'[r], x) <=> x # d /\ Owner[x] \in Members[e.conv]
<1>1. PICK todo : todo = SendOrder(e.conv, Owner[d])
  BY Zenon
<1>2. /\ IsQueue(todo, Members[e.conv]) /\ Listed(todo) = Members[e.conv]
      /\ todo \in Seq(Accounts)
  BY <1>1, SendOrderIsQueue, SendOrderType, OwnerAssumption DEF Envelope
<1> DEFINE i == Running("index", d, e, n, <<>>, {})
           f == Running("fanout", d, e, 0, todo, {})
<1>3. req' = [req EXCEPT ![r] = IF n > 0 THEN i ELSE f]
  BY <1>1, Zenon DEF Proceed, Goto
<1>4. i \in Handler /\ f \in Handler
  <2>1. /\ "index" \in Stages /\ "fanout" \in Stages /\ 0 \in Nat
        /\ <<>> \in Seq(Accounts) /\ {} \in SUBSET Devices
    BY DEF Stages
  <2> QED
    BY <1>2, <2>1, RunningIsHandler, Zenon
<1>5. /\ i.env = e /\ i.dev = d /\ i.pc = "index"
      /\ f.env = e /\ f.dev = d /\ f.pc = "fanout" /\ f.todo = todo /\ f.out = {}
  BY DEF Running
<1> HIDE DEF i, f
<1>6. i # None /\ f # None
  BY <1>4, NoneAssumption, Zenon
<1>7. Orderly(i) /\ Orderly(f)
  BY <1>2, <1>5, Zenon DEF Orderly
<1>8. \A x \in Devices :
        /\ Due(i, x) <=> x # d /\ Owner[x] \in Members[e.conv]
        /\ Due(f, x) <=> x # d /\ Owner[x] \in Members[e.conv]
  BY <1>2, <1>5, Zenon DEF Due
<1>9. req'[r] \in {i, f} /\ \A s \in Reqs \ {r} : req'[s] = req[s]
  BY <1>3, Zenon DEF TypeOK
<1>10. CASE req'[r] = i
  BY <1>5, <1>6, <1>7, <1>8, <1>9, <1>10, Zenon
<1>11. CASE req'[r] = f
  BY <1>5, <1>6, <1>7, <1>8, <1>9, <1>11, Zenon
<1> QED
  BY <1>9, <1>10, <1>11

\* A publication takes its device off those that are due.
LEMMA PublishMoves ==
  ASSUME TypeOK, NEW r \in Reqs, NEW h \in Handler, h = req[r], Orderly(h),
         NEW d \in Devices, Publish(r, d)
  PROVE  /\ \A s \in Reqs \ {r} : req'[s] = req[s]
         /\ req'[r] # None => Orderly(req'[r])
         /\ Due(h, d)
         /\ stream' = [stream EXCEPT ![d] = Append(stream[d], h.env)]
         /\ IF req'[r] = None THEN \A x \in Devices \ {d} : ~Due(h, x)
            ELSE /\ req'[r].env = h.env /\ req'[r].dev = h.dev /\ ~Due(req'[r], d)
                 /\ \A x \in Devices \ {d} : Due(req'[r], x) <=> Due(h, x)
<1>1. PICK todo, out : todo = h.todo /\ out = h.out \ {d}
  BY Zenon
<1>2. /\ h.pc = "fanout" /\ d \in h.out /\ todo \in Seq(Accounts) /\ h.out \subseteq Devices
      /\ Continue(r, todo, out)
      /\ stream' = [stream EXCEPT ![d] = Append(stream[d], h.env)]
  BY <1>1, Zenon DEF Publish, At, Handler
<1>3. /\ IsQueue(todo, Members[h.env.conv])
      /\ \A x \in h.out : /\ x # h.dev
                          /\ Owner[x] \in Members[h.env.conv]
                          /\ Owner[x] \notin Listed(todo)
  BY <1>1, <1>2, Zenon DEF Orderly
<1>4. /\ out \subseteq Devices
      /\ \A x \in out : /\ x # h.dev
                        /\ Owner[x] \in Members[h.env.conv]
                        /\ Owner[x] \notin Listed(todo)
  BY <1>1, <1>2, <1>3, Zenon
<1>5. (\A s \in Reqs \ {r} : req'[s] = req[s]) /\ Onward(h, req'[r], todo, out)
  BY <1>2, <1>3, <1>4, ContinueMoves
<1>6. \A x \in Devices : Due(h, x) <=> /\ x # h.dev
                                       /\ Owner[x] \in Members[h.env.conv]
                                       /\ x \in h.out \/ Owner[x] \in Listed(todo)
  BY <1>1, <1>2, Zenon DEF Due
<1>7. Due(h, d) /\ d \notin out /\ Owner[d] \notin Listed(todo)
  BY <1>1, <1>2, <1>3, <1>6, Zenon
<1>8. \A x \in Devices \ {d} : x \in out <=> x \in h.out
  BY <1>1
<1>9. todo = <<>> => Listed(todo) = {}
  BY DEF Listed
<1>10. PICK g : g = req'[r]
  BY Zenon
<1>11. /\ g # None => Orderly(g)
       /\ IF g = None THEN \A x \in Devices \ {d} : ~Due(h, x)
          ELSE /\ g.env = h.env /\ g.dev = h.dev /\ ~Due(g, d)
               /\ \A x \in Devices \ {d} : Due(g, x) <=> Due(h, x)
  BY <1>5, <1>6, <1>7, <1>8, <1>9, <1>10 DEF Onward
<1> QED
  BY <1>2, <1>5, <1>7, <1>10, <1>11

\* The steps between the statement on `messages` and the publications.
Prepares(r) == RecordMedia(r) \/ UnindexMedia(r) \/ ListMembers(r) \/ ListDevices(r)

\* They leave the same devices to be told.
LEMMA PreparesFollow ==
  ASSUME EventInv, NEW r \in Reqs, r \in Busy => Orderly(req[r]), Prepares(r)
  PROVE  /\ r \in Busy
         /\ UNCHANGED <<messages, hidden, stream>>
         /\ \A s \in Reqs \ {r} : req'[s] = req[s]
         /\ req'[r] # None => Orderly(req'[r])
         /\ Follows(req[r], req'[r])
<1>0. TypeOK
  BY DEF EventInv
<1>1. PICK h, e, d : h = req[r] /\ e = h.env /\ d = h.dev
  BY Zenon
<1>2. r \in Busy /\ UNCHANGED <<messages, hidden, stream>>
  BY Zenon DEF Prepares, RecordMedia, UnindexMedia, ListMembers, ListDevices, At, Busy, db
<1>3. h \in Handler /\ Truthful(h) /\ Orderly(h)
  BY <1>0, <1>1, <1>2, Zenon DEF EventInv, TypeOK, Busy
<1>4. CASE RecordMedia(r)
  <2>1. PICK n : n = h.atts - 1
    BY Zenon
  <2>2. h.pc = "index" /\ h.atts > 0 /\ Proceed(r, d, e, n)
    BY <1>1, <1>4, <2>1, Zenon DEF RecordMedia, At
  <2>3. /\ e \in Envelope /\ d \in Devices /\ n \in Nat /\ e.msg \in MsgIds
        /\ Owner[d] \in Members[e.conv]
    BY <1>1, <1>3, <2>1, <2>2, SMTT(20) DEF Handler, Truthful
  <2>4. /\ \A s \in Reqs \ {r} : req'[s] = req[s]
        /\ req'[r] # None /\ Orderly(req'[r])
        /\ req'[r].env = e /\ req'[r].dev = d
        /\ \A x \in Devices : Due(req'[r], x) <=> x # d /\ Owner[x] \in Members[e.conv]
    BY <1>0, <2>2, <2>3, ProceedMoves
  <2>5. \A x \in Devices : Due(h, x) <=> x # d /\ Owner[x] \in Members[e.conv]
    BY <1>1, <2>2, Zenon DEF Due
  <2>6. Follows(req[r], req'[r])
    BY <1>1, <2>4, <2>5 DEF Follows
  <2> QED
    BY <1>2, <2>4, <2>6, Zenon
<1>5. CASE UnindexMedia(r)
  <2> DEFINE g == Running("members", d, e, 0, <<>>, {})
  <2>1. h.pc = "unindex" /\ req' = [req EXCEPT ![r] = g]
    BY <1>1, <1>5, Zenon DEF UnindexMedia, At, Goto
  <2>2. g \in Handler /\ g.pc = "members" /\ g.dev = d /\ g.env = e
    BY <1>1, <1>3, <2>1 DEF Handler, Running, Stages
  <2> HIDE DEF g
  <2>3. req'[r] = g /\ g # None /\ \A s \in Reqs \ {r} : req'[s] = req[s]
    BY <1>0, <2>1, <2>2, NoneAssumption, Zenon DEF TypeOK
  <2>4. Orderly(g)
    BY <2>2, Zenon DEF Orderly
  <2>5. Follows(h, g)
    BY <1>1, <2>1, <2>2, <2>3 DEF Follows, Due
  <2> QED
    BY <1>1, <1>2, <2>3, <2>4, <2>5, Zenon
<1>6. CASE ListMembers(r)
  BY <1>0, <1>1, <1>2, <1>3, <1>6, MembersFollow, Zenon
<1>7. CASE ListDevices(r)
  BY <1>0, <1>1, <1>2, <1>3, <1>7, DevicesFollow, Zenon
<1> QED
  BY <1>4, <1>5, <1>6, <1>7, Zenon DEF Prepares

(***************************************************************************)
(* EveryoneIsTold where no statement fails.                                *)
(*                                                                         *)
(* At any time a device of the audience has been told once, or it called,  *)
(* or one handler is still to tell it (Due).  Each step of a handler keeps *)
(* that up: it creates the event and everybody is due, it goes on and the  *)
(* same devices are due (Follows), or it publishes and one device goes     *)
(* from due to told.                                                       *)
(***************************************************************************)
\* The event of handler h is of this type and about message m.
About(h, type, m) == h.env.type = type /\ h.env.msg = m

\* The event of this type about m, for which this device called, has been
\* published to all devices but those some handler is still to tell.
Spread(type, m, caller) ==
  /\ \A r, s \in Busy : About(req[r], type, m) /\ About(req[s], type, m) => r = s
  /\ \A r \in Busy : About(req[r], type, m) => req[r].dev = caller
  /\ \A d \in Audience(m) :
       IF d = caller \/ \E r \in Busy : About(req[r], type, m) /\ Due(req[r], d)
       THEN Told(d, type, m) = {} ELSE ToldOnce(d, type, m)

ToldInv ==
  /\ EventInv
  /\ \A r \in Busy : Orderly(req[r])
  /\ \A m \in Stored :
       /\ Spread("message.new", m, messages[m].device)
       /\ messages[m].deleted =>
            \E asker \in Audience(m) : Spread("message.deleted", m, asker)

\* A step that leaves the messages, the streams and the handlers alone.
LEMMA NothingMoves ==
  ASSUME ToldInv, EventInv', UNCHANGED <<messages, stream, req>>
  PROVE  ToldInv'
<1>1. (\A r \in Busy' : Orderly(req'[r])) /\ Stored' = Stored
  BY Zenon DEF ToldInv, Busy, Stored
<1>2. \A m \in Stored : \A type, c : Spread(type, m, c)' <=> Spread(type, m, c)
  BY SMTT(20) DEF Spread, Busy, Audience, Told, ToldOnce
<1>3. \A m \in Stored : Audience(m)' = Audience(m) /\ messages'[m] = messages[m]
  BY Zenon DEF Audience
<1>4. \A m \in Stored : Spread("message.new", m, messages[m].device)'
  <2> TAKE m \in Stored
  <2>1. PICK c : c = messages[m].device
    BY Zenon
  <2>2. Spread("message.new", m, c)'
    BY <1>2, <2>1, Zenon DEF ToldInv
  <2> QED
    BY <2>1, <2>2 DEF Spread
<1> QED
  BY <1>1, <1>2, <1>3, <1>4 DEF ToldInv

\* Handler r has nothing to do with the event.
Untouched(r, type, m) ==
  /\ req[r] # None => ~About(req[r], type, m)
  /\ req'[r] # None => ~About(req'[r], type, m)

LEMMA SpreadStays ==
  ASSUME NEW type, NEW m, NEW caller, Spread(type, m, caller),
         NEW r \in Reqs, \A s \in Reqs \ {r} : req'[s] = req[s],
         UNCHANGED stream, Audience(m)' = Audience(m),
         Untouched(r, type, m) \/ (req[r] # None /\ Follows(req[r], req'[r]))
  PROVE  Spread(type, m, caller)'
<1>1. ASSUME NEW s \in Reqs, req'[s] # None, About(req'[s], type, m)
      PROVE  /\ req[s] # None /\ About(req[s], type, m) /\ req'[s].dev = req[s].dev
             /\ \A d \in Devices : Due(req'[s], d) => Due(req[s], d)
  <2>1. CASE s = r
    BY <1>1, <2>1, SMTT(20) DEF Untouched, Follows, About
  <2>2. CASE s # r
    BY <1>1, <2>2, Zenon
  <2> QED
    BY <2>1, <2>2, Zenon
<1>2. ASSUME NEW s \in Reqs, req[s] # None, About(req[s], type, m),
             NEW d \in Devices, Due(req[s], d)
      PROVE  req'[s] # None /\ About(req'[s], type, m) /\ Due(req'[s], d)
  <2>1. CASE s = r
    BY <1>2, <2>1, Zenon DEF Untouched, Follows, About
  <2>2. CASE s # r
    BY <1>2, <2>2, Zenon
  <2> QED
    BY <2>1, <2>2, Zenon
<1>3. \A x, y \in Busy' : About(req'[x], type, m) /\ About(req'[y], type, m) => x = y
  BY <1>1, Zenon DEF Busy, Spread
<1>4. \A x \in Busy' : About(req'[x], type, m) => req'[x].dev = caller
  BY <1>1, Zenon DEF Busy, Spread
<1>5. ASSUME NEW d \in Audience(m)
      PROVE  IF d = caller \/ \E x \in Busy' : About(req'[x], type, m) /\ Due(req'[x], d)
             THEN Told(d, type, m)' = {} ELSE ToldOnce(d, type, m)'
  <2>1. d \in Devices
    BY Zenon DEF Audience
  <2>2. (\E x \in Busy' : About(req'[x], type, m) /\ Due(req'[x], d)) <=>
        (\E x \in Busy : About(req[x], type, m) /\ Due(req[x], d))
    BY <1>1, <1>2, <2>1, Zenon DEF Busy
  <2>3. Told(d, type, m)' = Told(d, type, m)
    BY Zenon DEF Told
  <2>4. ToldOnce(d, type, m)' <=> ToldOnce(d, type, m)
    BY <2>3, SMTT(20) DEF ToldOnce
  <2>5. IF d = caller \/ \E x \in Busy : About(req[x], type, m) /\ Due(req[x], d)
        THEN Told(d, type, m) = {} ELSE ToldOnce(d, type, m)
    BY Zenon DEF Spread
  <2> QED
    BY <2>2, <2>3, <2>4, <2>5, Zenon
<1> QED
  BY <1>3, <1>4, <1>5, Zenon DEF Spread

\* The places in a stream where an event of this type about m is.
Places(s, type, m) == {i \in DOMAIN s : s[i].type = type /\ s[i].msg = m}

\* One more event is one more place, or none.
LEMMA PlacesAppend ==
  ASSUME NEW s \in Seq(Envelope), NEW e, NEW type, NEW m
  PROVE  \A i : i \in Places(Append(s, e), type, m) <=>
                  \/ i \in Places(s, type, m)
                  \/ i = Len(s) + 1 /\ e.type = type /\ e.msg = m
<1>1. PICK n, t : n = Len(s) /\ t = Append(s, e)
  BY Zenon
<1>2. /\ n \in Nat /\ DOMAIN s = 1..n /\ DOMAIN t = 1..(n + 1)
      /\ t[n + 1] = e /\ \A i \in 1..n : t[i] = s[i]
  BY <1>1
<1>3. 1..(n + 1) = (1..n) \cup {n + 1}
  BY <1>2
<1>4. \A i : i \in Places(t, type, m) <=>
               \/ i \in Places(s, type, m)
               \/ i = n + 1 /\ e.type = type /\ e.msg = m
  <2>1. \A i : i \in Places(t, type, m) <=>
                 i \in (1..n) \cup {n + 1} /\ t[i].type = type /\ t[i].msg = m
    BY <1>2, <1>3 DEF Places
  <2>2. \A i : i \in Places(s, type, m) <=>
                 i \in 1..n /\ s[i].type = type /\ s[i].msg = m
    BY <1>2 DEF Places
  <2>3. PICK D, k : D = 1..n /\ k = n + 1
    BY Zenon
  <2>4. t[k] = e /\ \A i \in D : t[i] = s[i]
    BY <1>2, <2>3, SMTT(20)
  <2> QED
    BY <2>1, <2>2, <2>3, <2>4
<1> QED
  BY <1>1, <1>4

LEMMA PublishSpreads ==
  ASSUME TypeOK, NEW type, NEW m, NEW caller, Spread(type, m, caller),
         NEW r \in Reqs, NEW h \in Handler, h = req[r], Orderly(h),
         NEW d \in Devices, Publish(r, d), Audience(m)' = Audience(m)
  PROVE  Spread(type, m, caller)'
<1>0. h # None
  BY NoneAssumption, Zenon
<1>1. /\ \A s \in Reqs \ {r} : req'[s] = req[s]
      /\ Due(h, d)
      /\ stream' = [stream EXCEPT ![d] = Append(stream[d], h.env)]
      /\ IF req'[r] = None THEN \A x \in Devices \ {d} : ~Due(h, x)
         ELSE /\ req'[r].env = h.env /\ req'[r].dev = h.dev /\ ~Due(req'[r], d)
              /\ \A x \in Devices \ {d} : Due(req'[r], x) <=> Due(h, x)
  BY PublishMoves
<1>2. PICK e : e = h.env
  BY Zenon
<1>3. ASSUME NEW x \in Devices
      PROVE  /\ x = d /\ About(h, type, m) =>
                  Told(x, type, m)' = Told(x, type, m) \cup {Len(stream[d]) + 1}
             /\ ~(x = d /\ About(h, type, m)) => Told(x, type, m)' = Told(x, type, m)
  <2>1. PICK v : v = stream[d]
    BY Zenon
  <2>2. /\ v \in Seq(Envelope)
        /\ stream'[d] = Append(v, e)
        /\ \A y \in Devices \ {d} : stream'[y] = stream[y]
    BY <1>1, <1>2, <2>1, Zenon DEF TypeOK
  <2>3. /\ \A y \in Devices : Told(y, type, m) = Places(stream[y], type, m)
        /\ Told(x, type, m)' = Places(stream'[x], type, m)
    BY Zenon DEF Told, Places
  <2>4. \A i : i \in Places(Append(v, e), type, m) <=>
                 \/ i \in Places(v, type, m)
                 \/ i = Len(v) + 1 /\ e.type = type /\ e.msg = m
    BY ONLY <2>2, PlacesAppend, Zenon
  <2>5. CASE x = d
    <3>1. Told(x, type, m)' = Places(Append(v, e), type, m)
      BY <2>2, <2>3, <2>5, ZenonT(20)
    <3>2. Told(x, type, m) = Places(v, type, m)
      BY <2>1, <2>3, <2>5, Zenon
    <3> QED
      BY <1>2, <2>1, <2>4, <2>5, <3>1, <3>2 DEF About
  <2>6. CASE x # d
    BY <2>2, <2>3, <2>6, Zenon
  <2> QED
    BY <2>5, <2>6
<1>4. ASSUME NEW s \in Reqs, req'[s] # None, About(req'[s], type, m)
      PROVE  /\ req[s] # None /\ About(req[s], type, m) /\ req'[s].dev = req[s].dev
             /\ \A x \in Devices : Due(req'[s], x) => Due(req[s], x)
             /\ s = r => ~Due(req'[s], d)
  <2>1. CASE s = r
    BY <1>0, <1>1, <1>4, <2>1, Zenon DEF About
  <2>2. CASE s # r
    BY <1>1, <1>4, <2>2, SMTT(20)
  <2> QED
    BY <2>1, <2>2, Zenon
<1>5. ASSUME NEW s \in Reqs, req[s] # None, About(req[s], type, m),
             NEW x \in Devices, Due(req[s], x), s # r \/ x # d
      PROVE  req'[s] # None /\ About(req'[s], type, m) /\ Due(req'[s], x)
  <2>1. CASE s = r
    BY <1>1, <1>5, <2>1, Zenon DEF About
  <2>2. CASE s # r
    BY <1>1, <1>5, <2>2, Zenon
  <2> QED
    BY <2>1, <2>2, Zenon
<1>6. \A x, y \in Busy' : About(req'[x], type, m) /\ About(req'[y], type, m) => x = y
  BY <1>4, Zenon DEF Busy, Spread
<1>7. \A x \in Busy' : About(req'[x], type, m) => req'[x].dev = caller
  BY <1>4, SMTT(20) DEF Busy, Spread
<1>8. ASSUME NEW x \in Audience(m)
      PROVE  IF x = caller \/ \E s \in Busy' : About(req'[s], type, m) /\ Due(req'[s], x)
             THEN Told(x, type, m)' = {} ELSE ToldOnce(x, type, m)'
  <2>1. x \in Devices
    BY Zenon DEF Audience
  <2>2. IF x = caller \/ \E s \in Busy : About(req[s], type, m) /\ Due(req[s], x)
        THEN Told(x, type, m) = {} ELSE ToldOnce(x, type, m)
    BY Zenon DEF Spread
  <2>3. CASE x = d /\ About(h, type, m)
    <3>1. r \in Busy /\ h.dev = caller
      BY <1>0, <2>3, Zenon DEF Busy, Spread
    <3>2. Told(d, type, m) = {}
      BY <1>1, <2>2, <2>3, <3>1, Zenon
    <3>3. Told(d, type, m)' = {Len(stream[d]) + 1}
      BY <1>3, <2>3, <3>2
    <3>4. ToldOnce(d, type, m)'
      BY <3>3 DEF ToldOnce
    <3>5. d # caller
      BY <1>1, <3>1, Zenon DEF Due
    <3>6. ~\E s \in Busy' : About(req'[s], type, m) /\ Due(req'[s], d)
      BY <1>4, <2>3, <3>1, Zenon DEF Busy, Spread
    <3> QED
      BY <2>3, <3>4, <3>5, <3>6, Zenon
  <2>4. CASE ~(x = d /\ About(h, type, m))
    <3>1. Told(x, type, m)' = Told(x, type, m)
      BY <1>3, <2>1, <2>4
    <3>2. ToldOnce(x, type, m)' <=> ToldOnce(x, type, m)
      BY <3>1, Zenon DEF ToldOnce
    <3>3. (\E s \in Busy' : About(req'[s], type, m) /\ Due(req'[s], x)) <=>
          (\E s \in Busy : About(req[s], type, m) /\ Due(req[s], x))
      BY <1>4, <1>5, <2>1, <2>4, Zenon DEF Busy
    <3> QED
      BY <2>2, <3>1, <3>2, <3>3, Zenon
  <2> QED
    BY <2>3, <2>4, Zenon
<1> QED
  BY <1>6, <1>7, <1>8, Zenon DEF Spread


\* The first statement about m leaves every device to be told.
LEMMA SpreadBegins ==
  ASSUME NEW type, NEW m, NEW r \in Reqs, NEW g, g = req'[r], g # None,
         About(g, type, m),
         \A s \in Reqs \ {r} : req'[s] = req[s],
         \A s \in Reqs \ {r} : req[s] # None => ~About(req[s], type, m),
         UNCHANGED stream,
         \A x \in Audience(m)' : Told(x, type, m) = {} /\ (x # g.dev => Due(g, x))
  PROVE  Spread(type, m, g.dev)'
<1>1. ASSUME NEW s \in Busy', About(req'[s], type, m) PROVE s = r
  BY <1>1, Zenon DEF Busy
<1>2. r \in Busy'
  BY Zenon DEF Busy
<1>3. ASSUME NEW x \in Audience(m)'
      PROVE  IF x = g.dev \/ \E s \in Busy' : About(req'[s], type, m) /\ Due(req'[s], x)
             THEN Told(x, type, m)' = {} ELSE ToldOnce(x, type, m)'
  <2>1. Told(x, type, m)' = {}
    BY Zenon DEF Told
  <2>2. x # g.dev => \E s \in Busy' : About(req'[s], type, m) /\ Due(req'[s], x)
    BY <1>2, Zenon
  <2> QED
    BY <2>1, <2>2, Zenon
<1> QED
  BY <1>1, <1>3, Zenon DEF Spread

\* Handler r alone moves, and what it says it says to the same devices, or
\* it has nothing to do with the events so far.
LEMMA QuietStepTells ==
  ASSUME ToldInv, EventInv', Grown, NEW r \in Reqs,
         \A s \in Reqs \ {r} : req'[s] = req[s],
         req'[r] # None => Orderly(req'[r]),
         UNCHANGED stream,
         Stored' = Stored,
         \A m \in Stored : messages'[m].deleted => messages[m].deleted,
         \/ req[r] # None /\ Follows(req[r], req'[r])
         \/ \A m \in Stored : /\ Untouched(r, "message.new", m)
                              /\ Untouched(r, "message.deleted", m)
  PROVE  ToldInv'
<1>1. \A s \in Busy' : Orderly(req'[s])
  BY Zenon DEF ToldInv, Busy
<1>2. ASSUME NEW m \in Stored
      PROVE  /\ Spread("message.new", m, messages[m].device)'
             /\ messages'[m].deleted =>
                  \E asker \in Audience(m)' : Spread("message.deleted", m, asker)'
  <2>1. /\ Audience(m)' = Audience(m)
        /\ messages'[m].device = messages[m].device
    BY Zenon DEF Grown, Audience
  <2>2. ASSUME NEW type \in {"message.new", "message.deleted"}, NEW c, Spread(type, m, c)
        PROVE  Spread(type, m, c)'
    BY <2>1, <2>2, SpreadStays
  <2>3. PICK c : c = messages[m].device
    BY Zenon
  <2>4. Spread("message.new", m, c)'
    BY <2>2, <2>3, Zenon DEF ToldInv
  <2>5. Spread("message.new", m, messages[m].device)'
    BY <2>1, <2>3, <2>4, Zenon DEF Spread
  <2>6. ASSUME messages'[m].deleted
        PROVE  \E asker \in Audience(m)' : Spread("message.deleted", m, asker)'
    <3>1. PICK asker \in Audience(m) : Spread("message.deleted", m, asker)
      BY <2>6, Zenon DEF ToldInv
    <3>2. Spread("message.deleted", m, asker)'
      BY <2>2, <3>1
    <3> QED
      BY <2>1, <3>2, Zenon
  <2> QED
    BY <2>5, <2>6, Zenon
<1> QED
  BY <1>1, <1>2, Zenon DEF ToldInv


\* Whom the handlers and the streams can be about.
LEMMA OnlyStoredIsTold ==
  ASSUME ToldInv
  PROVE  /\ \A s \in Busy : \A m \in MsgIds : \A type :
              About(req[s], type, m) => /\ m \in Stored
                                        /\ type = "message.deleted" => messages[m].deleted
         /\ \A d \in Devices : \A type, m :
              Told(d, type, m) # {} => /\ m \in Stored
                                       /\ type = "message.deleted" => messages[m].deleted
<1>1. ASSUME NEW s \in Busy, NEW type, NEW m \in MsgIds, About(req[s], type, m)
      PROVE  m \in Stored /\ (type = "message.deleted" => messages[m].deleted)
  <2>1. Truthful(req[s]) /\ Orderly(req[s])
    BY Zenon DEF ToldInv, EventInv
  <2>2. req[s].pc # "insert"
    BY <1>1, <2>1, NoneAssumption, Zenon DEF Orderly, About
  <2>3. Backed(req[s].env)
    BY <2>1, <2>2, Zenon DEF Truthful
  <2> QED
    BY <1>1, <2>3 DEF Backed, About
<1>2. ASSUME NEW d \in Devices, NEW type, NEW m, Told(d, type, m) # {}
      PROVE  m \in Stored /\ (type = "message.deleted" => messages[m].deleted)
  <2>1. PICK i \in DOMAIN stream[d] : stream[d][i].type = type /\ stream[d][i].msg = m
    BY <1>2, Zenon DEF Told
  <2>2. Backed(stream[d][i])
    BY Zenon DEF ToldInv, EventInv, Heard
  <2> QED
    BY <2>1, <2>2 DEF Backed
<1> QED
  BY <1>1, <1>2, Zenon

\* A new message is still to be told to everybody.
LEMMA InsertTells ==
  ASSUME ToldInv, EventInv', Grown, NEW r \in Reqs, NEW m \in MsgIds, InsertMessage(r, m)
  PROVE  ToldInv'
<1>0. TypeOK
  BY DEF ToldInv, EventInv
<1>1. PICK h, e, d, n : h = req[r] /\ e = h.env /\ d = h.dev /\ n = h.atts
  BY Zenon
<1>2. /\ h \in Handler /\ h # None /\ h.pc = "insert" /\ e \in Envelope /\ d \in Devices
      /\ n \in Nat /\ e.msg = None /\ e.type = "message.new" /\ Owner[d] \in Members[e.conv]
  <2>1. r \in Busy /\ h.pc = "insert" /\ h # None
    BY <1>1, Zenon DEF InsertMessage, At, Busy
  <2>2. Truthful(h) /\ Orderly(h)
    BY <1>1, <2>1 DEF ToldInv, EventInv
  <2>3. h \in Handler
    BY <1>0, <1>1, <2>1, Zenon DEF TypeOK
  <2> QED
    BY <1>1, <2>1, <2>2, <2>3, Zenon DEF Truthful, Orderly, Handler
<1> DEFINE x == Named(e, m)
           row == [conv |-> e.conv, seq |-> e.seq, sender |-> Owner[d], device |-> d,
                   text |-> e.text, edited |-> FALSE, deleted |-> FALSE]
<1>3. /\ x \in Envelope /\ x.msg = m /\ x.conv = e.conv /\ x.type = "message.new"
  BY <1>2 DEF Named, Event, Envelope
<1>4. /\ messages[m] = None /\ messages' = [messages EXCEPT ![m] = row]
      /\ Proceed(r, d, x, n) /\ UNCHANGED stream
  BY <1>1, Zenon DEF InsertMessage
<1>5. row \in Row /\ row.conv = e.conv /\ row.device = d /\ ~row.deleted
  BY <1>2, OwnerAssumption, Zenon DEF Row, Envelope
<1> HIDE DEF x, row
<1>6. /\ messages'[m] = row /\ row # None /\ \A k \in MsgIds \ {m} : messages'[k] = messages[k]
      /\ m \notin Stored /\ Stored' = Stored \cup {m}
  BY <1>0, <1>4, <1>5, NoneAssumption, Zenon DEF TypeOK, Stored
<1>7. PICK g : g = req'[r]
  BY Zenon
<1>8. /\ \A s \in Reqs \ {r} : req'[s] = req[s]
      /\ g # None /\ Orderly(g) /\ g.env = x /\ g.dev = d
      /\ \A y \in Devices : Due(g, y) <=> y # d /\ Owner[y] \in Members[e.conv]
  <2>1. x.msg \in MsgIds /\ Owner[d] \in Members[x.conv]
    BY <1>2, <1>3
  <2>2. /\ \A s \in Reqs \ {r} : req'[s] = req[s]
        /\ req'[r] # None /\ Orderly(req'[r]) /\ req'[r].env = x /\ req'[r].dev = d
        /\ \A y \in Devices : Due(req'[r], y) <=> y # d /\ Owner[y] \in Members[x.conv]
    BY <1>0, <1>2, <1>3, <1>4, <2>1, ProceedMoves, Zenon
  <2> QED
    BY <1>3, <1>7, <2>2, Zenon
<1>9. \A s \in Busy' : Orderly(req'[s])
  BY <1>7, <1>8 DEF ToldInv, Busy
<1>10. ASSUME NEW k \in Stored
       PROVE  /\ Spread("message.new", k, messages[k].device)'
              /\ messages'[k].deleted =>
                   \E asker \in Audience(k)' : Spread("message.deleted", k, asker)'
  <2>1. k # m /\ k \in MsgIds /\ messages'[k] = messages[k] /\ Audience(k)' = Audience(k)
    BY <1>6, SMTT(20) DEF Stored, Audience
  <2>2. ASSUME NEW type PROVE Untouched(r, type, k)
    BY <1>1, <1>2, <1>3, <1>7, <1>8, <2>1, NoneAssumption, Zenon DEF Untouched, About
  <2>3. ASSUME NEW type, NEW c, Spread(type, k, c) PROVE Spread(type, k, c)'
    BY <1>4, <1>8, <2>1, <2>2, <2>3, SpreadStays, Zenon
  <2>4. PICK c : c = messages[k].device
    BY Zenon
  <2>5. Spread("message.new", k, c)'
    BY <2>3, <2>4, SMTT(20) DEF ToldInv
  <2>6. Spread("message.new", k, messages[k].device)'
    BY <2>1, <2>4, <2>5, Zenon DEF Spread
  <2>7. ASSUME messages'[k].deleted
        PROVE  \E asker \in Audience(k)' : Spread("message.deleted", k, asker)'
    <3>1. PICK asker \in Audience(k) : Spread("message.deleted", k, asker)
      BY <2>1, <2>7 DEF ToldInv
    <3>2. Spread("message.deleted", k, asker)'
      BY <2>3, <3>1, SMTT(20)
    <3> QED
      BY <2>1, <3>2, Zenon
  <2> QED
    BY <2>6, <2>7, Zenon
<1>11. Spread("message.new", m, messages[m].device)'
  <2>1. About(g, "message.new", m)
    BY <1>3, <1>8, SMTT(20) DEF About
  <2>2. \A s \in Reqs \ {r} : req[s] # None => ~About(req[s], "message.new", m)
    BY <1>6, OnlyStoredIsTold, Zenon DEF Busy
  <2>3. \A y \in Audience(m)' : Told(y, "message.new", m) = {} /\ (y # g.dev => Due(g, y))
    <3> TAKE y \in Audience(m)'
    <3>1. y \in Devices /\ Owner[y] \in Members[e.conv]
      BY <1>5, <1>6, Zenon DEF Audience
    <3>2. Told(y, "message.new", m) = {}
      BY <1>6, <3>1, OnlyStoredIsTold, SMTT(20)
    <3> QED
      BY <1>8, <3>1, <3>2
  <2>4. Spread("message.new", m, g.dev)'
    BY <1>4, <1>7, <1>8, <2>1, <2>2, <2>3, SpreadBegins, Zenon
  <2>5. messages'[m].device = g.dev
    BY <1>5, <1>6, <1>8, Zenon
  <2> QED
    BY <2>4, <2>5, Zenon DEF Spread
<1>12. ~messages'[m].deleted
  BY <1>5, <1>6, Zenon
<1> QED
  BY <1>6, <1>9, <1>10, <1>11, <1>12 DEF ToldInv


\* A deletion is still to be told to everybody.
LEMMA DeleteTells ==
  ASSUME ToldInv, EventInv', Grown, NEW r \in Reqs, NEW d \in Devices, NEW m \in MsgIds,
         DeleteMessage(r, d, m)
  PROVE  ToldInv'
<1>0. TypeOK
  BY DEF ToldInv, EventInv
<1>1. PICK c : c = messages[m].conv
  BY Zenon
<1> DEFINE g == Running("unindex", d, Event("message.deleted", c, m, 0, Empty), 0, <<>>, {})
           row == Rewritten(messages[m], Empty, messages[m].edited, TRUE)
<1>2. /\ m \in Stored /\ ~messages[m].deleted /\ Owner[d] \in Members[c]
      /\ messages' = [messages EXCEPT ![m] = row] /\ UNCHANGED stream
      /\ req[r] = None /\ req' = [req EXCEPT ![r] = g]
  BY <1>1, Zenon DEF DeleteMessage, Tombstone, Stored, Start
<1>3. row \in Row /\ row.conv = c /\ row.device = messages[m].device
  <2>1. messages[m] \in Row
    BY <1>0, <1>2, Zenon DEF TypeOK, Stored
  <2>2. row.conv = c /\ row.device = messages[m].device
    BY <1>1, ZenonT(20) DEF Rewritten
  <2>3. row \in Row
    BY <2>1, Zenon DEF Rewritten, Row
  <2> QED
    BY <2>2, <2>3, Zenon
<1>4. /\ g.pc = "unindex" /\ g.dev = d /\ g.env.type = "message.deleted"
      /\ g.env.msg = m /\ g.env.conv = c
  BY Zenon DEF Running, Event
<1>5. g \in Handler
  <2>1. c \in Convs
    BY <1>0, <1>1, <1>2, Zenon DEF TypeOK, Row, Stored
  <2>2. PICK e : e = Event("message.deleted", c, m, 0, Empty)
    BY Zenon
  <2>3. e \in Envelope /\ e.msg \in MsgIds
    BY <2>1, <2>2 DEF Event, Envelope
  <2>4. "unindex" \in Stages /\ 0 \in Nat /\ <<>> \in Seq(Accounts) /\ {} \in SUBSET Devices
    BY DEF Stages
  <2> QED
    BY <2>2, <2>3, <2>4, RunningIsHandler, Zenon
<1> HIDE DEF g, row
<1>6. /\ g # None /\ req'[r] = g /\ \A s \in Reqs \ {r} : req'[s] = req[s]
      /\ messages'[m] = row /\ \A k \in MsgIds \ {m} : messages'[k] = messages[k]
      /\ Stored' = Stored
  BY <1>0, <1>2, <1>3, <1>5, NoneAssumption, Zenon DEF TypeOK, Stored
<1>7. \A s \in Busy' : Orderly(req'[s])
  <2>1. Orderly(g)
    BY <1>4, SMTT(20) DEF Orderly
  <2> QED
    BY <1>6, <2>1, Zenon DEF ToldInv, Busy
<1>8. ASSUME NEW k \in Stored, NEW type, type = "message.new" \/ k # m, NEW x,
             Spread(type, k, x)
      PROVE  Spread(type, k, x)'
  <2>1. Audience(k)' = Audience(k)
    BY Zenon DEF Grown, Audience
  <2>2. Untouched(r, type, k)
    BY <1>2, <1>4, <1>6, <1>8, Zenon DEF Untouched, About
  <2> QED
    BY <1>2, <1>6, <1>8, <2>1, <2>2, SpreadStays, Zenon
<1>9. ASSUME NEW k \in Stored PROVE Spread("message.new", k, messages[k].device)'
  <2>1. PICK x : x = messages[k].device
    BY Zenon
  <2>2. Spread("message.new", k, x)'
    BY <1>8, <2>1, Zenon DEF ToldInv
  <2>3. messages'[k].device = x
    BY <2>1 DEF Grown
  <2> QED
    BY <2>2, <2>3, Zenon DEF Spread
<1>10. ASSUME NEW k \in Stored, k # m, messages'[k].deleted
       PROVE  \E asker \in Audience(k)' : Spread("message.deleted", k, asker)'
  <2>1. messages[k].deleted /\ Audience(k)' = Audience(k)
    BY <1>6, <1>10 DEF Grown, Audience, Stored
  <2>2. PICK asker \in Audience(k) : Spread("message.deleted", k, asker)
    BY <2>1 DEF ToldInv
  <2>3. Spread("message.deleted", k, asker)'
    BY <1>8, <1>10, <2>2, Zenon
  <2> QED
    BY <2>1, <2>3, Zenon
<1>11. d \in Audience(m)' /\ Spread("message.deleted", m, d)'
  <2>1. About(g, "message.deleted", m)
    BY <1>4, Zenon DEF About
  <2>2. \A s \in Reqs \ {r} : req[s] # None => ~About(req[s], "message.deleted", m)
    BY <1>2, OnlyStoredIsTold, Zenon DEF Busy
  <2>3. messages'[m].conv = c
    BY <1>3, <1>6, Zenon
  <2>4. \A y \in Audience(m)' :
          Told(y, "message.deleted", m) = {} /\ (y # g.dev => Due(g, y))
    <3> TAKE y \in Audience(m)'
    <3>1. y \in Devices /\ Owner[y] \in Members[c]
      BY <2>3, Zenon DEF Audience
    <3>2. Told(y, "message.deleted", m) = {}
      BY <1>2, <3>1, OnlyStoredIsTold, SMTT(20)
    <3> QED
      BY <1>4, <3>1, <3>2 DEF Due
  <2>5. Spread("message.deleted", m, g.dev)'
    BY <1>2, <1>6, <2>1, <2>2, <2>4, SpreadBegins, Zenon
  <2>6. d \in Audience(m)'
    BY <1>2, <2>3 DEF Audience
  <2> QED
    BY <1>4, <2>5, <2>6
<1> QED
  BY <1>6, <1>7, <1>9, <1>10, <1>11 DEF ToldInv

LEMMA PublishTells ==
  ASSUME ToldInv, EventInv', Grown, NEW r \in Reqs, NEW d \in Devices, Publish(r, d)
  PROVE  ToldInv'
<1>0. TypeOK
  BY DEF ToldInv, EventInv
<1>1. PICK h : h = req[r]
  BY Zenon
<1>2. h \in Handler /\ Orderly(h) /\ UNCHANGED messages
  BY <1>0, <1>1, ZenonT(20) DEF Publish, At, ToldInv, Busy, TypeOK, db
<1>3. /\ \A s \in Reqs \ {r} : req'[s] = req[s]
      /\ req'[r] # None => Orderly(req'[r])
  BY <1>0, <1>1, <1>2, PublishMoves, Zenon
<1>4. \A s \in Busy' : Orderly(req'[s])
  BY <1>3, Zenon DEF ToldInv, Busy
<1>5. \A m \in Stored : Audience(m)' = Audience(m)
  BY <1>2 DEF Audience
<1>6. ASSUME NEW m \in Stored, NEW type, NEW c, Spread(type, m, c) PROVE Spread(type, m, c)'
  BY <1>0, <1>1, <1>2, <1>5, <1>6, PublishSpreads, Zenon
<1>7. ASSUME NEW m \in Stored PROVE Spread("message.new", m, messages[m].device)'
  <2>1. PICK x : x = messages[m].device
    BY Zenon
  <2>2. Spread("message.new", m, x)'
    BY <1>6, <2>1 DEF ToldInv
  <2> QED
    BY <1>2, <2>1, <2>2 DEF Spread
<1>8. ASSUME NEW m \in Stored, messages'[m].deleted
      PROVE  \E asker \in Audience(m)' : Spread("message.deleted", m, asker)'
  <2>1. PICK asker \in Audience(m) : Spread("message.deleted", m, asker)
    BY <1>2, <1>8 DEF ToldInv
  <2>2. Spread("message.deleted", m, asker)'
    BY <1>6, <2>1
  <2> QED
    BY <1>5, <2>2
<1>9. Stored' = Stored
  BY <1>2 DEF Stored
<1> QED
  BY <1>4, <1>7, <1>8, <1>9, Zenon DEF ToldInv


\* Without failures every step keeps count of who is still to be told.
LEMMA StepTold == ~Failures /\ ToldInv /\ [Next]_vars => ToldInv'
<1> SUFFICES ASSUME ~Failures, ToldInv, [Next]_vars PROVE ToldInv'
  BY Zenon
<1>0. EventInv /\ TypeOK /\ EventInv' /\ Grown
  BY StepEvents, RowsGrow, Zenon DEF ToldInv, EventInv
<1>1. \A r \in Busy : req[r] \in Handler /\ Orderly(req[r]) /\ Truthful(req[r])
  BY <1>0, SMTT(20) DEF ToldInv, EventInv, TypeOK, Busy
<1>2. ASSUME NEW r \in Busy, UNCHANGED <<messages, stream>>,
             \A s \in Reqs \ {r} : req'[s] = req[s],
             req'[r] # None => Orderly(req'[r]),
             Follows(req[r], req'[r])
      PROVE  ToldInv'
  <2>1. r \in Reqs /\ req[r] # None /\ Stored' = Stored
    BY <1>2, SMTT(20) DEF Busy, Stored
  <2> QED
    BY <1>0, <1>2, <2>1, QuietStepTells, Zenon
<1>3. ASSUME NEW r \in Reqs, NEW g, Start(r, g), g # None => Orderly(g),
             UNCHANGED stream, Stored' = Stored,
             \A m \in Stored : messages'[m].deleted => messages[m].deleted,
             \A m \in Stored : ~About(g, "message.new", m) /\ ~About(g, "message.deleted", m)
      PROVE  ToldInv'
  <2>1. /\ req[r] = None /\ req'[r] = g /\ \A s \in Reqs \ {r} : req'[s] = req[s]
    BY <1>0, <1>3, SMTT(20) DEF Start, TypeOK
  <2>2. \A m \in Stored : Untouched(r, "message.new", m) /\ Untouched(r, "message.deleted", m)
    BY <1>3, <2>1, Zenon DEF Untouched
  <2>3. req'[r] # None => Orderly(req'[r])
    BY <1>3, <2>1
  <2> QED
    BY <1>0, <1>3, <2>1, <2>2, <2>3, QuietStepTells, Zenon
<1>4. ASSUME NEW r \in Reqs, NEW d \in Devices, NEW c \in Convs,
             NEW t \in Texts, NEW n \in 0..MaxAtts, SendMessage(r, d, c, t, n)
      PROVE  ToldInv'
  <2>1. PICK k : k = NextSeq(c)
    BY Zenon
  <2> DEFINE g == Running("insert", d, Event("message.new", c, None, k, t), n, <<>>, {})
  <2>2. Start(r, g) /\ UNCHANGED stream /\ UNCHANGED messages
    BY <1>4, <2>1, Zenon DEF SendMessage
  <2>3. g.pc = "insert" /\ g.env.msg = None
    BY Zenon DEF Running, Event
  <2> HIDE DEF g
  <2>4. Orderly(g) /\ \A m \in Stored : \A type : ~About(g, type, m)
    BY <2>3, NoneAssumption DEF Orderly, About, Stored
  <2>5. Stored' = Stored
    BY <2>2 DEF Stored
  <2> QED
    BY <1>3, <2>2, <2>4, <2>5
<1>5. ASSUME NEW r \in Reqs, NEW d \in Devices, NEW m \in MsgIds, NEW t \in Texts,
             EditMessage(r, d, m, t)
      PROVE  ToldInv'
  <2> DEFINE row == Rewritten(messages[m], t, TRUE, FALSE)
             g == Running("members", d, Event("message.edited", messages[m].conv, m, 0, t),
                          0, <<>>, {})
  <2>1. /\ m \in Stored /\ messages' = [messages EXCEPT ![m] = row]
        /\ Start(r, g) /\ UNCHANGED stream
    BY <1>5, Zenon DEF EditMessage, Editable, Edited, Stored
  <2>2. row \in Row /\ ~row.deleted
    <3>1. messages[m] \in Row
      BY <1>0, <2>1, Zenon DEF TypeOK, Stored
    <3>2. row \in Row
      BY <3>1, Zenon DEF Rewritten, Row
    <3>3. ~row.deleted
      BY ZenonT(20) DEF Rewritten
    <3> QED
      BY <3>2, <3>3, Zenon
  <2>3. g.pc = "members" /\ g.env.type = "message.edited"
    BY SMTT(20) DEF Running, Event
  <2> HIDE DEF row, g
  <2>4. /\ Stored' = Stored
        /\ \A k \in Stored : messages'[k].deleted => messages[k].deleted
    BY <1>0, <2>1, <2>2, NoneAssumption, Zenon DEF TypeOK, Stored
  <2>5. Orderly(g) /\ \A k : ~About(g, "message.new", k) /\ ~About(g, "message.deleted", k)
    BY <2>3, Zenon DEF Orderly, About
  <2> QED
    BY <1>3, <2>1, <2>4, <2>5, Zenon
<1>6. ASSUME NEW r \in Reqs, Prepares(r) PROVE ToldInv'
  <2>1. r \in Busy => Orderly(req[r])
    BY <1>1
  <2>2. /\ r \in Busy
        /\ UNCHANGED <<messages, stream>>
        /\ \A s \in Reqs \ {r} : req'[s] = req[s]
        /\ req'[r] # None => Orderly(req'[r])
        /\ Follows(req[r], req'[r])
    BY <1>0, <1>6, <2>1, PreparesFollow, Zenon
  <2> QED
    BY <1>2, <2>2, Zenon
<1>7. ASSUME NEW r \in Reqs, Fault(r) PROVE ToldInv'
  BY <1>7 DEF Fault, ListMembersFails, ListDevicesFails, Abort
<1>8. ASSUME UNCHANGED <<messages, stream, req>> PROVE ToldInv'
  BY <1>0, <1>8, NothingMoves
<1>9. ASSUME NEW d \in Devices, NEW m \in MsgIds, HideMessage(d, m) PROVE ToldInv'
  BY <1>8, <1>9 DEF HideMessage
<1>10. CASE UNCHANGED vars
  BY <1>8, <1>10 DEF vars, db
<1>11. ASSUME NEW r \in Reqs, Step(r) PROVE ToldInv'
  BY <1>0, <1>6, <1>11, InsertTells, PublishTells, Zenon DEF Step, Prepares
<1>12. ASSUME NEW r \in Reqs, NEW d \in Devices, Call(r, d) PROVE ToldInv'
  BY <1>0, <1>4, <1>5, <1>12, DeleteTells DEF Call
<1> QED
  BY <1>7, <1>9, <1>10, <1>11, <1>12 DEF Next

\* Where no statement fails, every device of every member but the one that
\* called has been told of each message, and of each deletion, exactly once
\* whenever no handler is running.
THEOREM NobodyIsLeftOut == ~Failures /\ Spec => []EveryoneIsTold
<1> SUFFICES ASSUME ~Failures PROVE Spec => []EveryoneIsTold
  BY  Zenon
<1>1. Init => ToldInv
  BY InitType DEF Init, ToldInv, EventInv, Heard, Busy, Stored
<1>2. ToldInv /\ [Next]_vars => ToldInv'
  BY StepTold
<1>3. ToldInv => EveryoneIsTold
  BY Zenon DEF ToldInv, Spread, EveryoneIsTold
<1> QED
  BY <1>1, <1>2, <1>3, PTL DEF Spec
==============================================================================
