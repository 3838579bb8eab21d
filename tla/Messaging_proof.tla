--------------------------- MODULE Messaging_proof ---------------------------
(***************************************************************************)
(* Proofs about the message handlers, for any accounts, devices, requests  *)
(* and bounds; GapFree where no statement fails, the rest with or without. *)
(*                                                                         *)
(* SeqNeverCollides is inductive once the counter is known to be at or     *)
(* above every seq that was taken (Below): a send then takes a seq nobody  *)
(* has, and the insert only moves a seq from the handler to the table.     *)
(* GapFree needs the converse too (Full): every seq up to the counter is   *)
(* in the table or in the hands of a send.                                 *)
(***************************************************************************)
EXTENDS Messaging, TLAPS

\* No seq in the table or in a handler is above the counter.
Below ==
  /\ \A m \in Stored : messages[m].seq <= last_seq[messages[m].conv]
  /\ \A r \in Reqs : At(r, "insert") => req[r].env.seq <= last_seq[req[r].env.conv]

SeqInv == TypeOK /\ Below /\ SeqNeverCollides

(***************************************************************************)
(* Types                                                                   *)
(***************************************************************************)
\* The accounts a send notifies.
LEMMA SendOrderType ==
  \A c \in Convs, me \in Accounts : SendOrder(c, me) \in Seq(Accounts)
<1> TAKE c \in Convs, me \in Accounts
<1>1. Peer(c, me) \in Accounts
  <2>1. CASE Members[c] = {me}
    BY <2>1 DEF Peer
  <2>2. CASE Members[c] # {me}
    <3>1. \E a \in Members[c] : a # me
      BY <2>2, MembersAssumption, Zenon
    <3> QED
      BY <2>2, <3>1, MembersAssumption DEF Peer
  <2> QED
    BY <2>1, <2>2
<1> QED
  BY <1>1 DEF SendOrder

\* The members an edit or a delete tells.
LEMMA OrdersMembers ==
  \A c \in Convs : Orders(Members[c]) \subseteq Seq(Members[c])
  BY DEF Orders

LEMMA OrdersType ==
  \A c \in Convs : Orders(Members[c]) \subseteq Seq(Accounts)
<1> SUFFICES ASSUME NEW c \in Convs, NEW s \in Orders(Members[c]) PROVE s \in Seq(Accounts)
  OBVIOUS
<1>1. Members[c] \subseteq Accounts
  BY MembersAssumption
<1>2. s \in Seq(Members[c])
  BY OrdersMembers
<1> QED
  BY <1>1, <1>2

\* The initial tables, streams and handlers have their types.
LEMMA InitType == Init => TypeOK
  BY BoundsAssumption DEF Init, TypeOK

\* A call that was taken is a handler.
LEMMA StartType ==
  ASSUME TypeOK, NEW r \in Reqs, NEW h \in Handler, Start(r, h)
  PROVE  req' \in [Reqs -> Handler \cup {None}] /\ calls' \in 0..MaxCalls
  BY BoundsAssumption DEF Start, TypeOK

\* A handler in the middle of its fan-out is a handler.
LEMMA ContinueType ==
  ASSUME TypeOK, NEW r \in Reqs, req[r] \in Handler, req[r].env.msg \in MsgIds,
         NEW todo \in Seq(Accounts), NEW out \in SUBSET Devices,
         Continue(r, todo, out)
  PROVE  req' \in [Reqs -> Handler \cup {None}] /\ calls' = calls
<1>1. Running("fanout", req[r].dev, req[r].env, 0, todo, out) \in Handler
  BY DEF Handler, Running, Stages
<1> QED
  BY <1>1 DEF Continue, Goto, TypeOK

\* So is one that goes on after an insert.
LEMMA ProceedType ==
  ASSUME TypeOK, NEW r \in Reqs, NEW d \in Devices, NEW e \in Envelope,
         e.msg \in MsgIds, NEW n \in Nat, Proceed(r, d, e, n)
  PROVE  req' \in [Reqs -> Handler \cup {None}] /\ calls' = calls
<1>1. SendOrder(e.conv, Owner[d]) \in Seq(Accounts)
  BY SendOrderType, OwnerAssumption DEF Envelope
<1>2. Running("index", d, e, n, <<>>, {}) \in Handler
  BY DEF Handler, Running, Stages
<1>3. Running("fanout", d, e, 0, SendOrder(e.conv, Owner[d]), {}) \in Handler
  BY <1>1 DEF Handler, Running, Stages
<1> QED
  BY <1>2, <1>3 DEF Proceed, Goto, TypeOK

\* Every action of a handler and every failure keeps the types.
LEMMA StepType == TypeOK /\ [Next]_vars => TypeOK'
<1> SUFFICES ASSUME TypeOK, [Next]_vars PROVE TypeOK'
  OBVIOUS
<1>1. ASSUME NEW r \in Reqs, NEW d \in Devices, NEW c \in Convs,
             NEW t \in Texts, NEW n \in 0..MaxAtts, SendMessage(r, d, c, t, n)
      PROVE  TypeOK'
  <2>1. Running("insert", d, Event("message.new", c, None, last_seq[c] + 1, t),
                n, <<>>, {}) \in Handler
    BY BoundsAssumption DEF Running, Event, Handler, Stages, Envelope, TypeOK
  <2>2. req' \in [Reqs -> Handler \cup {None}] /\ calls' \in 0..MaxCalls
    BY <1>1, <2>1, StartType DEF SendMessage, NextSeq
  <2> QED
    BY <1>1, <2>2 DEF SendMessage, NextSeq, TypeOK
<1>2. ASSUME NEW r \in Reqs, NEW m \in MsgIds, InsertMessage(r, m)
      PROVE  TypeOK'
  <2> DEFINE e == req[r].env
             row == [conv |-> e.conv, seq |-> e.seq, sender |-> Owner[req[r].dev],
                     device |-> req[r].dev, text |-> e.text,
                     edited |-> FALSE, deleted |-> FALSE]
  <2>1. req[r] \in Handler
    BY <1>2 DEF InsertMessage, Named, At, TypeOK
  <2>2. row \in Row
    BY <2>1, OwnerAssumption DEF Handler, Envelope, Row
  <2>3. Event(e.type, e.conv, m, e.seq, e.text) \in Envelope
    BY <2>1 DEF Handler, Envelope, Event
  <2>4. req' \in [Reqs -> Handler \cup {None}] /\ calls' = calls
    <3>1. Event(e.type, e.conv, m, e.seq, e.text).msg \in MsgIds
      BY DEF Event
    <3>2. req[r].dev \in Devices /\ req[r].atts \in Nat
      BY <2>1 DEF Handler
    <3> QED
      BY <1>2, <2>3, <3>1, <3>2, ProceedType DEF InsertMessage, Named
  <2> QED
    BY <1>2, <2>2, <2>4 DEF InsertMessage, Named, TypeOK
<1>3. ASSUME NEW r \in Reqs, RecordMedia(r) PROVE TypeOK'
  <2>1. req[r] \in Handler /\ req[r].env \in Envelope
        /\ req[r].env.msg \in MsgIds /\ req[r].dev \in Devices
    BY <1>3 DEF RecordMedia, At, TypeOK, Handler
  <2>2. req[r].atts - 1 \in Nat
    BY <1>3, <2>1 DEF RecordMedia, Handler
  <2>3. req' \in [Reqs -> Handler \cup {None}] /\ calls' = calls
    BY <1>3, <2>1, <2>2, ProceedType DEF RecordMedia
  <2>4. media' \subseteq MediaRow
    BY <1>3, <2>1 DEF RecordMedia, TypeOK, MediaRow, Handler, Envelope
  <2> QED
    BY <1>3, <2>3, <2>4 DEF RecordMedia, TypeOK
<1>4. ASSUME NEW r \in Reqs, NEW d \in Devices, NEW m \in MsgIds, NEW t \in Texts,
             EditMessage(r, d, m, t)
      PROVE  TypeOK'
  <2>1. messages[m] \in Row
    BY <1>4 DEF EditMessage, Editable, Edited, TypeOK
  <2>2. Rewritten(messages[m], t, TRUE, FALSE) \in Row
    BY <2>1 DEF Rewritten, Row
  <2>3. Running("members", d, Event("message.edited", messages[m].conv, m, 0, t),
                0, <<>>, {}) \in Handler
    BY <2>1 DEF Running, Event, Handler, Stages, Envelope, Row
  <2>4. messages' \in [MsgIds -> Row \cup {None}]
    BY <1>4, <2>2, Zenon DEF EditMessage, Editable, Edited, TypeOK
  <2>5. req' \in [Reqs -> Handler \cup {None}] /\ calls' \in 0..MaxCalls
    BY <1>4, <2>3, StartType DEF EditMessage, Editable, Edited
  <2> QED
    BY <1>4, <2>4, <2>5, Zenon DEF EditMessage, Editable, Edited, TypeOK
<1>5. ASSUME NEW r \in Reqs, NEW d \in Devices, NEW m \in MsgIds, DeleteMessage(r, d, m)
      PROVE  TypeOK'
  <2>1. messages[m] \in Row
    BY <1>5 DEF DeleteMessage, Tombstone, TypeOK
  <2>2. Rewritten(messages[m], Empty, messages[m].edited, TRUE) \in Row
    BY <2>1 DEF Rewritten, Row
  <2>3. Running("unindex", d, Event("message.deleted", messages[m].conv, m, 0, Empty),
                0, <<>>, {}) \in Handler
    BY <2>1 DEF Running, Event, Handler, Stages, Envelope, Row
  <2>4. messages' \in [MsgIds -> Row \cup {None}]
    BY <1>5, <2>2, Zenon DEF DeleteMessage, Tombstone, TypeOK
  <2>5. req' \in [Reqs -> Handler \cup {None}] /\ calls' \in 0..MaxCalls
    BY <1>5, <2>3, StartType DEF DeleteMessage, Tombstone
  <2> QED
    BY <1>5, <2>4, <2>5, Zenon DEF DeleteMessage, Tombstone, TypeOK
<1>6. ASSUME NEW r \in Reqs, UnindexMedia(r) PROVE TypeOK'
  <2>1. Running("members", req[r].dev, req[r].env, 0, <<>>, {}) \in Handler
    BY <1>6 DEF UnindexMedia, Unindexed, At, TypeOK, Running, Handler, Stages
  <2> QED
    BY <1>6, <2>1 DEF UnindexMedia, Unindexed, Goto, TypeOK
<1>7. ASSUME NEW r \in Reqs, ListMembers(r) PROVE TypeOK'
  <2>1. req[r] \in Handler /\ req[r].env.msg \in MsgIds /\ req[r].env.conv \in Convs
    BY <1>7 DEF ListMembers, At, TypeOK, Handler, Envelope
  <2>2. PICK todo \in Orders(Members[req[r].env.conv]) : Continue(r, todo, {})
    BY <1>7 DEF ListMembers
  <2>3. todo \in Seq(Accounts)
    BY <2>1, OrdersType
  <2>4. req' \in [Reqs -> Handler \cup {None}] /\ calls' = calls
    BY <2>1, <2>2, <2>3, ContinueType
  <2> QED
    BY <1>7, <2>4 DEF ListMembers, TypeOK, db
<1>8. ASSUME NEW r \in Reqs,
             ListDevices(r) \/ ListDevicesFails(r) \/ \E d \in Devices : Publish(r, d)
      PROVE  req' \in [Reqs -> Handler \cup {None}] /\ calls' = calls
  <2>1. req[r] \in Handler /\ req[r].env.msg \in MsgIds
        /\ req[r].todo \in Seq(Accounts) /\ req[r].out \in SUBSET Devices
    BY <1>8, Zenon DEF ListDevices, Recipients, ListDevicesFails, Publish, At, TypeOK, Handler
  <2>2. CASE ListDevices(r)
    <3>1. Tail(req[r].todo) \in Seq(Accounts)
      BY <2>1, <2>2 DEF ListDevices, Recipients
    <3>2. DevicesOf(Head(req[r].todo)) \ {req[r].dev} \in SUBSET Devices
      BY DEF DevicesOf
    <3> QED
      BY <2>1, <2>2, <3>1, <3>2, ContinueType, Zenon DEF ListDevices, Recipients
  <2>3. CASE ListDevicesFails(r)
    <3>1. Tail(req[r].todo) \in Seq(Accounts)
      BY <2>1, <2>3 DEF ListDevicesFails
    <3> QED
      BY <2>1, <2>3, <3>1, ContinueType, Zenon DEF ListDevicesFails
  <2>4. ASSUME NEW d \in Devices, Publish(r, d)
        PROVE  req' \in [Reqs -> Handler \cup {None}] /\ calls' = calls
    BY <2>1, <2>4, ContinueType DEF Publish
  <2> QED
    BY <1>8, <2>2, <2>3, <2>4
<1>9. ASSUME NEW r \in Reqs, ListDevices(r) \/ ListDevicesFails(r) PROVE TypeOK'
  BY <1>8, <1>9, Zenon DEF ListDevices, Recipients, ListDevicesFails, TypeOK, db
<1>10. ASSUME NEW r \in Reqs, NEW d \in Devices, Publish(r, d) PROVE TypeOK'
  <2>1. req[r].env \in Envelope
    BY <1>10 DEF Publish, At, TypeOK, Handler
  <2>2. stream' \in [Devices -> Seq(Envelope)]
    BY <1>10, <2>1 DEF Publish, TypeOK
  <2> QED
    BY <1>8, <1>10, <2>2, Zenon DEF Publish, TypeOK, db
<1>11. ASSUME NEW r \in Reqs, ListMembersFails(r) \/ Abort(r) PROVE TypeOK'
  BY <1>11, Zenon DEF ListMembersFails, Abort, Done, Goto, TypeOK, db
<1>12. ASSUME NEW d \in Devices, NEW m \in MsgIds, HideMessage(d, m) PROVE TypeOK'
  BY <1>12, OwnerAssumption, BoundsAssumption DEF HideMessage, TypeOK
<1>13. CASE UNCHANGED vars
  BY <1>13 DEF vars, db, TypeOK
<1> QED
  BY <1>1, <1>2, <1>3, <1>4, <1>5, <1>6, <1>7, <1>9, <1>10, <1>11, <1>12, <1>13
  DEF Next, Step, Fault, Call

\* The tables, the streams and the handlers keep their types.
THEOREM TypeCorrect == Spec => []TypeOK
  BY InitType, StepType, PTL DEF Spec

(***************************************************************************)
(* Rows                                                                    *)
(***************************************************************************)
\* No row is removed, moves, changes hands, or stops being edited or deleted.
Grown ==
  \A m \in Stored :
    /\ m \in Stored'
    /\ messages'[m].conv = messages[m].conv
    /\ messages'[m].seq = messages[m].seq
    /\ messages'[m].sender = messages[m].sender
    /\ messages'[m].device = messages[m].device
    /\ messages[m].edited => messages'[m].edited
    /\ messages[m].deleted => messages'[m].deleted

\* The row that an insert adds.
LEMMA InsertStores ==
  ASSUME TypeOK, NEW r \in Reqs, NEW m \in MsgIds, InsertMessage(r, m)
  PROVE  /\ At(r, "insert") /\ UNCHANGED last_seq
         /\ req[r].env.conv \in Convs /\ req[r].env.seq \in Nat
         /\ m \notin Stored /\ Stored' = Stored \cup {m}
         /\ messages'[m].conv = req[r].env.conv
         /\ messages'[m].seq = req[r].env.seq
         /\ ~messages'[m].deleted
         /\ \A x \in MsgIds \ {m} : messages'[x] = messages[x]
<1> DEFINE e == req[r].env
           row == [conv |-> e.conv, seq |-> e.seq, sender |-> Owner[req[r].dev],
                   device |-> req[r].dev, text |-> e.text,
                   edited |-> FALSE, deleted |-> FALSE]
<1>1. /\ At(r, "insert")
      /\ messages[m] = None
      /\ messages' = [messages EXCEPT ![m] = row]
      /\ UNCHANGED last_seq
  BY Zenon DEF InsertMessage
<1>2. req[r] \in Handler
  BY <1>1, Zenon DEF At, TypeOK
<1>3. e.conv \in Convs /\ e.seq \in Nat
  BY <1>2, Zenon DEF Handler, Envelope
<1>4. row \in Row
  BY <1>2, OwnerAssumption, Zenon DEF Handler, Envelope, Row
<1>5. row.conv = e.conv /\ row.seq = e.seq /\ ~row.deleted
  OBVIOUS
<1> HIDE DEF e, row
<1>6. messages'[m] = row /\ \A x \in MsgIds \ {m} : messages'[x] = messages[x]
  BY <1>1, Zenon DEF TypeOK
<1>7. m \notin Stored /\ Stored' = Stored \cup {m}
  BY <1>1, <1>4, <1>6, NoneAssumption DEF Stored
<1> QED
  BY <1>1, <1>3, <1>5, <1>6, <1>7 DEF e

\* Every action leaves the rows as they are, adds one, or lets one grow.
LEMMA RowsGrow ==
  ASSUME TypeOK, [Next]_vars PROVE Grown
<1>1. ASSUME NEW r \in Reqs, NEW x \in MsgIds, InsertMessage(r, x) PROVE Grown
  <2>1. \A m \in Stored : m \in Stored' /\ messages'[m] = messages[m]
    BY <1>1, InsertStores DEF Stored
  <2> QED
    BY <2>1 DEF Grown
<1>2. ASSUME NEW x \in Stored, NEW row \in Row,
             messages' = [messages EXCEPT ![x] = row],
             row.conv = messages[x].conv, row.seq = messages[x].seq,
             row.sender = messages[x].sender, row.device = messages[x].device,
             messages[x].edited => row.edited, messages[x].deleted => row.deleted
      PROVE  Grown
  <2>1. messages'[x] = row /\ \A m \in Stored \ {x} : messages'[m] = messages[m]
    BY <1>2 DEF Stored, TypeOK
  <2>2. row # None
    BY NoneAssumption
  <2> QED
    BY <1>2, <2>1, <2>2 DEF Grown, Stored
<1>3. ASSUME NEW r \in Reqs, NEW d \in Devices, NEW x \in MsgIds, NEW t \in Texts,
             EditMessage(r, d, x, t)
      PROVE  Grown
  <2> DEFINE row == Rewritten(messages[x], t, TRUE, FALSE)
  <2>1. x \in Stored /\ ~messages[x].deleted /\ messages' = [messages EXCEPT ![x] = row]
    BY <1>3 DEF EditMessage, Editable, Edited, Stored
  <2>2. row \in Row /\ row.conv = messages[x].conv /\ row.seq = messages[x].seq
        /\ row.sender = messages[x].sender /\ row.device = messages[x].device
        /\ row.edited
    BY <2>1 DEF Rewritten, Row, TypeOK, Stored
  <2> HIDE DEF row
  <2> QED
    BY <1>2, <2>1, <2>2, Zenon
<1>4. ASSUME NEW r \in Reqs, NEW d \in Devices, NEW x \in MsgIds, DeleteMessage(r, d, x)
      PROVE  Grown
  <2> DEFINE row == Rewritten(messages[x], Empty, messages[x].edited, TRUE)
  <2>1. x \in Stored /\ messages' = [messages EXCEPT ![x] = row]
    BY <1>4 DEF DeleteMessage, Tombstone, Stored
  <2>2. row \in Row /\ row.conv = messages[x].conv /\ row.seq = messages[x].seq
        /\ row.sender = messages[x].sender /\ row.device = messages[x].device
        /\ row.edited = messages[x].edited /\ row.deleted
    BY <2>1 DEF Rewritten, Row, TypeOK, Stored
  <2> HIDE DEF row
  <2> QED
    BY <1>2, <2>1, <2>2, Zenon
<1>5. ASSUME UNCHANGED messages PROVE Grown
  BY <1>5 DEF Grown, Stored
<1> QED
  BY <1>1, <1>3, <1>4, <1>5, Zenon
  DEF Next, Step, Call, Fault, SendMessage, RecordMedia, UnindexMedia, ListMembers,
      ListDevices, Publish, ListMembersFails, ListDevicesFails, Abort, HideMessage, db, vars

(***************************************************************************)
(* Handlers                                                                *)
(***************************************************************************)
\* The step is one of handler r alone, and does not take it to its insert.
Away(r) ==
  /\ ~At(r, "insert")'
  /\ \A s \in Reqs \ {r} : req'[s] = req[s]

\* So any handler that is at its insert was there before.
LEMMA AwayAddsNone ==
  ASSUME NEW r \in Reqs, Away(r)
  PROVE  \A s \in Reqs : At(s, "insert")' => At(s, "insert") /\ req'[s] = req[s]
  BY DEF Away, At

\* A handler that is set to another stage, or ends.
LEMMA SetAway ==
  ASSUME TypeOK, NEW r \in Reqs, NEW h, h = None \/ h.pc # "insert",
         req' = [req EXCEPT ![r] = h]
  PROVE  Away(r)
<1>1. req'[r] = h /\ \A s \in Reqs \ {r} : req'[s] = req[s]
  BY Zenon DEF TypeOK
<1> QED
  BY <1>1 DEF Away, At

LEMMA StageOf ==
  ASSUME NEW pc, NEW d, NEW e, NEW n, NEW todo, NEW out, pc # "insert"
  PROVE  Running(pc, d, e, n, todo, out).pc # "insert"
  BY DEF Running

\* A send that has inserted its row, or indexed one more attachment.
LEMMA ProceedAway ==
  ASSUME TypeOK, NEW r \in Reqs, NEW d, NEW e, NEW n, Proceed(r, d, e, n)
  PROVE  Away(r)
<1>1. /\ Running("index", d, e, n, <<>>, {}).pc # "insert"
      /\ Running("fanout", d, e, 0, SendOrder(e.conv, Owner[d]), {}).pc # "insert"
  BY StageOf
<1> QED
  BY <1>1, SetAway, Zenon DEF Proceed, Goto

LEMMA ContinueAway ==
  ASSUME TypeOK, NEW r \in Reqs, NEW todo, NEW out, Continue(r, todo, out)
  PROVE  Away(r)
<1>1. Running("fanout", req[r].dev, req[r].env, 0, todo, out).pc # "insert"
  BY StageOf
<1> QED
  BY <1>1, SetAway, Zenon DEF Continue, Goto

LEMMA InsertAway ==
  ASSUME TypeOK, NEW r \in Reqs, NEW m \in MsgIds, InsertMessage(r, m)
  PROVE  Away(r)
  BY ProceedAway, Zenon DEF InsertMessage

\* The steps after the statement on `messages`.
Later(r) ==
  \/ RecordMedia(r)
  \/ UnindexMedia(r)
  \/ ListMembers(r)
  \/ ListDevices(r)
  \/ \E d \in Devices : Publish(r, d)

LEMMA LaterAway ==
  ASSUME TypeOK, NEW r \in Reqs, Later(r)
  PROVE  UNCHANGED <<last_seq, messages>> /\ Away(r)
<1>1. UNCHANGED <<last_seq, messages>>
  BY Zenon DEF Later, RecordMedia, UnindexMedia, ListMembers, ListDevices, Publish, db
<1>2. CASE RecordMedia(r)
  BY <1>2, ProceedAway, Zenon DEF RecordMedia
<1>3. CASE UnindexMedia(r)
  <2>1. Running("members", req[r].dev, req[r].env, 0, <<>>, {}).pc # "insert"
    BY StageOf
  <2> QED
    BY <1>3, <2>1, SetAway, Zenon DEF UnindexMedia, Goto
<1>4. CASE ListMembers(r) \/ ListDevices(r) \/ \E d \in Devices : Publish(r, d)
  BY <1>1, <1>4, ContinueAway, Zenon DEF ListMembers, ListDevices, Publish
<1> QED
  BY <1>1, <1>2, <1>3, <1>4, Zenon DEF Later

LEMMA FaultAway ==
  ASSUME TypeOK, NEW r \in Reqs, Fault(r)
  PROVE  UNCHANGED <<last_seq, messages>> /\ Away(r)
<1>1. UNCHANGED <<last_seq, messages>>
  BY Zenon DEF Fault, ListMembersFails, ListDevicesFails, Abort, db
<1>2. CASE ListDevicesFails(r)
  BY <1>1, <1>2, ContinueAway, Zenon DEF ListDevicesFails
<1>3. CASE ListMembersFails(r) \/ Abort(r)
  BY <1>1, <1>3, SetAway, Zenon DEF ListMembersFails, Abort, Done, Goto
<1> QED
  BY <1>1, <1>2, <1>3, Zenon DEF Fault

\* An edit or a delete, which changes a row that is there.
Rewrites(r, d, m) == DeleteMessage(r, d, m) \/ \E t \in Texts : EditMessage(r, d, m, t)

LEMMA RewritesAway ==
  ASSUME TypeOK, NEW r \in Reqs, NEW d \in Devices, NEW m \in MsgIds, Rewrites(r, d, m)
  PROVE  /\ UNCHANGED last_seq
         /\ Stored' \subseteq Stored
         /\ req[r] = None
         /\ Away(r)
<1>1. PICK row : messages' = [messages EXCEPT ![m] = row]
  BY Zenon DEF Rewrites, EditMessage, DeleteMessage
<1>2. m \in Stored /\ UNCHANGED last_seq /\ req[r] = None
  BY Zenon DEF Rewrites, EditMessage, Editable, DeleteMessage, Stored, Start
<1>3. Stored' \subseteq Stored
  BY <1>1, <1>2 DEF Stored, TypeOK
<1>4. CASE DeleteMessage(r, d, m)
  <2>1. Running("unindex", d, Event("message.deleted", messages[m].conv, m, 0, Empty),
                0, <<>>, {}).pc # "insert"
    BY StageOf
  <2> QED
    BY <1>2, <1>3, <1>4, <2>1, SetAway, Zenon DEF DeleteMessage, Start
<1>5. ASSUME NEW t \in Texts, EditMessage(r, d, m, t) PROVE Away(r)
  <2>1. Running("members", d, Event("message.edited", messages[m].conv, m, 0, t),
                0, <<>>, {}).pc # "insert"
    BY StageOf
  <2> QED
    BY <1>5, <2>1, SetAway, Zenon DEF EditMessage, Start
<1> QED
  BY <1>2, <1>3, <1>4, <1>5, Zenon DEF Rewrites

(***************************************************************************)
(* Seqs                                                                    *)
(***************************************************************************)
\* A step that leaves the counters alone, keeps the conversation and seq of
\* every stored row, stores no other, and puts no handler at its insert
\* keeps the invariant.
LEMMA SeqFrame ==
  ASSUME SeqInv, TypeOK', UNCHANGED last_seq,
         Stored' = Stored,
         \A m \in Stored : messages'[m].conv = messages[m].conv
                         /\ messages'[m].seq = messages[m].seq,
         \A r \in Reqs : At(r, "insert")' => At(r, "insert") /\ req'[r] = req[r]
  PROVE  SeqInv'
<1>1. Below'
  BY DEF SeqInv, Below
<1>2. SeqNeverCollides'
  <2> SUFFICES ASSUME NEW c \in Convs
               PROVE
        /\ \A m, n \in Stored' :
             messages'[m].conv = c /\ messages'[n].conv = c /\ m # n
               => messages'[m].seq # messages'[n].seq
        /\ \A r \in Inserting(c)' :
             /\ req'[r].env.seq \notin StoredSeqs(c)'
             /\ \A s \in Inserting(c)' \ {r} : req'[s].env.seq # req'[r].env.seq
    BY DEF SeqNeverCollides
  <2>1. StoredSeqs(c)' = StoredSeqs(c)
    BY DEF StoredSeqs
  <2>2. \A r \in Inserting(c)' : r \in Inserting(c) /\ req'[r] = req[r]
    BY DEF Inserting
  <2> QED
    BY <2>1, <2>2 DEF SeqInv, SeqNeverCollides
<1> QED
  BY <1>1, <1>2 DEF SeqInv

\* Taking a seq: it is above every seq of the conversation.
LEMMA SendKeepsSeqs ==
  ASSUME SeqInv, TypeOK', NEW r \in Reqs, NEW d \in Devices, NEW c \in Convs,
         NEW t \in Texts, NEW n \in 0..MaxAtts, SendMessage(r, d, c, t, n)
  PROVE  SeqInv'
<1>1. /\ messages' = messages
      /\ last_seq' = [last_seq EXCEPT ![c] = last_seq[c] + 1]
      /\ req[r] = None
      /\ req' = [req EXCEPT ![r] = Running("insert", d,
                   Event("message.new", c, None, last_seq[c] + 1, t), n, <<>>, {})]
  BY DEF SendMessage, NextSeq, Start
<1>2. Stored' = Stored /\ \A x \in Convs : StoredSeqs(x)' = StoredSeqs(x)
  BY <1>1 DEF Stored, StoredSeqs
<1>3. req'[r].env.conv = c /\ req'[r].env.seq = last_seq[c] + 1
  BY <1>1 DEF SeqInv, TypeOK, Running, Event
<1>4. \A s \in Reqs \ {r} : req'[s] = req[s] /\ (At(s, "insert")' <=> At(s, "insert"))
  BY <1>1 DEF SeqInv, TypeOK, At
<1>5. \A m \in Stored : messages[m].conv \in Convs /\ messages[m].seq \in Nat
                        /\ messages[m].seq <= last_seq[messages[m].conv]
  BY DEF SeqInv, TypeOK, Below, Stored, Row
<1>6. \A s \in Reqs : At(s, "insert") =>
        req[s].env.conv \in Convs /\ req[s].env.seq \in Nat
        /\ req[s].env.seq <= last_seq[req[s].env.conv]
  BY DEF SeqInv, TypeOK, Below, At, Handler, Envelope
<1>7. Below'
  <2>1. \A m \in Stored' : messages'[m].seq <= last_seq'[messages'[m].conv]
    BY <1>1, <1>2, <1>5, SMTT(20) DEF SeqInv, TypeOK
  <2>2. \A s \in Reqs : At(s, "insert")' =>
          req'[s].env.seq <= last_seq'[req'[s].env.conv]
    BY <1>1, <1>3, <1>4, <1>6 DEF SeqInv, TypeOK
  <2> QED
    BY <2>1, <2>2 DEF Below
<1>8. SeqNeverCollides'
  <2> SUFFICES ASSUME NEW x \in Convs, NEW s \in Inserting(x)'
               PROVE  /\ req'[s].env.seq \notin StoredSeqs(x)
                      /\ \A o \in Inserting(x)' \ {s} :
                           req'[o].env.seq # req'[s].env.seq
    BY <1>1, <1>2 DEF SeqNeverCollides, SeqInv
  <2>1. s \in Reqs /\ At(s, "insert")' /\ req'[s].env.conv = x
    BY DEF Inserting
  <2>2. \A o \in Inserting(x)' \ {r} : o \in Inserting(x) /\ req'[o] = req[o]
    BY <1>4 DEF Inserting
  <2>3. \A k \in StoredSeqs(x) : k \in Nat /\ k <= last_seq[x]
    BY <1>5 DEF StoredSeqs
  <2>4. \A o \in Inserting(x) : req[o].env.seq \in Nat /\ req[o].env.seq <= last_seq[x]
    BY <1>6 DEF Inserting
  <2>5. last_seq[x] \in Nat
    BY DEF SeqInv, TypeOK
  <2>6. CASE s = r
    <3>1. x = c
      BY <1>3, <2>1, <2>6
    <3> QED
      BY <1>3, <2>2, <2>3, <2>4, <2>5, <2>6, <3>1
  <2>7. CASE s # r
    <3>1. s \in Inserting(x) /\ req'[s] = req[s]
      BY <2>2, <2>7
    <3>2. req[s].env.seq \notin StoredSeqs(x)
      BY <3>1 DEF SeqInv, SeqNeverCollides
    <3>3. ASSUME NEW o \in Inserting(x)' \ {s} PROVE req'[o].env.seq # req'[s].env.seq
      <4>1. CASE o = r
        <5>1. x = c
          BY <1>3, <4>1 DEF Inserting
        <5> QED
          BY <1>3, <2>4, <2>5, <3>1, <4>1, <5>1
      <4>2. CASE o # r
        BY <2>2, <3>1, <3>3, <4>2 DEF SeqInv, SeqNeverCollides
      <4> QED
        BY <4>1, <4>2
    <3> QED
      BY <3>1, <3>2, <3>3
  <2> QED
    BY <2>6, <2>7
<1> QED
  BY <1>7, <1>8 DEF SeqInv

\* Inserting the row: its seq moves from the handler to the table.
LEMMA InsertKeepsSeqs ==
  ASSUME SeqInv, TypeOK', NEW r \in Reqs, NEW m \in MsgIds, InsertMessage(r, m)
  PROVE  SeqInv'
<1> DEFINE c == req[r].env.conv
           k == req[r].env.seq
<1>1. /\ r \in Inserting(c)
      /\ c \in Convs
      /\ k \in Nat
      /\ k <= last_seq[c]
      /\ UNCHANGED last_seq
  <2>1. At(r, "insert") /\ UNCHANGED last_seq /\ c \in Convs /\ k \in Nat
    BY InsertStores, Zenon DEF SeqInv
  <2> QED
    BY <2>1, Zenon DEF SeqInv, Below, Inserting
<1>2. /\ m \notin Stored
      /\ messages'[m].conv = c
      /\ messages'[m].seq = k
      /\ \A x \in MsgIds \ {m} : messages'[x] = messages[x]
  BY InsertStores, Zenon DEF SeqInv
<1>3. Stored' \subseteq Stored \cup {m}
  BY InsertStores, Zenon DEF SeqInv
<1>4. \A s \in Reqs : At(s, "insert")' => s # r /\ At(s, "insert") /\ req'[s] = req[s]
  BY InsertAway, AwayAddsNone, Zenon DEF Away, SeqInv
<1>5. \A x \in Convs : Inserting(x)' \subseteq Inserting(x) \ {r}
  BY <1>4 DEF Inserting
<1>6. \A x \in Convs : \A y \in StoredSeqs(x)' :
        y \in StoredSeqs(x) \/ (x = c /\ y = k)
  <2> SUFFICES ASSUME NEW x \in Convs, NEW n \in Stored', messages'[n].conv = x
               PROVE  messages'[n].seq \in StoredSeqs(x)
                        \/ (x = c /\ messages'[n].seq = k)
    BY DEF StoredSeqs
  <2>1. CASE n = m
    BY <1>2, <2>1
  <2>2. CASE n # m
    <3>1. n \in Stored /\ messages'[n] = messages[n]
      BY <1>2, <1>3, <2>2 DEF Stored
    <3> QED
      BY <3>1 DEF StoredSeqs
  <2> QED
    BY <2>1, <2>2
<1>7. Below'
  <2>1. ASSUME NEW n \in Stored' PROVE messages'[n].seq <= last_seq'[messages'[n].conv]
    BY <1>1, <1>2, <1>3, <2>1 DEF SeqInv, Below, Stored
  <2>2. ASSUME NEW s \in Reqs, At(s, "insert")'
        PROVE  req'[s].env.seq <= last_seq'[req'[s].env.conv]
    BY <1>1, <1>4, <2>2 DEF SeqInv, Below
  <2> QED
    BY <2>1, <2>2 DEF Below
<1>8. ASSUME NEW x \in Convs, NEW i \in Stored', NEW j \in Stored',
             messages'[i].conv = x, messages'[j].conv = x, i # j
      PROVE  messages'[i].seq # messages'[j].seq
  <2>1. \A y \in Stored : messages[y].conv = c => messages[y].seq # k
    BY <1>1 DEF SeqInv, SeqNeverCollides, StoredSeqs
  <2>2. \A y \in Stored' : y # m => y \in Stored /\ messages'[y] = messages[y]
    BY <1>2, <1>3 DEF Stored
  <2> QED
    BY <1>1, <1>2, <1>8, <2>1, <2>2 DEF SeqInv, SeqNeverCollides
<1>9. ASSUME NEW x \in Convs, NEW s \in Inserting(x)'
      PROVE  /\ req'[s].env.seq \notin StoredSeqs(x)'
             /\ \A o \in Inserting(x)' \ {s} : req'[o].env.seq # req'[s].env.seq
  <2>1. s \in Inserting(x) /\ s # r /\ req'[s] = req[s]
    BY <1>4, <1>5, <1>9 DEF Inserting
  <2>2. x = c => req[s].env.seq # k
    BY <1>1, <2>1 DEF SeqInv, SeqNeverCollides
  <2>3. req[s].env.seq \notin StoredSeqs(x)
    BY <2>1 DEF SeqInv, SeqNeverCollides
  <2>4. \A o \in Inserting(x)' : o \in Inserting(x) /\ req'[o] = req[o]
    BY <1>4, <1>5 DEF Inserting
  <2> QED
    BY <1>6, <2>1, <2>2, <2>3, <2>4 DEF SeqInv, SeqNeverCollides
<1> QED
  BY <1>7, <1>8, <1>9 DEF SeqInv, SeqNeverCollides

\* Every step of the handlers keeps the seqs apart.
LEMMA StepSeqs == SeqInv /\ [Next]_vars => SeqInv'
<1> SUFFICES ASSUME SeqInv, [Next]_vars PROVE SeqInv'
  OBVIOUS
<1>0. TypeOK /\ TypeOK'
  BY StepType DEF SeqInv
<1>1. ASSUME NEW r \in Reqs, NEW d \in Devices, NEW c \in Convs,
             NEW t \in Texts, NEW n \in 0..MaxAtts, SendMessage(r, d, c, t, n)
      PROVE  SeqInv'
  BY <1>0, <1>1, SendKeepsSeqs
<1>2. ASSUME NEW r \in Reqs, NEW m \in MsgIds, InsertMessage(r, m)
      PROVE  SeqInv'
  BY <1>0, <1>2, InsertKeepsSeqs
<1>3. ASSUME NEW r \in Reqs, UNCHANGED last_seq, Stored' \subseteq Stored, Away(r)
      PROVE  SeqInv'
  <2>1. Grown
    BY <1>0, RowsGrow
  <2>2. Stored' = Stored
    BY <1>3, <2>1, Zenon DEF Grown
  <2>3. \A x \in Stored : messages'[x].conv = messages[x].conv
                          /\ messages'[x].seq = messages[x].seq
    BY <2>1, Zenon DEF Grown
  <2>4. \A s \in Reqs : At(s, "insert")' => At(s, "insert") /\ req'[s] = req[s]
    BY <1>3, AwayAddsNone, Zenon
  <2> QED
    BY <1>0, <1>3, <2>2, <2>3, <2>4, SeqFrame, Zenon
<1>4. ASSUME NEW r \in Reqs, NEW d \in Devices, NEW m \in MsgIds, Rewrites(r, d, m)
      PROVE  SeqInv'
  BY <1>0, <1>3, <1>4, RewritesAway, Zenon
<1>5. ASSUME NEW r \in Reqs, Later(r) \/ Fault(r) PROVE SeqInv'
  <2>1. UNCHANGED <<last_seq, messages>> /\ Away(r)
    BY <1>0, <1>5, LaterAway, FaultAway, Zenon
  <2>2. Stored' \subseteq Stored
    BY <2>1 DEF Stored
  <2> QED
    BY <1>3, <2>1, <2>2, Zenon
<1>6. ASSUME UNCHANGED <<last_seq, messages, req>> PROVE SeqInv'
  BY <1>0, <1>6, SeqFrame DEF Stored, At
<1>7. ASSUME NEW d \in Devices, NEW m \in MsgIds, HideMessage(d, m) PROVE SeqInv'
  BY <1>6, <1>7, Zenon DEF HideMessage
<1>8. CASE UNCHANGED vars
  BY <1>6, <1>8, Zenon DEF vars, db
<1> QED
  BY <1>1, <1>2, <1>4, <1>5, <1>7, <1>8, Zenon DEF Next, Step, Call, Later, Rewrites

\* Concurrent sends never meet on a seq, with any number of requests.
THEOREM SeqSafety == Spec => []SeqNeverCollides
<1>1. Init => SeqInv
  BY InitType DEF Init, SeqInv, Below, SeqNeverCollides, Stored, StoredSeqs,
                  Inserting, At
<1>2. SeqInv => SeqNeverCollides
  BY DEF SeqInv
<1> QED
  BY <1>1, <1>2, StepSeqs, PTL DEF Spec

\* A deleted message is never changed again by a racing edit or delete.
THEOREM DeletionIsFinal == Spec => DeletedIsFinal
<1>1. TypeOK /\ [Next]_vars =>
        [\A m \in Stored : messages[m].deleted => messages'[m] = messages[m]]_vars
  <2> SUFFICES ASSUME TypeOK, Next, NEW m \in Stored, messages[m].deleted
               PROVE  messages'[m] = messages[m]
    OBVIOUS
  <2>1. ASSUME NEW r \in Reqs, NEW x \in MsgIds, InsertMessage(r, x)
        PROVE  messages'[m] = messages[m]
    BY <2>1 DEF InsertMessage, Named, Stored, TypeOK
  <2>2. ASSUME NEW r \in Reqs, NEW d \in Devices, NEW x \in MsgIds, NEW t \in Texts,
               EditMessage(r, d, x, t)
        PROVE  messages'[m] = messages[m]
    BY <2>2, Zenon DEF EditMessage, Editable, Edited, Stored, TypeOK
  <2>3. ASSUME NEW r \in Reqs, NEW d \in Devices, NEW x \in MsgIds,
               DeleteMessage(r, d, x)
        PROVE  messages'[m] = messages[m]
    BY <2>3, Zenon DEF DeleteMessage, Tombstone, Stored, TypeOK
  <2>4. ASSUME UNCHANGED messages PROVE messages'[m] = messages[m]
    BY <2>4
  <2> QED
    BY <2>1, <2>2, <2>3, <2>4, Zenon
    DEF Next, Step, Call, Fault, SendMessage, NextSeq, RecordMedia, UnindexMedia, Unindexed, ListMembers,
        ListDevices, Recipients, Publish, ListMembersFails, ListDevicesFails, Abort, HideMessage, db
<1> QED
  BY <1>1, TypeCorrect, PTL DEF Spec, DeletedIsFinal

(***************************************************************************)
(* No gaps.  Without failures every seq up to the counter is in the table  *)
(* or in the hands of a send that will insert it (Full).                   *)
(***************************************************************************)
Full ==
  \A c \in Convs : \A k \in 1..last_seq[c] :
    \/ \E m \in Stored : messages[m].conv = c /\ messages[m].seq = k
    \/ \E r \in Inserting(c) : req[r].env.seq = k

Positive ==
  /\ \A m \in Stored : messages[m].seq >= 1
  /\ \A r \in Reqs : At(r, "insert") => req[r].env.seq >= 1

GapInv == SeqInv /\ Full /\ Positive

\* A step that keeps the counters, the conversation and seq of every row and
\* the handlers at their insert keeps the seqs complete.
LEMMA GapFrame ==
  ASSUME GapInv, SeqInv', UNCHANGED last_seq,
         Stored' = Stored,
         \A m \in Stored : messages'[m].conv = messages[m].conv
                         /\ messages'[m].seq = messages[m].seq,
         \A r \in Reqs : /\ At(r, "insert")' <=> At(r, "insert")
                         /\ At(r, "insert") => req'[r] = req[r]
  PROVE  GapInv'
<1>1. \A c \in Convs : Inserting(c)' = Inserting(c)
  BY DEF Inserting
<1>2. \A c \in Convs : \A r \in Inserting(c) : req'[r] = req[r]
  BY DEF Inserting
<1>3. Full'
  BY <1>1, <1>2 DEF GapInv, Full
<1>4. Positive'
  BY DEF GapInv, Positive
<1> QED
  BY <1>3, <1>4 DEF GapInv

\* So does a step of one handler that is elsewhere and stays away.
LEMMA GapAway ==
  ASSUME GapInv, SeqInv', Grown, UNCHANGED last_seq, Stored' \subseteq Stored,
         NEW r \in Reqs, ~At(r, "insert"), Away(r)
  PROVE  GapInv'
<1>1. Stored' = Stored /\ \A m \in Stored : messages'[m].conv = messages[m].conv
                                         /\ messages'[m].seq = messages[m].seq
  BY Zenon DEF Grown
<1>2. \A s \in Reqs : /\ At(s, "insert")' <=> At(s, "insert")
                      /\ At(s, "insert") => req'[s] = req[s]
  BY DEF Away, At
<1> QED
  BY <1>1, <1>2, GapFrame, Zenon

\* Where a later step finds its handler.
LEMMA LaterIsElsewhere ==
  ASSUME NEW r \in Reqs, Later(r)
  PROVE  ~At(r, "insert")
<1>1. At(r, "index") \/ At(r, "unindex") \/ At(r, "members") \/ At(r, "fanout")
  BY Zenon DEF Later, RecordMedia, UnindexMedia, ListMembers, ListDevices, Publish
<1> QED
  BY <1>1 DEF At

\* Taking a seq adds it to the counter and to the handler.
LEMMA SendKeepsFull ==
  ASSUME GapInv, SeqInv', NEW r \in Reqs, NEW d \in Devices, NEW c \in Convs,
         NEW t \in Texts, NEW n \in 0..MaxAtts, SendMessage(r, d, c, t, n)
  PROVE  GapInv'
<1> DEFINE k == last_seq[c] + 1
           h == Running("insert", d, Event("message.new", c, None, k, t), n, <<>>, {})
<1>1. /\ messages' = messages
      /\ last_seq' = [last_seq EXCEPT ![c] = k]
      /\ req[r] = None
      /\ req' = [req EXCEPT ![r] = h]
  BY DEF SendMessage, NextSeq, Start
<1>2. h.pc = "insert" /\ h.env.conv = c /\ h.env.seq = k
  BY DEF Running, Event
<1>3. h # None
  <2>1. h \in Handler
    BY BoundsAssumption DEF GapInv, SeqInv, TypeOK, Running, Event, Handler, Stages,
                            Envelope
  <2> QED
    BY <2>1, NoneAssumption
<1>4. k \in Nat /\ k >= 1 /\ last_seq[c] \in Nat /\ k = last_seq[c] + 1
  BY DEF GapInv, SeqInv, TypeOK
<1> HIDE DEF h, k
<1>5. At(r, "insert")' /\ req'[r] = h
  BY <1>1, <1>2, <1>3 DEF GapInv, SeqInv, TypeOK, At
<1>6. \A s \in Reqs \ {r} : req'[s] = req[s] /\ (At(s, "insert")' <=> At(s, "insert"))
  BY <1>1 DEF GapInv, SeqInv, TypeOK, At
<1>7. ~At(r, "insert")
  BY <1>1 DEF At
<1>8. Stored' = Stored
  BY <1>1 DEF Stored
<1>9. Positive'
  BY <1>1, <1>2, <1>4, <1>5, <1>6, <1>8 DEF GapInv, Positive
<1>10. ASSUME NEW b \in Convs, NEW j \in 1..last_seq'[b]
       PROVE  \/ \E m \in Stored' : messages'[m].conv = b /\ messages'[m].seq = j
              \/ \E s \in Inserting(b)' : req'[s].env.seq = j
  <2>1. CASE b = c /\ j = k
    BY <1>2, <1>5, <2>1 DEF Inserting
  <2>2. CASE ~(b = c /\ j = k)
    <3>1. j \in 1..last_seq[b]
      <4>1. last_seq'[b] = IF b = c THEN k ELSE last_seq[b]
        BY <1>1, SMTT(20) DEF GapInv, SeqInv, TypeOK
      <4> QED
        BY <1>4, <2>2, <4>1
    <3>2. CASE \E m \in Stored : messages[m].conv = b /\ messages[m].seq = j
      BY <1>1, <1>8, <3>2, SMTT(20)
    <3>3. ASSUME NEW s \in Inserting(b), req[s].env.seq = j
          PROVE  s \in Inserting(b)' /\ req'[s].env.seq = j
      BY <1>6, <1>7, <3>3, SMTT(20) DEF Inserting
    <3> QED
      BY <3>1, <3>2, <3>3 DEF GapInv, Full
  <2> QED
    BY <2>1, <2>2
<1> QED
  BY <1>9, <1>10, SMTT(20) DEF GapInv, Full

\* The insert moves a seq from the handler to the table.
LEMMA InsertKeepsFull ==
  ASSUME GapInv, SeqInv', NEW r \in Reqs, NEW m \in MsgIds, InsertMessage(r, m)
  PROVE  GapInv'
<1> DEFINE e == req[r].env
<1>1. At(r, "insert") /\ last_seq' = last_seq
  BY InsertStores, Zenon DEF GapInv, SeqInv
<1>2. messages'[m].conv = e.conv /\ messages'[m].seq = e.seq
  BY InsertStores, Zenon DEF GapInv, SeqInv
<1>3. ~At(r, "insert")' /\ \A s \in Reqs \ {r} : req'[s] = req[s]
  BY InsertAway, Zenon DEF GapInv, SeqInv, Away
<1>4. Stored' = Stored \cup {m} /\ m \notin Stored
  BY InsertStores, Zenon DEF GapInv, SeqInv
<1>5. \A x \in Stored : messages'[x] = messages[x]
  BY <1>4, InsertStores, ZenonT(20) DEF Stored, GapInv, SeqInv
<1>6. \A s \in Reqs \ {r} : At(s, "insert")' <=> At(s, "insert")
  BY <1>3 DEF At
<1>7. Positive'
  BY <1>1, <1>2, <1>3, <1>4, <1>5, <1>6, SMTT(20) DEF GapInv, Positive
<1>8. ASSUME NEW b \in Convs, NEW j \in 1..last_seq[b]
       PROVE  \/ \E x \in Stored' : messages'[x].conv = b /\ messages'[x].seq = j
              \/ \E s \in Inserting(b)' : req'[s].env.seq = j
  <2>1. CASE \E x \in Stored : messages[x].conv = b /\ messages[x].seq = j
    BY <1>4, <1>5, <2>1
  <2>2. ASSUME NEW s \in Inserting(b), req[s].env.seq = j, s # r
        PROVE  s \in Inserting(b)' /\ req'[s].env.seq = j
    BY <1>3, <1>6, <2>2, SMTT(20) DEF Inserting
  <2>3. CASE r \in Inserting(b) /\ e.seq = j
    <3>1. messages'[m].conv = b /\ messages'[m].seq = j
      BY <1>2, <2>3, Zenon DEF Inserting
    <3> QED
      BY <1>4, <3>1
  <2> QED
    BY <2>1, <2>2, <2>3 DEF GapInv, Full
<1> QED
  BY <1>1, <1>7, <1>8 DEF GapInv, Full

\* Every step but a fault keeps the seqs complete.
LEMMA StepFull == ~Failures /\ GapInv /\ [Next]_vars => GapInv'
<1> SUFFICES ASSUME ~Failures, GapInv, [Next]_vars PROVE GapInv'
  OBVIOUS
<1>0. TypeOK /\ SeqInv'
  BY StepSeqs DEF GapInv, SeqInv
<1>1. ASSUME NEW r \in Reqs, NEW d \in Devices, NEW c \in Convs,
             NEW t \in Texts, NEW n \in 0..MaxAtts, SendMessage(r, d, c, t, n)
      PROVE  GapInv'
  BY <1>0, <1>1, SendKeepsFull
<1>2. ASSUME NEW r \in Reqs, NEW m \in MsgIds, InsertMessage(r, m)
      PROVE  GapInv'
  BY <1>0, <1>2, InsertKeepsFull
<1>3. Grown
  BY <1>0, RowsGrow
<1>4. ASSUME NEW r \in Reqs, NEW d \in Devices, NEW m \in MsgIds, Rewrites(r, d, m)
      PROVE  GapInv'
  <2>1. UNCHANGED last_seq /\ Stored' \subseteq Stored /\ req[r] = None /\ Away(r)
    BY <1>0, <1>4, RewritesAway, Zenon
  <2> QED
    BY <1>0, <1>3, <2>1, GapAway, Zenon DEF At
<1>5. ASSUME NEW r \in Reqs, Later(r) PROVE GapInv'
  <2>1. UNCHANGED <<last_seq, messages>> /\ Away(r) /\ ~At(r, "insert")
    BY <1>0, <1>5, LaterAway, LaterIsElsewhere, Zenon
  <2>2. Stored' \subseteq Stored
    BY <2>1 DEF Stored
  <2> QED
    BY <1>0, <1>3, <2>1, <2>2, GapAway, Zenon
<1>6. \A r \in Reqs : ~Fault(r)
  BY Zenon DEF Fault, ListMembersFails, ListDevicesFails, Abort
<1>7. ASSUME UNCHANGED <<last_seq, messages, req>> PROVE GapInv'
  BY <1>0, <1>7, GapFrame DEF Stored, At
<1>8. ASSUME NEW d \in Devices, NEW m \in MsgIds, HideMessage(d, m) PROVE GapInv'
  BY <1>7, <1>8, Zenon DEF HideMessage
<1>9. CASE UNCHANGED vars
  BY <1>7, <1>9, Zenon DEF vars, db
<1> QED
  BY <1>1, <1>2, <1>4, <1>5, <1>6, <1>8, <1>9, Zenon DEF Next, Step, Call, Later, Rewrites

\* Where no statement fails, the stored seqs of a conversation are 1, 2, ...,
\* last_seq whenever no send is between its two statements.
THEOREM SeqsAreGapFree == ~Failures /\ Spec => []GapFree
<1> SUFFICES ASSUME ~Failures PROVE Spec => []GapFree
  OBVIOUS
<1>1. Init => GapInv
  <2>1. Init => SeqInv
    BY InitType DEF Init, SeqInv, Below, SeqNeverCollides, Stored, StoredSeqs,
                    Inserting, At
  <2>2. Init => Full /\ Positive
    BY DEF Init, Full, Positive, Stored, At
  <2> QED
    BY <2>1, <2>2 DEF GapInv
<1>2. GapInv => GapFree
  <2> SUFFICES ASSUME GapInv, NEW c \in Convs, Inserting(c) = {}
               PROVE  StoredSeqs(c) = 1..last_seq[c]
    BY DEF GapFree
  <2>1. 1..last_seq[c] \subseteq StoredSeqs(c)
    BY SMTT(20) DEF GapInv, Full, StoredSeqs
  <2>2. \A m \in Stored : messages[m].conv = c => messages[m].seq \in 1..last_seq[c]
    BY DEF GapInv, SeqInv, TypeOK, Below, Positive, Stored, Row
  <2> QED
    BY <2>1, <2>2 DEF StoredSeqs
<1>3. GapInv /\ [Next]_vars => GapInv'
  BY StepFull
<1> QED
  BY <1>1, <1>2, <1>3, PTL DEF Spec
==============================================================================
