--------------------------- MODULE Receipts_proof ----------------------------
(***************************************************************************)
(* Proofs about the markers, for any accounts, devices, requests, frames   *)
(* and bounds, with or without failures.                                   *)
(*                                                                         *)
(* MAX(seq) of a conversation is a seq of the table (Topped), and at least *)
(* the seq a frame names, because a client only names what is stored and   *)
(* rows stay (Grown).  The invariant follows a frame from there to the     *)
(* relay (OnItsWay): the maximum it took, and once its markers are moved   *)
(* the marker itself, is no lower than what the receipt says.              *)
(***************************************************************************)
EXTENDS Receipts, Messaging_proof

\* The orders in which the markers of a frame can be left.
Left == {<<>>, <<"delivered_markers">>, <<"read_markers">>,
         <<"delivered_markers", "read_markers">>}

LeftFrame == [kind : Kinds, conv : Convs, upTo : Nat, marks : Left,
              max : Nat \cup {None}, saved : BOOLEAN, out : SUBSET Devices]

MarkerTypes ==
  /\ markers \in [Tables -> [Convs -> [Accounts -> Nat]]]
  /\ inbound \in [Devices -> LeftFrame \cup {None}]
  /\ relayed \in [Devices -> SUBSET [kind : Kinds, conv : Convs, by : Accounts,
                                     saved : BOOLEAN, upTo : Nat]]

\* Of the frame f of device d.
OnItsWay(d, f) ==
  /\ f.upTo \in StoredSeqs(f.conv)
  /\ f.max # None =>
       f.max \in StoredSeqs(f.conv) \cup {0} /\ f.max >= f.upTo /\ f.marks # <<>>
  /\ f.out # {} => f.marks = <<>>
  /\ f.kind = "receipt.read" =>
       /\ f.marks # <<"delivered_markers">>
       /\ f.marks = <<>> /\ f.saved =>
            markers["read_markers"][f.conv][Owner[d]] >= f.upTo

\* A conversation has a greatest seq, if only 0.
Topped ==
  \A c \in Convs : \E k \in StoredSeqs(c) \cup {0} : \A j \in StoredSeqs(c) : j <= k

RowInv == TypeOK /\ Topped

\* Markers are seqs of stored messages.
Pointing ==
  \A t \in Tables, c \in Convs, a \in Accounts : markers[t][c][a] \in StoredSeqs(c) \cup {0}

Travelling ==
  \A d \in Devices, f \in LeftFrame : inbound[d] = f /\ f # None => OnItsWay(d, f)

MarkerInv ==
  /\ RowInv
  /\ MarkerTypes
  /\ Pointing
  /\ Travelling
  /\ StatusSurvivesReload

(***************************************************************************)
(* Maxima                                                                  *)
(***************************************************************************)
\* A step stores one message at most.
LEMMA OneRow ==
  ASSUME TypeOK, [Next]_vars
  PROVE  \E m : Stored' \subseteq Stored \cup {m}
<1>1. ASSUME NEW x \in MsgIds, NEW row, messages' = [messages EXCEPT ![x] = row]
      PROVE  Stored' \subseteq Stored \cup {x}
  BY <1>1 DEF Stored, TypeOK
<1>2. ASSUME NEW r \in Reqs, NEW x \in MsgIds, InsertMessage(r, x)
      PROVE  Stored' \subseteq Stored \cup {x}
  BY <1>1, <1>2, Zenon DEF InsertMessage
<1>3. ASSUME NEW r \in Reqs, NEW d \in Devices, NEW x \in MsgIds, NEW t \in Texts,
             EditMessage(r, d, x, t)
      PROVE  Stored' \subseteq Stored \cup {x}
  BY <1>1, <1>3, Zenon DEF EditMessage, Edited
<1>4. ASSUME NEW r \in Reqs, NEW d \in Devices, NEW x \in MsgIds, DeleteMessage(r, d, x)
      PROVE  Stored' \subseteq Stored \cup {x}
  BY <1>1, <1>4, Zenon DEF DeleteMessage, Tombstone
<1>5. ASSUME UNCHANGED messages PROVE \E m : Stored' \subseteq Stored \cup {m}
  BY <1>5 DEF Stored
<1> QED
  BY <1>2, <1>3, <1>4, <1>5, Zenon
  DEF Next, Step, Call, Fault, SendMessage, RecordMedia, UnindexMedia, ListMembers,
      ListDevices, Publish, ListMembersFails, ListDevicesFails, Abort, HideMessage, db, vars

\* So a greatest seq is left, or the new one is the greatest.
LEMMA StepRows ==
  ASSUME RowInv, [Next]_vars
  PROVE  RowInv' /\ Grown
<1>1. TypeOK /\ TypeOK' /\ Grown
  BY StepType, RowsGrow DEF RowInv
<1>2. PICK m : Stored' \subseteq Stored \cup {m}
  BY <1>1, OneRow
<1> SUFFICES ASSUME NEW c \in Convs
             PROVE  \E k \in StoredSeqs(c)' \cup {0} : \A j \in StoredSeqs(c)' : j <= k
  BY <1>1 DEF RowInv, Topped
<1>3. PICK n : n = messages'[m].seq
  BY Zenon
<1>4. StoredSeqs(c) \subseteq StoredSeqs(c)'
  BY <1>1, Zenon DEF Grown, StoredSeqs
<1>5. ASSUME NEW j \in StoredSeqs(c)', j # n PROVE j \in StoredSeqs(c)
  <2>1. PICK x \in Stored' : messages'[x].conv = c /\ messages'[x].seq = j
    BY Zenon DEF StoredSeqs
  <2>2. x \in Stored /\ messages[x].conv = c /\ messages[x].seq = j
    BY <1>1, <1>2, <1>3, <1>5, <2>1 DEF Grown
  <2> QED
    BY <2>2, Zenon DEF StoredSeqs
<1>6. StoredSeqs(c)' \subseteq Nat
  BY <1>1 DEF TypeOK, StoredSeqs, Stored, Row
<1>7. PICK k \in StoredSeqs(c) \cup {0} : \A j \in StoredSeqs(c) : j <= k
  BY DEF RowInv, Topped
<1> QED
  BY <1>4, <1>5, <1>6, <1>7

\* COALESCE(MAX(seq), 0) is at least every stored seq, and one of them.
LEMMA MaxSeqIsGreatest ==
  ASSUME RowInv, NEW c \in Convs
  PROVE  /\ MaxSeq(c) \in StoredSeqs(c) \cup {0}
         /\ \A k \in StoredSeqs(c) : k \in Nat /\ k <= MaxSeq(c)
         /\ MaxSeq(c) \in Nat
<1>1. \A k \in StoredSeqs(c) : k \in Nat
  BY DEF RowInv, TypeOK, StoredSeqs, Stored, Row
<1> DEFINE S == StoredSeqs(c) \cup {0}
<1>2. PICK k \in S : \A j \in StoredSeqs(c) : j <= k
  BY DEF RowInv, Topped
<1>3. \E x \in S : \A y \in S : x >= y
  BY <1>1, <1>2
<1> HIDE DEF S
<1>4. Max(S) \in S /\ \A y \in S : Max(S) >= y
  BY <1>3, Zenon DEF Max
<1> QED
  BY <1>1, <1>4 DEF MaxSeq, S

\* Seqs stay in the table.
LEMMA SeqsStay ==
  ASSUME Grown, NEW c \in Convs, NEW k \in StoredSeqs(c)
  PROVE  k \in StoredSeqs(c)'
<1>1. PICK m \in Stored : messages[m].conv = c /\ messages[m].seq = k
  BY DEF StoredSeqs
<1>2. m \in Stored' /\ messages'[m].conv = c /\ messages'[m].seq = k
  BY <1>1 DEF Grown
<1> QED
  BY <1>2 DEF StoredSeqs

\* The next marker of a frame, and those after it.
LEMMA NextMark ==
  \A s \in Left : s # <<>> =>
    /\ Head(s) \in Tables
    /\ Tail(s) \in Left
    /\ s # <<"delivered_markers">> =>
         /\ Tail(s) # <<"delivered_markers">>
         /\ Tail(s) = <<>> => Head(s) = "read_markers"
<1> DEFINE D == "delivered_markers"
           R == "read_markers"
<1>1. Head(<<D>>) = D /\ Tail(<<D>>) = <<>>
  OBVIOUS
<1>2. Head(<<R>>) = R /\ Tail(<<R>>) = <<>>
  OBVIOUS
<1>3. Head(<<D, R>>) = D /\ Tail(<<D, R>>) = <<R>>
  OBVIOUS
<1>4. <<R>> # <<D>> /\ <<R>> # <<>> /\ <<>> # <<D>>
  OBVIOUS
<1> QED
  BY <1>1, <1>2, <1>3, <1>4, Zenon DEF Left, Tables

(***************************************************************************)
(* Frames                                                                  *)
(***************************************************************************)
\* The frames that mark and relay leave behind.
LEMMA MarkingType ==
  ASSUME NEW f \in LeftFrame, NEW marks \in Left, NEW k \in Nat \cup {None},
         NEW saved \in BOOLEAN
  PROVE  Marking(f, marks, k, saved) \in LeftFrame
  BY DEF LeftFrame, Marking

LEMMA MarkingIsOnItsWay ==
  ASSUME NEW d, NEW f, NEW marks, NEW k, NEW saved,
         f.upTo \in StoredSeqs(f.conv),
         k # None => k \in StoredSeqs(f.conv) \cup {0} /\ k >= f.upTo /\ marks # <<>>,
         f.kind = "receipt.read" =>
           /\ marks # <<"delivered_markers">>
           /\ marks = <<>> /\ saved => markers["read_markers"][f.conv][Owner[d]] >= f.upTo
  PROVE  OnItsWay(d, Marking(f, marks, k, saved))
  BY DEF OnItsWay, Marking

LEMMA RelayingKeeps ==
  ASSUME NEW d, NEW f \in LeftFrame, OnItsWay(d, f), f.marks = <<>>,
         NEW out \in SUBSET Devices
  PROVE  Relaying(f, out) \in LeftFrame /\ OnItsWay(d, Relaying(f, out))
<1>1. Relaying(f, out) \in LeftFrame
  BY DEF LeftFrame, Relaying, Left
<1>2. OnItsWay(d, Relaying(f, out))
  BY DEF OnItsWay, Relaying
<1> QED
  BY <1>1, <1>2

\* The frame of a device.
LEMMA FrameOf ==
  ASSUME MarkerInv, NEW d \in Devices, inbound[d] # None
  PROVE  inbound[d] \in LeftFrame /\ OnItsWay(d, inbound[d])
  BY DEF MarkerInv, MarkerTypes, Travelling

\* No marker goes back.
Forward ==
  \A t \in Tables, c \in Convs, a \in Accounts : markers'[t][c][a] >= markers[t][c][a]

\* So what a marker has reached it has reached for good.
LEMMA Reached ==
  ASSUME MarkerTypes, MarkerTypes', Forward, NEW t \in Tables, NEW c \in Convs,
         NEW a \in Accounts, NEW n \in Nat
  PROVE  /\ markers[t][c][a] >= n => markers'[t][c][a] >= n
         /\ n <= markers[t][c][a] => n <= markers'[t][c][a]
<1>1. /\ markers[t][c][a] \in Nat /\ markers'[t][c][a] \in Nat
      /\ markers'[t][c][a] >= markers[t][c][a]
  BY DEF Forward, MarkerTypes
<1> QED
  BY <1>1

\* What is true of a frame stays true while rows and markers grow.
LEMMA OnItsWayStays ==
  ASSUME MarkerTypes, MarkerTypes', Grown, Forward, NEW d \in Devices,
         NEW f \in LeftFrame, OnItsWay(d, f)
  PROVE  OnItsWay(d, f)'
<1>1. f.conv \in Convs /\ f.upTo \in Nat /\ Owner[d] \in Accounts
      /\ "read_markers" \in Tables
  BY OwnerAssumption DEF LeftFrame, Tables
<1>2. StoredSeqs(f.conv) \subseteq StoredSeqs(f.conv)'
  BY <1>1, SeqsStay
<1>3. markers["read_markers"][f.conv][Owner[d]] >= f.upTo =>
        markers'["read_markers"][f.conv][Owner[d]] >= f.upTo
  BY <1>1, Reached
<1> QED
  BY <1>2, <1>3 DEF OnItsWay

\* So does what a relayed receipt says.
LEMMA StatusStays ==
  ASSUME MarkerTypes, MarkerTypes', Forward, StatusSurvivesReload, UNCHANGED relayed
  PROVE  StatusSurvivesReload'
<1> SUFFICES ASSUME NEW d \in Devices, NEW e \in relayed[d],
                    e.kind = "receipt.read", e.saved
             PROVE  markers'["read_markers"][e.conv][e.by] >= e.upTo
  BY Zenon DEF StatusSurvivesReload
<1>1. e.conv \in Convs /\ e.by \in Accounts /\ e.upTo \in Nat /\ "read_markers" \in Tables
  BY DEF MarkerTypes, Tables
<1>2. markers["read_markers"][e.conv][e.by] >= e.upTo
  BY Zenon DEF StatusSurvivesReload
<1> QED
  BY <1>1, <1>2, Reached

\* A step keeps the invariant when its markers point at messages, and each
\* frame was on its way before or is now.
LEMMA MarkersKept ==
  ASSUME MarkerInv, [Next]_vars, MarkerTypes', Forward, Pointing', StatusSurvivesReload',
         \A d \in Devices, f \in LeftFrame : inbound'[d] = f /\ f # None =>
           OnItsWay(d, f) \/ OnItsWay(d, f)'
  PROVE  MarkerInv'
<1>1. RowInv' /\ Grown /\ MarkerTypes
  BY StepRows DEF MarkerInv
<1>2. Travelling'
  BY <1>1, OnItsWayStays DEF Travelling
<1> QED
  BY <1>1, <1>2 DEF MarkerInv

\* One that moves no marker and publishes nothing.
LEMMA QuietStep ==
  ASSUME MarkerInv, [Next]_vars, UNCHANGED <<markers, relayed>>,
         inbound' \in [Devices -> LeftFrame \cup {None}],
         \A d \in Devices, f \in LeftFrame : inbound'[d] = f /\ f # None => OnItsWay(d, f)
  PROVE  MarkerInv' /\ Forward
<1>1. Grown /\ MarkerTypes
  BY StepRows DEF MarkerInv
<1>2. MarkerTypes'
  BY <1>1 DEF MarkerTypes
<1>3. Forward
  BY <1>1 DEF Forward, MarkerTypes
<1>4. Pointing'
  BY <1>1, SeqsStay DEF MarkerInv, Pointing
<1>5. StatusSurvivesReload'
  BY <1>1, <1>2, <1>3, StatusStays DEF MarkerInv
<1> QED
  BY <1>2, <1>3, <1>4, <1>5, MarkersKept

\* One of the frame of device d.
LEMMA QuietFrameStep ==
  ASSUME MarkerInv, UNCHANGED <<vars, markers, relayed>>, NEW d \in Devices, NEW g,
         SetFrame(d, g), g = None \/ (g \in LeftFrame /\ OnItsWay(d, g))
  PROVE  MarkerInv' /\ Forward
<1>1. MarkerTypes /\ Travelling
  BY DEF MarkerInv
<1>2. /\ inbound' \in [Devices -> LeftFrame \cup {None}]
      /\ inbound'[d] = g
      /\ \A x \in Devices \ {d} : inbound'[x] = inbound[x]
  BY <1>1 DEF SetFrame, MarkerTypes
<1>3. \A x \in Devices, f \in LeftFrame : inbound'[x] = f /\ f # None => OnItsWay(x, f)
  BY <1>1, <1>2 DEF Travelling
<1>4. [Next]_vars /\ UNCHANGED <<markers, relayed>>
  BY Zenon
<1> QED
  BY <1>2, <1>3, <1>4, QuietStep

\* A client acknowledges a stored message.
LEMMA ReceiveKeeps ==
  ASSUME MarkerInv, NEW d \in Devices, NEW kind \in Kinds, NEW m \in MsgIds,
         ReceiveFrame(d, kind, m)
  PROVE  MarkerInv' /\ Forward
<1>1. PICK c, k : c = messages[m].conv /\ k = messages[m].seq
  BY ZenonT(20)
<1>2. c \in Convs /\ k \in Nat /\ k \in StoredSeqs(c)
  BY <1>1 DEF ReceiveFrame, Known, Stored, StoredSeqs, MarkerInv, RowInv, TypeOK, Row
<1>3. /\ MarksOf(kind) \in Left
      /\ kind = "receipt.read" => MarksOf(kind) = <<"delivered_markers", "read_markers">>
  BY DEF MarksOf, Left
<1> DEFINE g == [kind |-> kind, conv |-> c, upTo |-> k, marks |-> MarksOf(kind),
                 max |-> None, saved |-> TRUE, out |-> {}]
<1>4. g \in LeftFrame
  BY <1>2, <1>3, SMTT(20) DEF LeftFrame
<1>5. OnItsWay(d, g)
  BY <1>2, <1>3 DEF OnItsWay
<1>6. SetFrame(d, g) /\ UNCHANGED <<vars, markers, relayed>>
  BY <1>1, Zenon DEF ReceiveFrame
<1> HIDE DEF g
<1> QED
  BY <1>4, <1>5, <1>6, QuietFrameStep

\* The SELECT of mark takes a stored seq no lower than the frame's.
LEMMA SelectKeeps ==
  ASSUME MarkerInv, NEW d \in Devices, MarkSelect(d)
  PROVE  MarkerInv' /\ Forward
<1>1. PICK f, k : f = inbound[d] /\ k = MaxSeq(f.conv)
  BY Zenon
<1>2. f # None /\ f.marks # <<>> /\ SetFrame(d, Marking(f, f.marks, k, f.saved))
      /\ UNCHANGED <<vars, markers, relayed>>
  BY <1>1, Zenon DEF MarkSelect
<1>3. f \in LeftFrame /\ OnItsWay(d, f)
  BY <1>1, <1>2, FrameOf
<1>4. f.conv \in Convs /\ f.upTo \in Nat /\ f.marks \in Left /\ f.saved \in BOOLEAN
  BY <1>3, Zenon DEF LeftFrame
<1>5. /\ f.upTo \in StoredSeqs(f.conv)
      /\ f.kind = "receipt.read" => f.marks # <<"delivered_markers">>
  BY <1>3, Zenon DEF OnItsWay
<1>6. k \in Nat /\ k \in StoredSeqs(f.conv) \cup {0} /\ k >= f.upTo
  BY <1>1, <1>4, <1>5, MaxSeqIsGreatest DEF MarkerInv
<1>7. Marking(f, f.marks, k, f.saved) \in LeftFrame
  BY <1>3, <1>4, <1>6, MarkingType
<1>8. OnItsWay(d, Marking(f, f.marks, k, f.saved))
  BY <1>2, <1>5, <1>6, MarkingIsOnItsWay
<1> QED
  BY <1>2, <1>7, <1>8, QuietFrameStep

\* An error of mark is dropped: the frame is no longer `saved`.
LEMMA MarkFailsKeeps ==
  ASSUME MarkerInv, NEW d \in Devices, MarkFails(d)
  PROVE  MarkerInv' /\ Forward
<1>1. PICK f : f = inbound[d]
  BY Zenon
<1>2. f # None /\ f.marks # <<>> /\ SetFrame(d, Marking(f, Tail(f.marks), None, FALSE))
      /\ UNCHANGED <<vars, markers, relayed>>
  BY <1>1, Zenon DEF MarkFails
<1>3. f \in LeftFrame /\ OnItsWay(d, f)
  BY <1>1, <1>2, FrameOf
<1>4. /\ f.marks \in Left /\ f.upTo \in StoredSeqs(f.conv)
      /\ f.kind = "receipt.read" => f.marks # <<"delivered_markers">>
  BY <1>3, Zenon DEF LeftFrame, OnItsWay
<1>5. /\ Tail(f.marks) \in Left
      /\ f.kind = "receipt.read" => Tail(f.marks) # <<"delivered_markers">>
  BY <1>2, <1>4, NextMark, Zenon
<1>6. Marking(f, Tail(f.marks), None, FALSE) \in LeftFrame
  BY <1>3, <1>5, MarkingType, Zenon
<1>7. OnItsWay(d, Marking(f, Tail(f.marks), None, FALSE))
  BY <1>4, <1>5, MarkingIsOnItsWay, Zenon
<1> QED
  BY <1>2, <1>6, <1>7, QuietFrameStep, Zenon

\* The device query of the relay, and a frame that is lost.
LEMMA RelayListKeeps ==
  ASSUME MarkerInv, NEW d \in Devices, RelayList(d) \/ FrameLost(d)
  PROVE  MarkerInv' /\ Forward
<1>1. CASE FrameLost(d)
  <2>1. SetFrame(d, None) /\ UNCHANGED <<vars, markers, relayed>>
    BY <1>1, Zenon DEF FrameLost
  <2> QED
    BY <2>1, QuietFrameStep
<1>2. CASE RelayList(d)
  <2>1. PICK f, out : f = inbound[d] /\ out = DevicesOf(Peer(f.conv, Owner[d]))
    BY Zenon
  <2>2. f # None /\ f.marks = <<>> /\ (SetFrame(d, None) \/ SetFrame(d, Relaying(f, out)))
        /\ UNCHANGED <<vars, markers, relayed>>
    BY <1>2, <2>1, Zenon DEF RelayList, RelayTo
  <2>3. f \in LeftFrame /\ OnItsWay(d, f) /\ out \in SUBSET Devices
    BY <2>1, <2>2, FrameOf DEF DevicesOf
  <2>4. Relaying(f, out) \in LeftFrame /\ OnItsWay(d, Relaying(f, out))
    BY <2>2, <2>3, RelayingKeeps
  <2> QED
    BY <2>2, <2>4, QuietFrameStep
<1> QED
  BY <1>1, <1>2

\* One entry of the markers is replaced.
LEMMA Replaced ==
  ASSUME NEW T, NEW C, NEW A, NEW f \in [T -> [C -> [A -> Nat]]],
         NEW t \in T, NEW c \in C, NEW a \in A, NEW v \in Nat,
         NEW g, g = [f EXCEPT ![t][c][a] = v]
  PROVE  /\ g \in [T -> [C -> [A -> Nat]]]
         /\ \A u \in T, b \in C, x \in A :
              g[u][b][x] = IF u = t /\ b = c /\ x = a THEN v ELSE f[u][b][x]
  OBVIOUS

\* Moving a marker: it ends up no lower than the maximum and than before.
LEMMA UpsertKeeps ==
  ASSUME MarkerInv, NEW d \in Devices, MarkUpsert(d)
  PROVE  MarkerInv' /\ Forward
<1>1. PICK f : f = inbound[d]
  BY Zenon
<1>2. PICK t, c, a, n : t = Head(f.marks) /\ c = f.conv /\ a = Owner[d] /\ n = f.max
  BY Zenon
<1>3. PICK w, v : w = markers[t][c][a] /\ v = Greatest(w, n)
  BY Zenon
<1> DEFINE g == Marking(f, Tail(f.marks), None, f.saved)
<1>4. inbound[d] # None /\ inbound[d].max # None /\ UNCHANGED <<vars, relayed>>
  BY Zenon DEF MarkUpsert
<1>5. markers' = [markers EXCEPT ![t][c][a] = v]
  <2>1. markers' = [markers EXCEPT ![Head(inbound[d].marks)][inbound[d].conv][Owner[d]] =
                      Greatest(markers[Head(inbound[d].marks)][inbound[d].conv][Owner[d]],
                               inbound[d].max)]
    BY Zenon DEF MarkUpsert
  <2> QED
    BY <1>1, <1>2, <1>3, <2>1, Zenon
<1>6. SetFrame(d, g)
  <2>1. SetFrame(d, Marking(inbound[d], Tail(inbound[d].marks), None, inbound[d].saved))
    BY Zenon DEF MarkUpsert
  <2> QED
    BY <1>1, <2>1, Zenon
<1>7. f \in LeftFrame /\ OnItsWay(d, f) /\ MarkerTypes /\ Pointing /\ Travelling
  BY <1>1, <1>4, FrameOf DEF MarkerInv
<1>8. /\ f.marks \in Left /\ c \in Convs /\ f.max \in Nat \cup {None} /\ f.upTo \in Nat
      /\ f.saved \in BOOLEAN /\ a \in Accounts
  BY <1>2, <1>7, OwnerAssumption, Zenon DEF LeftFrame
<1>9. /\ f.upTo \in StoredSeqs(c) /\ n \in StoredSeqs(c) \cup {0} /\ n >= f.upTo
      /\ f.marks # <<>>
      /\ f.kind = "receipt.read" => f.marks # <<"delivered_markers">>
  BY <1>1, <1>2, <1>4, <1>7, Zenon DEF OnItsWay
<1>10. /\ t \in Tables
       /\ Tail(f.marks) \in Left
       /\ f.kind = "receipt.read" => /\ Tail(f.marks) # <<"delivered_markers">>
                                     /\ Tail(f.marks) = <<>> => t = "read_markers"
  BY <1>2, <1>8, <1>9, NextMark, Zenon
<1>11. n \in Nat /\ w \in Nat /\ w \in StoredSeqs(c) \cup {0}
  <2>1. n \in Nat
    BY <1>1, <1>2, <1>4, <1>8
  <2>2. w \in Nat
    BY <1>3, <1>7, <1>8, <1>10 DEF MarkerTypes
  <2>3. w \in StoredSeqs(c) \cup {0}
    BY <1>3, <1>7, <1>8, <1>10, Zenon DEF Pointing
  <2> QED
    BY <2>1, <2>2, <2>3
<1>12. v \in Nat /\ v \in StoredSeqs(c) \cup {0} /\ v >= f.upTo /\ v >= w
  <2>1. v = Greatest(w, n)
    BY <1>3, ZenonT(20)
  <2> QED
    BY <1>8, <1>9, <1>11, <2>1 DEF Greatest
<1>13. /\ markers' \in [Tables -> [Convs -> [Accounts -> Nat]]]
       /\ \A u \in Tables, b \in Convs, x \in Accounts :
            markers'[u][b][x] = IF u = t /\ b = c /\ x = a THEN v ELSE markers[u][b][x]
  <2>1. markers \in [Tables -> [Convs -> [Accounts -> Nat]]]
    BY <1>7 DEF MarkerTypes
  <2>2. t \in Tables /\ c \in Convs /\ a \in Accounts /\ v \in Nat
    BY <1>8, <1>10, <1>12
  <2> QED
    BY ONLY <1>5, <2>1, <2>2, Replaced
<1>14. Forward
  <2> SUFFICES ASSUME NEW u \in Tables, NEW b \in Convs, NEW x \in Accounts
               PROVE  markers'[u][b][x] >= markers[u][b][x]
    BY Zenon DEF Forward
  <2>1. markers[u][b][x] \in Nat
    BY <1>7 DEF MarkerTypes
  <2> QED
    BY <1>3, <1>12, <1>13, <2>1
<1>15. Pointing'
  <2>1. \A b \in Convs : StoredSeqs(b)' = StoredSeqs(b)
    BY <1>4 DEF StoredSeqs, Stored, vars, db
  <2> QED
    BY <1>7, <1>12, <1>13, <2>1 DEF Pointing
<1>16. g \in LeftFrame
  BY <1>7, <1>8, <1>10, MarkingType, Zenon
<1>17. OnItsWay(d, g)'
  <2>1. StoredSeqs(c)' = StoredSeqs(c)
    BY <1>4 DEF StoredSeqs, Stored, vars, db
  <2>2. ASSUME f.kind = "receipt.read", Tail(f.marks) = <<>>
        PROVE  markers'["read_markers"][c][a] >= f.upTo
    BY <1>8, <1>10, <1>12, <1>13, <2>2
  <2>3. /\ g.upTo = f.upTo /\ g.conv = c /\ g.max = None /\ g.out = {} /\ g.kind = f.kind
        /\ g.marks = Tail(f.marks)
    BY <1>2 DEF Marking
  <2> HIDE DEF g
  <2> QED
    BY <1>2, <1>9, <1>10, <2>1, <2>2, <2>3, Zenon DEF OnItsWay
<1> HIDE DEF g
<1>18. /\ inbound' \in [Devices -> LeftFrame \cup {None}]
       /\ inbound'[d] = g
       /\ \A x \in Devices \ {d} : inbound'[x] = inbound[x]
  BY <1>6, <1>7, <1>16 DEF SetFrame, MarkerTypes
<1>19. \A x \in Devices, y \in LeftFrame : inbound'[x] = y /\ y # None =>
         OnItsWay(x, y) \/ OnItsWay(x, y)'
  BY <1>7, <1>17, <1>18 DEF Travelling
<1>20. MarkerTypes'
  BY <1>4, <1>7, <1>13, <1>18 DEF MarkerTypes
<1>21. StatusSurvivesReload' /\ [Next]_vars
  BY <1>4, <1>7, <1>14, <1>20, StatusStays DEF MarkerInv
<1> QED
  BY <1>14, <1>15, <1>19, <1>20, <1>21, MarkersKept

\* A receipt is relayed when its markers were moved, or failed to be.
LEMMA RelayKeeps ==
  ASSUME MarkerInv, NEW d \in Devices, NEW e \in Devices, RelayPublish(d, e)
  PROVE  MarkerInv' /\ Forward
<1>1. PICK f, out : f = inbound[d] /\ out = f.out \ {e}
  BY Zenon
<1> DEFINE r == [kind |-> f.kind, conv |-> f.conv, by |-> Owner[d], saved |-> f.saved,
                 upTo |-> IF f.kind = "receipt.read" THEN f.upTo ELSE 0]
           g == Relaying(f, out)
<1>2. f # None /\ f.out # {} /\ UNCHANGED <<vars, markers>>
  BY <1>1, Zenon DEF RelayPublish
<1>3. relayed' = [relayed EXCEPT ![e] = relayed[e] \cup {r}]
  BY <1>1, Zenon DEF RelayPublish
<1>4. SetFrame(d, None) \/ SetFrame(d, g)
  BY <1>1, Zenon DEF RelayPublish, RelayTo
<1>5. f \in LeftFrame /\ OnItsWay(d, f) /\ MarkerTypes /\ Travelling
  BY <1>1, <1>2, FrameOf DEF MarkerInv
<1>6. f.marks = <<>> /\ out \in SUBSET Devices
  BY <1>1, <1>2, <1>5 DEF OnItsWay, LeftFrame
<1>7. g \in LeftFrame /\ OnItsWay(d, g)
  BY <1>5, <1>6, RelayingKeeps
<1>8. r \in [kind : Kinds, conv : Convs, by : Accounts, saved : BOOLEAN, upTo : Nat]
  BY <1>5, OwnerAssumption DEF LeftFrame
<1>9. r.kind = "receipt.read" /\ r.saved =>
        markers["read_markers"][r.conv][r.by] >= r.upTo
  BY <1>5, <1>6, Zenon DEF OnItsWay
<1> HIDE DEF r, g
<1>10. /\ inbound' \in [Devices -> LeftFrame \cup {None}]
       /\ inbound'[d] \in {None, g}
       /\ \A x \in Devices \ {d} : inbound'[x] = inbound[x]
  BY <1>4, <1>5, <1>7 DEF SetFrame, MarkerTypes
<1>11. MarkerTypes'
  BY <1>2, <1>3, <1>5, <1>8, <1>10, Zenon DEF MarkerTypes
<1>12. Forward
  BY <1>2, <1>5 DEF Forward, MarkerTypes
<1>13. \A x \in Devices, y \in LeftFrame : inbound'[x] = y /\ y # None => OnItsWay(x, y)
  BY <1>5, <1>7, <1>10 DEF Travelling
<1>14. StatusSurvivesReload'
  <2>1. \A x \in Devices : \A y \in relayed'[x] : y \in relayed[x] \/ y = r
    BY <1>3, <1>5 DEF MarkerTypes
  <2>2. StatusSurvivesReload
    BY DEF MarkerInv
  <2> QED
    BY <1>2, <1>9, <2>1, <2>2 DEF StatusSurvivesReload
<1>15. Pointing' /\ [Next]_vars
  <2>1. [Next]_vars
    BY <1>2
  <2> QED
    BY <1>2, <2>1, StepRows, SeqsStay DEF MarkerInv, Pointing
<1> QED
  BY <1>11, <1>12, <1>13, <1>14, <1>15, MarkersKept

\* Message handlers and history requests touch no marker and no frame.
LEMMA OthersKeep ==
  ASSUME MarkerInv, [Next]_vars, UNCHANGED <<markers, inbound, relayed>>
  PROVE  MarkerInv' /\ Forward
<1>1. MarkerTypes /\ Travelling
  BY DEF MarkerInv
<1>2. /\ inbound' \in [Devices -> LeftFrame \cup {None}]
      /\ \A d \in Devices, f \in LeftFrame :
           inbound'[d] = f /\ f # None => OnItsWay(d, f)
  BY <1>1 DEF MarkerTypes, Travelling
<1> QED
  BY <1>2, QuietStep

\* Every step keeps the invariant and moves markers forward only.
LEMMA StepMarkers == MarkerInv /\ [ReceiptsNext]_allVars => MarkerInv' /\ Forward
<1> SUFFICES ASSUME MarkerInv, [ReceiptsNext]_allVars PROVE MarkerInv' /\ Forward
  OBVIOUS
<1>1. CASE Next /\ UNCHANGED rvars
  BY <1>1, OthersKeep DEF rvars
<1>2. ASSUME NEW d \in Devices, NEW kind \in Kinds, NEW m \in MsgIds,
             ReceiveFrame(d, kind, m)
      PROVE  MarkerInv' /\ Forward
  BY <1>2, ReceiveKeeps
<1>3. ASSUME NEW d \in Devices, FrameStep(d) \/ MarkFails(d) \/ FrameLost(d)
      PROVE  MarkerInv' /\ Forward
  BY <1>3, SelectKeeps, UpsertKeeps, RelayListKeeps, RelayKeeps, MarkFailsKeeps DEF FrameStep
<1>4. ASSUME NEW h \in Readers, HistoryStep(h) PROVE MarkerInv' /\ Forward
  <2>1. UNCHANGED <<vars, markers, inbound, relayed>>
    BY <1>4, Zenon DEF HistoryStep, HistoryReadSeq, HistoryDeliveredSeq, HistoryReply
  <2> QED
    BY <2>1, OthersKeep
<1>5. CASE UNCHANGED allVars
  BY <1>5, OthersKeep DEF allVars, rvars
<1> QED
  BY <1>1, <1>2, <1>3, <1>4, <1>5, Zenon DEF ReceiptsNext

\* There are no markers, frames or receipts at first.
LEMMA InitMarkers == ReceiptsInit => MarkerInv
<1> SUFFICES ASSUME ReceiptsInit PROVE MarkerInv
  BY SMTT(20)
<1>1. RowInv
  BY InitType DEF ReceiptsInit, Init, RowInv, Topped, Stored, StoredSeqs
<1>2. MarkerTypes
  BY DEF ReceiptsInit, MarkerTypes
<1>3. Pointing /\ Travelling /\ StatusSurvivesReload
  BY DEF ReceiptsInit, Pointing, Travelling, StatusSurvivesReload
<1> QED
  BY <1>1, <1>2, <1>3 DEF MarkerInv

\* The invariant of the markers.
LEMMA Invariance == ReceiptsSpec => []MarkerInv
  BY InitMarkers, StepMarkers, PTL DEF ReceiptsSpec

\* Markers, and maxima on their way into one, are seqs of stored messages,
\* with any number of frames beside any number of sends.
THEOREM MarkersAreStored == ReceiptsSpec => []MarkersPointAtMessages
<1>1. ASSUME MarkerInv PROVE MarkersPointAtMessages
  BY <1>1, FrameOf DEF MarkerInv, Pointing, OnItsWay, MarkersPointAtMessages
<1> QED
  BY <1>1, Invariance, PTL

\* No receipt, early or late, moves a marker back.
THEOREM MarkersAdvance == ReceiptsSpec => MarkersNeverGoBack
<1>1. MarkerInv /\ [ReceiptsNext]_allVars =>
        [\A t \in Tables, c \in Convs, a \in Accounts :
           markers'[t][c][a] >= markers[t][c][a]]_allVars
  BY StepMarkers DEF Forward
<1> QED
  BY <1>1, Invariance, PTL DEF ReceiptsSpec, MarkersNeverGoBack

\* A relayed read receipt whose upserts went through is behind the marker
\* that the history shows.
THEOREM RelayedIsStored == ReceiptsSpec => []StatusSurvivesReload
<1>1. MarkerInv => StatusSurvivesReload
  BY DEF MarkerInv
<1> QED
  BY <1>1, Invariance, PTL
(***************************************************************************)
(* The history.  A status that was ever shown is behind a marker (Shown),  *)
(* and markers never go back.  A history request reads them after its      *)
(* floor was fixed, so what it read is no lower than what the floor needs  *)
(* (Asked), and no higher than the markers are when its reply is shown.    *)
(***************************************************************************)
\* The marker of account a's peer in conversation c.
PeerMarker(t, c, a) == markers[t][c][Peer(c, a)]

\* The peer's marker has passed message m of account a.
Passed(t, a, m) ==
  /\ messages[m].sender = a
  /\ PeerMarker(t, messages[m].conv, a) >= messages[m].seq

\* Account a was shown status n of message m.
Shown(a, m, n) ==
  n > 0 =>
    /\ m \in Stored
    /\ n = Delivered => Passed("delivered_markers", a, m)
    /\ n = Read => Passed("read_markers", a, m)

\* The two markers of request q are those of some moment since its floor.
Asked(q) ==
  /\ q.read <= PeerMarker("read_markers", q.conv, q.me)
  /\ q.delivered # None => q.delivered <= PeerMarker("delivered_markers", q.conv, q.me)
  /\ \A m \in MsgIds :
       /\ Shown(q.me, m, q.floor[m])
       /\ m \in Stored /\ messages[m].conv = q.conv =>
            /\ q.floor[m] = Read => q.read >= messages[m].seq
            /\ q.floor[m] = Delivered /\ q.delivered # None =>
                 q.delivered >= messages[m].seq

HistoryTypes ==
  /\ hist \in [Readers -> Query \cup {None}]
  /\ reported \in [Accounts -> [MsgIds -> 0..Read]]

AllShown ==
  \A a \in Accounts, m \in MsgIds, n \in 0..Read : reported[a][m] = n => Shown(a, m, n)

AllAsked ==
  \A h \in Readers, q \in Query : hist[h] = q /\ q # None => Asked(q)

HistoryInv == MarkerInv /\ HistoryTypes /\ AllShown /\ AllAsked

\* The other end of a conversation is an account.
LEMMA PeerType ==
  \A c \in Convs, me \in Accounts : Peer(c, me) \in Accounts
<1> TAKE c \in Convs, me \in Accounts
<1>1. CASE Members[c] = {me}
  BY <1>1 DEF Peer
<1>2. CASE Members[c] # {me}
  <2>1. \E a \in Members[c] : a # me
    BY <1>2, MembersAssumption, Zenon
  <2> QED
    BY <1>2, <2>1, MembersAssumption DEF Peer
<1> QED
  BY <1>1, <1>2

\* What a peer's marker has reached it has reached for good.
LEMMA PeerReached ==
  ASSUME MarkerTypes, MarkerTypes', Forward, NEW t \in Tables, NEW c \in Convs,
         NEW a \in Accounts, NEW n \in Nat
  PROVE  /\ PeerMarker(t, c, a) >= n => PeerMarker(t, c, a)' >= n
         /\ n <= PeerMarker(t, c, a) => n <= PeerMarker(t, c, a)'
  BY PeerType, Reached DEF PeerMarker

\* The fields of a stored row that the history looks at.
LEMMA RowFields ==
  ASSUME TypeOK, NEW m \in Stored
  PROVE  m \in MsgIds /\ messages[m].conv \in Convs /\ messages[m].seq \in Nat
  BY DEF TypeOK, Stored, Row

\* What was shown stays behind the markers.
LEMMA ShownStays ==
  ASSUME TypeOK, MarkerTypes, MarkerTypes', Grown, Forward,
         NEW a \in Accounts, NEW m \in MsgIds, NEW n \in 0..Read, Shown(a, m, n)
  PROVE  Shown(a, m, n)'
<1> SUFFICES ASSUME n > 0 PROVE Shown(a, m, n)'
  BY Zenon DEF Shown
<1>1. m \in Stored
  BY Zenon DEF Shown
<1>2. /\ m \in Stored' /\ messages'[m].conv = messages[m].conv
      /\ messages'[m].seq = messages[m].seq /\ messages'[m].sender = messages[m].sender
  BY <1>1, ZenonT(20) DEF Grown
<1>3. ASSUME NEW t \in Tables, Passed(t, a, m) PROVE Passed(t, a, m)'
  <2>1. PICK c \in Convs, k \in Nat : c = messages[m].conv /\ k = messages[m].seq
    BY <1>1, RowFields, Zenon
  <2>2. messages[m].sender = a /\ PeerMarker(t, c, a) >= k
    BY <1>3, <2>1, Zenon DEF Passed
  <2>3. PeerMarker(t, c, a)' >= k
    BY <2>2, PeerReached
  <2> QED
    BY <1>2, <2>1, <2>2, <2>3 DEF Passed, PeerMarker
<1> QED
  BY <1>2, <1>3, Zenon DEF Shown, Tables

\* What a request has read stays between its floor and the markers.
LEMMA AskedStays ==
  ASSUME TypeOK, MarkerTypes, MarkerTypes', Grown, Forward, NEW q \in Query, Asked(q)
  PROVE  Asked(q)'
<1>1. /\ q.me \in Accounts /\ q.conv \in Convs /\ q.read \in Nat
      /\ q.delivered # None => q.delivered \in Nat
      /\ \A m \in MsgIds : q.floor[m] \in 0..Read
  BY DEF Query
<1>2. q.read <= PeerMarker("read_markers", q.conv, q.me)'
  BY <1>1, PeerReached DEF Asked, Tables
<1>3. q.delivered # None => q.delivered <= PeerMarker("delivered_markers", q.conv, q.me)'
  BY <1>1, PeerReached DEF Asked, Tables
<1>4. ASSUME NEW m \in MsgIds
      PROVE  /\ Shown(q.me, m, q.floor[m])'
             /\ m \in Stored' /\ messages'[m].conv = q.conv =>
                  /\ q.floor[m] = Read => q.read >= messages'[m].seq
                  /\ q.floor[m] = Delivered /\ q.delivered # None =>
                       q.delivered >= messages'[m].seq
  <2>1. Shown(q.me, m, q.floor[m])
    BY Zenon DEF Asked
  <2>2. Shown(q.me, m, q.floor[m])'
    BY <1>1, <2>1, ShownStays
  <2>3. q.floor[m] > 0 => /\ m \in Stored
                          /\ messages'[m].conv = messages[m].conv
                          /\ messages'[m].seq = messages[m].seq
    BY <2>1 DEF Shown, Grown
  <2> QED
    BY <2>2, <2>3 DEF Asked, Read, Delivered
<1> QED
  BY <1>2, <1>3, <1>4, Zenon DEF Asked, PeerMarker

\* A step keeps the invariant when what it shows, and what its requests have
\* read, was right before it.
LEMMA HistoryKept ==
  ASSUME HistoryInv, MarkerInv', Grown, Forward, HistoryTypes',
         \A a \in Accounts, m \in MsgIds, n \in 0..Read :
           reported'[a][m] = n => Shown(a, m, n),
         \A h \in Readers, q \in Query : hist'[h] = q /\ q # None => Asked(q)
  PROVE  HistoryInv'
<1>1. TypeOK /\ MarkerTypes /\ MarkerTypes'
  BY DEF HistoryInv, MarkerInv, RowInv
<1>2. AllShown'
  BY <1>1, ShownStays DEF AllShown
<1>3. AllAsked'
  BY <1>1, AskedStays DEF AllAsked
<1> QED
  BY <1>2, <1>3 DEF HistoryInv

\* The request of a reader.
LEMMA RequestOf ==
  ASSUME HistoryInv, NEW h \in Readers, hist[h] # None
  PROVE  hist[h] \in Query /\ Asked(hist[h])
  BY DEF HistoryInv, HistoryTypes, AllAsked

\* A request begins or goes on.
LEMMA AskKeeps ==
  ASSUME HistoryInv, MarkerInv', Grown, Forward, UNCHANGED reported,
         NEW h \in Readers, NEW q \in Query, hist' = [hist EXCEPT ![h] = q], Asked(q)
  PROVE  HistoryInv'
<1>1. HistoryTypes /\ AllShown /\ AllAsked
  BY DEF HistoryInv
<1>2. /\ HistoryTypes'
      /\ hist'[h] = q
      /\ \A g \in Readers \ {h} : hist'[g] = hist[g]
  BY <1>1 DEF HistoryTypes
<1>3. \A g \in Readers, p \in Query : hist'[g] = p /\ p # None => Asked(p)
  BY <1>1, <1>2 DEF AllAsked
<1>4. \A a \in Accounts, m \in MsgIds, n \in 0..Read :
        reported'[a][m] = n => Shown(a, m, n)
  BY <1>1 DEF AllShown
<1> QED
  BY <1>2, <1>3, <1>4, HistoryKept

\* The requests that the two reads leave behind.
LEMMA AskingType ==
  ASSUME NEW me \in Accounts, NEW c \in Convs, NEW floor \in [MsgIds -> 0..Read],
         NEW k \in Nat, NEW n \in Nat \cup {None}
  PROVE  Asking(me, c, floor, k, n) \in Query
  BY SMTT(20) DEF Asking, Query

LEMMA AskingIsAsked ==
  ASSUME NEW me, NEW c, NEW floor, NEW k, NEW n,
         k <= PeerMarker("read_markers", c, me),
         n # None => n <= PeerMarker("delivered_markers", c, me),
         \A m \in MsgIds :
           /\ Shown(me, m, floor[m])
           /\ m \in Stored /\ messages[m].conv = c =>
                /\ floor[m] = Read => k >= messages[m].seq
                /\ floor[m] = Delivered /\ n # None => n >= messages[m].seq
  PROVE  Asked(Asking(me, c, floor, k, n))
  BY DEF Asked, Asking

\* A peer's marker is a number.
LEMMA PeerMarkerType ==
  ASSUME MarkerTypes, NEW c \in Convs, NEW me \in Accounts
  PROVE  /\ PeerMarker("read_markers", c, me) \in Nat
         /\ PeerMarker("delivered_markers", c, me) \in Nat
  BY PeerType DEF PeerMarker, MarkerTypes, Tables

\* The first read: the floor is fixed and the read marker taken at once.
LEMMA ReadSeqKeeps ==
  ASSUME HistoryInv, MarkerInv', Grown, Forward, NEW h \in Readers, NEW me \in Accounts,
         NEW c \in Convs, HistoryReadSeq(h, me, c)
  PROVE  HistoryInv'
<1>1. PICK floor, k : floor = reported[me] /\ k = PeerMarker("read_markers", c, me)
  BY Zenon
<1>2. MarkerTypes /\ HistoryTypes /\ AllShown
  BY DEF HistoryInv, MarkerInv
<1>3. floor \in [MsgIds -> 0..Read] /\ k \in Nat
  BY <1>1, <1>2, PeerMarkerType DEF HistoryTypes
<1>4. hist' = [hist EXCEPT ![h] = Asking(me, c, floor, k, None)] /\ UNCHANGED reported
  BY <1>1, ZenonT(20) DEF HistoryReadSeq, PeerMarker
<1>5. ASSUME NEW m \in MsgIds
      PROVE  /\ Shown(me, m, floor[m])
             /\ m \in Stored /\ messages[m].conv = c /\ floor[m] = Read =>
                  k >= messages[m].seq
  <2>1. Shown(me, m, floor[m])
    BY <1>1, <1>2, <1>3, Zenon DEF AllShown
  <2> QED
    BY <1>1, <2>1 DEF Shown, Passed, Read
<1>6. Asking(me, c, floor, k, None) \in Query
  BY <1>3, AskingType, ZenonT(20)
<1>7. k <= PeerMarker("read_markers", c, me)
  BY <1>1, <1>3
<1>8. Asked(Asking(me, c, floor, k, None))
  BY <1>5, <1>7, AskingIsAsked, Zenon
<1> QED
  BY <1>4, <1>6, <1>8, AskKeeps, Zenon

\* The second read.
LEMMA DeliveredSeqKeeps ==
  ASSUME HistoryInv, MarkerInv', Grown, Forward, NEW h \in Readers, HistoryDeliveredSeq(h)
  PROVE  HistoryInv'
<1>1. PICK p, k : p = hist[h] /\ k = PeerMarker("delivered_markers", p.conv, p.me)
  BY Zenon
<1> DEFINE q == Asking(p.me, p.conv, p.floor, p.read, k)
<1>2. p # None /\ hist' = [hist EXCEPT ![h] = q] /\ UNCHANGED reported
  BY <1>1, Zenon DEF HistoryDeliveredSeq, PeerMarker
<1>3. MarkerTypes
  BY DEF HistoryInv, MarkerInv
<1>4. p \in Query /\ Asked(p)
  BY <1>1, <1>2, RequestOf, Zenon
<1>5. /\ p.me \in Accounts /\ p.conv \in Convs /\ p.floor \in [MsgIds -> 0..Read]
      /\ p.read \in Nat
  BY <1>4, ZenonT(20) DEF Query
<1>6. k \in Nat /\ k <= PeerMarker("delivered_markers", p.conv, p.me)
  BY <1>1, <1>3, <1>5, PeerMarkerType
<1>7. q \in Query
  BY <1>5, <1>6, AskingType
<1>8. p.read <= PeerMarker("read_markers", p.conv, p.me)
  BY <1>4, ZenonT(20) DEF Asked
<1>9. ASSUME NEW m \in MsgIds
      PROVE  /\ Shown(p.me, m, p.floor[m])
             /\ m \in Stored /\ messages[m].conv = p.conv =>
                  /\ p.floor[m] = Read => p.read >= messages[m].seq
                  /\ p.floor[m] = Delivered => k >= messages[m].seq
  <2>1. Shown(p.me, m, p.floor[m])
        /\ (m \in Stored /\ messages[m].conv = p.conv =>
              (p.floor[m] = Read => p.read >= messages[m].seq))
    BY <1>4, Zenon DEF Asked
  <2> QED
    BY <1>1, <2>1 DEF Shown, Passed, Delivered
<1>10. Asked(q)
  BY <1>6, <1>8, <1>9, AskingIsAsked, ZenonT(20)
<1> HIDE DEF q
<1> QED
  BY <1>2, <1>7, <1>10, AskKeeps, Zenon

\* The status a reply shows is behind the markers.
LEMMA StatusIsShown ==
  ASSUME TypeOK, MarkerTypes, NEW q \in Query, Asked(q), q.delivered # None,
         NEW m \in Visible(q.conv, q.me)
  PROVE  Status(q, m) \in 1..Read /\ Shown(q.me, m, Status(q, m))
<1>1. m \in Stored /\ messages[m].conv = q.conv /\ messages[m].seq \in Nat
  BY RowFields DEF Visible
<1>2. q.read \in Nat /\ q.delivered \in Nat /\ q.conv \in Convs /\ q.me \in Accounts
  BY DEF Query
<1>3. /\ q.read <= PeerMarker("read_markers", q.conv, q.me)
      /\ q.delivered <= PeerMarker("delivered_markers", q.conv, q.me)
  BY ZenonT(20) DEF Asked
<1>4. /\ messages[m].sender = q.me /\ q.read >= messages[m].seq =>
           Passed("read_markers", q.me, m)
      /\ messages[m].sender = q.me /\ q.delivered >= messages[m].seq =>
           Passed("delivered_markers", q.me, m)
  <2>1. /\ PeerMarker("read_markers", q.conv, q.me) \in Nat
        /\ PeerMarker("delivered_markers", q.conv, q.me) \in Nat
    BY <1>2, PeerMarkerType
  <2> QED
    BY <1>1, <1>2, <1>3, <2>1 DEF Passed
<1> QED
  BY <1>1, <1>4 DEF Status, Shown, Sent, Delivered, Read

\* The reply.
LEMMA ReplyKeeps ==
  ASSUME HistoryInv, MarkerInv', Grown, Forward, NEW h \in Readers, HistoryReply(h)
  PROVE  HistoryInv'
<1>1. PICK q : q = hist[h]
  BY Zenon
<1>2. /\ q # None /\ q.delivered # None
      /\ hist' = [hist EXCEPT ![h] = None]
  BY <1>1, Zenon DEF HistoryReply
<1>3. reported' = [reported EXCEPT ![q.me] =
        [m \in MsgIds |-> IF m \in Visible(q.conv, q.me)
                          THEN Greatest(reported[q.me][m], Status(q, m))
                          ELSE reported[q.me][m]]]
  BY <1>1, Zenon DEF HistoryReply
<1>4. TypeOK /\ MarkerTypes /\ HistoryTypes /\ AllShown /\ AllAsked
  BY DEF HistoryInv, MarkerInv, RowInv
<1>5. q \in Query /\ Asked(q) /\ q.me \in Accounts
  BY <1>1, <1>2, RequestOf, Zenon DEF Query
<1>6. ASSUME NEW m \in Visible(q.conv, q.me)
      PROVE  Status(q, m) \in 1..Read /\ Shown(q.me, m, Status(q, m))
  BY <1>2, <1>4, <1>5, StatusIsShown
<1>7. reported \in [Accounts -> [MsgIds -> 0..Read]]
  BY <1>4 DEF HistoryTypes
<1>8. ASSUME NEW a \in Accounts, NEW m \in MsgIds
      PROVE  reported'[a][m] \in 0..Read /\ Shown(a, m, reported'[a][m])
  <2>1. reported[a][m] \in 0..Read /\ Shown(a, m, reported[a][m])
    BY <1>4, <1>7, SMTT(20) DEF AllShown
  <2>2. CASE a = q.me /\ m \in Visible(q.conv, q.me)
    <3>1. reported'[a][m] = Greatest(reported[a][m], Status(q, m))
      BY <1>3, <1>7, <2>2
    <3>2. reported'[a][m] \in {reported[a][m], Status(q, m)}
      BY <3>1 DEF Greatest
    <3> QED
      BY <1>6, <2>1, <2>2, <3>2
  <2>3. CASE ~(a = q.me /\ m \in Visible(q.conv, q.me))
    <3>1. reported'[a][m] = reported[a][m]
      BY <1>3, <1>7, <2>3
    <3> QED
      BY <2>1, <3>1, Zenon
  <2> QED
    BY <2>2, <2>3
<1>9. HistoryTypes'
  <2>1. /\ reported' = [a \in Accounts |-> reported'[a]]
        /\ \A a \in Accounts : reported'[a] = [m \in MsgIds |-> reported'[a][m]]
    BY <1>3, <1>5, <1>7, Zenon
  <2>2. reported' \in [Accounts -> [MsgIds -> 0..Read]]
    BY <1>8, <2>1
  <2> QED
    BY <1>2, <1>4, <2>2 DEF HistoryTypes
<1>10. \A g \in Readers, p \in Query : hist'[g] = p /\ p # None => Asked(p)
  BY <1>2, <1>4 DEF HistoryTypes, AllAsked
<1>11. \A a \in Accounts, m \in MsgIds, n \in 0..Read :
         reported'[a][m] = n => Shown(a, m, n)
  BY <1>8, Zenon
<1> QED
  BY <1>9, <1>10, <1>11, HistoryKept

\* Every step keeps what was shown behind the markers.
LEMMA StepHistory == HistoryInv /\ [ReceiptsNext]_allVars => HistoryInv'
<1> SUFFICES ASSUME HistoryInv, [ReceiptsNext]_allVars PROVE HistoryInv'
  OBVIOUS
<1>1. MarkerInv' /\ Forward
  BY StepMarkers DEF HistoryInv
<1>2. Grown
  <2>1. [Next]_vars
    BY Zenon DEF ReceiptsNext, ReceiveFrame, FrameStep, MarkSelect, MarkUpsert, RelayList,
           RelayPublish, MarkFails, FrameLost, HistoryStep, HistoryReadSeq,
           HistoryDeliveredSeq, HistoryReply, allVars
  <2> QED
    BY <2>1, RowsGrow DEF HistoryInv, MarkerInv, RowInv
<1>3. CASE UNCHANGED <<hist, reported>>
  <2>1. HistoryTypes' /\ AllShown /\ AllAsked
    BY <1>3 DEF HistoryInv, HistoryTypes
  <2>2. /\ \A a \in Accounts, m \in MsgIds, n \in 0..Read :
             reported'[a][m] = n => Shown(a, m, n)
        /\ \A h \in Readers, q \in Query : hist'[h] = q /\ q # None => Asked(q)
    BY <1>3, <2>1, Zenon DEF AllShown, AllAsked
  <2> QED
    BY <1>1, <1>2, <2>1, <2>2, HistoryKept
<1>4. ASSUME NEW h \in Readers, HistoryStep(h) PROVE HistoryInv'
  BY <1>1, <1>2, <1>4, ReadSeqKeeps, DeliveredSeqKeeps, ReplyKeeps, Zenon DEF HistoryStep
<1> QED
  BY <1>3, <1>4, Zenon
  DEF ReceiptsNext, ReceiveFrame, FrameStep, MarkSelect, MarkUpsert, RelayList,
      RelayPublish, MarkFails, FrameLost, rvars, allVars

LEMMA InitHistory == ReceiptsInit => HistoryInv
<1> SUFFICES ASSUME ReceiptsInit PROVE HistoryInv
  OBVIOUS
<1>1. MarkerInv
  BY InitMarkers
<1>2. HistoryTypes
  BY DEF ReceiptsInit, HistoryTypes, Read
<1>3. AllShown /\ AllAsked
  BY DEF ReceiptsInit, AllShown, AllAsked, Shown
<1> QED
  BY <1>1, <1>2, <1>3 DEF HistoryInv

LEMMA HistoryInvariance == ReceiptsSpec => []HistoryInv
  BY InitHistory, StepHistory, PTL DEF ReceiptsSpec

\* The two counters stay within their bounds.
LEMMA StepCounts ==
  frames \in 0..MaxFrames /\ reads \in 0..MaxReads /\ [ReceiptsNext]_allVars =>
    frames' \in 0..MaxFrames /\ reads' \in 0..MaxReads
<1> USE ReceiptsAssumption
<1> SUFFICES ASSUME frames \in 0..MaxFrames, reads \in 0..MaxReads, [ReceiptsNext]_allVars
             PROVE  frames' \in 0..MaxFrames /\ reads' \in 0..MaxReads
  OBVIOUS
<1>1. CASE UNCHANGED <<frames, reads>>
  BY <1>1
<1>2. ASSUME NEW d \in Devices, NEW kind \in Kinds, NEW m \in MsgIds,
             ReceiveFrame(d, kind, m)
      PROVE  frames' \in 0..MaxFrames /\ reads' \in 0..MaxReads
  <2>1. frames < MaxFrames /\ frames' = frames + 1 /\ reads' = reads
    BY <1>2, Zenon DEF ReceiveFrame
  <2> QED
    BY <2>1
<1>3. ASSUME NEW h \in Readers, NEW me \in Accounts, NEW c \in Convs,
             HistoryReadSeq(h, me, c)
      PROVE  frames' \in 0..MaxFrames /\ reads' \in 0..MaxReads
  <2>1. reads < MaxReads /\ reads' = reads + 1 /\ frames' = frames
    BY <1>3, Zenon DEF HistoryReadSeq
  <2> QED
    BY <2>1
<1> QED
  BY <1>1, <1>2, <1>3, Zenon
  DEF ReceiptsNext, HistoryStep, FrameStep, MarkSelect, MarkUpsert, RelayList,
      RelayPublish, MarkFails, FrameLost, HistoryDeliveredSeq, HistoryReply, rvars, allVars

\* Markers, frames, relayed receipts, requests and shown statuses keep their
\* types: markers are naturals, and a frame is left with markers of the tables.
THEOREM ReceiptsTypeCorrect == ReceiptsSpec => []ReceiptsTypeOK
<1> DEFINE Counts == frames \in 0..MaxFrames /\ reads \in 0..MaxReads
<1>1. ReceiptsInit => Counts
  BY ReceiptsAssumption DEF ReceiptsInit
<1>2. Counts /\ [ReceiptsNext]_allVars => Counts'
  BY StepCounts
<1>3. LeftFrame \subseteq Frame
  <2>1. Left \subseteq Seq(Tables)
    BY DEF Left, Tables
  <2> QED
    BY <2>1 DEF LeftFrame, Frame
<1>4. HistoryInv /\ Counts => ReceiptsTypeOK
  BY <1>3 DEF HistoryInv, MarkerInv, MarkerTypes, HistoryTypes, ReceiptsTypeOK
<1> QED
  BY <1>1, <1>2, <1>4, HistoryInvariance, PTL DEF ReceiptsSpec

\* No reply of the history shows an earlier status than a reply that ended
\* before its request began, nor leaves out a message that one listed, but
\* for those deleted or hidden since.
THEOREM HistoryOnlyAdvances == ReceiptsSpec => HistoryNeverRegresses
<1>2. ASSUME HistoryInv, NEW h \in Readers, NEW m \in MsgIds, HistoryReply(h),
             hist[h].floor[m] > 0, messages[m].conv = hist[h].conv,
             ~messages[m].deleted, <<m, hist[h].me>> \notin hidden
      PROVE  /\ m \in Visible(hist[h].conv, hist[h].me)
             /\ Status(hist[h], m) >= hist[h].floor[m]
  <2>1. PICK q : q = hist[h]
    BY Zenon
  <2>2. q # None /\ q.delivered # None
    BY <1>2, <2>1, Zenon DEF HistoryReply
  <2>3. q \in Query /\ Asked(q) /\ q.floor[m] \in 0..Read /\ q.floor[m] > 0
    BY <1>2, <2>1, <2>2, RequestOf, Zenon DEF Query
  <2>4. /\ Shown(q.me, m, q.floor[m])
        /\ m \in Stored /\ messages[m].conv = q.conv =>
             /\ q.floor[m] = Read => q.read >= messages[m].seq
             /\ q.floor[m] = Delivered => q.delivered >= messages[m].seq
    BY <2>2, <2>3, Zenon DEF Asked
  <2>5. /\ m \in Stored
        /\ q.floor[m] \in {Delivered, Read} => messages[m].sender = q.me
    BY <2>3, <2>4, ZenonT(20) DEF Shown, Passed
  <2>6. q.floor[m] \in {Sent, Delivered, Read}
    BY <2>3, SMTT(20) DEF Sent, Delivered, Read
  <2>7. Status(q, m) >= q.floor[m]
    BY <1>2, <2>1, <2>4, <2>5, <2>6 DEF Status, Sent, Delivered, Read
  <2>8. m \in Visible(q.conv, q.me)
    BY <1>2, <2>1, <2>5, Zenon DEF Visible
  <2> QED
    BY <2>1, <2>7, <2>8, Zenon
<1>3. HistoryInv =>
        [\A h \in Readers, m \in MsgIds :
           LET q == hist[h] IN
           HistoryReply(h) /\ q.floor[m] > 0 /\ messages[m].conv = q.conv =>
             \/ messages[m].deleted
             \/ <<m, q.me>> \in hidden
             \/ m \in Visible(q.conv, q.me) /\ Status(q, m) >= q.floor[m]]_allVars
  BY <1>2
<1> QED
  BY <1>3, HistoryInvariance, PTL DEF ReceiptsSpec, HistoryNeverRegresses
==============================================================================
