--------------------------- MODULE Delivery_proof ----------------------------
(***************************************************************************)
(* NothingIsMissing and ViewIsCurrent: what a client has, and whether it   *)
(* is so, for any devices, messages, capacity and number of connections.   *)
(* The inductive invariant is DeliveryInv of Transit_proof.                *)
(***************************************************************************)
EXTENDS Transit_proof

(***************************************************************************)
(* The socket and the history                                              *)
(***************************************************************************)
\* A connection that may have missed events, and is not up to date.
Behind(d) ==
  gaps'[d] # {} /\ loaded'[d] = {} /\ (reply'[d] # None => ~reply'[d].current)

LEMMA BehindClient ==
  ASSUME NEW d \in Listeners, Behind(d), Faithful(d)', sock'[d] # "closed",
         next'[d] \in 1..(Len(stream'[d]) + 1)
  PROVE  Client(d)'
<1>1. Complete(d)'
  BY DEF Behind, Complete
<1>2. Beginning(d)' /\ Current(d)'
  BY Zenon DEF Behind, Beginning, Current
<1> QED
  BY <1>1, <1>2, Zenon DEF Client

\* What a connection starts from.
Blank(d) ==
  /\ next'[d] = 1 /\ view'[d] = NoView /\ reply'[d] = None
  /\ gaps'[d] = {} /\ loaded'[d] = {} /\ sock'[d] = "closed"

LEMMA BlankClient ==
  ASSUME NEW d \in Listeners, Blank(d), stream'[d] \in Seq(Envelope)
  PROVE  Client(d)' /\ view'[d] \in Views
<1>1. view'[d] \in Views /\ \A m \in MsgIds : view'[d][m] = None
  BY DEF Blank, NoView, Views
<1>2. Faithful(d)'
  BY <1>1, Zenon DEF Faithful, Blank
<1>3. Complete(d)'
  BY DEF Complete, Blank
<1>4. Beginning(d)' /\ Current(d)'
  BY DEF Beginning, Current, Blank
<1>5. next'[d] \in 1..(Len(stream'[d]) + 1)
  BY DEF Blank
<1> QED
  BY <1>1, <1>2, <1>3, <1>4, <1>5, Zenon DEF Client

LEMMA UpgradedClient ==
  ASSUME ClientTypes, NEW d \in Listeners, Client(d), Upgrade(d)
  PROVE  Client(d)'
<1>1. /\ sock[d] = "closed" /\ sock'[d] = "announcing"
      /\ next'[d] = next[d] /\ view'[d] = view[d] /\ reply'[d] = reply[d]
      /\ gaps'[d] = gaps[d] /\ loaded'[d] = loaded[d]
      /\ UNCHANGED <<messages, stream>>
  BY DEF Upgrade, ClientTypes, vars, db
<1>2. Beginning(d)'
  BY <1>1 DEF Client, Beginning
<1>3. \A m : Known(d, m)' <=> Known(d, m)
  BY <1>1, Zenon DEF Known, Stored
<1>4. Faithful(d)'
  BY <1>1, <1>3, StaysFaithful, Zenon DEF Client
<1>5. Complete(d)' /\ Current(d)'
  BY <1>1, <1>2, NotOpen
<1> QED
  BY <1>1, <1>2, <1>4, <1>5, Zenon DEF Client

LEMMA SubscribedClient ==
  ASSUME SourceInv, ClientTypes, NEW d \in Listeners, Client(d), Subscribe(d)
  PROVE  Client(d)'
<1>0. d \in Devices
  BY DeliveryAssumption
<1>1. PICK n : n = Len(stream[d]) + 1
  BY Zenon
<1>2. stream[d] \in Seq(Envelope)
  BY <1>0, Zenon DEF SourceInv, EventInv, TypeOK
<1>3. /\ sock[d] = "announcing" /\ sock'[d] = "open" /\ next'[d] = n
      /\ view'[d] = view[d] /\ reply'[d] = reply[d] /\ loaded'[d] = loaded[d]
      /\ UNCHANGED <<messages, stream, req>>
  BY <1>1 DEF Subscribe, ClientTypes, vars, db
<1>4. gaps'[d] = IF Busy # {} THEN gaps[d] \cup {"early"} ELSE gaps[d]
  BY Zenon DEF Subscribe, Missed
<1>5. next'[d] \in 1..(Len(stream'[d]) + 1)
  BY <1>1, <1>2, <1>3
<1>6. loaded[d] = {} /\ (reply[d] # None => ~reply[d].current)
  BY <1>3, Zenon DEF Client, Beginning
<1>7. \A m : Known(d, m)' <=> Known(d, m)
  BY <1>3, Zenon DEF Known, Stored
<1>8. Faithful(d)'
  BY <1>3, <1>7, StaysFaithful, Zenon DEF Client
<1>9. CASE gaps'[d] # {}
  BY <1>3, <1>5, <1>6, <1>8, <1>9, BehindClient, Zenon DEF Behind
<1>10. CASE gaps'[d] = {}
  <2>1. Busy = {} /\ gaps[d] = {}
    BY <1>4, <1>10
  <2>2. view[d] = NoView /\ reply[d] = None
    BY <1>3, <2>1 DEF Client, Beginning
  <2>3. Busy' = {} /\ next'[d]..Len(stream'[d]) = {}
    BY <1>1, <1>2, <1>3, <2>1 DEF Busy
  <2>4. \A E : ~Coming(d, E)'
    BY <2>3, Zenon DEF Coming, From, Own
  <2>5. ASSUME NEW m \in MsgIds, NEW t PROVE InStep(d, m, t)'
    <3>1. view'[d][m] = None /\ reply'[d] = None
      BY <1>3, <2>2 DEF NoView
    <3>2. PICK N : N = StaleNews(m, t)
      BY Zenon
    <3>3. Settling(d, m, t)'
      BY <2>4, <3>1, <3>2, Zenon DEF Settling
    <3>4. Followed(d, m, t)' /\ Harmless(d, m, t)'
      BY <2>3, Zenon DEF Followed, Harmless
    <3> QED
      BY <3>3, <3>4, Zenon DEF InStep
  <2>6. ASSUME NEW m \in Stored' PROVE InStep(d, m, messages[m].text)'
    <3>1. PICK t : t = messages'[m].text
      BY Zenon
    <3>2. InStep(d, m, t)'
      BY <2>5, Zenon DEF Stored
    <3> QED
      BY <3>1, <3>2, Zenon
  <2>7. Current(d)'
    BY <2>6, Zenon DEF Current
  <2>8. Complete(d)' /\ Beginning(d)'
    BY <1>3, <1>6, <2>2 DEF Complete, Beginning
  <2> QED
    BY <1>5, <1>8, <2>7, <2>8, Zenon DEF Client
<1> QED
  BY <1>9, <1>10

LEMMA OutdatedIs ==
  ASSUME NEW q \in Replies \cup {None}
  PROVE  /\ q = None => Outdated(q) = None
         /\ q # None => /\ Outdated(q) # None /\ Outdated(q).rows = q.rows
                        /\ ~Outdated(q).current /\ Outdated(q) \in Replies
<1>1. CASE q = None
  BY <1>1 DEF Outdated
<1>2. CASE q # None
  <2>1. PICK p : p = Reply(q.conv, FALSE, q.rows)
    BY Zenon
  <2>2. p \in Replies /\ p.rows = q.rows /\ ~p.current
    BY <1>2, <2>1 DEF Reply, Replies
  <2>3. p # None /\ Outdated(q) = p
    BY <1>2, <2>1, <2>2, MarksAssumption, Zenon DEF Outdated
  <2> QED
    BY <1>2, <2>2, <2>3, Zenon
<1> QED
  BY <1>1, <1>2

\* Events are lost to the client of d.
LEMMA LosingClient ==
  ASSUME NEW d \in Listeners, Faithful(d), reply[d] \in Replies \cup {None},
         UNCHANGED messages, sock'[d] # "closed", view'[d] = view[d],
         gaps'[d] # {}, loaded'[d] = {}, reply'[d] = Outdated(reply[d]),
         next'[d] \in 1..(Len(stream'[d]) + 1)
  PROVE  Client(d)' /\ reply'[d] \in Replies \cup {None}
<1>1. PICK q, p : q = reply[d] /\ p = reply'[d]
  BY Zenon
<1>2. /\ q = None => p = None
      /\ q # None => p # None /\ p.rows = q.rows /\ ~p.current /\ p \in Replies
  BY <1>1, OutdatedIs, Zenon
<1>3. \A m : Known(d, m)' <=> Known(d, m)
  BY Zenon DEF Known, Stored
<1>4. Faithful(d)'
  BY <1>1, <1>2, <1>3, Zenon DEF Faithful
<1>5. Behind(d)
  BY <1>1, <1>2, Zenon DEF Behind
<1>6. Client(d)'
  BY <1>4, <1>5, BehindClient, Zenon
<1> QED
  BY <1>1, <1>2, <1>6

LEMMA LaggedClient ==
  ASSUME SourceInv, ClientTypes, NEW d \in Listeners, Client(d), Lag(d)
  PROVE  Client(d)' /\ reply'[d] \in Replies \cup {None}
<1>0. d \in Devices
  BY DeliveryAssumption
<1>1. PICK s, n, q : s = stream[d] /\ n = next[d] /\ q = reply[d]
  BY Zenon
<1>2. s \in Seq(Envelope) /\ n \in 1..(Len(s) + 1) /\ q \in Replies \cup {None}
  BY <1>0, <1>1, Zenon DEF SourceInv, EventInv, TypeOK, Client, ClientTypes
<1>3. /\ sock[d] = "open" /\ sock'[d] # "closed" /\ n + Capacity <= Len(s)
      /\ next'[d] = Len(s) - Capacity + 1
      /\ view'[d] = view[d] /\ loaded'[d] = {} /\ gaps'[d] # {}
      /\ UNCHANGED messages /\ stream' = stream
  BY <1>1 DEF Lag, Lagging, Missed, ClientTypes, vars, db
<1>4. reply'[d] = Outdated(reply[d])
  BY DEF Lag, ClientTypes
<1>5. next'[d] \in 1..(Len(stream'[d]) + 1)
  <2>1. PICK l : l = Len(s) /\ l = Len(stream'[d])
    BY <1>1, <1>3, Zenon
  <2>2. l \in Nat /\ n \in 1..(l + 1) /\ n + Capacity <= l /\ next'[d] = l - Capacity + 1
    BY <1>2, <1>3, <2>1
  <2>3. next'[d] \in 1..(l + 1)
    BY <2>2, DeliveryAssumption
  <2> QED
    BY <2>1, <2>3, Zenon
<1> QED
  BY <1>1, <1>2, <1>3, <1>4, <1>5, LosingClient, Zenon DEF Client

LEMMA ReadingClient ==
  ASSUME SourceInv, ClientTypes, NEW d \in Listeners, NEW c \in Convs,
         Client(d), HistoryRead(d, c)
  PROVE  Client(d)' /\ reply'[d] \in Replies \cup {None}
<1>1. PICK a, rows, open : /\ a = Owner[d] /\ open = (sock[d] = "open")
                           /\ rows = [m \in MsgIds |->
                                IF m \in HistoryRows(c, a) THEN messages[m].text ELSE None]
  BY Zenon
<1>2. PICK p : p = Reply(c, open, rows)
  BY Zenon
<1>3. ASSUME NEW m \in MsgIds
      PROVE  /\ rows[m] \in Texts \cup {Empty, None}
             /\ rows[m] # None <=> m \in Visible(c, a)
             /\ rows[m] # None => rows[m] = messages[m].text /\ rows[m] # Empty
  <2>1. HistoryRows(c, a) = Visible(c, a)
    BY DEF HistoryRows, Visible
  <2>2. rows[m] = IF m \in Visible(c, a) THEN messages[m].text ELSE None
    BY <1>1, <2>1, Zenon
  <2>3. CASE m \in Visible(c, a)
    <3>1. m \in Stored /\ ~messages[m].deleted
      BY <2>3 DEF Visible
    <3>2. /\ messages[m].text \in Texts \cup {Empty} /\ messages[m].text # None
          /\ messages[m].deleted <=> messages[m].text = Empty
      BY <3>1, TextOf, Zenon
    <3> QED
      BY <2>2, <2>3, <3>1, <3>2
  <2>4. CASE m \notin Visible(c, a)
    BY <2>2, <2>4
  <2> QED
    BY <2>3, <2>4
<1>4. p \in Replies /\ p.rows = rows /\ p.conv = c /\ p.current = open /\ p # None
  <2>1. rows \in Views /\ open \in BOOLEAN
    BY <1>1, <1>3 DEF Views
  <2>2. p \in Replies /\ p.rows = rows /\ p.conv = c /\ p.current = open
    BY <1>2, <2>1, Zenon DEF Reply, Replies
  <2> QED
    BY <2>2, MarksAssumption, Zenon
<1>5. /\ sock[d] # "closed" /\ reply[d] = None /\ a \in Members[c]
      /\ sock'[d] = sock[d] /\ next'[d] = next[d] /\ view'[d] = view[d]
      /\ loaded'[d] = loaded[d]
      /\ UNCHANGED <<messages, hidden, stream, req, raced>>
  BY <1>1, Zenon DEF HistoryRead, ClientTypes, vars, db
<1>6. reply'[d] = p
  BY <1>1, <1>2 DEF HistoryRead, ClientTypes
<1>7. gaps'[d] = IF open THEN gaps[d] ELSE gaps[d] \cup {"early"}
  BY <1>1, Zenon DEF HistoryRead, Missed
<1>8. Stored' = Stored /\ \A m : Known(d, m)' <=> Known(d, m)
  BY <1>5, Zenon DEF Known, Stored
<1>9. \A m \in Visible(c, a) : Known(d, m)
  BY <1>1, <1>5 DEF Visible, Known
<1>10. Faithful(d)'
  BY <1>3, <1>4, <1>5, <1>6, <1>8, <1>9, Zenon DEF Client, Faithful
<1>11. next'[d] \in 1..(Len(stream'[d]) + 1)
  BY <1>5, Zenon DEF Client
<1>12. CASE sock[d] # "open"
  <2>1. Beginning(d)'
    BY <1>1, <1>4, <1>5, <1>6, <1>7, <1>12, ZenonT(20) DEF Beginning, Client
  <2> QED
    BY <1>4, <1>5, <1>6, <1>10, <1>11, <1>12, <2>1, NotOpen, ZenonT(20) DEF Client
<1>13. CASE sock[d] = "open"
  <2>1. \A E : Coming(d, E)' <=> Coming(d, E)
    BY <1>5, IdleUnmoved, UnmovedComing, Zenon
  <2>2. \A m : Has(d, m)' <=> Has(d, m)
    <3> TAKE m
    <3>1. PICK E : E = EventsOf(m)
      BY Zenon
    <3> QED
      BY <1>5, <2>1, <3>1, Zenon DEF Has
  <2>3. \A k, b : Visible(k, b)' = Visible(k, b)
    BY <1>5, <1>8 DEF Visible
  <2>4. Visible(c, a) \subseteq MsgIds
    BY Zenon DEF Visible, Stored
  <2>5. Complete(d)'
    BY <1>1, <1>3, <1>4, <1>5, <1>6, <2>2, <2>3, <2>4, Zenon DEF Complete, Client
  <2>6. Beginning(d)'
    BY <1>5, <1>13, SMTT(20) DEF Beginning
  <2>7. ASSUME gaps'[d] = {}, NEW m \in Stored' \ raced', Known(d, m)'
        PROVE  InStep(d, m, messages[m].text)'
    <3>1. PICK t : t = messages[m].text /\ t = messages'[m].text
      BY <1>5, Zenon
    <3>2. InStep(d, m, t) /\ m \in MsgIds
      BY <1>1, <1>5, <1>7, <1>8, <1>13, <2>7, <3>1, Zenon DEF Client, Current, Stored
    <3>3. PICK C, N : C = Corrections(m, t) /\ N = StaleNews(m, t)
      BY Zenon
    <3>4. p.rows[m] \in {None, t}
      BY <1>3, <1>4, <3>1, <3>2, Zenon
    <3>5. Settling(d, m, t)' /\ (Buried(d, m, t)' <=> Buried(d, m, t))
      BY <1>5, <1>6, <2>1, <3>2, <3>3, <3>4, Zenon DEF InStep, Settling, Buried
    <3>6. \A i : From(d, i, C)' <=> From(d, i, C)
      BY <1>5, IdleUnmoved, Zenon DEF Unmoved
    <3>7. Followed(d, m, t)'
      BY <1>5, <3>2, <3>3, <3>5, <3>6, Zenon DEF InStep, Followed
    <3>8. Harmless(d, m, t)'
      BY <1>5, <3>2, <3>5, Zenon DEF InStep, Harmless, Busy
    <3>9. InStep(d, m, t)'
      BY <3>5, <3>7, <3>8, Zenon DEF InStep
    <3> QED
      BY <3>1, <3>9, Zenon
  <2>8. Current(d)'
    BY <2>7, Zenon DEF Current
  <2> QED
    BY <1>4, <1>6, <1>10, <1>11, <2>5, <2>6, <2>8, Zenon DEF Client
<1> QED
  BY <1>12, <1>13

\* What the reply lists is merged into a view that lacks it.
LEMMA MergedClient ==
  ASSUME SourceInv, ClientTypes, NEW d \in Listeners, Client(d), HistoryMerge(d)
  PROVE  Client(d)' /\ view'[d] \in Views /\ loaded'[d] \in SUBSET Convs
<1>1. PICK q, v : q = reply[d] /\ v = view[d]
  BY Zenon
<1>2. q # None /\ q \in Replies /\ v \in Views /\ loaded[d] \in SUBSET Convs
  BY <1>1 DEF HistoryMerge, ClientTypes
<1>3. q.rows \in Views /\ q.conv \in Convs
  BY <1>2 DEF Replies
<1>4. view'[d] = [m \in MsgIds |-> IF v[m] = None THEN q.rows[m] ELSE v[m]]
  BY <1>1, <1>2 DEF HistoryMerge, ClientTypes
<1>5. /\ view'[d] \in Views
      /\ \A m \in MsgIds : view'[d][m] = IF v[m] = None THEN q.rows[m] ELSE v[m]
  BY <1>2, <1>3, <1>4, Zenon DEF Views
<1>6. loaded'[d] = IF q.current THEN loaded[d] \cup {q.conv} ELSE loaded[d]
  BY <1>1, Zenon DEF HistoryMerge, ClientTypes
<1>7. /\ reply'[d] = None /\ sock'[d] = sock[d] /\ next'[d] = next[d] /\ gaps'[d] = gaps[d]
      /\ UNCHANGED <<messages, hidden, stream, req, raced>>
  BY DEF HistoryMerge, ClientTypes, vars, db
<1>8. Stored' = Stored /\ \A m : Known(d, m)' <=> Known(d, m)
  BY <1>7, Zenon DEF Known, Stored
<1>9. Faithful(d)'
  <2>1. \A m \in MsgIds : v[m] # None => Known(d, m) /\ (v[m] = Empty => messages[m].deleted)
    BY <1>1, Zenon DEF Client, Faithful
  <2>2. \A m \in MsgIds : q.rows[m] # None => Known(d, m) /\ q.rows[m] # Empty
    BY <1>1, <1>2, Zenon DEF Client, Faithful
  <2>3. \A m \in MsgIds : view'[d][m] # None =>
          Known(d, m)' /\ (view'[d][m] = Empty => messages'[m].deleted)
    BY <1>5, <1>7, <1>8, <2>1, <2>2, Zenon
  <2> QED
    BY <1>7, <2>3, Zenon DEF Faithful
<1>10. next'[d] \in 1..(Len(stream'[d]) + 1) /\ loaded'[d] \in SUBSET Convs
  <2>1. next'[d] \in 1..(Len(stream'[d]) + 1)
    BY <1>7, ZenonT(20) DEF Client
  <2> QED
    BY <1>2, <1>3, <1>6, <2>1
<1>11. CASE sock[d] # "open"
  <2>1. ~q.current /\ loaded[d] = {} /\ gaps[d] # {}
    BY <1>1, <1>2, <1>11, Zenon DEF Client, Beginning
  <2>2. Beginning(d)'
    BY <1>6, <1>7, <2>1 DEF Beginning, Client
  <2> QED
    BY <1>5, <1>7, <1>9, <1>10, <1>11, <2>2, NotOpen, Zenon DEF Client
<1>12. CASE sock[d] = "open"
  <2>1. \A E : Coming(d, E)' <=> Coming(d, E)
    BY <1>7, IdleUnmoved, UnmovedComing, Zenon
  <2>2. ASSUME NEW m \in MsgIds, Has(d, m) \/ q.rows[m] # None PROVE Has(d, m)'
    <3>1. PICK E : E = EventsOf(m)
      BY Zenon
    <3>2. v[m] # None \/ q.rows[m] # None => view'[d][m] # None
      BY <1>5, Zenon
    <3> QED
      BY <1>1, <2>1, <2>2, <3>1, <3>2, Zenon DEF Has
  <2>3. \A k, b : Visible(k, b)' = Visible(k, b) /\ Visible(k, b) \subseteq MsgIds
    BY <1>7, <1>8 DEF Visible, Stored
  <2>4. PICK a : a = Owner[d]
    BY Zenon
  <2>5. ASSUME NEW k \in loaded'[d]
        PROVE  a \in Members[k] /\ \A m \in Visible(k, a) : Has(d, m) \/ q.rows[m] # None
    <3>1. CASE k \in loaded[d]
      BY <2>4, <3>1, Zenon DEF Client, Complete
    <3>2. CASE k \notin loaded[d]
      <4>1. q.current /\ k = q.conv
        BY <1>6, <2>5, <3>2
      <4> QED
        BY <1>1, <1>2, <2>4, <4>1, Zenon DEF Client, Complete
    <3> QED
      BY <3>1, <3>2
  <2>6. Complete(d)'
    BY <1>7, <2>2, <2>3, <2>4, <2>5, Zenon DEF Complete
  <2>7. Beginning(d)'
    BY <1>7, <1>12 DEF Beginning
  <2>8. ASSUME gaps'[d] = {}, NEW m \in Stored' \ raced', Known(d, m)'
        PROVE  InStep(d, m, messages[m].text)'
    <3>1. PICK t : t = messages[m].text /\ t = messages'[m].text
      BY <1>7, Zenon
    <3>2. InStep(d, m, t) /\ m \in MsgIds /\ m \in Stored
      BY <1>7, <1>8, <1>12, <2>8, <3>1, Zenon DEF Client, Current, Stored
    <3>3. PICK C, N : C = Corrections(m, t) /\ N = StaleNews(m, t)
      BY Zenon
    <3>4. Coming(d, C) \/ v[m] = t \/ (v[m] = None /\ ~Coming(d, N) /\ q.rows[m] \in {None, t})
      BY <1>1, <1>2, <3>2, <3>3, Zenon DEF InStep, Settling
    <3>5. t # None
      BY <3>1, <3>2, TextOf, Zenon
    <3>6. Coming(d, C)' \/ view'[d][m] = t \/ (view'[d][m] = None /\ ~Coming(d, N)')
      BY <1>5, <2>1, <3>2, <3>4, <3>5, Zenon
    <3>7. Settling(d, m, t)'
      BY <1>7, <3>3, <3>6, Zenon DEF Settling
    <3>8. Buried(d, m, t) => Buried(d, m, t)'
      <4>1. v[m] = Empty => view'[d][m] = Empty
        BY <1>5, <3>2, MarksAssumption
      <4> QED
        BY <1>1, <2>1, <3>3, <4>1, Zenon DEF Buried
    <3>9. \A i : From(d, i, C)' <=> From(d, i, C)
      BY <1>7, IdleUnmoved, Zenon DEF Unmoved
    <3>10. Followed(d, m, t)'
      BY <1>7, <3>2, <3>3, <3>8, <3>9, Zenon DEF InStep, Followed
    <3>11. Harmless(d, m, t)'
      BY <1>7, <3>2, <3>8, Zenon DEF InStep, Harmless, Busy
    <3>12. InStep(d, m, t)'
      BY <3>7, <3>10, <3>11, Zenon DEF InStep
    <3> QED
      BY <3>1, <3>12, Zenon
  <2>9. Current(d)'
    BY <2>8, Zenon DEF Current
  <2> QED
    BY <1>5, <1>9, <1>10, <2>6, <2>7, <2>9, Zenon DEF Client
<1> QED
  BY <1>11, <1>12, Zenon

(***************************************************************************)
(* The inductive invariant                                                 *)
(***************************************************************************)
\* A step of the connection of d.
LEMMA OneClient ==
  ASSUME DeliveryInv, NEW d \in Listeners, UNCHANGED <<vars, raced>>,
         \A x \in Listeners \ {d} : Same(x), ClientTypes', Client(d)'
  PROVE  DeliveryInv'
<1>1. SourceInv'
  BY StepSource, Zenon DEF DeliveryInv
<1>2. UNCHANGED <<messages, stream, req, raced>> /\ hidden \subseteq hidden'
  BY DEF vars, db
<1>3. \A x \in Listeners \ {d} : Client(x)'
  BY <1>2, BystanderClient, Zenon DEF DeliveryInv
<1> QED
  BY <1>1, <1>3, Zenon DEF DeliveryInv

LEMMA SocketStep ==
  ASSUME DeliveryInv, NEW d \in Listeners, Upgrade(d) \/ Subscribe(d) \/ Deliver(d) \/ Lag(d)
  PROVE  DeliveryInv'
<1>1. SourceInv /\ ClientTypes /\ Client(d)
  BY Zenon DEF DeliveryInv
<1>2. CASE Upgrade(d)
  <2>1. ClientTypes' /\ UNCHANGED <<vars, raced>> /\ \A x \in Listeners \ {d} : Same(x)
    BY <1>1, <1>2 DEF Upgrade, ClientTypes, Same
  <2> QED
    BY <1>1, <1>2, <2>1, UpgradedClient, OneClient, Zenon
<1>3. CASE Subscribe(d)
  <2>1. Len(stream[d]) + 1 \in Nat
    <3>1. stream[d] \in Seq(Envelope)
      BY <1>1, DeliveryAssumption DEF SourceInv, EventInv, TypeOK
    <3> QED
      BY <3>1
  <2>2. ClientTypes' /\ UNCHANGED <<vars, raced>>
    BY <1>1, <1>3, <2>1 DEF Subscribe, ClientTypes
  <2>3. \A x \in Listeners \ {d} : Same(x)
    BY <1>1, <1>3 DEF Subscribe, ClientTypes, Same, Missed
  <2> QED
    BY <1>1, <1>3, <2>2, <2>3, SubscribedClient, OneClient, Zenon
<1>4. CASE Deliver(d)
  <2>1. Client(d)' /\ view' \in [Listeners -> Views]
    BY <1>1, <1>4, DeliveredClient, Zenon
  <2>2. ClientTypes' /\ UNCHANGED <<vars, raced>>
    <3>1. next' = [next EXCEPT ![d] = next[d] + 1] /\ next \in [Listeners -> Nat]
      BY <1>1, <1>4, Zenon DEF Deliver, ClientTypes
    <3>2. next' \in [Listeners -> Nat]
      BY ONLY <3>1, SMTT(20)
    <3> QED
      BY <1>1, <1>4, <2>1, <3>2, Zenon DEF Deliver, ClientTypes
  <2>3. \A x \in Listeners \ {d} : Same(x)
    BY <1>1, <1>4, SMTT(20) DEF Deliver, ClientTypes, Same
  <2> QED
    BY <2>1, <2>2, <2>3, OneClient, Zenon
<1>5. CASE Lag(d)
  <2>1. Client(d)' /\ reply'[d] \in Replies \cup {None}
    BY <1>1, <1>5, LaggedClient, Zenon
  <2>2. \A x \in Listeners \ {d} : Same(x)
    BY <1>1, <1>5, Zenon DEF Lag, ClientTypes, Same, Missed
  <2>3. reply' \in [Listeners -> Replies \cup {None}]
    BY <1>1, <1>5, <2>1 DEF Lag, ClientTypes
  <2>4. next' \in [Listeners -> Nat]
    <3>1. stream[d] \in Seq(Envelope)
      BY <1>1, DeliveryAssumption DEF SourceInv, EventInv, TypeOK
    <3>2. next'[d] \in Nat
      BY <2>1, <3>1, <1>5 DEF Client, Lag, vars
    <3> QED
      BY <1>1, <1>5, <3>2, Zenon DEF Lag, ClientTypes
  <2>5. ClientTypes' /\ UNCHANGED <<vars, raced>>
    BY <1>1, <1>5, <2>3, <2>4, Zenon DEF Lag, ClientTypes
  <2> QED
    BY <2>1, <2>2, <2>5, OneClient, Zenon
<1> QED
  BY <1>2, <1>3, <1>4, <1>5

LEMMA HistoryStep ==
  ASSUME DeliveryInv, NEW d \in Listeners, HistoryMerge(d) \/ \E c \in Convs : HistoryRead(d, c)
  PROVE  DeliveryInv'
<1>1. SourceInv /\ ClientTypes /\ Client(d)
  BY Zenon DEF DeliveryInv
<1>2. CASE HistoryMerge(d)
  <2>1. Client(d)' /\ view'[d] \in Views /\ loaded'[d] \in SUBSET Convs
    BY <1>1, <1>2, MergedClient, Zenon
  <2>2. \A x \in Listeners \ {d} : Same(x)
    BY <1>1, <1>2, Zenon DEF HistoryMerge, ClientTypes, Same
  <2>3. view' \in [Listeners -> Views] /\ loaded' \in [Listeners -> SUBSET Convs]
    BY <1>1, <1>2, <2>1, Zenon DEF HistoryMerge, ClientTypes
  <2>4. ClientTypes' /\ UNCHANGED <<vars, raced>>
    BY <1>1, <1>2, <2>3, Zenon DEF HistoryMerge, ClientTypes
  <2> QED
    BY <2>1, <2>2, <2>4, OneClient, Zenon
<1>3. ASSUME NEW c \in Convs, HistoryRead(d, c) PROVE DeliveryInv'
  <2>1. Client(d)' /\ reply'[d] \in Replies \cup {None}
    BY <1>1, <1>3, ReadingClient, ZenonT(20)
  <2>2. \A x \in Listeners \ {d} : Same(x)
    BY <1>1, <1>3, Zenon DEF HistoryRead, ClientTypes, Same, Missed
  <2>3. reply' \in [Listeners -> Replies \cup {None}]
    BY <1>1, <1>3, <2>1, Zenon DEF HistoryRead, ClientTypes
  <2>4. ClientTypes' /\ UNCHANGED <<vars, raced>>
    BY <1>1, <1>3, <2>3 DEF HistoryRead, ClientTypes
  <2> QED
    BY <2>1, <2>2, <2>4, OneClient, Zenon
<1> QED
  BY <1>2, <1>3

LEMMA ClosedStep ==
  ASSUME DeliveryInv, Restart \/ \E d \in Listeners : Disconnect(d)
  PROVE  DeliveryInv'
<1>1. SourceInv /\ ClientTypes
  BY Zenon DEF DeliveryInv
<1>2. stream \in [Devices -> Seq(Envelope)] /\ Listeners \subseteq Devices
  BY <1>1, DeliveryAssumption DEF SourceInv, EventInv, TypeOK
<1>3. ASSUME NEW ds \in SUBSET Listeners, Closed(ds), UNCHANGED stream
      PROVE  /\ ClientTypes' /\ \A d \in ds : Client(d)'
             /\ \A d \in Listeners \ ds : Same(d)
  <2>1. \A d \in ds : Blank(d)
    BY <1>3, Zenon DEF Closed, Blank
  <2>2. \A d \in ds : Client(d)' /\ view'[d] \in Views
    BY <1>2, <1>3, <2>1, BlankClient, Zenon
  <2>3. NoView \in Views
    BY Zenon DEF NoView, Views
  <2>4. \A d \in Listeners \ ds : Same(d)
    BY <1>3, Zenon DEF Closed, Same
  <2>5. sock' \in [Listeners -> {"closed", "announcing", "open"}] /\ next' \in [Listeners -> Nat]
    BY <1>1, <1>3, Zenon DEF Closed, ClientTypes
  <2>6. view' \in [Listeners -> Views] /\ reply' \in [Listeners -> Replies \cup {None}]
    BY <1>1, <1>3, <2>3, Zenon DEF Closed, ClientTypes
  <2>7. loaded' \in [Listeners -> SUBSET Convs]
    BY <1>1, <1>3 DEF Closed, ClientTypes
  <2> QED
    BY <2>2, <2>4, <2>5, <2>6, <2>7, ZenonT(20) DEF ClientTypes
<1>4. ASSUME NEW d \in Listeners, Disconnect(d) PROVE DeliveryInv'
  <2>1. PICK ds \in SUBSET Listeners : ds = {d}
    BY Zenon
  <2>2. Closed(ds) /\ UNCHANGED stream /\ UNCHANGED <<vars, raced>>
    BY <1>4, <2>1 DEF Disconnect, vars
  <2>3. /\ ClientTypes' /\ Client(d)' /\ \A x \in Listeners \ {d} : Same(x)
    BY <1>3, <2>1, <2>2
  <2> QED
    BY <2>2, <2>3, OneClient, Zenon
<1>5. CASE Restart
  <2>1. /\ UNCHANGED <<last_seq, messages, media, hidden, stream, calls>>
        /\ req' = [r \in Reqs |-> None] /\ Closed(Listeners)
    BY <1>5 DEF Restart, db
  <2>2. \A r \in Reqs : req'[r] = None
    BY <2>1
  <2>3. TypeOK'
    <3>1. TypeOK
      BY <1>1 DEF SourceInv, EventInv
    <3>2. req' \in [Reqs -> Handler \cup {None}]
      BY <2>1
    <3> QED
      BY <2>1, <3>1, <3>2, Zenon DEF TypeOK
  <2>4. Heard' /\ Busy' = {}
    <3>1. Heard
      BY <1>1, Zenon DEF SourceInv, EventInv
    <3>2. Heard'
      BY <2>1, <3>1, Zenon DEF Heard, Backed, Stored
    <3> QED
      BY <2>2, <3>2 DEF Busy
  <2>5. EventInv'
    BY <2>3, <2>4 DEF EventInv
  <2>6. SourceInv'
    BY <1>1, <2>1, <2>2, <2>5, StillKeepsSource, Zenon
  <2>7. ClientTypes' /\ \A d \in Listeners : Client(d)'
    BY <1>3, <2>1
  <2> QED
    BY <2>6, <2>7, Zenon DEF DeliveryInv
<1> QED
  BY <1>4, <1>5

\* A step of a handler that is no failure.
LEMMA HandleStep ==
  ASSUME DeliveryInv, NEW r \in Reqs, Handle(r)
  PROVE  DeliveryInv'
<1>1. SourceInv /\ ClientTypes /\ \A d \in Listeners : Client(d)
  BY Zenon DEF DeliveryInv
<1>2. Step(r) /\ UNCHANGED raced
  BY Zenon DEF Handle
<1>3. SourceInv'
  BY <1>1, <1>2, StepSource, Zenon DEF Next
<1>4. PICK h : h = req[r]
  BY Zenon
<1>5. /\ UNCHANGED <<sock, next, reply, loaded>>
      /\ \A d \in Listeners :
           view'[d] = IF Answers(r, d) THEN [view[d] EXCEPT ![h.env.msg] = Shown(view[d][h.env.msg], h.env)]
                      ELSE view[d]
      /\ \A d \in Listeners :
           gaps'[d] = IF Answers(r, d) /\ sock[d] = "announcing"
                      THEN gaps[d] \cup {"early"} ELSE gaps[d]
      /\ view' = [d \in Listeners |-> view'[d]]
  BY <1>4, Zenon DEF Handle, Missed, Answers
<1>6. \A d \in Listeners : Answered(r, d)
  BY <1>4, <1>5, Zenon DEF Answered, IsTold
<1>7. ASSUME NEW ds \in SUBSET Devices, Moves(r, ds), UNCHANGED <<messages, hidden>>
      PROVE  \A d \in Listeners : Client(d)' /\ view'[d] \in Views
  <2> TAKE d \in Listeners
  <2>1. view[d] \in Views /\ sock[d] \in {"closed", "announcing", "open"}
    BY <1>1 DEF ClientTypes
  <2>2. UNCHANGED <<messages, hidden, raced>>
    BY <1>2, <1>7
  <2> QED
    BY <1>1, <1>6, <1>7, <2>1, <2>2, MovedClient, Zenon
<1>8. ASSUME Prepares(r) PROVE \A d \in Listeners : Client(d)' /\ view'[d] \in Views
  <2>1. PICK ds \in SUBSET Devices : ds = {}
    BY Zenon
  <2>2. Moves(r, ds) /\ UNCHANGED <<messages, hidden>>
    BY <1>1, <1>8, <2>1, PreparesMoves, Zenon
  <2> QED
    BY <1>7, <2>2, Zenon
<1>9. ASSUME NEW x \in Devices, Publish(r, x)
      PROVE  \A d \in Listeners : Client(d)' /\ view'[d] \in Views
  <2>1. PICK ds \in SUBSET Devices : ds = {x}
    BY Zenon
  <2>2. Moves(r, ds) /\ UNCHANGED <<messages, hidden>>
    BY <1>1, <1>9, <2>1, PublishMovesOn, Zenon
  <2> QED
    BY <1>7, <2>2, Zenon
<1>10. ASSUME NEW m \in MsgIds, InsertMessage(r, m)
       PROVE  \A d \in Listeners : Client(d)' /\ view'[d] \in Views
  <2>1. req'[r] # None
    BY <1>1, <1>10, InsertAnnounces, Zenon DEF Announces
  <2>2. \A d \in Listeners : ~Answers(r, d)
    BY <2>1, Zenon DEF Answers
  <2>3. \A d \in Listeners : Same(d)
    BY <1>5, <2>2, Zenon DEF Same
  <2>4. \A d \in Listeners : view[d] \in Views
    BY <1>1 DEF ClientTypes
  <2>5. \A d \in Listeners : Client(d)'
    BY <1>1, <1>2, <1>10, <2>3, InsertedClient, Zenon
  <2> QED
    BY <2>3, <2>4, <2>5, Zenon DEF Same
<1>11. \A d \in Listeners : Client(d)' /\ view'[d] \in Views
  BY <1>2, <1>8, <1>9, <1>10, Zenon DEF Step, Prepares
<1>12. view' \in [Listeners -> Views]
  BY <1>5, <1>11, Zenon
<1>13. ClientTypes'
  BY <1>1, <1>5, <1>12, Zenon DEF ClientTypes
<1> QED
  BY <1>3, <1>11, <1>13, Zenon DEF DeliveryInv

LEMMA FaultStep ==
  ASSUME DeliveryInv, NEW r \in Reqs, HandleFails(r)
  PROVE  DeliveryInv'
<1>1. SourceInv /\ ClientTypes /\ \A d \in Listeners : Client(d)
  BY Zenon DEF DeliveryInv
<1>2. Fault(r)
  BY Zenon DEF HandleFails
<1>3. SourceInv'
  BY <1>1, <1>2, StepSource, Zenon DEF Next
<1>4. UNCHANGED messages /\ stream' = stream
  BY <1>1, <1>2, FaultStops, Zenon
<1>5. /\ UNCHANGED <<sock, next, view>>
      /\ loaded' = [d \in Listeners |-> {}]
      /\ reply' = [d \in Listeners |-> Outdated(reply[d])]
      /\ \A d \in Listeners :
           gaps'[d] = IF sock[d] # "closed" THEN gaps[d] \cup {"fault"} ELSE gaps[d]
  BY DEF HandleFails, Missed
<1>6. \A d \in Listeners : reply[d] \in Replies \cup {None}
  BY <1>1, Zenon DEF ClientTypes
<1>7. ASSUME NEW d \in Listeners PROVE Client(d)' /\ reply'[d] \in Replies \cup {None}
  <2>1. next'[d] \in 1..(Len(stream'[d]) + 1)
    BY <1>1, <1>4, <1>5, Zenon DEF Client
  <2>2. CASE sock[d] # "closed"
    <3>1. gaps'[d] # {} /\ loaded'[d] = {} /\ reply'[d] = Outdated(reply[d])
      BY <1>5, <2>2, Zenon
    <3>2. sock'[d] # "closed" /\ view'[d] = view[d] /\ Faithful(d)
      BY <1>1, <1>5, <2>2, Zenon DEF Client
    <3> QED
      BY <1>4, <1>6, <2>1, <3>1, <3>2, LosingClient, Zenon
  <2>3. CASE sock[d] = "closed"
    <3>1. reply[d] = None /\ view[d] = NoView /\ gaps[d] = {} /\ loaded[d] = {}
      BY <1>1, <2>3 DEF Client, Beginning
    <3>2. reply'[d] = None
      BY <1>5, <3>1, Zenon DEF Outdated
    <3>3. Beginning(d)' /\ sock'[d] # "open"
      BY <1>5, <2>3, <3>1, <3>2, Zenon DEF Beginning
    <3>4. Faithful(d)'
      BY <1>5, <3>1, <3>2, Zenon DEF Faithful, NoView
    <3> QED
      BY <2>1, <3>2, <3>3, <3>4, NotOpen, Zenon DEF Client
  <2> QED
    BY <2>2, <2>3
<1>8. reply' \in [Listeners -> Replies \cup {None}] /\ loaded' \in [Listeners -> SUBSET Convs]
  BY <1>5, <1>7
<1>9. ClientTypes'
  BY <1>1, <1>5, <1>8, Zenon DEF ClientTypes
<1> QED
  BY <1>3, <1>7, <1>9, Zenon DEF DeliveryInv

LEMMA CallStep ==
  ASSUME DeliveryInv, NEW r \in Reqs, NEW x \in Devices, HandleCall(r, x)
  PROVE  DeliveryInv'
<1>1. SourceInv /\ ClientTypes /\ \A d \in Listeners : Client(d)
  BY Zenon DEF DeliveryInv
<1>2. PICK e : e = req'[r].env
  BY Zenon
<1>3. /\ Call(r, x) /\ UNCHANGED <<sock, next, view, reply, gaps, loaded>>
      /\ raced' = IF e.type = "message.edited" /\ Unsettled(e.msg, x)
                  THEN raced \cup {e.msg} ELSE raced
  BY <1>2, Zenon DEF HandleCall
<1>4. SourceInv'
  BY <1>1, <1>3, StepSource, Zenon DEF Next
<1>5. ClientTypes' /\ \A d \in Listeners : Same(d)
  BY <1>1, <1>3, Zenon DEF ClientTypes, Same
<1>6. ASSUME NEW c \in Convs, NEW t \in Texts, NEW n \in 0..MaxAtts, SendMessage(r, x, c, t, n)
      PROVE  \A d \in Listeners : Client(d)'
  <2>1. e.type = "message.new"
    BY <1>1, <1>2, <1>6, SendBegins, Zenon
  <2>2. UNCHANGED raced
    BY <1>3, <2>1
  <2> QED
    BY <1>1, <1>5, <1>6, <2>2, SentClient, Zenon
<1>7. ASSUME NEW m \in MsgIds, NEW t \in Texts, EditMessage(r, x, m, t)
      PROVE  \A d \in Listeners : Client(d)'
  <2>1. e.type = "message.edited" /\ e \in EventsOf(m)
    BY <1>1, <1>2, <1>7, EditAnnounces, Zenon DEF Announces
  <2>2. e.msg = m
    BY <2>1 DEF EventsOf
  <2>3. raced' = IF Unsettled(m, x) THEN raced \cup {m} ELSE raced
    BY <1>3, <2>1, <2>2, Zenon
  <2> QED
    BY <1>1, <1>5, <1>7, <2>3, EditedClient, Zenon
<1>8. ASSUME NEW m \in MsgIds, DeleteMessage(r, x, m)
      PROVE  \A d \in Listeners : Client(d)'
  <2>1. e.type = "message.deleted"
    BY <1>1, <1>2, <1>8, DeleteAnnounces, Zenon
  <2>2. UNCHANGED raced
    BY <1>3, <2>1
  <2> QED
    BY <1>1, <1>5, <1>8, <2>2, DeletedClient, Zenon
<1>9. \A d \in Listeners : Client(d)'
  BY <1>3, <1>6, <1>7, <1>8, Zenon DEF Call
<1> QED
  BY <1>4, <1>5, <1>9, Zenon DEF DeliveryInv

LEMMA HideStep ==
  ASSUME DeliveryInv, NEW x \in Devices, NEW m \in MsgIds, Hide(x, m)
  PROVE  DeliveryInv'
<1>1. SourceInv /\ ClientTypes /\ \A d \in Listeners : Client(d)
  BY Zenon DEF DeliveryInv
<1>2. HideMessage(x, m) /\ UNCHANGED <<sock, next, view, reply, gaps, loaded, raced>>
  BY Zenon DEF Hide, dvars
<1>3. SourceInv'
  BY <1>1, <1>2, StepSource, Zenon DEF Next
<1>4. ClientTypes' /\ \A d \in Listeners : Same(d)
  BY <1>1, <1>2, Zenon DEF ClientTypes, Same
<1>5. UNCHANGED <<messages, stream, req, raced>> /\ hidden \subseteq hidden'
  BY <1>2, Zenon DEF HideMessage
<1>6. \A d \in Listeners : Client(d)'
  BY <1>1, <1>4, <1>5, BystanderClient, Zenon
<1> QED
  BY <1>3, <1>4, <1>6, Zenon DEF DeliveryInv

LEMMA StepDelivery == DeliveryInv /\ [DeliveryNext]_allVars => DeliveryInv'
<1> SUFFICES ASSUME DeliveryInv, [DeliveryNext]_allVars PROVE DeliveryInv'
  BY Zenon
<1>1. ASSUME NEW r \in Reqs, Handle(r) \/ HandleFails(r) \/ \E d \in Devices : HandleCall(r, d)
      PROVE  DeliveryInv'
  BY <1>1, HandleStep, FaultStep, CallStep, Zenon
<1>2. ASSUME NEW d \in Devices, NEW m \in MsgIds, Hide(d, m) PROVE DeliveryInv'
  BY <1>2, HideStep, Zenon
<1>3. ASSUME NEW d \in Listeners,
             \/ Upgrade(d) \/ Subscribe(d) \/ Deliver(d) \/ Lag(d) \/ Disconnect(d)
             \/ HistoryMerge(d) \/ \E c \in Convs : HistoryRead(d, c)
      PROVE  DeliveryInv'
  BY <1>3, SocketStep, HistoryStep, ClosedStep, Zenon
<1>4. CASE Restart
  BY <1>4, ClosedStep, Zenon
<1>5. CASE UNCHANGED allVars
  <2>1. /\ UNCHANGED vars /\ UNCHANGED <<messages, stream, req, raced>>
        /\ UNCHANGED <<sock, next, view, reply, gaps, loaded>> /\ hidden \subseteq hidden'
    BY <1>5 DEF allVars, dvars, vars, db
  <2>2. SourceInv'
    BY <2>1, StepSource, Zenon DEF DeliveryInv
  <2>3. ClientTypes' /\ \A d \in Listeners : Same(d)
    BY <2>1, Zenon DEF ClientTypes, Same, DeliveryInv
  <2>4. \A d \in Listeners : Client(d)'
    BY <2>1, <2>3, BystanderClient, Zenon DEF DeliveryInv
  <2> QED
    BY <2>2, <2>3, <2>4, Zenon DEF DeliveryInv
<1> QED
  BY <1>1, <1>2, <1>3, <1>4, <1>5, Zenon DEF DeliveryNext

LEMMA InitDelivery == DeliveryInit => DeliveryInv
<1> SUFFICES ASSUME DeliveryInit PROVE DeliveryInv
  BY Zenon
<1>1. Init /\ EventInv
  BY InitEvents, Zenon DEF DeliveryInit
<1>2. Busy = {} /\ Stored = {} /\ \A d \in Devices : stream[d] = <<>>
  BY <1>1, Zenon DEF Init, Busy, Stored
<1>3. SourceInv
  BY <1>1, <1>2 DEF SourceInv
<1>4. NoView \in Views
  BY Zenon DEF NoView, Views
<1>5. ClientTypes
  BY <1>4, Zenon DEF ClientTypes, DeliveryInit
<1>6. ASSUME NEW d \in Listeners PROVE Client(d)
  <2>1. /\ sock[d] = "closed" /\ next[d] = 1 /\ view[d] = NoView /\ reply[d] = None
        /\ gaps[d] = {} /\ loaded[d] = {} /\ stream[d] = <<>>
    BY <1>2, DeliveryAssumption, Zenon DEF DeliveryInit
  <2>2. next[d] \in 1..(Len(stream[d]) + 1)
    BY <2>1, SMTT(20)
  <2>3. Beginning(d) /\ Current(d) /\ Complete(d)
    BY <2>1, Zenon DEF Beginning, Current, Complete
  <2>4. Faithful(d)
    BY <2>1 DEF Faithful, NoView
  <2> QED
    BY <2>2, <2>3, <2>4, Zenon DEF Client
<1> QED
  BY <1>3, <1>5, <1>6, Zenon DEF DeliveryInv

\* When nothing is on its way, nothing is coming.
LEMMA NothingComes ==
  ASSUME DeliveryInv, NEW d \in Listeners, Quiet(d)
  PROVE  \A E : ~Coming(d, E)
<1>1. Busy = {} /\ ~(next[d] <= Len(stream[d]))
  BY Zenon DEF Quiet, Pending
<1>2. next[d] \in Nat /\ Len(stream[d]) \in Nat
  <2>1. stream[d] \in Seq(Envelope) /\ next[d] \in Nat
    BY DeliveryAssumption, Zenon DEF DeliveryInv, SourceInv, EventInv, TypeOK, ClientTypes
  <2> QED
    BY <2>1, SMTT(20)
<1>3. next[d]..Len(stream[d]) = {}
  BY <1>1, <1>2, SMTT(20)
<1> QED
  BY <1>1, <1>3, Zenon DEF Coming, From, Own

(***************************************************************************)
(* The theorems                                                            *)
(***************************************************************************)
(* A reload brings back every missing message, whatever the number of      *)
(* devices, messages and connections and whatever the capacity of the bus: *)
(* a conversation whose history was read after the subscription and the    *)
(* last loss of events is complete in the view of the client when nothing  *)
(* is on its way.                                                          *)
THEOREM ReloadHeals == DeliverySpec => []NothingIsMissing
<1>1. DeliveryInv => NothingIsMissing
  <2> SUFFICES ASSUME DeliveryInv, NEW d \in Listeners, Quiet(d),
                      NEW c \in loaded[d], NEW m \in Visible(c, Owner[d])
               PROVE  view[d][m] # None
    BY Zenon DEF NothingIsMissing
  <2>1. Has(d, m)
    BY Zenon DEF DeliveryInv, Client, Complete
  <2>2. \A E : ~Coming(d, E)
    BY NothingComes, Zenon
  <2> QED
    BY <2>1, <2>2, Zenon DEF Has
<1> QED
  BY <1>1, InitDelivery, StepDelivery, PTL DEF DeliverySpec

(* What a client shows is the stored text of the message, and nothing of a *)
(* deleted one, on a connection that lost no event and once nothing is on  *)
(* its way, for a message no two edits of which overlapped: handlers run   *)
(* side by side and their events arrive in any order, but one that arrives *)
(* late no longer matters.                                                 *)
THEOREM ViewStaysCurrent == DeliverySpec => []ViewIsCurrent
<1>1. DeliveryInv => ViewIsCurrent
  <2> SUFFICES ASSUME DeliveryInv, NEW d \in Listeners, Quiet(d), gaps[d] = {},
                      NEW m \in MsgIds \ raced, view[d][m] # None
               PROVE  view[d][m] = messages[m].text
    BY Zenon DEF ViewIsCurrent
  <2>1. Known(d, m) /\ m \in Stored \ raced
    BY DEF DeliveryInv, Client, Faithful, Known
  <2>2. PICK t : t = messages[m].text
    BY Zenon
  <2>3. Settling(d, m, t)
    BY <2>1, <2>2, Zenon DEF DeliveryInv, Client, Current, Quiet, InStep
  <2>4. \A E : ~Coming(d, E)
    BY NothingComes, Zenon
  <2> QED
    BY <2>2, <2>3, <2>4, Zenon DEF Settling
<1> QED
  BY <1>1, InitDelivery, StepDelivery, PTL DEF DeliverySpec
==============================================================================
