---------------------------- MODULE Media_proof ------------------------------
(***************************************************************************)
(* LeftoversAreExplained and ScanMissesNothing for any accounts, devices,  *)
(* requests, pagers and limits, with and without failures.                 *)
(*                                                                         *)
(* A deleted message that was neither overtaken nor left by a deletion     *)
(* that failed is out of the index, and no send will put it back, or its   *)
(* deletion has yet to unindex it (Cleared).                               *)
(* What a scan has passed, that is what is not below its cursor, it has    *)
(* listed, or it shares a seq with a row a page boundary cut off (Passed); *)
(* the last page is followed by nothing because its rows are as many as    *)
(* there are (PageIsWhole).                                                *)
(***************************************************************************)
EXTENDS MediaPages, Messaging_proof, WellFoundedInduction, FiniteSetTheorems

LEMMA Least ==
  ASSUME NEW U \in SUBSET Nat, U # {}
  PROVE  \E u \in U : \A v \in U : u <= v
<1> DEFINE R == {ss \in Nat \X Nat : ss[1] < ss[2]}
<1>1. IsWellFoundedOn(R, Nat)
  BY NatLessThanWellFounded DEF OpToRel
<1>2. \A u, v \in Nat : v < u => <<v, u>> \in R
  OBVIOUS
<1> HIDE DEF R
<1>3. PICK u \in U : \A v \in U : ~(<<v, u>> \in R)
  BY <1>1, WFMin, Zenon
<1>4. ASSUME NEW v \in U PROVE u <= v
  <2>1. ~(v < u)
    BY <1>2, <1>3, Zenon
  <2>2. u \in Nat /\ v \in Nat
    OBVIOUS
  <2> QED
    BY <2>1, <2>2
<1> QED
  BY <1>4

Indexing(m) == \E r \in Reqs : At(r, "index") /\ req[r].env.msg = m
Unindexing(m) == \E r \in Reqs : At(r, "unindex") /\ req[r].env.msg = m

Excused == overtaken \cup abandoned

Cleared ==
  \A m \in Stored \ Excused : messages[m].deleted /\ ~Unindexing(m) =>
    ~Indexing(m) /\ \A x \in media : x.msg # m

\* The message a send indexes is in the table.
Announced == \A r \in Reqs : At(r, "index") => req[r].env.msg \in Stored

IndexInv ==
  /\ TypeOK
  /\ Announced
  /\ IsFiniteSet(media)
  /\ \A x \in media : x.msg \in Stored
  /\ Cleared

Passed(q) ==
  \A x \in q.kept : q.over \/ (q.before # None /\ x.seq >= q.before) =>
    x.seq \in q.torn \/ x \in q.listed

ScanSound(q) ==
  /\ q \in Scans
  /\ q.limit > 0
  /\ ~q.over => q.kept \subseteq Indexed(q.conv)
  /\ Passed(q)

ScanInv ==
  /\ scan \in [Pagers -> Scans \cup {None}]
  /\ \A p \in Pagers : scan[p] # None => ScanSound(scan[p])

\* The least seq of a page.
LEMMA LastSeqIsLeast ==
  ASSUME NEW P \in SUBSET MediaRow, P # {}
  PROVE  /\ \E x \in P : LastSeq(P) = x.seq
         /\ \A x \in P : LastSeq(P) <= x.seq
<1> DEFINE U == {x.seq : x \in P}
<1>1. U \in SUBSET Nat /\ U # {}
  BY DEF MediaRow
<1>2. \E u \in U : \A v \in U : u <= v
  BY <1>1, Least, Zenon
<1>3. \E u \in U : \A x \in P : u <= x.seq
  BY <1>2
<1>4. LastSeq(P) \in U /\ \A x \in P : LastSeq(P) <= x.seq
  BY <1>3 DEF LastSeq
<1> QED
  BY <1>4

\* What LIMIT n returns, and that it returns everything when that is less.
LEMMA NewestFirst ==
  ASSUME NEW S, IsFiniteSet(S), NEW n \in Nat, NEW P \in Newest(n, S)
  PROVE  /\ P \subseteq S
         /\ \A x \in P, y \in S \ P : x.seq >= y.seq
         /\ IsFiniteSet(P) /\ Cardinality(P) \in Nat /\ Cardinality(P) <= n
         /\ Cardinality(P) < n => P = S
<1>1. /\ P \subseteq S
      /\ \A x \in P, y \in S \ P : x.seq >= y.seq
      /\ Cardinality(P) = IF Cardinality(S) < n THEN Cardinality(S) ELSE n
  BY DEF Newest
<1>2. IsFiniteSet(P) /\ (Cardinality(S) = Cardinality(P) => S = P)
  BY <1>1, FS_Subset
<1>3. Cardinality(S) \in Nat /\ Cardinality(P) \in Nat
  BY <1>2, FS_CardinalityType
<1> QED
  BY <1>1, <1>2, <1>3

\* The seqs that rows on the page share with rows cut off from it.
Cut(fetched, page) == {x.seq : x \in fetched \ page} \cap {x.seq : x \in page}

\* One page: a row that is not below the next cursor, or that the last page
\* is to hold, is on the page or shares its seq with one that was cut off.
LEMMA PageIsWhole ==
  ASSUME NEW S \in SUBSET MediaRow, IsFiniteSet(S), NEW n \in Nat, n > 0,
         NEW fetched \in Newest(n + 1, S), NEW page \in Newest(n, fetched),
         NEW x \in S,
         NextCursor(fetched, page) # None => x.seq >= NextCursor(fetched, page)
  PROVE  x \in page \/ x.seq \in Cut(fetched, page)
<1>1. /\ fetched \subseteq S /\ IsFiniteSet(fetched)
      /\ \A y \in fetched, z \in S \ fetched : y.seq >= z.seq
      /\ Cardinality(fetched) < n + 1 => fetched = S
  BY NewestFirst
<1>2. /\ page \subseteq fetched /\ Cardinality(page) \in Nat /\ Cardinality(page) <= n
      /\ \A y \in page, z \in fetched \ page : y.seq >= z.seq
      /\ Cardinality(page) < n => page = fetched
  BY <1>1, NewestFirst
<1>3. CASE fetched = page
  BY <1>1, <1>2, <1>3
<1>4. CASE fetched # page
  <2>1. page # {}
    BY <1>2, <1>4, FS_EmptySet
  <2>2. NextCursor(fetched, page) = LastSeq(page)
    BY <1>4, <2>1 DEF NextCursor
  <2>3. page \in SUBSET MediaRow
    BY <1>1, <1>2
  <2>4. PICK y \in page : LastSeq(page) = y.seq
    BY <2>1, <2>3, LastSeqIsLeast
  <2>5. y.seq \in Nat /\ x.seq \in Nat
    BY <2>3 DEF MediaRow
  <2>6. x.seq >= y.seq
    BY <2>2, <2>4, <2>5, MediaAssumption
  <2>7. PICK z \in fetched \ page : TRUE
    BY <1>2, <1>4
  <2>8. z.seq \in Nat /\ y.seq >= z.seq
    BY <1>1, <1>2 DEF MediaRow
  <2>9. CASE x \in fetched
    <3>1. x \notin page => y.seq >= x.seq
      BY <1>2, <2>9
    <3>2. x \notin page => y.seq = x.seq
      BY <2>5, <2>6, <3>1
    <3> QED
      BY <2>9, <3>2 DEF Cut
  <2>10. CASE x \notin fetched
    <3>1. z.seq >= x.seq
      BY <1>1, <2>10
    <3>2. z.seq = x.seq /\ y.seq = x.seq
      BY <2>5, <2>6, <2>8, <3>1
    <3> QED
      BY <3>2 DEF Cut
  <2> QED
    BY <2>9, <2>10
<1> QED
  BY <1>3, <1>4


\* What the pagers add to the handlers.
LEMMA MediaSteps ==
  ASSUME [MediaNext]_mediaVars
  PROVE  /\ [Next]_vars
         /\ \/ UNCHANGED <<vars, overtaken, abandoned>>
            \/ \E r \in Reqs : \/ Handle(r)
                               \/ HandleFails(r)
                               \/ \E d \in Devices : HandleCall(r, d)
<1>1. ASSUME NEW r \in Reqs, Handle(r) PROVE Next
  BY <1>1 DEF Handle, Next
<1>2. ASSUME NEW r \in Reqs, NEW d \in Devices, HandleCall(r, d) PROVE Next
  BY <1>2 DEF HandleCall, Next
<1>3. ASSUME NEW p \in Pagers,
             \/ ListMedia(p)
             \/ \E a \in Accounts, c \in Convs, limit \in Limits : BeginScan(p, a, c, limit)
      PROVE  UNCHANGED <<vars, overtaken, abandoned>>
  BY <1>3, Zenon DEF ListMedia, BeginScan
<1>4. CASE UNCHANGED mediaVars
  BY <1>4 DEF mediaVars, mvars
<1>5. ASSUME NEW r \in Reqs, HandleFails(r) PROVE Next
  BY <1>5 DEF HandleFails, Next
<1> QED
  BY <1>1, <1>2, <1>3, <1>4, <1>5 DEF MediaNext

\* The table of handlers when one of them moves.
LEMMA ReqTurns ==
  ASSUME TypeOK, NEW r \in Reqs, NEW h, req' = [req EXCEPT ![r] = h]
  PROVE  req'[r] = h /\ \A s \in Reqs \ {r} : req'[s] = req[s]
  BY Zenon DEF TypeOK

\* Where a send is after its insert or an attachment.
LEMMA ProceedGoes ==
  ASSUME TypeOK, NEW r \in Reqs, NEW d, NEW e, NEW n, Proceed(r, d, e, n)
  PROVE  /\ \A s \in Reqs \ {r} : req'[s] = req[s]
         /\ req'[r].pc \in {"index", "fanout"} /\ req'[r].env = e
<1> DEFINE i == Running("index", d, e, n, <<>>, {})
           f == Running("fanout", d, e, 0, SendOrder(e.conv, Owner[d]), {})
<1>1. i.pc = "index" /\ i.env = e /\ f.pc = "fanout" /\ f.env = e
  BY DEF Running
<1>2. \E h : req' = [req EXCEPT ![r] = h] /\ h \in {i, f}
  BY Zenon DEF Proceed, Goto
<1> HIDE DEF i, f
<1>3. PICK h \in {i, f} : req' = [req EXCEPT ![r] = h]
  BY <1>2, Zenon
<1>4. req'[r] = h /\ \A s \in Reqs \ {r} : req'[s] = req[s]
  BY <1>3, ReqTurns, Zenon
<1> QED
  BY <1>1, <1>4

\* Sends that were indexing before index rows that are there.
LEMMA StillAnnounced ==
  ASSUME Announced, Stored \subseteq Stored', \A n : Indexing(n)' => Indexing(n)
  PROVE  Announced'
  BY DEF Announced, Indexing

\* A step in which no handler starts or stops indexing or unindexing, and
\* nothing is stored, deleted or indexed.
LEMMA IndexStays ==
  ASSUME IndexInv, TypeOK', UNCHANGED media, Stored \subseteq Stored',
         Excused \subseteq Excused',
         \A m \in Stored' : messages'[m].deleted => m \in Stored /\ messages[m].deleted,
         \A s \in Reqs : /\ At(s, "index")' => At(s, "index") /\ req'[s].env = req[s].env
                         /\ At(s, "unindex") => At(s, "unindex")' /\ req'[s].env = req[s].env
  PROVE  IndexInv'
<1>1. \A m : Indexing(m)' => Indexing(m)
  BY DEF Indexing
<1>2. \A m : Unindexing(m) => Unindexing(m)'
  BY DEF Unindexing
<1>3. Cleared'
  BY <1>1, <1>2 DEF IndexInv, Cleared
<1>4. Announced'
  BY <1>1, StillAnnounced, Zenon DEF IndexInv
<1> QED
  BY <1>3, <1>4 DEF IndexInv

\* A message that was just inserted is not deleted.
LEMMA InsertIndexes ==
  ASSUME IndexInv, TypeOK', Grown, NEW r \in Reqs, NEW m \in MsgIds,
         InsertMessage(r, m), Excused \subseteq Excused'
  PROVE  IndexInv'
<1>1. /\ At(r, "insert") /\ UNCHANGED media
      /\ Proceed(r, req[r].dev, Named(req[r].env, m), req[r].atts)
  BY Zenon DEF InsertMessage
<1>2. /\ \A s \in Reqs \ {r} : req'[s] = req[s]
      /\ req'[r].pc \in {"index", "fanout"} /\ req'[r].env.msg = m
  <2>1. Named(req[r].env, m).msg = m
    BY DEF Named, Event
  <2> QED
    BY <1>1, <2>1, ProceedGoes DEF IndexInv
<1>3. ~messages'[m].deleted /\ m \notin Stored /\ \A n \in Stored : messages'[n] = messages[n]
  BY InsertStores DEF IndexInv, Stored
<1>4. Stored' = Stored \cup {m}
  BY InsertStores, Zenon DEF IndexInv
<1>5. \A n \in Stored : Indexing(n)' => Indexing(n)
  BY <1>2, <1>3 DEF Indexing, At
<1>6. \A n : Unindexing(n) => Unindexing(n)'
  BY <1>1, <1>2 DEF Unindexing, At
<1>7. Cleared'
  BY <1>1, <1>3, <1>4, <1>5, <1>6 DEF IndexInv, Cleared
<1>8. \A x \in media : x.msg \in Stored'
  BY DEF IndexInv, Grown
<1>9. Announced'
  BY <1>2, <1>4 DEF IndexInv, Announced, Grown, At
<1> QED
  BY <1>1, <1>7, <1>8, <1>9 DEF IndexInv

\* A row is only added for a message whose send was at its index.
LEMMA RecordIndexes ==
  ASSUME IndexInv, TypeOK', Grown, NEW r \in Reqs, RecordMedia(r),
         Excused \subseteq Excused'
  PROVE  IndexInv'
<1> DEFINE m == req[r].env.msg
           row == [msg |-> m, conv |-> req[r].env.conv, seq |-> req[r].env.seq,
                   item |-> req[r].atts]
<1>1. /\ At(r, "index") /\ media' = media \cup {row} /\ UNCHANGED messages
      /\ Proceed(r, req[r].dev, req[r].env, req[r].atts - 1)
  BY Zenon DEF RecordMedia
<1>2. m \in Stored /\ Stored' = Stored
  BY <1>1 DEF IndexInv, Announced, Stored
<1>3. /\ \A s \in Reqs \ {r} : req'[s] = req[s]
      /\ req'[r].env = req[r].env
  BY <1>1, ProceedGoes, Zenon DEF IndexInv
<1>4. \A n : Indexing(n)' => Indexing(n)
  BY <1>1, <1>3 DEF Indexing, At
<1>5. \A n : Unindexing(n) => Unindexing(n)'
  BY <1>1, <1>3 DEF Unindexing, At
<1>6. Indexing(m)
  BY <1>1 DEF Indexing
<1>7. \A x \in media' : x \in media \/ x.msg = m
  BY <1>1
<1>8. Cleared'
  BY <1>1, <1>2, <1>4, <1>5, <1>6, <1>7 DEF IndexInv, Cleared
<1>9. IsFiniteSet(media')
  BY <1>1, FS_AddElement, Zenon DEF IndexInv
<1>10. Announced'
  BY <1>2, <1>4, StillAnnounced, Zenon DEF IndexInv
<1> QED
  BY <1>2, <1>7, <1>8, <1>9, <1>10 DEF IndexInv

\* Unindexing leaves nothing of the message, unless a send is at its index:
\* then the message is overtaken.
LEMMA UnindexClears ==
  ASSUME IndexInv, TypeOK', Grown, NEW r \in Reqs, UnindexMedia(r), Handle(r)
  PROVE  IndexInv'
<1> DEFINE m == req[r].env.msg
<1>1. /\ At(r, "unindex") /\ media' = {x \in media : x.msg # m} /\ UNCHANGED messages
      /\ req' = [req EXCEPT ![r] = Running("members", req[r].dev, req[r].env, 0, <<>>, {})]
  BY DEF UnindexMedia, Unindexed, Goto
<1>2. Stored' = Stored
  BY <1>1 DEF Stored
<1>3. /\ \A s \in Reqs \ {r} : req'[s] = req[s]
      /\ req'[r].pc = "members"
  <2> DEFINE h == Running("members", req[r].dev, req[r].env, 0, <<>>, {})
  <2>1. h.pc = "members"
    BY DEF Running
  <2> HIDE DEF h
  <2>2. req'[r] = h /\ \A s \in Reqs \ {r} : req'[s] = req[s]
    BY <1>1, ReqTurns, Zenon DEF h, IndexInv
  <2> QED
    BY <2>1, <2>2, Zenon
<1>4. \A n : Indexing(n)' => Indexing(n)
  BY <1>3 DEF Indexing, At
<1>5. \A n : n # m /\ Unindexing(n) => Unindexing(n)'
  BY <1>3 DEF Unindexing, At
<1>6. Excused \subseteq Excused'
  BY DEF Handle, Excused
<1>7. Indexing(m) => m \in Excused'
  <2> SUFFICES ASSUME NEW s \in Reqs, At(s, "index"), req[s].env.msg = m
               PROVE  m \in overtaken'
    BY DEF Indexing, Excused
  <2>1. s \in {x \in Busy : At(r, "unindex") /\ At(x, "index") /\ req[x].env.msg = req[r].env.msg}
    BY <1>1 DEF Busy, At
  <2> QED
    BY <2>1 DEF Handle
<1>8. Cleared'
  BY <1>1, <1>2, <1>4, <1>5, <1>6, <1>7 DEF IndexInv, Cleared
<1>9. IsFiniteSet(media')
  BY <1>1, FS_Subset DEF IndexInv
<1>10. Announced'
  BY <1>2, <1>4, StillAnnounced, Zenon DEF IndexInv
<1> QED
  BY <1>1, <1>2, <1>8, <1>9, <1>10 DEF IndexInv


\* The fan-out has nothing to do with the index.
LEMMA FanoutIndexes ==
  ASSUME IndexInv, TypeOK', NEW r \in Reqs, Excused \subseteq Excused',
         ListMembers(r) \/ ListDevices(r) \/ \E d \in Devices : Publish(r, d)
  PROVE  IndexInv'
<1>1. /\ UNCHANGED db /\ req[r].pc \in {"members", "fanout"}
      /\ \E todo, out : Continue(r, todo, out)
  BY Zenon DEF ListMembers, ListDevices, Publish, At
<1>2. PICK todo, out : Continue(r, todo, out)
  BY <1>1, Zenon
<1>3. /\ \A s \in Reqs \ {r} : req'[s] = req[s]
      /\ req'[r] = None \/ req'[r].pc = "fanout"
  <2>1. Running("fanout", req[r].dev, req[r].env, 0, todo, out).pc = "fanout"
    BY DEF Running
  <2> QED
    BY <1>2, <2>1, ReqTurns, Zenon DEF Continue, Goto, IndexInv
<1>4. UNCHANGED <<messages, media>> /\ Stored' = Stored
  BY <1>1 DEF db, Stored
<1>5. \A s \in Reqs : /\ At(s, "index")' => At(s, "index") /\ req'[s].env = req[s].env
                      /\ At(s, "unindex") => At(s, "unindex")' /\ req'[s].env = req[s].env
  BY <1>1, <1>3 DEF At
<1> QED
  BY <1>4, <1>5, IndexStays

\* A handler that fails is gone or goes on with its fan-out.  A deletion that
\* was yet to unindex its message leaves it excused.
LEMMA FailsIndexes ==
  ASSUME IndexInv, TypeOK', NEW r \in Reqs, HandleFails(r)
  PROVE  IndexInv'
<1>1. /\ UNCHANGED db
      /\ req' = [req EXCEPT ![r] = None] \/ (At(r, "fanout") /\ \E todo, out : Continue(r, todo, out))
  BY Zenon DEF HandleFails, Fault, ListMembersFails, ListDevicesFails, Abort, Done, Goto
<1>2. /\ \A s \in Reqs \ {r} : req'[s] = req[s]
      /\ req'[r] = None \/ (At(r, "fanout") /\ req'[r].pc = "fanout")
  <2>1. CASE req' = [req EXCEPT ![r] = None]
    BY <2>1, ReqTurns, Zenon DEF IndexInv
  <2>2. ASSUME NEW todo, NEW out, At(r, "fanout"), Continue(r, todo, out)
        PROVE  /\ \A s \in Reqs \ {r} : req'[s] = req[s]
               /\ req'[r] = None \/ (At(r, "fanout") /\ req'[r].pc = "fanout")
    <3>1. Running("fanout", req[r].dev, req[r].env, 0, todo, out).pc = "fanout"
      BY DEF Running
    <3> QED
      BY <2>2, <3>1, ReqTurns, Zenon DEF Continue, Goto, IndexInv
  <2> QED
    BY <1>1, <2>1, <2>2, Zenon
<1>3. UNCHANGED <<messages, media>> /\ Stored' = Stored
  BY <1>1 DEF db, Stored
<1>4. \A n : Indexing(n)' => Indexing(n)
  BY <1>2 DEF Indexing, At
<1>5. Excused \subseteq Excused'
  BY Zenon DEF HandleFails, Excused
<1>6. ASSUME NEW n \in MsgIds, Unindexing(n), n \notin Excused' PROVE Unindexing(n)'
  <2>1. PICK s \in Reqs : At(s, "unindex") /\ req[s].env.msg = n
    BY <1>6 DEF Unindexing
  <2>2. s # r
    BY <1>6, <2>1, Zenon DEF HandleFails, Excused
  <2> QED
    BY <1>2, <2>1, <2>2 DEF Unindexing, At
<1>7. Cleared'
  BY <1>3, <1>4, <1>5, <1>6 DEF IndexInv, Cleared, Stored
<1>8. Announced'
  BY <1>3, <1>4, StillAnnounced, Zenon DEF IndexInv
<1> QED
  BY <1>3, <1>7, <1>8 DEF IndexInv

\* A call that was just taken: a deletion is about to unindex.
LEMMA CallIndexes ==
  ASSUME IndexInv, TypeOK', Grown, NEW r \in Reqs, NEW d \in Devices, HandleCall(r, d)
  PROVE  IndexInv'
<1>1. Excused' = Excused /\ TypeOK
  BY DEF HandleCall, mvars, IndexInv, Excused
<1>2. ASSUME NEW c \in Convs, NEW t \in Texts, NEW n \in 0..MaxAtts, SendMessage(r, d, c, t, n)
      PROVE  IndexInv'
  <2>1. /\ UNCHANGED <<messages, media>> /\ req[r] = None
        /\ \A s \in Reqs \ {r} : req'[s] = req[s]
        /\ req'[r].pc = "insert"
    <3>1. UNCHANGED <<messages, media>> /\ req[r] = None
      BY <1>2, Zenon DEF SendMessage, Start
    <3>2. \A e : Running("insert", d, e, n, <<>>, {}).pc = "insert"
      BY DEF Running
    <3>3. PICK e : req' = [req EXCEPT ![r] = Running("insert", d, e, n, <<>>, {})]
      BY <1>2, Zenon DEF SendMessage, Start
    <3>4. req'[r].pc = "insert" /\ \A s \in Reqs \ {r} : req'[s] = req[s]
      BY <1>1, <3>2, <3>3, ReqTurns, Zenon
    <3> QED
      BY <3>1, <3>4, Zenon
  <2>2. \A s \in Reqs : /\ At(s, "index")' => At(s, "index") /\ req'[s].env = req[s].env
                        /\ At(s, "unindex") => At(s, "unindex")' /\ req'[s].env = req[s].env
    BY <2>1 DEF At
  <2>3. Stored' = Stored
    BY <2>1 DEF Stored
  <2> QED
    BY <1>1, <2>1, <2>2, <2>3, IndexStays
<1>3. ASSUME NEW m \in MsgIds, NEW t \in Texts, EditMessage(r, d, m, t)
      PROVE  IndexInv'
  <2>1. /\ UNCHANGED media /\ req[r] = None /\ messages[m] # None
        /\ messages' = [messages EXCEPT ![m] = Edited(messages[m], t)]
        /\ \A s \in Reqs \ {r} : req'[s] = req[s]
        /\ req'[r].pc = "members"
    <3>1. /\ UNCHANGED media /\ req[r] = None /\ messages[m] # None
          /\ messages' = [messages EXCEPT ![m] = Edited(messages[m], t)]
      BY <1>3, Zenon DEF EditMessage, Editable, Start
    <3>2. \A e : Running("members", d, e, 0, <<>>, {}).pc = "members"
      BY DEF Running
    <3>3. PICK e : req' = [req EXCEPT ![r] = Running("members", d, e, 0, <<>>, {})]
      BY <1>3, Zenon DEF EditMessage, Start
    <3>4. req'[r].pc = "members" /\ \A s \in Reqs \ {r} : req'[s] = req[s]
      BY <1>1, <3>2, <3>3, ReqTurns, Zenon
    <3> QED
      BY <3>1, <3>4, Zenon
  <2>2. \A s \in Reqs : /\ At(s, "index")' => At(s, "index") /\ req'[s].env = req[s].env
                        /\ At(s, "unindex") => At(s, "unindex")' /\ req'[s].env = req[s].env
    BY <2>1 DEF At
  <2>3. ~messages'[m].deleted /\ \A n \in MsgIds \ {m} : messages'[n] = messages[n]
    <3>1. ~Edited(messages[m], t).deleted
      BY DEF Edited, Rewritten
    <3> QED
      BY <1>1, <2>1, <3>1, Zenon DEF TypeOK
  <2>4. Stored \subseteq Stored'
    BY DEF Grown
  <2>5. \A n \in Stored' : messages'[n].deleted => n \in Stored /\ messages[n].deleted
    BY <2>3 DEF Stored
  <2> QED
    BY <1>1, <2>1, <2>2, <2>4, <2>5, IndexStays
<1>4. ASSUME NEW m \in MsgIds, DeleteMessage(r, d, m)
      PROVE  IndexInv'
  <2>1. /\ UNCHANGED media /\ req[r] = None /\ messages[m] # None
        /\ messages' = [messages EXCEPT ![m] = Tombstone(messages[m])]
        /\ \A s \in Reqs \ {r} : req'[s] = req[s]
        /\ req'[r].pc = "unindex" /\ req'[r].env.msg = m
    <3> DEFINE e == Event("message.deleted", messages[m].conv, m, 0, Empty)
               h == Running("unindex", d, e, 0, <<>>, {})
    <3>1. h.pc = "unindex" /\ h.env = e /\ e.msg = m
      BY DEF Running, Event
    <3>2. /\ UNCHANGED media /\ req[r] = None /\ messages[m] # None
          /\ messages' = [messages EXCEPT ![m] = Tombstone(messages[m])]
          /\ req' = [req EXCEPT ![r] = h]
      BY <1>4, Zenon DEF DeleteMessage, Start
    <3> HIDE DEF e, h
    <3> QED
      BY <1>1, <3>1, <3>2, ReqTurns, ZenonT(20)
  <2>2. req'[r] # None
    <3>1. Running("unindex", d, Event("message.deleted", messages[m].conv, m, 0, Empty),
                  0, <<>>, {}) \in Handler
      BY <1>1, <2>1 DEF Running, Event, Handler, Stages, Envelope, TypeOK, Row
    <3> QED
      BY <1>1, <1>4, <3>1, NoneAssumption, Zenon DEF DeleteMessage, Start, TypeOK
  <2>3. Unindexing(m)'
    BY <2>1, <2>2 DEF Unindexing, At
  <2>4. \A n : Indexing(n)' => Indexing(n)
    BY <2>1 DEF Indexing, At
  <2>5. \A n : Unindexing(n) => Unindexing(n)'
    BY <2>1 DEF Unindexing, At
  <2>6. \A n \in Stored' \ {m} : n \in Stored /\ messages'[n] = messages[n]
    BY <1>1, <2>1, SMTT(20) DEF Stored, TypeOK
  <2>7. Cleared'
    BY <1>1, <2>1, <2>3, <2>4, <2>5, <2>6 DEF IndexInv, Cleared
  <2>8. Stored \subseteq Stored'
    BY Zenon DEF Grown
  <2>9. Announced'
    BY <2>4, <2>8, StillAnnounced, Zenon DEF IndexInv
  <2> QED
    BY <2>1, <2>7, <2>8, <2>9 DEF IndexInv
<1> QED
  BY <1>2, <1>3, <1>4 DEF HandleCall, Call

\* Every step keeps the index in order.
LEMMA StepIndex == IndexInv /\ [MediaNext]_mediaVars => IndexInv'
<1> SUFFICES ASSUME IndexInv, [MediaNext]_mediaVars PROVE IndexInv'
  OBVIOUS
<1>1. TypeOK' /\ Grown
  BY MediaSteps, StepType, RowsGrow DEF IndexInv
<1>2. CASE UNCHANGED <<vars, overtaken, abandoned>>
  <2>1. UNCHANGED <<messages, media, req, Excused>>
    BY <1>2, SMTT(20) DEF vars, db, Excused
  <2> QED
    BY <1>1, <2>1, IndexStays DEF Stored, At
<1>3. ASSUME NEW r \in Reqs, Handle(r) PROVE IndexInv'
  <2>1. Excused \subseteq Excused'
    BY <1>3 DEF Handle, Excused
  <2> QED
    BY <1>1, <1>3, <2>1, InsertIndexes, RecordIndexes, UnindexClears, FanoutIndexes
    DEF Handle, Step
<1>4. ASSUME NEW r \in Reqs, NEW d \in Devices, HandleCall(r, d) PROVE IndexInv'
  BY <1>1, <1>4, CallIndexes
<1>5. ASSUME NEW r \in Reqs, HandleFails(r) PROVE IndexInv'
  BY <1>1, <1>5, FailsIndexes
<1> QED
  BY <1>2, <1>3, <1>4, <1>5, MediaSteps


\* The scan p goes on as q, the others as they were.
LEMMA ScanMoves ==
  ASSUME ScanInv, UNCHANGED media, NEW p \in Pagers, NEW q, ScanSound(q),
         scan' = [scan EXCEPT ![p] = q]
  PROVE  ScanInv'
<1>1. scan' \in [Pagers -> Scans \cup {None}]
  BY DEF ScanInv, ScanSound
<1>2. ASSUME NEW o \in Pagers, scan'[o] # None PROVE ScanSound(scan[o])'
  <2>1. PICK s : s = scan'[o]
    BY Zenon
  <2>2. ScanSound(s)
    BY <1>2, <2>1 DEF ScanInv
  <2>3. ScanSound(s)'
    BY <2>2 DEF ScanSound, Passed, Indexed
  <2> QED
    BY <2>1, <2>3
<1> QED
  BY <1>1, <1>2 DEF ScanInv

\* The first page of a scan is yet to come.
LEMMA BeginIsSound ==
  ASSUME IndexInv, ScanInv, NEW p \in Pagers, NEW a \in Accounts, NEW c \in Convs,
         NEW limit \in Limits, BeginScan(p, a, c, limit)
  PROVE  ScanInv'
<1> DEFINE q == Scan(c, Clamp(limit), None, {}, Indexed(c), {}, FALSE)
<1>1. UNCHANGED media /\ scan' = [scan EXCEPT ![p] = q]
  BY DEF BeginScan, vars, db
<1>2. Clamp(limit) \in Nat /\ Clamp(limit) > 0
  BY MediaAssumption DEF Clamp
<1>3. Indexed(c) \in SUBSET MediaRow
  BY DEF IndexInv, TypeOK, Indexed
<1>4. ScanSound(q)
  BY <1>2, <1>3, Zenon DEF ScanSound, Passed, Scan, Scans
<1> HIDE DEF q
<1> QED
  BY <1>1, <1>4, ScanMoves, Zenon

\* The scan after a page.
Turned(q, fetched, page) ==
  Scan(q.conv, q.limit, NextCursor(fetched, page), q.listed \cup page, q.kept,
       q.torn \cup Cut(fetched, page), NextCursor(fetched, page) = None)

\* A page passes what it lists and what shares a seq with it.
LEMMA ListIsSound ==
  ASSUME IndexInv, ScanInv, NEW p \in Pagers, ListMedia(p)
  PROVE  ScanInv'
<1> DEFINE q == scan[p]
           S == {x \in Indexed(q.conv) : After(x, q.before)}
<1>1. /\ q # None /\ ~q.over
      /\ \E fetched \in Newest(q.limit + 1, S) : \E page \in Newest(q.limit, fetched) :
           scan' = [scan EXCEPT ![p] = Turned(q, fetched, page)]
  BY ZenonT(20) DEF ListMedia, Turned, Cut
<1>2. ScanSound(q) /\ ~q.over /\ UNCHANGED media
  BY <1>1 DEF ListMedia, ScanInv, vars, db
<1>3. PICK fetched \in Newest(q.limit + 1, S) : \E page \in Newest(q.limit, fetched) :
        scan' = [scan EXCEPT ![p] = Turned(q, fetched, page)]
  BY <1>1, Zenon
<1>4. PICK page \in Newest(q.limit, fetched) :
        scan' = [scan EXCEPT ![p] = Turned(q, fetched, page)]
  BY <1>3, Zenon
<1>5. S = {x \in Indexed(q.conv) : After(x, q.before)}
  OBVIOUS
<1> HIDE DEF q, S
<1>6. PICK cursor, torn, t :
        /\ cursor = NextCursor(fetched, page)
        /\ torn = Cut(fetched, page)
        /\ t = Turned(q, fetched, page)
  BY Zenon
<1>7. q \in Scans /\ q.limit \in Nat /\ q.limit > 0 /\ q.before \in Nat \cup {None}
      /\ q.kept \subseteq Indexed(q.conv) /\ Passed(q)
  BY <1>2 DEF ScanSound, Scans
<1>8. S \in SUBSET MediaRow /\ IsFiniteSet(S)
  <2>1. S \subseteq media /\ media \subseteq MediaRow /\ IsFiniteSet(media)
    BY <1>5 DEF Indexed, IndexInv, TypeOK
  <2> QED
    BY <2>1, FS_Subset
<1>9. fetched \subseteq S /\ page \subseteq fetched
  BY DEF Newest
<1>10. cursor \in Nat \cup {None} /\ torn \subseteq Nat
  <2>1. page # {} => LastSeq(page) \in Nat
    BY <1>8, <1>9, LastSeqIsLeast DEF MediaRow
  <2>2. torn \subseteq Nat
    BY <1>6, <1>8, <1>9, SMTT(20) DEF Cut, MediaRow
  <2> QED
    BY <1>6, <2>1, <2>2 DEF NextCursor
<1>11. t \in Scans
  BY <1>6, <1>7, <1>8, <1>9, <1>10 DEF Turned, Scan, Scans
<1>12. ASSUME NEW x \in q.kept, cursor # None => x.seq >= cursor
       PROVE  x.seq \in q.torn \cup torn \/ x \in q.listed \cup page
  <2>1. x \in MediaRow /\ x.seq \in Nat
    BY <1>7, SMTT(20) DEF Scans, MediaRow
  <2>2. CASE After(x, q.before)
    <3>1. x \in S
      BY <1>5, <1>7, <2>2
    <3> QED
      BY <1>6, <1>7, <1>8, <1>12, <3>1, PageIsWhole
  <2>3. CASE ~After(x, q.before)
    <3>1. q.before # None /\ x.seq >= q.before
      BY <1>7, <2>1, <2>3 DEF After
    <3> QED
      BY <1>7, <3>1 DEF Passed
  <2> QED
    BY <2>2, <2>3
<1>13. Passed(t)
  BY <1>6, <1>12, Zenon DEF Passed, Turned, Scan
<1>14. ScanSound(t)
  BY <1>6, <1>7, <1>11, <1>13 DEF ScanSound, Turned, Scan
<1> QED
  BY <1>2, <1>4, <1>6, <1>14, ScanMoves, Zenon

\* Rows that leave the index need not be passed any more.
LEMMA KeepIsSound ==
  ASSUME ScanInv, Keep, media' \subseteq MediaRow
  PROVE  ScanInv'
<1>1. ASSUME NEW p \in Pagers, scan[p] # None
      PROVE  scan'[p] \in Scans /\ ScanSound(scan[p])'
  <2>1. PICK q, t : q = scan[p] /\ t = scan'[p]
    BY Zenon
  <2>2. ScanSound(q) /\ q # None
    BY <1>1, <2>1 DEF ScanInv
  <2>3. t = IF q.over THEN q
            ELSE Scan(q.conv, q.limit, q.before, q.listed, q.kept \cap media', q.torn, FALSE)
    BY <2>1, <2>2, Zenon DEF Keep
  <2>4. CASE q.over
    <3>1. t = q
      BY <2>3, <2>4
    <3>2. ScanSound(q)'
      BY <2>2, <2>4 DEF ScanSound, Passed
    <3> QED
      BY <2>1, <2>2, <3>1, <3>2 DEF ScanSound
  <2>5. CASE ~q.over
    <3>1. t = Scan(q.conv, q.limit, q.before, q.listed, q.kept \cap media', q.torn, FALSE)
      BY <2>3, <2>5
    <3>2. t \in Scans /\ t.limit > 0
      BY <2>2, <3>1 DEF ScanSound, Scan, Scans
    <3>3. t.kept \subseteq {x \in media' : x.conv = t.conv}
      BY <2>2, <2>5, <3>1 DEF ScanSound, Scan, Indexed
    <3>4. Passed(t)
      BY <2>2, <2>5, <3>1 DEF ScanSound, Scan, Passed
    <3>5. ScanSound(t)'
      BY <3>2, <3>3, <3>4 DEF ScanSound, Passed, Indexed
    <3> QED
      BY <2>1, <3>2, <3>5
  <2> QED
    BY <2>4, <2>5
<1>2. \A p \in Pagers : scan[p] = None => scan'[p] = None
  BY Zenon DEF Keep
<1>3. scan' \in [Pagers -> Scans \cup {None}]
  <2>1. scan' = [p \in Pagers |-> scan'[p]]
    BY Zenon DEF Keep
  <2>2. \A p \in Pagers : scan'[p] \in Scans \cup {None}
    BY <1>1, <1>2
  <2> QED
    BY <2>1, <2>2, Zenon
<1> QED
  BY <1>1, <1>2, <1>3 DEF ScanInv


\* Every step keeps the scans sound.
LEMMA StepScan == IndexInv /\ ScanInv /\ [MediaNext]_mediaVars => ScanInv'
<1> SUFFICES ASSUME IndexInv, ScanInv, [MediaNext]_mediaVars PROVE ScanInv'
  OBVIOUS
<1>1. ASSUME UNCHANGED <<media, scan>> PROVE ScanInv'
  BY <1>1 DEF ScanInv, ScanSound, Passed, Indexed
<1>2. CASE UNCHANGED mediaVars
  BY <1>1, <1>2 DEF mediaVars, mvars, vars, db
<1>3. ASSUME NEW r \in Reqs, NEW d \in Devices, HandleCall(r, d) PROVE ScanInv'
  <2>1. UNCHANGED <<media, scan>>
    BY <1>3, Zenon DEF HandleCall, Call, SendMessage, EditMessage, DeleteMessage, mvars
  <2> QED
    BY <1>1, <2>1
<1>4. ASSUME NEW r \in Reqs, Handle(r) PROVE ScanInv'
  <2>1. media' \subseteq MediaRow
    BY MediaSteps, StepType DEF IndexInv, TypeOK
  <2> QED
    BY <1>4, <2>1, KeepIsSound DEF Handle
<1>5. ASSUME NEW r \in Reqs, HandleFails(r) PROVE ScanInv'
  <2>1. UNCHANGED <<media, scan>>
    BY <1>5, Zenon DEF HandleFails, Fault, ListMembersFails, ListDevicesFails, Abort, db
  <2> QED
    BY <1>1, <2>1
<1>6. ASSUME NEW p \in Pagers, ListMedia(p) PROVE ScanInv'
  BY <1>6, ListIsSound
<1>7. ASSUME NEW p \in Pagers, NEW a \in Accounts, NEW c \in Convs, NEW limit \in Limits,
             BeginScan(p, a, c, limit)
      PROVE  ScanInv'
  BY <1>7, BeginIsSound
<1> QED
  BY <1>2, <1>3, <1>4, <1>5, <1>6, <1>7 DEF MediaNext

\* The inductive invariant of the index and of the scans.
THEOREM MediaInvariance == MediaSpec => [](IndexInv /\ ScanInv)
<1>1. MediaInit => IndexInv /\ ScanInv
  <2> SUFFICES ASSUME MediaInit PROVE IndexInv /\ ScanInv
    OBVIOUS
  <2>1. TypeOK /\ Announced
    BY InitType DEF MediaInit, Init, Announced, At
  <2>2. media = {} /\ Stored = {} /\ scan = [p \in Pagers |-> None]
    BY DEF MediaInit, Init, Stored
  <2>3. IndexInv
    BY <2>1, <2>2, FS_EmptySet DEF IndexInv, Cleared
  <2> QED
    BY <2>2, <2>3 DEF ScanInv
<1> QED
  BY <1>1, StepIndex, StepScan, PTL DEF MediaSpec

\* Only a deletion that passed its own send, or that ended between its two
\* statements, leaves an attachment of a deleted message in the index, with any
\* number of handlers and messages and whichever of them fail.
THEOREM LeftoversHaveTwoCauses == MediaSpec => []LeftoversAreExplained
<1>1. IndexInv => LeftoversAreExplained
  <2> SUFFICES ASSUME IndexInv, Busy = {}, NEW x \in media, messages[x.msg].deleted,
                      x.msg \notin Excused
               PROVE  FALSE
    BY DEF LeftoversAreExplained, Excused
  <2>1. ~Unindexing(x.msg) /\ x.msg \in Stored
    BY DEF IndexInv, Unindexing, At, Busy
  <2> QED
    BY <2>1 DEF IndexInv, Cleared
<1> QED
  BY <1>1, MediaInvariance, PTL

\* A scan that followed its cursor to the end has listed every attachment
\* that was indexed all the while, albums a page boundary fell into aside,
\* for any limits and with any number of sends and deletes in between.
THEOREM ScansAreComplete == MediaSpec => []ScanMissesNothing
<1>1. ScanInv => ScanMissesNothing
  BY DEF ScanInv, ScanSound, Passed, ScanMissesNothing
<1> QED
  BY <1>1, MediaInvariance, PTL
==============================================================================
