---------------------------- MODULE Contacts_proof ---------------------------
(***************************************************************************)
(* Proofs about the two accounts of a conversation: how they come to share *)
(* one (db::dm_conversation), for any accounts, ids and concurrent calls,  *)
(* and what they are told of each other's profile (update_profile), for    *)
(* any fields, values, devices and number of overlapping updates.          *)
(***************************************************************************)
EXTENDS DmConversations, Profiles, TLAPS

(***************************************************************************)
(* dm_conversation.  Agreement and completeness of the answers are not     *)
(* inductive: what makes a claimed mapping safe is that the claimant's id  *)
(* is its own (Private), already has both members (Progress), and that a   *)
(* mapping, once set, stays set until the re-read (Progress, Bound).       *)
(***************************************************************************)
Drawn == {"members", "claim", "reselect"}

\* What a call has established by the statement it is about to run.
Progress ==
  \A r \in Calls :
    /\ pc[r] # "idle" => pair[r] \in Pairs
    /\ pc[r] \in Drawn => cid[r] \in conversations
    /\ pc[r] = "members" => conversation_members[cid[r]] = {}
    /\ pc[r] = "claim" =>
         conversation_members[cid[r]] = {pair[r][1], pair[r][2]}
    /\ pc[r] = "reselect" => dm_conversations[pair[r]] # Nothing

\* An id that was drawn and not yet claimed belongs to one call only.
Private ==
  \A r \in Calls : pc[r] \in {"members", "claim"} =>
    /\ \A s \in Calls : s # r /\ pc[s] \in Drawn => cid[s] # cid[r]
    /\ \A p \in Pairs : dm_conversations[p] # cid[r]

\* A mapped conversation is complete, and no other pair has it.
Bound ==
  \A p \in Pairs : dm_conversations[p] # Nothing =>
    /\ dm_conversations[p] \in conversations
    /\ conversation_members[dm_conversations[p]] = {p[1], p[2]}
    /\ \A q \in Pairs : q # p => dm_conversations[q] # dm_conversations[p]

\* Ids not drawn yet have no members.
Fresh == \A c \in ConvIds \ conversations : conversation_members[c] = {}

\* What was answered is what the mapping says, now and at any later time.
Answered ==
  \A x \in answered : x[2] # Nothing /\ x[2] = dm_conversations[x[1]]

DmInv == DmTypeOK /\ Progress /\ Private /\ Bound /\ Fresh /\ Answered

\* The ordered pair of two accounts is a pair.
LEMMA LoHiType == \A a, b \in Accounts : LoHi(a, b) \in Pairs
  BY AccountsAssumption DEF LoHi, Pairs

\* The initial state satisfies the inductive invariant.
LEMMA InitDm == DmInit => DmInv
  BY NothingAssumption, SMTT(20)
  DEF DmInit, DmInv, DmTypeOK, Progress, Private, Bound, Fresh, Answered, Stages, Drawn

\* Every statement of dm_conversation, and every abort, preserves it.
LEMMA StepDm == DmInv /\ [DmNext]_dmVars => DmInv'
<1> SUFFICES ASSUME DmInv, [DmNext]_dmVars PROVE DmInv'
  OBVIOUS
<1> USE DEF DmInv, DmTypeOK, Stages, Drawn
<1>1. ASSUME NEW r \in Calls, NEW a \in Accounts, NEW b \in Accounts, Call(r, a, b)
      PROVE DmInv'
  BY <1>1, LoHiType DEF Call, ToStage, tables, Progress, Private, Bound, Fresh, Answered
<1>2. ASSUME NEW r \in Calls, LookupHit(r) PROVE DmInv'
  BY <1>2 DEF LookupHit, Leave, ToStage, tables, Progress, Private, Bound, Fresh, Answered
<1>3. ASSUME NEW r \in Calls, LookupMiss(r) PROVE DmInv'
  BY <1>3 DEF LookupMiss, ToStage, tables, Progress, Private, Bound, Fresh, Answered
<1>4. ASSUME NEW r \in Calls, CreateConversation(r) PROVE DmInv'
  BY <1>4, NothingAssumption
  DEF CreateConversation, ToStage, Progress, Private, Bound, Fresh, Answered
<1>5. ASSUME NEW r \in Calls, AddMembers(r) PROVE DmInv'
  BY <1>5, NothingAssumption
  DEF AddMembers, ToStage, Pairs, Progress, Private, Bound, Fresh, Answered
<1>6. ASSUME NEW r \in Calls, ClaimPair(r) PROVE DmInv'
  BY <1>6, NothingAssumption
  DEF ClaimPair, ToStage, Progress, Private, Bound, Fresh, Answered
<1>7. ASSUME NEW r \in Calls, Reselect(r) PROVE DmInv'
  BY <1>7 DEF Reselect, Leave, ToStage, tables, Progress, Private, Bound, Fresh, Answered
<1>8. ASSUME NEW r \in Calls, AbortCall(r) PROVE DmInv'
  BY <1>8 DEF AbortCall, Leave, ToStage, tables, Progress, Private, Bound, Fresh, Answered
<1>9. CASE UNCHANGED dmVars
  BY <1>9 DEF dmVars, Progress, Private, Bound, Fresh, Answered
<1> QED
  BY <1>1, <1>2, <1>3, <1>4, <1>5, <1>6, <1>7, <1>8, <1>9 DEF DmNext

\* dm_conversation keeps its inductive invariant under every interleaving.
THEOREM DmInvariance == DmSpec => []DmInv
  BY InitDm, StepDm, PTL DEF DmSpec

\* The tables and the locals of every call keep their types.
THEOREM DmTypeCorrect == DmSpec => []DmTypeOK
<1>1. DmInv => DmTypeOK
  BY DEF DmInv
<1> QED
  BY <1>1, DmInvariance, PTL

\* Callers naming the same two accounts always get the same conversation.
THEOREM DmAgreement == DmSpec => []OneConversationPerPair
<1>1. DmInv => OneConversationPerPair
  BY DEF DmInv, Answered, OneConversationPerPair
<1> QED
  BY <1>1, DmInvariance, PTL

\* A conversation that was answered has its row and exactly its two members.
THEOREM DmCompleteness == DmSpec => []AnswersAreComplete
<1>1. DmInv => AnswersAreComplete
  <2> SUFFICES ASSUME DmInv, NEW x \in answered
               PROVE  /\ x[2] \in conversations
                      /\ conversation_members[x[2]] = {x[1][1], x[1][2]}
    BY DEF AnswersAreComplete
  <2>1. x[1] \in Pairs
    BY DEF DmInv, DmTypeOK
  <2>2. x[2] # Nothing /\ x[2] = dm_conversations[x[1]]
    BY DEF DmInv, Answered
  <2> QED
    BY <2>1, <2>2 DEF DmInv, Bound
<1> QED
  BY <1>1, DmInvariance, PTL

\* dm_conversation implements the directory: the claim that wins is the
\* binding, every answer is an answer of the directory, all else stutters.
THEOREM DmRefinement == DmSpec => ImplementsDirectory
<1>1. DmInit => Directory!DirInit
  BY DEF DmInit, Directory!DirInit
<1>2. DmInv /\ [DmNext]_dmVars => [Directory!DirNext]_Directory!dirVars
  <2> SUFFICES ASSUME DmInv, [DmNext]_dmVars
               PROVE  [Directory!DirNext]_Directory!dirVars
    OBVIOUS
  <2> USE DEF DmInv, DmTypeOK, Directory!dirVars
  <2>1. ASSUME NEW r \in Calls, LookupHit(r)
        PROVE  Directory!DirNext
    BY <2>1 DEF LookupHit, tables, Directory!DirNext, Directory!Answer, Progress
  <2>2. ASSUME NEW r \in Calls, Reselect(r)
        PROVE  Directory!DirNext
    BY <2>2 DEF Reselect, tables, Directory!DirNext, Directory!Answer, Progress
  <2>3. ASSUME NEW r \in Calls, ClaimPair(r), dm_conversations[pair[r]] = Nothing
        PROVE  Directory!DirNext
    <3>1. pair[r] \in Pairs /\ cid[r] \in ConvIds
      BY <2>3 DEF ClaimPair, Progress, Drawn
    <3>2. Directory!Bind(pair[r], cid[r])
      BY <2>3, <3>1 DEF ClaimPair, Private, Directory!Bind
    <3> QED
      BY <3>1, <3>2 DEF Directory!DirNext
  <2>4. ASSUME NEW r \in Calls, ClaimPair(r), dm_conversations[pair[r]] # Nothing
        PROVE  UNCHANGED Directory!dirVars
    BY <2>4 DEF ClaimPair, Progress
  <2>5. ASSUME NEW r \in Calls,
               \/ \E a, b \in Accounts : Call(r, a, b)
               \/ LookupMiss(r)
               \/ CreateConversation(r)
               \/ AddMembers(r)
               \/ AbortCall(r)
        PROVE  UNCHANGED Directory!dirVars
    BY <2>5 DEF Call, LookupMiss, CreateConversation, AddMembers, AbortCall, tables
  <2>6. CASE UNCHANGED dmVars
    BY <2>6 DEF dmVars
  <2> QED
    BY <2>1, <2>2, <2>3, <2>4, <2>5, <2>6 DEF DmNext
<1> QED
  BY <1>1, <1>2, DmInvariance, PTL DEF DmSpec, ImplementsDirectory, Directory!DirSpec

(***************************************************************************)
(* The two writers of a profile row.  NoFieldIsLost needs to know what a   *)
(* handler between its read and its write is about to write: the merge of  *)
(* its request into the row it read (Pending).  If the row is still that   *)
(* one, the write changes the fields the request names and no other.       *)
(***************************************************************************)
Pending ==
  \A r \in Reqs : At(r, "write") => req[r].new = Merged(req[r].cur, req[r].patch)

Shape ==
  /\ row = [f \in Fields |-> row[f]]
  /\ req = [r \in Reqs |-> req[r]]

IndInv == Shape /\ Pending /\ NoFieldIsLost /\ LastSeenIsKept

\* A step that leaves the table alone and puts no handler before its write
\* keeps the invariant.
LEMMA Frame ==
  ASSUME IndInv, UNCHANGED table, NEW r \in Reqs, NEW h,
         req' = [req EXCEPT ![r] = h],
         h = None \/ h.pc # "write"
  PROVE  IndInv'
<1>1. \A q \in Reqs : At(q, "write")' => At(q, "write") /\ req'[q] = req[q]
  BY DEF IndInv, Shape, At
<1> QED
  BY <1>1 DEF IndInv, Shape, Pending, NoFieldIsLost, LastSeenIsKept, table, At

\* The first read of an update fixes what it will write.
LEMMA ReadStep ==
  ASSUME IndInv, NEW r \in Reqs, NEW patch, ReadCurrent(r, patch)
  PROVE  IndInv'
<1> DEFINE h == [pc |-> "write", patch |-> patch, cur |-> row, seen |-> last_seen,
                 new |-> Merged(row, patch)]
<1>1. req' = [req EXCEPT ![r] = h] /\ UNCHANGED table
  BY DEF ReadCurrent, GoTo
<1>2. h.new = Merged(h.cur, h.patch) /\ h.cur = row
  OBVIOUS
<1> HIDE DEF h
<1>3. \A q \in Reqs : req'[q] = IF q = r THEN h ELSE req[q]
  BY <1>1 DEF IndInv, Shape
<1>4. Pending' /\ Shape'
  BY <1>1, <1>2, <1>3 DEF IndInv, Shape, Pending, At, table
<1> QED
  BY <1>1, <1>4 DEF IndInv, NoFieldIsLost, LastSeenIsKept, table

\* The write of an update.
LEMMA WriteStep ==
  ASSUME IndInv, NEW r \in Reqs, UpsertProfile(r)
  PROVE  IndInv'
<1> DEFINE h == req[r]
<1>1. /\ At(r, "write")
      /\ row' = h.new
      /\ last_seen' = last_seen
      /\ clock' = clock
      /\ named' = [f \in Fields |-> IF h.patch[f] = Absent THEN named[f] ELSE h.new[f]]
      /\ clobbered' = (clobbered \/ row # h.cur)
      /\ req' = [req EXCEPT ![r] = [pc |-> "reread", new |-> h.new]]
  BY DEF UpsertProfile, GoTo, LastSeenAfter
<1>2. h.new = Merged(h.cur, h.patch)
  BY <1>1 DEF IndInv, Pending
<1>3. NoFieldIsLost'
  <2> SUFFICES ASSUME ~clobbered' PROVE row' = named'
    BY DEF NoFieldIsLost
  <2>1. ~clobbered /\ row = h.cur
    BY <1>1, Zenon
  <2>2. row = named
    BY <2>1 DEF IndInv, NoFieldIsLost
  <2>3. \A f \in Fields : h.patch[f] = Absent => h.new[f] = named[f]
    BY <1>2, <2>1, <2>2 DEF Merged
  <2>4. row' = [f \in Fields |-> h.new[f]]
    BY <1>1, <1>2 DEF Merged
  <2> QED
    BY ONLY <1>1, <2>3, <2>4
<1>4. LastSeenIsKept'
  BY <1>1 DEF IndInv, LastSeenIsKept
<1>5. Shape' /\ Pending'
  <2> DEFINE g == [pc |-> "reread", new |-> h.new]
  <2>1. g.pc # "write"
    OBVIOUS
  <2>2. row' = [f \in Fields |-> row'[f]]
    BY <1>1, <1>2 DEF Merged
  <2>3. req' = [req EXCEPT ![r] = g]
    BY <1>1
  <2> HIDE DEF g
  <2>4. \A q \in Reqs : At(q, "write")' => At(q, "write") /\ req'[q] = req[q]
    BY <2>1, <2>3 DEF IndInv, Shape, At
  <2> QED
    BY <2>2, <2>3, <2>4 DEF IndInv, Shape, Pending
<1> QED
  BY <1>3, <1>4, <1>5 DEF IndInv

\* Every step keeps the invariant.
LEMMA StepInv == IndInv /\ [Next]_vars => IndInv'
<1> SUFFICES ASSUME IndInv, [Next]_vars PROVE IndInv'
  OBVIOUS
<1>1. ASSUME NEW r \in Reqs, Reread(r) PROVE IndInv'
  <2>1. /\ req' = [req EXCEPT ![r] = [pc |-> "partners", env |-> EventOf(r)]]
        /\ UNCHANGED table
    BY <1>1 DEF Reread, GoTo
  <2> QED
    BY <2>1, Frame, Zenon
<1>2. ASSUME NEW r \in Reqs, NEW env, NEW todo, NEW out,
             Publishing(r, env, todo, out), UNCHANGED table
      PROVE  IndInv'
  <2> DEFINE g == [pc |-> "fanout", env |-> env, todo |-> todo, out |-> out]
  <2>1. \/ req' = [req EXCEPT ![r] = None]
        \/ req' = [req EXCEPT ![r] = g]
    BY ONLY <1>2, Zenon DEF Publishing, GoTo
  <2>2. g.pc # "write"
    OBVIOUS
  <2> HIDE DEF g
  <2> QED
    BY <1>2, <2>1, <2>2, Frame
<1>3. ASSUME NEW r \in Reqs, ListPartners(r) \/ ListPartnersFails(r) PROVE IndInv'
  BY <1>2, <1>3 DEF ListPartners, ListPartnersFails
<1>4. ASSUME NEW r \in Reqs, NEW a, ListDevices(r, a) \/ ListDevicesFails(r, a)
      PROVE  IndInv'
  BY <1>2, <1>4 DEF ListDevices, ListDevicesFails
<1>5. ASSUME NEW r \in Reqs, NEW d, Publish(r, d) PROVE IndInv'
  BY <1>2, <1>5 DEF Publish
<1>6. ASSUME NEW r \in Reqs, Abort(r) PROVE IndInv'
  BY <1>6, Frame, Zenon DEF Abort, GoTo
<1>7. CASE SetLastSeen
  BY <1>7 DEF SetLastSeen, IndInv, Shape, Pending, NoFieldIsLost, LastSeenIsKept, At
<1>8. CASE UNCHANGED vars
  BY <1>8 DEF vars, table, IndInv, Shape, Pending, NoFieldIsLost, LastSeenIsKept, At
<1> QED
  BY <1>1, <1>3, <1>4, <1>5, <1>6, <1>7, <1>8, ReadStep, WriteStep DEF Next, Step, Fault

\* The row before any update.
LEMMA InitInv == Init => IndInv
<1> SUFFICES ASSUME Init PROVE IndInv
  OBVIOUS
<1>1. Shape /\ NoFieldIsLost /\ LastSeenIsKept
  BY DEF Init, Shape, NoFieldIsLost, LastSeenIsKept
<1>2. Pending
  BY DEF Init, Pending, At
<1> QED
  BY <1>1, <1>2 DEF IndInv

\* Absent fields are unchanged and disconnects disturb nothing, as long as no
\* update writes over a row it did not read.
THEOREM FieldsAreKept == Spec => []NoFieldIsLost
<1>1. IndInv => NoFieldIsLost
  BY DEF IndInv
<1> QED
  BY <1>1, InitInv, StepInv, PTL DEF Spec

\* However many updates overlap, none takes back a last_seen.
THEOREM UpdatesKeepLastSeen == Spec => []LastSeenIsKept
<1>1. IndInv => LastSeenIsKept
  BY DEF IndInv
<1> QED
  BY <1>1, InitInv, StepInv, PTL DEF Spec

(***************************************************************************)
(* Announcements.  While no update failed, either a device was sent the    *)
(* row as it is or some handler is still going to send it (WillTell): one  *)
(* that has yet to read the row again, or one that carries the row as it   *)
(* is and has not reached the device.  An older event can follow a newer   *)
(* one only from a second publisher (Single), or from a publisher whose    *)
(* row was overwritten and whose successor has yet to read (Followed).     *)
(***************************************************************************)
TypeOK ==
  /\ row \in Profile
  /\ last_seen \in Nat
  /\ clock \in Nat
  /\ req \in [Reqs -> Handler \cup {None}]
  /\ heard \in [Devices -> Seq(Profile)]
  /\ updates \in Nat

WillTell(r, d) ==
  /\ req[r] # None
  /\ \/ req[r].pc \in {"write", "reread"}
     \/ req[r].pc = "partners" /\ req[r].env = row
     \/ /\ req[r].pc = "fanout" /\ req[r].env = row
        /\ d \in req[r].out \/ \E a \in req[r].todo : d \in DevicesOf[a]

Promised(d) == \E r \in Reqs : WillTell(r, d)

Last(d) == heard[d][Len(heard[d])]

Announced ==
  ~failed /\ updates > 0 => \A d \in Devices :
    (\E i \in DOMAIN heard[d] : heard[d][i] = row) \/ Promised(d)

LastTold ==
  ~failed /\ ~crossed => \A d \in Devices :
    heard[d] = <<>> \/ Last(d) = row \/ Promised(d)

Publisher(r) == At(r, "partners") \/ At(r, "fanout")

Single == ~crossed => \A r, s \in Reqs : Publisher(r) /\ Publisher(s) => r = s

Followed ==
  ~failed /\ ~crossed => \A r \in Reqs :
    Publisher(r) => req[r].env = row \/ \E s \in Reqs : At(s, "reread")

TellInv == TypeOK /\ Announced /\ LastTold /\ Single /\ Followed

\* A handler moves; the others stay.
LEMMA Moved ==
  ASSUME TypeOK, NEW r \in Reqs, NEW h \in Handler \cup {None}, req' = [req EXCEPT ![r] = h]
  PROVE  /\ req' \in [Reqs -> Handler \cup {None}]
         /\ req'[r] = h
         /\ \A s \in Reqs \ {r} : req'[s] = req[s]
  BY DEF TypeOK

\* The types when only the handlers change.
LEMMA TypeKept ==
  ASSUME TypeOK, req' \in [Reqs -> Handler \cup {None}],
         UNCHANGED <<row, last_seen, clock, heard, updates>>
  PROVE  TypeOK'
  BY Zenon DEF TypeOK

\* The next handler of a fan-out.
LEMMA PublishingType ==
  ASSUME TypeOK, NEW r \in Reqs, NEW env \in Profile, NEW todo \in SUBSET (Partners \cup {Me}),
         NEW out \in SUBSET Devices, Publishing(r, env, todo, out)
  PROVE  /\ req' \in [Reqs -> Handler \cup {None}]
         /\ \A s \in Reqs \ {r} : req'[s] = req[s]
         /\ \/ todo = {} /\ out = {} /\ req'[r] = None
            \/ /\ req'[r] # None /\ req'[r].pc = "fanout" /\ req'[r].env = env
               /\ req'[r].todo = todo /\ req'[r].out = out
<1> DEFINE f == [pc |-> "fanout", env |-> env, todo |-> todo, out |-> out]
<1>1. f \in Handler /\ f.pc = "fanout" /\ f.env = env /\ f.todo = todo /\ f.out = out
  BY DEF Handler
<1>2. f # None
  BY <1>1, NoneAssumption
<1>3. \/ todo = {} /\ out = {} /\ req' = [req EXCEPT ![r] = None]
      \/ req' = [req EXCEPT ![r] = f]
  BY ONLY Publishing(r, env, todo, out), Zenon DEF Publishing, GoTo
<1> HIDE DEF f
<1> QED
  BY <1>1, <1>2, <1>3, Moved, SMTT(20)

\* Where a handler is decides what it holds.
LEMMA HandlerFields ==
  ASSUME NEW h \in Handler
  PROVE  /\ h.pc \in {"write", "reread", "partners", "fanout"}
         /\ h.pc \in {"write", "reread"} => h.new \in Profile
         /\ h.pc = "write" => h.patch \in Patch /\ h.cur \in Profile
         /\ h.pc \in {"partners", "fanout"} => h.env \in Profile
         /\ h.pc = "fanout" => /\ h.todo \in SUBSET (Partners \cup {Me})
                               /\ h.out \in SUBSET Devices
  BY DEF Handler

\* A step of handler r that leaves the row, and takes no promise back.
LEMMA PromisesStay ==
  ASSUME NEW r \in Reqs, UNCHANGED row, \A s \in Reqs \ {r} : req'[s] = req[s]
  PROVE  /\ \A s \in Reqs \ {r}, d \in Devices : WillTell(s, d) => WillTell(s, d)'
         /\ \A s \in Reqs \ {r} : At(s, "reread") => At(s, "reread")'
         /\ \A s \in Reqs \ {r} : Publisher(s)' => Publisher(s) /\ req'[s] = req[s]
  BY DEF WillTell, At, Publisher

\* A handler that goes on to its next statement without publishing.
LEMMA QuietStep ==
  ASSUME TellInv, TypeOK', NEW r \in Reqs, UNCHANGED <<row, heard>>, failed' = failed,
         ~crossed' => ~crossed,
         \A s \in Reqs \ {r} : req'[s] = req[s],
         updates' = updates \/ \A d \in Devices : WillTell(r, d)',
         \A d \in Devices : WillTell(r, d) => WillTell(r, d)'
  PROVE  Announced' /\ LastTold'
<1>1. \A d \in Devices : Promised(d) => Promised(d)'
  BY PromisesStay DEF Promised
<1>2. Announced'
  BY <1>1 DEF TellInv, Announced, Promised
<1>3. LastTold'
  BY <1>1 DEF TellInv, LastTold, Last
<1> QED
  BY <1>2, <1>3

\* The handlers that publish, after a step that makes none of them another.
LEMMA PublishersStay ==
  ASSUME TellInv, NEW r \in Reqs, UNCHANGED row, ~crossed' => ~crossed,
         ~failed' => ~failed,
         \A s \in Reqs \ {r} : req'[s] = req[s],
         Publisher(r)' => Publisher(r) /\ req'[r].env = req[r].env,
         ~At(r, "reread")
  PROVE  Single' /\ Followed'
<1>1. \A s \in Reqs : Publisher(s)' => Publisher(s) /\ req'[s].env = req[s].env
  BY PromisesStay
<1>2. Single'
  BY <1>1 DEF TellInv, Single
<1>3. \A s \in Reqs : At(s, "reread") => At(s, "reread")'
  BY PromisesStay
<1>4. Followed'
  BY <1>1, <1>3 DEF TellInv, Followed
<1> QED
  BY <1>2, <1>4

\* The read, the write and the second read of an update.
LEMMA ReadTells ==
  ASSUME TellInv, NEW r \in Reqs, NEW patch \in Patch, ReadCurrent(r, patch)
  PROVE  TellInv'
<1> DEFINE h == [pc |-> "write", patch |-> patch, cur |-> row, seen |-> last_seen,
                 new |-> Merged(row, patch)]
<1>1. /\ req[r] = None /\ req' = [req EXCEPT ![r] = h] /\ updates' = updates + 1
      /\ UNCHANGED <<row, last_seen, clock, heard, crossed, failed>>
  BY DEF ReadCurrent, GoTo, table
<1>2. Merged(row, patch) \in Profile
  BY DEF Merged, Given, Profile, Patch, TellInv, TypeOK
<1>3. h \in Handler /\ h.pc = "write"
  BY <1>2 DEF Handler, TellInv, TypeOK
<1> HIDE DEF h
<1>4. h # None
  BY <1>3, NoneAssumption
<1>5. /\ req' \in [Reqs -> Handler \cup {None}] /\ req'[r] = h
      /\ \A s \in Reqs \ {r} : req'[s] = req[s]
  BY <1>1, <1>3, Moved, Zenon DEF TellInv
<1>6. TypeOK'
  BY <1>1, <1>5 DEF TellInv, TypeOK
<1>7. \A d \in Devices : WillTell(r, d)'
  BY <1>3, <1>4, <1>5 DEF WillTell
<1>8. Announced' /\ LastTold'
  BY <1>1, <1>5, <1>6, <1>7, QuietStep
<1>9. Single' /\ Followed'
  BY <1>1, <1>3, <1>5, PublishersStay DEF Publisher, At
<1> QED
  BY <1>6, <1>8, <1>9 DEF TellInv

LEMMA WriteTells ==
  ASSUME TellInv, NEW r \in Reqs, UpsertProfile(r)
  PROVE  TellInv'
<1> DEFINE h == [pc |-> "reread", new |-> req[r].new]
<1>1. /\ At(r, "write") /\ row' = req[r].new /\ last_seen' = last_seen
      /\ req' = [req EXCEPT ![r] = h]
      /\ UNCHANGED <<clock, heard, crossed, failed, updates>>
  BY DEF UpsertProfile, GoTo, LastSeenAfter
<1>2. req[r].new \in Profile
  BY <1>1, HandlerFields DEF At, TellInv, TypeOK
<1>3. h \in Handler /\ h.pc = "reread"
  BY <1>2 DEF Handler
<1> HIDE DEF h
<1>4. h # None
  BY <1>3, NoneAssumption
<1>5. /\ req' \in [Reqs -> Handler \cup {None}] /\ req'[r] = h
      /\ \A s \in Reqs \ {r} : req'[s] = req[s]
  BY <1>1, <1>3, Moved, Zenon DEF TellInv
<1>6. TypeOK'
  BY <1>1, <1>2, <1>5 DEF TellInv, TypeOK
<1>7. \A d \in Devices : Promised(d)'
  BY <1>3, <1>4, <1>5 DEF WillTell, Promised
<1>8. Announced' /\ LastTold'
  BY <1>7 DEF Announced, LastTold
<1>9. Single'
  BY <1>1, <1>3, <1>5 DEF TellInv, Single, Publisher, At
<1>10. Followed'
  BY <1>3, <1>4, <1>5 DEF Followed, At
<1> QED
  BY <1>6, <1>8, <1>9, <1>10 DEF TellInv

LEMMA RereadTells ==
  ASSUME TellInv, NEW r \in Reqs, Reread(r)
  PROVE  TellInv'
<1> DEFINE h == [pc |-> "partners", env |-> row]
<1>1. /\ At(r, "reread")
      /\ crossed' = (crossed \/ \E s \in Busy : At(s, "partners") \/ At(s, "fanout"))
      /\ req' = [req EXCEPT ![r] = h]
      /\ UNCHANGED <<row, last_seen, clock, heard, failed, updates>>
  BY DEF Reread, EventOf, GoTo, table
<1>2. h \in Handler /\ h.pc = "partners" /\ h.env = row
  BY DEF Handler, TellInv, TypeOK
<1> HIDE DEF h
<1>3. h # None
  BY <1>2, NoneAssumption
<1>4. /\ req' \in [Reqs -> Handler \cup {None}] /\ req'[r] = h
      /\ \A s \in Reqs \ {r} : req'[s] = req[s]
  BY <1>1, <1>2, Moved, Zenon DEF TellInv
<1>5. TypeOK'
  BY <1>1, <1>4 DEF TellInv, TypeOK
<1>6. \A d \in Devices : WillTell(r, d)'
  BY <1>1, <1>2, <1>3, <1>4 DEF WillTell
<1>7. ~crossed' => ~crossed
  BY <1>1, Zenon
<1>8. Announced' /\ LastTold'
  BY <1>1, <1>4, <1>5, <1>6, <1>7, QuietStep
<1>9. ~crossed' => \A s \in Reqs : Publisher(s)' => s = r
  BY <1>1, <1>4, Zenon DEF Publisher, At, Busy
<1>10. Single' /\ Followed'
  BY <1>1, <1>2, <1>4, <1>9 DEF Single, Followed
<1> QED
  BY <1>5, <1>8, <1>10 DEF TellInv

\* A query of the fan-out that answers.
LEMMA QueryTells ==
  ASSUME TellInv, NEW r \in Reqs,
         ListPartners(r) \/ \E a \in Partners \cup {Me} : ListDevices(r, a)
  PROVE  TellInv'
<1>1. /\ Publisher(r) /\ ~At(r, "reread") /\ req[r] \in Handler
      /\ UNCHANGED <<row, last_seen, clock, heard, crossed, failed, updates>>
  BY Zenon DEF ListPartners, ListDevices, Turn, Publisher, At, TellInv, TypeOK, table
<1>2. PICK env : env = req[r].env
  BY Zenon
<1>3. env \in Profile
  BY <1>1, <1>2, HandlerFields DEF Publisher, At
<1>4. PICK todo \in SUBSET (Partners \cup {Me}), out \in SUBSET Devices :
        /\ Publishing(r, env, todo, out)
        /\ \A d \in Devices : WillTell(r, d) =>
             env = row /\ (d \in out \/ \E a \in todo : d \in DevicesOf[a])
  <2>1. CASE ListPartners(r)
    <3>1. Publishing(r, env, Partners \cup {Me}, {})
      BY <1>2, <2>1 DEF ListPartners, Audience
    <3>2. \A d \in Devices : WillTell(r, d) =>
            env = row /\ \E a \in Partners \cup {Me} : d \in DevicesOf[a]
      BY <1>2, <2>1 DEF ListPartners, At, WillTell, Devices
    <3> QED
      BY <3>1, <3>2
  <2>2. ASSUME NEW a \in Partners \cup {Me}, ListDevices(r, a)
        PROVE  \E todo \in SUBSET (Partners \cup {Me}), out \in SUBSET Devices :
                 /\ Publishing(r, env, todo, out)
                 /\ \A d \in Devices : WillTell(r, d) =>
                      env = row /\ (d \in out \/ \E b \in todo : d \in DevicesOf[b])
    <3>1. /\ At(r, "fanout") /\ req[r].out = {} /\ a \in req[r].todo
          /\ Publishing(r, env, req[r].todo \ {a}, DevicesOf[a])
      BY <1>2, <2>2, SMTT(20) DEF ListDevices, Turn
    <3>2. req[r].todo \ {a} \in SUBSET (Partners \cup {Me}) /\ DevicesOf[a] \in SUBSET Devices
      BY <1>1, <3>1, HandlerFields, SMTT(20) DEF At, Devices
    <3>3. \A d \in Devices : WillTell(r, d) =>
            /\ env = row
            /\ d \in DevicesOf[a] \/ \E b \in req[r].todo \ {a} : d \in DevicesOf[b]
      BY <1>2, <3>1, SMTT(20) DEF At, WillTell
    <3> QED
      BY <3>1, <3>2, <3>3
  <2> QED
    BY <2>1, <2>2
<1>5. /\ req' \in [Reqs -> Handler \cup {None}]
      /\ \A s \in Reqs \ {r} : req'[s] = req[s]
      /\ \/ todo = {} /\ out = {} /\ req'[r] = None
         \/ /\ req'[r] # None /\ req'[r].pc = "fanout" /\ req'[r].env = env
            /\ req'[r].todo = todo /\ req'[r].out = out
  BY <1>3, <1>4, PublishingType, SMTT(20) DEF TellInv
<1>6. TypeOK'
  BY <1>1, <1>5, TypeKept, Zenon DEF TellInv
<1>7. \A d \in Devices : WillTell(r, d) => WillTell(r, d)'
  BY <1>1, <1>4, <1>5 DEF WillTell
<1>8. Announced' /\ LastTold'
  <2>1. UNCHANGED <<row, heard>> /\ failed' = failed /\ (~crossed' => ~crossed)
        /\ updates' = updates
    BY <1>1, Zenon
  <2>2. \A s \in Reqs \ {r} : req'[s] = req[s]
    BY <1>5, ZenonT(20)
  <2> QED
    BY <1>6, <1>7, <2>1, <2>2, QuietStep, Zenon
<1>9. Publisher(r)' => req'[r].env = req[r].env
  BY <1>2, <1>5 DEF Publisher, At
<1>10. Single' /\ Followed'
  BY <1>1, <1>5, <1>9, PublishersStay, Zenon
<1> QED
  BY <1>6, <1>8, <1>10 DEF TellInv

\* An event reaches a device.
LEMMA PublishTells ==
  ASSUME TellInv, NEW r \in Reqs, NEW d \in Devices, Publish(r, d)
  PROVE  TellInv'
<1>1. /\ At(r, "fanout") /\ d \in req[r].out /\ req[r] \in Handler
      /\ UNCHANGED <<row, last_seen, clock, crossed, failed, updates>>
  BY DEF Publish, At, TellInv, TypeOK, table
<1>2. PICK env, todo, out : env = req[r].env /\ todo = req[r].todo /\ out = req[r].out \ {d}
  BY Zenon
<1>3. env \in Profile /\ todo \in SUBSET (Partners \cup {Me}) /\ out \in SUBSET Devices
  BY <1>1, <1>2, HandlerFields DEF At
<1>4. heard' = [heard EXCEPT ![d] = Append(heard[d], env)]
  BY <1>2 DEF Publish
<1>4a. Publishing(r, env, todo, out)
  BY <1>2 DEF Publish
<1>5. /\ req' \in [Reqs -> Handler \cup {None}]
      /\ \A s \in Reqs \ {r} : req'[s] = req[s]
      /\ \/ todo = {} /\ out = {} /\ req'[r] = None
         \/ /\ req'[r] # None /\ req'[r].pc = "fanout" /\ req'[r].env = env
            /\ req'[r].todo = todo /\ req'[r].out = out
  BY <1>3, <1>4a, PublishingType DEF TellInv
<1>6. TypeOK'
  BY <1>1, <1>3, <1>4, <1>5 DEF TellInv, TypeOK
<1>7. \A e \in Devices \ {d} : heard'[e] = heard[e] /\ (Promised(e) => Promised(e)')
  <2>1. \A e \in Devices \ {d} : WillTell(r, e) => WillTell(r, e)'
    BY <1>1, <1>2, <1>5 DEF WillTell, At
  <2> QED
    BY <1>1, <1>4, <1>5, <2>1, PromisesStay, ZenonT(20) DEF Promised, TellInv, TypeOK
<1>8. /\ heard[d] \in Seq(Profile) /\ heard'[d] = Append(heard[d], env)
      /\ Last(d)' = env
      /\ \A i \in DOMAIN heard[d] : i \in DOMAIN heard'[d] /\ heard'[d][i] = heard[d][i]
      /\ \E i \in DOMAIN heard'[d] : heard'[d][i] = env
  <2>1. heard[d] \in Seq(Profile) /\ heard'[d] = Append(heard[d], env)
    BY <1>4 DEF TellInv, TypeOK
  <2>2. Len(heard'[d]) \in DOMAIN heard'[d] /\ heard'[d][Len(heard'[d])] = env
    BY <1>3, <2>1
  <2>3. \A i \in DOMAIN heard[d] : i \in DOMAIN heard'[d] /\ heard'[d][i] = heard[d][i]
    BY <1>3, <2>1
  <2> QED
    BY <2>1, <2>2, <2>3 DEF Last
<1>9. \A s \in Reqs : WillTell(s, d) /\ env # row => s # r /\ WillTell(s, d)'
  <2>1. ASSUME NEW s \in Reqs, WillTell(s, d), env # row, s = r PROVE FALSE
    BY <1>1, <1>2, <2>1 DEF WillTell, At
  <2>2. \A s \in Reqs \ {r} : WillTell(s, d) => WillTell(s, d)'
    BY <1>1, <1>5, PromisesStay, Zenon
  <2> QED
    BY <2>1, <2>2, Zenon
<1>10. Announced'
  <2>1. ~failed /\ updates > 0 =>
          (\E i \in DOMAIN heard[d] : heard[d][i] = row) \/ Promised(d)
    BY ZenonT(20) DEF TellInv, Announced
  <2>2. CASE env = row
    BY <1>1, <1>7, <1>8, <2>2, SMTT(20) DEF TellInv, Announced
  <2>3. CASE env # row
    <3>1. Promised(d) => Promised(d)'
      BY <1>9, <2>3, Zenon DEF Promised
    <3>2. ~failed /\ updates > 0 =>
            (\E i \in DOMAIN heard'[d] : heard'[d][i] = row) \/ Promised(d)'
      BY <1>8, <2>1, <3>1, Zenon
    <3> QED
      BY <1>1, <1>7, <3>2 DEF TellInv, Announced
  <2> QED
    BY <2>2, <2>3
<1>11. LastTold'
  <2>1. ~failed /\ ~crossed => env = row \/ Promised(d)'
    <3> SUFFICES ASSUME ~failed, ~crossed, env # row PROVE Promised(d)'
      OBVIOUS
    <3>1. PICK s \in Reqs : At(s, "reread")
      BY <1>1, <1>2, Zenon DEF TellInv, Followed, Publisher
    <3>2. WillTell(s, d)
      BY <3>1 DEF WillTell, At
    <3> QED
      BY <1>9, <3>2 DEF Promised
  <2> QED
    BY <1>1, <1>7, <1>8, <2>1, Zenon DEF TellInv, LastTold, Last
<1>12. Single' /\ Followed'
  <2>1. Publisher(r)' => Publisher(r) /\ req'[r].env = req[r].env
    BY <1>1, <1>2, <1>5 DEF Publisher, At
  <2>2. ~At(r, "reread")
    BY <1>1 DEF At
  <2> QED
    BY <1>1, <1>5, <2>1, <2>2, PublishersStay, Zenon
<1> QED
  BY <1>6, <1>10, <1>11, <1>12, ZenonT(20) DEF TellInv

\* What fails excuses the announcements, not who publishes.
LEMMA FaultTells ==
  ASSUME TellInv, NEW r \in Reqs, Fault(r)
  PROVE  TellInv'
<1>1. failed' = TRUE /\ UNCHANGED <<row, last_seen, clock, heard, crossed, updates>>
  BY Zenon DEF Fault, ListPartnersFails, ListDevicesFails, Abort, table
<1>2. /\ req' \in [Reqs -> Handler \cup {None}]
      /\ \A s \in Reqs \ {r} : req'[s] = req[s]
      /\ Publisher(r)' => Publisher(r)
  <2>1. CASE Abort(r)
    BY <2>1, Moved, Zenon DEF Abort, GoTo, Publisher, At, TellInv
  <2>2. ASSUME NEW todo \in SUBSET (Partners \cup {Me}), Publisher(r),
               Publishing(r, req[r].env, todo, {})
        PROVE  /\ req' \in [Reqs -> Handler \cup {None}]
               /\ \A s \in Reqs \ {r} : req'[s] = req[s]
    <3>1. PICK env : env = req[r].env
      BY Zenon
    <3>2. env \in Profile /\ {} \in SUBSET Devices
      BY <2>2, <3>1, HandlerFields DEF Publisher, At, TellInv, TypeOK
    <3> QED
      BY <2>2, <3>1, <3>2, PublishingType, ZenonT(20) DEF TellInv
  <2>3. CASE ListPartnersFails(r)
    BY <2>2, <2>3 DEF ListPartnersFails, Audience, Publisher
  <2>4. ASSUME NEW a \in Partners \cup {Me}, ListDevicesFails(r, a)
        PROVE  /\ req' \in [Reqs -> Handler \cup {None}]
               /\ \A s \in Reqs \ {r} : req'[s] = req[s]
               /\ Publisher(r)
    <3>1. /\ At(r, "fanout") /\ Publishing(r, req[r].env, req[r].todo \ {a}, {})
      BY <2>4, SMTT(20) DEF ListDevicesFails, Turn
    <3>2. req[r].todo \ {a} \in SUBSET (Partners \cup {Me})
      BY <3>1, HandlerFields DEF At, TellInv, TypeOK
    <3> QED
      BY <2>2, <3>1, <3>2, Zenon DEF Publisher
  <2> QED
    BY <2>1, <2>3, <2>4, Zenon DEF Fault, ListPartnersFails, Publisher
<1>3. TypeOK'
  BY <1>1, <1>2, TypeKept, Zenon DEF TellInv
<1>4. Single'
  BY <1>1, <1>2 DEF TellInv, Single, Publisher, At
<1> QED
  BY <1>1, <1>3, <1>4, Zenon DEF TellInv, Announced, LastTold, Followed

\* Every step keeps the promises.
LEMMA StepTells == TellInv /\ [Next]_vars => TellInv'
<1> SUFFICES ASSUME TellInv, [Next]_vars PROVE TellInv'
  OBVIOUS
<1>1. ASSUME UNCHANGED <<row, req, heard, crossed, failed, updates>>,
             last_seen' \in Nat, clock' \in Nat
      PROVE  TellInv'
  <2>1. TypeOK'
    BY <1>1 DEF TellInv, TypeOK
  <2>2. \A d \in Devices : Promised(d)' <=> Promised(d)
    BY <1>1 DEF Promised, WillTell
  <2>3. \A r \in Reqs : Publisher(r)' <=> Publisher(r)
    BY <1>1, SMTT(20) DEF Publisher, At
  <2>4. Announced' /\ LastTold'
    BY <1>1, <2>2 DEF TellInv, Announced, LastTold, Last
  <2>5. Single' /\ Followed'
    BY <1>1, <2>3 DEF TellInv, Single, Followed, At
  <2> QED
    BY <2>1, <2>4, <2>5 DEF TellInv
<1>2. CASE SetLastSeen
  BY <1>1, <1>2 DEF SetLastSeen, TellInv, TypeOK
<1>3. CASE UNCHANGED vars
  BY <1>1, <1>3 DEF vars, table, TellInv, TypeOK
<1> QED
  BY <1>2, <1>3, ReadTells, WriteTells, RereadTells, QueryTells, PublishTells, FaultTells
  DEF Next, Step

\* The promises hold from the first state on.
LEMMA TellInvariance == Spec => []TellInv
<1>1. Init => TellInv
  <2> SUFFICES ASSUME Init PROVE TellInv
    OBVIOUS
  <2>1. TypeOK
    BY DEF Init, TypeOK, Profile
  <2>2. \A r \in Reqs : ~Publisher(r)
    BY SMTT(20) DEF Init, Publisher, At
  <2> QED
    BY <2>1, <2>2 DEF Init, TellInv, Announced, LastTold, Single, Followed
<1> QED
  BY <1>1, StepTells, PTL DEF Spec

\* When all is quiet and nothing failed, every device of a partner and of
\* one's own was sent the profile as it is stored.
THEOREM ProfileIsAnnounced == Spec => []CurrentIsAnnounced
<1>1. TellInv => CurrentIsAnnounced
  BY DEF TellInv, Announced, Promised, WillTell, CurrentIsAnnounced, Busy
<1> QED
  BY <1>1, TellInvariance, PTL

\* And it is the last thing the device was sent, unless two updates were
\* publishing at once.
THEOREM LastEventIsTrue == Spec => []LastEventIsCurrent
<1>1. TellInv => LastEventIsCurrent
  BY DEF TellInv, LastTold, Last, Promised, WillTell, LastEventIsCurrent, Busy
<1> QED
  BY <1>1, TellInvariance, PTL
==============================================================================
