------------------------------- MODULE Receipts ------------------------------
(***************************************************************************)
(* Delivery and read receipts beside the message handlers: the frames a    *)
(* device sends over its WebSocket (ws::handle_inbound), the high-water    *)
(* markers they persist (db::mark) and the status the history handler      *)
(* derives from those markers.                                             *)
(*                                                                         *)
(* `mark` is one statement, INSERT .. SELECT MAX(seq) .. ON CONFLICT DO    *)
(* UPDATE.  At READ COMMITTED its SELECT sees the snapshot of its start,   *)
(* while the UPDATE waits for the row and sees its newest version: two     *)
(* steps here.                                                             *)
(***************************************************************************)
EXTENDS Messaging, FiniteSetsExt

CONSTANTS
  Readers,    \* history requests that may run at once
  Kinds,      \* the frame types in use
  MaxFrames,  \* bound: frames in a behaviour
  MaxReads    \* bound: history requests in a behaviour

ASSUME ReceiptsAssumption == MaxFrames \in Nat /\ MaxReads \in Nat

VARIABLES
  markers,    \* [Tables -> [Convs -> [Accounts -> Nat]]], 0 for no row
  inbound,    \* [Devices -> the frame its socket task is handling, or None]
  relayed,    \* [Devices -> the receipt events published to it]
  hist,       \* [Readers -> the history request, or None]
  reported,   \* [Accounts -> [MsgIds -> best status a history reply showed]]
  frames, reads

rvars == <<markers, inbound, relayed, hist, reported, frames, reads>>
allVars == <<vars, rvars>>

Tables == {"delivered_markers", "read_markers"}

\* The status strings of a reply, in order; 0: not in any reply.
Sent == 1
Delivered == 2
Read == 3

ReceiptsInit ==
  /\ Init
  /\ markers = [t \in Tables |-> [c \in Convs |-> [a \in Accounts |-> 0]]]
  /\ inbound = [d \in Devices |-> None]
  /\ relayed = [d \in Devices |-> {}]
  /\ hist = [h \in Readers |-> None]
  /\ reported = [a \in Accounts |-> [m \in MsgIds |-> 0]]
  /\ frames = 0
  /\ reads = 0

\* What account a can have seen: what it sent, what was published to one of
\* its devices, what a history reply listed.
Known(a) ==
  {m \in Stored :
     \/ messages[m].sender = a
     \/ reported[a][m] > 0
     \/ \E d \in DevicesOf(a) : Told(d, "message.new", m) # {}}

(***************************************************************************)
(* ws::handle_inbound                                                      *)
(***************************************************************************)
\* Mutants: a read receipt names no table, or only moves the delivered marker.
MarksOfMisspelt(kind) ==
  CASE kind = "receipt.delivered" -> <<"delivered_markers">>
    [] kind = "receipt.read" -> <<"delivered_markers", "read_marker">>
    [] OTHER -> <<>>

MarksOfDelivered(kind) ==
  IF kind \in {"receipt.delivered", "receipt.read"}
  THEN <<"delivered_markers">> ELSE <<>>

\* The markers a frame moves, in order.
MarksOf(kind) ==
  CASE kind = "receipt.delivered" -> <<"delivered_markers">>
    [] kind = "receipt.read" -> <<"delivered_markers", "read_markers">>
    [] OTHER -> <<>>

SetFrame(d, f) == inbound' = [inbound EXCEPT ![d] = f]

\* The frame f with these markers left to move, the first of them to max; and
\* when all are moved, with these devices left to relay it to.
Marking(f, marks, max, saved) ==
  [kind |-> f.kind, conv |-> f.conv, upTo |-> f.upTo,
   marks |-> marks, max |-> max, saved |-> saved, out |-> {}]

Relaying(f, out) ==
  [kind |-> f.kind, conv |-> f.conv, upTo |-> f.upTo,
   marks |-> <<>>, max |-> None, saved |-> f.saved, out |-> out]

\* A client acknowledges a message of the conversation that it has seen.
ReceiveFrame(d, kind, m) ==
  /\ inbound[d] = None
  /\ frames < MaxFrames
  /\ m \in Known(Owner[d])
  /\ Owner[d] \in Members[messages[m].conv]
  /\ frames' = frames + 1
  /\ SetFrame(d, [kind |-> kind, conv |-> messages[m].conv,
                  upTo |-> messages[m].seq, marks |-> MarksOf(kind),
                  max |-> None, saved |-> TRUE, out |-> {}])
  /\ UNCHANGED <<vars, markers, relayed, hist, reported, reads>>

\* Mutant: the conversation's counter in place of its rows.
MaxSeqCounter(c) == last_seq[c]

\* COALESCE(MAX(seq), 0) over the conversation's rows.
MaxSeq(c) == Max(StoredSeqs(c) \cup {0})

MarkSelect(d) ==
  LET f == inbound[d] IN
  /\ f # None
  /\ f.marks # <<>>
  /\ f.max = None
  /\ SetFrame(d, Marking(f, f.marks, MaxSeq(f.conv), f.saved))
  /\ UNCHANGED <<vars, markers, relayed, hist, reported, frames, reads>>

Greatest(x, y) == IF x >= y THEN x ELSE y

\* Mutant: DO UPDATE without GREATEST.
MarkUpsertOverwrites(d) ==
  LET f == inbound[d] IN
  /\ f # None
  /\ f.max # None
  /\ markers' = [markers EXCEPT ![Head(f.marks)][f.conv][Owner[d]] = f.max]
  /\ SetFrame(d, Marking(f, Tail(f.marks), None, f.saved))
  /\ UNCHANGED <<vars, relayed, hist, reported, frames, reads>>

MarkUpsert(d) ==
  LET f == inbound[d] IN
  /\ f # None
  /\ f.max # None
  /\ markers' = [markers EXCEPT ![Head(f.marks)][f.conv][Owner[d]] =
                   Greatest(@, f.max)]
  /\ SetFrame(d, Marking(f, Tail(f.marks), None, f.saved))
  /\ UNCHANGED <<vars, relayed, hist, reported, frames, reads>>

\* `let _ =`: an error of mark is dropped and the handler goes on.  That it
\* happened is kept in `saved`, which no other step looks at.
MarkFails(d) ==
  LET f == inbound[d] IN
  /\ Failures
  /\ f # None
  /\ f.marks # <<>>
  /\ SetFrame(d, Marking(f, Tail(f.marks), None, FALSE))
  /\ UNCHANGED <<vars, markers, relayed, hist, reported, frames, reads>>

\* Publish to the devices left, or be done with the frame.
RelayTo(d, f, out) ==
  SetFrame(d, IF out = {} THEN None ELSE Relaying(f, out))

\* deliver_to_account(target, env, None): no device is left out.
RelayList(d) ==
  LET f == inbound[d] IN
  /\ f # None
  /\ f.marks = <<>>
  /\ f.out = {}
  /\ RelayTo(d, f, DevicesOf(Peer(f.conv, Owner[d])))
  /\ UNCHANGED <<vars, markers, relayed, hist, reported, frames, reads>>

\* Only a read receipt carries upToSeq.
RelayPublish(d, e) ==
  LET f == inbound[d] IN
  /\ f # None
  /\ e \in f.out
  /\ relayed' = [relayed EXCEPT ![e] =
       @ \cup {[kind |-> f.kind, conv |-> f.conv, by |-> Owner[d], saved |-> f.saved,
                upTo |-> IF f.kind = "receipt.read" THEN f.upTo ELSE 0]}]
  /\ RelayTo(d, f, f.out \ {e})
  /\ UNCHANGED <<vars, markers, hist, reported, frames, reads>>

\* The device query of the relay fails, or the process dies.
FrameLost(d) ==
  /\ Failures
  /\ inbound[d] # None
  /\ SetFrame(d, None)
  /\ UNCHANGED <<vars, markers, relayed, hist, reported, frames, reads>>

(***************************************************************************)
(* GET /v0/messages?with=: three reads, then the reply.  One that fails on *)
(* the way writes nothing and shows nothing, as if it was never made.      *)
(***************************************************************************)
\* A request: the account, the conversation, the two markers read so far and
\* the floor, which is what replies that ended before it have shown.
Asking(me, c, floor, read, delivered) ==
  [me |-> me, conv |-> c, floor |-> floor, read |-> read, delivered |-> delivered]

HistoryReadSeq(h, me, c) ==
  /\ hist[h] = None
  /\ reads < MaxReads
  /\ me \in Members[c]
  /\ reads' = reads + 1
  /\ hist' = [hist EXCEPT ![h] =
       Asking(me, c, reported[me], markers["read_markers"][c][Peer(c, me)], None)]
  /\ UNCHANGED <<vars, markers, inbound, relayed, reported, frames>>

HistoryDeliveredSeq(h) ==
  LET q == hist[h] IN
  /\ q # None
  /\ q.delivered = None
  /\ hist' = [hist EXCEPT ![h] =
       Asking(q.me, q.conv, q.floor, q.read,
              markers["delivered_markers"][q.conv][Peer(q.conv, q.me)])]
  /\ UNCHANGED <<vars, markers, inbound, relayed, reported, frames, reads>>

\* The rows db::history selects for account me.
Visible(c, me) ==
  {m \in Stored : /\ messages[m].conv = c
                  /\ ~messages[m].deleted
                  /\ <<m, me>> \notin hidden}

\* Mutant: only the message the marker points at has its status.
StatusExact(q, m) ==
  IF messages[m].sender = q.me /\ q.read = messages[m].seq THEN Read
  ELSE IF messages[m].sender = q.me /\ q.delivered = messages[m].seq
       THEN Delivered
       ELSE Sent

Status(q, m) ==
  IF messages[m].sender = q.me /\ q.read >= messages[m].seq THEN Read
  ELSE IF messages[m].sender = q.me /\ q.delivered >= messages[m].seq
       THEN Delivered
       ELSE Sent

HistoryReply(h) ==
  LET q == hist[h] IN
  /\ q # None
  /\ q.delivered # None
  /\ reported' = [reported EXCEPT ![q.me] =
       [m \in MsgIds |-> IF m \in Visible(q.conv, q.me)
                         THEN Greatest(@[m], Status(q, m))
                         ELSE @[m]]]
  /\ hist' = [hist EXCEPT ![h] = None]
  /\ UNCHANGED <<vars, markers, inbound, relayed, frames, reads>>

FrameStep(d) ==
  \/ MarkSelect(d)
  \/ MarkUpsert(d)
  \/ RelayList(d)
  \/ \E e \in Devices : RelayPublish(d, e)

HistoryStep(h) ==
  \/ \E me \in Accounts, c \in Convs : HistoryReadSeq(h, me, c)
  \/ HistoryDeliveredSeq(h)
  \/ HistoryReply(h)

ReceiptsNext ==
  \/ Next /\ UNCHANGED rvars
  \/ \E d \in Devices :
       \/ \E kind \in Kinds, m \in MsgIds : ReceiveFrame(d, kind, m)
       \/ FrameStep(d)
       \/ MarkFails(d)
       \/ FrameLost(d)
  \/ \E h \in Readers : HistoryStep(h)

ReceiptsSpec == ReceiptsInit /\ [][ReceiptsNext]_allVars

(***************************************************************************)
(* Properties                                                              *)
(***************************************************************************)
Frame == [kind : Kinds, conv : Convs, upTo : Nat, marks : Seq(Tables),
          max : Nat \cup {None}, saved : BOOLEAN, out : SUBSET Devices]

Query == [me : Accounts, conv : Convs, floor : [MsgIds -> 0..Read],
          read : Nat, delivered : Nat \cup {None}]

ReceiptsTypeOK ==
  /\ markers \in [Tables -> [Convs -> [Accounts -> Nat]]]
  /\ inbound \in [Devices -> Frame \cup {None}]
  /\ relayed \in [Devices -> SUBSET [kind : Kinds, conv : Convs, by : Accounts,
                                     saved : BOOLEAN, upTo : Nat]]
  /\ hist \in [Readers -> Query \cup {None}]
  /\ reported \in [Accounts -> [MsgIds -> 0..Read]]
  /\ frames \in 0..MaxFrames
  /\ reads \in 0..MaxReads

(* A marker, and a maximum on its way into one, is the seq of a message    *)
(* that is stored: the markers never run ahead of the table, although the  *)
(* counter of the conversation does while a send is between its two        *)
(* statements.                                                             *)
MarkersPointAtMessages ==
  /\ \A t \in Tables, c \in Convs, a \in Accounts :
       markers[t][c][a] \in StoredSeqs(c) \cup {0}
  /\ \A d \in Devices : inbound[d] # None /\ inbound[d].max # None =>
       inbound[d].max \in StoredSeqs(inbound[d].conv) \cup {0}

(* `mark`: "Set the marker to the conversation's current max seq,          *)
(* monotonically."  Receipts of two devices of an account that overtake    *)
(* one another never move a marker back.                                   *)
MarkersNeverGoBack ==
  [][\A t \in Tables, c \in Convs, a \in Accounts :
       markers'[t][c][a] >= markers[t][c][a]]_allVars

(* A client that reloads the history never sees a message fall back from   *)
(* read or delivered to an earlier status, and never misses one it was     *)
(* shown before unless it was deleted or hidden, although a reply puts     *)
(* together three reads made at different times.                           *)
HistoryNeverRegresses ==
  [][\A h \in Readers, m \in MsgIds :
       LET q == hist[h] IN
       HistoryReply(h) /\ q.floor[m] > 0 /\ messages[m].conv = q.conv =>
         \/ messages[m].deleted
         \/ <<m, q.me>> \in hidden
         \/ m \in Visible(q.conv, q.me) /\ Status(q, m) >= q.floor[m]]_allVars

(* ws::handle_inbound: "Persist delivery/read progress so status survives  *)
(* history reloads."  Once a read receipt up to a seq is on a device's     *)
(* stream, the read marker behind the history has reached that seq, unless *)
(* storing it failed.                                                      *)
StatusSurvivesReload ==
  \A d \in Devices : \A e \in relayed[d] :
    e.kind = "receipt.read" /\ e.saved =>
      markers["read_markers"][e.conv][e.by] >= e.upTo

(* messaging::history: the status is "derived from how far the peer has    *)
(* read/received".  A message a reply showed as read has been sent to a    *)
(* device of the peer, or listed for it.                                   *)
ReadWasReceived ==
  \A a \in Accounts, m \in Stored :
    reported[a][m] = Read => m \in Known(Peer(messages[m].conv, a))
==============================================================================
