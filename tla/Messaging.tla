------------------------------ MODULE Messaging ------------------------------
(***************************************************************************)
(* Sending, editing, deleting and hiding messages: the handlers of         *)
(* messaging.rs over the tables of db.rs, up to the publication of each    *)
(* event on the bus.                                                       *)
(*                                                                         *)
(* Every SQL statement is its own transaction and one step here; handlers  *)
(* of several requests interleave between them.  A handler's reads that    *)
(* precede its first write decide nothing the write does not re-check, so  *)
(* its first action is that write.  A call the WHERE clause turns away     *)
(* (404) changes nothing and is no action.                                 *)
(*                                                                         *)
(* The conversations and their members are given: dm_conversation answers  *)
(* with complete ones that never change (module DmConversations).          *)
(***************************************************************************)
EXTENDS Naturals, Sequences, FiniteSets

CONSTANTS
  Accounts, Devices, Convs, MsgIds, Texts, Reqs, None,
  Owner,      \* [Devices -> Accounts]: the device's account
  Members,    \* [Convs -> SUBSET Accounts]: one account (self-chat) or two
  Failures,   \* whether statements may fail and handlers be dropped
  MaxAtts,    \* bound: attachments of one message
  MaxCalls    \* bound: calls in a behaviour

ASSUME OwnerAssumption == Owner \in [Devices -> Accounts]
ASSUME MembersAssumption ==
  /\ Members \in [Convs -> SUBSET Accounts]
  /\ \A c \in Convs : \E a, b \in Accounts : Members[c] = {a, b}
ASSUME BoundsAssumption ==
  /\ Failures \in BOOLEAN
  /\ MaxAtts \in Nat
  /\ MaxCalls \in Nat

VARIABLES
  last_seq,   \* [Convs -> Nat], the counter of `conversations`
  messages,   \* [MsgIds -> a row or None]
  media,      \* the rows of `media`
  hidden,     \* the rows <<message, account>> of `hidden_messages`
  stream,     \* [Devices -> the envelopes published to it, in order]
  req,        \* [Reqs -> the state of the handler]
  calls       \* calls made so far

db == <<last_seq, messages, media, hidden>>
vars == <<db, stream, req, calls>>

Empty == ""   \* the ciphertext of a deleted row, and of an event without one

Row == [conv : Convs, seq : Nat, sender : Accounts, device : Devices,
        text : Texts \cup {Empty}, edited : BOOLEAN, deleted : BOOLEAN]

MediaRow == [msg : MsgIds, conv : Convs, seq : Nat, item : Nat]

Envelope == [type : {"message.new", "message.edited", "message.deleted"},
             conv : Convs, msg : MsgIds \cup {None}, seq : Nat,
             text : Texts \cup {Empty}]

Event(type, c, m, n, t) ==
  [type |-> type, conv |-> c, msg |-> m, seq |-> n, text |-> t]

\* A handler: the step it is at, the device that called, the event it is
\* preparing, the attachments left to index, the accounts left to notify
\* and the devices of the current one left to publish to.
Stages == {"insert", "index", "unindex", "members", "fanout"}

Handler == {h \in [pc : Stages, dev : Devices, env : Envelope, atts : Nat,
                   todo : Seq(Accounts), out : SUBSET Devices] :
              h.pc # "insert" => h.env.msg \in MsgIds}

ASSUME NoneAssumption ==
  /\ None \notin MsgIds
  /\ None \notin Row
  /\ None \notin Handler

Running(stage, d, e, n, todo, out) ==
  [pc |-> stage, dev |-> d, env |-> e, atts |-> n, todo |-> todo, out |-> out]

Stored == {m \in MsgIds : messages[m] # None}
DevicesOf(a) == {d \in Devices : Owner[d] = a}
Busy == {r \in Reqs : req[r] # None}
At(r, stage) == req[r] # None /\ req[r].pc = stage

Init ==
  /\ last_seq = [c \in Convs |-> 0]
  /\ messages = [m \in MsgIds |-> None]
  /\ media = {}
  /\ hidden = {}
  /\ stream = [d \in Devices |-> <<>>]
  /\ req = [r \in Reqs |-> None]
  /\ calls = 0

\* The request slot r takes a new call.
Start(r, handler) ==
  /\ req[r] = None
  /\ calls < MaxCalls
  /\ calls' = calls + 1
  /\ req' = [req EXCEPT ![r] = handler]

Goto(r, handler) ==
  /\ req' = [req EXCEPT ![r] = handler]
  /\ UNCHANGED calls

Done(r) == Goto(r, None)

(***************************************************************************)
(* POST /v0/messages                                                       *)
(***************************************************************************)
\* Mutant: COUNT(*) + 1, not the counter.
NextSeqCounted(c) == Cardinality({m \in Stored : messages[m].conv = c}) + 1

NextSeq(c) == last_seq[c] + 1

\* store_message, first statement: take the next seq of the conversation.
SendMessage(r, d, c, t, n) ==
  /\ Owner[d] \in Members[c]
  /\ last_seq' = [last_seq EXCEPT ![c] = @ + 1]
  /\ Start(r, Running("insert", d,
                      Event("message.new", c, None, NextSeq(c), t), n, <<>>, {}))
  /\ UNCHANGED <<messages, media, hidden, stream>>

\* The account at the other end; oneself in a self-chat.
Peer(c, me) == IF Members[c] = {me} THEN me ELSE CHOOSE a \in Members[c] : a # me

\* The peer first, then the sender's own devices; only these in a self-chat.
SendOrder(c, me) ==
  IF Peer(c, me) = me THEN <<me>> ELSE <<Peer(c, me), me>>

\* What follows the insert of the message, or of an attachment when n more
\* are left.
Proceed(r, d, e, n) ==
  Goto(r, IF n > 0 THEN Running("index", d, e, n, <<>>, {})
          ELSE Running("fanout", d, e, 0, SendOrder(e.conv, Owner[d]), {}))

\* Mutant: the event does not get the id of the row.
NamedNot(e, m) == e

\* The event about the row m that was just inserted.
Named(e, m) == Event(e.type, e.conv, m, e.seq, e.text)

\* store_message, second statement.  The UNIQUE (conversation_id, seq) of
\* the table is not built in: SeqNeverCollides shows it is never needed.
InsertMessage(r, m) ==
  LET h == req[r]
      e == h.env IN
  /\ At(r, "insert")
  /\ messages[m] = None
  /\ messages' = [messages EXCEPT ![m] =
       [conv |-> e.conv, seq |-> e.seq, sender |-> Owner[h.dev],
        device |-> h.dev, text |-> e.text, edited |-> FALSE, deleted |-> FALSE]]
  /\ Proceed(r, h.dev, Named(e, m), h.atts)
  /\ UNCHANGED <<last_seq, media, hidden, stream>>

\* record_media, once per attachment.
RecordMedia(r) ==
  LET h == req[r] IN
  /\ At(r, "index")
  /\ h.atts > 0
  /\ media' = media \cup {[msg |-> h.env.msg, conv |-> h.env.conv,
                           seq |-> h.env.seq, item |-> h.atts]}
  /\ Proceed(r, h.dev, h.env, h.atts - 1)
  /\ UNCHANGED <<last_seq, messages, hidden, stream>>

(***************************************************************************)
(* PATCH /v0/messages/{id} and DELETE /v0/messages/{id}                    *)
(***************************************************************************)
\* An UPDATE of `messages` sets these columns and keeps the others.
Rewritten(row, t, edited, deleted) ==
  [conv |-> row.conv, seq |-> row.seq, sender |-> row.sender,
   device |-> row.device, text |-> t, edited |-> edited, deleted |-> deleted]

\* Mutant: without AND deleted_at IS NULL.
EditableAlways(row, a) == row # None /\ row.sender = a

Editable(row, a) == row # None /\ row.sender = a /\ ~row.deleted

\* Mutant: without edited_at = now().
EditedUnstamped(row, t) == Rewritten(row, t, row.edited, FALSE)

Edited(row, t) == Rewritten(row, t, TRUE, FALSE)

EditMessage(r, d, m, t) ==
  LET row == messages[m] IN
  /\ Editable(row, Owner[d])
  /\ messages' = [messages EXCEPT ![m] = Edited(row, t)]
  /\ Start(r, Running("members", d,
                      Event("message.edited", row.conv, m, 0, t), 0, <<>>, {}))
  /\ UNCHANGED <<last_seq, media, hidden, stream>>

\* Mutant: DELETE FROM messages.
TombstoneNone(row) == None

\* The row keeps its seq and loses its ciphertext.
Tombstone(row) == Rewritten(row, Empty, row.edited, TRUE)

\* Delete for everyone, by any participant.
DeleteMessage(r, d, m) ==
  LET row == messages[m] IN
  /\ row # None
  /\ ~row.deleted
  /\ Owner[d] \in Members[row.conv]
  /\ messages' = [messages EXCEPT ![m] = Tombstone(row)]
  /\ Start(r, Running("unindex", d,
                      Event("message.deleted", row.conv, m, 0, Empty), 0, <<>>, {}))
  /\ UNCHANGED <<last_seq, media, hidden, stream>>

\* Mutant: the first attachment only.
UnindexedFirst(m) == {x \in media : x.msg # m \/ x.item > 1}

Unindexed(m) == {x \in media : x.msg # m}

\* db::delete_message, second statement.
UnindexMedia(r) ==
  LET h == req[r] IN
  /\ At(r, "unindex")
  /\ media' = Unindexed(h.env.msg)
  /\ Goto(r, Running("members", h.dev, h.env, 0, <<>>, {}))
  /\ UNCHANGED <<last_seq, messages, hidden, stream>>

\* Delete for me.  One statement, no event.
HideMessage(d, m) ==
  /\ messages[m] # None
  /\ calls < MaxCalls
  /\ calls' = calls + 1
  /\ hidden' = hidden \cup {<<m, Owner[d]>>}
  /\ UNCHANGED <<last_seq, messages, media, stream, req>>

(***************************************************************************)
(* deliver_to_conversation and deliver_to_account                          *)
(***************************************************************************)
\* The orders in which a SELECT without ORDER BY may return the one or two
\* members S of a conversation.
Orders(S) ==
  {s \in {<<a>> : a \in S} \cup (S \X S) :
     /\ \A a \in S : \E i \in DOMAIN s : s[i] = a
     /\ \A i, j \in DOMAIN s : s[i] = s[j] => i = j}

\* The fan-out goes on, or the handler responds when it is through.
Continue(r, todo, out) ==
  Goto(r, IF todo = <<>> /\ out = {} THEN None
          ELSE Running("fanout", req[r].dev, req[r].env, 0, todo, out))

ListMembers(r) ==
  /\ At(r, "members")
  /\ \E todo \in Orders(Members[req[r].env.conv]) : Continue(r, todo, {})
  /\ UNCHANGED <<db, stream>>

\* Mutant: the calling device is not skipped.
RecipientsAll(a, caller) == DevicesOf(a)

Recipients(a, caller) == DevicesOf(a) \ {caller}

\* The next account's devices, except the one that made the call.
ListDevices(r) ==
  LET h == req[r] IN
  /\ At(r, "fanout")
  /\ h.out = {}
  /\ h.todo # <<>>
  /\ Continue(r, Tail(h.todo), Recipients(Head(h.todo), h.dev))
  /\ UNCHANGED <<db, stream>>

Publish(r, d) ==
  LET h == req[r] IN
  /\ At(r, "fanout")
  /\ d \in h.out
  /\ stream' = [stream EXCEPT ![d] = Append(@, h.env)]
  /\ Continue(r, h.todo, h.out \ {d})
  /\ UNCHANGED db

(***************************************************************************)
(* Failures                                                                *)
(***************************************************************************)
\* The two fan-out queries ignore an error and skip what they would return.
ListMembersFails(r) ==
  /\ Failures
  /\ At(r, "members")
  /\ Done(r)
  /\ UNCHANGED <<db, stream>>

ListDevicesFails(r) ==
  /\ Failures
  /\ At(r, "fanout")
  /\ req[r].out = {}
  /\ req[r].todo # <<>>
  /\ Continue(r, Tail(req[r].todo), {})
  /\ UNCHANGED <<db, stream>>

\* Any other statement's error, a client that hangs up, or a crash.
Abort(r) ==
  /\ Failures
  /\ req[r] # None
  /\ Done(r)
  /\ UNCHANGED <<db, stream>>

Step(r) ==
  \/ \E m \in MsgIds : InsertMessage(r, m)
  \/ RecordMedia(r)
  \/ UnindexMedia(r)
  \/ ListMembers(r)
  \/ ListDevices(r)
  \/ \E d \in Devices : Publish(r, d)

Fault(r) == ListMembersFails(r) \/ ListDevicesFails(r) \/ Abort(r)

Call(r, d) ==
  \/ \E c \in Convs, t \in Texts, n \in 0..MaxAtts : SendMessage(r, d, c, t, n)
  \/ \E m \in MsgIds, t \in Texts : EditMessage(r, d, m, t)
  \/ \E m \in MsgIds : DeleteMessage(r, d, m)

Next ==
  \/ \E r \in Reqs : Step(r) \/ Fault(r) \/ \E d \in Devices : Call(r, d)
  \/ \E d \in Devices, m \in MsgIds : HideMessage(d, m)

\* The executor keeps polling a handler that can go on.
Spec == Init /\ [][Next]_vars /\ \A r \in Reqs : WF_vars(Step(r))

(***************************************************************************)
(* Properties                                                              *)
(***************************************************************************)
TypeOK ==
  /\ last_seq \in [Convs -> Nat]
  /\ messages \in [MsgIds -> Row \cup {None}]
  /\ media \subseteq MediaRow
  /\ hidden \subseteq MsgIds \X Accounts
  /\ stream \in [Devices -> Seq(Envelope)]
  /\ req \in [Reqs -> Handler \cup {None}]
  /\ calls \in 0..MaxCalls

\* The seqs of conversation c that are stored, and those taken by sends
\* between their two statements.
StoredSeqs(c) == {messages[m].seq : m \in {x \in Stored : messages[x].conv = c}}
Inserting(c) == {r \in Reqs : At(r, "insert") /\ req[r].env.conv = c}

(* Concurrent sends never meet on a seq: no two stored messages of a       *)
(* conversation share one, and a send between taking its seq and inserting *)
(* its row holds a seq nobody else has, so UNIQUE (conversation_id, seq)   *)
(* never turns the insert away.                                            *)
SeqNeverCollides ==
  \A c \in Convs :
    /\ \A m, n \in Stored :
         messages[m].conv = c /\ messages[n].conv = c /\ m # n
           => messages[m].seq # messages[n].seq
    /\ \A r \in Inserting(c) :
         /\ req[r].env.seq \notin StoredSeqs(c)
         /\ \A s \in Inserting(c) \ {r} : req[s].env.seq # req[r].env.seq

(* store_message: "concurrent sends get distinct, gap-free seqs"; the      *)
(* schema: "`seq` is gap-free per conversation".  Once no send is between  *)
(* its two statements the stored seqs are 1, 2, ..., last_seq, whatever    *)
(* was edited, deleted or hidden meanwhile.                                *)
GapFree ==
  \A c \in Convs : Inserting(c) = {} => StoredSeqs(c) = 1..last_seq[c]

(* A deleted message stays deleted and empty: no edit that races with the  *)
(* delete, before or after it, and no second delete changes the row again. *)
DeletedIsFinal ==
  [][\A m \in Stored : messages[m].deleted => messages'[m] = messages[m]]_vars

(* An event on a device's stream tells the truth about the tables, however *)
(* its handler ended: a message.new names a stored row and its seq, a      *)
(* message.edited an edited one, a message.deleted a deleted one, and the  *)
(* device belongs to a member of the conversation.                         *)
EventsAreBacked ==
  \A d \in Devices : \A i \in DOMAIN stream[d] :
    LET e == stream[d][i] IN
    /\ e.msg \in Stored
    /\ messages[e.msg].conv = e.conv
    /\ Owner[d] \in Members[e.conv]
    /\ e.type = "message.new" => e.seq = messages[e.msg].seq
    /\ e.type = "message.edited" => messages[e.msg].edited
    /\ e.type = "message.deleted" => messages[e.msg].deleted

\* Where on the stream of d an event of this type about m is.
Told(d, type, m) ==
  {i \in DOMAIN stream[d] : stream[d][i].type = type /\ stream[d][i].msg = m}

Audience(m) == {d \in Devices : Owner[d] \in Members[messages[m].conv]}

ToldOnce(d, type, m) == \E i \in Told(d, type, m) : Told(d, type, m) = {i}

(* When no handler is running and none has failed, every device of every   *)
(* member but the sending one has been told of each message exactly once,  *)
(* and of each deletion exactly once, but for the one device that asked.   *)
EveryoneIsTold ==
  Busy = {} =>
    \A m \in Stored :
      /\ \A d \in Audience(m) :
           IF d = messages[m].device THEN Told(d, "message.new", m) = {}
                                     ELSE ToldOnce(d, "message.new", m)
      /\ messages[m].deleted =>
           \E asker \in Audience(m) : \A d \in Audience(m) :
             IF d = asker THEN Told(d, "message.deleted", m) = {}
                          ELSE ToldOnce(d, "message.deleted", m)
==============================================================================
