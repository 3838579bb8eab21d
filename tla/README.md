# A TLA+ model of trust-server

trust-server is a messaging server: an axum process (HTTP and WebSocket) over
Postgres. Almost every handler is a chain of SQL statements with **no enclosing
transaction**, run by many tasks at once, and any chain may end in the middle: a
statement fails, the client hangs up and the handler's future is dropped, or the
process dies. What the server promises about conversations, messages, receipts,
presence and sessions has to hold across all those interleavings. This project
models them, checks them with TLC on small instances, and proves the central
promises for every size with TLAPS.

Paths below are relative to the repository root.

## 1. The system

| Part | State | Operations | What makes it hard |
|---|---|---|---|
| DM directory (`server/src/db.rs`, `dm_conversation`) | `conversations`, `conversation_members`, `dm_conversations` | look up, create row, add members, claim pair, re-read | two first uses race; a call dies half-way |
| Messages (`messaging.rs`, `db.rs`) | `conversations.last_seq`, `messages`, `media`, `hidden_messages` | send, edit, delete for everyone, delete for me, fan-out | seq taken and row inserted in two statements; attachments indexed after the message is visible; events published outside the statement |
| Receipts and history (`ws.rs`, `db.rs`, `messaging.rs`) | `delivered_markers`, `read_markers` | receipt frames, relay, history with status | high-water marks of several devices; a reply made of three reads; errors dropped |
| Presence (`presence.rs`, `ws.rs`) | two maps, each with its own mutex; `profiles.last_seen` | connect, disconnect, broadcast, persist last_seen | the maps are not updated together; broadcasts overtake each other; two sockets of a device |
| Auth (`auth.rs`, `storage/src/auth_repo.rs`) | `accounts`, `devices`, `sessions` | register, login, refresh, logout, authenticate | look-up and update are separate; rotation and revocation race |
| Auth in memory (`storage/src/auth_store.rs`) | the same in three vectors, each with its own mutex | the same, one critical section each; export, import | a snapshot cloned while handlers run |
| Bus (`realtime/src/lib.rs`) | one bounded broadcast channel per device | publish, subscribe, receive, lag | events lost without a subscriber, or when a receiver lags |
| Profiles (`profile.rs`) | `profiles` | read-modify-write, broadcast | lost update; the other writer of the row; events that overtake each other |
| Shared media (`media.rs`, `db.rs`) | `media` | cursor pages | attachments of an album share a seq; rows come and go between pages |
| Blobs, listings, router, errors, configuration | (rows only read or inserted once) | single queries | nothing concurrent |
| Commit sequencer (`crypto/src/lib.rs`) | none (pure) | `decide_commit` | correct only with an atomic update by the caller |
| Protocol types (`protocol/`) | none (pure) | capability and version negotiation | — |
| Start-up (`main.rs`) | migration loop beside the listener | retry until applied | requests before the schema exists |

The parts interact as follows. Every request passes *Auth*. Sending, history and
inbound frames ask the *DM directory* for the conversation, then work on its rows.
Messages, receipts, profiles and presence all end in `bus.publish` to devices;
*Presence* decides whom presence events go to, the `devices` table whom the others go
to. The *Bus* loses events, and the history is what a client falls back on (the
comment at `realtime/src/lib.rs:33` names a `GET /sync`, which does not exist).

## 2. Modules

| Module | Models |
|---|---|
| `DmDirectory` | abstract: pairs are bound once, to ids of their own; answers are the binding |
| `DmConversations` | `dm_conversation`, one action per statement |
| `Messaging` | `store_message`, `record_media`, `edit_message`, `delete_message`, `hide_message_for`, `deliver_to_conversation`, `deliver_to_account` |
| `Receipts` | extends `Messaging`: `handle_inbound`, `mark`, and the history handler |
| `Delivery` | extends `Messaging`: `InProcessBus`, the loop of `handle_socket`, the history a client reloads |
| `MediaPages` | extends `Messaging`: `list_media` beside the handlers that fill and prune the index |
| `Presence` | `Presence`, `handle_socket`, `broadcast_presence`, `set_last_seen` |
| `Profiles` | `update_profile` and `set_last_seen` on one row |
| `Sessions` | register, login, refresh, logout, `authed`, `authed_from_token` |
| `MemoryAuth` | extends `Sessions`: `MemoryAuthStore`, export and import |
| `Contacts_proof` | theorems about `DmConversations` and `Profiles` |
| `Messaging_proof`, `Events_proof` | theorems about `Messaging`: its rows and seqs; what its events say and whom they reach |
| `Transit_proof`, `Delivery_proof` | theorems about `Delivery`: what is on its way to a client (the invariant, the handlers, an event that arrives), then the connections, the history and the theorems |
| `Connections_proof` | theorems about `Sessions`, `MemoryAuth` and `Presence` |
| `Receipts_proof` | theorems about the markers and the history replies of `Receipts` |
| `Media_proof` | theorems about `MediaPages`: the index and the scans |
| `MC*` | TLC instances |

Conventions. **A SQL statement is one action**: each statement is its own
transaction under READ COMMITTED, and everything else may happen between two. The
one exception is `mark`, a single `INSERT .. SELECT MAX .. ON CONFLICT DO UPDATE`
which becomes two: its SELECT sees the snapshot of its start, its UPDATE the newest
row. Calls that are turned away (404, 409, 401) write nothing and are no action.
Request slots (`Reqs`, `Readers`, `Pagers`) hold a running handler's locals. `Failures`
switches failing statements, dropped handlers and restarts on or off, so that
failure-free promises can be checked too. Ids (`Uuid::new_v4`) and tokens are
values nobody drew before. Counters such as `calls`, `frames`, `reads`, `connects` and
`loads` count against the named bounds `Max...`; these are bounds of the instances, not
of the code. History variables, which no step looks at, remember what a property has to
except or to compare with; they are named below.

**DmConversations.** `LoHi` orders the pair; `Call`, `LookupHit`/`LookupMiss`,
`CreateConversation`, `AddMembers`, `ClaimPair` (ON CONFLICT DO NOTHING) and
`Reselect` are the function line by line; `AbortCall` ends it anywhere. `answered`
records what callers were told.

**Messaging.** A send is `SendMessage` (the counter), `InsertMessage`,
`RecordMedia` per attachment, then per account `ListDevices` and `Publish` per
device. An edit is one UPDATE and the fan-out, a delete an UPDATE, `UnindexMedia`
and the fan-out. `stream[d]` is what was published to a device. The fan-out of an
edit or delete takes the members in any order (no ORDER BY), that of a send the
peer first. The two fan-out queries swallow their errors (`ListMembersFails`,
`ListDevicesFails`); every other error ends the handler (`Abort`). The conversations
and members are constants here, which `DmConversations` justifies: the id a caller
gets is complete and never changes.

**Receipts.** A frame names the peer; it moves the markers `MarksOf` lists, each with
`MarkSelect` and `MarkUpsert` or `MarkFails`, then is relayed to the peer's devices.
Typing, reactions and call signalling are the same frame with no marker to move.
A history request is `HistoryReadSeq`, `HistoryDeliveredSeq`, `HistoryReply`.
`ReceiveFrame` assumes an honest client, which acknowledges a message that it has seen: the
server relays whatever `up_to_seq` a frame carries (`ws.rs:85`, `ws.rs:131`) and checks it
against nothing, so `StatusSurvivesReload`, which compares it with the marker, holds of such
clients only. The markers themselves do not depend on it.
History variables: `reported`, the best status an account was ever shown for a message;
the field `saved` of a frame, whether all its upserts went through so far; the field
`floor` of a request, what replies had shown when it began.

**Delivery.** A tokio broadcast receiver is a position (`next`) in the stream of its
device: `Subscribe` starts it at the tail, `Deliver` moves it on, `Lag` moves one that
is more than `Capacity` behind to the oldest event held, and the loop goes on. The
socket is announced before it subscribes (`Upgrade`, then `Subscribe`), so events in
between are lost. The client is not in the repository; it is modelled as one that
starts empty, merges history replies (`HistoryRead`, a SELECT; `HistoryMerge`, its
arrival) and events (`Shown`), and lets a deletion stand. History variables: `gaps`,
why a connection may have missed events; `loaded`, what it loaded after the last of
these; `raced`, messages edited while the event of another edit was on its way.

**MediaPages.** `ListMedia` is one SELECT of limit + 1 rows below the cursor, newest
first, rows of one seq in any order; `NextCursor` is the seq of the last row kept, if
there were more. History variables: in a scan `kept`, the rows indexed all the time since
it began, and `torn`, the albums a page boundary fell into; `overtaken`, the messages
unindexed while their send was still indexing; `abandoned`, the messages whose deletion ended
between its UPDATE and its DELETE (`HandleFails`).

**Presence.** `pc[s]` is where the task of socket `s` is. Each mutex-protected
section is an action. The instant of a disconnect is taken (`stamp`) before the
database is awaited. `heard[s][a]` is the last `presence.update` about `a` published
to the subscribed socket `s`. History variables: `overlapped`, the devices that connected
while an earlier socket of theirs was still in `connected`; `contended`, the accounts
whose state changed while their previous change was still being persisted or told.

**Profiles.** `ReadCurrent`, `UpsertProfile`, `Reread`, `ListPartners`, then `ListDevices`
and `Publish` per account and device; `SetLastSeen` is the other writer of the row.
`Merged` is "absent: unchanged; empty: cleared". History variables: `named`, what the last
update naming a field wrote; `clobbered`, an update wrote over a row that had changed since
it read it; `crossed`, two updates were publishing at once; `failed`.

**Sessions.** A token is a number that is drawn once; its hash is the number. The
rows are looked up and updated as in `auth_repo.rs`; `rotate_session` updates by id
whatever the row holds by then, and its expiry is computed before it. `granted` and
`spent` record which tokens were handed out and which refresh tokens were answered,
`ended` the sessions a logout was answered for.

**MemoryAuth.** Each operation of the store is the step of `Sessions` that stands for the
SQL statement, guarded by the mutex of its vector. `ExportAccounts`, `ExportDevices`,
`ExportSessions` hold each guard until the last vector is cloned (`Held`); `Restart`
imports the snapshot and ends all handlers. What clients were answered (`granted`, `spent`,
`ended`) survives it; history variables: `reopened` and `revived`, the logouts and the token
exchanges that a restart took back because they were answered after the export, until they are
answered again. Nothing under `src/` calls export and import,
so when they run is an assumption: import at start-up, export at any time.

## 3. What TLC checks

Bounds: two accounts with two or three devices are enough for "my other device", "the
peer" and races between two devices of one account; two or three concurrent handlers for
every pairwise race with a third party observing; two messages for order and collisions.
A channel of one event (256 in the server) lags as soon as two events are unread, and
a page limit of two splits albums of two. Model values that are only compared for
equality are permuted (`Symmetry`), except in the runs with a liveness property.

| Run (`.cfg`) | Instance | Result |
|---|---|---|
| `MCDmConversations` | 2 accounts (DM and two self-chats), 4 ids, 3 calls, aborts | `OneConversationPerPair`, `AnswersAreComplete`, refinement of `DmDirectory` hold (122,660 states) |
| `MCDelivery_clean` | 3 devices, 2 messages, DM and self-chat, 2 calls, 2 connects, no failures, no symmetry | `GapFree`, `EveryoneIsTold`, `MessageReachesClients` hold (100,717) |
| `MCDelivery_faults` | 2 devices, 1 message with 2 texts, 3 calls, a connection and a history load, failures and restarts | `EventsAreBacked`, `NothingIsMissing`, `ViewIsCurrent`, `DeletedIsFinal` hold (707,680) |
| `MCMediaPages` | self-chat, 2 messages with up to 2 attachments, 3 calls, limits 0, 2 and 3 cut down to 1 and 2, failures | `ScanMissesNothing`, `LeftoversAreExplained`, `ScanEnds` hold (346,602) |
| `MCReceipts_faults` | 2 concurrent sends, a frame of any of three kinds, failures | `SeqNeverCollides`, `MarkersPointAtMessages`, `StatusSurvivesReload` hold (246,645) |
| `MCReceipts_history` | self-chat, 2 calls, 2 `receipt.read` frames of two devices, 2 history requests | `MarkersNeverGoBack`, `HistoryNeverRegresses` hold (280,442) |
| `MCPresence` | 4 sockets (two of one device), 4 connects, restarts | `NoUnderflow`, `OpenIsOnline`, `OnlineCountsDevices`, `OpenIsConnected`, `LastWordIsTrue`, `LastSeenNeverGoesBack` hold (1,053,420) |
| `MCProfiles` | 2 fields, a partner, 2 concurrent updates of 3, a disconnect, failures | `NoFieldIsLost`, `LastSeenIsKept`, `CurrentIsAnnounced`, `LastEventIsCurrent` hold (230,934) |
| `MCMemoryAuth` | a username, 2 devices, 2 sessions, 2 handlers, 3 tokens, 2 exports, 2 restarts | `AuthFindsAccount`, `LogoutIsKept`, `SpentIsKept`, `TokenNamesOneSession`, `SnapshotIsWhole` hold (692,848) |

Until its first export and restart `MCMemoryAuth` is `Sessions` over Postgres, whose
statements are the same steps, so one run serves both backends: while nothing was taken back,
`LogoutIsKept` and `SpentIsKept` are `LogoutIsFinal` and `SpentIsDead` of `Sessions`. Those two
hold within one process and over Postgres (they are proved for `Sessions`) and not across a
restart: importing an older snapshot reopens a session that was logged out since, and makes a
refresh token good again that was exchanged since. `LogoutIsKept` and `SpentIsKept` say that a
restart takes back nothing else.
With two exports and two restarts there is a snapshot of a store that a restart had already set
back. Accounts do not interact in the session tables, so one username is enough: two registers
race for it.
`MCReceipts_history` is bob's self-chat, where the account whose receipts overtake each other is
also the one that asks for the history: with a second account the two devices, two frames and
two requests are beyond a run of a few minutes. The DM is in the other two runs of `Receipts`,
and `HistoryOnlyAdvances` is proved for any conversation and both kinds of receipt.
`MCDelivery_faults` sends no attachments: a failing `record_media` leaves a stored message
that nobody is told of, exactly as an `Abort` before the first publish does, and that
abort is in the run (a reload brings the message back, `NothingIsMissing`). Deadlock is not checked
where an instance runs out of calls and simply stops.

Fairness. `MessageReachesClients` assumes `WF(Handle(r))` of each handler and
`WF(Deliver(d) \/ Lag(d))` of each socket task: the tokio executor polls every task that
can go on, and without failures nothing a handler waits for can be withheld (a statement
waits only for row locks of single statements). `ScanEnds` assumes `WF(ListMedia(p))`, a
client that does follow its cursor, and nothing of the senders. No other fairness is
assumed of clients: they may stop sending, connecting or loading at any time.

Each property is also broken by at least one mutated definition, kept beside the
original and named in `PROJECT.json` (`mutants`): a dropped guard, a statement in the
wrong order, a missing `GREATEST`, an inclusive cursor, and so on.

### Where the code and its comments disagree

These runs end in a counterexample; each shows a behaviour of the code that a
comment of the repository denies.

| Run | Comment | Behaviour |
|---|---|---|
| `MCMediaPages_deleted` | delete "drops any shared-media index rows" (`db.rs:183`) | attachments indexed after the delete stay, in this run without any failure. The other way is a delete that ends between its two statements; `LeftoversAreExplained` shows that there is no third |
| `MCReceipts_read` | "how far the peer has read/received" (`messaging.rs:265`) | `mark` writes MAX(seq), not what the frame names |
| `MCPresence_duplicate` | "who is connected right now" (`presence.rs:1`) | two sockets of a device leave the account online for ever |

Other comments hold in part, and the properties say to what extent:

- Seqs are "gap-free" (`db.rs:99`) unless a send ends between its two statements;
  `GapFree` is checked and proved without failures.
- "Status survives history reloads" (`ws.rs:111`) unless an upsert fails, whose error
  is dropped (`saved` in `StatusSurvivesReload`).
- Refresh tokens are "single-use" (`auth.rs:210`) in that a spent one is dead
  (`SpentIsDead`, in one process), though two refreshes that looked it up before either rotated are
  both answered.
- "Tell everyone currently connected about a presence change" (`messaging.rs:54`): the
  last word is true unless an offline and an online event of one account are told at
  once and overtake each other (`contended` in `LastWordIsTrue`); the same overlap can
  write an older `last_seen` over a newer one.
- "Absent field → unchanged" (`profile.rs:77`) and "propagate the change"
  (`profile.rs:94`) hold unless updates overlap: the later write puts back what it read
  (`clobbered`), and the older event may come last (`crossed`).
- "`next_cursor` is Some iff more remain" (`db.rs:476`), but the cursor is a seq and
  jumps over the rest of an album that a page boundary falls into (`torn`).
- One deletes for everyone "only my own messages" (`messaging.rs:375`); the model follows
  `db.rs:182`, any participant.
- "Both backends satisfy this identically" (`auth_store.rs:14`), except that
  `list_accounts` answers in the order of insertion from memory and by username from
  Postgres (`auth_repo.rs:152`). The listing is not modelled.

## 4. What is proved

The proofs hold for every value of the constants under the named assumptions:
account ids are naturals (only their order matters), `None` is not an id, a number, a text, a
row, a reply, a scan or a handler, the text of a deleted message is none that is sent, `Owner` and `Device` are functions, a conversation has one or two members, the
set of sockets is finite, bounds are naturals. The bounds can be any size, so nothing
below depends on how many calls, frames, tokens or connections there are.

**Contacts_proof**, dm_conversation (`DmInvariance`, `DmTypeCorrect`, `DmAgreement`,
`DmCompleteness`, `DmRefinement`). The answers say nothing about the future, so they are not inductive.
The strengthening: an id between creation and claim belongs to one call only and no
pair (`Private`); by the claim it has both members (`Progress`); a mapped id is
complete and mapped once (`Bound`); undrawn ids have no members (`Fresh`); an answer
is the pair's mapping (`Answered`). ON CONFLICT DO NOTHING keeps `Bound`, the re-read
keeps `Answered`. In the refinement the claim that wins is `Bind`, the two
re-reads are `Answer`, all else stutters.

**Messaging_proof** (`TypeCorrect`, `SeqSafety`, `DeletionIsFinal`, `SeqsAreGapFree`).
`SeqNeverCollides` needs `Below`: all seqs stored or taken are at most `last_seq`, so the
seq a send takes is above all others; an insert moves a seq from the taken to the stored
and cannot meet another. Deletion is final because each of the three writers of a row is
guarded by it being absent or not deleted. Without failures every number up to
`last_seq` is stored or held by a send about to insert it (`Full`), and none is below
one (`Positive`), which gives `GapFree`. The theorems about the modules that extend
`Messaging` rest on three lemmas of this one: rows only grow (`RowsGrow`), a handler's step
writes nothing of another handler (`Away`), and only an insert stores a message
(`InsertStores`).

**Events_proof**, what is said (`EventsTellTheTruth`). An event is published several statements after
the one that made it true, so the invariant speaks of the handlers in between
(`Truthful`): what a handler is about to say is true already, and it says it to members
only. It stays true since rows only grow (`Grown`): none is removed, moves to another
conversation or seq, or stops being edited or deleted.

**Events_proof**, who is told (`NobodyIsLeftOut`, without failures). `EveryoneIsTold` speaks of states in
which no handler runs. In between, each device of the conversation was told exactly once,
or it called, or the one handler of that event still has it before it (`Due`: the device is
in the list at hand, or its account further down the queue of members), and then it was not
told yet (`Spread`). A statement makes everybody due, a publish takes one device from due
to told (`PlacesAppend`: it adds one place to one stream), and whatever order the members
come in, the queue reaches each once (`OrdersAreQueues`, `Onward`).

**Transit_proof** and **Delivery_proof** (`ReloadHeals`, `ViewStaysCurrent`). Both properties
speak of a client for which nothing is on its way, so neither is inductive: the invariant
(`DeliveryInv`) says what is on its way, and to what end. An event comes to a device
(`Coming`) if it is in the stream at or after the receiver's position, or a handler still owes
it (`Due`), or the device's own call is about to be answered by it.

- `Complete`, for `NothingIsMissing`: of a conversation that is `loaded`, each visible message
  is shown or comes; a reply that was read after the last gap lists it, or it comes. A
  handler that fails, an abort, a lag and a restart all void `loaded` and the replies under
  way (`Outdated`), which is what makes the promise survive them.
- `InStep`, for `ViewIsCurrent`: of a message whose edits did not race, either a correction to
  the stored text comes, or the view shows that text, or it shows nothing and nothing else is
  about to be shown (`Settling`). That alone is not kept by the delivery of an older event,
  so: an older edit that waits in the receiver is followed by a correction (`Followed`), and
  one that is yet to be published comes only where the message is deleted, and the deletion is
  shown or comes (`Harmless`, `Buried`). A deletion stands whatever comes after it.
- `Faithful`, `Beginning`: a view and a reply are of stored messages of one's own
  conversations, and before the subscription nothing is held that the connection could
  contradict.
- `SourceInv`: the invariant of `Events_proof`, and that only deletions are without a text.

The argument goes by who moves: a handler that prepares, publishes or fails
(`MovedClient`, `AnnouncedClient`, `BehindClient`), a statement (`InsertedClient`,
`EditedClient`, `DeletedClient`), the receiver (`DeliveredClient`, `LaggedClient`), the history
(`ReadingClient`, `MergedClient`), a connection or a restart (`UpgradedClient`,
`SubscribedClient`, `BlankClient`). The lemmas of the fan-out carry over, since a handler that
did not fail leaves nobody out.

**Receipts_proof**, markers (`MarkersAreStored`, `MarkersAdvance`, `RelayedIsStored`). `OnItsWay`
follows a frame from the socket to the relay: the maximum it took is a stored seq and at
least the one it names; once its markers are moved, so is the marker. That MAX(seq) is
a seq of the table is itself an invariant (`Topped`: an insert adds the only new seq, and
the greater of two numbers is one of them), and GREATEST makes every step keep or raise a
marker (`Forward`).

**Receipts_proof**, history (`ReceiptsTypeCorrect`, `HistoryOnlyAdvances`). A status that was
ever shown is behind a marker (`Shown`), and markers do not go back. A request reads its two markers after its floor
was fixed and in the order read, delivered; what it read is at least what the floor needs
and at most what the markers are by the reply (`Asked`).

**Media_proof** (`MediaInvariance`, `LeftoversHaveTwoCauses`, `ScansAreComplete`). Once no
delete is about to unindex it, a deleted message has no row in the index and no send that will
add one, unless it is excused: `overtaken` or `abandoned` (`Cleared`, `Excused`). A handler that
fails anywhere else leaves the index and that fact alone (`FailsIndexes`). For the scans: every row that was indexed all along and is at or
above the cursor was listed, or shares its seq with a row that a page boundary cut off
(`Passed`). A page is a prefix of the rows below the cursor in the order of their seqs, so
what it leaves out is below its last seq or shares it (`PageIsWhole`); that a page with
nothing left over was not cut needs the cardinality of finite sets.

**Connections_proof**, presence (`PresenceInvariance`, `PresenceTypeCorrect`, `CountNeverUnderflows`,
`ServedIsOnline`, `ServedIsConnected`, `CountIsExact`, `LastSeenIsMonotone`,
`LastWordStays`). `Covered`: an
account's count is at least the number of its tasks between increment and decrement. A
disconnect that finds its device gone leaves the set without decrementing, which is why
this is an inequality, and why the count may stay too high. For devices that are not in
`overlapped`, `Registry` (registered sockets and `connected` correspond one to one)
excludes that case; the count of an account without such a device is `Exact`, and in a
settled state the correspondence is a bijection between its counted sockets and its
connected devices. For `LastSeenIsMonotone`, an account that is not `contended` has one
telling task at most (`Alone`), whose instant is no earlier than the stored one (`Fresh`).
For `LastWordStays`, what an open socket was told is so, or a task of that account will
still tell it otherwise (`Corrected`), and such a task tells what is so (`Direction`).

**Contacts_proof**, profiles (`FieldsAreKept`, `UpdatesKeepLastSeen`, `ProfileIsAnnounced`,
`LastEventIsTrue`). A handler between its read and
its write is about to write the merge of its request into the row it read (`Pending`);
if the row is still that one, only the fields the request names change. As for the events,
a device was sent the row as it is, or a handler still will: one that has yet to read the
row again, or one that carries it and has not reached the device (`WillTell`). An older
event comes last only from a second publisher (`Single`) or from one whose row was
overwritten by an update that has yet to read it (`Followed`).

**Connections_proof**, sessions (`Invariance`, `TypeCorrect`, `AuthReachesAccount`, `TokensAreUnique`, `LogoutStays`,
`SpentStaysDead`). The invariant says where a token can be: a pair is drawn by one handler
and is in no row until that handler writes it (`Drawn`), then granted for one session, and
a row only holds a pair granted for it (`Handed`). `Chain` is the way from a token to an
account. `Standing(E, K)` says that the sessions `E` are revoked and the refresh tokens `K` are
in no row: a refresh that lost a race still writes a pair nobody has spent and never clears
`revoked_at`, so every step keeps it of the same sets (`AnswersStand`) and an exchange or a
logout adds its own (`ExchangeStands`, `LogoutStands`). With `E` and `K` all that was answered
(`AuthInv`) this gives `LogoutStays` and `SpentStaysDead`.

Of `MemoryAuth`: `MemoryInvariance`, `MemoryTypeCorrect`, `SnapshotsAreWhole`,
`RestartsKeepTokens`, `RestartsKeepLogouts`, `RestartsKeepExchanges`. While an export holds its
guards, what it cloned is what the vectors still are (`Cloning`), so the snapshot satisfies what
the invariant says of the tables (`Sound`), for the logouts and exchanges it reflects. A restart
keeps the record of all answers, and `Standing` holds again of those it did not take back,
`ended \ reopened` and `spent \ revived`.

Only model-checked: the liveness properties `MessageReachesClients` and `ScanEnds`, which
need fairness and ENABLED. Every invariant and action property that a passing run checks is
also proved. Those of `Messaging` are proved for its own specification, and the runs check them
in the modules that extend it, whose steps are its steps beside variables of their own; in the
same way `TypeOK`, `AuthFindsAccount` and `TokenNamesOneSession` are proved both for `Sessions`
and for `MemoryAuth`.

## 5. Not modelled

- Listings of conversations, users and profiles, and blobs: single queries on rows that
  other parts write, or rows inserted once and never changed.
- Router, error mapping, configuration, and start-up: until the migrations are applied
  every first statement fails and nothing is written, which the models have as a call
  that is not made.
- The commit sequencer (`decide_commit`) and the negotiation of capabilities and versions:
  pure functions that nothing under `src/` calls with shared state, a comparison each.
- The `signaling` crate, a placeholder without code.
- Password and token hashing appear as a guard and as fresh numbers; base64, JSON and time
  formats are left out. `reply_to` and the fields of an attachment are data no property
  tells apart.
- Postgres is assumed to make each statement atomic and durable; the pool's limit and
  statement timeouts show up only as failures.
