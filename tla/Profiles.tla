------------------------------- MODULE Profiles ------------------------------
(***************************************************************************)
(* The profile of one account: PUT /v0/profile from several devices at     *)
(* once (profile::update_profile), beside the last_seen that the socket    *)
(* tasks of the account write into the same row (db::set_last_seen).       *)
(*                                                                         *)
(* update_profile reads the row, merges the request into it, writes all    *)
(* three columns back, reads the row again and publishes what it then      *)
(* holds to the account's conversation partners and its own devices; there *)
(* is no transaction around it.  The username, which never changes, and    *)
(* the final read for the answer are left out.                             *)
(***************************************************************************)
EXTENDS Naturals, Sequences

CONSTANTS
  Fields,      \* display_name, bio, avatar_blob_id
  Values, Reqs, None,
  Absent,      \* the request does not have the field
  Blank,       \* it has an empty string, or an avatar that is no id
  Me,          \* the account
  Partners,    \* the other ends of its conversations that have a message
  DevicesOf,   \* [Partners \cup {Me} -> the devices of the account]
  Failures,    \* whether statements may fail and handlers be dropped
  MaxUpdates,  \* bound: updates in a behaviour
  MaxSeen      \* bound: disconnects in a behaviour

ASSUME ProfilesAssumption ==
  /\ Me \notin Partners
  /\ {None, Absent, Blank} \cap Values = {}
  /\ Failures \in BOOLEAN
  /\ MaxUpdates \in Nat /\ MaxSeen \in Nat

VARIABLES
  row,        \* [Fields -> value or None]; all None for no row
  last_seen,  \* the row's other column, 0 for NULL
  req,        \* [Reqs -> the state of the handler, or None]
  heard,      \* [devices -> the profile.update events published to it]
  clock,      \* the instant of the last disconnect
  named,      \* [Fields -> the value last written by an update that named it]
  clobbered,  \* an update wrote a row that changed after it had read it
  crossed,    \* two updates were publishing at once
  failed,     \* an update did not reach its end, or skipped someone
  updates     \* updates made so far

table == <<row, last_seen, clock, named, clobbered>>
vars == <<table, req, heard, crossed, failed, updates>>

Devices == UNION {DevicesOf[a] : a \in Partners \cup {Me}}

Profile == [Fields -> Values \cup {None}]
Patch == [Fields -> Values \cup {Absent, Blank}]

\* The handlers between two statements, with the locals they still need.
Handler ==
  [pc : {"write"}, patch : Patch, cur : Profile, seen : Nat, new : Profile]
    \cup [pc : {"reread"}, new : Profile]
    \cup [pc : {"partners"}, env : Profile]
    \cup [pc : {"fanout"}, env : Profile, todo : SUBSET (Partners \cup {Me}),
          out : SUBSET Devices]

ASSUME NoneAssumption == None \notin Handler

Busy == {r \in Reqs : req[r] # None}
At(r, stage) == req[r] # None /\ req[r].pc = stage
GoTo(r, handler) == req' = [req EXCEPT ![r] = handler]

Init ==
  /\ row = [f \in Fields |-> None]
  /\ last_seen = 0
  /\ req = [r \in Reqs |-> None]
  /\ heard = [d \in Devices |-> <<>>]
  /\ clock = 0
  /\ named = row
  /\ clobbered = FALSE
  /\ crossed = FALSE
  /\ failed = FALSE
  /\ updates = 0

(***************************************************************************)
(* update_profile                                                          *)
(***************************************************************************)
\* Mutant: an absent field is cleared.
MergedClears(cur, patch) ==
  [f \in Fields |-> IF patch[f] \in {Absent, Blank} THEN None ELSE patch[f]]

\* Absent field: unchanged; empty string: cleared.
Given(v) == IF v = Blank THEN None ELSE v
Merged(cur, patch) ==
  [f \in Fields |-> IF patch[f] = Absent THEN cur[f] ELSE Given(patch[f])]

ReadCurrent(r, patch) ==
  /\ req[r] = None
  /\ updates < MaxUpdates
  /\ updates' = updates + 1
  /\ GoTo(r, [pc |-> "write", patch |-> patch, cur |-> row, seen |-> last_seen,
              new |-> Merged(row, patch)])
  /\ UNCHANGED <<table, heard, crossed, failed>>

\* Mutant: the whole row is written back.
LastSeenAsRead(r) == req[r].seen

\* ON CONFLICT DO UPDATE leaves last_seen alone.
LastSeenAfter(r) == last_seen

UpsertProfile(r) ==
  LET h == req[r] IN
  /\ At(r, "write")
  /\ row' = h.new
  /\ last_seen' = LastSeenAfter(r)
  /\ named' = [f \in Fields |-> IF h.patch[f] = Absent THEN named[f] ELSE h.new[f]]
  /\ clobbered' = (clobbered \/ row # h.cur)
  /\ GoTo(r, [pc |-> "reread", new |-> h.new])
  /\ UNCHANGED <<clock, heard, crossed, failed, updates>>

\* Mutant: the merge of the request, not what the row holds by now.
EventAsMerged(r) == req[r].new

EventOf(r) == row

\* The second get_profile, from which the event is made.
Reread(r) ==
  /\ At(r, "reread")
  /\ crossed' = (crossed \/ \E s \in Busy : At(s, "partners") \/ At(s, "fanout"))
  /\ GoTo(r, [pc |-> "partners", env |-> EventOf(r)])
  /\ UNCHANGED <<table, heard, failed, updates>>

Publishing(r, env, todo, out) ==
  GoTo(r, IF todo = {} /\ out = {} THEN None
          ELSE [pc |-> "fanout", env |-> env, todo |-> todo, out |-> out])

\* Mutant: conversation partners only.
AudienceOthers(partners) == partners

Audience(partners) == partners \cup {Me}

\* conversations_for.
ListPartners(r) ==
  /\ At(r, "partners")
  /\ Publishing(r, req[r].env, Audience(Partners), {})
  /\ UNCHANGED <<table, heard, crossed, failed, updates>>

\* Newest conversation first, which may be any order; one's own account last.
Turn(r, a) ==
  /\ At(r, "fanout")
  /\ req[r].out = {}
  /\ a \in req[r].todo
  /\ a = Me => req[r].todo = {Me}

\* deliver_to_account(.., None): no device is left out.
ListDevices(r, a) ==
  /\ Turn(r, a)
  /\ Publishing(r, req[r].env, req[r].todo \ {a}, DevicesOf[a])
  /\ UNCHANGED <<table, heard, crossed, failed, updates>>

Publish(r, d) ==
  LET h == req[r] IN
  /\ At(r, "fanout")
  /\ d \in h.out
  /\ heard' = [heard EXCEPT ![d] = Append(@, h.env)]
  /\ Publishing(r, h.env, h.todo, h.out \ {d})
  /\ UNCHANGED <<table, crossed, failed, updates>>

(***************************************************************************)
(* Failures                                                                *)
(***************************************************************************)
\* `if let Ok`: without its conversations the account still tells itself.
ListPartnersFails(r) ==
  /\ Failures
  /\ At(r, "partners")
  /\ failed' = TRUE
  /\ Publishing(r, req[r].env, Audience({}), {})
  /\ UNCHANGED <<table, heard, crossed, updates>>

ListDevicesFails(r, a) ==
  /\ Failures
  /\ Turn(r, a)
  /\ failed' = TRUE
  /\ Publishing(r, req[r].env, req[r].todo \ {a}, {})
  /\ UNCHANGED <<table, heard, crossed, updates>>

\* Any other statement's error, a client that hangs up, or a crash.
Abort(r) ==
  /\ Failures
  /\ req[r] # None
  /\ failed' = TRUE
  /\ GoTo(r, None)
  /\ UNCHANGED <<table, heard, crossed, updates>>

\* A socket task of the account: INSERT .. ON CONFLICT DO UPDATE of one column.
SetLastSeen ==
  /\ clock < MaxSeen
  /\ clock' = clock + 1
  /\ last_seen' = clock + 1
  /\ UNCHANGED <<row, req, heard, named, clobbered, crossed, failed, updates>>

Step(r) ==
  \/ UpsertProfile(r)
  \/ Reread(r)
  \/ ListPartners(r)
  \/ \E a \in Partners \cup {Me} : ListDevices(r, a)
  \/ \E d \in Devices : Publish(r, d)

Fault(r) ==
  \/ ListPartnersFails(r)
  \/ \E a \in Partners \cup {Me} : ListDevicesFails(r, a)
  \/ Abort(r)

Next ==
  \/ SetLastSeen
  \/ \E r \in Reqs :
       \/ Step(r)
       \/ Fault(r)
       \/ \E patch \in Patch : ReadCurrent(r, patch)

Spec == Init /\ [][Next]_vars

(***************************************************************************)
(* Properties                                                              *)
(***************************************************************************)
(* "Absent field -> unchanged; empty string -> cleared": every field holds *)
(* what the last update that named it wrote, whatever updates of other     *)
(* fields and disconnects followed, as long as no update wrote over a row  *)
(* that had changed since it read it.                                      *)
NoFieldIsLost == ~clobbered => row = named

(* A profile update never takes back the last_seen of a disconnect that    *)
(* came between its read and its write, nor sets it for an account that    *)
(* has none: the two writers of a row keep to their columns.               *)
LastSeenIsKept == last_seen = clock

(* "Propagate the change in real time to conversation partners + my own    *)
(* devices": when no update is running and none failed, the profile as it  *)
(* is stored has been published to every device of a partner and of one's  *)
(* own, however many updates overlapped.                                   *)
CurrentIsAnnounced ==
  Busy = {} /\ ~failed /\ updates > 0 =>
    \A d \in Devices : \E i \in DOMAIN heard[d] : heard[d][i] = row

(* The last event a device was sent is the profile as it is stored, unless *)
(* two updates were publishing at once and the older event came last.      *)
LastEventIsCurrent ==
  Busy = {} /\ ~failed /\ ~crossed =>
    \A d \in Devices : heard[d] # <<>> => heard[d][Len(heard[d])] = row
==============================================================================
