------------------------------ MODULE MemoryAuth -----------------------------
(***************************************************************************)
(* The handlers of module Sessions over MemoryAuthStore: three vectors,    *)
(* each behind its own mutex, and the export and import that carry them    *)
(* from one process to the next.                                           *)
(*                                                                         *)
(* An operation of the store is one critical section on one vector, so it  *)
(* is the same step as the SQL statement it stands in for.  export locks   *)
(* accounts, devices and sessions in this order and, the guards being      *)
(* temporaries of one expression, holds each until it has cloned the last; *)
(* an operation on a vector it holds waits.  import runs when the process  *)
(* starts, before there are handlers.  Nothing under src/ calls the two:   *)
(* when they run is external.                                              *)
(*                                                                         *)
(* What clients were answered (granted, spent, ended) survives a restart;  *)
(* the vectors may not reflect it any more.                                *)
(***************************************************************************)
EXTENDS Sessions

CONSTANTS
  MaxExports,  \* bound: snapshots taken
  MaxRestarts  \* bound: restarts

ASSUME MemoryAssumption == MaxExports \in Nat /\ MaxRestarts \in Nat

VARIABLES
  exporting,  \* what a running export has cloned so far, <<>> for none
  snapshot,   \* the last export; the empty store before the first
  reopened,   \* sessions whose logout a restart took back
  revived,    \* refresh tokens whose exchange a restart took back
  exports, restarts

process == <<exporting, snapshot, exports, restarts>>
undone == <<reopened, revived>>
memoryVars == <<vars, process, undone>>

\* The sessions as they are, with clones of the other two vectors, and the
\* logouts and exchanges they reflect.
Cloned(as, ds) ==
  [accounts |-> as, devices |-> ds, sessions |-> sessions,
   ended |-> ended \ reopened, spent |-> spent \ revived]

MemoryInit ==
  /\ Init
  /\ exporting = <<>>
  /\ reopened = {}
  /\ revived = {}
  /\ snapshot = Cloned(accounts, devices)
  /\ exports = 0
  /\ restarts = 0

\* Mutant: each guard is dropped when its vector is cloned.
HeldNone == {}

\* The vectors whose guard a running export holds.
Held == DOMAIN exporting

(***************************************************************************)
(* The operations of the store, each behind its vector's mutex             *)
(***************************************************************************)
OnAccounts(r) == \E u \in Usernames : RegisterAccount(r, u) \/ LoginLookup(r, u)

OnDevices(r) == (\E d \in DeviceIds : CreateDevice(r, d)) \/ ResolveAccount(r)

OnSessions(r) ==
  \/ \E s \in SessionIds : IssueSession(r, s)
  \/ \E k \in 1..MaxTokens : RefreshLookup(r, k) \/ LogoutLookup(r, k) \/ AuthedDevice(r, k)

\* A logout, or an exchange, that was taken back is answered again.
Answer(r) ==
  \/ Rotate(r) /\ revived' = revived \ {req[r].old} /\ UNCHANGED reopened
  \/ RevokeSession(r) /\ reopened' = reopened \ {req[r].sid} /\ UNCHANGED revived

Operation(r) ==
  /\ \/ 1 \notin Held /\ OnAccounts(r) /\ UNCHANGED undone
     \/ 2 \notin Held /\ OnDevices(r) /\ UNCHANGED undone
     \/ OnSessions(r) /\ UNCHANGED undone
     \/ Answer(r)
     \/ Abort(r) /\ UNCHANGED undone
  /\ UNCHANGED process

(***************************************************************************)
(* export and import                                                       *)
(***************************************************************************)
ExportAccounts ==
  /\ exporting = <<>>
  /\ exports < MaxExports
  /\ exports' = exports + 1
  /\ exporting' = <<accounts>>
  /\ UNCHANGED <<vars, undone, snapshot, restarts>>

ExportDevices ==
  /\ DOMAIN exporting = {1}
  /\ exporting' = <<exporting[1], devices>>
  /\ UNCHANGED <<vars, undone, snapshot, exports, restarts>>

\* The last clone; the three guards are dropped.
ExportSessions ==
  /\ DOMAIN exporting = {1, 2}
  /\ snapshot' = Cloned(exporting[1], exporting[2])
  /\ exporting' = <<>>
  /\ UNCHANGED <<vars, undone, exports, restarts>>

\* The process ends and the next one imports the last snapshot, which takes
\* back what was answered since.
Restart ==
  /\ restarts < MaxRestarts
  /\ restarts' = restarts + 1
  /\ accounts' = snapshot.accounts
  /\ devices' = snapshot.devices
  /\ sessions' = snapshot.sessions
  /\ reopened' = ended \ snapshot.ended
  /\ revived' = spent \ snapshot.spent
  /\ req' = [r \in Reqs |-> None]
  /\ exporting' = <<>>
  /\ UNCHANGED <<drawn, now, granted, spent, ended, snapshot, exports>>

MemoryNext ==
  \/ \E r \in Reqs : Operation(r)
  \/ Tick /\ UNCHANGED <<process, undone>>
  \/ ExportAccounts
  \/ ExportDevices
  \/ ExportSessions
  \/ Restart

MemorySpec == MemoryInit /\ [][MemoryNext]_memoryVars

(***************************************************************************)
(* Properties                                                              *)
(***************************************************************************)
(* A snapshot is whole although it is cloned vector by vector while        *)
(* handlers run: the device of each of its sessions, and the account of    *)
(* each of its devices, is in it.                                          *)
SnapshotIsWhole ==
  /\ \A d \in DeviceIds :
       snapshot.devices[d] # None => snapshot.devices[d] \in snapshot.accounts
  /\ \A s \in SessionIds :
       snapshot.sessions[s] # None => snapshot.devices[snapshot.sessions[s].device] # None

(* LogoutIsFinal from one process to the next: no token of a session whose *)
(* logout was answered opens it again, also after restarts and with        *)
(* refreshes in flight at the time of the export; except for a logout      *)
(* answered between the export and the restart that imports it, until it   *)
(* is answered again.                                                      *)
LogoutIsKept ==
  \A x \in granted : x[1] \in ended \ reopened =>
    LiveByAccess(x[2]) = {} /\ LiveByRefresh(x[2]) = {}

(* SpentIsDead from one process to the next: a refresh token that was      *)
(* exchanged is not accepted again, but for one exchanged between the      *)
(* export and the restart that imports it, until it is exchanged again.    *)
SpentIsKept == \A k \in spent \ revived : LiveByRefresh(k) = {}
==============================================================================
