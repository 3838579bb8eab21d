------------------------------- MODULE Presence ------------------------------
(***************************************************************************)
(* Who is connected: the two maps of presence.rs, each behind its own      *)
(* mutex, driven by one task per WebSocket (ws::handle_socket), the        *)
(* presence.update broadcast (messaging::broadcast_presence) and the       *)
(* durable last_seen of the profile.                                       *)
(*                                                                         *)
(* A socket task runs: insert into `connected`; count in `online`; if the  *)
(* account came online, snapshot the connected devices and publish to each *)
(* of them; subscribe; serve; and on disconnect: remove from `connected`;  *)
(* uncount; if the account went offline, take the time, persist it, and    *)
(* broadcast.  Tasks interleave between any two of these.                  *)
(***************************************************************************)
EXTENDS Naturals, FiniteSets

CONSTANTS
  Accounts, Devices, Sockets, Unknown,
  Owner,        \* [Devices -> Accounts]
  Device,       \* [Sockets -> Devices]: the device that opens the socket
  Failures,     \* whether the process may restart and last_seen fail
  MaxConnects   \* bound: connections in a behaviour

ASSUME PresenceAssumption ==
  /\ Owner \in [Devices -> Accounts]
  /\ Device \in [Sockets -> Devices]
  /\ IsFiniteSet(Sockets)
  /\ Failures \in BOOLEAN
  /\ MaxConnects \in Nat

VARIABLES
  connected,  \* keys of `connected`; a device's account never changes
  online,     \* [Accounts -> Nat], 0 for no entry in `online`
  last_seen,  \* [Accounts -> the instant in `profiles`], 0 for none
  pc,         \* [Sockets -> where its task is]
  todo,       \* [Sockets -> devices its broadcast has still to reach]
  stamp,      \* [Sockets -> the `now` its task took when it went offline]
  heard,      \* [Sockets -> [Accounts -> last presence.update sent to it]]
  clock,      \* the last instant taken
  overlapped, \* devices that had two sockets registered at once
  contended,  \* accounts that changed while an earlier change was being told
  connects    \* connections made so far

presenceVars ==
  <<connected, online, last_seen, pc, todo, stamp, heard, clock, overlapped,
    contended, connects>>

Stages == {"closed", "count", "online", "tellOnline", "subscribe", "open",
           "uncount", "persist", "offline", "tellOffline"}

Account(s) == Owner[Device[s]]

\* The stages in which the task's device has been inserted and not yet
\* removed, and in which its account counts it.
Inserted == {"count", "online", "tellOnline", "subscribe", "open"}
Counted == {"online", "tellOnline", "subscribe", "open", "uncount"}

\* The stages from a change of is_online to the end of its broadcast.
Telling == {"online", "tellOnline", "persist", "offline", "tellOffline"}

Nothing == [a \in Accounts |-> Unknown]

PresenceInit ==
  /\ connected = {}
  /\ online = [a \in Accounts |-> 0]
  /\ last_seen = [a \in Accounts |-> 0]
  /\ pc = [s \in Sockets |-> "closed"]
  /\ todo = [s \in Sockets |-> {}]
  /\ stamp = [s \in Sockets |-> 0]
  /\ heard = [s \in Sockets |-> Nothing]
  /\ clock = 0
  /\ overlapped = {}
  /\ contended = {}
  /\ connects = 0

Reach(s, stage) == pc' = [pc EXCEPT ![s] = stage]

\* is_online of the task's account changes.
Changes(s) ==
  contended' = contended \cup
    {Account(o) : o \in {x \in Sockets : Account(x) = Account(s) /\ pc[x] \in Telling}}

(***************************************************************************)
(* Presence::on_connect and the broadcast that may follow it               *)
(***************************************************************************)
ConnectInsert(s) ==
  /\ pc[s] = "closed"
  /\ connects < MaxConnects
  /\ connects' = connects + 1
  /\ overlapped' = overlapped \cup
       {Device[o] : o \in {x \in Sockets : Device[x] = Device[s] /\ pc[x] \in Inserted}}
  /\ connected' = connected \cup {Device[s]}
  /\ Reach(s, "count")
  /\ UNCHANGED <<online, last_seen, todo, stamp, heard, clock, contended>>

\* Mutant: the count is set, not incremented.
CountUpOnce(n) == 1

CountUp(n) == n + 1

ConnectCount(s) ==
  LET n == online[Account(s)] IN
  /\ pc[s] = "count"
  /\ online' = [online EXCEPT ![Account(s)] = CountUp(n)]
  /\ IF n = 0
     THEN Reach(s, "online") /\ Changes(s)
     ELSE Reach(s, "subscribe") /\ UNCHANGED contended
  /\ UNCHANGED <<connected, last_seen, todo, stamp, heard, clock, overlapped, connects>>

\* broadcast_presence: the devices connected at this moment.
Snapshot(s) ==
  /\ pc[s] \in {"online", "offline"}
  /\ todo' = [todo EXCEPT ![s] = connected]
  /\ Reach(s, IF pc[s] = "online" THEN "tellOnline" ELSE "tellOffline")
  /\ UNCHANGED <<connected, online, last_seen, stamp, heard, clock, overlapped, contended, connects>>

\* bus.publish: a no-op unless a socket of the device has subscribed.
Tell(s, d) ==
  /\ pc[s] \in {"tellOnline", "tellOffline"}
  /\ d \in todo[s]
  /\ todo' = [todo EXCEPT ![s] = @ \ {d}]
  /\ heard' = [o \in Sockets |->
                 IF Device[o] = d /\ pc[o] = "open"
                 THEN [heard[o] EXCEPT ![Account(s)] = pc[s] = "tellOnline"]
                 ELSE heard[o]]
  /\ UNCHANGED <<connected, online, last_seen, pc, stamp, clock, overlapped, contended, connects>>

\* The end of a broadcast: go on to subscribe, or the task is over.
Told(s) ==
  /\ pc[s] \in {"tellOnline", "tellOffline"}
  /\ todo[s] = {}
  /\ Reach(s, IF pc[s] = "tellOnline" THEN "subscribe" ELSE "closed")
  /\ UNCHANGED <<connected, online, last_seen, todo, stamp, heard, clock, overlapped, contended, connects>>

Subscribe(s) ==
  /\ pc[s] = "subscribe"
  /\ Reach(s, "open")
  /\ UNCHANGED <<connected, online, last_seen, todo, stamp, heard, clock, overlapped, contended, connects>>

(***************************************************************************)
(* Presence::on_disconnect and what follows it                             *)
(***************************************************************************)
\* Mutants: the entry stays; all of the account's devices go.
WithoutNone(d) == connected
WithoutAccount(d) == {e \in connected : Owner[e] # Owner[d]}

Without(d) == connected \ {d}

\* Nothing to do when another socket of the device was removed before.
DisconnectRemove(s) ==
  /\ pc[s] = "open"
  /\ connected' = Without(Device[s])
  /\ heard' = [heard EXCEPT ![s] = Nothing]
  /\ Reach(s, IF Device[s] \in connected THEN "uncount" ELSE "closed")
  /\ UNCHANGED <<online, last_seen, todo, stamp, clock, overlapped, contended, connects>>

\* Mutant: the entry is removed whatever it counts.
CountDownToZero(n) == 0

CountDown(n) == IF n = 0 THEN 0 ELSE n - 1

\* Mutant: only an account without an entry goes offline.
WentOfflineUncounted(n) == n = 0

\* None => true, Some(1) => true, Some(n) => false.
WentOffline(n) == n <= 1

\* The task that went offline reads the clock before it awaits the database.
Uncount(s) ==
  LET n == online[Account(s)] IN
  /\ pc[s] = "uncount"
  /\ online' = [online EXCEPT ![Account(s)] = CountDown(n)]
  /\ IF WentOffline(n)
     THEN /\ clock' = clock + 1
          /\ stamp' = [stamp EXCEPT ![s] = clock + 1]
          /\ Reach(s, "persist")
          /\ Changes(s)
     ELSE /\ Reach(s, "closed")
          /\ UNCHANGED <<clock, stamp, contended>>
  /\ UNCHANGED <<connected, last_seen, todo, heard, overlapped, connects>>

\* Mutants: NULL is written for the instant, or its time of day alone.
InstantNull(s) == Unknown
InstantTimeOfDay(s) == stamp[s] % 2

Instant(s) == stamp[s]

SetLastSeen(s) ==
  /\ pc[s] = "persist"
  /\ last_seen' = [last_seen EXCEPT ![Account(s)] = Instant(s)]
  /\ Reach(s, "offline")
  /\ UNCHANGED <<connected, online, todo, stamp, heard, clock, overlapped, contended, connects>>

(***************************************************************************)
(* Failures                                                                *)
(***************************************************************************)
\* `let _ =`: an error of set_last_seen is dropped.
SetLastSeenFails(s) ==
  /\ Failures
  /\ pc[s] = "persist"
  /\ Reach(s, "offline")
  /\ UNCHANGED <<connected, online, last_seen, todo, stamp, heard, clock, overlapped, contended, connects>>

\* A new process starts with empty maps and no sockets.
NewProcess ==
  /\ Failures
  /\ connected' = {}
  /\ online' = [a \in Accounts |-> 0]
  /\ pc' = [s \in Sockets |-> "closed"]
  /\ todo' = [s \in Sockets |-> {}]
  /\ heard' = [s \in Sockets |-> Nothing]
  /\ overlapped' = {}
  /\ contended' = {}
  /\ UNCHANGED <<last_seen, stamp, clock, connects>>

TaskStep(s) ==
  \/ ConnectCount(s)
  \/ Snapshot(s)
  \/ \E d \in Devices : Tell(s, d)
  \/ Told(s)
  \/ Subscribe(s)
  \/ Uncount(s)
  \/ SetLastSeen(s)

PresenceNext ==
  \/ \E s \in Sockets :
       ConnectInsert(s) \/ TaskStep(s) \/ DisconnectRemove(s) \/ SetLastSeenFails(s)
  \/ NewProcess

PresenceSpec == PresenceInit /\ [][PresenceNext]_presenceVars

(***************************************************************************)
(* Properties                                                              *)
(***************************************************************************)
PresenceTypeOK ==
  /\ connected \subseteq Devices
  /\ online \in [Accounts -> Nat]
  /\ last_seen \in [Accounts -> Nat]
  /\ pc \in [Sockets -> Stages]
  /\ todo \in [Sockets -> SUBSET Devices]
  /\ stamp \in [Sockets -> Nat]
  /\ heard \in [Sockets -> [Accounts -> BOOLEAN \cup {Unknown}]]
  /\ clock \in Nat
  /\ overlapped \subseteq Devices
  /\ contended \subseteq Accounts
  /\ connects \in 0..MaxConnects

CountedSockets(a) == {s \in Sockets : Account(s) = a /\ pc[s] \in Counted}
Settled == \A s \in Sockets : pc[s] \in {"closed", "open"}

(* Presence::on_disconnect never finds its account without a count: the    *)
(* count covers every task between its increment and its decrement, so the *)
(* usize never underflows and the `None => true` arm is never taken, even  *)
(* when a device has several sockets.                                      *)
NoUnderflow ==
  \A s \in Sockets : pc[s] = "uncount" => online[Account(s)] >= 1

(* An account with an open socket is online, whatever its other sockets    *)
(* are doing: a disconnect of an old socket that races with a reconnect    *)
(* never makes is_online answer no for someone who is being served.        *)
OpenIsOnline ==
  \A s \in Sockets : pc[s] = "open" => online[Account(s)] >= 1

(* `online` is "account -> connected device count": when no task is on its *)
(* way in or out, it counts the devices of the account in `connected`, for *)
(* an account none of whose devices had two sockets at once.               *)
OnlineCountsDevices ==
  Settled => \A a \in Accounts :
    (\A d \in overlapped : Owner[d] # a) =>
      online[a] = Cardinality({d \in connected : Owner[d] = a})

(* A device that reconnects is still addressed by broadcasts: a device     *)
(* with an open socket is in `connected`, although the disconnect of its   *)
(* previous socket removes it by device id, provided it reconnected after  *)
(* that removal.                                                           *)
OpenIsConnected ==
  \A s \in Sockets :
    pc[s] = "open" /\ Device[s] \notin overlapped => Device[s] \in connected

(* `online` and `connected` are "runtime state (who is connected right     *)
(* now)": when no task is on its way in or out, an account that is_online  *)
(* reports has a socket that is being served.                              *)
OnlineIsServed ==
  Settled => \A a \in Accounts : online[a] >= 1 =>
    \E s \in Sockets : Account(s) = a /\ pc[s] = "open"

(* broadcast_presence: "Tell everyone currently connected about a presence *)
(* change."  When no task is on its way in or out, the last word an open   *)
(* socket was told about an account is what is_online answers, unless the  *)
(* account went offline or came back while its previous change was still   *)
(* being told, or the observing device had two sockets at once.            *)
LastWordIsTrue ==
  Settled => \A s \in Sockets, a \in Accounts :
    heard[s][a] # Unknown /\ a \notin contended /\ Device[s] \notin overlapped =>
      heard[s][a] = (online[a] >= 1)

(* The last_seen of an account never goes back to an earlier disconnect:   *)
(* the instants are taken before the database is awaited, but the tasks    *)
(* that write them follow each other, across restarts too, unless the      *)
(* account came back while its previous disconnect was being written.      *)
LastSeenNeverGoesBack ==
  [][\A a \in Accounts \ contended' : last_seen'[a] >= last_seen[a]]_presenceVars
==============================================================================
