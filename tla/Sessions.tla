------------------------------- MODULE Sessions ------------------------------
(***************************************************************************)
(* Accounts, devices and sessions: register, login, refresh, logout and    *)
(* the authentication of a request (auth.rs over auth_repo.rs).            *)
(*                                                                         *)
(* Each SQL statement is a step; handlers interleave between them and may  *)
(* end after any of them.  A token is a number: new_token draws one that   *)
(* was never drawn before, and hash_token maps it to what is stored one to *)
(* one.  Access and refresh tokens have different prefixes, so the two of  *)
(* a pair can share a number without being the same token.  Requests that  *)
(* are turned away (a taken username, a wrong password, an unknown token)  *)
(* write nothing and are no action.                                        *)
(***************************************************************************)
EXTENDS Naturals, FiniteSets

CONSTANTS
  Usernames, DeviceIds, SessionIds, Reqs, None,
  ACCESS_TTL,  \* how long an access token lives
  MaxTokens,   \* bound: token pairs drawn
  MaxNow       \* bound: the clock

\* A row of `sessions`.
Session == [device : DeviceIds, access : Nat, refresh : Nat,
            expires_at : Nat, revoked : BOOLEAN]

ASSUME SessionsAssumption ==
  /\ ACCESS_TTL \in Nat
  /\ MaxTokens \in Nat
  /\ MaxNow \in Nat
  /\ None \notin Usernames \cup DeviceIds \cup SessionIds
  /\ None \notin Session

VARIABLES
  accounts,  \* usernames with a row
  devices,   \* [DeviceIds -> the username of its account, or None]
  sessions,  \* [SessionIds -> a row or None]
  req,       \* [Reqs -> the state of the handler, or None]
  drawn,     \* the last token number drawn
  now,       \* the clock
  granted,   \* the <<session, token>> pairs handed to clients
  spent,     \* the refresh tokens a refresh was answered for
  ended      \* the sessions a logout was answered for

vars == <<accounts, devices, sessions, req, drawn, now, granted, spent, ended>>

\* The handlers between two statements, with the locals they still need.
Handler ==
  [pc : {"device"}, user : Usernames]
    \cup [pc : {"session"}, dev : DeviceIds]
    \cup [pc : {"rotate"}, sid : SessionIds, tok : Nat, exp : Nat, old : Nat]
    \cup [pc : {"revoke"}, sid : SessionIds]
    \cup [pc : {"resolve"}, dev : DeviceIds]

Rows == {s \in SessionIds : sessions[s] # None}
At(r, stage) == req[r] # None /\ req[r].pc = stage

Init ==
  /\ accounts = {}
  /\ devices = [d \in DeviceIds |-> None]
  /\ sessions = [s \in SessionIds |-> None]
  /\ req = [r \in Reqs |-> None]
  /\ drawn = 0
  /\ now = 0
  /\ granted = {}
  /\ spent = {}
  /\ ended = {}

Start(r, handler) == req[r] = None /\ req' = [req EXCEPT ![r] = handler]
GoTo(r, handler) == req' = [req EXCEPT ![r] = handler]

\* find_live_session_by_access_hash and find_live_session_by_refresh_hash.
LiveByAccess(k) ==
  {s \in Rows : /\ sessions[s].access = k
                /\ ~sessions[s].revoked
                /\ sessions[s].expires_at > now}

LiveByRefresh(k) ==
  {s \in Rows : sessions[s].refresh = k /\ ~sessions[s].revoked}

(***************************************************************************)
(* register and login                                                      *)
(***************************************************************************)
\* create_account; UNIQUE (username) refuses a name that is taken.
RegisterAccount(r, u) ==
  /\ u \notin accounts
  /\ accounts' = accounts \cup {u}
  /\ Start(r, [pc |-> "device", user |-> u])
  /\ UNCHANGED <<devices, sessions, drawn, now, granted, spent, ended>>

\* Mutant: an unknown username is let through.
RegisteredAny(u) == TRUE

Registered(u) == u \in accounts

\* find_account_by_username, with the right password.
LoginLookup(r, u) ==
  /\ Registered(u)
  /\ Start(r, [pc |-> "device", user |-> u])
  /\ UNCHANGED <<accounts, devices, sessions, drawn, now, granted, spent, ended>>

\* Mutant: the device's own id is bound for its account's.
AccountOfItself(r, d) == d

AccountOf(r, d) == req[r].user

CreateDevice(r, d) ==
  /\ At(r, "device")
  /\ devices[d] = None
  /\ devices' = [devices EXCEPT ![d] = AccountOf(r, d)]
  /\ GoTo(r, [pc |-> "session", dev |-> d])
  /\ UNCHANGED <<accounts, sessions, drawn, now, granted, spent, ended>>

\* Mutant: the token is made from the time.
new_token_clock == now + 1

new_token == drawn + 1

SessionRow(dev, access, refresh, exp, revoked) ==
  [device |-> dev, access |-> access, refresh |-> refresh,
   expires_at |-> exp, revoked |-> revoked]

\* Uuid::now_v7: an id is not drawn twice, also when a restart forgot its row.
Unused(s) == sessions[s] = None /\ \A x \in granted : x[1] # s

IssueSession(r, s) ==
  /\ At(r, "session")
  /\ Unused(s)
  /\ drawn < MaxTokens
  /\ drawn' = drawn + 1
  /\ sessions' = [sessions EXCEPT ![s] =
                    SessionRow(req[r].dev, new_token, new_token, now + ACCESS_TTL, FALSE)]
  /\ granted' = granted \cup {<<s, new_token>>}
  /\ GoTo(r, None)
  /\ UNCHANGED <<accounts, devices, now, spent, ended>>

(***************************************************************************)
(* refresh                                                                 *)
(***************************************************************************)
\* The lookup; the pair and its expiry are fixed before the update is awaited.
RefreshLookup(r, k) ==
  /\ drawn < MaxTokens
  /\ \E s \in LiveByRefresh(k) :
       Start(r, [pc |-> "rotate", sid |-> s, tok |-> new_token,
                 exp |-> now + ACCESS_TTL, old |-> k])
  /\ drawn' = drawn + 1
  /\ UNCHANGED <<accounts, devices, sessions, now, granted, spent, ended>>

\* Mutants: the rotation reopens a revoked session, or keeps the old token.
RotatedRevived(row, h) == SessionRow(row.device, h.tok, h.tok, h.exp, FALSE)
RotatedAccess(row, h) == SessionRow(row.device, h.tok, row.refresh, h.exp, row.revoked)

Rotated(row, h) == SessionRow(row.device, h.tok, h.tok, h.exp, row.revoked)

\* rotate_session: UPDATE .. WHERE id = $1, whatever the row holds by then.
Rotate(r) ==
  LET h == req[r] IN
  /\ At(r, "rotate")
  /\ sessions' = [sessions EXCEPT ![h.sid] = Rotated(sessions[h.sid], h)]
  /\ granted' = granted \cup {<<h.sid, h.tok>>}
  /\ spent' = spent \cup {h.old}
  /\ GoTo(r, None)
  /\ UNCHANGED <<accounts, devices, drawn, now, ended>>

(***************************************************************************)
(* logout                                                                  *)
(***************************************************************************)
LogoutLookup(r, k) ==
  /\ \E s \in LiveByAccess(k) : Start(r, [pc |-> "revoke", sid |-> s])
  /\ UNCHANGED <<accounts, devices, sessions, drawn, now, granted, spent, ended>>

Revoked(row) == SessionRow(row.device, row.access, row.refresh, row.expires_at, TRUE)

RevokeSession(r) ==
  /\ At(r, "revoke")
  /\ sessions' = [sessions EXCEPT ![req[r].sid] = Revoked(sessions[req[r].sid])]
  /\ ended' = ended \cup {req[r].sid}
  /\ GoTo(r, None)
  /\ UNCHANGED <<accounts, devices, drawn, now, granted, spent>>

(***************************************************************************)
(* authed and authed_from_token: the session, then its device's account    *)
(***************************************************************************)
AuthedDevice(r, k) ==
  /\ \E s \in LiveByAccess(k) :
       Start(r, [pc |-> "resolve", dev |-> sessions[s].device])
  /\ UNCHANGED <<accounts, devices, sessions, drawn, now, granted, spent, ended>>

ResolveAccount(r) ==
  /\ At(r, "resolve")
  /\ GoTo(r, None)
  /\ UNCHANGED <<accounts, devices, sessions, drawn, now, granted, spent, ended>>

\* An error, a client that hangs up, a crash.
Abort(r) ==
  /\ req[r] # None
  /\ GoTo(r, None)
  /\ UNCHANGED <<accounts, devices, sessions, drawn, now, granted, spent, ended>>

Tick ==
  /\ now < MaxNow
  /\ now' = now + 1
  /\ UNCHANGED <<accounts, devices, sessions, req, drawn, granted, spent, ended>>

Call(r) ==
  \/ \E u \in Usernames : RegisterAccount(r, u) \/ LoginLookup(r, u)
  \/ \E k \in 1..MaxTokens :
       RefreshLookup(r, k) \/ LogoutLookup(r, k) \/ AuthedDevice(r, k)

Step(r) ==
  \/ \E d \in DeviceIds : CreateDevice(r, d)
  \/ \E s \in SessionIds : IssueSession(r, s)
  \/ Rotate(r)
  \/ RevokeSession(r)
  \/ ResolveAccount(r)

Next == Tick \/ \E r \in Reqs : Call(r) \/ Step(r) \/ Abort(r)

Spec == Init /\ [][Next]_vars

(***************************************************************************)
(* Properties                                                              *)
(***************************************************************************)
TypeOK ==
  /\ accounts \subseteq Usernames
  /\ devices \in [DeviceIds -> Usernames \cup {None}]
  /\ sessions \in [SessionIds -> Session \cup {None}]
  /\ req \in [Reqs -> Handler \cup {None}]
  /\ drawn \in 0..MaxTokens
  /\ now \in 0..MaxNow
  /\ granted \subseteq SessionIds \X Nat
  /\ spent \subseteq Nat
  /\ ended \subseteq SessionIds

(* Whoever passes the session check belongs to an account: the second      *)
(* lookup of `authed` finds the device of a live session ("device not      *)
(* found" is never answered) and that device's account is registered, also *)
(* when register or login ended half-way.                                  *)
AuthFindsAccount ==
  /\ \A r \in Reqs : At(r, "resolve") => devices[req[r].dev] \in accounts
  /\ \A s \in Rows : devices[sessions[s].device] \in accounts

(* Logout is final: once a logout was answered, no token ever handed out   *)
(* for its session opens a session again, including the pair of a refresh  *)
(* that looked the session up before the logout and rotated it after.      *)
LogoutIsFinal ==
  \A x \in granted :
    x[1] \in ended => LiveByAccess(x[2]) = {} /\ LiveByRefresh(x[2]) = {}

(* A refresh token that a refresh was answered for is dead: no session     *)
(* accepts it again, however many refreshes of the session overlap.        *)
SpentIsDead == \A k \in spent : LiveByRefresh(k) = {}

(* A token opens the session it was handed out for and no other: two rows  *)
(* never hold the same token, although it is drawn before the row is       *)
(* written and the row may be rotated in between.                          *)
TokenNamesOneSession ==
  \A x \in granted : \A s \in Rows :
    sessions[s].access = x[2] \/ sessions[s].refresh = x[2] => s = x[1]
==============================================================================
