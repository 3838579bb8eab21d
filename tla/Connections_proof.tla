-------------------------- MODULE Connections_proof --------------------------
(***************************************************************************)
(* Who may connect, and who is connected: proofs about accounts, devices   *)
(* and sessions, for any usernames, ids and number of overlapping          *)
(* requests, and about the presence maps, for any accounts, devices and    *)
(* finite set of sockets.                                                  *)
(***************************************************************************)
EXTENDS MemoryAuth, Presence, FiniteSetTheorems, TLAPS

(***************************************************************************)
(* Sessions                                                                *)
(*                                                                         *)
(* None of the properties is inductive.  What they rest on is where a      *)
(* token can be: a pair is drawn by one handler, is in nobody's hands and  *)
(* no row until that handler writes it (Drawn), is then granted for one    *)
(* session, and a row only ever holds a pair granted for it (Handed).      *)
(*                                                                         *)
(* An answer stands when the rows reflect it: the session of a logout is   *)
(* revoked, and no row holds an exchanged token (Standing).  What stands   *)
(* is kept by every step: a refresh that lost the race with another one or *)
(* with a logout still writes a pair nobody has spent, and never clears    *)
(* revoked_at.                                                             *)
(***************************************************************************)
\* Every step of the way from a token to an account exists.
Chain ==
  /\ \A d \in DeviceIds : devices[d] # None => devices[d] \in accounts
  /\ \A s \in Rows : sessions[s].device \in DeviceIds /\ devices[sessions[s].device] # None
  /\ \A r \in Reqs :
       /\ At(r, "device") => req[r].user \in accounts
       /\ At(r, "session") \/ At(r, "resolve") =>
            req[r].dev \in DeviceIds /\ devices[req[r].dev] # None

Numbers ==
  /\ drawn \in Nat /\ now \in Nat
  /\ spent \subseteq 1..drawn
  /\ granted \subseteq SessionIds \X (1..drawn)
  /\ sessions \in [SessionIds -> Session \cup {None}]
  /\ devices = [d \in DeviceIds |-> devices[d]]
  /\ req = [r \in Reqs |-> req[r]]

Handed ==
  /\ \A s \in Rows : /\ sessions[s].access = sessions[s].refresh
                     /\ <<s, sessions[s].refresh>> \in granted
  /\ \A s, t \in SessionIds, k \in 1..drawn :
       <<s, k>> \in granted /\ <<t, k>> \in granted => s = t

Drawn ==
  \A r \in Reqs : At(r, "rotate") =>
    /\ req[r].tok \in 1..drawn /\ req[r].exp \in Nat
    /\ req[r].tok \notin spent
    /\ \A s \in SessionIds : <<s, req[r].tok>> \notin granted
    /\ req[r].sid \in Rows
    /\ <<req[r].sid, req[r].old>> \in granted
    /\ \A q \in Reqs \ {r} : At(q, "rotate") => req[q].tok # req[r].tok

Targets == \A r \in Reqs : At(r, "revoke") => req[r].sid \in Rows

IndInv == Numbers /\ Chain /\ Handed /\ Drawn /\ Targets

\* The rows reflect the logouts E and the exchanges of the tokens K.
Standing(E, K) ==
  /\ \A s \in Rows : sessions[s].refresh \notin K
  /\ \A s \in E : s \in Rows /\ sessions[s].revoked

\* Before any request.
LEMMA InitInv == Init => IndInv
  BY SessionsAssumption DEF Init, IndInv, Numbers, Chain, Handed, Drawn, Targets, Rows, At

\* A step that only moves one handler, to where it may be, keeps the tables.
LEMMA Frame ==
  ASSUME IndInv, UNCHANGED <<accounts, devices, sessions, drawn, now, granted, spent, ended>>,
         NEW r \in Reqs, NEW h, req' = [req EXCEPT ![r] = h],
         \/ h = None
         \/ h.pc = "device" /\ h.user \in accounts
         \/ h.pc = "resolve" /\ h.dev \in DeviceIds /\ devices[h.dev] # None
         \/ h.pc = "revoke" /\ h.sid \in Rows
  PROVE  IndInv'
<1>1. \A q \in Reqs : req'[q] = IF q = r THEN h ELSE req[q]
  BY DEF IndInv, Numbers
<1>2. Rows' = Rows
  BY DEF Rows
<1>3. Numbers' /\ Handed'
  BY <1>2, Zenon DEF IndInv, Numbers, Handed
<1>4. Chain'
  BY <1>1, <1>2 DEF IndInv, Chain, At
<1>5. Drawn'
  BY <1>1, <1>2 DEF IndInv, Drawn, At
<1>6. Targets'
  BY <1>1, <1>2 DEF IndInv, Targets, At
<1> QED
  BY <1>3, <1>4, <1>5, <1>6 DEF IndInv

\* create_account and create_device.
LEMMA RegisterStep ==
  ASSUME IndInv, NEW r \in Reqs, NEW u \in Usernames, RegisterAccount(r, u)
  PROVE  IndInv'
<1> DEFINE h == [pc |-> "device", user |-> u]
<1>1. /\ accounts' = accounts \cup {u}
      /\ req' = [req EXCEPT ![r] = h]
      /\ UNCHANGED <<devices, sessions, drawn, now, granted, spent, ended>>
  BY DEF RegisterAccount, Start
<1>2. h.pc = "device" /\ h.user = u
  OBVIOUS
<1> HIDE DEF h
<1>3. \A q \in Reqs : req'[q] = IF q = r THEN h ELSE req[q]
  BY <1>1 DEF IndInv, Numbers
<1>4. Rows' = Rows
  BY <1>1 DEF Rows
<1>5. Numbers' /\ Handed'
  BY <1>1, <1>4, Zenon DEF IndInv, Numbers, Handed
<1>6. Chain'
  BY <1>1, <1>2, <1>3, <1>4 DEF IndInv, Chain, At
<1>7. Drawn' /\ Targets'
  BY <1>1, <1>2, <1>3, <1>4 DEF IndInv, Drawn, Targets, At
<1> QED
  BY <1>5, <1>6, <1>7 DEF IndInv

\* The device belongs to the account the handler created or found.
LEMMA DeviceStep ==
  ASSUME IndInv, NEW r \in Reqs, NEW d \in DeviceIds, CreateDevice(r, d),
         None \notin accounts
  PROVE  IndInv'
<1> DEFINE h == [pc |-> "session", dev |-> d]
<1>1. /\ At(r, "device")
      /\ devices' = [devices EXCEPT ![d] = req[r].user]
      /\ req' = [req EXCEPT ![r] = h]
      /\ UNCHANGED <<accounts, sessions, drawn, now, granted, spent, ended>>
  BY DEF CreateDevice, AccountOf, GoTo
<1>2. h.pc = "session" /\ h.dev = d
  OBVIOUS
<1> HIDE DEF h
<1>3. \A q \in Reqs : req'[q] = IF q = r THEN h ELSE req[q]
  BY <1>1 DEF IndInv, Numbers
<1>4. Rows' = Rows
  BY <1>1 DEF Rows
<1>5. Numbers' /\ Handed'
  BY <1>1, <1>4 DEF IndInv, Numbers, Handed
<1>6. Chain'
  <2>1. req[r].user \in accounts /\ req[r].user # None
    BY <1>1 DEF IndInv, Chain
  <2>2. \A e \in DeviceIds : devices'[e] = IF e = d THEN req[r].user ELSE devices[e]
    BY <1>1, Zenon DEF IndInv, Numbers
  <2> QED
    BY <1>1, <1>2, <1>3, <1>4, <2>1, <2>2 DEF IndInv, Chain, At
<1>7. Drawn' /\ Targets'
  BY <1>1, <1>2, <1>3, <1>4 DEF IndInv, Drawn, Targets, At
<1> QED
  BY <1>5, <1>6, <1>7 DEF IndInv

\* create_session: the pair is drawn and written in the same step.
LEMMA IssueStep ==
  ASSUME IndInv, NEW r \in Reqs, NEW s \in SessionIds, IssueSession(r, s)
  PROVE  IndInv'
<1> DEFINE k == drawn + 1
           row == SessionRow(req[r].dev, k, k, now + ACCESS_TTL, FALSE)
<1>1. /\ At(r, "session") /\ sessions[s] = None
      /\ drawn' = k
      /\ sessions' = [sessions EXCEPT ![s] = row]
      /\ granted' = granted \cup {<<s, k>>}
      /\ req' = [req EXCEPT ![r] = None]
      /\ UNCHANGED <<accounts, devices, now, spent, ended>>
  BY DEF IssueSession, Unused, new_token, GoTo
<1>2. row.device = req[r].dev /\ row.access = k /\ row.refresh = k
  BY DEF SessionRow
<1>3. k \in Nat /\ k \notin 1..drawn /\ 1..k = (1..drawn) \cup {k}
  BY DEF IndInv, Numbers
<1>12. row \in Session
  <2>1. req[r].dev \in DeviceIds /\ k \in Nat /\ now + ACCESS_TTL \in Nat
    BY <1>1, SessionsAssumption DEF IndInv, Chain, Numbers
  <2> QED
    BY <2>1 DEF SessionRow, Session
<1> HIDE DEF row, k
<1>4. \A q \in Reqs : req'[q] = IF q = r THEN None ELSE req[q]
  BY <1>1 DEF IndInv, Numbers
<1>5. \A t \in SessionIds : sessions'[t] = IF t = s THEN row ELSE sessions[t]
  BY <1>1 DEF IndInv, Numbers
<1>6. Rows' \subseteq Rows \cup {s} /\ Rows \subseteq Rows' /\ s \notin Rows
  <2>1. s \notin Rows
    BY <1>1 DEF Rows
  <2>2. Rows' \subseteq Rows \cup {s}
    BY <1>5 DEF Rows
  <2>3. Rows \subseteq Rows'
    BY <1>5, <2>1 DEF Rows
  <2> QED
    BY <2>1, <2>2, <2>3
<1>7. Numbers'
  BY <1>1, <1>3, <1>12 DEF IndInv, Numbers
<1>8. Chain'
  BY <1>1, <1>2, <1>4, <1>5, <1>6 DEF IndInv, Chain, At, Rows
<1>9. Handed'
  <2>1. \A t \in SessionIds : <<t, k>> \notin granted
    BY <1>3, Zenon DEF IndInv, Numbers
  <2> QED
    BY <1>1, <1>2, <1>3, <1>5, <1>6, <2>1 DEF IndInv, Handed, Rows
<1>10. Drawn'
  BY <1>1, <1>3, <1>4, <1>6 DEF IndInv, Drawn, At
<1>11. Targets'
  BY <1>4, <1>6, Zenon DEF IndInv, Targets, At
<1> QED
  BY <1>7, <1>8, <1>9, <1>10, <1>11 DEF IndInv

\* The lookup of a refresh draws the pair it will write.
LEMMA RefreshStep ==
  ASSUME IndInv, NEW r \in Reqs, NEW old, RefreshLookup(r, old)
  PROVE  IndInv'
<1> DEFINE k == drawn + 1
<1>1. PICK s \in LiveByRefresh(old) :
        Start(r, [pc |-> "rotate", sid |-> s, tok |-> k, exp |-> now + ACCESS_TTL, old |-> old])
  BY DEF RefreshLookup, new_token
<1> DEFINE h == [pc |-> "rotate", sid |-> s, tok |-> k, exp |-> now + ACCESS_TTL, old |-> old]
<1>2. /\ drawn' = k
      /\ req' = [req EXCEPT ![r] = h]
      /\ UNCHANGED <<accounts, devices, sessions, now, granted, spent, ended>>
  BY <1>1, Zenon DEF RefreshLookup, Start
<1>3. h.pc = "rotate" /\ h.sid = s /\ h.tok = k /\ h.old = old /\ h.exp \in Nat
  BY SessionsAssumption DEF IndInv, Numbers
<1>4. k \in Nat /\ k \notin 1..drawn /\ 1..k = (1..drawn) \cup {k}
  BY DEF IndInv, Numbers
<1> HIDE DEF h, k
<1>5. s \in Rows /\ s \in SessionIds /\ <<s, old>> \in granted
  BY DEF LiveByRefresh, Rows, IndInv, Handed
<1>6. \A q \in Reqs : req'[q] = IF q = r THEN h ELSE req[q]
  BY <1>2 DEF IndInv, Numbers
<1>7. Rows' = Rows
  BY <1>2 DEF Rows
<1>8. k \notin spent /\ \A t \in SessionIds : <<t, k>> \notin granted
  BY <1>4 DEF IndInv, Numbers
<1>9. Numbers'
  BY <1>2, <1>4, Zenon DEF IndInv, Numbers
<1>10. Chain' /\ Targets'
  BY <1>2, <1>3, <1>6, <1>7 DEF IndInv, Chain, Targets, At
<1>11. Handed'
  BY <1>2, <1>4, <1>7, <1>8, Zenon DEF IndInv, Handed
<1>12. Drawn'
  <2> SUFFICES ASSUME NEW q \in Reqs, At(q, "rotate")'
               PROVE  /\ req'[q].tok \in 1..k /\ req'[q].exp \in Nat
                      /\ req'[q].tok \notin spent
                      /\ \A t \in SessionIds : <<t, req'[q].tok>> \notin granted
                      /\ req'[q].sid \in Rows
                      /\ <<req'[q].sid, req'[q].old>> \in granted
                      /\ \A p \in Reqs \ {q} :
                           At(p, "rotate")' => req'[p].tok # req'[q].tok
    BY <1>2, <1>7 DEF Drawn
  <2>1. \A p \in Reqs \ {r} : At(p, "rotate")' => /\ At(p, "rotate")
                                                  /\ req'[p] = req[p]
                                                  /\ req[p].tok \in 1..drawn
    BY <1>6, Zenon DEF IndInv, Drawn, At
  <2>2. CASE q = r
    BY <1>3, <1>4, <1>5, <1>6, <1>8, <2>1, <2>2, Zenon
  <2>3. CASE q # r
    BY <1>3, <1>4, <1>6, <2>1, <2>3 DEF IndInv, Drawn
  <2> QED
    BY <2>2, <2>3
<1> QED
  BY <1>9, <1>10, <1>11, <1>12 DEF IndInv

\* The rows that rotate_session and revoke_session write.
LEMMA WrittenRows ==
  ASSUME IndInv, NEW r \in Reqs
  PROVE  /\ At(r, "rotate") => Rotated(sessions[req[r].sid], req[r]) \in Session
         /\ At(r, "revoke") => Revoked(sessions[req[r].sid]) \in Session
<1>1. PICK h, row : h = req[r] /\ row = sessions[h.sid]
  BY Zenon
<1>2. ASSUME At(r, "rotate") PROVE Rotated(row, h) \in Session
  <2>1. h.sid \in Rows /\ h.tok \in 1..drawn /\ h.exp \in Nat
    BY <1>1, <1>2, Zenon DEF IndInv, Drawn
  <2>2. row \in Session
    BY <1>1, <2>1, Zenon DEF IndInv, Numbers, Rows
  <2>3. h.tok \in Nat
    BY <2>1
  <2> QED
    BY <2>1, <2>2, <2>3, Zenon DEF Rotated, SessionRow, Session
<1>3. ASSUME At(r, "revoke") PROVE Revoked(row) \in Session
  <2>1. row \in Session
    BY <1>1, <1>3, Zenon DEF IndInv, Numbers, Targets, Rows
  <2> QED
    BY <2>1, Zenon DEF Revoked, SessionRow, Session
<1> QED
  BY <1>1, <1>2, <1>3, Zenon

\* rotate_session: the row takes a pair that was nobody's.
LEMMA RotateStep ==
  ASSUME IndInv, NEW r \in Reqs, Rotate(r)
  PROVE  IndInv'
<1> DEFINE h == req[r]
           s == h.sid
           row == Rotated(sessions[s], h)
<1>1. /\ At(r, "rotate")
      /\ sessions' = [sessions EXCEPT ![s] = row]
      /\ granted' = granted \cup {<<s, h.tok>>}
      /\ spent' = spent \cup {h.old}
      /\ req' = [req EXCEPT ![r] = None]
      /\ UNCHANGED <<accounts, devices, drawn, now, ended>>
  BY Zenon DEF Rotate, GoTo
<1>2. /\ row.device = sessions[s].device
      /\ row.access = h.tok /\ row.refresh = h.tok
      /\ row.revoked = sessions[s].revoked
  BY Zenon DEF Rotated, SessionRow
<1>3. /\ h.tok \in 1..drawn /\ h.tok \notin spent
      /\ \A t \in SessionIds : <<t, h.tok>> \notin granted
      /\ s \in Rows /\ s \in SessionIds
      /\ <<s, h.old>> \in granted
      /\ \A q \in Reqs \ {r} : At(q, "rotate") => req[q].tok # h.tok
  BY <1>1 DEF IndInv, Drawn, Rows
<1>4. h.old \in 1..drawn /\ h.old # h.tok
  BY <1>3, Zenon DEF IndInv, Numbers
<1>12. row \in Session
  BY <1>1, WrittenRows, Zenon
<1> HIDE DEF row
<1>5. \A q \in Reqs : req'[q] = IF q = r THEN None ELSE req[q]
  BY <1>1 DEF IndInv, Numbers
<1>6. \A t \in SessionIds : sessions'[t] = IF t = s THEN row ELSE sessions[t]
  BY <1>1 DEF IndInv, Numbers
<1>7. Rows' = Rows
  BY <1>3, <1>6, <1>12, SessionsAssumption, Zenon DEF Rows
<1>8. Numbers'
  BY <1>1, <1>3, <1>4, <1>12, SMTT(20) DEF IndInv, Numbers
<1>9. Chain'
  <2>1. \A t \in Rows : sessions'[t].device = sessions[t].device
    BY <1>2, <1>6, Zenon DEF Rows
  <2>2. \A q \in Reqs : \A p : At(q, p)' => At(q, p) /\ req'[q] = req[q]
    BY <1>5, Zenon DEF At
  <2>3. \A q \in Reqs :
          /\ At(q, "device")' => req'[q].user \in accounts
          /\ At(q, "session")' \/ At(q, "resolve")' =>
               req'[q].dev \in DeviceIds /\ devices[req'[q].dev] # None
    BY <2>2, Zenon DEF IndInv, Chain
  <2> QED
    BY <1>1, <1>7, <2>1, <2>3, Zenon DEF IndInv, Chain
<1>10. Handed'
  BY <1>1, <1>2, <1>3, <1>6, <1>7 DEF IndInv, Handed, Rows
<1>11. Drawn'
  <2>1. \A q \in Reqs : At(q, "rotate")' => q # r /\ At(q, "rotate") /\ req'[q] = req[q]
    BY <1>5 DEF At
  <2>2. \A q \in Reqs \ {r} : At(q, "rotate") => req[q].tok # h.old
    BY <1>3, ZenonT(20) DEF IndInv, Drawn
  <2> QED
    BY <1>1, <1>3, <1>7, <2>1, <2>2 DEF IndInv, Drawn
<1>13. Targets'
  BY <1>5, <1>7, Zenon DEF IndInv, Targets, At
<1> QED
  BY <1>8, <1>9, <1>10, <1>11, <1>13 DEF IndInv

\* revoke_session.
LEMMA RevokeStep ==
  ASSUME IndInv, NEW r \in Reqs, RevokeSession(r)
  PROVE  IndInv'
<1> DEFINE s == req[r].sid
           row == Revoked(sessions[s])
<1>1. /\ At(r, "revoke")
      /\ sessions' = [sessions EXCEPT ![s] = row]
      /\ ended' = ended \cup {s}
      /\ req' = [req EXCEPT ![r] = None]
      /\ UNCHANGED <<accounts, devices, drawn, now, granted, spent>>
  BY Zenon DEF RevokeSession, GoTo
<1>2. /\ row.device = sessions[s].device
      /\ row.access = sessions[s].access
      /\ row.refresh = sessions[s].refresh
      /\ row.revoked = TRUE
  BY Zenon DEF Revoked, SessionRow
<1>3. s \in Rows /\ s \in SessionIds
  BY <1>1 DEF IndInv, Targets, Rows
<1>4. row \in Session
  BY <1>1, WrittenRows, Zenon
<1> HIDE DEF row
<1>5. \A q \in Reqs : req'[q] = IF q = r THEN None ELSE req[q]
  BY <1>1 DEF IndInv, Numbers
<1>6. \A t \in SessionIds : sessions'[t] = IF t = s THEN row ELSE sessions[t]
  BY <1>1 DEF IndInv, Numbers
<1>7. Rows' = Rows
  BY <1>3, <1>4, <1>6, SessionsAssumption DEF Rows
<1>8. Numbers'
  BY <1>1, <1>3, <1>4, Zenon DEF IndInv, Numbers
<1>9. Chain'
  <2>1. \A t \in Rows : sessions'[t].device = sessions[t].device
    BY <1>2, <1>6, Zenon DEF Rows
  <2>2. \A q \in Reqs : \A p : At(q, p)' => At(q, p) /\ req'[q] = req[q]
    BY <1>5, Zenon DEF At
  <2>3. \A q \in Reqs :
          /\ At(q, "device")' => req'[q].user \in accounts
          /\ At(q, "session")' \/ At(q, "resolve")' =>
               req'[q].dev \in DeviceIds /\ devices[req'[q].dev] # None
    BY <2>2, Zenon DEF IndInv, Chain
  <2> QED
    BY <1>1, <1>7, <2>1, <2>3, Zenon DEF IndInv, Chain
<1>10. Handed'
  BY <1>1, <1>2, <1>3, <1>6, <1>7 DEF IndInv, Handed, Rows
<1>11. Drawn'
  BY <1>1, <1>5, <1>7, SMTT(20) DEF IndInv, Drawn, At
<1>12. Targets'
  BY <1>5, <1>7, Zenon DEF IndInv, Targets, At
<1> QED
  BY <1>8, <1>9, <1>10, <1>11, <1>12 DEF IndInv

\* Every step keeps the invariant.
LEMMA StepInv == IndInv /\ accounts \subseteq Usernames /\ [Next]_vars => IndInv'
<1> SUFFICES ASSUME IndInv, accounts \subseteq Usernames, [Next]_vars PROVE IndInv'
  OBVIOUS
<1>1. ASSUME NEW r \in Reqs, NEW u \in Usernames, LoginLookup(r, u) PROVE IndInv'
  <2> DEFINE h == [pc |-> "device", user |-> u]
  <2>1. h.pc = "device" /\ h.user \in accounts
    BY <1>1 DEF LoginLookup, Registered
  <2> QED
    BY <1>1, <2>1, Frame, Zenon DEF LoginLookup, Start
<1>2. ASSUME NEW r \in Reqs, NEW k, LogoutLookup(r, k) PROVE IndInv'
  <2>1. PICK s \in LiveByAccess(k) : Start(r, [pc |-> "revoke", sid |-> s])
    BY <1>2 DEF LogoutLookup
  <2>2. s \in Rows
    BY DEF LiveByAccess
  <2> QED
    BY <1>2, <2>1, <2>2, Frame, Zenon DEF LogoutLookup, Start
<1>3. ASSUME NEW r \in Reqs, NEW k, AuthedDevice(r, k) PROVE IndInv'
  <2>1. PICK s \in LiveByAccess(k) :
          Start(r, [pc |-> "resolve", dev |-> sessions[s].device])
    BY <1>3 DEF AuthedDevice
  <2>2. sessions[s].device \in DeviceIds /\ devices[sessions[s].device] # None
    BY Zenon DEF LiveByAccess, IndInv, Chain
  <2> QED
    BY <1>3, <2>1, <2>2, Frame, Zenon DEF AuthedDevice, Start
<1>4. ASSUME NEW r \in Reqs, ResolveAccount(r) \/ Abort(r) PROVE IndInv'
  BY <1>4, Frame, Zenon DEF ResolveAccount, Abort, GoTo
<1>5. CASE Tick
  <2>1. UNCHANGED <<accounts, devices, sessions, req, drawn, granted, spent, ended>>
    BY <1>5, Zenon DEF Tick
  <2>2. now' \in Nat
    BY <1>5 DEF Tick, IndInv, Numbers
  <2>3. Numbers' /\ Chain'
    BY <2>1, <2>2, Zenon DEF IndInv, Numbers, Chain, Rows, At
  <2>4. Handed' /\ Drawn' /\ Targets'
    BY <2>1, Zenon DEF IndInv, Handed, Drawn, Targets, Rows, At
  <2> QED
    BY <2>3, <2>4, Zenon DEF IndInv
<1>6. CASE UNCHANGED vars
  BY <1>6 DEF vars, IndInv, Numbers, Chain, Handed, Drawn, Targets, Rows, At
<1>7. None \notin accounts
  BY SessionsAssumption
<1> QED
  BY <1>1, <1>2, <1>3, <1>4, <1>5, <1>6, <1>7, RegisterStep, DeviceStep, IssueStep,
     RefreshStep, RotateStep, RevokeStep
     DEF Next, Call, Step

\* Before any request, and after every step, everything has its type.
LEMMA InitType == Init => TypeOK
  BY SessionsAssumption DEF Init, TypeOK

LEMMA StepType == TypeOK /\ IndInv /\ [Next]_vars => TypeOK'
<1> SUFFICES ASSUME TypeOK, IndInv, [Next]_vars PROVE TypeOK'
  OBVIOUS
<1>1. ASSUME NEW r \in Reqs, NEW h \in Handler \cup {None}, req' = [req EXCEPT ![r] = h]
      PROVE  req' \in [Reqs -> Handler \cup {None}]
  BY <1>1 DEF TypeOK
<1>2. ASSUME NEW r \in Reqs, NEW u \in Usernames, RegisterAccount(r, u) \/ LoginLookup(r, u)
      PROVE  TypeOK'
  <2> DEFINE h == [pc |-> "device", user |-> u]
  <2>1. h \in Handler
    BY DEF Handler
  <2>2. req' = [req EXCEPT ![r] = h]
    BY <1>2 DEF RegisterAccount, LoginLookup, Start
  <2>3. req' \in [Reqs -> Handler \cup {None}]
    BY <1>1, <2>1, <2>2, Zenon
  <2> QED
    BY <1>2, <2>3, Zenon DEF RegisterAccount, LoginLookup, TypeOK
<1>3. ASSUME NEW r \in Reqs, NEW d \in DeviceIds, CreateDevice(r, d) PROVE TypeOK'
  <2> DEFINE h == [pc |-> "session", dev |-> d]
  <2>1. h \in Handler
    BY DEF Handler
  <2>2. req' = [req EXCEPT ![r] = h]
    BY <1>3 DEF CreateDevice, GoTo
  <2>3. req' \in [Reqs -> Handler \cup {None}]
    BY <1>1, <2>1, <2>2, Zenon
  <2>4. req[r].user \in Usernames
    BY <1>3 DEF CreateDevice, IndInv, Chain, TypeOK
  <2> QED
    BY <1>3, <2>3, <2>4 DEF CreateDevice, AccountOf, TypeOK
<1>4. ASSUME NEW r \in Reqs, NEW s \in SessionIds, IssueSession(r, s) PROVE TypeOK'
  <2>1. req' \in [Reqs -> Handler \cup {None}]
    BY <1>1, <1>4, Zenon DEF IssueSession, GoTo
  <2>2. drawn + 1 \in 0..MaxTokens /\ drawn + 1 \in Nat
    BY <1>4, SessionsAssumption DEF IssueSession, TypeOK
  <2>3. SessionRow(req[r].dev, drawn + 1, drawn + 1, now + ACCESS_TTL, FALSE) \in Session
    <3>1. req[r].dev \in DeviceIds /\ now + ACCESS_TTL \in Nat
      BY <1>4, SessionsAssumption DEF IssueSession, IndInv, Chain, TypeOK
    <3> QED
      BY <2>2, <3>1, Zenon DEF SessionRow, Session
  <2>4. sessions' \in [SessionIds -> Session \cup {None}]
    BY <1>4, <2>3, Zenon DEF IssueSession, new_token, TypeOK
  <2>5. granted' \subseteq SessionIds \X Nat
    BY <1>4, <2>2 DEF IssueSession, new_token, TypeOK
  <2> QED
    BY <1>4, <2>1, <2>2, <2>4, <2>5, Zenon DEF IssueSession, TypeOK
<1>5. ASSUME NEW r \in Reqs, NEW k \in 1..MaxTokens, RefreshLookup(r, k) PROVE TypeOK'
  <2>1. PICK s \in LiveByRefresh(k) :
          req' = [req EXCEPT ![r] = [pc |-> "rotate", sid |-> s, tok |-> drawn + 1,
                                     exp |-> now + ACCESS_TTL, old |-> k]]
    BY <1>5, ZenonT(20) DEF RefreshLookup, Start, new_token
  <2> DEFINE h == [pc |-> "rotate", sid |-> s, tok |-> drawn + 1,
                   exp |-> now + ACCESS_TTL, old |-> k]
  <2>2. /\ s \in SessionIds /\ drawn + 1 \in 0..MaxTokens /\ drawn + 1 \in Nat
        /\ now + ACCESS_TTL \in Nat /\ k \in Nat
    BY <1>5, SessionsAssumption DEF RefreshLookup, LiveByRefresh, Rows, TypeOK
  <2>3. h \in Handler
    BY <2>2 DEF Handler
  <2>4. req' \in [Reqs -> Handler \cup {None}]
    BY <1>1, <2>1, <2>3, Zenon
  <2> QED
    BY <1>5, <2>2, <2>4 DEF RefreshLookup, TypeOK
<1>6. ASSUME NEW r \in Reqs, Rotate(r) PROVE TypeOK'
  <2>1. req' \in [Reqs -> Handler \cup {None}]
    BY <1>1, <1>6, Zenon DEF Rotate, GoTo
  <2>2. /\ req[r].tok \in Nat /\ req[r].exp \in Nat /\ req[r].sid \in SessionIds
        /\ sessions[req[r].sid] \in Session /\ req[r].old \in Nat
    <3>1. /\ req[r].tok \in 1..drawn /\ req[r].exp \in Nat /\ req[r].sid \in Rows
          /\ <<req[r].sid, req[r].old>> \in granted
      BY <1>6 DEF Rotate, IndInv, Drawn
    <3>2. req[r].old \in 1..drawn
      BY <3>1, Zenon DEF IndInv, Numbers
    <3> QED
      BY <3>1, <3>2, SMTT(20) DEF IndInv, Numbers, Rows
  <2>3. Rotated(sessions[req[r].sid], req[r]) \in Session
    BY <2>2, Zenon DEF Rotated, SessionRow, Session
  <2>4. sessions' \in [SessionIds -> Session \cup {None}]
    BY <1>6, <2>2, <2>3 DEF Rotate, TypeOK
  <2>5. granted' \subseteq SessionIds \X Nat /\ spent' \subseteq Nat
    <3>1. PICK t, k, o : t = req[r].sid /\ k = req[r].tok /\ o = req[r].old
      BY Zenon
    <3>2. granted' = granted \cup {<<t, k>>} /\ spent' = spent \cup {o}
      BY <1>6, <3>1, Zenon DEF Rotate
    <3>3. t \in SessionIds /\ k \in Nat /\ o \in Nat
      BY <2>2, <3>1
    <3>4. <<t, k>> \in SessionIds \X Nat
      BY <3>3, Zenon
    <3> QED
      BY <3>2, <3>3, <3>4, Zenon DEF TypeOK
  <2> QED
    BY <1>6, <2>1, <2>4, <2>5 DEF Rotate, TypeOK
<1>7. ASSUME NEW r \in Reqs, NEW k, LogoutLookup(r, k) PROVE TypeOK'
  <2>1. PICK s \in LiveByAccess(k) : req' = [req EXCEPT ![r] = [pc |-> "revoke", sid |-> s]]
    BY <1>7, ZenonT(20) DEF LogoutLookup, Start
  <2>2. [pc |-> "revoke", sid |-> s] \in Handler
    BY DEF LiveByAccess, Rows, Handler
  <2>3. req' \in [Reqs -> Handler \cup {None}]
    BY <1>1, <2>1, <2>2, Zenon
  <2> QED
    BY <1>7, <2>3 DEF LogoutLookup, TypeOK
<1>8. ASSUME NEW r \in Reqs, RevokeSession(r) PROVE TypeOK'
  <2>1. req' \in [Reqs -> Handler \cup {None}]
    BY <1>1, <1>8, Zenon DEF RevokeSession, GoTo
  <2>2. req[r].sid \in SessionIds /\ sessions[req[r].sid] \in Session
    BY <1>8, Zenon DEF RevokeSession, IndInv, Targets, Numbers, Rows
  <2>3. Revoked(sessions[req[r].sid]) \in Session
    BY <2>2, Zenon DEF Revoked, SessionRow, Session
  <2> QED
    BY <1>8, <2>1, <2>2, <2>3 DEF RevokeSession, TypeOK
<1>9. ASSUME NEW r \in Reqs, NEW k, AuthedDevice(r, k) PROVE TypeOK'
  <2>1. PICK s \in LiveByAccess(k) :
          req' = [req EXCEPT ![r] = [pc |-> "resolve", dev |-> sessions[s].device]]
    BY <1>9, ZenonT(20) DEF AuthedDevice, Start
  <2>2. [pc |-> "resolve", dev |-> sessions[s].device] \in Handler
    BY DEF LiveByAccess, IndInv, Chain, Handler
  <2>3. req' \in [Reqs -> Handler \cup {None}]
    BY <1>1, <2>1, <2>2, Zenon
  <2> QED
    BY <1>9, <2>3 DEF AuthedDevice, TypeOK
<1>10. ASSUME NEW r \in Reqs, ResolveAccount(r) \/ Abort(r) PROVE TypeOK'
  BY <1>10, <1>1, Zenon DEF ResolveAccount, Abort, GoTo, TypeOK
<1>11. CASE Tick
  BY <1>11, SessionsAssumption DEF Tick, TypeOK
<1>12. CASE UNCHANGED vars
  BY <1>12 DEF vars, TypeOK
<1> QED
  BY <1>2, <1>3, <1>4, <1>5, <1>6, <1>7, <1>8, <1>9, <1>10, <1>11, <1>12
  DEF Next, Call, Step

\* What a step does to the rows: none goes, none is reopened, and one takes a
\* refresh token only while nobody has exchanged it.
LEMMA RowsMove ==
  ASSUME IndInv, [Next]_vars
  PROVE  /\ Rows \subseteq Rows'
         /\ \A s \in Rows' : \/ s \in Rows /\ sessions'[s].refresh = sessions[s].refresh
                            \/ sessions'[s].refresh \notin spent
         /\ \A s \in Rows : sessions[s].revoked => sessions'[s].revoked
<1> DEFINE Goal == /\ Rows \subseteq Rows'
                   /\ \A s \in Rows' : \/ s \in Rows /\ sessions'[s].refresh = sessions[s].refresh
                                      \/ sessions'[s].refresh \notin spent
                   /\ \A s \in Rows : sessions[s].revoked => sessions'[s].revoked
<1>1. CASE UNCHANGED sessions
  BY <1>1, Zenon DEF Rows
<1>2. ASSUME NEW r \in Reqs, NEW s \in SessionIds, IssueSession(r, s) PROVE Goal
  <2> DEFINE row == SessionRow(req[r].dev, drawn + 1, drawn + 1, now + ACCESS_TTL, FALSE)
  <2>1. sessions[s] = None /\ sessions' = [sessions EXCEPT ![s] = row]
    BY <1>2, Zenon DEF IssueSession, Unused, new_token
  <2>2. row.refresh \notin spent
    BY DEF SessionRow, IndInv, Numbers
  <2> HIDE DEF row
  <2>3. \A t \in SessionIds : sessions'[t] = IF t = s THEN row ELSE sessions[t]
    BY <2>1, Zenon DEF IndInv, Numbers
  <2> QED
    BY <2>1, <2>2, <2>3 DEF Rows
<1>3. ASSUME NEW r \in Reqs, Rotate(r) PROVE Goal
  <2>1. PICK h, s, row : h = req[r] /\ s = h.sid /\ row = Rotated(sessions[s], h)
    BY Zenon
  <2>2. At(r, "rotate") /\ sessions' = [sessions EXCEPT ![s] = row]
    BY <1>3, <2>1, Zenon DEF Rotate
  <2>3. row.refresh = h.tok /\ row.revoked = sessions[s].revoked
    BY <2>1, Zenon DEF Rotated, SessionRow
  <2>4. h.tok \notin spent /\ s \in Rows
    BY <2>1, <2>2, Zenon DEF IndInv, Drawn
  <2>5. \A t \in SessionIds : sessions'[t] = IF t = s THEN row ELSE sessions[t]
    BY <2>2, Zenon DEF IndInv, Numbers
  <2>6. row # None
    BY <2>1, <2>2, WrittenRows, SessionsAssumption, Zenon
  <2>7. Rows' = Rows
    BY <2>4, <2>5, <2>6, Zenon DEF Rows
  <2> QED
    BY <2>3, <2>4, <2>5, <2>7, Zenon DEF Rows
<1>4. ASSUME NEW r \in Reqs, RevokeSession(r) PROVE Goal
  <2>1. PICK s, row : s = req[r].sid /\ row = Revoked(sessions[s])
    BY Zenon
  <2>2. At(r, "revoke") /\ sessions' = [sessions EXCEPT ![s] = row]
    BY <1>4, <2>1, Zenon DEF RevokeSession
  <2>3. row.refresh = sessions[s].refresh /\ row.revoked
    BY <2>1, Zenon DEF Revoked, SessionRow
  <2>4. s \in Rows
    BY <2>1, <2>2, Zenon DEF IndInv, Targets
  <2>5. \A t \in SessionIds : sessions'[t] = IF t = s THEN row ELSE sessions[t]
    BY <2>2, Zenon DEF IndInv, Numbers
  <2>6. row # None
    BY <2>1, <2>2, WrittenRows, SessionsAssumption, Zenon
  <2>7. Rows' = Rows
    BY <2>4, <2>5, <2>6, Zenon DEF Rows
  <2> QED
    BY <2>3, <2>4, <2>5, <2>7, Zenon DEF Rows
<1> QED
  BY <1>1, <1>2, <1>3, <1>4, Zenon
  DEF Next, Call, Step, vars, RegisterAccount, LoginLookup, CreateDevice, RefreshLookup,
      LogoutLookup, AuthedDevice, ResolveAccount, Abort, Tick

\* What stands is kept by every step.
LEMMA AnswersStand ==
  ASSUME IndInv, [Next]_vars, NEW E, NEW K \in SUBSET spent, Standing(E, K)
  PROVE  /\ \A s \in Rows' : sessions'[s].refresh \notin K
         /\ \A s \in E : s \in Rows' /\ sessions'[s].revoked
  BY RowsMove, Zenon DEF Standing

\* The answer of a refresh, and that of a logout, stand when they are given.
LEMMA ExchangeStands ==
  ASSUME IndInv, NEW r \in Reqs, Rotate(r)
  PROVE  \A s \in Rows' : sessions'[s].refresh # req[r].old
<1>1. PICK h, t, row : h = req[r] /\ t = h.sid /\ row = Rotated(sessions[t], h)
  BY Zenon
<1>2. At(r, "rotate") /\ sessions' = [sessions EXCEPT ![t] = row]
  BY <1>1, Zenon DEF Rotate
<1>3. row.refresh = h.tok
  BY <1>1, Zenon DEF Rotated, SessionRow
<1>4. /\ t \in SessionIds /\ <<t, h.old>> \in granted
      /\ \A s \in SessionIds : <<s, h.tok>> \notin granted
  BY <1>1, <1>2, Zenon DEF IndInv, Drawn, Rows
<1>5. \A s \in SessionIds : sessions'[s] = IF s = t THEN row ELSE sessions[s]
  BY <1>2, Zenon DEF IndInv, Numbers
<1>6. h.old \in 1..drawn /\ h.old # h.tok
  BY <1>4, Zenon DEF IndInv, Numbers
<1>7. \A s \in Rows : s # t => sessions[s].refresh # h.old
  BY <1>4, <1>6, Zenon DEF IndInv, Handed, Rows
<1>8. ASSUME NEW s \in Rows' PROVE sessions'[s].refresh # h.old
  <2>1. s \in SessionIds
    BY <1>8, Zenon DEF Rows
  <2>2. CASE s = t
    BY <1>3, <1>5, <1>6, <2>1, <2>2, Zenon
  <2>3. CASE s # t
    <3>1. sessions'[s] = sessions[s]
      BY <1>5, <2>1, <2>3, Zenon
    <3>2. s \in Rows
      BY <1>8, <2>1, <3>1, Zenon DEF Rows
    <3> QED
      BY <1>7, <2>3, <3>1, <3>2, Zenon
  <2> QED
    BY <2>2, <2>3, Zenon
<1> QED
  BY <1>1, <1>8, Zenon

LEMMA LogoutStands ==
  ASSUME IndInv, NEW r \in Reqs, RevokeSession(r)
  PROVE  req[r].sid \in Rows' /\ sessions'[req[r].sid].revoked
<1>1. PICK s, row : s = req[r].sid /\ row = Revoked(sessions[s])
  BY Zenon
<1>2. At(r, "revoke") /\ sessions' = [sessions EXCEPT ![s] = row]
  BY <1>1, Zenon DEF RevokeSession
<1>3. row.revoked /\ row # None
  <2>1. row.revoked
    BY <1>1, Zenon DEF Revoked, SessionRow
  <2> QED
    BY <1>1, <1>2, <2>1, WrittenRows, SessionsAssumption, Zenon
<1>4. s \in SessionIds
  BY <1>1, <1>2, Zenon DEF IndInv, Targets, Rows
<1>5. sessions'[s] = row
  BY <1>2, <1>4, Zenon DEF IndInv, Numbers
<1> QED
  BY <1>1, <1>3, <1>4, <1>5, Zenon DEF Rows

\* The steps that answer a refresh or a logout.
LEMMA AnswersGrow ==
  ASSUME [Next]_vars
  PROVE  \/ UNCHANGED <<spent, ended>>
         \/ \E r \in Reqs : Rotate(r) /\ spent' = spent \cup {req[r].old} /\ ended' = ended
         \/ \E r \in Reqs : RevokeSession(r) /\ spent' = spent /\ ended' = ended \cup {req[r].sid}
<1>1. ASSUME NEW r \in Reqs, Rotate(r)
      PROVE  spent' = spent \cup {req[r].old} /\ ended' = ended
  BY <1>1, Zenon DEF Rotate
<1>2. ASSUME NEW r \in Reqs, RevokeSession(r)
      PROVE  spent' = spent /\ ended' = ended \cup {req[r].sid}
  BY <1>2, Zenon DEF RevokeSession
<1> QED
  BY <1>1, <1>2, Zenon
  DEF Next, Call, Step, vars, RegisterAccount, LoginLookup, CreateDevice, IssueSession,
      RefreshLookup, LogoutLookup, AuthedDevice, ResolveAccount, Abort, Tick

\* In one process every answer stands.
AuthInv == TypeOK /\ IndInv /\ Standing(ended, spent)

LEMMA StepAuth == AuthInv /\ [Next]_vars => AuthInv'
<1> SUFFICES ASSUME AuthInv, [Next]_vars PROVE AuthInv'
  OBVIOUS
<1>1. TypeOK' /\ IndInv'
  BY StepType, StepInv DEF AuthInv, TypeOK
<1>2. PICK E, K : E = ended /\ K = spent
  BY Zenon
<1>3. /\ \A s \in Rows' : sessions'[s].refresh \notin K
      /\ \A s \in E : s \in Rows' /\ sessions'[s].revoked
  BY <1>2, AnswersStand, Zenon DEF AuthInv
<1>4. Standing(ended, spent)'
  <2>1. CASE UNCHANGED <<spent, ended>>
    BY <1>2, <1>3, <2>1, Zenon DEF Standing
  <2>2. ASSUME NEW r \in Reqs, Rotate(r), spent' = spent \cup {req[r].old}, ended' = ended
        PROVE  Standing(ended, spent)'
    <3>1. \A s \in Rows' : sessions'[s].refresh # req[r].old
      BY <2>2, ExchangeStands, Zenon DEF AuthInv
    <3> QED
      BY <1>2, <1>3, <2>2, <3>1, Zenon DEF Standing
  <2>3. ASSUME NEW r \in Reqs, RevokeSession(r), spent' = spent,
               ended' = ended \cup {req[r].sid}
        PROVE  Standing(ended, spent)'
    <3>1. req[r].sid \in Rows' /\ sessions'[req[r].sid].revoked
      BY <2>3, LogoutStands, Zenon DEF AuthInv
    <3> QED
      BY <1>2, <1>3, <2>3, <3>1, Zenon DEF Standing
  <2> QED
    BY <2>1, <2>2, <2>3, AnswersGrow, Zenon
<1> QED
  BY <1>1, <1>4, Zenon DEF AuthInv

\* Accounts, devices and sessions keep their inductive invariant.
THEOREM Invariance == Spec => []AuthInv
<1>1. Init => AuthInv
  <2>1. Init => Standing(ended, spent)
    BY Zenon DEF Init, Standing, Rows
  <2> QED
    BY <2>1, InitInv, InitType, Zenon DEF AuthInv
<1> QED
  BY <1>1, StepAuth, PTL DEF Spec

\* Every reachable state has the declared types.
THEOREM TypeCorrect == Spec => []TypeOK
<1>1. AuthInv => TypeOK
  BY DEF AuthInv
<1> QED
  BY <1>1, Invariance, PTL

\* What the invariant says of tokens.
LEMMA OneSession == IndInv => TokenNamesOneSession
<1> SUFFICES ASSUME IndInv, NEW x \in granted, NEW s \in Rows, sessions[s].refresh = x[2]
             PROVE  s = x[1]
  BY Zenon DEF TokenNamesOneSession, IndInv, Handed
<1>1. x[1] \in SessionIds /\ x[2] \in 1..drawn /\ x = <<x[1], x[2]>>
  BY DEF IndInv, Numbers
<1>2. PICK t, k : t = x[1] /\ k = x[2]
  OBVIOUS
<1>3. t \in SessionIds /\ k \in 1..drawn /\ <<t, k>> \in granted
  BY <1>1, <1>2, Zenon
<1>4. s \in SessionIds /\ <<s, k>> \in granted
  BY <1>2 DEF IndInv, Handed, Rows
<1>5. s = t
  BY <1>3, <1>4, Zenon DEF IndInv, Handed
<1> QED
  BY <1>2, <1>5, Zenon

LEMMA ChainFact == IndInv => AuthFindsAccount
  BY Zenon DEF IndInv, Chain, AuthFindsAccount

\* What it means that an answer stands.
LEMMA StandingFacts ==
  ASSUME IndInv, NEW E, NEW K, Standing(E, K)
  PROVE  /\ \A x \in granted :
              x[1] \in E => LiveByAccess(x[2]) = {} /\ LiveByRefresh(x[2]) = {}
         /\ \A k \in K : LiveByRefresh(k) = {}
<1>1. ASSUME NEW x \in granted, x[1] \in E
      PROVE  LiveByAccess(x[2]) = {} /\ LiveByRefresh(x[2]) = {}
  BY <1>1, OneSession, Zenon DEF Standing, TokenNamesOneSession, LiveByAccess, LiveByRefresh
<1>2. ASSUME NEW k \in K PROVE LiveByRefresh(k) = {}
  BY <1>2, Zenon DEF Standing, LiveByRefresh
<1> QED
  BY <1>1, <1>2, Zenon

LEMMA SafetyFacts ==
  AuthInv => AuthFindsAccount /\ TokenNamesOneSession /\ LogoutIsFinal /\ SpentIsDead
<1> SUFFICES ASSUME AuthInv
             PROVE  AuthFindsAccount /\ TokenNamesOneSession /\ LogoutIsFinal /\ SpentIsDead
  OBVIOUS
<1>1. AuthFindsAccount /\ TokenNamesOneSession
  BY ChainFact, OneSession, Zenon DEF AuthInv
<1>2. PICK E, K : E = ended /\ K = spent
  BY Zenon
<1>3. LogoutIsFinal /\ SpentIsDead
  BY <1>2, StandingFacts, Zenon DEF AuthInv, LogoutIsFinal, SpentIsDead
<1> QED
  BY <1>1, <1>3, Zenon

\* Whoever passes the session check has a registered account.
THEOREM AuthReachesAccount == Spec => []AuthFindsAccount
  BY SafetyFacts, Invariance, PTL

\* A token opens the session it was handed out for and no other.
THEOREM TokensAreUnique == Spec => []TokenNamesOneSession
  BY SafetyFacts, Invariance, PTL

\* No token handed out for a session opens it after its logout was answered,
\* however its refreshes and logouts overlap.
THEOREM LogoutStays == Spec => []LogoutIsFinal
  BY SafetyFacts, Invariance, PTL

\* A refresh token that was exchanged is not accepted again.
THEOREM SpentStaysDead == Spec => []SpentIsDead
  BY SafetyFacts, Invariance, PTL

(***************************************************************************)
(* The in-memory store.  A snapshot is sound because an export never sees  *)
(* an operation on a vector between its clone and the last one: while it   *)
(* runs, what it has cloned is what the vectors still hold (Cloning).  A   *)
(* sound snapshot has all the invariant says of the tables, and the        *)
(* answers that stood when it was taken stand in it.  So a restart from it *)
(* starts from the invariant again, with those answers standing.           *)
(***************************************************************************)
Cloning ==
  \/ exporting = <<>>
  \/ exporting = <<accounts>>
  \/ exporting = <<accounts, devices>>

\* What the invariant says of the vectors, of a copy of them.
Sound(S) ==
  /\ S.accounts \subseteq Usernames
  /\ S.devices \in [DeviceIds -> Usernames \cup {None}]
  /\ S.sessions \in [SessionIds -> Session \cup {None}]
  /\ \A d \in DeviceIds : S.devices[d] # None => S.devices[d] \in S.accounts
  /\ \A s \in SessionIds : S.sessions[s] # None =>
       /\ S.devices[S.sessions[s].device] # None
       /\ S.sessions[s].access = S.sessions[s].refresh
       /\ <<s, S.sessions[s].refresh>> \in granted
       /\ S.sessions[s].refresh \notin S.spent
  /\ S.spent \subseteq spent
  /\ S.ended \subseteq ended
  /\ \A s \in S.ended :
       s \in SessionIds /\ S.sessions[s] # None /\ S.sessions[s].revoked

MemoryInv ==
  /\ TypeOK
  /\ IndInv
  /\ Standing(ended \ reopened, spent \ revived)
  /\ Cloning
  /\ Sound(snapshot)

\* The vectors themselves are sound.
LEMMA TablesAreSound ==
  ASSUME TypeOK, IndInv, Standing(ended \ reopened, spent \ revived)
  PROVE  Sound(Cloned(accounts, devices))
<1> DEFINE S == Cloned(accounts, devices)
<1>1. /\ S.accounts = accounts /\ S.devices = devices /\ S.sessions = sessions
      /\ S.spent = spent \ revived /\ S.ended = ended \ reopened
  BY DEF Cloned
<1> HIDE DEF S
<1>2. \A s \in SessionIds : sessions[s] # None =>
        /\ devices[sessions[s].device] # None
        /\ sessions[s].access = sessions[s].refresh
        /\ <<s, sessions[s].refresh>> \in granted
        /\ sessions[s].refresh \notin spent \ revived
  BY Zenon DEF IndInv, Chain, Handed, Standing, Rows
<1>3. \A s \in ended \ reopened :
        s \in SessionIds /\ sessions[s] # None /\ sessions[s].revoked
  BY Zenon DEF Standing, Rows
<1>4. spent \ revived \subseteq spent /\ ended \ reopened \subseteq ended
  BY Zenon
<1>5. Sound(S)
  BY <1>1, <1>2, <1>3, <1>4, Zenon DEF Sound, TypeOK, IndInv, Chain
<1> QED
  BY <1>5, Zenon DEF S

\* More answers to clients do not hurt a copy.
LEMMA CopyStays ==
  ASSUME granted \subseteq granted', spent \subseteq spent', ended \subseteq ended',
         NEW S, Sound(S)
  PROVE  Sound(S)'
  BY Zenon DEF Sound

\* No step of a handler or of the clock takes an answer back.
LEMMA AnswersStay ==
  ASSUME [Next]_vars
  PROVE  granted \subseteq granted' /\ spent \subseteq spent' /\ ended \subseteq ended'
<1>1. granted \subseteq granted'
  BY Zenon
  DEF Next, Call, Step, vars, RegisterAccount, LoginLookup, CreateDevice,
      IssueSession, RefreshLookup, Rotate, LogoutLookup, RevokeSession, AuthedDevice,
      ResolveAccount, Abort, Tick
<1> QED
  BY <1>1, AnswersGrow, Zenon

\* The handlers that answer neither a refresh nor a logout.
LEMMA OthersAnswerNothing ==
  ASSUME NEW r \in Reqs, OnAccounts(r) \/ OnDevices(r) \/ OnSessions(r) \/ Abort(r)
  PROVE  UNCHANGED <<spent, ended>>
  BY Zenon
  DEF OnAccounts, OnDevices, OnSessions, RegisterAccount, LoginLookup, CreateDevice,
      IssueSession, RefreshLookup, LogoutLookup, AuthedDevice, ResolveAccount, Abort

\* An operation keeps what stands and adds what it answers.
LEMMA OperationStands ==
  ASSUME IndInv, Standing(ended \ reopened, spent \ revived), [Next]_vars,
         NEW r \in Reqs, Operation(r)
  PROVE  Standing(ended \ reopened, spent \ revived)'
<1>1. PICK E, K : E = ended \ reopened /\ K = spent \ revived
  BY Zenon
<1>2. /\ \A s \in Rows' : sessions'[s].refresh \notin K
      /\ \A s \in E : s \in Rows' /\ sessions'[s].revoked
  <2>1. K \in SUBSET spent /\ Standing(E, K)
    BY <1>1, Zenon
  <2> QED
    BY <2>1, AnswersStand, Zenon
<1>3. CASE UNCHANGED <<spent, ended>> /\ UNCHANGED undone
  BY <1>1, <1>2, <1>3, Zenon DEF Standing, undone
<1>4. CASE Rotate(r) /\ revived' = revived \ {req[r].old} /\ UNCHANGED reopened
  <2>1. PICK o : o = req[r].old
    BY Zenon
  <2>2. spent' = spent \cup {o} /\ ended' = ended /\ reopened' = reopened
        /\ revived' = revived \ {o}
    BY <1>4, <2>1, Zenon DEF Rotate
  <2>3. \A s \in Rows' : sessions'[s].refresh # o
    BY <1>4, <2>1, ExchangeStands, Zenon
  <2>4. \A k \in spent' \ revived' : k \in K \/ k = o
    BY <1>1, <2>2, Zenon
  <2> QED
    BY <1>1, <1>2, <2>2, <2>3, <2>4, Zenon DEF Standing
<1>5. CASE RevokeSession(r) /\ reopened' = reopened \ {req[r].sid} /\ UNCHANGED revived
  <2>1. PICK t : t = req[r].sid
    BY Zenon
  <2>2. spent' = spent /\ ended' = ended \cup {t} /\ revived' = revived
        /\ reopened' = reopened \ {t}
    BY <1>5, <2>1, Zenon DEF RevokeSession
  <2>3. t \in Rows' /\ sessions'[t].revoked
    BY <1>5, <2>1, LogoutStands, Zenon
  <2>4. \A s \in ended' \ reopened' : s \in E \/ s = t
    BY <1>1, <2>2, Zenon
  <2> QED
    BY <1>1, <1>2, <2>2, <2>3, <2>4, Zenon DEF Standing
<1> QED
  BY <1>3, <1>4, <1>5, OthersAnswerNothing, Zenon DEF Operation, Answer

\* The guards of an export hold off the operations that would outdate it.
LEMMA GuardsHold ==
  ASSUME Cloning, NEW r \in Reqs, Operation(r)
  PROVE  Cloning' /\ Next /\ UNCHANGED snapshot
<1>1. UNCHANGED process
  BY DEF Operation
<1>2. Next
  BY Zenon DEF Operation, OnAccounts, OnDevices, OnSessions, Answer, Next, Call, Step
<1> SUFFICES Cloning'
  BY <1>1, <1>2 DEF process
<1>3. CASE exporting = <<>>
  BY <1>1, <1>3 DEF process, Cloning
<1>4. CASE exporting = <<accounts>> \/ exporting = <<accounts, devices>>
  <2>1. 1 \in Held
    BY <1>4 DEF Held
  <2>2. accounts' = accounts
    BY <2>1, Zenon DEF Operation, OnDevices, OnSessions, Answer, CreateDevice, IssueSession, RefreshLookup,
                Rotate, LogoutLookup, RevokeSession, AuthedDevice, ResolveAccount, Abort
  <2>3. CASE exporting = <<accounts>>
    BY <1>1, <2>2, <2>3 DEF process, Cloning
  <2>4. CASE exporting = <<accounts, devices>>
    <3>1. 2 \in Held
      BY <2>4 DEF Held
    <3>2. devices' = devices
      BY <2>1, <3>1, Zenon DEF Operation, OnSessions, Answer, IssueSession, RefreshLookup, Rotate,
                        LogoutLookup, RevokeSession, AuthedDevice, Abort
    <3> QED
      BY <1>1, <2>2, <2>4, <3>2 DEF process, Cloning
  <2> QED
    BY <1>4, <2>3, <2>4
<1> QED
  BY <1>3, <1>4 DEF Cloning

\* A process that starts from a sound snapshot is sound, and what stood when
\* the snapshot was taken stands.
LEMMA ImportIsSound ==
  ASSUME MemoryInv, Restart
  PROVE  TypeOK' /\ IndInv' /\ Standing(ended \ reopened, spent \ revived)'
<1>1. PICK S : S = snapshot
  BY Zenon
<1>2. /\ accounts' = S.accounts /\ devices' = S.devices /\ sessions' = S.sessions
      /\ granted' = granted /\ spent' = spent /\ ended' = ended
      /\ reopened' = ended \ S.ended /\ revived' = spent \ S.spent
      /\ drawn' = drawn /\ now' = now /\ req' = [r \in Reqs |-> None]
  BY <1>1, Zenon DEF Restart
<1>3. Sound(S)
  BY <1>1 DEF MemoryInv
<1>4. \A r \in Reqs : req'[r] = None
  BY <1>2
<1>5. \A s : s \in Rows' <=> s \in SessionIds /\ S.sessions[s] # None
  BY <1>2 DEF Rows
<1>6. TypeOK'
  <2>1. req' \in [Reqs -> Handler \cup {None}]
    BY <1>2, Zenon
  <2> QED
    BY <1>2, <1>3, <2>1, Zenon DEF MemoryInv, TypeOK, Sound
<1>7. Numbers'
  <2>1. /\ S.sessions \in [SessionIds -> Session \cup {None}]
        /\ S.devices = [d \in DeviceIds |-> S.devices[d]]
    BY <1>3, Zenon DEF Sound
  <2> QED
    BY <1>2, <1>4, <2>1, Zenon DEF MemoryInv, IndInv, Numbers
<1>8. Chain'
  <2>1. \A s \in SessionIds : S.sessions[s] # None => S.sessions[s].device \in DeviceIds
    BY <1>3, Zenon DEF Sound, Session
  <2> QED
    BY <1>2, <1>3, <1>4, <1>5, <2>1, ZenonT(20) DEF Chain, Sound, At
<1>9. Handed'
  BY <1>2, <1>3, <1>5, Zenon DEF Handed, Sound, MemoryInv, IndInv
<1>10. Drawn' /\ Targets'
  BY <1>4, Zenon DEF Drawn, Targets, At
<1>11. Standing(ended \ reopened, spent \ revived)'
  <2>1. /\ \A s \in ended' \ reopened' : s \in S.ended
        /\ \A k \in spent' \ revived' : k \in S.spent
    BY <1>2, Zenon
  <2> QED
    BY <1>2, <1>3, <1>5, <2>1, Zenon DEF Standing, Sound
<1> QED
  BY <1>6, <1>7, <1>8, <1>9, <1>10, <1>11, Zenon DEF IndInv

\* Handlers, exports and restarts keep the invariant.
LEMMA StepMemory == MemoryInv /\ [MemoryNext]_memoryVars => MemoryInv'
<1> SUFFICES ASSUME MemoryInv, [MemoryNext]_memoryVars PROVE MemoryInv'
  OBVIOUS
<1>1. ASSUME [Next]_vars, Cloning', UNCHANGED snapshot,
             Standing(ended \ reopened, spent \ revived)'
      PROVE  MemoryInv'
  <2>1. TypeOK' /\ IndInv'
    BY <1>1, StepType, StepInv, Zenon DEF MemoryInv, TypeOK
  <2>2. PICK S : S = snapshot
    BY Zenon
  <2>3. Sound(S)'
    BY <1>1, <2>2, AnswersStay, CopyStays, Zenon DEF MemoryInv
  <2> QED
    BY <1>1, <2>1, <2>2, <2>3, Zenon DEF MemoryInv, Sound
<1>2. ASSUME NEW r \in Reqs, Operation(r) PROVE MemoryInv'
  <2>1. Cloning' /\ [Next]_vars /\ UNCHANGED snapshot
    BY <1>2, GuardsHold, Zenon DEF MemoryInv
  <2>2. Standing(ended \ reopened, spent \ revived)'
    BY <1>2, <2>1, OperationStands, Zenon DEF MemoryInv
  <2> QED
    BY <1>1, <2>1, <2>2, Zenon
<1>3. ASSUME UNCHANGED <<accounts, devices, sessions, spent, ended, undone>>
      PROVE  /\ Standing(ended \ reopened, spent \ revived)'
             /\ exporting' = exporting => Cloning'
  <2>1. Standing(ended \ reopened, spent \ revived)'
    BY <1>3, Zenon DEF MemoryInv, Standing, Rows, undone
  <2>2. exporting' = exporting => Cloning'
    BY <1>3, Zenon DEF MemoryInv, Cloning
  <2> QED
    BY <2>1, <2>2, Zenon
<1>4. CASE Tick /\ UNCHANGED <<process, undone>>
  BY <1>1, <1>3, <1>4, Zenon DEF Tick, process, Next
<1>5. CASE ExportAccounts \/ ExportDevices
  <2>1. UNCHANGED <<vars, undone, snapshot>>
    BY <1>5, Zenon DEF ExportAccounts, ExportDevices
  <2>2. UNCHANGED <<accounts, devices, sessions, spent, ended, undone>>
    BY <2>1, Zenon DEF vars
  <2>3. Cloning'
    BY <1>5, <2>2, SMTT(20) DEF ExportAccounts, ExportDevices, MemoryInv, Cloning
  <2> QED
    BY <1>1, <1>3, <2>1, <2>2, <2>3, Zenon
<1>6. CASE ExportSessions
  <2>1. UNCHANGED <<vars, undone>> /\ exporting' = <<>>
        /\ snapshot' = Cloned(exporting[1], exporting[2])
    BY <1>6, Zenon DEF ExportSessions
  <2>2. exporting = <<accounts, devices>>
    BY <1>6, SMTT(20) DEF ExportSessions, MemoryInv, Cloning
  <2>3. PICK S : S = Cloned(accounts, devices)
    BY Zenon
  <2>4. snapshot' = S
    BY <2>1, <2>2, <2>3
  <2>5. UNCHANGED <<accounts, devices, sessions, spent, ended, undone>>
    BY <2>1, Zenon DEF vars
  <2>6. TypeOK' /\ IndInv'
    BY <2>1, StepType, StepInv, Zenon DEF MemoryInv, TypeOK
  <2>7. Sound(S)'
    BY <2>1, <2>3, TablesAreSound, CopyStays, AnswersStay, Zenon DEF MemoryInv
  <2> QED
    BY <1>3, <2>1, <2>4, <2>5, <2>6, <2>7, Zenon DEF MemoryInv, Cloning, Sound
<1>7. CASE Restart
  <2>1. TypeOK' /\ IndInv' /\ Standing(ended \ reopened, spent \ revived)'
    BY <1>7, ImportIsSound
  <2>2. snapshot' = snapshot /\ exporting' = <<>> /\ UNCHANGED <<granted, spent, ended>>
    BY <1>7, Zenon DEF Restart
  <2> QED
    BY <2>1, <2>2, Zenon DEF MemoryInv, Cloning, Sound
<1>8. CASE UNCHANGED memoryVars
  <2>1. UNCHANGED <<vars, undone, snapshot, exporting>>
    BY <1>8, Zenon DEF memoryVars, process
  <2>2. UNCHANGED <<accounts, devices, sessions, spent, ended, undone>>
    BY <2>1, Zenon DEF vars
  <2> QED
    BY <1>1, <1>3, <2>1, <2>2, Zenon
<1> QED
  BY <1>2, <1>4, <1>5, <1>6, <1>7, <1>8, Zenon DEF MemoryNext

\* The store and its snapshots keep their inductive invariant.
THEOREM MemoryInvariance == MemorySpec => []MemoryInv
<1>1. MemoryInit => MemoryInv
  <2> SUFFICES ASSUME MemoryInit PROVE MemoryInv
    OBVIOUS
  <2>1. Init /\ exporting = <<>> /\ snapshot = Cloned(accounts, devices)
    BY DEF MemoryInit
  <2>2. TypeOK /\ IndInv /\ Standing(ended \ reopened, spent \ revived)
    BY <2>1, InitType, InitInv, Zenon DEF Init, Standing, Rows
  <2> QED
    BY <2>1, <2>2, TablesAreSound DEF MemoryInv, Cloning
<1> QED
  BY <1>1, StepMemory, PTL DEF MemorySpec

\* Every reachable state of the in-memory store has the declared types.
THEOREM MemoryTypeCorrect == MemorySpec => []TypeOK
<1>1. MemoryInv => TypeOK
  BY DEF MemoryInv
<1> QED
  BY <1>1, MemoryInvariance, PTL

\* Every session of a snapshot has its device in it, and every device its
\* account, whatever handlers did while it was taken.
THEOREM SnapshotsAreWhole == MemorySpec => []SnapshotIsWhole
<1>1. MemoryInv => SnapshotIsWhole
  BY Zenon DEF MemoryInv, Sound, SnapshotIsWhole
<1> QED
  BY <1>1, MemoryInvariance, PTL

\* Across restarts from a snapshot a token still names one session, and its
\* session one account, whatever the restart made the store forget.
THEOREM RestartsKeepTokens == MemorySpec => [](AuthFindsAccount /\ TokenNamesOneSession)
<1>1. MemoryInv => AuthFindsAccount /\ TokenNamesOneSession
  BY ChainFact, OneSession, Zenon DEF MemoryInv
<1> QED
  BY <1>1, MemoryInvariance, PTL

LEMMA KeptFacts == MemoryInv => LogoutIsKept /\ SpentIsKept
<1> SUFFICES ASSUME MemoryInv PROVE LogoutIsKept /\ SpentIsKept
  OBVIOUS
<1>1. PICK E, K : E = ended \ reopened /\ K = spent \ revived
  BY Zenon
<1> QED
  BY <1>1, StandingFacts, Zenon DEF MemoryInv, LogoutIsKept, SpentIsKept

\* A restart takes back the logouts answered since the export it imports, and
\* no others.
THEOREM RestartsKeepLogouts == MemorySpec => []LogoutIsKept
  BY KeptFacts, MemoryInvariance, PTL

\* A restart takes back the exchanges of refresh tokens answered since the
\* export it imports, and no others.
THEOREM RestartsKeepExchanges == MemorySpec => []SpentIsKept
  BY KeptFacts, MemoryInvariance, PTL

(***************************************************************************)
(* Presence                                                                *)
(*                                                                         *)
(* What keeps the count from running out is not a fact about one socket:   *)
(* the count of an account is at least the number of tasks between their   *)
(* increment and their decrement (Covered).  For an account none of whose  *)
(* devices had two sockets at once it is exactly that number, because a    *)
(* disconnect then always finds its device in `connected` (Registry).      *)
(***************************************************************************)
Covered == \A a \in Accounts : Cardinality(CountedSockets(a)) <= online[a]

\* No device of the account had two sockets at once.
Single(a) == \A d \in overlapped : Owner[d] # a

Exact ==
  \A a \in Accounts : Single(a) => Cardinality(CountedSockets(a)) = online[a]

\* Of the devices that never had two sockets at once, `connected` holds those
\* of the registered sockets, one for each.
Registry ==
  /\ \A s, o \in Sockets :
       /\ pc[s] \in Inserted
       /\ pc[o] \in Inserted
       /\ Device[s] = Device[o]
       /\ Device[s] \notin overlapped
       => s = o
  /\ \A s \in Sockets :
       pc[s] \in Inserted /\ Device[s] \notin overlapped => Device[s] \in connected
  /\ \A d \in connected \ overlapped :
       \E s \in Sockets : pc[s] \in Inserted /\ Device[s] = d

PresenceInv ==
  /\ PresenceTypeOK
  /\ Covered
  /\ Registry
  /\ Exact

\* The counted sockets of an account are finitely many.
LEMMA CountedFinite ==
  \A a \in Accounts : /\ IsFiniteSet(CountedSockets(a))
                      /\ Cardinality(CountedSockets(a)) \in Nat
<1> TAKE a \in Accounts
<1>1. CountedSockets(a) \in SUBSET Sockets
  BY DEF CountedSockets
<1> QED
  BY <1>1, FS_Subset, FS_CardinalityType, PresenceAssumption

\* Before any connection nobody is counted.
LEMMA PresenceInitInv == PresenceInit => PresenceInv
<1> SUFFICES ASSUME PresenceInit PROVE PresenceInv
  OBVIOUS
<1>1. PresenceTypeOK
  BY PresenceAssumption DEF PresenceInit, PresenceTypeOK, Stages, Nothing
<1>2. \A a \in Accounts : CountedSockets(a) = {}
  BY Zenon DEF PresenceInit, CountedSockets, Counted
<1>3. Covered /\ Exact
  BY <1>2, FS_EmptySet DEF Covered, Exact, PresenceInit
<1>4. Registry
  BY DEF PresenceInit, Registry, Inserted
<1> QED
  BY <1>1, <1>3, <1>4, Zenon DEF PresenceInv

\* The types are kept by every step of a socket task and by a restart.
LEMMA PresenceStepType == PresenceTypeOK /\ [PresenceNext]_presenceVars => PresenceTypeOK'
<1> SUFFICES ASSUME PresenceTypeOK, [PresenceNext]_presenceVars PROVE PresenceTypeOK'
  OBVIOUS
<1> USE PresenceAssumption DEF PresenceTypeOK, Stages, Account
<1>1. ASSUME NEW s \in Sockets, ConnectInsert(s) PROVE PresenceTypeOK'
  BY <1>1 DEF ConnectInsert, Reach
<1>2. ASSUME NEW s \in Sockets, ConnectCount(s) PROVE PresenceTypeOK'
  <2>1. /\ online' = [online EXCEPT ![Account(s)] = online[Account(s)] + 1]
        /\ \/ Reach(s, "online") /\ Changes(s)
           \/ Reach(s, "subscribe") /\ UNCHANGED contended
        /\ UNCHANGED <<connected, last_seen, todo, stamp, heard, clock, overlapped, connects>>
    BY ONLY <1>2, ZenonT(20) DEF ConnectCount, CountUp
  <2>2. CASE Reach(s, "online") /\ Changes(s)
    BY <2>1, <2>2, SMTT(20) DEF Reach, Changes
  <2>3. CASE Reach(s, "subscribe") /\ UNCHANGED contended
    BY <2>1, <2>3, SMTT(20) DEF Reach
  <2> QED
    BY ONLY <2>1, <2>2, <2>3, Zenon
<1>3. ASSUME NEW s \in Sockets, Snapshot(s) PROVE PresenceTypeOK'
  BY <1>3, Zenon DEF Snapshot, Reach
<1>4. ASSUME NEW s \in Sockets, NEW d \in Devices, Tell(s, d) PROVE PresenceTypeOK'
  <2>1. heard' \in [Sockets -> [Accounts -> BOOLEAN \cup {Unknown}]]
    BY <1>4, Zenon DEF Tell
  <2> QED
    BY <1>4, <2>1, Zenon DEF Tell
<1>5. ASSUME NEW s \in Sockets, Told(s) \/ Subscribe(s) PROVE PresenceTypeOK'
  BY <1>5, Zenon DEF Told, Subscribe, Reach
<1>6. ASSUME NEW s \in Sockets, DisconnectRemove(s) PROVE PresenceTypeOK'
  BY <1>6, Zenon DEF DisconnectRemove, Without, Reach, Nothing
<1>7. ASSUME NEW s \in Sockets, Uncount(s) PROVE PresenceTypeOK'
  <2>1. PICK n \in Nat : n = online[Account(s)]
    OBVIOUS
  <2>2. /\ online' = [online EXCEPT ![Account(s)] = IF n = 0 THEN 0 ELSE n - 1]
        /\ \/ /\ clock' = clock + 1
              /\ stamp' = [stamp EXCEPT ![s] = clock + 1]
              /\ pc' = [pc EXCEPT ![s] = "persist"]
              /\ Changes(s)
           \/ /\ pc' = [pc EXCEPT ![s] = "closed"]
              /\ UNCHANGED <<clock, stamp, contended>>
        /\ UNCHANGED <<connected, last_seen, todo, heard, overlapped, connects>>
    BY ONLY <1>7, <2>1, Zenon DEF Uncount, CountDown, Reach
  <2>3. PICK k \in Nat : k = IF n = 0 THEN 0 ELSE n - 1
    BY <2>1
  <2>4. online' = [online EXCEPT ![Account(s)] = k]
    BY ONLY <2>2, <2>3, Zenon
  <2>5. online' \in [Accounts -> Nat]
    BY <2>4
  <2>6. /\ clock' \in Nat /\ stamp' \in [Sockets -> Nat] /\ pc' \in [Sockets -> Stages]
        /\ contended' \subseteq Accounts
    <3>1. CASE UNCHANGED <<clock, stamp, contended>> /\ pc' = [pc EXCEPT ![s] = "closed"]
      BY <3>1, Zenon
    <3>2. CASE /\ clock' = clock + 1
               /\ stamp' = [stamp EXCEPT ![s] = clock + 1]
               /\ pc' = [pc EXCEPT ![s] = "persist"]
               /\ Changes(s)
      BY <3>2 DEF Changes
    <3> QED
      BY ONLY <2>2, <3>1, <3>2, Zenon
  <2>7. UNCHANGED <<connected, last_seen, todo, heard, overlapped, connects>>
    BY ONLY <2>2, ZenonT(20)
  <2> QED
    BY <2>5, <2>6, <2>7, Zenon
<1>8. ASSUME NEW s \in Sockets, SetLastSeen(s) \/ SetLastSeenFails(s) PROVE PresenceTypeOK'
  BY <1>8, Zenon DEF SetLastSeen, Instant, SetLastSeenFails, Reach
<1>9. CASE NewProcess
  BY <1>9, Zenon DEF NewProcess, Nothing
<1>10. CASE UNCHANGED presenceVars
  BY <1>10, Zenon DEF presenceVars
<1> QED
  BY <1>1, <1>2, <1>3, <1>4, <1>5, <1>6, <1>7, <1>8, <1>9, <1>10, Zenon DEF PresenceNext, TaskStep

\* A step that moves no task into or out of the counted and the registered
\* stages, and touches neither map, keeps the counts and the registry.
LEMMA PresenceFrame ==
  ASSUME PresenceInv, UNCHANGED <<connected, online, overlapped>>,
         \A s \in Sockets : /\ pc'[s] \in Counted <=> pc[s] \in Counted
                            /\ pc'[s] \in Inserted <=> pc[s] \in Inserted
  PROVE  (Covered /\ Registry /\ Exact)'
<1>1. \A a \in Accounts : CountedSockets(a)' = CountedSockets(a)
  BY Zenon DEF CountedSockets
<1> QED
  BY <1>1 DEF PresenceInv, Covered, Exact, Registry, Single

\* Every step keeps the counts and the registry.
LEMMA PresenceStepInv == PresenceInv /\ [PresenceNext]_presenceVars => PresenceInv'
<1> SUFFICES ASSUME PresenceInv, [PresenceNext]_presenceVars
             PROVE  (Covered /\ Registry /\ Exact)'
  BY PresenceStepType DEF PresenceInv
<1> DEFINE Goal == (Covered /\ Registry /\ Exact)'
<1>0. pc \in [Sockets -> Stages] /\ online \in [Accounts -> Nat]
      /\ connected \subseteq Devices
  BY DEF PresenceInv, PresenceTypeOK
<1>1. ASSUME NEW s \in Sockets, ConnectInsert(s) PROVE Goal
  <2>1. \A a \in Accounts : CountedSockets(a)' = CountedSockets(a)
    BY <1>0, <1>1, Zenon DEF ConnectInsert, Reach, CountedSockets, Counted
  <2>2. (Covered /\ Exact)'
    BY <1>1, <2>1, Zenon DEF ConnectInsert, PresenceInv, Covered, Exact, Single
  <2>3. Registry'
    <3>1. /\ overlapped \subseteq overlapped'
          /\ \A o \in Sockets :
               Device[o] = Device[s] /\ pc[o] \in Inserted => Device[s] \in overlapped'
      BY <1>1, Zenon DEF ConnectInsert
    <3> QED
      BY <1>0, <1>1, <3>1 DEF ConnectInsert, Reach, PresenceInv, Registry, Inserted
  <2> QED
    BY <2>2, <2>3, Zenon DEF PresenceInv
<1>2. ASSUME NEW s \in Sockets, ConnectCount(s) PROVE Goal
  <2> DEFINE b == Account(s)
  <2>1. b \in Accounts
    BY PresenceAssumption DEF Account
  <2>2. CountedSockets(b)' = CountedSockets(b) \cup {s} /\ s \notin CountedSockets(b)
    BY <1>0, <1>2, Zenon DEF ConnectCount, Reach, CountedSockets, Counted, Account
  <2>3. \A a \in Accounts \ {b} : CountedSockets(a)' = CountedSockets(a)
    BY <1>0, <1>2 DEF ConnectCount, Reach, CountedSockets, Counted, Account
  <2>4. Cardinality(CountedSockets(b)') = Cardinality(CountedSockets(b)) + 1
    BY <2>1, <2>2, CountedFinite, FS_AddElement, Zenon
  <2>5. online' = [online EXCEPT ![b] = online[b] + 1]
    BY <1>2, Zenon DEF ConnectCount, CountUp
  <2>6. (Covered /\ Exact)'
    <3>1. \A a \in Accounts : Single(a)' => Single(a)
      BY <1>2, Zenon DEF ConnectCount, Single
    <3> QED
      BY <1>0, <2>1, <2>3, <2>4, <2>5, <3>1, CountedFinite DEF PresenceInv, Covered, Exact
  <2>7. Registry'
    BY <1>0, <1>2 DEF ConnectCount, Reach, PresenceInv, Registry, Inserted
  <2> QED
    BY <2>6, <2>7 DEF PresenceInv
<1>3. ASSUME NEW s \in Sockets, DisconnectRemove(s), Device[s] \in connected PROVE Goal
  <2>1. \A a \in Accounts : CountedSockets(a)' = CountedSockets(a)
    BY <1>0, <1>3, Zenon DEF DisconnectRemove, Reach, CountedSockets, Counted
  <2>2. (Covered /\ Exact)'
    BY <1>3, <2>1, Zenon DEF DisconnectRemove, PresenceInv, Covered, Exact, Single
  <2>3. Registry'
    BY <1>0, <1>3 DEF DisconnectRemove, Without, Reach, PresenceInv, Registry, Inserted
  <2> QED
    BY <2>2, <2>3 DEF PresenceInv
<1>4. ASSUME NEW s \in Sockets, DisconnectRemove(s), Device[s] \notin connected
      PROVE  Goal
  <2>1. \A a \in Accounts : CountedSockets(a)' \in SUBSET CountedSockets(a)
    BY <1>0, <1>4 DEF DisconnectRemove, Reach, CountedSockets, Counted
  <2>2. \A a \in Accounts : /\ Cardinality(CountedSockets(a)') \in Nat
                            /\ Cardinality(CountedSockets(a)') <= Cardinality(CountedSockets(a))
    BY <2>1, CountedFinite, FS_Subset, FS_CardinalityType, Zenon
  <2>3. Covered'
    <3> SUFFICES ASSUME NEW a \in Accounts PROVE Cardinality(CountedSockets(a)') <= online'[a]
      BY Zenon DEF Covered
    <3>1. PICK m, n, k : /\ m = Cardinality(CountedSockets(a)')
                         /\ n = Cardinality(CountedSockets(a)) /\ k = online[a]
      BY Zenon
    <3>2. m \in Nat /\ m <= n /\ n \in Nat /\ n <= k /\ k \in Nat /\ online' = online
      BY <1>0, <1>4, <2>2, <3>1, CountedFinite, Zenon DEF DisconnectRemove, PresenceInv, Covered
    <3>3. m <= k
      BY ONLY <3>2
    <3> QED
      BY <3>1, <3>2, <3>3, Zenon
  <2>4. Device[s] \in overlapped
    BY <1>4 DEF DisconnectRemove, PresenceInv, Registry, Inserted
  <2>5. \A a \in Accounts : Single(a)' => CountedSockets(a)' = CountedSockets(a)
    BY <1>0, <1>4, <2>4, Zenon DEF DisconnectRemove, Reach, CountedSockets, Counted, Single, Account
  <2>6. Exact'
    BY <1>4, <2>5, Zenon DEF DisconnectRemove, PresenceInv, Exact, Single
  <2>7. Registry'
    BY <1>0, <1>4, <2>4 DEF DisconnectRemove, Without, Reach, PresenceInv, Registry, Inserted
  <2> QED
    BY <2>3, <2>6, <2>7, Zenon
<1>5. ASSUME NEW s \in Sockets, Uncount(s) PROVE Goal
  <2> DEFINE b == Account(s)
  <2>1. b \in Accounts
    BY PresenceAssumption DEF Account
  <2>2. pc' = [pc EXCEPT ![s] = "persist"] \/ pc' = [pc EXCEPT ![s] = "closed"]
    BY <1>5, Zenon DEF Uncount, Reach
  <2>3. CountedSockets(b)' = CountedSockets(b) \ {s} /\ s \in CountedSockets(b)
    BY <1>0, <1>5, <2>2, Zenon DEF Uncount, CountedSockets, Counted, Account
  <2>4. \A a \in Accounts \ {b} : CountedSockets(a)' = CountedSockets(a)
    BY <1>0, <2>2 DEF CountedSockets, Counted, Account
  <2>5. Cardinality(CountedSockets(b)') = Cardinality(CountedSockets(b)) - 1
    BY <2>1, <2>3, CountedFinite, FS_RemoveElement, Zenon
  <2>6. Cardinality(CountedSockets(b)) # 0
    BY <2>1, <2>3, CountedFinite, FS_EmptySet, Zenon
  <2>7. online[b] >= 1
    BY <1>0, <2>1, <2>6, CountedFinite DEF PresenceInv, Covered
  <2>8. online' = [online EXCEPT ![b] = online[b] - 1]
    <3>1. online[b] # 0
      BY <1>0, <2>1, <2>7, SMTT(20)
    <3> QED
      BY <1>5, <3>1, Zenon DEF Uncount, CountDown
  <2>9. (Covered /\ Exact)'
    <3>1. \A a \in Accounts : Single(a)' => Single(a)
      BY <1>5, Zenon DEF Uncount, Single
    <3> QED
      BY <1>0, <2>1, <2>4, <2>5, <2>8, <3>1, CountedFinite, SMTT(20) DEF PresenceInv, Covered, Exact
  <2>10. Registry'
    BY <1>0, <1>5, <2>2 DEF Uncount, PresenceInv, Registry, Inserted
  <2> QED
    BY <2>9, <2>10 DEF PresenceInv
<1>6. ASSUME NEW s \in Sockets,
             \/ Snapshot(s)
             \/ \E d \in Devices : Tell(s, d)
             \/ Told(s)
             \/ Subscribe(s)
             \/ SetLastSeen(s)
             \/ SetLastSeenFails(s)
      PROVE  Goal
  <2>1. UNCHANGED <<connected, online, overlapped>>
    BY <1>6, Zenon DEF Snapshot, Tell, Told, Subscribe, SetLastSeen, SetLastSeenFails
  <2>2. \A o \in Sockets : /\ pc'[o] \in Counted <=> pc[o] \in Counted
                           /\ pc'[o] \in Inserted <=> pc[o] \in Inserted
    BY <1>0, <1>6 DEF Snapshot, Tell, Told, Subscribe, SetLastSeen, SetLastSeenFails,
                      Reach, Counted, Inserted
  <2> QED
    BY <2>1, <2>2, PresenceFrame, Zenon
<1>7. CASE NewProcess
  <2>1. \A a \in Accounts : CountedSockets(a)' = {}
    BY <1>7, Zenon DEF NewProcess, CountedSockets, Counted
  <2>2. Covered' /\ Exact'
    BY <1>7, <2>1, FS_EmptySet DEF NewProcess, Covered, Exact
  <2>3. Registry'
    BY <1>7, Zenon DEF NewProcess, Registry, Inserted
  <2> QED
    BY <2>2, <2>3, Zenon
<1>8. CASE UNCHANGED presenceVars
  BY <1>8, PresenceFrame DEF presenceVars
<1> QED
  BY <1>1, <1>2, <1>3, <1>4, <1>5, <1>6, <1>7, <1>8 DEF PresenceNext, TaskStep

\* The presence maps keep their inductive invariant.
THEOREM PresenceInvariance == PresenceSpec => []PresenceInv
  BY PresenceInitInv, PresenceStepInv, PTL DEF PresenceSpec

\* Every reachable state has the declared types.
THEOREM PresenceTypeCorrect == PresenceSpec => []PresenceTypeOK
<1>1. PresenceInv => PresenceTypeOK
  BY Zenon DEF PresenceInv
<1> QED
  BY <1>1, PresenceInvariance, PTL

\* A task that uncounts, or is served, is one of the counted.
LEMMA CountedIsOnline ==
  ASSUME PresenceInv, NEW s \in Sockets, pc[s] \in Counted
  PROVE  online[Account(s)] >= 1
<1>1. Account(s) \in Accounts
  BY PresenceAssumption DEF Account
<1>2. s \in CountedSockets(Account(s))
  BY Zenon DEF CountedSockets
<1>3. Cardinality(CountedSockets(Account(s))) # 0
  BY <1>1, <1>2, CountedFinite, FS_EmptySet
<1> QED
  BY <1>1, <1>3, CountedFinite DEF PresenceInv, Covered, PresenceTypeOK

\* on_disconnect never meets an account without a count.
THEOREM CountNeverUnderflows == PresenceSpec => []NoUnderflow
<1>1. PresenceInv => NoUnderflow
  BY CountedIsOnline DEF NoUnderflow, Counted
<1> QED
  BY <1>1, PresenceInvariance, PTL

\* Whoever is being served is online, with any number of sockets per device.
THEOREM ServedIsOnline == PresenceSpec => []OpenIsOnline
<1>1. PresenceInv => OpenIsOnline
  BY CountedIsOnline DEF OpenIsOnline, Counted
<1> QED
  BY <1>1, PresenceInvariance, PTL

\* Broadcasts address every device being served that never had two sockets at
\* once.
THEOREM ServedIsConnected == PresenceSpec => []OpenIsConnected
<1>1. PresenceInv => OpenIsConnected
  BY Zenon DEF PresenceInv, Registry, OpenIsConnected, Inserted
<1> QED
  BY <1>1, PresenceInvariance, PTL

(***************************************************************************)
(* last_seen.  An account that is not contended has at most one task       *)
(* between a change and the end of its broadcast (Alone), so the instant   *)
(* that task holds is not older than the one stored (Fresh).               *)
(***************************************************************************)
Alone ==
  \A s, o \in Sockets :
    /\ pc[s] \in Telling
    /\ pc[o] \in Telling
    /\ Account(s) = Account(o)
    /\ Account(s) \notin contended
    => s = o

Fresh ==
  /\ \A a \in Accounts : last_seen[a] <= clock
  /\ \A s \in Sockets : stamp[s] <= clock
  /\ \A s \in Sockets :
       pc[s] = "persist" /\ Account(s) \notin contended => last_seen[Account(s)] <= stamp[s]

InOrder == PresenceTypeOK /\ Alone /\ Fresh

\* Every step keeps the tasks of an account in order.
LEMMA StepInOrder == InOrder /\ [PresenceNext]_presenceVars => InOrder'
<1> SUFFICES ASSUME InOrder, [PresenceNext]_presenceVars PROVE Alone' /\ Fresh'
  BY PresenceStepType, Zenon DEF InOrder
<1> USE PresenceAssumption DEF InOrder, PresenceTypeOK, Account
<1>1. ASSUME NEW s \in Sockets, ConnectInsert(s) PROVE Alone' /\ Fresh'
  BY <1>1 DEF ConnectInsert, Reach, Alone, Fresh, Telling
<1>2. ASSUME NEW s \in Sockets, ConnectCount(s) PROVE Alone' /\ Fresh'
  <2>1. /\ \/ pc' = [pc EXCEPT ![s] = "online"] /\ Changes(s)
           \/ pc' = [pc EXCEPT ![s] = "subscribe"] /\ UNCHANGED contended
        /\ UNCHANGED <<last_seen, stamp, clock>>
    BY ONLY <1>2, Zenon DEF ConnectCount, Reach
  <2>2. CASE pc' = [pc EXCEPT ![s] = "online"] /\ Changes(s)
    <3>1. Alone'
      BY <2>2, SMTT(20) DEF Changes, Alone, Telling
    <3>2. Fresh'
      BY <2>1, <2>2, Zenon DEF Changes, Fresh
    <3> QED
      BY <3>1, <3>2, Zenon
  <2>3. CASE pc' = [pc EXCEPT ![s] = "subscribe"] /\ UNCHANGED contended
    BY <2>1, <2>3, Zenon DEF Alone, Fresh, Telling
  <2> QED
    BY ONLY <2>1, <2>2, <2>3, Zenon
<1>3. ASSUME NEW s \in Sockets,
             \/ Snapshot(s)
             \/ \E d \in Devices : Tell(s, d)
             \/ Told(s)
             \/ Subscribe(s)
             \/ SetLastSeenFails(s)
             \/ DisconnectRemove(s)
      PROVE  Alone' /\ Fresh'
  <2>1. UNCHANGED <<last_seen, stamp, clock, contended>>
    BY <1>3, Zenon DEF Snapshot, Tell, Told, Subscribe, SetLastSeenFails, DisconnectRemove
  <2>2. \A o \in Sockets : /\ pc'[o] \in Telling => pc[o] \in Telling
                           /\ pc'[o] = "persist" => pc[o] = "persist"
    BY <1>3, SMTT(20) DEF Snapshot, Tell, Told, Subscribe, SetLastSeenFails, DisconnectRemove,
                Reach, Telling
  <2> QED
    BY <2>1, <2>2, Zenon DEF Alone, Fresh
<1>4. ASSUME NEW s \in Sockets, Uncount(s) PROVE Alone' /\ Fresh'
  <2>1. /\ \/ /\ clock' = clock + 1
              /\ stamp' = [stamp EXCEPT ![s] = clock + 1]
              /\ pc' = [pc EXCEPT ![s] = "persist"]
              /\ Changes(s)
           \/ /\ pc' = [pc EXCEPT ![s] = "closed"]
              /\ UNCHANGED <<clock, stamp, contended>>
        /\ UNCHANGED last_seen
    BY ONLY <1>4, ZenonT(20) DEF Uncount, Reach
  <2>2. CASE /\ clock' = clock + 1
             /\ stamp' = [stamp EXCEPT ![s] = clock + 1]
             /\ pc' = [pc EXCEPT ![s] = "persist"]
             /\ Changes(s)
    <3>1. Alone'
      BY <2>2, SMTT(20) DEF Changes, Alone, Telling
    <3>2. Fresh'
      BY <2>1, <2>2, SMTT(20) DEF Changes, Fresh
    <3> QED
      BY <3>1, <3>2, Zenon
  <2>3. CASE pc' = [pc EXCEPT ![s] = "closed"] /\ UNCHANGED <<clock, stamp, contended>>
    BY <2>1, <2>3, Zenon DEF Alone, Fresh, Telling
  <2> QED
    BY ONLY <2>1, <2>2, <2>3, Zenon
<1>5. ASSUME NEW s \in Sockets, SetLastSeen(s) PROVE Alone' /\ Fresh'
  BY <1>5, Zenon DEF SetLastSeen, Instant, Reach, Alone, Fresh, Telling
<1>6. CASE NewProcess
  BY <1>6, Zenon DEF NewProcess, Alone, Fresh, Telling
<1>7. CASE UNCHANGED presenceVars
  BY <1>7 DEF presenceVars, Alone, Fresh
<1> QED
  BY <1>1, <1>2, <1>3, <1>4, <1>5, <1>6, <1>7 DEF PresenceNext, TaskStep

\* last_seen does not go back to an earlier disconnect, for any number of
\* sockets, restarts and failed writes, while the account is not contended.
THEOREM LastSeenIsMonotone == PresenceSpec => LastSeenNeverGoesBack
<1>1. PresenceInit => InOrder
  <2> SUFFICES ASSUME PresenceInit PROVE Alone /\ Fresh
    BY PresenceInitInv DEF InOrder, PresenceInv
  <2> QED
    BY PresenceAssumption DEF PresenceInit, Alone, Fresh, Telling, Account
<1>2. InOrder /\ [PresenceNext]_presenceVars =>
        [\A a \in Accounts \ contended' : last_seen'[a] >= last_seen[a]]_presenceVars
  <2> SUFFICES ASSUME InOrder, [PresenceNext]_presenceVars, NEW a \in Accounts \ contended'
               PROVE  last_seen'[a] >= last_seen[a]
    BY Zenon
  <2> USE PresenceAssumption DEF InOrder, PresenceTypeOK
  <2>1. CASE UNCHANGED last_seen
    BY <2>1, SMTT(20)
  <2>2. ASSUME NEW s \in Sockets, SetLastSeen(s) PROVE last_seen'[a] >= last_seen[a]
    BY <2>2, SMTT(20) DEF SetLastSeen, Instant, Fresh, Account
  <2> QED
    BY <2>1, <2>2, Zenon
       DEF PresenceNext, TaskStep, presenceVars, ConnectInsert, ConnectCount, Snapshot, Tell,
           Told, Subscribe, DisconnectRemove, Uncount, SetLastSeenFails, NewProcess
<1> QED
  BY <1>1, <1>2, StepInOrder, PTL DEF PresenceSpec, LastSeenNeverGoesBack

\* For an account none of whose devices had two sockets at once, `online` is
\* the count of connected devices whenever no task is on its way in or out.
THEOREM CountIsExact == PresenceSpec => []OnlineCountsDevices
<1>1. PresenceInv => OnlineCountsDevices
  <2> SUFFICES ASSUME PresenceInv, Settled, NEW a \in Accounts, Single(a)
               PROVE  online[a] = Cardinality({d \in connected : Owner[d] = a})
    BY DEF OnlineCountsDevices, Single
  <2> DEFINE S == CountedSockets(a)
             T == {d \in connected : Owner[d] = a}
             f == [s \in S |-> Device[s]]
  <2>1. \A s \in S : s \in Sockets /\ pc[s] = "open" /\ Account(s) = a
    BY DEF CountedSockets, Settled, Counted
  <2>0. \A d \in Devices : Owner[d] = a => d \notin overlapped
    BY Zenon DEF Single
  <2>2. f \in [S -> T]
    BY <2>0, <2>1, PresenceAssumption, Zenon DEF PresenceInv, Registry, Inserted, Account
  <2>3. \A x, y \in S : f[x] = f[y] => x = y
    BY <2>0, <2>1, PresenceAssumption, Zenon DEF PresenceInv, Registry, Inserted, Account
  <2>4. \A d \in T : \E s \in S : f[s] = d
    <3> TAKE d \in T
    <3>1. PICK s \in Sockets : pc[s] \in Inserted /\ Device[s] = d
      BY <2>0, Zenon DEF PresenceInv, Registry, PresenceTypeOK
    <3>2. pc[s] = "open"
      BY <3>1, Zenon DEF Settled, Inserted
    <3>3. s \in S
      BY <3>1, <3>2 DEF CountedSockets, Account, Counted
    <3> QED
      BY <3>1, <3>3, Zenon
  <2>5. ExistsBijection(S, T)
    <3>1. f \in Bijection(S, T)
      BY <2>2, <2>3, <2>4, Zenon DEF Bijection, Injection, Surjection, IsInjective
    <3> QED
      BY <3>1, Zenon DEF ExistsBijection
  <2>6. Cardinality(T) = Cardinality(S)
    BY <2>5, CountedFinite, FS_Bijection, SMTT(20)
  <2> QED
    BY <2>6, Zenon DEF PresenceInv, Exact
<1> QED
  BY <1>1, PresenceInvariance, PTL

(***************************************************************************)
(* The last word.  A teller of an account that is not contended tells what *)
(* is so (Direction).  What an open socket was told is so, or a teller of  *)
(* the account will still tell it: one whose snapshot is yet to be taken,  *)
(* and will hold the socket's device (Registry), or one whose snapshot     *)
(* holds it (Corrected).                                                   *)
(***************************************************************************)
Unopened == \A s \in Sockets : pc[s] # "open" => heard[s] = Nothing

Direction ==
  \A t \in Sockets : Account(t) \notin contended =>
    /\ pc[t] \in {"online", "tellOnline"} => online[Account(t)] >= 1
    /\ pc[t] \in {"persist", "offline", "tellOffline"} => online[Account(t)] = 0

WillTell(t, d) ==
  \/ pc[t] \in {"online", "persist", "offline"}
  \/ pc[t] \in {"tellOnline", "tellOffline"} /\ d \in todo[t]

Corrected ==
  \A s \in Sockets, a \in Accounts :
    heard[s][a] # Unknown /\ a \notin contended /\ Device[s] \notin overlapped =>
      \/ heard[s][a] = (online[a] >= 1)
      \/ \E t \in Sockets : Account(t) = a /\ WillTell(t, Device[s])

WordInv == PresenceInv /\ Unopened /\ Direction /\ Corrected

\* A step that tells nobody anything: the words told stay true, or the task
\* that changed the account is going to correct them.
LEMMA UntoldStep ==
  ASSUME WordInv, UNCHANGED heard, contended \subseteq contended',
         overlapped \subseteq overlapped',
         \A a \in Accounts :
           \/ online'[a] >= 1 <=> online[a] >= 1
           \/ \E t \in Sockets : Account(t) = a /\ \A d \in Devices : WillTell(t, d)',
         \A t, s \in Sockets : pc[s] = "open" /\ Device[s] \notin overlapped /\ WillTell(t, Device[s])
                               => WillTell(t, Device[s])'
  PROVE  Corrected'
<1> SUFFICES ASSUME NEW s \in Sockets, NEW a \in Accounts, heard[s][a] # Unknown,
                    a \notin contended', Device[s] \notin overlapped',
                    ~\E t \in Sockets : Account(t) = a /\ WillTell(t, Device[s])'
             PROVE  heard[s][a] = (online'[a] >= 1)
  BY SMTT(20) DEF Corrected
<1>1. pc[s] = "open"
  BY Zenon DEF WordInv, Unopened, Nothing
<1>2. Device[s] \in Devices
  BY PresenceAssumption, Zenon
<1>3. heard[s][a] = (online[a] >= 1)
  BY <1>1, SMTT(20) DEF WordInv, Corrected
<1>4. (online'[a] >= 1) = (online[a] >= 1)
  <2>1. online'[a] >= 1 <=> online[a] >= 1
    BY <1>2, Zenon
  <2> QED
    BY ONLY <2>1
<1> QED
  BY <1>3, <1>4, Zenon

\* Every step keeps the last words.
LEMMA StepWord == WordInv /\ [PresenceNext]_presenceVars => WordInv'
<1> SUFFICES ASSUME WordInv, [PresenceNext]_presenceVars PROVE Unopened' /\ Direction' /\ Corrected'
  BY PresenceStepInv, Zenon DEF WordInv
<1>0. /\ pc \in [Sockets -> Stages] /\ online \in [Accounts -> Nat]
      /\ heard \in [Sockets -> [Accounts -> BOOLEAN \cup {Unknown}]]
      /\ todo \in [Sockets -> SUBSET Devices]
      /\ \A s \in Sockets : Device[s] \in Devices /\ Account(s) \in Accounts
  BY PresenceAssumption DEF WordInv, PresenceInv, PresenceTypeOK, Account
<1>1. ASSUME NEW s \in Sockets, ConnectInsert(s) \/ Told(s) \/ Subscribe(s)
      PROVE  Unopened' /\ Direction' /\ Corrected'
  <2>1. /\ UNCHANGED <<heard, contended, online, todo>> /\ overlapped \subseteq overlapped'
        /\ \A o \in Sockets \ {s} : pc'[o] = pc[o]
        /\ pc[s] # "open" /\ pc'[s] \notin Telling
    BY <1>0, <1>1, Zenon DEF ConnectInsert, Told, Subscribe, Reach, Telling
  <2>2. Unopened'
    BY <2>1, Zenon DEF WordInv, Unopened, Nothing
  <2>3. Direction'
    BY <2>1 DEF WordInv, Direction, Telling
  <2>4. \A t \in Sockets, d \in Devices : WillTell(t, d) => WillTell(t, d)'
    BY <1>0, <1>1, <2>1, Zenon DEF WillTell, ConnectInsert, Told, Subscribe
  <2> QED
    BY <1>0, <2>1, <2>2, <2>3, <2>4, UntoldStep, Zenon
<1>2. ASSUME NEW s \in Sockets, ConnectCount(s)
      PROVE  Unopened' /\ Direction' /\ Corrected'
  <2>1. PICK a \in Accounts : a = Account(s)
    BY <1>0
  <2>2. /\ pc[s] = "count" /\ online' = [online EXCEPT ![a] = online[a] + 1]
        /\ \/ online[a] = 0 /\ pc' = [pc EXCEPT ![s] = "online"] /\ Changes(s)
           \/ online[a] # 0 /\ pc' = [pc EXCEPT ![s] = "subscribe"] /\ UNCHANGED contended
        /\ UNCHANGED <<heard, todo, overlapped>>
    BY ONLY <1>2, <2>1, ZenonT(20) DEF ConnectCount, CountUp, Reach
  <2>3. /\ contended \subseteq contended'
        /\ online[a] = 0 =>
             \A t \in Sockets : Account(t) = a /\ pc[t] \in Telling => a \in contended'
    BY <2>1, <2>2, Zenon DEF Changes
  <2>4. Unopened'
    BY <1>0, <2>2, Zenon DEF WordInv, Unopened, Nothing
  <2>5. Direction'
    BY <1>0, <2>1, <2>2, <2>3, SMTT(20) DEF WordInv, Direction, Telling
  <2>6. \A t \in Sockets, d \in Devices : WillTell(t, d) => WillTell(t, d)'
    BY <1>0, <2>2, SMTT(20) DEF WillTell
  <2>7. \A b \in Accounts :
          \/ online'[b] >= 1 <=> online[b] >= 1
          \/ \E t \in Sockets : Account(t) = b /\ \A d \in Devices : WillTell(t, d)'
    <3>1. CASE online[a] = 0
      <4>1. \A d \in Devices : WillTell(s, d)'
        BY <1>0, <2>2, <3>1, Zenon DEF WillTell
      <4> QED
        BY <1>0, <2>1, <2>2, <4>1, Zenon
    <3>2. CASE online[a] # 0
      BY <1>0, <2>2, <3>2
    <3> QED
      BY <3>1, <3>2, Zenon
  <2> QED
    BY <1>0, <2>2, <2>3, <2>4, <2>5, <2>6, <2>7, UntoldStep, Zenon
<1>3. ASSUME NEW s \in Sockets, Snapshot(s)
      PROVE  Unopened' /\ Direction' /\ Corrected'
  <2>1. /\ UNCHANGED <<heard, contended, online, overlapped>>
        /\ todo' = [todo EXCEPT ![s] = connected]
        /\ \/ pc[s] = "online" /\ pc' = [pc EXCEPT ![s] = "tellOnline"]
           \/ pc[s] = "offline" /\ pc' = [pc EXCEPT ![s] = "tellOffline"]
    BY <1>3, ZenonT(20) DEF Snapshot, Reach
  <2>2. Unopened' /\ Direction'
    BY <1>0, <2>1, Zenon DEF WordInv, Unopened, Direction, Nothing
  <2>3. \A o \in Sockets : pc[o] = "open" /\ Device[o] \notin overlapped => Device[o] \in connected
    BY Zenon DEF WordInv, PresenceInv, Registry, Inserted
  <2>4. \A t, o \in Sockets :
          pc[o] = "open" /\ Device[o] \notin overlapped /\ WillTell(t, Device[o])
            => WillTell(t, Device[o])'
    BY <1>0, <2>1, <2>3 DEF WillTell
  <2> QED
    BY <2>1, <2>2, <2>4, UntoldStep, Zenon
<1>4. ASSUME NEW s \in Sockets, NEW d \in Devices, Tell(s, d)
      PROVE  Unopened' /\ Direction' /\ Corrected'
  <2>1. PICK a \in Accounts : a = Account(s)
    BY <1>0
  <2>2. /\ pc[s] \in {"tellOnline", "tellOffline"}
        /\ todo' = [todo EXCEPT ![s] = todo[s] \ {d}]
        /\ UNCHANGED <<pc, contended, online, overlapped>>
    BY <1>4, Zenon DEF Tell
  <2>3. \A o \in Sockets : heard'[o] = IF Device[o] = d /\ pc[o] = "open"
                                      THEN [heard[o] EXCEPT ![a] = pc[s] = "tellOnline"]
                                      ELSE heard[o]
    BY <1>4, <2>1, Zenon DEF Tell
  <2>4. Unopened'
    BY <2>2, <2>3, Zenon DEF WordInv, Unopened, Nothing
  <2>5. Direction'
    BY <2>2, SMTT(20) DEF WordInv, Direction
  <2>6. Corrected'
    <3> SUFFICES ASSUME NEW o \in Sockets, NEW b \in Accounts, heard'[o][b] # Unknown,
                        b \notin contended, Device[o] \notin overlapped
                 PROVE  \/ heard'[o][b] = (online[b] >= 1)
                        \/ \E t \in Sockets : Account(t) = b /\ WillTell(t, Device[o])'
      BY <2>2, Zenon DEF Corrected
    <3>1. CASE Device[o] = d /\ pc[o] = "open" /\ b = a
      <4>1. heard'[o][b] = (pc[s] = "tellOnline")
        BY <1>0, <2>3, <3>1, ZenonT(20)
      <4>2. (pc[s] = "tellOnline") = (online[b] >= 1)
        BY <1>0, <2>1, <2>2, <3>1 DEF WordInv, Direction
      <4> QED
        BY <4>1, <4>2, Zenon
    <3>2. CASE ~(Device[o] = d /\ pc[o] = "open" /\ b = a)
      <4>1. heard'[o][b] = heard[o][b]
        BY <1>0, <2>3, <3>2, Zenon
      <4>2. CASE heard[o][b] = (online[b] >= 1)
        BY <4>1, <4>2, ZenonT(20)
      <4>3. ASSUME NEW t \in Sockets, Account(t) = b, WillTell(t, Device[o])
            PROVE  WillTell(t, Device[o])'
        <5>1. pc[o] = "open"
          BY <4>1, Zenon DEF WordInv, Unopened, Nothing
        <5>2. t = s => Device[o] # d
          BY <2>1, <3>2, <4>3, <5>1, Zenon
        <5> QED
          BY <1>0, <2>2, <4>3, <5>2, Zenon DEF WillTell
      <4> QED
        BY <4>1, <4>2, <4>3, Zenon DEF WordInv, Corrected
    <3> QED
      BY <3>1, <3>2, Zenon
  <2> QED
    BY <2>4, <2>5, <2>6, Zenon
<1>5. ASSUME NEW s \in Sockets, DisconnectRemove(s)
      PROVE  Unopened' /\ Direction' /\ Corrected'
  <2>1. /\ pc[s] = "open" /\ heard' = [heard EXCEPT ![s] = Nothing]
        /\ pc' = [pc EXCEPT ![s] = "uncount"] \/ pc' = [pc EXCEPT ![s] = "closed"]
        /\ UNCHANGED <<todo, contended, online, overlapped>>
    BY <1>5, ZenonT(20) DEF DisconnectRemove, Reach
  <2>2. Unopened' /\ Direction'
    BY <1>0, <2>1, SMTT(20) DEF WordInv, Unopened, Direction
  <2>3. Corrected'
    <3> SUFFICES ASSUME NEW o \in Sockets, NEW b \in Accounts, heard'[o][b] # Unknown,
                        b \notin contended, Device[o] \notin overlapped
                 PROVE  \/ heard'[o][b] = (online[b] >= 1)
                        \/ \E t \in Sockets : Account(t) = b /\ WillTell(t, Device[o])'
      BY <2>1, Zenon DEF Corrected
    <3>1. heard'[o][b] = heard[o][b]
      BY <1>0, <2>1 DEF Nothing
    <3>2. CASE heard[o][b] = (online[b] >= 1)
      BY <3>1, <3>2, ZenonT(20)
    <3>3. \A t \in Sockets : WillTell(t, Device[o]) => WillTell(t, Device[o])'
      BY <1>0, <2>1, Zenon DEF WillTell
    <3> QED
      BY <3>1, <3>2, <3>3, Zenon DEF WordInv, Corrected
  <2> QED
    BY <2>2, <2>3
<1>6. ASSUME NEW s \in Sockets, Uncount(s)
      PROVE  Unopened' /\ Direction' /\ Corrected'
  <2>1. PICK a \in Accounts : a = Account(s)
    BY <1>0
  <2>2. /\ pc[s] = "uncount" /\ online' = [online EXCEPT ![a] = CountDown(online[a])]
        /\ \/ online[a] <= 1 /\ pc' = [pc EXCEPT ![s] = "persist"] /\ Changes(s)
           \/ ~(online[a] <= 1) /\ pc' = [pc EXCEPT ![s] = "closed"] /\ UNCHANGED contended
        /\ UNCHANGED <<heard, todo, overlapped>>
    BY ONLY <1>6, <2>1, ZenonT(20) DEF Uncount, WentOffline, Reach
  <2>3. /\ online'[a] \in Nat
        /\ online[a] <= 1 => online'[a] = 0
        /\ ~(online[a] <= 1) => online'[a] >= 1 /\ online[a] >= 1
        /\ \A b \in Accounts \ {a} : online'[b] = online[b]
    <3>1. PICK n \in Nat : n = online[a]
      BY <1>0
    <3>2. PICK k : k = IF n = 0 THEN 0 ELSE n - 1
      OBVIOUS
    <3>3. online' = [online EXCEPT ![a] = k]
      BY ONLY <2>2, <3>1, <3>2, Zenon DEF CountDown
    <3>4. k \in Nat /\ (n <= 1 => k = 0) /\ (~(n <= 1) => k >= 1 /\ n >= 1)
      BY <3>2, SMTT(20)
    <3> QED
      BY <1>0, <3>1, <3>3, <3>4, Zenon
  <2>4. /\ contended \subseteq contended'
        /\ online[a] <= 1 =>
             \A t \in Sockets : Account(t) = a /\ pc[t] \in Telling => a \in contended'
    BY <2>1, <2>2, Zenon DEF Changes
  <2>5. Unopened'
    BY <1>0, <2>2, Zenon DEF WordInv, Unopened, Nothing
  <2>6. Direction'
    <3> SUFFICES ASSUME NEW t \in Sockets, Account(t) \notin contended'
                 PROVE  /\ pc'[t] \in {"online", "tellOnline"} => online'[Account(t)] >= 1
                        /\ pc'[t] \in {"persist", "offline", "tellOffline"}
                             => online'[Account(t)] = 0
      BY Zenon DEF Direction
    <3>1. CASE Account(t) # a
      <4>1. pc'[t] = pc[t] /\ online'[Account(t)] = online[Account(t)]
        BY <1>0, <2>1, <2>2, <2>3, <3>1, Zenon
      <4> QED
        BY <2>4, <4>1, Zenon DEF WordInv, Direction
    <3>2. CASE Account(t) = a /\ online[a] <= 1
      <4>1. pc[t] \notin Telling /\ online'[a] = 0
        BY <2>3, <2>4, <3>2, Zenon
      <4>2. pc'[t] = IF t = s THEN "persist" ELSE pc[t]
        BY <1>0, <2>2, <3>2, Zenon
      <4> QED
        BY <3>2, <4>1, <4>2 DEF Telling
    <3>3. CASE Account(t) = a /\ ~(online[a] <= 1)
      <4>1. /\ online'[a] >= 1 /\ online[a] >= 1 /\ a \notin contended
            /\ pc'[t] = IF t = s THEN "closed" ELSE pc[t]
        BY <1>0, <2>2, <2>3, <2>4, <3>3, Zenon
      <4>2. /\ pc[t] \in {"persist", "offline", "tellOffline"} => online[a] = 0
        BY <3>3, <4>1, Zenon DEF WordInv, Direction
      <4> QED
        BY <3>3, <4>1, <4>2
    <3> QED
      BY <3>1, <3>2, <3>3, Zenon
  <2>7. \A t \in Sockets, d \in Devices : WillTell(t, d) => WillTell(t, d)'
    BY <1>0, <2>2 DEF WillTell
  <2>8. \A b \in Accounts :
          \/ online'[b] >= 1 <=> online[b] >= 1
          \/ \E t \in Sockets : Account(t) = b /\ \A d \in Devices : WillTell(t, d)'
    <3>1. CASE online[a] <= 1
      <4>1. \A d \in Devices : WillTell(s, d)'
        BY <1>0, <2>2, <3>1 DEF WillTell
      <4> QED
        BY <2>1, <2>3, <4>1, Zenon
    <3>2. CASE ~(online[a] <= 1)
      BY <2>3, <3>2, Zenon
    <3> QED
      BY <3>1, <3>2, Zenon
  <2> QED
    BY <1>0, <2>2, <2>4, <2>5, <2>6, <2>7, <2>8, UntoldStep
<1>7. ASSUME NEW s \in Sockets, SetLastSeen(s) \/ SetLastSeenFails(s)
      PROVE  Unopened' /\ Direction' /\ Corrected'
  <2>1. /\ UNCHANGED <<heard, contended, online, todo, overlapped>>
        /\ pc[s] = "persist" /\ pc' = [pc EXCEPT ![s] = "offline"]
    BY <1>7, Zenon DEF SetLastSeen, SetLastSeenFails, Reach
  <2>2. Unopened' /\ Direction'
    BY <1>0, <2>1, Zenon DEF WordInv, Unopened, Direction, Nothing
  <2>3. \A t \in Sockets, d \in Devices : WillTell(t, d) => WillTell(t, d)'
    BY <1>0, <2>1, Zenon DEF WillTell
  <2> QED
    BY <1>0, <2>1, <2>2, <2>3, UntoldStep, Zenon
<1>8. CASE NewProcess
  BY <1>8 DEF NewProcess, Unopened, Direction, Corrected, Nothing
<1>9. CASE UNCHANGED presenceVars
  <2>1. UNCHANGED <<heard, contended, online, todo, overlapped, pc>>
    BY <1>9, Zenon DEF presenceVars
  <2>2. Unopened' /\ Direction'
    BY <2>1, Zenon DEF WordInv, Unopened, Direction, Nothing
  <2>3. \A t, s \in Sockets : WillTell(t, Device[s]) => WillTell(t, Device[s])'
    BY <2>1, Zenon DEF WillTell
  <2>4. \A a \in Accounts : online'[a] >= 1 <=> online[a] >= 1
    BY <2>1, SMTT(20)
  <2>5. Corrected'
    BY <2>1, <2>3, <2>4, UntoldStep, Zenon
  <2> QED
    BY <2>2, <2>5, Zenon
<1> QED
  BY <1>1, <1>2, <1>3, <1>4, <1>5, <1>6, <1>7, <1>8, <1>9 DEF PresenceNext, TaskStep

\* When no task is on its way, the last word an open socket was told about
\* an account that is not contended is what is_online answers, for any number
\* of sockets, restarts and failed writes.
THEOREM LastWordStays == PresenceSpec => []LastWordIsTrue
<1>1. PresenceInit => WordInv
  <2> SUFFICES ASSUME PresenceInit PROVE Unopened /\ Direction /\ Corrected
    BY PresenceInitInv DEF WordInv
  <2> QED
    BY DEF PresenceInit, Unopened, Direction, Corrected, Nothing
<1>2. WordInv => LastWordIsTrue
  BY Zenon DEF WordInv, Corrected, WillTell, Settled, LastWordIsTrue
<1> QED
  BY <1>1, <1>2, StepWord, PTL DEF PresenceSpec
==============================================================================
