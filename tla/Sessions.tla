------------------------------ MODULE Sessions ------------------------------
(***************************************************************************)
(* The admin panel's sign-in (admin/auth.py), its sessions in Redis        *)
(* (admin/sessions.py), the role check (admin/rbac.py) and the staff pages *)
(* (admin/views.py).                                                       *)
(*                                                                         *)
(* A request copies its session when it starts and writes the copy back    *)
(* when it ends, so several requests of one cookie, and a revocation, may  *)
(* overlap.  Time is not modelled: an entry may expire, and a session may  *)
(* be found too old, at any moment.                                        *)
(***************************************************************************)
EXTENDS Naturals

CONSTANTS Users, Sids, Requests, Nobody,
          FirstOwner,   \* the account made by scripts/create_admin_user.py
          Roles,        \* the roles accounts are given
          MaxChanges    \* bound: credential changes of each user

ASSUME SessionsAssumption ==
  /\ Nobody \notin Users
  /\ FirstOwner \in Users
  /\ Nobody \notin Sids
  /\ "owner" \in Roles /\ "none" \notin Roles
  /\ MaxChanges \in [Users -> Nat]

VARIABLES user,     \* rows of ops.users: role ("none": no row), totp, sv
          store,    \* Redis: the session under each id
          req,      \* requests being handled
          changes,  \* history: committed credential changes of each user
          out       \* history: ids signed out while no other request had them

vars == <<user, store, req, changes, out>>

TOTP_REQUIRED_ROLES == {"owner", "manager"}
UserManagers == {"owner"}    \* roles that have Perm.USER_MANAGE

Row == [role : Roles \cup {"none"}, totp : BOOLEAN, sv : Nat]

(* "anon" holds a form token only, "none" is an empty session or a missing *)
(* key; second is history: a second factor was proved when it started.     *)
Session == [kind : {"none", "anon", "pending", "enroll", "full"},
            uid : Users \cup {Nobody}, sv : Nat, second : BOOLEAN]
Sess(kind, uid, sv, second) ==
  [kind |-> kind, uid |-> uid, sv |-> sv, second |-> second]
None == Sess("none", Nobody, 0, FALSE)
Anon == Sess("anon", Nobody, 0, FALSE)

NoRow == [role |-> "none", totp |-> FALSE, sv |-> 0]
Request == [pc : {"idle", "opened", "view", "login", "totp", "enrolled", "revoke", "save"},
            sid : Sids \cup {Nobody}, sess : Session, dirty : BOOLEAN,
            user : Users \cup {Nobody},      \* g.user
            role : Roles \cup {"none"},       \* g.user["role"], as loaded
            about : Users \cup {Nobody},     \* whom a login or a revocation is about
            row : Row]                       \* the row login() has read
Idle(s) == [pc |-> "idle", sid |-> s, sess |-> None, dirty |-> FALSE, user |-> Nobody,
            role |-> "none", about |-> Nobody, row |-> NoRow]

TypeOK ==
  /\ user \in [Users -> Row]
  /\ store \in [Sids -> Session]
  /\ req \in [Requests -> Request]
  /\ changes \in [Users -> Nat]
  /\ out \subseteq Sids

Init ==
  /\ user = [u \in Users |-> IF u = FirstOwner THEN [NoRow EXCEPT !.role = "owner"] ELSE NoRow]
  /\ store = [s \in Sids |-> None]
  /\ req = [r \in Requests |-> Idle(Nobody)]
  /\ changes = [u \in Users |-> 0]
  /\ out = {}

-----------------------------------------------------------------------------
In(r, pc) == req[r].pc = pc

(* open_session: a missing key gets a fresh id, never the one that came.   *)
Fresh == {s \in Sids : store[s] = None
                       /\ \A r \in Requests : req[r].sid # s}
BugSidOf(cookie) == {cookie}
SidOf(cookie) == IF store[cookie] = None THEN Fresh \ {cookie} ELSE {cookie}

Open(r) ==
  /\ req[r].pc = "idle"
  /\ \E cookie \in Sids : \E sid \in SidOf(cookie) :
       /\ req' = [req EXCEPT ![r] = [Idle(sid) EXCEPT
                    !.pc = IF store[sid].kind = "full" THEN "opened" ELSE "view",
                    !.sess = store[sid]]]
       /\ out' = IF sid # cookie THEN out \ {sid} ELSE out
  /\ UNCHANGED <<user, store, changes>>

(* The step of a request that leaves everything shared alone.              *)
Local(r, next) ==
  /\ req' = [req EXCEPT ![r] = next]
  /\ UNCHANGED <<user, store, changes, out>>

(* attach_user: load_user, then the age and the version of the session.    *)
(* Without a uid in the session it returns at once.                        *)
BugIsCurrent(sess) == user[sess.uid].role # "none"
IsCurrent(sess) == user[sess.uid].role # "none" /\ user[sess.uid].sv = sess.sv

AttachRefused(r) ==    \* too old, idle for too long, or not current
  /\ In(r, "opened")
  /\ Local(r, [req[r] EXCEPT !.pc = "view", !.sess = None, !.dirty = TRUE])

AttachServed(r) ==     \* seen_at is written, so the session will be saved
  LET u == req[r].sess.uid IN
  /\ In(r, "opened")
  /\ IsCurrent(req[r].sess)
  /\ Local(r, [req[r] EXCEPT !.pc = "view", !.dirty = TRUE, !.user = u, !.role = user[u].role])

Guest(r) == In(r, "view") /\ req[r].user = Nobody
Served(r) == In(r, "view") /\ req[r].user # Nobody
Done(q) == [q EXCEPT !.pc = "save", !.about = Nobody, !.row = NoRow]
Respond(r, sess) == Local(r, Done([req[r] EXCEPT !.sess = sess, !.dirty = TRUE]))

(* Any view that neither changes a user nor its session, refusals (401,    *)
(* 403, 429, a wrong password or code) included.                           *)
View(r) ==
  /\ In(r, "view")
  /\ Local(r, Done(req[r]))

(* A page with a form, shown to somebody who has no session yet: csrf.token. *)
ShowLogin(r) ==
  /\ Guest(r) /\ req[r].sess.kind = "none"
  /\ Respond(r, Anon)

(* login(), up to the password check: find_user reads one row.             *)
LoginRead(r) ==
  /\ Guest(r) /\ req[r].sess.kind # "none"
  /\ \E u \in Users :
       /\ user[u].role # "none"
       /\ Local(r, [req[r] EXCEPT !.pc = "login", !.about = u, !.row = user[u]])

(* login(), after clear_failures: it decides on the row it has read.       *)
StartFor(row, u) ==
  CASE row.totp -> Sess("pending", u, 0, FALSE)
    [] ~row.totp /\ row.role \in TOTP_REQUIRED_ROLES -> Sess("enroll", u, 0, FALSE)
    [] OTHER -> Sess("full", u, row.sv, FALSE)

LoginStart(r) ==
  /\ In(r, "login")
  /\ Respond(r, StartFor(req[r].row, req[r].about))

(* totp_challenge: the code is checked, and only then the user read again. *)
TotpVerify(r) ==
  /\ Guest(r) /\ req[r].sess.kind = "pending"
  /\ user[req[r].sess.uid].totp
  /\ Local(r, [req[r] EXCEPT !.pc = "totp", !.about = req[r].sess.uid])

TotpTooLate(r) ==      \* pending_at is more than 300 seconds ago
  /\ Guest(r) /\ req[r].sess.kind = "pending"
  /\ Respond(r, None)

(* _start_session(find_user(...)) at the end of the second factor.         *)
SecondFactorDone(r) ==
  /\ req[r].pc \in {"totp", "enrolled"}
  /\ Respond(r, Sess("full", req[r].about, user[req[r].about].sv, TRUE))

(* enroll: the page that makes the secret, then the code that proves it.   *)
(* That the page was shown is not asked for, which only allows more.  The  *)
(* new factor replaces any old one, and session_version stays as it is: no *)
(* change in the sense of Access.                                          *)
Enrolling(r) == (Guest(r) /\ req[r].sess.kind = "enroll") \/ Served(r)
EnrolShow(r) ==
  /\ Enrolling(r)
  /\ Respond(r, req[r].sess)

EnrolCommit(r) ==
  LET u == req[r].sess.uid IN
  /\ Enrolling(r)
  /\ user' = [user EXCEPT ![u].totp = TRUE]
  /\ req' = [req EXCEPT ![r].pc = "enrolled", ![r].about = u]
  /\ UNCHANGED <<store, changes, out>>

Logout(r) ==
  /\ In(r, "view")
  /\ Respond(r, None)

-----------------------------------------------------------------------------
(* The transaction of set_role, set_password and reset_totp: the new row   *)
(* and session_version together.  revoke_all_for is a step of its own.     *)
Bump(row) == [row EXCEPT !.sv = @ + 1]

Change(r, u, row, sess) ==
  /\ changes[u] < MaxChanges[u]
  /\ user' = [user EXCEPT ![u] = row]
  /\ changes' = [changes EXCEPT ![u] = @ + 1]
  /\ req' = [req EXCEPT ![r].pc = "revoke", ![r].about = u, ![r].sess = sess]
  /\ UNCHANGED <<store, out>>

(* change_password: of the signed-in user, whose session ends with it.     *)
ChangePassword(r) ==
  /\ Served(r)
  /\ Change(r, req[r].user, Bump(user[req[r].user]), None)

(* require(Perm.USER_MANAGE) looks at the role attach_user has loaded.     *)
ManagesUsers(r) == Served(r) /\ req[r].role \in UserManagers

BugSetRoleRow(u, role) == [user[u] EXCEPT !.role = role]
SetRoleRow(u, role) == Bump([user[u] EXCEPT !.role = role])
SetRole(r) ==
  /\ ManagesUsers(r)
  /\ \E u \in Users, role \in Roles :
       user[u].role # "none" /\ Change(r, u, SetRoleRow(u, role), req[r].sess)

ResetTotp(r) ==
  /\ ManagesUsers(r)
  /\ \E u \in Users :
       user[u].role # "none" /\ Change(r, u, Bump([user[u] EXCEPT !.totp = FALSE]), req[r].sess)

(* scripts/create_admin_user.py --reset-totp, or --reset: from a shell, in *)
(* one transaction, and without touching the stored sessions.              *)
ResetByScript(u) ==
  /\ user[u].role # "none" /\ changes[u] < MaxChanges[u]
  /\ \E totp \in {FALSE, user[u].totp} :
       user' = [user EXCEPT ![u] = Bump([@ EXCEPT !.totp = totp])]
  /\ changes' = [changes EXCEPT ![u] = @ + 1]
  /\ UNCHANGED <<store, req, out>>

CreateUser(r) ==
  /\ ManagesUsers(r)
  /\ \E u \in Users, role \in Roles :
       /\ user[u].role = "none"
       /\ user' = [user EXCEPT ![u].role = role]
  /\ req' = [req EXCEPT ![r] = Done(@)]
  /\ UNCHANGED <<store, changes, out>>

(* revoke_all_for scans the store for sessions that carry the user's uid.  *)
Revoke(r) ==
  /\ In(r, "revoke")
  /\ store' = [s \in Sids |->
                 IF store[s].kind = "full" /\ store[s].uid = req[r].about THEN None ELSE store[s]]
  /\ req' = [req EXCEPT ![r] = Done(@)]
  /\ UNCHANGED <<user, changes, out>>

(* save_session: delete, write back, or only push the expiry forward.      *)
Saved(q) ==
  CASE q.sess = None -> None
    [] q.sess # None /\ q.dirty -> q.sess
    [] OTHER -> store[q.sid]

Save(r) ==
  LET q == req[r]
      alone == \A o \in Requests \ {r} : req[o].sid # q.sid
  IN
  /\ In(r, "save")
  /\ store' = [store EXCEPT ![q.sid] = Saved(q)]
  /\ req' = [req EXCEPT ![r] = Idle(Nobody)]
  /\ out' = IF q.sess = None /\ alone THEN out \cup {q.sid} ELSE out
  /\ UNCHANGED <<user, changes>>

Expire(s) ==
  /\ store[s] # None
  /\ store' = [store EXCEPT ![s] = None]
  /\ UNCHANGED <<user, req, changes, out>>

Next ==
  \/ \E r \in Requests :
       \/ Open(r) \/ AttachRefused(r) \/ AttachServed(r)
       \/ View(r) \/ ShowLogin(r) \/ LoginRead(r) \/ LoginStart(r)
       \/ TotpVerify(r) \/ TotpTooLate(r) \/ SecondFactorDone(r)
       \/ EnrolShow(r) \/ EnrolCommit(r) \/ Logout(r)
       \/ ChangePassword(r) \/ SetRole(r) \/ ResetTotp(r) \/ CreateUser(r)
       \/ Revoke(r) \/ Save(r)
  \/ \E u \in Users : ResetByScript(u)
  \/ \E s \in Sids : Expire(s)

Spec == Init /\ [][Next]_vars

-----------------------------------------------------------------------------
(* A session worth something: wherever a copy of it is, it has the version *)
(* its user has now.                                                       *)
Worth(sess, u) == sess.kind = "full" /\ sess.uid = u /\ sess.sv = user[u].sv
Entitled == {u \in Users : (\E s \in Sids : Worth(store[s], u))
                           \/ (\E r \in Requests : Worth(req[r].sess, u))}

(* Half a sign-in: a copy of a session that waits for the second factor,   *)
(* or a login whose password was accepted; begun since the last change if  *)
(* the row it decides on has the version the user has now.                 *)
LoggingIn(r, u) == In(r, "login") /\ req[r].about = u
Waits(sess, u) == sess.kind \in {"pending", "enroll"} /\ sess.uid = u
Halfway == {u \in Users : \/ \E s \in Sids : Waits(store[s], u)
                          \/ \E r \in Requests : Waits(req[r].sess, u) \/ LoggingIn(r, u)}
Begun == {u \in Users : \E r \in Requests : LoggingIn(r, u) /\ req[r].row.sv = user[u].sv}

(* Revocation is instant for sessions (the claim at admin/sessions.py:4):  *)
(* whatever requests are in flight, and however late one of them writes    *)
(* its copy of a session back, nobody is served as a user on a session     *)
(* that was started before the last change of the user's role or password  *)
(* or reset of the second factor.  It takes a sign-in begun since, or a    *)
(* second factor proved since, which may be the end of a sign-in or of an  *)
(* enrolment that was under way before.                                    *)
Granted == INSTANCE Access
             WITH epoch <- changes, begun <- Begun, halfway <- Halfway, entitled <- Entitled,
                  serving <- [r \in Requests |-> req[r].user]
RevocationIsInstant == Granted!AccessSpec

(* TOTP is mandatory for owner and manager (admin/auth.py:4): a request    *)
(* that is served with one of these roles has a session that started with  *)
(* a second factor, also when the role was given to somebody signed in.    *)
SecondFactor ==
  \A r \in Requests : Served(r) /\ req[r].role \in TOTP_REQUIRED_ROLES => req[r].sess.second

(* A cookie that was signed out while no other request was using it never  *)
(* finds a session again, nor does a request run, or save, under its id:   *)
(* open_session hands out a fresh one instead.                             *)
SignedOutStaysOut ==
  \A s \in out : store[s] = None /\ \A r \in Requests : req[r].sid # s
=============================================================================
