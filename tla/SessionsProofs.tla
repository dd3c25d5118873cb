--------------------------- MODULE SessionsProofs ---------------------------
(***************************************************************************)
(* Proofs about the admin panel's sessions, for every number of accounts,  *)
(* cookies, overlapping requests and credential changes: the types, the    *)
(* mandatory second factor and the refinement of Access.                   *)
(*                                                                         *)
(* The argument: a copy of a session, in the store or in a request, never  *)
(* has a version above its user's, and a role changes only together with   *)
(* the version.  So a copy that is still current was made under the role   *)
(* the user has now, and a change leaves no current copy behind.           *)
(***************************************************************************)
EXTENDS Sessions, TLAPS

(* Somebody's session: the account exists, so its role changes only by     *)
(* set_role, together with the version.                                    *)
Owned(x) == x.kind \in {"pending", "enroll", "full"} =>
              x.uid \in Users /\ user[x.uid].role # "none"

(* A full session has a version its user has or had; if it is the present  *)
(* one, a role that demands a second factor was there when it started.     *)
Past(x) == x.kind = "full" =>
             /\ x.sv <= user[x.uid].sv
             /\ x.sv = user[x.uid].sv /\ user[x.uid].role \in TOTP_REQUIRED_ROLES => x.second

SessOK(x) == Owned(x) /\ Past(x)

(* The row login() holds is the present one unless the version moved.      *)
RowOK(q) == q.pc = "login" =>
              /\ q.about \in Users /\ user[q.about].role # "none"
              /\ q.row.sv <= user[q.about].sv
              /\ q.row.sv = user[q.about].sv => q.row.role = user[q.about].role

AboutOK(q) == q.pc \in {"totp", "enrolled"} => q.about \in Users /\ user[q.about].role # "none"

(* What the stages of a request say about its own copy of the session.     *)
StageOK(q) ==
  /\ q.pc = "opened" => q.sess.kind = "full" /\ q.user = Nobody
  /\ q.pc = "view" /\ q.user = Nobody => q.sess.kind # "full"
  /\ q.pc = "view" /\ q.user # Nobody =>
       /\ q.sess.kind = "full" /\ q.sess.uid = q.user
       /\ q.role \in TOTP_REQUIRED_ROLES => q.sess.second
  /\ q.pc \in {"login", "totp"} => q.sess.kind # "full"
  /\ q.pc = "totp" => q.sess.kind = "pending" /\ q.sess.uid = q.about
  /\ q.pc = "enrolled" =>
       /\ q.sess.uid = q.about
       /\ q.sess.kind = "enroll" \/ q.user = q.about

ReqOK(q) == SessOK(q.sess) /\ RowOK(q) /\ AboutOK(q) /\ StageOK(q)

IInv ==
  /\ TypeOK
  /\ \A s \in Sids : SessOK(store[s])
  /\ \A r \in Requests : ReqOK(req[r])

(* A request that has started has a session id.                            *)
SidOK == \A r \in Requests : req[r].pc # "idle" => req[r].sid \in Sids

(* What any step may do to the accounts.                                   *)
UsersMove ==
  \A u \in Users :
    /\ user'[u] \in Row
    /\ user[u].sv <= user'[u].sv
    /\ user[u].role # "none" => user'[u].role # "none"
    /\ user[u].role # "none" /\ user[u].sv = user'[u].sv => user'[u].role = user[u].role

-----------------------------------------------------------------------------
(* A copy stays in order whatever happens to the accounts.                 *)
LEMMA CopiesStay ==
  ASSUME TypeOK, UsersMove, NEW x \in Session, SessOK(x)
  PROVE  SessOK(x)'
<1>1. Owned(x)'
  BY DEF UsersMove, SessOK, Owned
<1>2. Past(x)'
  <2> SUFFICES ASSUME x.kind = "full" PROVE
        /\ x.sv <= user'[x.uid].sv
        /\ x.sv = user'[x.uid].sv /\ user'[x.uid].role \in TOTP_REQUIRED_ROLES => x.second
    BY DEF Past
  <2>1. x.uid \in Users /\ user[x.uid].role # "none" /\ x.sv \in Nat
    BY DEF SessOK, Owned, Session
  <2>2. user[x.uid].sv \in Nat /\ user'[x.uid].sv \in Nat
    BY <2>1 DEF TypeOK, UsersMove, Row
  <2> QED  BY <2>1, <2>2 DEF UsersMove, SessOK, Past
<1> QED  BY <1>1, <1>2 DEF SessOK

(* So does a request that is not the one that moves.                       *)
LEMMA RequestsStay ==
  ASSUME TypeOK, UsersMove, NEW q \in Request, ReqOK(q)
  PROVE  ReqOK(q)'
<1>1. q.sess \in Session /\ SessOK(q.sess)
  BY DEF Request, ReqOK
<1>2. SessOK(q.sess)'
  BY <1>1, CopiesStay
<1>3. RowOK(q)'
  <2> SUFFICES ASSUME q.pc = "login" PROVE RowOK(q)'
    BY DEF RowOK
  <2>1. q.about \in Users /\ user[q.about].role # "none" /\ q.row.sv \in Nat
    BY DEF ReqOK, RowOK, Request, Row
  <2>2. user[q.about].sv \in Nat /\ user'[q.about].sv \in Nat
    BY <2>1 DEF TypeOK, UsersMove, Row
  <2> QED  BY <2>1, <2>2 DEF UsersMove, ReqOK, RowOK
<1>4. AboutOK(q)'
  BY DEF UsersMove, ReqOK, AboutOK
<1>5. StageOK(q)'
  BY DEF ReqOK, StageOK
<1> QED  BY <1>2, <1>3, <1>4, <1>5 DEF ReqOK

(* The one action of the accounts at a time: every step is a UsersMove.    *)
LEMMA BumpMoves ==
  ASSUME TypeOK, NEW u \in Users, NEW role \in Roles \cup {"none"}, NEW totp \in BOOLEAN,
         user[u].role # "none" => role # "none",
         user' = [user EXCEPT ![u] = [role |-> role, totp |-> totp, sv |-> user[u].sv + 1]]
  PROVE  UsersMove
BY DEF TypeOK, UsersMove, Row

LEMMA SameUsersMove ==
  ASSUME TypeOK, user' = user
  PROVE  UsersMove
BY DEF TypeOK, UsersMove, Row

(* The invariant survives a step that keeps to UsersMove and whose new     *)
(* copies are in order.                                                    *)
LEMMA StepKeeps ==
  ASSUME IInv, UsersMove,
         user' \in [Users -> Row], store' \in [Sids -> Session],
         req' \in [Requests -> Request], changes' \in [Users -> Nat], out' \subseteq Sids,
         \A s \in Sids : store'[s] = store[s] \/ SessOK(store[s])',
         \A r \in Requests : req'[r] = req[r] \/ ReqOK(req[r])'
  PROVE  IInv'
<1>1. TypeOK'
  BY DEF TypeOK
<1>2. ASSUME NEW s \in Sids PROVE SessOK(store[s])'
  <2>1. SessOK(store[s]) /\ store[s] \in Session
    BY DEF IInv, TypeOK
  <2>2. CASE store'[s] = store[s]
    BY <2>1, <2>2, CopiesStay DEF IInv, SessOK, Owned, Past
  <2> QED  BY <2>2
<1>3. ASSUME NEW r \in Requests PROVE ReqOK(req[r])'
  <2>1. ReqOK(req[r]) /\ req[r] \in Request
    BY DEF IInv, TypeOK
  <2>2. CASE req'[r] = req[r]
    <3>1. PICK x \in Request : x = req[r] /\ ReqOK(x)
      BY <2>1
    <3>2. ReqOK(x)'
      BY <3>1, RequestsStay DEF IInv
    <3>3. x = req'[r]
      BY <2>2, <3>1
    <3> QED
      BY <3>2, <3>3 DEF ReqOK, SessOK, Owned, Past, RowOK, AboutOK, StageOK
  <2> QED  BY <2>2
<1> QED  BY <1>1, <1>2, <1>3 DEF IInv

(* A step that writes nothing but its own request.                         *)
LEMMA LocalKeeps ==
  ASSUME IInv, NEW r \in Requests, NEW q \in Request, ReqOK(q), Local(r, q)
  PROVE  IInv'
<1>1. UsersMove
  BY SameUsersMove DEF IInv, Local
<1>2. req' \in [Requests -> Request] /\ req'[r] = q
      /\ \A o \in Requests \ {r} : req'[o] = req[o]
  BY DEF IInv, TypeOK, Local
<1>3. ReqOK(req[r])'
  BY <1>2 DEF Local, ReqOK, SessOK, Owned, Past, RowOK, AboutOK, StageOK
<1> QED  BY <1>1, <1>2, <1>3, StepKeeps DEF IInv, TypeOK, Local

(* The end of a request's view: its copy is all that the invariant asks.   *)
LEMMA RespondKeeps ==
  ASSUME IInv, NEW r \in Requests, NEW x \in Session, SessOK(x), Respond(r, x)
  PROVE  IInv'
<1> DEFINE q == Done([req[r] EXCEPT !.sess = x, !.dirty = TRUE])
<1>1. NoRow \in Row
  BY DEF NoRow, Row
<1>2. q \in Request /\ q.sess = x /\ q.pc = "save"
  BY <1>1 DEF IInv, TypeOK, Request, Done
<1>3. ReqOK(q)
  BY <1>2 DEF ReqOK, RowOK, AboutOK, StageOK
<1>4. Local(r, q)
  BY DEF Respond
<1> HIDE DEF q
<1> QED  BY <1>2, <1>3, <1>4, LocalKeeps

LEMMA EmptySessions ==
  /\ None \in Session /\ Anon \in Session
  /\ SessOK(None) /\ SessOK(Anon)
  /\ None.kind = "none" /\ Anon.kind = "anon"
BY DEF None, Anon, Sess, Session, SessOK, Owned, Past

-----------------------------------------------------------------------------
(* The actions of one request.                                             *)
LEMMA OpenKeeps ==
  ASSUME IInv, NEW r \in Requests, Open(r)
  PROVE  IInv'
<1>1. UsersMove
  BY SameUsersMove DEF IInv, Open
<1>0. PICK cookie \in Sids : \E sid \in SidOf(cookie) :
        /\ req' = [req EXCEPT ![r] = [Idle(sid) EXCEPT
                    !.pc = IF store[sid].kind = "full" THEN "opened" ELSE "view",
                    !.sess = store[sid]]]
        /\ out' = IF sid # cookie THEN out \ {sid} ELSE out
        /\ UNCHANGED <<user, store, changes>>
  BY DEF Open
<1>2. PICK sid \in SidOf(cookie) :
        /\ req' = [req EXCEPT ![r] = [Idle(sid) EXCEPT
                    !.pc = IF store[sid].kind = "full" THEN "opened" ELSE "view",
                    !.sess = store[sid]]]
        /\ out' = IF sid # cookie THEN out \ {sid} ELSE out
        /\ UNCHANGED <<user, store, changes>>
  BY <1>0
<1>3. sid \in Sids
  BY DEF SidOf, Fresh
<1> DEFINE q == [Idle(sid) EXCEPT !.pc = IF store[sid].kind = "full" THEN "opened" ELSE "view",
                                  !.sess = store[sid]]
<1>4. /\ q \in Request
      /\ q.pc = IF store[sid].kind = "full" THEN "opened" ELSE "view"
      /\ q.sess = store[sid] /\ q.user = Nobody
  BY <1>3, EmptySessions DEF IInv, TypeOK, Idle, Request, NoRow, Row
<1>5. SessOK(q.sess)
  BY <1>3, <1>4 DEF IInv
<1>6. ReqOK(q)
  BY <1>4, <1>5 DEF ReqOK, RowOK, AboutOK, StageOK
<1>7. req' = [req EXCEPT ![r] = q]
  BY <1>2
<1> HIDE DEF q
<1>8. ReqOK(req[r])'
  BY <1>2, <1>6, <1>7 DEF IInv, TypeOK, ReqOK, SessOK, Owned, Past, RowOK, AboutOK, StageOK
<1>9. req' \in [Requests -> Request] /\ \A o \in Requests \ {r} : req'[o] = req[o]
  BY <1>4, <1>7 DEF IInv, TypeOK
<1>10. out' \subseteq Sids
  BY <1>2 DEF IInv, TypeOK
<1> QED  BY <1>1, <1>2, <1>8, <1>9, <1>10, StepKeeps DEF IInv, TypeOK

LEMMA AttachKeeps ==
  ASSUME IInv, NEW r \in Requests, AttachRefused(r) \/ AttachServed(r)
  PROVE  IInv'
<1>1. req[r] \in Request /\ ReqOK(req[r]) /\ req[r].sess \in Session
  BY DEF IInv, TypeOK, Request
<1>2. CASE AttachRefused(r)
  <2> DEFINE q == [req[r] EXCEPT !.pc = "view", !.sess = None, !.dirty = TRUE]
  <2>1. q \in Request /\ q.pc = "view" /\ q.sess = None /\ q.user = Nobody
    BY <1>1, <1>2, EmptySessions DEF AttachRefused, In, Request, ReqOK, StageOK
  <2>2. ReqOK(q)
    BY <2>1, EmptySessions DEF ReqOK, RowOK, AboutOK, StageOK
  <2>3. Local(r, q)
    BY <1>2 DEF AttachRefused
  <2> HIDE DEF q
  <2> QED  BY <2>1, <2>2, <2>3, LocalKeeps
<1>3. CASE AttachServed(r)
  <2> DEFINE u == req[r].sess.uid
             q == [req[r] EXCEPT !.pc = "view", !.dirty = TRUE, !.user = u, !.role = user[u].role]
  <2>1. req[r].sess.kind = "full" /\ u \in Users /\ user[u].sv = req[r].sess.sv
    BY <1>1, <1>3 DEF AttachServed, In, IsCurrent, ReqOK, StageOK, SessOK, Owned
  <2>2. user[u].role \in TOTP_REQUIRED_ROLES => req[r].sess.second
    BY <1>1, <2>1 DEF ReqOK, SessOK, Past
  <2>3. user[u].role \in Roles \cup {"none"}
    BY <2>1 DEF IInv, TypeOK, Row
  <2>4. /\ q \in Request /\ q.pc = "view" /\ q.sess = req[r].sess
        /\ q.user = u /\ q.role = user[u].role
    BY <1>1, <2>1, <2>3 DEF Request
  <2>5. ReqOK(q)
    <3>1. u # Nobody /\ SessOK(q.sess)
      BY <1>1, <2>1, <2>4, SessionsAssumption DEF ReqOK
    <3> QED  BY <2>1, <2>2, <2>4, <3>1 DEF ReqOK, RowOK, AboutOK, StageOK
  <2>6. Local(r, q)
    BY <1>3 DEF AttachServed
  <2> HIDE DEF q
  <2> QED  BY <2>4, <2>5, <2>6, LocalKeeps
<1> QED  BY <1>2, <1>3

(* View, ShowLogin, LoginStart, TotpTooLate, SecondFactorDone, EnrolShow   *)
(* and Logout answer with some session.                                    *)
LEMMA AnswerKeeps ==
  ASSUME IInv, NEW r \in Requests,
         \/ View(r) \/ ShowLogin(r) \/ LoginStart(r) \/ TotpTooLate(r)
         \/ SecondFactorDone(r) \/ EnrolShow(r) \/ Logout(r)
  PROVE  IInv'
<1>1. req[r] \in Request /\ ReqOK(req[r]) /\ req[r].sess \in Session /\ SessOK(req[r].sess)
  BY DEF IInv, TypeOK, Request, ReqOK
<1>2. CASE View(r)
  <2> DEFINE q == Done(req[r])
  <2>1. NoRow \in Row
    BY DEF NoRow, Row
  <2>2. q \in Request /\ q.sess = req[r].sess /\ q.pc = "save"
    BY <1>1, <2>1 DEF Done, Request
  <2>3. ReqOK(q)
    BY <1>1, <2>2 DEF ReqOK, RowOK, AboutOK, StageOK
  <2>4. Local(r, q)
    BY <1>2 DEF View
  <2> HIDE DEF q
  <2> QED  BY <2>2, <2>3, <2>4, LocalKeeps
<1>3. CASE ShowLogin(r) \/ TotpTooLate(r) \/ Logout(r)
  BY <1>3, EmptySessions, RespondKeeps DEF ShowLogin, TotpTooLate, Logout
<1>4. CASE EnrolShow(r)
  BY <1>1, <1>4, RespondKeeps DEF EnrolShow
<1>5. CASE LoginStart(r)
  <2> DEFINE u == req[r].about
             row == req[r].row
             x == StartFor(row, u)
  <2>1. /\ u \in Users /\ user[u].role # "none" /\ row \in Row
        /\ row.sv <= user[u].sv
        /\ row.sv = user[u].sv => row.role = user[u].role
    BY <1>1, <1>5 DEF LoginStart, In, ReqOK, RowOK, Request
  <2>2. x \in Session /\ SessOK(x)
    BY <2>1 DEF StartFor, Sess, Session, SessOK, Owned, Past, Row
  <2>3. Respond(r, x)
    BY <1>5 DEF LoginStart
  <2> HIDE DEF x
  <2> QED  BY <2>2, <2>3, RespondKeeps
<1>6. CASE SecondFactorDone(r)
  <2> DEFINE u == req[r].about
             x == Sess("full", u, user[u].sv, TRUE)
  <2>1. u \in Users /\ user[u].role # "none"
    BY <1>1, <1>6 DEF SecondFactorDone, ReqOK, AboutOK
  <2>2. user[u].sv \in Nat
    BY <2>1 DEF IInv, TypeOK, Row
  <2>3. x \in Session /\ SessOK(x)
    BY <2>1, <2>2 DEF Sess, Session, SessOK, Owned, Past
  <2>4. Respond(r, x)
    BY <1>6 DEF SecondFactorDone
  <2> HIDE DEF x
  <2> QED  BY <2>3, <2>4, RespondKeeps
<1> QED  BY <1>2, <1>3, <1>4, <1>5, <1>6

(* LoginRead, TotpVerify and EnrolCommit go on to another stage.           *)
LEMMA StageKeeps ==
  ASSUME IInv, NEW r \in Requests, LoginRead(r) \/ TotpVerify(r)
  PROVE  IInv'
<1>1. req[r] \in Request /\ ReqOK(req[r]) /\ req[r].sess \in Session /\ SessOK(req[r].sess)
  BY DEF IInv, TypeOK, Request, ReqOK
<1>2. CASE LoginRead(r)
  <2>1. PICK u \in Users :
          /\ user[u].role # "none"
          /\ Local(r, [req[r] EXCEPT !.pc = "login", !.about = u, !.row = user[u]])
    BY <1>2 DEF LoginRead
  <2> DEFINE q == [req[r] EXCEPT !.pc = "login", !.about = u, !.row = user[u]]
  <2>2. user[u] \in Row /\ user[u].sv \in Nat
    BY DEF IInv, TypeOK, Row
  <2>3. /\ q \in Request /\ q.pc = "login" /\ q.about = u /\ q.row = user[u]
        /\ q.sess = req[r].sess /\ q.sess.kind # "full"
    BY <1>1, <1>2, <2>2 DEF LoginRead, Guest, In, Request, ReqOK, StageOK
  <2>4. ReqOK(q)
    BY <1>1, <2>1, <2>2, <2>3 DEF ReqOK, RowOK, AboutOK, StageOK
  <2> HIDE DEF q
  <2> QED  BY <2>1, <2>3, <2>4, LocalKeeps DEF q
<1>3. CASE TotpVerify(r)
  <2> DEFINE u == req[r].sess.uid
             q == [req[r] EXCEPT !.pc = "totp", !.about = u]
  <2>1. req[r].sess.kind = "pending" /\ u \in Users /\ user[u].role # "none"
    BY <1>1, <1>3 DEF TotpVerify, SessOK, Owned
  <2>2. q \in Request /\ q.pc = "totp" /\ q.about = u /\ q.sess = req[r].sess
    BY <1>1, <2>1 DEF Request
  <2>3. ReqOK(q)
    BY <1>1, <2>1, <2>2 DEF ReqOK, RowOK, AboutOK, StageOK
  <2>4. Local(r, q)
    BY <1>3 DEF TotpVerify
  <2> HIDE DEF q
  <2> QED  BY <2>2, <2>3, <2>4, LocalKeeps
<1> QED  BY <1>2, <1>3

LEMMA EnrolKeeps ==
  ASSUME IInv, NEW r \in Requests, EnrolCommit(r)
  PROVE  IInv'
<1> DEFINE u == req[r].sess.uid
           q == [req[r] EXCEPT !.pc = "enrolled", !.about = u]
<1>1. req[r] \in Request /\ ReqOK(req[r]) /\ req[r].sess \in Session /\ SessOK(req[r].sess)
  BY DEF IInv, TypeOK, Request, ReqOK
<1>2. u \in Users /\ user[u].role # "none" /\ user[u] \in Row
  <2>1. req[r].sess.kind \in {"enroll", "full"}
    BY <1>1 DEF EnrolCommit, Enrolling, Guest, Served, In, ReqOK, StageOK
  <2> QED  BY <1>1, <2>1 DEF SessOK, Owned, IInv, TypeOK
<1>3. user' = [user EXCEPT ![u].totp = TRUE] /\ user' \in [Users -> Row]
  BY <1>2 DEF EnrolCommit, IInv, TypeOK, Row
<1>4. UsersMove
  <2>1. ASSUME NEW v \in Users
        PROVE user'[v].sv = user[v].sv /\ user'[v].role = user[v].role /\ user[v].sv \in Nat
    BY <1>2, <1>3 DEF IInv, TypeOK, Row
  <2> QED  BY <1>3, <2>1 DEF UsersMove
<1>5. /\ q \in Request /\ q.pc = "enrolled" /\ q.about = u /\ q.sess = req[r].sess
      /\ q.user = req[r].user
  BY <1>1, <1>2 DEF Request
<1>0. q.sess.kind = "enroll" \/ q.user = u
  BY <1>1, <1>5 DEF EnrolCommit, Enrolling, Guest, Served, In, ReqOK, StageOK
<1>6. ReqOK(q)
  BY <1>0, <1>1, <1>2, <1>5 DEF ReqOK, RowOK, AboutOK, StageOK
<1>7. req' = [req EXCEPT ![r] = q]
  BY DEF EnrolCommit, IInv, TypeOK, Request
<1> HIDE DEF q
<1>8. req' \in [Requests -> Request] /\ req'[r] = q
      /\ \A o \in Requests \ {r} : req'[o] = req[o]
  BY <1>5, <1>7 DEF IInv, TypeOK
<1>9. ReqOK(req[r])'
  BY <1>4, <1>5, <1>6, <1>8, RequestsStay
  DEF IInv, ReqOK, SessOK, Owned, Past, RowOK, AboutOK, StageOK
<1> QED  BY <1>3, <1>4, <1>8, <1>9, StepKeeps DEF EnrolCommit, IInv, TypeOK

(* set_role, set_password and reset_totp.                                  *)
LEMMA ChangeKeeps ==
  ASSUME IInv, NEW r \in Requests, NEW u \in Users,
         NEW role \in Roles, NEW totp \in BOOLEAN, NEW x \in Session, SessOK(x),
         Change(r, u, [role |-> role, totp |-> totp, sv |-> user[u].sv + 1], x)
  PROVE  IInv'
<1> DEFINE q == [req[r] EXCEPT !.pc = "revoke", !.about = u, !.sess = x]
<1>1. UsersMove
  <2>1. role # "none"
    BY SessionsAssumption
  <2> QED  BY <2>1, BumpMoves DEF IInv, Change
<1>2. user' \in [Users -> Row] /\ changes' \in [Users -> Nat]
  BY DEF Change, IInv, TypeOK, Row
<1>3. q \in Request /\ q.pc = "revoke" /\ q.sess = x
  BY DEF IInv, TypeOK, Request
<1>4. ReqOK(q)
  BY <1>3 DEF ReqOK, RowOK, AboutOK, StageOK
<1>5. req' = [req EXCEPT ![r] = q]
  BY DEF Change, IInv, TypeOK, Request
<1> HIDE DEF q
<1>6. req' \in [Requests -> Request] /\ req'[r] = q
      /\ \A o \in Requests \ {r} : req'[o] = req[o]
  BY <1>3, <1>5 DEF IInv, TypeOK
<1>7. ReqOK(req[r])'
  BY <1>1, <1>3, <1>4, <1>6, RequestsStay
  DEF IInv, ReqOK, SessOK, Owned, Past, RowOK, AboutOK, StageOK
<1> QED  BY <1>1, <1>2, <1>6, <1>7, StepKeeps DEF Change, IInv, TypeOK

LEMMA BumpedRow ==
  ASSUME NEW y \in Row
  PROVE  Bump(y) = [role |-> y.role, totp |-> y.totp, sv |-> y.sv + 1]
BY DEF Bump, Row

LEMMA CredentialsKeep ==
  ASSUME IInv, NEW r \in Requests, ChangePassword(r) \/ SetRole(r) \/ ResetTotp(r)
  PROVE  IInv'
<1>1. req[r] \in Request /\ req[r].sess \in Session /\ SessOK(req[r].sess)
  BY DEF IInv, TypeOK, Request, ReqOK
<1>2. CASE ChangePassword(r)
  <2> DEFINE u == req[r].user
  <2>1. u \in Users /\ user[u].role # "none" /\ user[u] \in Row
    <3>1. req[r].sess.kind = "full" /\ req[r].sess.uid = u
      BY <1>2 DEF ChangePassword, Served, In, IInv, ReqOK, StageOK
    <3> QED  BY <1>1, <3>1 DEF SessOK, Owned, IInv, TypeOK
  <2>2. /\ user[u].role \in Roles /\ user[u].totp \in BOOLEAN
        /\ Bump(user[u]) = [role |-> user[u].role, totp |-> user[u].totp, sv |-> user[u].sv + 1]
    BY <2>1 DEF Bump, Row
  <2>3. Change(r, u, [role |-> user[u].role, totp |-> user[u].totp, sv |-> user[u].sv + 1], None)
    BY <1>2, <2>2 DEF ChangePassword
  <2> QED  BY <2>1, <2>2, <2>3, EmptySessions, ChangeKeeps
<1>3. CASE SetRole(r)
  <2>1. PICK u \in Users, role \in Roles :
          user[u].role # "none" /\ Change(r, u, SetRoleRow(u, role), req[r].sess)
    BY <1>3 DEF SetRole
  <2>2. user[u] \in Row
    BY DEF IInv, TypeOK
  <2>3. /\ user[u].totp \in BOOLEAN
        /\ SetRoleRow(u, role) = [role |-> role, totp |-> user[u].totp, sv |-> user[u].sv + 1]
    <3> DEFINE y == [user[u] EXCEPT !.role = role]
    <3>1. y \in Row /\ y.role = role /\ y.totp = user[u].totp /\ y.sv = user[u].sv
      BY <2>2 DEF Row
    <3>2. Bump(y) = [role |-> role, totp |-> user[u].totp, sv |-> user[u].sv + 1]
      <4> HIDE DEF y
      <4> QED  BY <3>1, BumpedRow
    <3> QED  BY <2>2, <3>1, <3>2 DEF SetRoleRow, Row
  <2>4. Change(r, u, [role |-> role, totp |-> user[u].totp, sv |-> user[u].sv + 1], req[r].sess)
    BY <2>1, <2>3
  <2> QED  BY <1>1, <2>3, <2>4, ChangeKeeps
<1>4. CASE ResetTotp(r)
  <2>1. PICK u \in Users :
          /\ user[u].role # "none"
          /\ Change(r, u, Bump([user[u] EXCEPT !.totp = FALSE]), req[r].sess)
    BY <1>4 DEF ResetTotp
  <2>2. user[u] \in Row
    BY DEF IInv, TypeOK
  <2>3. /\ user[u].role \in Roles
        /\ Bump([user[u] EXCEPT !.totp = FALSE])
             = [role |-> user[u].role, totp |-> FALSE, sv |-> user[u].sv + 1]
    <3> DEFINE y == [user[u] EXCEPT !.totp = FALSE]
    <3>1. y \in Row /\ y.role = user[u].role /\ y.totp = FALSE /\ y.sv = user[u].sv
      BY <2>2 DEF Row
    <3>2. Bump(y) = [role |-> user[u].role, totp |-> FALSE, sv |-> user[u].sv + 1]
      <4> HIDE DEF y
      <4> QED  BY <3>1, BumpedRow
    <3> QED  BY <2>1, <2>2, <3>1, <3>2 DEF Row
  <2>4. Change(r, u, [role |-> user[u].role, totp |-> FALSE, sv |-> user[u].sv + 1], req[r].sess)
    BY <2>1, <2>3
  <2> QED  BY <1>1, <2>3, <2>4, ChangeKeeps
<1> QED  BY <1>2, <1>3, <1>4

LEMMA ScriptKeeps ==
  ASSUME IInv, NEW u \in Users, ResetByScript(u)
  PROVE  IInv'
<1>1. user[u] \in Row /\ user[u].role # "none"
  BY DEF IInv, TypeOK, ResetByScript
<1>2. PICK totp \in {FALSE, user[u].totp} :
        user' = [user EXCEPT ![u] = Bump([@ EXCEPT !.totp = totp])]
  BY DEF ResetByScript
<1>3. /\ totp \in BOOLEAN /\ user[u].role \in Roles
      /\ Bump([user[u] EXCEPT !.totp = totp])
           = [role |-> user[u].role, totp |-> totp, sv |-> user[u].sv + 1]
  <2> DEFINE y == [user[u] EXCEPT !.totp = totp]
  <2>1. totp \in BOOLEAN
    BY <1>1 DEF Row
  <2>2. y \in Row /\ y.role = user[u].role /\ y.totp = totp /\ y.sv = user[u].sv
    BY <1>1, <2>1 DEF Row
  <2>3. Bump(y) = [role |-> user[u].role, totp |-> totp, sv |-> user[u].sv + 1]
    <3> HIDE DEF y
    <3> QED  BY <2>2, BumpedRow
  <2> QED  BY <1>1, <2>1, <2>2, <2>3 DEF Row
<1>4. user' = [user EXCEPT ![u] = [role |-> user[u].role, totp |-> totp, sv |-> user[u].sv + 1]]
  BY <1>2, <1>3 DEF IInv, TypeOK
<1>5. UsersMove
  BY <1>1, <1>3, <1>4, BumpMoves DEF IInv
<1>6. user' \in [Users -> Row]
  BY <1>1, <1>3, <1>4 DEF IInv, TypeOK, Row
<1> QED  BY <1>5, <1>6, StepKeeps DEF ResetByScript, IInv, TypeOK

LEMMA CreateKeeps ==
  ASSUME IInv, NEW r \in Requests, CreateUser(r)
  PROVE  IInv'
<1> DEFINE q == Done(req[r])
<1>1. PICK u \in Users, role \in Roles :
        user[u].role = "none" /\ user' = [user EXCEPT ![u].role = role]
  BY DEF CreateUser
<1>2. user' \in [Users -> Row]
  BY <1>1 DEF IInv, TypeOK, Row
<1>3. UsersMove
  <2>1. ASSUME NEW v \in Users
        PROVE  /\ user[v].sv \in Nat /\ user'[v].sv = user[v].sv
               /\ user[v].role # "none" => user'[v].role = user[v].role
    BY <1>1 DEF IInv, TypeOK, Row
  <2> QED  BY <1>2, <2>1 DEF UsersMove
<1>4. NoRow \in Row /\ req[r] \in Request /\ ReqOK(req[r])
  BY DEF NoRow, Row, IInv, TypeOK
<1>5. q \in Request /\ q.sess = req[r].sess /\ q.pc = "save"
  BY <1>4 DEF Done, Request
<1>6. ReqOK(q)
  BY <1>4, <1>5 DEF ReqOK, RowOK, AboutOK, StageOK
<1>7. req' = [req EXCEPT ![r] = q]
  BY DEF CreateUser
<1> HIDE DEF q
<1>8. req' \in [Requests -> Request] /\ req'[r] = q
      /\ \A o \in Requests \ {r} : req'[o] = req[o]
  BY <1>5, <1>7 DEF IInv, TypeOK
<1>9. ReqOK(req[r])'
  BY <1>3, <1>5, <1>6, <1>8, RequestsStay
  DEF IInv, ReqOK, SessOK, Owned, Past, RowOK, AboutOK, StageOK
<1> QED  BY <1>2, <1>3, <1>8, <1>9, StepKeeps DEF CreateUser, IInv, TypeOK

(* What writes the store: revoke_all_for, save_session and the expiry.     *)
LEMMA StoreKeeps ==
  ASSUME IInv, SidOK,
               \/ \E r \in Requests : Revoke(r) \/ Save(r)
               \/ \E s \in Sids : Expire(s)
  PROVE  IInv'
<1>1. user' = user /\ UsersMove
  BY SameUsersMove DEF IInv, Revoke, Save, Expire
<1>2. CASE \E s \in Sids : Expire(s)
  <2>1. store' \in [Sids -> Session] /\ \A s \in Sids : store'[s] = store[s] \/ store'[s] = None
    BY <1>2, EmptySessions DEF Expire, IInv, TypeOK
  <2>2. \A s \in Sids : store'[s] = store[s] \/ SessOK(store[s])'
    BY <1>1, <2>1, EmptySessions DEF SessOK, Owned, Past
  <2> QED  BY <1>1, <1>2, <2>1, <2>2, StepKeeps DEF Expire, IInv, TypeOK
<1>3. ASSUME NEW r \in Requests, Revoke(r) PROVE IInv'
  <2> DEFINE q == Done(req[r])
  <2>1. NoRow \in Row /\ req[r] \in Request /\ ReqOK(req[r])
    BY DEF NoRow, Row, IInv, TypeOK
  <2>2. q \in Request /\ q.sess = req[r].sess /\ q.pc = "save"
    BY <2>1 DEF Done, Request
  <2>3. ReqOK(q)
    BY <2>1, <2>2 DEF ReqOK, RowOK, AboutOK, StageOK
  <2>4. req' = [req EXCEPT ![r] = q]
    BY <1>3 DEF Revoke
  <2> HIDE DEF q
  <2>5. req' \in [Requests -> Request] /\ req'[r] = q
        /\ \A o \in Requests \ {r} : req'[o] = req[o]
    BY <2>2, <2>4 DEF IInv, TypeOK
  <2>6. ReqOK(req[r])'
    BY <1>1, <2>3, <2>5 DEF ReqOK, SessOK, Owned, Past, RowOK, AboutOK, StageOK
  <2>7. store' \in [Sids -> Session] /\ \A s \in Sids : store'[s] = store[s] \/ store'[s] = None
    <3>1. store \in [Sids -> Session] /\ None \in Session
      BY EmptySessions DEF IInv, TypeOK
    <3>2. store' = [s \in Sids |-> IF store[s].kind = "full" /\ store[s].uid = req[r].about
                                     THEN None ELSE store[s]]
      BY <1>3 DEF Revoke
    <3> QED  BY <3>1, <3>2
  <2>8. \A s \in Sids : store'[s] = store[s] \/ SessOK(store[s])'
    BY <1>1, <2>7, EmptySessions DEF SessOK, Owned, Past
  <2> QED  BY <1>1, <1>3, <2>5, <2>6, <2>7, <2>8, StepKeeps DEF Revoke, IInv, TypeOK
<1>4. ASSUME NEW r \in Requests, Save(r) PROVE IInv'
  <2> DEFINE x == Saved(req[r])
  <2>1. req[r].sess \in Session /\ SessOK(req[r].sess) /\ req[r].sid \in Sids
    BY <1>4 DEF IInv, SidOK, TypeOK, Request, ReqOK, Save, In
  <2>2. store' = [store EXCEPT ![req[r].sid] = x]
    BY <1>4 DEF Save
  <2>3. x \in Session /\ SessOK(x)
    BY <2>1, EmptySessions DEF Saved, IInv, TypeOK
  <2> HIDE DEF x
  <2>4. store' \in [Sids -> Session] /\ \A s \in Sids : store'[s] = store[s] \/ store'[s] = x
    BY <2>2, <2>3 DEF IInv, TypeOK
  <2>5. \A s \in Sids : store'[s] = store[s] \/ SessOK(store[s])'
    BY <1>1, <2>3, <2>4 DEF SessOK, Owned, Past
  <2>6. out' \subseteq Sids
    BY <1>4, <2>1 DEF Save, IInv, TypeOK
  <2> DEFINE q == Idle(Nobody)
  <2>7. q \in Request /\ q.sess = None /\ q.pc = "idle"
    BY EmptySessions DEF Idle, Request, NoRow, Row
  <2>8. req' = [req EXCEPT ![r] = q]
    BY <1>4 DEF Save
  <2> HIDE DEF q
  <2>9. req' \in [Requests -> Request] /\ req'[r] = q
        /\ \A o \in Requests \ {r} : req'[o] = req[o]
    BY <2>7, <2>8 DEF IInv, TypeOK
  <2>10. ReqOK(req[r])'
    BY <1>1, <2>7, <2>9, EmptySessions
    DEF ReqOK, SessOK, Owned, Past, RowOK, AboutOK, StageOK
  <2> QED  BY <1>1, <1>4, <2>4, <2>5, <2>6, <2>9, <2>10, StepKeeps DEF Save, IInv, TypeOK
<1> QED  BY <1>2, <1>3, <1>4

(* A request keeps its id between open_session and save_session.           *)
LEMMA SidKept ==
  ASSUME IInv, NEW r \in Requests,
         \/ AttachRefused(r) \/ AttachServed(r) \/ View(r) \/ ShowLogin(r)
         \/ LoginRead(r) \/ LoginStart(r) \/ TotpVerify(r) \/ TotpTooLate(r)
         \/ SecondFactorDone(r) \/ EnrolShow(r) \/ EnrolCommit(r) \/ Logout(r)
         \/ ChangePassword(r) \/ SetRole(r) \/ ResetTotp(r) \/ CreateUser(r) \/ Revoke(r)
  PROVE  /\ req[r].pc # "idle"
         /\ req'[r].sid = req[r].sid /\ \A o \in Requests \ {r} : req'[o] = req[o]
<1>1. req[r].pc # "idle"
  BY DEF AttachRefused, AttachServed, View, ShowLogin, LoginRead, LoginStart,
    TotpVerify, TotpTooLate, SecondFactorDone, EnrolShow, EnrolCommit, Logout,
    ChangePassword, SetRole, ResetTotp, CreateUser, Revoke, In, Guest, Served, Enrolling,
    ManagesUsers
<1> DEFINE Kept == req'[r].sid = req[r].sid /\ \A o \in Requests \ {r} : req'[o] = req[o]
<1> SUFFICES Kept
  BY <1>1
<1>2. req \in [Requests -> Request] /\ req[r] \in Request
  BY DEF IInv, TypeOK
<1>3. ASSUME NEW x, Respond(r, x) PROVE Kept
  <2>1. Done([req[r] EXCEPT !.sess = x, !.dirty = TRUE]).sid = req[r].sid
    BY <1>2 DEF Done, Request
  <2> QED  BY <1>2, <1>3, <2>1 DEF Respond, Local
<1>4. CASE View(r) \/ CreateUser(r) \/ Revoke(r)
  <2>1. Done(req[r]).sid = req[r].sid
    BY <1>2 DEF Done, Request
  <2> QED  BY <1>2, <1>4, <2>1 DEF View, CreateUser, Revoke, Local
<1>5. CASE AttachRefused(r) \/ AttachServed(r)
  <2>1. CASE AttachRefused(r)
    <3>1. [req[r] EXCEPT !.pc = "view", !.sess = None, !.dirty = TRUE].sid = req[r].sid
      BY <1>2 DEF Request
    <3> QED  BY <1>2, <2>1, <3>1 DEF AttachRefused, Local
  <2>2. CASE AttachServed(r)
    <3> DEFINE u == req[r].sess.uid
    <3>1. [req[r] EXCEPT !.pc = "view", !.dirty = TRUE, !.user = u,
                         !.role = user[u].role].sid = req[r].sid
      BY <1>2 DEF Request
    <3> QED  BY <1>2, <2>2, <3>1 DEF AttachServed, Local
  <2> QED  BY <1>5, <2>1, <2>2
<1>6. CASE LoginRead(r) \/ TotpVerify(r)
  <2>1. PICK pc, u, row : Local(r, [req[r] EXCEPT !.pc = pc, !.about = u, !.row = row])
                          \/ Local(r, [req[r] EXCEPT !.pc = pc, !.about = u])
    BY <1>6 DEF LoginRead, TotpVerify
  <2>2. /\ [req[r] EXCEPT !.pc = pc, !.about = u, !.row = row].sid = req[r].sid
        /\ [req[r] EXCEPT !.pc = pc, !.about = u].sid = req[r].sid
    BY <1>2 DEF Request
  <2> QED  BY <1>2, <2>1, <2>2 DEF Local
<1>7. CASE EnrolCommit(r)
  BY <1>2, <1>7 DEF EnrolCommit, Request
<1>8. CASE ChangePassword(r) \/ SetRole(r) \/ ResetTotp(r)
  <2>1. PICK u, row, x : Change(r, u, row, x)
    BY <1>8 DEF ChangePassword, SetRole, ResetTotp
  <2> QED  BY <1>2, <2>1 DEF Change, Request
<1>9. CASE ShowLogin(r) \/ LoginStart(r) \/ TotpTooLate(r) \/ SecondFactorDone(r)
           \/ EnrolShow(r) \/ Logout(r)
  <2> HIDE DEF Kept
  <2> QED  BY <1>3, <1>9
           DEF ShowLogin, LoginStart, TotpTooLate, SecondFactorDone, EnrolShow, Logout
<1> HIDE DEF Kept
<1> QED  BY <1>4, <1>5, <1>6, <1>7, <1>8, <1>9

LEMMA SidStays ==
  ASSUME IInv, SidOK, Next
  PROVE  SidOK'
<1>1. \A r \in Requests : req[r] \in Request
  BY DEF IInv, TypeOK
<1>2. ASSUME NEW r \in Requests, Open(r) PROVE SidOK'
  <2>1. PICK sid \in Sids : \E pc \in {"opened", "view"}, x \in Session :
          req' = [req EXCEPT ![r] = [Idle(sid) EXCEPT !.pc = pc, !.sess = x]]
    BY <1>2 DEF Open, SidOf, Fresh, IInv, TypeOK
  <2> QED  BY <2>1, <1>1 DEF SidOK, IInv, TypeOK, Idle
<1>3. ASSUME NEW r \in Requests, req[r].pc # "idle", req'[r].sid = req[r].sid,
             \A o \in Requests \ {r} : req'[o] = req[o]
      PROVE  SidOK'
  BY <1>3 DEF SidOK
<1>4. ASSUME NEW r \in Requests, Save(r) PROVE SidOK'
  BY <1>4 DEF Save, Idle, SidOK, IInv, TypeOK
<1>5. ASSUME req' = req PROVE SidOK'
  BY <1>5 DEF SidOK
<1> QED  BY <1>2, <1>3, <1>4, <1>5, SidKept DEF Next, ResetByScript, Expire

LEMMA NextKeeps ==
  ASSUME IInv /\ SidOK, [Next]_vars
  PROVE  (IInv /\ SidOK)'
<1>1. CASE UNCHANGED vars
  BY <1>1 DEF vars, IInv, SidOK, TypeOK, ReqOK, SessOK, Owned, Past, RowOK, AboutOK, StageOK
<1>2. CASE Next
  BY <1>2, SidStays, OpenKeeps, AttachKeeps, AnswerKeeps, StageKeeps, EnrolKeeps,
     CredentialsKeep, CreateKeeps, ScriptKeeps, StoreKeeps DEF Next
<1> QED  BY <1>1, <1>2

LEMMA InitHolds == Init => IInv /\ SidOK
<1> SUFFICES ASSUME Init PROVE IInv /\ SidOK
  OBVIOUS
<1>1. NoRow \in Row /\ [NoRow EXCEPT !.role = "owner"] \in Row
  BY SessionsAssumption DEF NoRow, Row
<1>2. /\ Idle(Nobody) \in Request /\ Idle(Nobody).pc = "idle" /\ Idle(Nobody).sess = None
  BY <1>1, EmptySessions DEF Idle, Request
<1>3. ReqOK(Idle(Nobody))
  BY <1>2, EmptySessions DEF ReqOK, RowOK, AboutOK, StageOK
<1>4. TypeOK
  BY <1>1, <1>2, EmptySessions DEF Init, TypeOK
<1>5. \A r \in Requests : req[r] = Idle(Nobody)
  BY DEF Init
<1> QED  BY <1>2, <1>3, <1>4, <1>5, EmptySessions DEF Init, IInv, SidOK

(* Copies of sessions, in Redis and in requests, never run ahead of their  *)
(* user's session_version, and every request that has started has an id    *)
(* (admin/sessions.py, admin/auth.py).                                     *)
THEOREM Invariance == Spec => [](IInv /\ SidOK)
BY InitHolds, NextKeeps, PTL DEF Spec

(* The accounts, the store and the requests keep their types in every      *)
(* interleaving of requests (admin/auth.py, admin/sessions.py).            *)
THEOREM SessionsTyped == Spec => []TypeOK
<1>1. IInv => TypeOK
  BY DEF IInv
<1> QED  BY <1>1, Invariance, PTL

(* No request is served as owner or manager in a session that was started  *)
(* without a second factor (admin/auth.py:4), for any number of accounts,  *)
(* cookies, overlapping requests and changes of role.                      *)
THEOREM SecondFactorIsMandatory == Spec => []SecondFactor
<1>1. IInv => SecondFactor
  BY DEF IInv, ReqOK, StageOK, SecondFactor, Served, In
<1> QED  BY <1>1, Invariance, PTL

(* An id that was signed out stays unused: a request is only opened under  *)
(* it when open_session makes it anew, and then it is not "out" any more.  *)
LEMMA SignedOutKept ==
  ASSUME IInv, SidOK, SignedOutStaysOut, [Next]_vars
  PROVE  SignedOutStaysOut'
<1>1. ASSUME NEW r \in Requests, Open(r) PROVE SignedOutStaysOut'
  <2>1. PICK cookie \in Sids : \E sid \in SidOf(cookie) :
          /\ req' = [req EXCEPT ![r] = [Idle(sid) EXCEPT
                       !.pc = IF store[sid].kind = "full" THEN "opened" ELSE "view",
                       !.sess = store[sid]]]
          /\ out' = IF sid # cookie THEN out \ {sid} ELSE out
    BY <1>1 DEF Open
  <2>2. PICK sid \in SidOf(cookie) :
          /\ req' = [req EXCEPT ![r] = [Idle(sid) EXCEPT
                       !.pc = IF store[sid].kind = "full" THEN "opened" ELSE "view",
                       !.sess = store[sid]]]
          /\ out' = IF sid # cookie THEN out \ {sid} ELSE out
    BY <2>1
  <2>3. req'[r].sid = sid /\ \A o \in Requests \ {r} : req'[o] = req[o]
    BY <2>2 DEF IInv, TypeOK, Idle
  <2>4. sid \notin out'
    BY <2>2 DEF SidOf, SignedOutStaysOut
  <2>5. out' \subseteq out /\ store' = store
    BY <1>1, <2>2 DEF Open
  <2> QED  BY <2>3, <2>4, <2>5 DEF SignedOutStaysOut
<1>2. ASSUME NEW r \in Requests, Save(r) PROVE SignedOutStaysOut'
  <2> DEFINE id == req[r].sid
  <2>1. id \in Sids /\ id \notin out
    BY <1>2 DEF Save, In, SidOK, SignedOutStaysOut
  <2>2. req'[r].sid = Nobody /\ \A o \in Requests \ {r} : req'[o] = req[o]
    BY <1>2 DEF Save, IInv, TypeOK, Idle
  <2>3. \A s \in Sids \ {id} : store'[s] = store[s]
    BY <1>2 DEF Save, IInv, TypeOK
  <2>4. out \subseteq Sids /\ Nobody \notin Sids
    BY SessionsAssumption DEF IInv, TypeOK
  <2>5. CASE out' = out
    BY <2>1, <2>2, <2>3, <2>4, <2>5 DEF SignedOutStaysOut
  <2>6. CASE out' # out
    <3>1. /\ req[r].sess = None /\ out' = out \cup {id}
          /\ \A o \in Requests \ {r} : req[o].sid # id
      BY <1>2, <2>6 DEF Save
    <3>2. store'[id] = None
      BY <1>2, <2>1, <3>1 DEF Save, Saved, IInv, TypeOK
    <3> HIDE DEF id
    <3> QED  BY <2>1, <2>2, <2>3, <2>4, <3>1, <3>2 DEF SignedOutStaysOut
  <2> QED  BY <2>5, <2>6
<1>3. ASSUME out' = out, \A s \in Sids : store'[s] = store[s] \/ store'[s] = None,
             \A r \in Requests : req'[r].sid = req[r].sid
      PROVE  SignedOutStaysOut'
  BY <1>3 DEF SignedOutStaysOut, IInv, TypeOK
<1>4. ASSUME NEW r \in Requests,
             \/ AttachRefused(r) \/ AttachServed(r) \/ View(r) \/ ShowLogin(r)
             \/ LoginRead(r) \/ LoginStart(r) \/ TotpVerify(r) \/ TotpTooLate(r)
             \/ SecondFactorDone(r) \/ EnrolShow(r) \/ EnrolCommit(r) \/ Logout(r)
             \/ ChangePassword(r) \/ SetRole(r) \/ ResetTotp(r) \/ CreateUser(r) \/ Revoke(r)
      PROVE  SignedOutStaysOut'
  <2>1. \A o \in Requests : req'[o].sid = req[o].sid
    BY <1>4, SidKept
  <2>2. out' = out /\ (store' = store \/ Revoke(r))
    BY <1>4 DEF AttachRefused, AttachServed, View, ShowLogin, LoginRead, LoginStart, TotpVerify,
       TotpTooLate, SecondFactorDone, EnrolShow, EnrolCommit, Logout, ChangePassword, SetRole,
       ResetTotp, CreateUser, Revoke, Respond, Local, Change
  <2>3. \A s \in Sids : store'[s] = store[s] \/ store'[s] = None
    BY <2>2 DEF Revoke
  <2> QED  BY <1>3, <2>1, <2>2, <2>3
<1>5. ASSUME NEW s \in Sids, Expire(s) PROVE SignedOutStaysOut'
  BY <1>3, <1>5 DEF Expire, IInv, TypeOK
<1>6. ASSUME NEW u \in Users, ResetByScript(u) PROVE SignedOutStaysOut'
  BY <1>3, <1>6 DEF ResetByScript
<1>7. CASE UNCHANGED vars
  BY <1>3, <1>7 DEF vars
<1> QED  BY <1>1, <1>2, <1>4, <1>5, <1>6, <1>7 DEF Next

(* A cookie that was signed out finds no session again, and no request     *)
(* runs under its id (admin/sessions.py:78), however requests, revocations *)
(* and expiry overlap.                                                     *)
THEOREM SignedOutIsForGood == Spec => []SignedOutStaysOut
<1>1. Init => SignedOutStaysOut
  BY DEF Init, SignedOutStaysOut
<1> QED  BY <1>1, Invariance, SignedOutKept, PTL DEF Spec

-----------------------------------------------------------------------------
(* The refinement.  Who a request serves, as Access sees it.               *)
Serving == [r \in Requests |-> req[r].user]

(* A request that stays what it was, has nothing new in its copy of the    *)
(* session, and is not in the middle of another login.                     *)
Tame(q, old, copies) ==
  \/ q = old
  \/ /\ q.pc # "login"
     /\ q.sess \in {None, Anon} \/ q.sess = old.sess \/ q.sess \in copies

Stored == {store[s] : s \in Sids}
Copies == {req[r].sess : r \in Requests}

(* A step that makes no new session and moves no version withdraws         *)
(* sign-ins at most.                                                       *)
LEMMA NothingNew ==
  ASSUME \A u \in Users : user'[u].sv = user[u].sv,
         \A s \in Sids : store'[s] = store[s] \/ store'[s] \in {None, Anon} \cup Copies,
         \A r \in Requests : Tame(req'[r], req[r], Stored)
  PROVE  Begun' \subseteq Begun /\ Halfway' \subseteq Halfway /\ Entitled' \subseteq Entitled
<1> USE EmptySessions
<1>1. ASSUME NEW x \in {None, Anon} PROVE x.kind \notin {"pending", "enroll", "full"}
  BY <1>1
<1>2. ASSUME NEW u \in Users, NEW s \in Sids
      PROVE  /\ Worth(store[s], u)' => u \in Entitled
             /\ Waits(store[s], u)' => u \in Halfway
  BY <1>1 DEF Entitled, Halfway, Worth, Waits, Copies
<1>3. ASSUME NEW u \in Users, NEW r \in Requests
      PROVE  /\ Worth(req[r].sess, u)' => u \in Entitled
             /\ Waits(req[r].sess, u)' => u \in Halfway
  BY <1>1 DEF Entitled, Halfway, Worth, Waits, Stored, Tame
<1>4. ASSUME NEW r \in Requests, In(r, "login")' PROVE req'[r] = req[r]
  BY <1>4 DEF Tame, In
<1>5. ASSUME NEW u \in Users, NEW r \in Requests, LoggingIn(r, u)'
      PROVE  u \in Halfway /\ (req'[r].row.sv = user'[u].sv => u \in Begun)
  BY <1>4, <1>5 DEF LoggingIn, In, Halfway, Begun
<1>6. Begun' \subseteq Begun
  BY <1>5 DEF Begun
<1>7. Halfway' \subseteq Halfway
  BY <1>2, <1>3, <1>5 DEF Halfway
<1>8. Entitled' \subseteq Entitled
  BY <1>2, <1>3 DEF Entitled
<1> QED  BY <1>6, <1>7, <1>8

LEMMA Lapses ==
  ASSUME Begun' \subseteq Begun, Halfway' \subseteq Halfway, Entitled' \subseteq Entitled,
         Serving' = Serving, changes' = changes
  PROVE  Granted!Next
BY DEF Granted!Next, Granted!Lapse, Granted!Fades, Serving

(* One request moves on without a new session and without being admitted.  *)
LEMMA LocalLapses ==
  ASSUME IInv, NEW r \in Requests, NEW q, req' = [req EXCEPT ![r] = q],
         q.user = req[r].user, Tame(q, req[r], {}),
         store' = store, changes' = changes, \A u \in Users : user'[u].sv = user[u].sv
  PROVE  Granted!Next
<1>1. req'[r] = q /\ \A o \in Requests \ {r} : req'[o] = req[o]
  BY DEF IInv, TypeOK
<1>2. \A o \in Requests : Tame(req'[o], req[o], Stored)
  BY <1>1 DEF Tame
<1>3. Begun' \subseteq Begun /\ Halfway' \subseteq Halfway /\ Entitled' \subseteq Entitled
  BY <1>2, NothingNew
<1>4. Serving' = Serving
  BY <1>1 DEF Serving
<1> QED  BY <1>3, <1>4, Lapses

(* An answer with a session of u's: what it is worth has to be due.        *)
LEMMA SignsIn ==
  ASSUME IInv, NEW r \in Requests, NEW u \in Users, NEW x \in Session, Respond(r, x),
         x.uid = u,
         req[r].sess.kind = "full" => req[r].sess.uid = u,
         Waits(x, u) => u \in Halfway,
         Worth(x, u) => u \in Begun \/ u \in Halfway \/ req[r].user = u
  PROVE  Granted!Next
<1> DEFINE q == Done([req[r] EXCEPT !.sess = x, !.dirty = TRUE])
<1>1. q.user = req[r].user /\ q.sess = x /\ q.pc = "save"
  BY DEF IInv, TypeOK, Request, Done
<1>2. req' = [req EXCEPT ![r] = q] /\ UNCHANGED <<user, store, changes>>
  BY DEF Respond, Local
<1> HIDE DEF q
<1>3. req'[r].sess = x /\ req'[r].user = req[r].user /\ req'[r].pc = "save"
      /\ \A o \in Requests \ {r} : req'[o] = req[o]
  BY <1>1, <1>2 DEF IInv, TypeOK
<1>4. Serving' = Serving
  BY <1>3 DEF Serving
<1>5. Begun' \subseteq Begun
  BY <1>2, <1>3 DEF Begun, LoggingIn, In
<1>6. Halfway' \subseteq Halfway
  <2>1. ASSUME NEW v \in Users, NEW o \in Requests, LoggingIn(o, v)' PROVE LoggingIn(o, v)
    BY <1>3, <2>1 DEF LoggingIn, In
  <2>2. ASSUME NEW v \in Users, NEW o \in Requests, Waits(req[o].sess, v)' PROVE v \in Halfway
    <3>1. CASE o = r
      BY <1>3, <2>2, <3>1 DEF Waits
    <3>2. CASE o # r
      BY <1>3, <2>2, <3>2 DEF Waits, Halfway
    <3> QED  BY <3>1, <3>2
  <2> QED  BY <1>2, <2>1, <2>2 DEF Halfway, Waits
<1>7. CASE Worth(x, u)
  <2>1. Worth(req[r].sess, u)'
    BY <1>2, <1>3, <1>7 DEF Worth
  <2>2. ASSUME NEW v \in Entitled PROVE v \in Entitled' \cup {u}
    BY <1>2, <1>3 DEF Entitled, Worth
  <2>3. ASSUME NEW v \in Entitled' PROVE v \in Entitled \cup {u}
    BY <1>2, <1>3 DEF Entitled, Worth
  <2>4. Entitled' = Entitled \cup {u}
    BY <2>1, <2>2, <2>3 DEF Entitled
  <2>5. CASE u \in Begun
    BY <1>2, <1>4, <1>5, <1>6, <2>4, <2>5 DEF Granted!Next, Granted!SignIn, Serving
  <2>6. CASE u \in Halfway \/ req[r].user = u
    BY <1>2, <1>4, <1>5, <1>6, <2>4, <2>6 DEF Granted!Next, Granted!Prove, Serving
  <2> QED  BY <1>7, <2>5, <2>6
<1>8. CASE ~Worth(x, u)
  <2>1. Entitled' \subseteq Entitled
    BY <1>2, <1>3, <1>8 DEF Entitled, Worth
  <2> QED  BY <1>2, <1>4, <1>5, <1>6, <2>1, Lapses
<1> QED  BY <1>7, <1>8

(* A change of credentials withdraws every sign-in of its user: no copy    *)
(* has the version the user gets, and no login has read it.                *)
LEMMA Withdraws ==
  ASSUME IInv, NEW u \in Users,
         user'[u].sv = user[u].sv + 1, \A v \in Users \ {u} : user'[v].sv = user[v].sv,
         changes' = [changes EXCEPT ![u] = @ + 1], store' = store,
         \A r \in Requests : \/ req'[r].sess = req[r].sess
                             \/ /\ req'[r].sess = None
                                /\ req[r].sess.kind = "full" /\ req[r].sess.uid = u,
         \A r \in Requests : \/ req'[r] = req[r]
                             \/ ~In(r, "login") /\ ~In(r, "login")',
         Serving' = Serving
  PROVE  Granted!Next
<1>1. u \notin Entitled'
  <2>1. ASSUME NEW x \in Session, SessOK(x), x.kind = "full", x.uid = u
        PROVE  x.sv # user'[u].sv
    <3>1. x.sv <= user[u].sv /\ x.sv \in Nat /\ user[u].sv \in Nat
      BY <2>1 DEF SessOK, Past, IInv, TypeOK, Row, Session
    <3> QED  BY <3>1
  <2>2. ASSUME NEW s \in Sids PROVE ~Worth(store[s], u)'
    <3>1. store[s] \in Session /\ SessOK(store[s])
      BY DEF IInv, TypeOK
    <3> QED  BY <2>1, <3>1 DEF Worth
  <2>3. ASSUME NEW r \in Requests PROVE ~Worth(req[r].sess, u)'
    <3>1. req[r].sess \in Session /\ SessOK(req[r].sess)
      BY DEF IInv, TypeOK, Request, ReqOK
    <3> QED  BY <2>1, <3>1, EmptySessions DEF Worth
  <2> QED  BY <2>2, <2>3 DEF Entitled, Worth
<1>2. ASSUME NEW v \in Users \ {u}, v \in Entitled' PROVE v \in Entitled
  BY <1>2, EmptySessions DEF Entitled, Worth
<1>3. Entitled' \subseteq Entitled \ {u}
  BY <1>1, <1>2 DEF Entitled
<1>4. ASSUME NEW r \in Requests, NEW v \in Users
      PROVE  (LoggingIn(r, v)' <=> LoggingIn(r, v)) /\ (LoggingIn(r, v) => req'[r] = req[r])
  BY DEF LoggingIn, In
<1>5. ASSUME NEW r \in Requests, NEW v \in Users
      PROVE  Waits(req[r].sess, v)' <=> Waits(req[r].sess, v)
  BY EmptySessions DEF Waits
<1>6. Halfway' = Halfway
  BY <1>4, <1>5 DEF Halfway, Waits
<1>7. ASSUME NEW r \in Requests, LoggingIn(r, u) PROVE req[r].row.sv # user'[u].sv
  <2>1. /\ req[r].row.sv <= user[u].sv
        /\ req[r].row.sv \in Nat /\ user[u].sv \in Nat
    BY <1>7 DEF LoggingIn, In, IInv, ReqOK, RowOK, TypeOK, Request, Row
  <2> QED  BY <2>1
<1>8. Begun' = Begun \ {u}
  <2>1. u \notin Begun'
    BY <1>4, <1>7 DEF Begun
  <2>2. ASSUME NEW v \in Users \ {u} PROVE v \in Begun' <=> v \in Begun
    BY <1>4 DEF Begun
  <2> QED  BY <2>1, <2>2 DEF Begun
<1> QED  BY <1>3, <1>6, <1>8 DEF Granted!Next, Granted!Change, Serving

LEMMA FinishesAt ==
  ASSUME IInv, NEW r \in Requests, \A o \in Requests \ {r} : req'[o] = req[o],
         req'[r].user = Nobody, changes' = changes,
         Begun' \subseteq Begun, Halfway' \subseteq Halfway, Entitled' \subseteq Entitled
  PROVE  Granted!Next
<1>1. Serving' = [Serving EXCEPT ![r] = Nobody]
  BY DEF Serving
<1> QED  BY <1>1 DEF Granted!Next, Granted!Finish, Granted!Fades, Serving

LEMMA RequestRefines ==
  ASSUME IInv, NEW r \in Requests,
         \/ AttachRefused(r) \/ View(r) \/ ShowLogin(r) \/ TotpVerify(r)
         \/ TotpTooLate(r) \/ EnrolShow(r) \/ EnrolCommit(r) \/ Logout(r) \/ CreateUser(r)
  PROVE  Granted!Next
<1>1. req[r] \in Request /\ req[r].sess \in Session
  BY DEF IInv, TypeOK, Request
<1>2. CASE AttachRefused(r)
  <2> DEFINE q == [req[r] EXCEPT !.pc = "view", !.sess = None, !.dirty = TRUE]
  <2>1. q.user = req[r].user /\ q.sess = None /\ q.pc = "view"
    BY <1>1 DEF Request
  <2>2. req' = [req EXCEPT ![r] = q] /\ UNCHANGED <<user, store, changes>>
    BY <1>2 DEF AttachRefused, Local
  <2> HIDE DEF q
  <2> QED  BY <2>1, <2>2, LocalLapses DEF Tame
<1>3. ASSUME NEW x, Respond(r, x), x = req[r].sess \/ x \in {None, Anon} PROVE Granted!Next
  <2> DEFINE q == Done([req[r] EXCEPT !.sess = x, !.dirty = TRUE])
  <2>1. q.user = req[r].user /\ q.sess = x /\ q.pc = "save"
    BY <1>1 DEF Done, Request
  <2>2. req' = [req EXCEPT ![r] = q] /\ UNCHANGED <<user, store, changes>>
    BY <1>3 DEF Respond, Local
  <2> HIDE DEF q
  <2> QED  BY <1>3, <2>1, <2>2, LocalLapses DEF Tame
<1>4. CASE ShowLogin(r) \/ TotpTooLate(r) \/ EnrolShow(r) \/ Logout(r)
  BY <1>3, <1>4 DEF ShowLogin, TotpTooLate, EnrolShow, Logout
<1>5. CASE View(r) \/ CreateUser(r)
  <2> DEFINE q == Done(req[r])
  <2>1. q.user = req[r].user /\ q.sess = req[r].sess /\ q.pc = "save"
    BY <1>1 DEF Done, Request
  <2>2. req' = [req EXCEPT ![r] = q] /\ store' = store /\ changes' = changes
    BY <1>5 DEF View, CreateUser, Local
  <2>3. \A u \in Users : user'[u].sv = user[u].sv
    BY <1>5 DEF View, CreateUser, Local, IInv, TypeOK, Row
  <2> HIDE DEF q
  <2> QED  BY <2>1, <2>2, <2>3, LocalLapses DEF Tame
<1>6. CASE TotpVerify(r)
  <2> DEFINE q == [req[r] EXCEPT !.pc = "totp", !.about = req[r].sess.uid]
  <2>1. q.user = req[r].user /\ q.sess = req[r].sess /\ q.pc = "totp"
    BY <1>1 DEF Request
  <2>2. req' = [req EXCEPT ![r] = q] /\ UNCHANGED <<user, store, changes>>
    BY <1>6 DEF TotpVerify, Local
  <2> HIDE DEF q
  <2> QED  BY <2>1, <2>2, LocalLapses DEF Tame
<1>7. CASE EnrolCommit(r)
  <2> DEFINE q == [req[r] EXCEPT !.pc = "enrolled", !.about = req[r].sess.uid]
  <2>1. q.user = req[r].user /\ q.sess = req[r].sess /\ q.pc = "enrolled"
    BY <1>1 DEF Request
  <2>2. req' = [req EXCEPT ![r] = q] /\ UNCHANGED <<store, changes>>
    BY <1>7 DEF EnrolCommit, IInv, TypeOK, Request
  <2>3. \A u \in Users : user'[u].sv = user[u].sv
    BY <1>7 DEF EnrolCommit, IInv, TypeOK, Row
  <2> HIDE DEF q
  <2> QED  BY <2>1, <2>2, <2>3, LocalLapses DEF Tame
<1> QED  BY <1>2, <1>4, <1>5, <1>6, <1>7

(* An accepted password begins a sign-in.                                  *)
LEMMA LoginRefines ==
  ASSUME IInv, NEW r \in Requests, LoginRead(r)
  PROVE  Granted!Next
<1>1. PICK u \in Users : Local(r, [req[r] EXCEPT !.pc = "login", !.about = u, !.row = user[u]])
  BY DEF LoginRead
<1> DEFINE q == [req[r] EXCEPT !.pc = "login", !.about = u, !.row = user[u]]
<1>2. req[r] \in Request /\ req[r].pc = "view"
  BY DEF LoginRead, Guest, In, IInv, TypeOK
<1>3. /\ q.user = req[r].user /\ q.sess = req[r].sess
      /\ q.pc = "login" /\ q.about = u /\ q.row = user[u]
  BY <1>2 DEF Request
<1>4. req' = [req EXCEPT ![r] = q] /\ UNCHANGED <<user, store, changes>>
  BY <1>1 DEF Local
<1> HIDE DEF q
<1>5. req'[r] = q /\ \A o \in Requests \ {r} : req'[o] = req[o]
  BY <1>4 DEF IInv, TypeOK
<1>6. Serving' = Serving
  BY <1>3, <1>5 DEF Serving
<1>7. \A o \in Requests : req'[o].sess = req[o].sess
  BY <1>3, <1>5
<1>8. Entitled' = Entitled
  BY <1>4, <1>7 DEF Entitled, Worth
<1>9. ASSUME NEW v \in Users, NEW o \in Requests
      PROVE  LoggingIn(o, v)' <=> LoggingIn(o, v) \/ (o = r /\ v = u)
  BY <1>2, <1>3, <1>5 DEF LoggingIn, In
<1>10. Halfway' = Halfway \cup {u}
  BY <1>4, <1>7, <1>9 DEF Halfway, Waits
<1>11. Begun' = Begun \cup {u}
  <2>1. u \in Begun'
    BY <1>3, <1>4, <1>5, <1>9 DEF Begun
  <2>2. ASSUME NEW v \in Users, v # u PROVE v \in Begun' <=> v \in Begun
    <3>1. ASSUME NEW o \in Requests, LoggingIn(o, v) PROVE req'[o] = req[o]
      BY <1>2, <1>5, <3>1 DEF LoggingIn, In
    <3>2. \A o \in Requests : LoggingIn(o, v)' <=> LoggingIn(o, v)
      BY <1>9, <2>2
    <3> QED  BY <1>4, <3>1, <3>2 DEF Begun
  <2> QED  BY <2>1, <2>2 DEF Begun
<1> QED  BY <1>4, <1>6, <1>8, <1>10, <1>11 DEF Granted!Next, Granted!Begin, Serving

LEMMA SignInRefines ==
  ASSUME IInv, NEW r \in Requests, LoginStart(r) \/ SecondFactorDone(r)
  PROVE  Granted!Next
<1> DEFINE u == req[r].about
<1>1. req[r] \in Request /\ ReqOK(req[r])
  BY DEF IInv, TypeOK
<1>2. CASE LoginStart(r)
  <2> DEFINE x == StartFor(req[r].row, u)
  <2>1. u \in Users /\ req[r].row \in Row /\ req[r].sess.kind # "full"
    BY <1>1, <1>2 DEF LoginStart, In, ReqOK, RowOK, StageOK, Request
  <2>2. /\ x \in Session /\ x.uid = u
        /\ x.kind = "full" => x.sv = req[r].row.sv
    BY <2>1 DEF StartFor, Sess, Session, Row
  <2>3. LoggingIn(r, u)
    BY <1>2 DEF LoginStart, LoggingIn
  <2>4. u \in Halfway
    BY <2>1, <2>3 DEF Halfway
  <2>5. Respond(r, x)
    BY <1>2 DEF LoginStart
  <2> HIDE DEF x
  <2> QED  BY <2>1, <2>2, <2>4, <2>5, SignsIn
<1>3. CASE SecondFactorDone(r)
  <2> DEFINE x == Sess("full", u, user[u].sv, TRUE)
  <2>1. u \in Users /\ (req[r].sess.kind = "full" => req[r].sess.uid = u)
    BY <1>1, <1>3 DEF SecondFactorDone, ReqOK, AboutOK, StageOK
  <2>2. user[u].sv \in Nat
    BY <2>1 DEF IInv, TypeOK, Row
  <2>3. x \in Session /\ x.uid = u /\ x.kind = "full"
    BY <2>1, <2>2 DEF Sess, Session
  <2>4. Waits(req[r].sess, u) \/ req[r].user = u
    BY <1>1, <1>3 DEF SecondFactorDone, ReqOK, StageOK, Waits
  <2>5. u \in Halfway \/ req[r].user = u
    BY <2>1, <2>4 DEF Halfway
  <2>6. Respond(r, x) /\ ~Waits(x, u)
    BY <1>3, <2>3 DEF SecondFactorDone, Waits
  <2> HIDE DEF x
  <2> QED  BY <2>1, <2>3, <2>5, <2>6, SignsIn
<1> QED  BY <1>2, <1>3

LEMMA AdmitRefines ==
  ASSUME IInv, NEW r \in Requests, AttachServed(r)
  PROVE  Granted!Next
<1> DEFINE u == req[r].sess.uid
           q == [req[r] EXCEPT !.pc = "view", !.dirty = TRUE, !.user = u, !.role = user[u].role]
<1>1. req[r] \in Request /\ ReqOK(req[r]) /\ req[r].sess \in Session
  BY DEF IInv, TypeOK, Request
<1>2. /\ req[r].sess.kind = "full" /\ req[r].user = Nobody /\ req[r].pc = "opened"
      /\ u \in Users /\ user[u].sv = req[r].sess.sv
  BY <1>1 DEF AttachServed, In, IsCurrent, ReqOK, StageOK, SessOK, Owned
<1>3. u \in Entitled
  BY <1>2 DEF Entitled, Worth
<1>4. q.user = u /\ q.sess = req[r].sess /\ q.pc = "view"
  BY <1>1 DEF Request
<1>5. req' = [req EXCEPT ![r] = q] /\ UNCHANGED <<user, store, changes>>
  BY DEF AttachServed, Local
<1> HIDE DEF q
<1>6. req'[r] = q /\ \A o \in Requests \ {r} : req'[o] = req[o]
  BY <1>5 DEF IInv, TypeOK
<1>7. Serving' = [Serving EXCEPT ![r] = u] /\ Serving[r] = Nobody
  BY <1>2, <1>4, <1>6 DEF Serving
<1>8. \A o \in Requests : req'[o].sess = req[o].sess
  BY <1>4, <1>6
<1>9. Entitled' = Entitled
  BY <1>5, <1>8 DEF Entitled, Worth
<1>10. ASSUME NEW v \in Users, NEW o \in Requests
       PROVE  (LoggingIn(o, v)' <=> LoggingIn(o, v)) /\ (LoggingIn(o, v) => req'[o] = req[o])
  BY <1>2, <1>4, <1>6 DEF LoggingIn, In
<1>11. Halfway' = Halfway
  BY <1>5, <1>8, <1>10 DEF Halfway, Waits
<1>12. Begun' = Begun
  BY <1>5, <1>10 DEF Begun
<1> QED  BY <1>2, <1>3, <1>5, <1>7, <1>9, <1>11, <1>12 DEF Granted!Next, Granted!Admit, Serving

LEMMA ChangeRefines ==
  ASSUME IInv, NEW r \in Requests, In(r, "view"),
         NEW u \in Users, NEW row, NEW x, Change(r, u, row, x),
         row.sv = user[u].sv + 1,
         \/ x = req[r].sess
         \/ x = None /\ req[r].sess.kind = "full" /\ req[r].sess.uid = u
  PROVE  Granted!Next
<1>1. req[r] \in Request
  BY DEF IInv, TypeOK
<1>2. /\ req'[r].sess = x /\ req'[r].user = req[r].user /\ req'[r].pc = "revoke"
      /\ \A o \in Requests \ {r} : req'[o] = req[o]
  BY <1>1 DEF Change, IInv, TypeOK, Request
<1>3. Serving' = Serving
  BY <1>2 DEF Serving
<1>4. user'[u].sv = user[u].sv + 1 /\ \A v \in Users \ {u} : user'[v].sv = user[v].sv
  BY DEF Change, IInv, TypeOK
<1>5. changes' = [changes EXCEPT ![u] = @ + 1] /\ store' = store
  BY DEF Change
<1>6. \A o \in Requests : \/ req'[o].sess = req[o].sess
                          \/ /\ req'[o].sess = None
                             /\ req[o].sess.kind = "full" /\ req[o].sess.uid = u
  BY <1>2
<1>7. \A o \in Requests : req'[o] = req[o] \/ (~In(o, "login") /\ ~In(o, "login")')
  BY <1>2 DEF In
<1> QED  BY <1>3, <1>4, <1>5, <1>6, <1>7, Withdraws

LEMMA CredentialsRefine ==
  ASSUME IInv, NEW r \in Requests, ChangePassword(r) \/ SetRole(r) \/ ResetTotp(r)
  PROVE  Granted!Next
<1>1. CASE ChangePassword(r)
  <2> DEFINE u == req[r].user
  <2>1. req[r].sess.kind = "full" /\ req[r].sess.uid = u /\ u \in Users
    BY <1>1 DEF ChangePassword, Served, In, IInv, ReqOK, StageOK, SessOK, Owned
  <2>2. user[u] \in Row
    BY <2>1 DEF IInv, TypeOK
  <2>3. Bump(user[u]).sv = user[u].sv + 1
    BY <2>2 DEF Bump, Row
  <2>4. Change(r, u, Bump(user[u]), None)
    BY <1>1 DEF ChangePassword
  <2>5. In(r, "view")
    BY <1>1 DEF ChangePassword, Served
  <2> QED  BY <2>1, <2>3, <2>4, <2>5, ChangeRefines
<1>2. CASE SetRole(r)
  <2>1. PICK u \in Users, role \in Roles : Change(r, u, SetRoleRow(u, role), req[r].sess)
    BY <1>2 DEF SetRole
  <2>2. user[u] \in Row /\ [user[u] EXCEPT !.role = role] \in Row
    BY DEF IInv, TypeOK, Row
  <2>3. SetRoleRow(u, role).sv = user[u].sv + 1
    BY <2>2 DEF SetRoleRow, Bump, Row
  <2>4. In(r, "view")
    BY <1>2 DEF SetRole, ManagesUsers, Served
  <2> QED  BY <2>1, <2>3, <2>4, ChangeRefines
<1>3. CASE ResetTotp(r)
  <2>1. PICK u \in Users : Change(r, u, Bump([user[u] EXCEPT !.totp = FALSE]), req[r].sess)
    BY <1>3 DEF ResetTotp
  <2>2. user[u] \in Row /\ [user[u] EXCEPT !.totp = FALSE] \in Row
    BY DEF IInv, TypeOK, Row
  <2>3. Bump([user[u] EXCEPT !.totp = FALSE]).sv = user[u].sv + 1
    BY <2>2 DEF Bump, Row
  <2>4. In(r, "view")
    BY <1>3 DEF ResetTotp, ManagesUsers, Served
  <2> QED  BY <2>1, <2>3, <2>4, ChangeRefines
<1> QED  BY <1>1, <1>2, <1>3

LEMMA ScriptRefines ==
  ASSUME IInv, NEW u \in Users, ResetByScript(u)
  PROVE  Granted!Next
<1>1. PICK totp \in {FALSE, user[u].totp} :
        user' = [user EXCEPT ![u] = Bump([@ EXCEPT !.totp = totp])]
  BY DEF ResetByScript
<1>2. user[u] \in Row
  BY DEF IInv, TypeOK
<1>3. Bump([user[u] EXCEPT !.totp = totp]).sv = user[u].sv + 1
  BY <1>2 DEF Bump, Row
<1>4. user'[u].sv = user[u].sv + 1 /\ \A v \in Users \ {u} : user'[v].sv = user[v].sv
  BY <1>1, <1>3 DEF IInv, TypeOK
<1>5. Serving' = Serving
  BY DEF ResetByScript, Serving
<1>6. \A r \in Requests : req'[r] = req[r]
  BY DEF ResetByScript
<1> QED  BY <1>4, <1>5, <1>6, Withdraws DEF ResetByScript

LEMMA StoreRefines ==
  ASSUME IInv, SidOK,
         \/ \E r \in Requests : Open(r) \/ Revoke(r) \/ Save(r)
         \/ \E s \in Sids : Expire(s)
  PROVE  Granted!Next
<1>1. CASE \E s \in Sids : Expire(s)
  <2>1. \A s \in Sids : store'[s] = store[s] \/ store'[s] \in {None, Anon} \cup Copies
    BY <1>1 DEF Expire, IInv, TypeOK
  <2>2. UNCHANGED <<user, req, changes>> /\ \A r \in Requests : Tame(req'[r], req[r], Stored)
    BY <1>1 DEF Expire, Tame
  <2>3. Begun' \subseteq Begun /\ Halfway' \subseteq Halfway /\ Entitled' \subseteq Entitled
    BY <2>1, <2>2, NothingNew
  <2> QED  BY <2>2, <2>3, Lapses DEF Serving
<1>2. ASSUME NEW r \in Requests, Open(r) PROVE Granted!Next
  <2>1. PICK sid \in Sids : \E pc \in {"opened", "view"} :
          req' = [req EXCEPT ![r] = [Idle(sid) EXCEPT !.pc = pc, !.sess = store[sid]]]
    BY <1>2 DEF Open, SidOf, Fresh
  <2>2. /\ req'[r].sess = store[sid] /\ req'[r].user = Nobody /\ req'[r].pc # "login"
        /\ \A o \in Requests \ {r} : req'[o] = req[o]
    BY <2>1 DEF IInv, TypeOK, Idle
  <2>3. UNCHANGED <<user, store, changes>>
    BY <1>2 DEF Open
  <2>4. \A o \in Requests : Tame(req'[o], req[o], Stored)
    BY <2>2 DEF Tame, Stored
  <2>5. Begun' \subseteq Begun /\ Halfway' \subseteq Halfway /\ Entitled' \subseteq Entitled
    BY <2>3, <2>4, NothingNew
  <2> QED  BY <2>2, <2>3, <2>5, FinishesAt
<1>3. ASSUME NEW r \in Requests, Revoke(r) PROVE Granted!Next
  <2>1. /\ Done(req[r]).user = req[r].user /\ Done(req[r]).sess = req[r].sess
        /\ Done(req[r]).pc = "save"
    BY DEF IInv, TypeOK, Request, Done
  <2>2. /\ req'[r].sess = req[r].sess /\ req'[r].user = req[r].user /\ req'[r].pc = "save"
        /\ \A o \in Requests \ {r} : req'[o] = req[o]
    BY <1>3, <2>1 DEF Revoke, IInv, TypeOK
  <2>3. \A s \in Sids : store'[s] = store[s] \/ store'[s] \in {None, Anon} \cup Copies
    BY <1>3 DEF Revoke
  <2>4. \A o \in Requests : Tame(req'[o], req[o], Stored)
    BY <2>2 DEF Tame
  <2>5. UNCHANGED <<user, changes>>
    BY <1>3 DEF Revoke
  <2>6. Begun' \subseteq Begun /\ Halfway' \subseteq Halfway /\ Entitled' \subseteq Entitled
    BY <2>3, <2>4, <2>5, NothingNew
  <2>7. Serving' = Serving
    BY <2>2 DEF Serving
  <2> QED  BY <2>5, <2>6, <2>7, Lapses
<1>4. ASSUME NEW r \in Requests, Save(r) PROVE Granted!Next
  <2>1. req[r].sid \in Sids
    BY <1>4 DEF Save, In, SidOK
  <2>2. /\ req'[r].sess = None /\ req'[r].user = Nobody /\ req'[r].pc # "login"
        /\ \A o \in Requests \ {r} : req'[o] = req[o]
    BY <1>4 DEF Save, IInv, TypeOK, Idle
  <2>3. \A s \in Sids : store'[s] = store[s] \/ store'[s] \in {None, Anon} \cup Copies
    BY <1>4, <2>1 DEF Save, Saved, Copies, IInv, TypeOK
  <2>4. \A o \in Requests : Tame(req'[o], req[o], Stored)
    BY <2>2 DEF Tame
  <2>5. UNCHANGED <<user, changes>>
    BY <1>4 DEF Save
  <2>6. Begun' \subseteq Begun /\ Halfway' \subseteq Halfway /\ Entitled' \subseteq Entitled
    BY <2>3, <2>4, <2>5, NothingNew
  <2> QED  BY <2>2, <2>5, <2>6, FinishesAt
<1> QED  BY <1>1, <1>2, <1>3, <1>4

LEMMA NextRefines ==
  ASSUME IInv /\ SidOK, [Next]_vars
  PROVE  [Granted!Next]_(Granted!avars)
<1>1. CASE UNCHANGED vars
  BY <1>1 DEF vars, Granted!avars, Entitled, Halfway, Begun, Worth, Waits, LoggingIn, In
<1>2. CASE Next
  BY <1>2, RequestRefines, LoginRefines, SignInRefines, AdmitRefines, CredentialsRefine,
     ScriptRefines, StoreRefines DEF Next
<1> QED  BY <1>1, <1>2

(* Revocation is instant for sessions (admin/sessions.py:4): the sign-in,  *)
(* the overlapping requests and the session store implement Access.  After *)
(* a change of a user's role or password or a reset of the second factor   *)
(* nobody is admitted as that user on a session started before it; a new   *)
(* one takes a sign-in begun since, or a second factor proved since, which *)
(* a sign-in, an enrolment or a request under way at the change may still  *)
(* do.  For any number of accounts, cookies, requests and changes.         *)
THEOREM SessionsImplementAccess == Spec => RevocationIsInstant
<1>1. ASSUME Init PROVE Granted!Init
  <2>1. Idle(Nobody).sess = None /\ Idle(Nobody).user = Nobody /\ Idle(Nobody).pc = "idle"
    BY DEF Idle
  <2>2. /\ \A s \in Sids : store[s] = None
        /\ \A r \in Requests : req[r].sess = None /\ req[r].user = Nobody /\ req[r].pc = "idle"
    BY <1>1, <2>1 DEF Init
  <2>3. Entitled = {} /\ Halfway = {} /\ Begun = {}
    BY <2>2, EmptySessions DEF Entitled, Halfway, Begun, Worth, Waits, LoggingIn, In
  <2>4. Serving = [r \in Requests |-> Nobody]
    BY <2>2 DEF Serving
  <2> QED  BY <1>1, <2>3, <2>4 DEF Init, Granted!Init, Serving
<1> QED  BY <1>1, Invariance, NextRefines, PTL DEF Spec, RevocationIsInstant, Granted!AccessSpec
=============================================================================
