------------------------------- MODULE Access -------------------------------
(***************************************************************************)
(* Who is served by the admin panel (admin/sessions.py, admin/auth.py).    *)
(* A change is a change of a user's role, a change of the password, or a   *)
(* reset of the password or of the second factor.  Revocation is instant   *)
(* for sessions: after a change nobody is admitted as the user on a        *)
(* session that was started before it.                                     *)
(*                                                                         *)
(* A new session takes a sign-in begun since the change, or else a second  *)
(* factor proved since the change: by a sign-in that was only half done    *)
(* when the change came, or in a request that was admitted before it, and  *)
(* which may finish.  Sessions implements this.                            *)
(***************************************************************************)
EXTENDS Naturals

CONSTANTS Users, Requests, Nobody

VARIABLES epoch,     \* changes of each user
          begun,     \* users whose password was accepted since their change
          halfway,   \* users whose password was accepted, whenever it was
          entitled,  \* users who have a session started since their change
          serving    \* the user each request was admitted as

avars == <<epoch, begun, halfway, entitled, serving>>

Init ==
  /\ epoch = [u \in Users |-> 0]
  /\ begun = {} /\ halfway = {} /\ entitled = {}
  /\ serving = [r \in Requests |-> Nobody]

(* Sign-ins may be given up, and sessions end, at any time.                *)
Fades == begun' \subseteq begun /\ halfway' \subseteq halfway /\ entitled' \subseteq entitled

Begin(u) ==
  /\ begun' = begun \cup {u}
  /\ halfway' = halfway \cup {u}
  /\ UNCHANGED <<epoch, entitled, serving>>

(* The password is enough for a session only if it was accepted since the  *)
(* last change.                                                            *)
SignIn(u) ==
  /\ u \in begun
  /\ entitled' = entitled \cup {u}
  /\ begun' \subseteq begun /\ halfway' \subseteq halfway
  /\ UNCHANGED <<epoch, serving>>

(* A second factor is proved now, in a sign-in or by somebody served.      *)
Prove(u) ==
  /\ u \in halfway \/ \E r \in Requests : serving[r] = u
  /\ entitled' = entitled \cup {u}
  /\ begun' \subseteq begun /\ halfway' \subseteq halfway
  /\ UNCHANGED <<epoch, serving>>

(* A change withdraws what earlier sessions of that user were worth.       *)
Change(u) ==
  /\ epoch' = [epoch EXCEPT ![u] = @ + 1]
  /\ entitled' \subseteq entitled \ {u}
  /\ begun' = begun \ {u}
  /\ UNCHANGED <<halfway, serving>>

Admit(r, u) ==
  /\ u \in entitled
  /\ serving[r] = Nobody
  /\ serving' = [serving EXCEPT ![r] = u]
  /\ UNCHANGED <<epoch, begun, halfway, entitled>>

Finish(r) ==
  /\ serving' = [serving EXCEPT ![r] = Nobody]
  /\ Fades /\ UNCHANGED epoch

Lapse == Fades /\ UNCHANGED <<epoch, serving>>

Next ==
  \/ \E u \in Users : Begin(u) \/ SignIn(u) \/ Prove(u) \/ Change(u)
  \/ \E r \in Requests : Finish(r) \/ \E u \in Users : Admit(r, u)
  \/ Lapse

AccessSpec == Init /\ [][Next]_avars
=============================================================================
