---------------------------- MODULE SessionsAccess ----------------------------
(***************************************************************************)
(* Sessions implements AccessControl: what each stage of a handler stands  *)
(* for.                                                                    *)
(***************************************************************************)
EXTENDS SessionsInvariant

(* The tokens that a request has still to show. *)
Papers(q) ==
  IF q.pc = "verify" THEN {<<"access", q.tok>>}
  ELSE IF q.pc = "cookie" THEN {<<"refresh", q.tok>>, <<"refresh", q.body>>}
  ELSE IF q.pc \in RefreshPcs THEN {<<"refresh", q.body>>}
  ELSE {}

(* The account was found to be what the route asks for: by findFirst in        *)
(* validateLogin, RefreshTokenGuard or AccessTokenGuard.  RoleGuard only looks *)
(* at what AccessTokenGuard has found.                                         *)
Cleared(q) ==
  \/ q.pc \in {"compare", "sign", "refreshUser", "body"}
  \/ q.pc \in PastGuardPcs \ {"role"}
  \/ q.pc = "role" /\ q.admin

AnswerOf(status) ==
  IF status = 0 THEN "none" ELSE IF status \in {200, 201} THEN "granted" ELSE "refused"

Desk(r) ==
  IF Busy(r)
    THEN [ep |-> req[r].ep, user |-> req[r].user, tok |-> req[r].tok,
          papers |-> Papers(req[r]), cleared |-> Cleared(req[r]),
          barred |-> seen[r].revoked]
    ELSE [ep |-> "none", answer |-> AnswerOf(req[r].status)]

Desks == [r \in Requests |-> Desk(r)]

Valid == {<<"access", tok>> : tok \in {t \in issued : Live(t)}}
           \cup {<<"refresh", tok>> : tok \in {t \in issued : LiveRefresh(t)}}

Access == INSTANCE AccessControl WITH
  valid <- Valid, stored <- written, ended <- revoked, desk <- Desks

(* Whatever logins, logouts, refreshes, edits, failures and expiries come in  *)
(* between the steps of a request, it is granted as if its tokens and its     *)
(* account had been looked at in one step each, and no logout of its token    *)
(* that was answered before is overlooked.                                    *)
ImplementsAccess == Access!AccessSpec
=============================================================================
