------------------------- MODULE SessionsAccessProofs -------------------------
(***************************************************************************)
(* A guarded route refuses only for a cause, and Sessions implements       *)
(* AccessControl, from the inductive invariant.                            *)
(***************************************************************************)
EXTENDS SessionsInvariantProofs, SessionsAccess

CausesInv == \A r \in Requests : CauseInv(r)

LEMMA FrameCause ==
  ASSUME Grows, NEW r \in Requests, CauseInv(r), req'[r] = req[r],
         seen[r].standings \subseteq seen'[r].standings
  PROVE  CauseInv(r)'
PROOF
  BY DEF CauseInv, Grows

LEMMA AnswerCause ==
  ASSUME TypeOK, Grows, CausesInv, NEW r \in Requests, NEW status, Answer(r, status)
  PROVE  CausesInv'
PROOF
<1>1. /\ req'[r] = Idle(status)
      /\ \A q \in Requests \ {r} : req'[q] = req[q] /\ seen'[q] = seen[q]
  BY DEF Answer, TypeOK, RequestsOK
<1>2. CauseInv(r)'
  BY <1>1 DEF CauseInv, Idle
<1> QED
  BY <1>1, <1>2, FrameCause DEF CausesInv

LEMMA MoveCause ==
  ASSUME TypeOK, Grows, CausesInv, NEW r \in Requests, NEW q,
         req' = [req EXCEPT ![r] = q], UNCHANGED seen, q.tok = req[r].tok,
         q.hit => req[r].hit \/ \E w \in written : w.tok = q.tok,
         q.pc = "role" => q.ep = "create",
         q.pc = "role" /\ ~q.admin => \E s \in seen[r].standings : ~s[2]
  PROVE  CausesInv'
PROOF
<1>1. req'[r] = q /\ \A x \in Requests \ {r} : req'[x] = req[x]
  BY DEF TypeOK, RequestsOK
<1>2. CauseInv(r)'
  BY <1>1 DEF CausesInv, CauseInv, Grows
<1> QED
  BY <1>1, <1>2, FrameCause DEF CausesInv

LEMMA GotoCause ==
  ASSUME TypeOK, Grows, CausesInv, NEW r \in Requests, NEW pc \in Pcs \ {"role"}, Goto(r, pc)
  PROVE  CausesInv'
PROOF
<1> DEFINE q == [req[r] EXCEPT !.pc = pc]
<1>1. q.pc = pc /\ q.tok = req[r].tok /\ q.hit = req[r].hit
  BY DEF TypeOK, RequestsOK, RequestOK, Request
<1>2. req' = [req EXCEPT ![r] = q] /\ UNCHANGED seen
  BY DEF Goto
<1> HIDE DEF q
<1> QED
  BY <1>1, <1>2, MoveCause

LEMMA StartCause ==
  ASSUME TypeOK, Grows, CausesInv, NEW r \in Requests, NEW ep, NEW u, NEW tok, NEW body,
         NEW pc \in Pcs \ {"role"}, Start(r, ep, u, tok, body, pc)
  PROVE  CausesInv'
PROOF
<1>1. /\ req'[r].pc = pc /\ req'[r].hit = FALSE
      /\ \A x \in Requests \ {r} : req'[x] = req[x] /\ seen'[x] = seen[x]
  BY DEF Start, Idle, TypeOK, RequestsOK
<1>2. CauseInv(r)'
  BY <1>1 DEF CauseInv
<1> QED
  BY <1>1, <1>2, FrameCause DEF CausesInv

(* get: what is found on the blacklist was stored there. *)
LEMMA GetCause ==
  ASSUME IInv, Grows, CausesInv, NEW r \in Requests, GuardGet(r)
  PROVE  CausesInv'
PROOF
<1>1. TypeOK /\ TokensPast /\ req[r] \in Request /\ req[r].pc = "get"
  BY DEF IInv, CacheInv, GuardGet, TypeOK, RequestsOK, RequestOK
<1>2. PICK at \in req[r].todo :
         req' = [req EXCEPT ![r].todo = @ \ {at},
           ![r].hit = @ \/ \E e \in blacklist : e.at = at /\ e.tok = req[r].tok]
  BY DEF GuardGet
<1> DEFINE left == req[r].todo \ {at}
           hit == req[r].hit \/ \E e \in blacklist : e.at = at /\ e.tok = req[r].tok
           q == [req[r] EXCEPT !.todo = left, !.hit = hit]
<1>3. req' = [req EXCEPT ![r] = q] /\ UNCHANGED seen
  BY <1>2 DEF GuardGet
<1>4. q.pc = "get" /\ q.tok = req[r].tok /\ (q.hit <=> hit)
  <2> HIDE DEF left, hit
  <2> QED
    BY <1>1 DEF Request
<1>5. hit => req[r].hit \/ \E w \in written : w.tok = req[r].tok
  <2> SUFFICES ASSUME NEW e \in blacklist, e.tok = req[r].tok
               PROVE  \E w \in written : w.tok = req[r].tok
    OBVIOUS
  <2>1. [tok |-> e.tok, at |-> e.at] \in written
    BY <1>1 DEF TokensPast
  <2> QED
    BY <2>1
<1> HIDE DEF q, left, hit
<1> QED
  BY <1>1, <1>3, <1>4, <1>5, MoveCause

(* findFirst: the snapshot has the role exactly if the account has it now. *)
LEMMA SnapshotCause ==
  ASSUME IInv, Grows, CausesInv, NEW r \in Requests, GuardActiveUser(r)
  PROVE  CausesInv'
PROOF
<1>0. TypeOK
  BY DEF IInv
<1>1. CASE account[req[r].user] # "active"
  BY <1>0, <1>1, AnswerCause DEF GuardActiveUser
<1>2. CASE account[req[r].user] = "active"
  <2> DEFINE admin == req[r].user \in admins
             q == [req[r] EXCEPT !.pc = AfterGuard(req[r].ep), !.admin = admin]
  <2>1. req[r] \in Request /\ req[r].pc = "user"
    BY DEF GuardActiveUser, IInv, TypeOK, RequestsOK, RequestOK
  <2>2. req' = [req EXCEPT ![r] = q] /\ UNCHANGED seen
    BY <1>2 DEF GuardActiveUser
  <2>3. /\ q.tok = req[r].tok /\ q.hit = req[r].hit /\ (q.admin <=> admin)
        /\ q.pc = AfterGuard(req[r].ep) /\ q.ep = req[r].ep
    <3> HIDE DEF admin
    <3> QED
      BY <2>1 DEF Request
  <2>4. ~admin => \E s \in seen[r].standings : ~s[2]
    <3>1. Standing(req[r].user) \in seen[r].standings
      BY <2>1 DEF IInv, RequestInv, SnapshotInv, Busy
    <3>2. Standing(req[r].user)[2] = admin
      BY DEF Standing
    <3> HIDE DEF admin
    <3> QED
      BY <3>1, <3>2
  <2> HIDE DEF q, admin
  <2> QED
    BY <1>0, <2>2, <2>3, <2>4, MoveCause DEF AfterGuard
<1> QED
  BY <1>1, <1>2

(* The other two that change more than the stage of a request. *)
LEMMA KeysCause ==
  ASSUME TypeOK, Grows, CausesInv, NEW r \in Requests, GuardKeys(r)
  PROVE  CausesInv'
PROOF
<1> DEFINE keys == {e.at : e \in {e \in blacklist : e.tok.user = req[r].user}}
           q == [req[r] EXCEPT !.pc = "get", !.todo = keys]
<1>1. req' = [req EXCEPT ![r] = q] /\ UNCHANGED seen
  BY DEF GuardKeys
<1>2. q.pc = "get" /\ q.tok = req[r].tok /\ q.hit = req[r].hit
  BY DEF TypeOK, RequestsOK, RequestOK, Request
<1> HIDE DEF q, keys
<1> QED
  BY <1>1, <1>2, MoveCause

LEMMA LogoutCause ==
  ASSUME TypeOK, Grows, CausesInv, NEW r \in Requests, LogoutUser(r)
  PROVE  CausesInv'
PROOF
<1>1. CASE account[req[r].user] = "absent"
  BY <1>1, AnswerCause DEF LogoutUser
<1>2. CASE account[req[r].user] # "absent"
  <2> DEFINE q == [req[r] EXCEPT !.pc = "set", !.at = now]
  <2>1. req' = [req EXCEPT ![r] = q] /\ UNCHANGED seen
    BY <1>2 DEF LogoutUser
  <2>2. q.pc = "set" /\ q.tok = req[r].tok /\ q.hit = req[r].hit
    BY DEF TypeOK, RequestsOK, RequestOK, Request
  <2> HIDE DEF q
  <2> QED
    BY <2>1, <2>2, MoveCause
<1> QED
  BY <1>1, <1>2

LEMMA PlainCause ==
  ASSUME TypeOK, Grows, CausesInv, NEW r \in Requests,
         \/ Arrive(r) \/ LoginStep(r) \/ RefreshStep(r) \/ AccessVerify(r)
         \/ GuardBlacklisted(r) \/ RoleGuard(r) \/ Serve(r)
         \/ LogoutSet(r) \/ LogoutReturn(r) \/ BackendFails(r)
  PROVE  CausesInv'
PROOF
<1> USE GotoCause, AnswerCause DEF Pcs, LoginPcs, RefreshPcs, GuardPcs, PastGuardPcs
<1>1. CASE Arrive(r)
  BY <1>1, StartCause DEF Arrive, StartLogin, StartRefresh, StartGuarded, StartWithoutToken
<1>2. CASE LoginStep(r)
  BY <1>2 DEF LoginStep, LoginFind, LoginCompare, Sign
<1>3. CASE RefreshStep(r)
  BY <1>3 DEF RefreshStep, VerifyCookie, CookieUser, RefreshUser, VerifyBody
<1>4. CASE AccessVerify(r) \/ GuardBlacklisted(r)
  BY <1>4 DEF AccessVerify, GuardBlacklisted
<1>5. CASE RoleGuard(r) \/ Serve(r)
  BY <1>5 DEF RoleGuard, Serve
<1>6. CASE LogoutSet(r) \/ LogoutReturn(r) \/ BackendFails(r)
  BY <1>6 DEF LogoutSet, LogoutReturn, BackendFails
<1> QED
  BY <1>1, <1>2, <1>3, <1>4, <1>5, <1>6

LEMMA CausesStep == IInv /\ CausesInv /\ [Next]_vars => CausesInv'
PROOF
<1> SUFFICES ASSUME IInv, CausesInv, [Next]_vars PROVE CausesInv'
  OBVIOUS
<1>1. TypeOK /\ Grows
  BY StepGrows DEF IInv
<1>2. ASSUME NEW r \in Requests, Arrive(r) \/ Handle(r) \/ BackendFails(r) PROVE CausesInv'
  BY <1>1, <1>2, PlainCause, KeysCause, GetCause, SnapshotCause, LogoutCause
     DEF Handle, GuardStep, LogoutStep
<1>3. CASE Tick \/ UNCHANGED vars
  BY <1>1, <1>3, FrameCause DEF Tick, vars, CausesInv
<1>4. CASE Crash
  BY <1>1, <1>4, FrameCause DEF Crash, Busy, Idle, CausesInv, CauseInv, Grows
<1>5. ASSUME NEW u \in Users, OperatorEdit(u) PROVE CausesInv'
  <2>1. req' = req
    BY <1>5 DEF OperatorEdit
  <2>2. \A r \in Requests : seen[r].standings \subseteq seen'[r].standings
    BY <1>1, <1>5 DEF OperatorEdit, TypeOK, RequestsOK, RequestOK, Sight
  <2> QED
    BY <1>1, <2>1, <2>2, FrameCause DEF CausesInv
<1> QED
  BY <1>2, <1>3, <1>4, <1>5 DEF Next

LEMMA CausesInvariance == Spec => [](IInv /\ CausesInv)
PROOF
<1>1. Init => CausesInv
  BY DEF Init, Idle, CausesInv, CauseInv
<1> QED
  BY <1>1, Invariance, CausesStep, PTL DEF Spec

-----------------------------------------------------------------------------
(* The refusals *)

Refused(r) ==
  /\ req[r].pc \in GuardPcs \cup PastGuardPcs
  /\ req'[r].pc = "idle" /\ req'[r].status \notin {0, 200, 201}

(* What a request is answered with, if the step is an answer to it. *)
LEMMA Answered ==
  ASSUME TypeOK, NEW r \in Requests, NEW q \in Requests, NEW status, Answer(q, status),
         Refused(r)
  PROVE  q = r /\ status \notin {0, 200, 201}
PROOF
  BY DEF Answer, Idle, Refused, GuardPcs, PastGuardPcs, TypeOK, RequestsOK

LEMMA NotRefusedByGoto ==
  ASSUME TypeOK, NEW r \in Requests, NEW q \in Requests, NEW pc \in Pcs \ {"idle"}, Goto(q, pc)
  PROVE  ~Refused(r)
PROOF
<1>1. req'[r].pc \in {req[r].pc, pc}
  BY DEF Goto, TypeOK, RequestsOK, RequestOK, Request
<1> QED
  BY <1>1 DEF Refused, GuardPcs, PastGuardPcs

(* The guards refuse for what they have found out. *)
LEMMA GuardsRefuse ==
  ASSUME IInv, CausesInv, NEW r \in Requests, NEW q \in Requests, Refused(r),
         AccessVerify(q) \/ GuardBlacklisted(q) \/ GuardActiveUser(q) \/ RoleGuard(q)
           \/ LogoutUser(q)
  PROVE  Cause(r)
PROOF
<1> USE DEF Pcs, GuardPcs, PastGuardPcs
<1>1. TypeOK /\ CauseInv(r) /\ SnapshotInv(r) /\ RequestOK(r)
  BY DEF IInv, CausesInv, RequestInv, TypeOK, RequestsOK
<1>2. CASE AccessVerify(q)
  <2>1. CASE Live(req[q].tok)
    BY <1>1, <1>2, <2>1, NotRefusedByGoto DEF AccessVerify
  <2>2. CASE ~Live(req[q].tok)
    BY <1>1, <1>2, <2>2, Answered DEF AccessVerify, Cause
  <2> QED
    BY <2>1, <2>2
<1>3. CASE GuardBlacklisted(q)
  <2>1. CASE req[q].hit
    BY <1>1, <1>3, <2>1, Answered DEF GuardBlacklisted, Cause, CauseInv
  <2>2. CASE ~req[q].hit
    BY <1>1, <1>3, <2>2, NotRefusedByGoto DEF GuardBlacklisted
  <2> QED
    BY <2>1, <2>2
<1>4. CASE GuardActiveUser(q) \/ LogoutUser(q)
  <2>1. CASE account[req[q].user] \in {"active"} \/ (LogoutUser(q) /\ account[req[q].user] # "absent")
    <3>1. req'[r].pc # "idle" \/ req[r].pc = "idle"
      BY <1>1, <1>4, <2>1 DEF GuardActiveUser, LogoutUser, AfterGuard, TypeOK, RequestsOK,
           RequestOK, Request
    <3> QED
      BY <3>1 DEF Refused
  <2>2. CASE /\ account[req[q].user] # "active"
             /\ \E status : Answer(q, status)
    <3>1. q = r /\ Standing(req[r].user) \in seen[r].standings
      BY <1>1, <2>2, Answered DEF SnapshotInv, Busy, Refused
    <3>2. Standing(req[r].user)[1] # "active"
      BY <2>2, <3>1 DEF Standing
    <3> QED
      BY <3>1, <3>2 DEF Cause
  <2> QED
    BY <1>4, <2>1, <2>2 DEF GuardActiveUser, LogoutUser
<1>5. CASE RoleGuard(q)
  <2>1. CASE req[q].admin
    BY <1>1, <1>5, <2>1, NotRefusedByGoto DEF RoleGuard
  <2>2. CASE ~req[q].admin
    <3>1. q = r /\ req[r].pc = "role" /\ ~req[r].admin
      BY <1>1, <1>5, <2>2, Answered DEF RoleGuard
    <3>2. \E s \in seen[r].standings : ~s[2]
      BY <1>1, <3>1 DEF CauseInv
    <3> QED
      BY <1>1, <3>1, <3>2 DEF Cause, CauseInv
  <2> QED
    BY <2>1, <2>2
<1> QED
  BY <1>2, <1>3, <1>4, <1>5

(* The other steps refuse no guarded request, but for a call that fails. *)
LEMMA OthersRefuse ==
  ASSUME TypeOK, NEW r \in Requests, NEW q \in Requests, Refused(r),
         \/ Arrive(q) \/ LoginStep(q) \/ RefreshStep(q) \/ GuardKeys(q) \/ GuardGet(q)
         \/ Serve(q) \/ LogoutSet(q) \/ LogoutReturn(q) \/ BackendFails(q)
  PROVE  Cause(r)
PROOF
<1> USE DEF Pcs, LoginPcs, RefreshPcs, GuardPcs, PastGuardPcs
<1>1. CASE Arrive(q)
  <2>1. ~Busy(q) /\ \A x \in Requests \ {q} : req'[x] = req[x]
    BY <1>1 DEF Arrive, StartLogin, StartRefresh, StartGuarded, StartWithoutToken, Start,
         Answer, TypeOK, RequestsOK
  <2> QED
    BY <2>1 DEF Refused, Busy
<1>2. CASE LoginStep(q) \/ RefreshStep(q)
  <2>1. /\ req[q].pc \in LoginPcs \cup RefreshPcs \cup {"sign"}
        /\ \A x \in Requests \ {q} : req'[x] = req[x]
    BY <1>2 DEF LoginStep, LoginFind, LoginCompare, Sign, RefreshStep, VerifyCookie,
         CookieUser, RefreshUser, VerifyBody, Goto, Answer, TypeOK, RequestsOK
  <2> QED
    BY <2>1 DEF Refused
<1>3. CASE GuardKeys(q) \/ GuardGet(q)
  <2>1. \E x : req' = [req EXCEPT ![q] = x] /\ x.pc = "get"
    <3> DEFINE keys == {e.at : e \in {e \in blacklist : e.tok.user = req[q].user}}
               read(at) == [req[q] EXCEPT !.todo = @ \ {at},
                 !.hit = @ \/ \E e \in blacklist : e.at = at /\ e.tok = req[q].tok]
    <3>1. req[q] \in Request
      BY DEF TypeOK, RequestsOK, RequestOK
    <3>2. CASE GuardKeys(q)
      <4>1. req' = [req EXCEPT ![q] = [req[q] EXCEPT !.pc = "get", !.todo = keys]]
        BY <3>2 DEF GuardKeys
      <4> HIDE DEF keys
      <4>2. [req[q] EXCEPT !.pc = "get", !.todo = keys].pc = "get"
        BY <3>1 DEF Request
      <4> QED
        BY <4>1, <4>2
    <3>3. CASE GuardGet(q)
      <4>1. PICK at \in req[q].todo : req' = [req EXCEPT ![q] = read(at)]
        BY <3>3 DEF GuardGet
      <4>2. read(at).pc = "get"
        BY <3>1, <3>3 DEF Request, GuardGet
      <4> HIDE DEF read
      <4> QED
        BY <4>1, <4>2
    <3> QED
      BY <1>3, <3>2, <3>3
  <2> QED
    BY <2>1 DEF Refused
<1>4. CASE Serve(q) \/ LogoutReturn(q)
  BY <1>4, Answered DEF Serve, LogoutReturn
<1>5. CASE LogoutSet(q)
  BY <1>5, NotRefusedByGoto DEF LogoutSet
<1>6. CASE BackendFails(q)
  <2>1. failures' # failures
    BY <1>6 DEF BackendFails, TypeOK, SharedOK
  <2> QED
    BY <2>1 DEF Cause
<1> QED
  BY <1>1, <1>2, <1>3, <1>4, <1>5, <1>6

(* AccessTokenGuard, RoleGuard and the handlers behind them refuse a request  *)
(* only for its token, its account or a failed call, for any interleaving.    *)
THEOREM RefusalsHaveCause == Spec => RefusedOnlyForCause
PROOF
<1>1. IInv /\ CausesInv /\ [Next]_vars =>
        [\A r \in Requests :
           /\ req[r].pc \in GuardPcs \cup PastGuardPcs
           /\ req'[r].pc = "idle" /\ req'[r].status \notin {0, 200, 201}
           => Cause(r)]_vars
  <2> SUFFICES ASSUME IInv, CausesInv, Next, NEW r \in Requests, Refused(r)
               PROVE  Cause(r)
    BY DEF Refused
  <2>1. TypeOK
    BY DEF IInv
  <2>2. ASSUME NEW q \in Requests, Arrive(q) \/ Handle(q) \/ BackendFails(q) PROVE Cause(r)
    BY <2>1, <2>2, GuardsRefuse, OthersRefuse DEF Handle, GuardStep, LogoutStep
  <2>3. CASE Tick \/ \E u \in Users : OperatorEdit(u)
    BY <2>3 DEF Tick, OperatorEdit, Refused, GuardPcs, PastGuardPcs
  <2>4. CASE Crash
    BY <2>4 DEF Crash, Refused, Busy, Idle, GuardPcs, PastGuardPcs
  <2> QED
    BY <2>2, <2>3, <2>4 DEF Next
<1> QED
  BY <1>1, CausesInvariance, PTL DEF Spec, RefusedOnlyForCause

-----------------------------------------------------------------------------
(* The stages of each route *)

LEMMA AnswerOnRoute ==
  ASSUME TypeOK, RoutesInv, NEW r \in Requests, NEW status, Answer(r, status)
  PROVE  RoutesInv'
PROOF
  BY DEF Answer, Idle, RoutesInv, OnRoute, LoginPcs, RefreshPcs, GuardPcs, PastGuardPcs,
     TypeOK, RequestsOK

LEMMA MoveOnRoute ==
  ASSUME TypeOK, RoutesInv, NEW r \in Requests, NEW q, req' = [req EXCEPT ![r] = q],
         OnRoute(q.pc, q.ep)
  PROVE  RoutesInv'
PROOF
  BY DEF RoutesInv, TypeOK, RequestsOK

LEMMA GotoOnRoute ==
  ASSUME TypeOK, RoutesInv, NEW r \in Requests, NEW pc, Goto(r, pc), OnRoute(pc, req[r].ep)
  PROVE  RoutesInv'
PROOF
<1>1. [req[r] EXCEPT !.pc = pc].pc = pc /\ [req[r] EXCEPT !.pc = pc].ep = req[r].ep
  BY DEF TypeOK, RequestsOK, RequestOK, Request
<1> QED
  BY <1>1, MoveOnRoute DEF Goto

LEMMA StartOnRoute ==
  ASSUME TypeOK, RoutesInv, NEW r \in Requests, NEW ep, NEW u, NEW tok, NEW body, NEW pc,
         Start(r, ep, u, tok, body, pc), OnRoute(pc, ep)
  PROVE  RoutesInv'
PROOF
<1>1. /\ req'[r].pc = pc /\ req'[r].ep = ep
      /\ \A x \in Requests \ {r} : req'[x] = req[x]
  BY DEF Start, Idle, TypeOK, RequestsOK
<1> QED
  BY <1>1 DEF RoutesInv

LEMMA RoutesStep == TypeOK /\ RoutesInv /\ [Next]_vars => RoutesInv'
PROOF
<1> SUFFICES ASSUME TypeOK, RoutesInv, [Next]_vars PROVE RoutesInv'
  OBVIOUS
<1> USE DEF Pcs, LoginPcs, RefreshPcs, GuardPcs, PastGuardPcs
<1>1. ASSUME NEW r \in Requests, Arrive(r) PROVE RoutesInv'
  BY <1>1, StartOnRoute, AnswerOnRoute DEF Arrive, StartLogin, StartRefresh, StartGuarded,
     StartWithoutToken, OnRoute
<1>2. ASSUME NEW r \in Requests, LoginStep(r) PROVE RoutesInv'
  BY <1>2, GotoOnRoute, AnswerOnRoute DEF LoginStep, LoginFind, LoginCompare, Sign,
     RoutesInv, OnRoute
<1>3. ASSUME NEW r \in Requests, RefreshStep(r) PROVE RoutesInv'
  BY <1>3, GotoOnRoute, AnswerOnRoute DEF RefreshStep, VerifyCookie, CookieUser,
     RefreshUser, VerifyBody, RoutesInv, OnRoute
<1>4. ASSUME NEW r \in Requests,
             AccessVerify(r) \/ GuardBlacklisted(r) \/ RoleGuard(r) \/ Serve(r)
      PROVE  RoutesInv'
  BY <1>4, GotoOnRoute, AnswerOnRoute DEF AccessVerify, GuardBlacklisted, RoleGuard, Serve,
     RoutesInv, OnRoute
<1>5. ASSUME NEW r \in Requests, GuardKeys(r) PROVE RoutesInv'
  <2> DEFINE keys == {e.at : e \in {e \in blacklist : e.tok.user = req[r].user}}
             q == [req[r] EXCEPT !.pc = "get", !.todo = keys]
  <2>1. q.pc = "get" /\ q.ep = req[r].ep
    BY DEF TypeOK, RequestsOK, RequestOK, Request
  <2>2. req' = [req EXCEPT ![r] = q] /\ OnRoute("get", req[r].ep)
    BY <1>5 DEF GuardKeys, RoutesInv, OnRoute
  <2> QED
    BY <2>1, <2>2, MoveOnRoute
<1>6. ASSUME NEW r \in Requests, GuardGet(r) PROVE RoutesInv'
  <2>1. PICK at \in req[r].todo :
           req' = [req EXCEPT ![r].todo = @ \ {at},
             ![r].hit = @ \/ \E e \in blacklist : e.at = at /\ e.tok = req[r].tok]
    BY <1>6 DEF GuardGet
  <2> DEFINE q == [req[r] EXCEPT !.todo = @ \ {at},
                     !.hit = @ \/ \E e \in blacklist : e.at = at /\ e.tok = req[r].tok]
  <2>2. q.pc = req[r].pc /\ q.ep = req[r].ep
    BY DEF TypeOK, RequestsOK, RequestOK, Request
  <2>3. req' = [req EXCEPT ![r] = q]
    BY <2>1
  <2> QED
    BY <2>2, <2>3, MoveOnRoute DEF RoutesInv
<1>7. ASSUME NEW r \in Requests, GuardActiveUser(r) PROVE RoutesInv'
  <2>1. CASE account[req[r].user] = "active"
    <3> DEFINE admin == req[r].user \in admins
               q == [req[r] EXCEPT !.pc = AfterGuard(req[r].ep), !.admin = admin]
    <3>1. q.pc = AfterGuard(req[r].ep) /\ q.ep = req[r].ep
      BY DEF TypeOK, RequestsOK, RequestOK, Request
    <3>2. req' = [req EXCEPT ![r] = q] /\ OnRoute(AfterGuard(req[r].ep), req[r].ep)
      BY <1>7, <2>1 DEF GuardActiveUser, AfterGuard, RoutesInv, OnRoute
    <3> QED
      BY <3>1, <3>2, MoveOnRoute
  <2>2. CASE account[req[r].user] # "active"
    BY <1>7, <2>2, AnswerOnRoute DEF GuardActiveUser
  <2> QED
    BY <2>1, <2>2
<1>8. ASSUME NEW r \in Requests, LogoutUser(r) PROVE RoutesInv'
  <2>1. CASE account[req[r].user] # "absent"
    <3> DEFINE q == [req[r] EXCEPT !.pc = "set", !.at = now]
    <3>1. q.pc = "set" /\ q.ep = req[r].ep
      BY DEF TypeOK, RequestsOK, RequestOK, Request
    <3>2. req' = [req EXCEPT ![r] = q] /\ OnRoute("set", req[r].ep)
      BY <1>8, <2>1 DEF LogoutUser, RoutesInv, OnRoute
    <3> QED
      BY <3>1, <3>2, MoveOnRoute
  <2>2. CASE account[req[r].user] = "absent"
    BY <1>8, <2>2, AnswerOnRoute DEF LogoutUser
  <2> QED
    BY <2>1, <2>2
<1>9. ASSUME NEW r \in Requests, LogoutSet(r) \/ LogoutReturn(r) \/ BackendFails(r)
      PROVE  RoutesInv'
  BY <1>9, GotoOnRoute, AnswerOnRoute DEF LogoutSet, LogoutReturn, BackendFails,
     RoutesInv, OnRoute
<1>10. CASE Crash
  BY <1>10 DEF Crash, Idle, RoutesInv, OnRoute
<1>11. CASE Tick \/ (\E u \in Users : OperatorEdit(u)) \/ UNCHANGED vars
  BY <1>11 DEF Tick, OperatorEdit, vars, RoutesInv
<1> QED
  BY <1>1, <1>2, <1>3, <1>4, <1>5, <1>6, <1>7, <1>8, <1>9, <1>10, <1>11
     DEF Next, Handle, GuardStep, LogoutStep

LEMMA RoutesInvariance == Spec => [](IInv /\ RoutesInv)
PROOF
<1>1. Init => RoutesInv
  BY DEF Init, Idle, RoutesInv, OnRoute, LoginPcs, RefreshPcs, GuardPcs
<1>2. IInv => TypeOK
  BY DEF IInv
<1> QED
  BY <1>1, <1>2, Invariance, RoutesStep, PTL DEF Spec

-----------------------------------------------------------------------------
(* Sessions implements AccessControl *)

USE DEF tokenVars, cacheVars, accountVars, counters, shared

Held == <<account, admins, issued, cookies, Valid, written, revoked>>

LEMMA HeldStays == UNCHANGED <<now, accountVars, tokenVars, written, revoked>> => UNCHANGED Held
PROOF
  BY DEF Held, Valid, Live, LiveRefresh

(* A step that concerns one request moves that request's desk alone. *)
LEMMA DeskMoves ==
  ASSUME TypeOK, NEW r \in Requests,
         \A x \in Requests \ {r} : req'[x] = req[x] /\ seen'[x] = seen[x]
  PROVE  Desks' = [Desks EXCEPT ![r] = Desk(r)'] /\ Desks[r] = Desk(r)
PROOF
<1>1. \A x \in Requests \ {r} : Desk(x)' = Desk(x)
  BY DEF Desk, Busy, Papers, Cleared
<1> QED
  BY <1>1 DEF Desks

LEMMA BusyDesk ==
  ASSUME IInv, RoutesInv, NEW r \in Requests, Busy(r)
  PROVE  /\ Access!Present(r)
         /\ Desks[r] = [ep |-> req[r].ep, user |-> req[r].user, tok |-> req[r].tok,
                        papers |-> Papers(req[r]), cleared |-> Cleared(req[r]),
                        barred |-> seen[r].revoked]
PROOF
<1>1. req[r].ep # "none"
  BY DEF IInv, TypeOK, RequestsOK, RequestOK, Request, Busy, RoutesInv, OnRoute, Pcs,
     LoginPcs, RefreshPcs, GuardPcs, PastGuardPcs
<1> QED
  BY <1>1 DEF Access!Present, Desks, Desk

LEMMA DeskFields ==
  ASSUME IInv, RoutesInv, NEW r \in Requests, Busy(r)
  PROVE  /\ Desks[r].ep = req[r].ep /\ Desks[r].user = req[r].user
         /\ Desks[r].tok = req[r].tok /\ Desks[r].papers = Papers(req[r])
         /\ Desks[r].barred = seen[r].revoked /\ Desks[r].cleared = Cleared(req[r])
PROOF
<1> DEFINE desk(x, y) == [ep |-> req[r].ep, user |-> req[r].user, tok |-> req[r].tok,
                          papers |-> x, cleared |-> y, barred |-> seen[r].revoked]
           c == Cleared(req[r])
<1>1. Desks[r] = desk(Papers(req[r]), c)
  BY BusyDesk
<1>2. \A x, y : /\ desk(x, y).ep = req[r].ep /\ desk(x, y).user = req[r].user
                /\ desk(x, y).tok = req[r].tok /\ desk(x, y).papers = x
                /\ desk(x, y).barred = seen[r].revoked /\ desk(x, y).cleared = y
  OBVIOUS
<1>3. /\ Desks[r].ep = req[r].ep /\ Desks[r].user = req[r].user
      /\ Desks[r].tok = req[r].tok /\ Desks[r].papers = Papers(req[r])
      /\ Desks[r].barred = seen[r].revoked /\ Desks[r].cleared = c
  <2> HIDE DEF desk, c
  <2> QED
    BY <1>1, <1>2
<1> QED
  BY <1>3

(* A request that moves on, and how its desk changes. *)
LEMMA MoveDesk ==
  ASSUME IInv, RoutesInv, NEW r \in Requests, Busy(r), NEW q, req' = [req EXCEPT ![r] = q],
         UNCHANGED seen, q.pc # "idle", q.ep = req[r].ep, q.user = req[r].user,
         q.tok = req[r].tok
  PROVE  Desks' = [Desks EXCEPT ![r] =
           [ep |-> req[r].ep, user |-> req[r].user, tok |-> req[r].tok,
            papers |-> Papers(q), cleared |-> Cleared(q), barred |-> seen[r].revoked]]
PROOF
<1>1. req'[r] = q /\ \A x \in Requests \ {r} : req'[x] = req[x]
  BY DEF IInv, TypeOK, RequestsOK
<1>2. Desks' = [Desks EXCEPT ![r] = Desk(r)']
  BY <1>1, DeskMoves DEF IInv
<1>3. Papers(req'[r]) = Papers(q) /\ Cleared(req'[r]) = Cleared(q)
  BY <1>1
<1>4. Desk(r)' = [ep |-> req[r].ep, user |-> req[r].user, tok |-> req[r].tok,
                  papers |-> Papers(q), cleared |-> Cleared(q), barred |-> seen[r].revoked]
  <2>1. Papers(req[r])' = Papers(q) /\ Cleared(req[r])' = Cleared(q)
    BY <1>1 DEF Papers, Cleared
  <2> QED
    BY <1>1, <2>1 DEF Desk, Busy
<1> QED
  BY <1>2, <1>4

LEMMA SameDesk ==
  ASSUME IInv, RoutesInv, NEW r \in Requests, Busy(r), NEW q, req' = [req EXCEPT ![r] = q],
         UNCHANGED seen, q.pc # "idle", q.ep = req[r].ep, q.user = req[r].user,
         q.tok = req[r].tok, Papers(q) = Papers(req[r]), Cleared(q) = Cleared(req[r])
  PROVE  Desks' = Desks
PROOF
<1> DEFINE moved == [ep |-> req[r].ep, user |-> req[r].user, tok |-> req[r].tok,
                     papers |-> Papers(q), cleared |-> Cleared(q),
                     barred |-> seen[r].revoked]
<1>1. Desks' = [Desks EXCEPT ![r] = Desks[r]]
  <2>1. Desks' = [Desks EXCEPT ![r] = moved]
    BY MoveDesk
  <2>2. Desks[r] = moved
    BY BusyDesk
  <2> QED
    BY <2>1, <2>2
<1> QED
  BY <1>1 DEF Desks

LEMMA StutterDesk ==
  ASSUME IInv, RoutesInv, NEW r \in Requests, Busy(r), NEW q, req' = [req EXCEPT ![r] = q],
         UNCHANGED <<shared, seen>>, q.pc # "idle", q.ep = req[r].ep, q.user = req[r].user,
         q.tok = req[r].tok, Papers(q) = Papers(req[r]), Cleared(q) = Cleared(req[r])
  PROVE  UNCHANGED Access!accessVars
PROOF
<1>1. Desks' = Desks
  BY SameDesk
<1>2. UNCHANGED Held
  BY HeldStays
<1> QED
  BY <1>1, <1>2 DEF Held, Access!accessVars, Access!accountsHeld, Access!tokensHeld,
     Access!logoutsHeld

LEMMA ShowDesk ==
  ASSUME IInv, RoutesInv, NEW r \in Requests, Busy(r), NEW q, req' = [req EXCEPT ![r] = q],
         UNCHANGED <<shared, seen>>, q.pc # "idle", q.ep = req[r].ep, q.user = req[r].user,
         q.tok = req[r].tok, NEW paper \in Papers(req[r]), paper \in Valid,
         Papers(q) = Papers(req[r]) \ {paper}, Cleared(q) = Cleared(req[r])
  PROVE  Access!Show(r)
PROOF
<1> DEFINE desk(x, y) == [ep |-> req[r].ep, user |-> req[r].user, tok |-> req[r].tok,
                          papers |-> x, cleared |-> y, barred |-> seen[r].revoked]
<1>0. Access!Present(r) /\ Desks[r] = desk(Papers(req[r]), Cleared(req[r]))
  BY BusyDesk
<1>1. Desks' = [Desks EXCEPT ![r].papers = @ \ {paper}]
  <2>1. Desks' = [Desks EXCEPT ![r] = desk(Papers(q), Cleared(q))]
    BY MoveDesk
  <2>2. desk(Papers(q), Cleared(q)) = [Desks[r] EXCEPT !.papers = @ \ {paper}]
    BY <1>0
  <2> QED
    BY <2>1, <2>2
<1>2. paper \in Desks[r].papers \cap Valid /\ Access!Present(r)
  BY <1>0
<1>3. UNCHANGED Held
  BY HeldStays
<1> QED
  BY <1>1, <1>2, <1>3 DEF Held, Access!Show, Access!accountsHeld, Access!tokensHeld,
     Access!logoutsHeld

LEMMA ClearDesk ==
  ASSUME IInv, RoutesInv, NEW r \in Requests, Busy(r), NEW q, req' = [req EXCEPT ![r] = q],
         UNCHANGED <<shared, seen>>, q.pc # "idle", q.ep = req[r].ep, q.user = req[r].user,
         q.tok = req[r].tok, Papers(q) = Papers(req[r]), Cleared(q), ~Cleared(req[r]),
         Access!Entitled(req[r].ep, req[r].user), ~Access!Barred(r)
  PROVE  Access!Clear(r)
PROOF
<1>0. Cleared(q) = TRUE /\ Cleared(req[r]) = FALSE
  BY DEF Cleared
<1> DEFINE desk(x, y) == [ep |-> req[r].ep, user |-> req[r].user, tok |-> req[r].tok,
                          papers |-> x, cleared |-> y, barred |-> seen[r].revoked]
<1>1. Access!Present(r) /\ Desks[r] = desk(Papers(req[r]), FALSE)
  <2>1. Access!Present(r) /\ Desks[r] = desk(Papers(req[r]), Cleared(req[r]))
    BY BusyDesk
  <2> QED
    BY <1>0, <2>1
<1>2. Desks' = [Desks EXCEPT ![r].cleared = TRUE]
  <2>1. Desks' = [Desks EXCEPT ![r] = desk(Papers(q), Cleared(q))]
    BY MoveDesk
  <2>2. desk(Papers(q), Cleared(q)) = desk(Papers(req[r]), TRUE)
    BY <1>0
  <2>3. desk(Papers(req[r]), TRUE) = [desk(Papers(req[r]), FALSE) EXCEPT !.cleared = TRUE]
    <3>1. \A x, y : desk(Papers(req[r]), x) = [desk(Papers(req[r]), y) EXCEPT !.cleared = x]
      OBVIOUS
    <3> QED
      BY <3>1, Zenon
  <2> QED
    BY <1>1, <2>1, <2>2, <2>3
<1>3. UNCHANGED Held
  BY HeldStays
<1> QED
  BY <1>1, <1>2, <1>3 DEF Held, Access!Clear, Access!accountsHeld, Access!tokensHeld,
     Access!logoutsHeld

(* An answer leaves the desk with it. *)
LEMMA AnswerDesk ==
  ASSUME IInv, NEW r \in Requests, NEW status, Answer(r, status)
  PROVE  Desks' = [Desks EXCEPT ![r] = Access!Away(AnswerOf(status))]
PROOF
<1>1. /\ req'[r] = Idle(status)
      /\ \A x \in Requests \ {r} : req'[x] = req[x] /\ seen'[x] = seen[x]
  BY DEF Answer, IInv, TypeOK, RequestsOK
<1>2. Desk(r)' = [ep |-> "none", answer |-> AnswerOf(status)]
  BY <1>1 DEF Desk, Busy, Idle, AnswerOf
<1> QED
  BY <1>1, <1>2, DeskMoves DEF IInv, Access!Away

LEMMA RefuseDesk ==
  ASSUME IInv, NEW r \in Requests, NEW status, Answer(r, status), status \notin {0, 200, 201},
         UNCHANGED <<now, accountVars, tokenVars, written, revoked>>
  PROVE  Access!Refuse(r)
PROOF
<1>1. AnswerOf(status) = "refused"
  BY DEF AnswerOf
<1>2. UNCHANGED Held
  BY HeldStays
<1> QED
  BY <1>1, <1>2, AnswerDesk DEF Held, Access!Refuse, Access!accountsHeld,
     Access!tokensHeld, Access!logoutsHeld

(* What a step of the guards or of a handler stands for. *)
Steps(r) == Access!AccessNext \/ UNCHANGED Access!accessVars

LEMMA StepsOf ==
  ASSUME NEW r \in Requests, Access!Show(r) \/ Access!Clear(r) \/ Access!Refuse(r)
           \/ Access!Grant(r) \/ Access!Record(r) \/ Access!Arrive(r)
  PROVE  Steps(r)
PROOF
  BY DEF Steps, Access!AccessNext

LEMMA MovedFields ==
  ASSUME IInv, NEW r \in Requests, NEW pc
  PROVE  LET q == [req[r] EXCEPT !.pc = pc]
         IN q.pc = pc /\ \A q0 \in {req[r]} :
              /\ q.ep = q0.ep /\ q.user = q0.user /\ q.tok = q0.tok /\ q.body = q0.body
              /\ q.admin = q0.admin
PROOF
  BY DEF IInv, TypeOK, RequestsOK, RequestOK, Request

(* validateLogin: the account is found, then the password is compared. *)
LEMMA LoginAccess ==
  ASSUME IInv, RoutesInv, NEW r \in Requests, LoginFind(r) \/ LoginCompare(r)
  PROVE  Steps(r)
PROOF
<1> USE DEF LoginPcs, RefreshPcs, GuardPcs, PastGuardPcs
<1>1. Busy(r) /\ req[r].ep = "login" /\ UNCHANGED shared
  BY DEF LoginFind, LoginCompare, Busy, RoutesInv, OnRoute
<1>2. ASSUME NEW status, Answer(r, status), status = 401 PROVE Steps(r)
  BY <1>1, <1>2, RefuseDesk, StepsOf
<1>3. CASE LoginFind(r) /\ account[req[r].user] # "absent"
  <2> DEFINE q == [req[r] EXCEPT !.pc = "compare"]
  <2>1. req' = [req EXCEPT ![r] = q] /\ UNCHANGED seen /\ req[r].pc = "find"
    BY <1>3 DEF LoginFind, Goto
  <2>2. /\ q.pc = "compare" /\ q.ep = req[r].ep /\ q.user = req[r].user
        /\ q.tok = req[r].tok
    BY MovedFields
  <2>3. Papers(q) = Papers(req[r]) /\ Cleared(q) /\ ~Cleared(req[r])
    BY <2>1, <2>2 DEF Papers, Cleared
  <2>4. Access!Entitled(req[r].ep, req[r].user)
    BY <1>1, <1>3 DEF Access!Entitled
  <2>5. ~Access!Barred(r)
    <3>1. Desks[r].ep = "login"
      BY <1>1, DeskFields
    <3> QED
      BY <3>1 DEF Access!Barred, Access!Guarded
  <2> HIDE DEF q
  <2>6. Access!Clear(r)
    BY <1>1, <2>1, <2>2, <2>3, <2>4, <2>5, ClearDesk
  <2> QED
    BY <2>6, StepsOf
<1>4. CASE LoginCompare(r) /\ Goto(r, "sign")
  <2> DEFINE q == [req[r] EXCEPT !.pc = "sign"]
  <2>1. req' = [req EXCEPT ![r] = q] /\ UNCHANGED seen /\ req[r].pc = "compare"
    BY <1>4 DEF LoginCompare, Goto
  <2>2. /\ q.pc = "sign" /\ q.ep = req[r].ep /\ q.user = req[r].user
        /\ q.tok = req[r].tok
    BY MovedFields
  <2>3. Papers(q) = Papers(req[r]) /\ Cleared(q) = Cleared(req[r])
    BY <2>1, <2>2 DEF Papers, Cleared
  <2> HIDE DEF q
  <2> QED
    BY <1>1, <2>1, <2>2, <2>3, StutterDesk DEF Steps
<1> QED
  BY <1>2, <1>3, <1>4 DEF LoginFind, LoginCompare

(* RefreshTokenGuard and refreshToken: cookie, account and body, one by one. *)
LEMMA RefreshAccess ==
  ASSUME IInv, RoutesInv, NEW r \in Requests, RefreshStep(r)
  PROVE  Steps(r)
PROOF
<1> USE DEF RefreshPcs, GuardPcs, PastGuardPcs
<1>1. /\ Busy(r) /\ req[r].ep = "refresh" /\ UNCHANGED shared
      /\ req[r].tok \in issued /\ req[r].body \in issued
  BY DEF RefreshStep, VerifyCookie, CookieUser, RefreshUser, VerifyBody, Busy, RoutesInv,
     OnRoute, IInv, TypeOK, RequestsOK, RequestOK
<1>2. ASSUME NEW status, Answer(r, status), status \in {401, 500} PROVE Steps(r)
  BY <1>1, <1>2, RefuseDesk, StepsOf
<1>3. CASE VerifyCookie(r) /\ LiveRefresh(req[r].tok)
  <2> DEFINE q == [req[r] EXCEPT !.pc = "cookieUser"]
             paper == <<"refresh", req[r].tok>>
             other == <<"refresh", req[r].body>>
  <2>1. req' = [req EXCEPT ![r] = q] /\ UNCHANGED seen /\ req[r].pc = "cookie"
    BY <1>3 DEF VerifyCookie, Goto
  <2>2. /\ q.pc = "cookieUser" /\ q.ep = req[r].ep /\ q.user = req[r].user
        /\ q.tok = req[r].tok /\ q.body = req[r].body
    BY MovedFields
  <2>3. /\ Papers(q) = {other} /\ Papers(req[r]) = {paper, other}
        /\ Cleared(q) = Cleared(req[r])
    BY <2>1, <2>2 DEF Papers, Cleared
  <2>4. paper \in Valid
    BY <1>1, <1>3 DEF Valid
  <2> HIDE DEF q, paper, other
  <2>5. CASE paper = other
    <3>1. Papers(q) = Papers(req[r])
      BY <2>3, <2>5
    <3> QED
      BY <1>1, <2>1, <2>2, <2>3, <3>1, StutterDesk DEF Steps
  <2>6. CASE paper # other
    <3>1. paper \in Papers(req[r]) /\ Papers(q) = Papers(req[r]) \ {paper}
      BY <2>3, <2>6
    <3>2. Access!Show(r)
      BY <1>1, <2>1, <2>2, <2>3, <2>4, <3>1, ShowDesk
    <3> QED
      BY <3>2, StepsOf
  <2> QED
    BY <2>5, <2>6
<1>4. CASE CookieUser(r) /\ account[req[r].user] = "active"
  <2> DEFINE q == [req[r] EXCEPT !.pc = "refreshUser"]
  <2>1. req' = [req EXCEPT ![r] = q] /\ UNCHANGED seen /\ req[r].pc = "cookieUser"
    BY <1>4 DEF CookieUser, Goto
  <2>2. /\ q.pc = "refreshUser" /\ q.ep = req[r].ep /\ q.user = req[r].user
        /\ q.tok = req[r].tok /\ q.body = req[r].body
    BY MovedFields
  <2>3. Papers(q) = Papers(req[r]) /\ Cleared(q) /\ ~Cleared(req[r])
    BY <2>1, <2>2 DEF Papers, Cleared
  <2>4. Access!Entitled(req[r].ep, req[r].user)
    BY <1>1, <1>4 DEF Access!Entitled
  <2>5. ~Access!Barred(r)
    <3>1. Desks[r].ep = "refresh"
      BY <1>1, DeskFields
    <3> QED
      BY <3>1 DEF Access!Barred, Access!Guarded
  <2> HIDE DEF q
  <2>6. Access!Clear(r)
    BY <1>1, <2>1, <2>2, <2>3, <2>4, <2>5, ClearDesk
  <2> QED
    BY <2>6, StepsOf
<1>5. CASE RefreshUser(r) /\ Goto(r, "body")
  <2> DEFINE q == [req[r] EXCEPT !.pc = "body"]
  <2>1. req' = [req EXCEPT ![r] = q] /\ UNCHANGED seen /\ req[r].pc = "refreshUser"
    BY <1>5 DEF RefreshUser, Goto
  <2>2. /\ q.pc = "body" /\ q.ep = req[r].ep /\ q.user = req[r].user
        /\ q.tok = req[r].tok /\ q.body = req[r].body
    BY MovedFields
  <2>3. Papers(q) = Papers(req[r]) /\ Cleared(q) = Cleared(req[r])
    BY <2>1, <2>2 DEF Papers, Cleared
  <2> HIDE DEF q
  <2> QED
    BY <1>1, <2>1, <2>2, <2>3, StutterDesk DEF Steps
<1>6. CASE VerifyBody(r) /\ LiveRefresh(req[r].body)
  <2> DEFINE q == [req[r] EXCEPT !.pc = "sign"]
             paper == <<"refresh", req[r].body>>
  <2>1. req' = [req EXCEPT ![r] = q] /\ UNCHANGED seen /\ req[r].pc = "body"
    BY <1>6 DEF VerifyBody, Goto
  <2>2. /\ q.pc = "sign" /\ q.ep = req[r].ep /\ q.user = req[r].user
        /\ q.tok = req[r].tok
    BY MovedFields
  <2>3. /\ Papers(q) = {} /\ Papers(req[r]) = {paper}
        /\ Cleared(q) = Cleared(req[r])
    BY <2>1, <2>2 DEF Papers, Cleared
  <2>4. paper \in Valid
    BY <1>1, <1>6 DEF Valid
  <2> HIDE DEF q, paper
  <2>5. paper \in Papers(req[r]) /\ Papers(q) = Papers(req[r]) \ {paper}
    BY <2>3
  <2>6. Access!Show(r)
    BY <1>1, <2>1, <2>2, <2>3, <2>4, <2>5, ShowDesk
  <2> QED
    BY <2>6, StepsOf
<1> QED
  BY <1>2, <1>3, <1>4, <1>5, <1>6
     DEF RefreshStep, VerifyCookie, CookieUser, RefreshUser, VerifyBody

(* AccessTokenGuard: what its loop over the keys leaves, the snapshot clears. *)
LEMMA ScanAccess ==
  ASSUME IInv, RoutesInv, NEW r \in Requests,
         AccessVerify(r) \/ GuardKeys(r) \/ GuardGet(r) \/ GuardBlacklisted(r)
  PROVE  Steps(r)
PROOF
<1> USE DEF RefreshPcs, GuardPcs, PastGuardPcs
<1>0. Forbidden(req[r].ep) \notin {0, 200, 201}
  BY DEF Forbidden
<1>1. Busy(r) /\ UNCHANGED shared /\ req[r] \in Request /\ req[r].tok \in issued
  <2>1. req[r].pc \in {"verify", "keys", "get"} /\ UNCHANGED shared
    BY DEF AccessVerify, GuardKeys, GuardGet, GuardBlacklisted
  <2>2. req[r] \in Request /\ req[r].tok \in issued
    BY <2>1 DEF IInv, TypeOK, RequestsOK, RequestOK
  <2> QED
    BY <2>1, <2>2 DEF Busy
<1>2. ASSUME Answer(r, Forbidden(req[r].ep)) PROVE Steps(r)
  BY <1>0, <1>1, <1>2, RefuseDesk, StepsOf
<1>3. CASE AccessVerify(r) /\ Live(req[r].tok)
  <2> DEFINE q == [req[r] EXCEPT !.pc = "keys"]
             paper == <<"access", req[r].tok>>
  <2>1. req' = [req EXCEPT ![r] = q] /\ UNCHANGED seen /\ req[r].pc = "verify"
    BY <1>3 DEF AccessVerify, Goto
  <2>2. /\ q.pc = "keys" /\ q.ep = req[r].ep /\ q.user = req[r].user
        /\ q.tok = req[r].tok
    BY MovedFields
  <2>3. /\ Papers(q) = {} /\ Papers(req[r]) = {paper}
        /\ Cleared(q) = Cleared(req[r])
    BY <2>1, <2>2 DEF Papers, Cleared
  <2>4. paper \in Valid
    BY <1>1, <1>3 DEF Valid
  <2> HIDE DEF q, paper
  <2>5. paper \in Papers(req[r]) /\ Papers(q) = Papers(req[r]) \ {paper}
    BY <2>3
  <2>6. Access!Show(r)
    BY <1>1, <2>1, <2>2, <2>3, <2>4, <2>5, ShowDesk
  <2> QED
    BY <2>6, StepsOf
<1>4. ASSUME NEW q, req' = [req EXCEPT ![r] = q], UNCHANGED seen,
             req[r].pc \in {"keys", "get"}, q.pc \in {"get", "user"},
             q.ep = req[r].ep, q.user = req[r].user, q.tok = req[r].tok
      PROVE  Steps(r)
  <2>1. Papers(q) = Papers(req[r]) /\ Cleared(q) = Cleared(req[r])
    BY <1>4 DEF Papers, Cleared
  <2> QED
    BY <1>1, <1>4, <2>1, StutterDesk DEF Steps
<1>5. CASE GuardKeys(r)
  <2> DEFINE keys == {e.at : e \in {e \in blacklist : e.tok.user = req[r].user}}
             q == [req[r] EXCEPT !.pc = "get", !.todo = keys]
  <2>1. req' = [req EXCEPT ![r] = q] /\ UNCHANGED seen /\ req[r].pc = "keys"
    BY <1>5 DEF GuardKeys
  <2>2. q.pc = "get" /\ q.ep = req[r].ep /\ q.user = req[r].user /\ q.tok = req[r].tok
    <3> HIDE DEF keys
    <3> QED
      BY <1>1 DEF Request
  <2> HIDE DEF q, keys
  <2> QED
    BY <1>4, <2>1, <2>2
<1>6. CASE GuardGet(r)
  <2>1. PICK at \in req[r].todo :
           req' = [req EXCEPT ![r].todo = @ \ {at},
             ![r].hit = @ \/ \E e \in blacklist : e.at = at /\ e.tok = req[r].tok]
    BY <1>6 DEF GuardGet
  <2> DEFINE left == req[r].todo \ {at}
             hit == req[r].hit \/ \E e \in blacklist : e.at = at /\ e.tok = req[r].tok
             q == [req[r] EXCEPT !.todo = left, !.hit = hit]
  <2>2. req' = [req EXCEPT ![r] = q] /\ UNCHANGED seen /\ req[r].pc = "get"
    BY <1>6, <2>1 DEF GuardGet
  <2>3. q.pc = "get" /\ q.ep = req[r].ep /\ q.user = req[r].user /\ q.tok = req[r].tok
    <3> HIDE DEF left, hit
    <3> QED
      BY <1>1, <2>2 DEF Request
  <2> HIDE DEF q, left, hit
  <2> QED
    BY <1>4, <2>2, <2>3
<1>7. CASE GuardBlacklisted(r) /\ ~req[r].hit
  <2> DEFINE q == [req[r] EXCEPT !.pc = "user"]
  <2>1. req' = [req EXCEPT ![r] = q] /\ UNCHANGED seen /\ req[r].pc = "get"
    BY <1>7 DEF GuardBlacklisted, Goto
  <2>2. q.pc = "user" /\ q.ep = req[r].ep /\ q.user = req[r].user /\ q.tok = req[r].tok
    BY MovedFields
  <2> HIDE DEF q
  <2> QED
    BY <1>4, <2>1, <2>2
<1> QED
  BY <1>2, <1>3, <1>5, <1>6, <1>7 DEF AccessVerify, GuardBlacklisted

LEMMA NotBarred ==
  ASSUME IInv, RoutesInv, Covered, NEW r \in Requests, req[r].pc = "user"
  PROVE  ~Access!Barred(r)
PROOF
<1>1. Desks[r].tok = req[r].tok /\ Desks[r].barred = seen[r].revoked
  BY DeskFields DEF Busy
<1>2. <<"access", req[r].tok>> \in Valid => Live(req[r].tok)
  BY DEF Valid
<1>3. Live(req[r].tok) => \A at \in seen[r].revoked : Overwritten(req[r].tok, at)
  BY DEF IInv, RequestInv, ScanInv
<1>4. \A at : Overwritten(req[r].tok, at) => Access!TakenOver(req[r].tok, at)
  BY DEF Overwritten, Access!TakenOver
<1> QED
  BY <1>1, <1>2, <1>3, <1>4 DEF Access!Barred

(* findFirst of the active user is the moment a guarded request is cleared. *)
LEMMA SnapshotAccess ==
  ASSUME IInv, RoutesInv, Covered, NEW r \in Requests, GuardActiveUser(r)
  PROVE  Steps(r)
PROOF
<1> USE DEF RefreshPcs, GuardPcs, PastGuardPcs
<1>0. Forbidden(req[r].ep) \notin {0, 200, 201}
  BY DEF Forbidden
<1>1. /\ Busy(r) /\ UNCHANGED shared /\ req[r] \in Request /\ req[r].pc = "user"
      /\ req[r].ep \in {"me", "create", "logout"}
  <2>1. req[r].pc = "user" /\ UNCHANGED shared
    BY DEF GuardActiveUser
  <2>2. req[r] \in Request
    BY DEF IInv, TypeOK, RequestsOK, RequestOK
  <2> QED
    BY <2>1, <2>2 DEF Busy, RoutesInv, OnRoute
<1>2. CASE account[req[r].user] # "active"
  BY <1>0, <1>1, <1>2, RefuseDesk, StepsOf DEF GuardActiveUser
<1>3. CASE account[req[r].user] = "active"
  <2> DEFINE admin == req[r].user \in admins
             q == [req[r] EXCEPT !.pc = AfterGuard(req[r].ep), !.admin = admin]
  <2>1. req' = [req EXCEPT ![r] = q] /\ UNCHANGED seen
    BY <1>3 DEF GuardActiveUser
  <2>2. /\ q.pc = AfterGuard(req[r].ep) /\ q.ep = req[r].ep /\ q.user = req[r].user
        /\ q.tok = req[r].tok /\ (q.admin <=> admin)
    <3> HIDE DEF admin
    <3> QED
      BY <1>1 DEF Request
  <2> HIDE DEF q
  <2>3. /\ Papers(q) = Papers(req[r]) /\ ~Cleared(req[r]) /\ q.pc # "idle"
        /\ Cleared(q) <=> (req[r].ep = "create" => admin)
    BY <1>1, <2>2 DEF AfterGuard, Papers, Cleared
  <2>4. CASE req[r].ep = "create" => admin
    <3>1. Access!Entitled(req[r].ep, req[r].user) /\ ~Access!Barred(r)
      BY <1>1, <1>3, <2>4, NotBarred DEF Access!Entitled
    <3>2. Access!Clear(r)
      BY <1>1, <2>1, <2>2, <2>3, <2>4, <3>1, ClearDesk
    <3> QED
      BY <3>2, StepsOf
  <2>5. CASE ~(req[r].ep = "create" => admin)
    <3>1. Cleared(q) = Cleared(req[r])
      BY <2>3, <2>5 DEF Cleared
    <3> QED
      BY <1>1, <2>1, <2>2, <2>3, <3>1, StutterDesk DEF Steps
  <2> QED
    BY <2>4, <2>5
<1> QED
  BY <1>2, <1>3

(* RoleGuard looks at the snapshot alone; logout at the account, once more. *)
LEMMA RoleAccess ==
  ASSUME IInv, RoutesInv, NEW r \in Requests, RoleGuard(r) \/ LogoutUser(r)
  PROVE  Steps(r)
PROOF
<1> USE DEF RefreshPcs, GuardPcs, PastGuardPcs
<1>0. Forbidden(req[r].ep) \notin {0, 200, 201}
  BY DEF Forbidden
<1>1. Busy(r) /\ UNCHANGED shared /\ req[r] \in Request
  <2>1. req[r].pc \in {"role", "logoutUser"} /\ UNCHANGED shared
    BY DEF RoleGuard, LogoutUser
  <2>2. req[r] \in Request
    BY DEF IInv, TypeOK, RequestsOK, RequestOK
  <2> QED
    BY <2>1, <2>2 DEF Busy
<1>2. ASSUME NEW status, status \notin {0, 200, 201}, Answer(r, status) PROVE Steps(r)
  BY <1>1, <1>2, RefuseDesk, StepsOf
<1>3. CASE RoleGuard(r) /\ req[r].admin
  <2> DEFINE q == [req[r] EXCEPT !.pc = "serve"]
  <2>1. req' = [req EXCEPT ![r] = q] /\ UNCHANGED seen /\ req[r].pc = "role"
    BY <1>3 DEF RoleGuard, Goto
  <2>2. q.pc = "serve" /\ q.ep = req[r].ep /\ q.user = req[r].user /\ q.tok = req[r].tok
    BY MovedFields
  <2>3. Papers(q) = Papers(req[r]) /\ Cleared(q) = Cleared(req[r])
    BY <1>3, <2>1, <2>2 DEF Papers, Cleared
  <2> HIDE DEF q
  <2> QED
    BY <1>1, <2>1, <2>2, <2>3, StutterDesk DEF Steps
<1>4. CASE LogoutUser(r) /\ account[req[r].user] # "absent"
  <2> DEFINE q == [req[r] EXCEPT !.pc = "set", !.at = now]
  <2>1. req' = [req EXCEPT ![r] = q] /\ UNCHANGED seen /\ req[r].pc = "logoutUser"
    BY <1>4 DEF LogoutUser
  <2>2. q.pc = "set" /\ q.ep = req[r].ep /\ q.user = req[r].user /\ q.tok = req[r].tok
    BY <1>1 DEF Request
  <2>3. Papers(q) = Papers(req[r]) /\ Cleared(q) = Cleared(req[r])
    BY <2>1, <2>2 DEF Papers, Cleared
  <2> HIDE DEF q
  <2> QED
    BY <1>1, <2>1, <2>2, <2>3, StutterDesk DEF Steps
<1> QED
  BY <1>0, <1>1, <1>2, <1>3, <1>4 DEF RoleGuard, LogoutUser

LEMMA AwayDesk ==
  ASSUME NEW r \in Requests, ~Busy(r)
  PROVE  ~Access!Present(r) /\ Desks[r] = Access!Away(AnswerOf(req[r].status))
PROOF
  BY DEF Access!Present, Access!Away, Desks, Desk

LEMMA StartDesk ==
  ASSUME IInv, NEW r \in Requests, NEW ep, NEW u, NEW tok, NEW body,
         NEW pc \in {"find", "cookie", "verify"}, Start(r, ep, u, tok, body, pc)
  PROVE  LET papers == IF pc = "verify" THEN {<<"access", tok>>}
                       ELSE IF pc = "cookie" THEN {<<"refresh", tok>>, <<"refresh", body>>}
                       ELSE {}
         IN Access!Come(r, ep, u, tok, papers) /\ ~Access!Present(r) /\ UNCHANGED Held
PROOF
<1> DEFINE q == [Idle(0) EXCEPT !.pc = pc, !.ep = ep, !.user = u, !.tok = tok, !.body = body]
           papers == IF pc = "verify" THEN {<<"access", tok>>}
                     ELSE IF pc = "cookie" THEN {<<"refresh", tok>>, <<"refresh", body>>}
                     ELSE {}
           found == {k.at : k \in {w \in revoked : w.tok = tok}}
<1>1. /\ req'[r] = q /\ seen'[r] = [standings |-> {Standing(u)}, revoked |-> found]
      /\ \A x \in Requests \ {r} : req'[x] = req[x] /\ seen'[x] = seen[x]
  BY DEF Start, IInv, TypeOK, RequestsOK
<1>2. /\ q.pc = pc /\ q.ep = ep /\ q.user = u /\ q.tok = tok /\ q.body = body
  BY DEF Idle
<1>3. Papers(q) = papers /\ Cleared(q) = FALSE
  BY <1>2 DEF Papers, Cleared, RefreshPcs, PastGuardPcs
<1>4. Desk(r)' = [ep |-> ep, user |-> u, tok |-> tok, papers |-> papers,
                  cleared |-> FALSE, barred |-> found]
  <2>1. Papers(req[r])' = Papers(q) /\ Cleared(req[r])' = Cleared(q)
    BY <1>1 DEF Papers, Cleared
  <2>2. seen'[r].revoked = found
    BY <1>1
  <2> HIDE DEF q, found, papers
  <2> QED
    BY <1>1, <1>2, <1>3, <2>1, <2>2 DEF Desk, Busy
<1>5. Desks' = [Desks EXCEPT ![r] = Desk(r)']
  BY <1>1, DeskMoves DEF IInv
<1>6. ~Access!Present(r) /\ UNCHANGED Held
  BY AwayDesk, HeldStays DEF Start
<1> QED
  BY <1>4, <1>5, <1>6 DEF Access!Come

LEMMA ArriveAccess ==
  ASSUME IInv, NEW r \in Requests, Arrive(r)
  PROVE  Steps(r)
PROOF
<1> USE DEF Access!Arrive, Access!accountsHeld, Access!tokensHeld, Access!logoutsHeld, Held
<1>1. CASE StartLogin(r)
  BY <1>1, StartDesk, StepsOf DEF StartLogin
<1>2. CASE StartRefresh(r)
  BY <1>2, StartDesk, StepsOf DEF StartRefresh
<1>3. CASE StartGuarded(r)
  <2>1. PICK ep \in Access!Guarded, tok \in issued :
           Start(r, ep, tok.user, tok, NoToken, "verify")
    BY <1>3 DEF StartGuarded, Access!Guarded
  <2>2. Access!Come(r, ep, tok.user, tok, {<<"access", tok>>})
    BY <2>1, StartDesk
  <2>3. ~Access!Present(r) /\ UNCHANGED Held
    BY <2>1, StartDesk
  <2>4. Access!Arrive(r)
    BY <2>2, <2>3
  <2> QED
    BY <2>4, StepsOf
<1>4. CASE \E ep \in Endpoints : StartWithoutToken(r, ep)
  BY <1>4, RefuseDesk, StepsOf DEF StartWithoutToken
<1> QED
  BY <1>1, <1>2, <1>3, <1>4 DEF Arrive

(* A request that is past all it has to show. *)
LEMMA SettledDesk ==
  ASSUME IInv, RoutesInv, NEW r \in Requests, req[r].pc \in {"sign", "serve", "set", "return"}
  PROVE  Busy(r) /\ Access!Settled(r)
PROOF
<1>1. Busy(r) /\ Papers(req[r]) = {} /\ Cleared(req[r])
  BY DEF Busy, Papers, Cleared, RefreshPcs, PastGuardPcs
<1>2. Desks[r].papers = {} /\ Desks[r].cleared
  <2>1. Desks[r].cleared = Cleared(req[r])
    BY <1>1, DeskFields
  <2>2. Desks[r].papers = Papers(req[r])
    BY <1>1, DeskFields
  <2> QED
    BY <1>1, <2>1, <2>2
<1> QED
  BY <1>1, <1>2, BusyDesk DEF Access!Settled

(* getTokensData: the tokens that verify are those that did, and the new one. *)
LEMMA SignAccess ==
  ASSUME IInv, RoutesInv, NEW r \in Requests, Sign(r)
  PROVE  Steps(r)
PROOF
<1> DEFINE new == SignedNow(req[r].user)
<1>1. /\ Busy(r) /\ Access!Settled(r) /\ req[r].ep \in {"login", "refresh"}
      /\ req[r].user \in Users
  BY SettledDesk DEF Sign, RoutesInv, OnRoute, IInv, TypeOK, RequestsOK, RequestOK
<1>2. Desks[r].ep = req[r].ep /\ Desks[r].user = req[r].user
  BY <1>1, DeskFields
<1>3. Desks' = [Desks EXCEPT ![r] = Access!Away("granted")]
  <2>1. AnswerOf(201) = "granted"
    BY DEF AnswerOf
  <2> QED
    BY <2>1, AnswerDesk DEF Sign
<1>4. new \in issued' /\ new.user = req[r].user
  BY DEF Sign, SignedNow
<1>5. /\ issued' = issued \cup {new}
      /\ cookies' = IF Desks[r].ep = "login" THEN cookies \cup {new} ELSE cookies
  BY <1>2 DEF Sign
<1>6. /\ Valid \subseteq Valid'
      /\ Valid' \subseteq Valid \cup {<<"access", new>>, <<"refresh", new>>}
  <2> HIDE DEF new
  <2>1. \A t : Live(t)' = Live(t) /\ LiveRefresh(t)' = LiveRefresh(t)
    BY DEF Sign, Live, LiveRefresh
  <2> QED
    BY <1>5, <2>1 DEF Valid
<1>7. Access!Issue(Desks[r].user, Desks[r].ep = "login")
  <2> HIDE DEF new
  <2> QED
    BY <1>2, <1>4, <1>5, <1>6 DEF Access!Issue
<1>8. Access!Grant(r)
  BY <1>1, <1>2, <1>3, <1>7 DEF Sign, Access!Grant, Access!accountsHeld, Access!logoutsHeld
<1> QED
  BY <1>8, StepsOf

LEMMA ServeAccess ==
  ASSUME IInv, RoutesInv, NEW r \in Requests, Serve(r)
  PROVE  Steps(r)
PROOF
<1>1. Busy(r) /\ Access!Settled(r) /\ req[r].ep \in {"me", "create"} /\ UNCHANGED shared
  BY SettledDesk DEF Serve, RoutesInv, OnRoute
<1>2. Desks[r].ep = req[r].ep
  BY <1>1, DeskFields
<1>3. Desks' = [Desks EXCEPT ![r] = Access!Away("granted")]
  <2>1. AnswerOf(200) = "granted" /\ AnswerOf(201) = "granted"
    BY DEF AnswerOf
  <2> QED
    BY <2>1, AnswerDesk DEF Serve
<1>4. UNCHANGED Held
  BY <1>1, HeldStays
<1>5. Access!Grant(r)
  BY <1>1, <1>2, <1>3, <1>4 DEF Held, Access!Grant, Access!accountsHeld,
     Access!tokensHeld, Access!logoutsHeld
<1> QED
  BY <1>5, StepsOf

LEMMA LogoutAccess ==
  ASSUME IInv, RoutesInv, NEW r \in Requests, LogoutSet(r) \/ LogoutReturn(r)
  PROVE  Steps(r)
PROOF
<1> DEFINE w == [tok |-> req[r].tok, at |-> req[r].at]
<1> USE DEF Access!accountsHeld, Access!tokensHeld, Access!logoutsHeld
<1>1. Busy(r) /\ Access!Settled(r) /\ req[r].ep = "logout"
  BY SettledDesk DEF LogoutSet, LogoutReturn, RoutesInv, OnRoute
<1>2. Desks[r].ep = "logout" /\ Desks[r].tok = req[r].tok /\ w.tok = req[r].tok
  BY <1>1, DeskFields
<1>3. Valid' = Valid
  BY DEF LogoutSet, LogoutReturn, Valid, Live, LiveRefresh
<1>4. CASE LogoutSet(r)
  <2> DEFINE q == [req[r] EXCEPT !.pc = "return"]
  <2>1. req' = [req EXCEPT ![r] = q] /\ UNCHANGED seen /\ req[r].pc = "set"
    BY <1>4 DEF LogoutSet, Goto
  <2>2. q.pc = "return" /\ q.ep = req[r].ep /\ q.user = req[r].user /\ q.tok = req[r].tok
    BY MovedFields
  <2>3. Papers(q) = Papers(req[r]) /\ Cleared(q) = Cleared(req[r])
    BY <2>1, <2>2 DEF Papers, Cleared, RefreshPcs, PastGuardPcs
  <2> HIDE DEF q
  <2>4. Desks' = Desks
    BY <1>1, <2>1, <2>2, <2>3, SameDesk
  <2>5. written' = written \cup {w} /\ w \in written' /\ UNCHANGED <<revoked, account, admins, issued, cookies>>
    BY <1>4 DEF LogoutSet, Store
  <2> HIDE DEF w
  <2>6. Access!Record(r)
    BY <1>1, <1>2, <1>3, <2>4, <2>5 DEF Access!Record
  <2> QED
    BY <2>6, StepsOf
<1>5. CASE LogoutReturn(r)
  <2>1. Desks' = [Desks EXCEPT ![r] = Access!Away("granted")]
    <3>1. AnswerOf(200) = "granted"
      BY DEF AnswerOf
    <3> QED
      BY <1>5, <3>1, AnswerDesk DEF LogoutReturn
  <2>2. /\ revoked' = revoked \cup {w} /\ w \in written
        /\ UNCHANGED <<written, account, admins, issued, cookies>>
    BY <1>5 DEF LogoutReturn, IInv, TypeOK, RequestsOK, RequestOK
  <2> HIDE DEF w
  <2>3. Access!Grant(r)
    BY <1>1, <1>2, <1>3, <2>1, <2>2 DEF Access!Grant
  <2> QED
    BY <2>3, StepsOf
<1> QED
  BY <1>4, <1>5

(* A call that fails refuses the request, though its logout may be on record. *)
LEMMA FailAccess ==
  ASSUME IInv, RoutesInv, NEW r \in Requests, BackendFails(r)
  PROVE  Steps(r)
PROOF
<1>1. FailStatus(r) \notin {0, 200, 201} /\ AnswerOf(FailStatus(r)) = "refused"
  BY DEF FailStatus, Forbidden, AnswerOf
<1>2. CASE UNCHANGED cacheVars
  BY <1>1, <1>2, RefuseDesk, StepsOf DEF BackendFails
<1>3. CASE req[r].pc = "set" /\ Store(req[r].tok, req[r].at)
  <2> DEFINE w == [tok |-> req[r].tok, at |-> req[r].at]
  <2>1. Busy(r) /\ Access!Settled(r) /\ req[r].ep = "logout"
    BY <1>3, SettledDesk DEF RoutesInv, OnRoute
  <2>2. Desks[r].ep = "logout" /\ Desks[r].tok = req[r].tok /\ w.tok = req[r].tok
    BY <2>1, DeskFields
  <2>3. Valid' = Valid
    BY DEF BackendFails, Valid, Live, LiveRefresh
  <2>4. Desks' = [Desks EXCEPT ![r] = Access!Away("refused")]
    BY <1>1, AnswerDesk DEF BackendFails
  <2>5. /\ written' = written \cup {w} /\ w \in written'
        /\ UNCHANGED <<revoked, account, admins, issued, cookies>>
    BY <1>3 DEF BackendFails, Store
  <2> HIDE DEF w
  <2>6. Access!Record(r)
    BY <2>1, <2>2, <2>3, <2>4, <2>5 DEF Access!Record, Access!accountsHeld,
       Access!tokensHeld, Access!logoutsHeld
  <2> QED
    BY <2>6, StepsOf
<1> QED
  BY <1>2, <1>3 DEF BackendFails

LEMMA CrashAccess == IInv /\ RoutesInv /\ Crash => Access!DropAll
PROOF
<1> SUFFICES ASSUME IInv, RoutesInv, Crash PROVE Access!DropAll
  OBVIOUS
<1>1. \A r \in Requests : Access!Present(r) <=> Busy(r)
  BY BusyDesk, AwayDesk
<1>2. \A r \in Requests : req'[r] = IF Busy(r) THEN Idle(0) ELSE req[r]
  BY DEF Crash
<1>3. ASSUME NEW r \in Requests
      PROVE  Desk(r)' = IF Access!Present(r) THEN Access!Away("none") ELSE Desks[r]
  <2>1. CASE Busy(r)
    BY <1>1, <1>2, <2>1 DEF Desk, Busy, Idle, AnswerOf, Access!Away
  <2>2. CASE ~Busy(r)
    BY <1>1, <1>2, <2>2 DEF Desks, Desk, Busy
  <2> QED
    BY <2>1, <2>2
<1>4. Desks' = [r \in Requests |-> IF Access!Present(r) THEN Access!Away("none") ELSE Desks[r]]
  BY <1>3 DEF Desks
<1>5. UNCHANGED Held
  BY HeldStays DEF Crash
<1> QED
  BY <1>4, <1>5 DEF Held, Access!DropAll, Access!accountsHeld, Access!tokensHeld,
     Access!logoutsHeld

LEMMA TickAccess == IInv /\ Tick => Access!Expire
PROOF
<1> SUFFICES ASSUME IInv, Tick PROVE Access!Expire
  OBVIOUS
<1>1. AccessTicks \in Nat /\ RefreshTicks \in Nat
  BY TicksCounted, LifetimesAssumption DEF AccessTicks, RefreshTicks
<1>2. /\ now \in Nat /\ now' = now + 1
      /\ \A tok \in issued : tok.iat \in Nat
  BY DEF Tick, IInv, TypeOK, SharedOK, Token
<1>3. \A tok \in issued : (Live(tok)' => Live(tok)) /\ (LiveRefresh(tok)' => LiveRefresh(tok))
  BY <1>1, <1>2 DEF Live, LiveRefresh
<1>4. Valid' \subseteq Valid
  BY <1>3 DEF Tick, Valid
<1>5. Desks' = Desks
  BY DEF Tick, Desks, Desk, Busy, Papers, Cleared
<1> QED
  BY <1>4, <1>5 DEF Tick, Access!Expire, Access!accountsHeld, Access!logoutsHeld

LEMMA EditAccess ==
  ASSUME IInv, NEW u \in Users, OperatorEdit(u)
  PROVE  Access!Edit(u)
PROOF
<1>1. \A r \in Requests : seen'[r].revoked = seen[r].revoked
  BY DEF OperatorEdit, IInv, TypeOK, RequestsOK, RequestOK, Sight
<1>2. Desks' = Desks
  <2>1. req' = req
    BY DEF OperatorEdit
  <2> QED
    BY <1>1, <2>1 DEF Desks, Desk, Busy, Papers, Cleared
<1>3. Valid' = Valid
  BY DEF OperatorEdit, Valid, Live, LiveRefresh
<1> QED
  BY <1>2, <1>3 DEF OperatorEdit, Access!Edit, Access!tokensHeld, Access!logoutsHeld

LEMMA AccessStep ==
  IInv /\ RoutesInv /\ Covered /\ [Next]_vars => [Access!AccessNext]_(Access!accessVars)
PROOF
<1> SUFFICES ASSUME IInv, RoutesInv, Covered, [Next]_vars
             PROVE  Access!AccessNext \/ UNCHANGED Access!accessVars
  OBVIOUS
<1>1. ASSUME NEW r \in Requests, Arrive(r) \/ Handle(r) \/ BackendFails(r)
      PROVE  Steps(r)
  BY <1>1, ArriveAccess, LoginAccess, SignAccess, RefreshAccess, ScanAccess, SnapshotAccess,
     RoleAccess, ServeAccess, LogoutAccess, FailAccess
     DEF Handle, LoginStep, GuardStep, LogoutStep
<1>2. CASE Crash \/ Tick
  BY <1>2, CrashAccess, TickAccess DEF Access!AccessNext
<1>3. CASE \E u \in Users : OperatorEdit(u)
  BY <1>3, EditAccess DEF Access!AccessNext
<1>4. CASE UNCHANGED vars
  <2>1. UNCHANGED Held
    BY <1>4, HeldStays DEF vars
  <2>2. Desks' = Desks
    BY <1>4 DEF vars, Desks, Desk, Busy, Papers, Cleared
  <2> QED
    BY <2>1, <2>2 DEF Held, Access!accessVars, Access!accountsHeld, Access!tokensHeld,
       Access!logoutsHeld
<1> QED
  BY <1>1, <1>2, <1>3, <1>4 DEF Next, Steps

LEMMA AccessStart == Init => Access!AccessInit
PROOF
<1> SUFFICES ASSUME Init PROVE Access!AccessInit
  OBVIOUS
<1>1. Desks = [r \in Requests |-> Access!Away("none")]
  BY DEF Init, Desks, Desk, Busy, Idle, AnswerOf, Access!Away
<1>2. Valid = {}
  BY DEF Init, Valid
<1> QED
  BY <1>1, <1>2 DEF Init, Access!AccessInit

(* Sessions implements AccessControl for any number of users and requests, and *)
(* any lifetime of the access token in a unit that logout and signAsync read   *)
(* alike: without it a logout lapses before its token, and AccessTokenGuard    *)
(* lets in what the abstract server bars.                                      *)
THEOREM AccessImplemented ==
  ASSUME AccessExpiresIn.unit \in CoveredUnits
  PROVE  Spec => ImplementsAccess
PROOF
<1>1. Covered
  BY DEF Covered
<1>2. IInv /\ RoutesInv /\ [Next]_vars => [Access!AccessNext]_(Access!accessVars)
  BY <1>1, AccessStep
<1> QED
  BY <1>2, AccessStart, RoutesInvariance, PTL DEF Spec, ImplementsAccess, Access!AccessSpec
=============================================================================
