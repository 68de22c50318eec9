---------------------- MODULE SessionsInvariantProofs ----------------------
(***************************************************************************)
(* The safety of logout and of the guards, from the inductive invariant.   *)
(***************************************************************************)
EXTENDS SessionsInvariant, SessionsProofs

USE DEF tokenVars, cacheVars, accountVars, counters, shared

(* What any step leaves of the past: time and history only grow. *)
Grows == now <= now' /\ issued \subseteq issued' /\ written \subseteq written'

LEMMA StepGrows == TypeOK /\ [Next]_vars => Grows
PROOF
<1> SUFFICES ASSUME TypeOK, [Next]_vars PROVE Grows
  OBVIOUS
<1>1. now \in Nat
  BY DEF TypeOK, SharedOK
<1>2. ASSUME NEW r \in Requests, Arrive(r) \/ Handle(r) \/ BackendFails(r)
      PROVE  UNCHANGED now /\ issued \subseteq issued' /\ written \subseteq written'
  <2>1. CASE Arrive(r)
    BY <2>1 DEF Arrive, StartLogin, StartRefresh, StartGuarded, StartWithoutToken, Start
  <2>2. CASE LoginStep(r) \/ RefreshStep(r) \/ Serve(r)
    BY <2>2 DEF LoginStep, LoginFind, LoginCompare, Sign, RefreshStep, VerifyCookie,
         CookieUser, RefreshUser, VerifyBody, Serve
  <2>3. CASE GuardStep(r)
    BY <2>3 DEF GuardStep, AccessVerify, GuardKeys, GuardGet, GuardBlacklisted,
         GuardActiveUser, RoleGuard
  <2>4. CASE LogoutStep(r) \/ BackendFails(r)
    BY <2>4 DEF LogoutStep, LogoutUser, LogoutSet, LogoutReturn, BackendFails, Store
  <2> QED
    BY <1>2, <2>1, <2>2, <2>3, <2>4 DEF Handle
<1>3. CASE Tick
  BY <1>1, <1>3 DEF Tick, Grows
<1>4. CASE Crash
  BY <1>1, <1>4 DEF Crash, Grows
<1>5. ASSUME NEW u \in Users, OperatorEdit(u) PROVE Grows
  BY <1>1, <1>5 DEF OperatorEdit, Grows
<1>6. CASE UNCHANGED vars
  BY <1>1, <1>6 DEF vars, Grows
<1> QED
  BY <1>1, <1>2, <1>3, <1>4, <1>5, <1>6 DEF Next, Grows

-----------------------------------------------------------------------------
(* The cache *)

LEMMA StoreKeeps ==
  ASSUME SharedOK, CacheInv, NEW tok \in issued, NEW at \in Nat, Store(tok, at),
         UNCHANGED <<now, issued>>
  PROVE  CacheInv'
PROOF
<1> DEFINE new == [tok |-> tok, at |-> at, until |-> now + BlacklistTicks]
           key == [tok |-> tok, at |-> at]
<1>1. /\ blacklist' = {e \in blacklist : ~(e.at = at /\ e.tok.user = tok.user)} \cup {new}
      /\ written' = written \cup {key}
  BY DEF Store
<1>2. new.tok = tok /\ new.at = at /\ new.until = now + BlacklistTicks
        /\ key.tok = tok /\ key.at = at
  OBVIOUS
<1> HIDE DEF new, key
<1>3. TokensPast'
  BY <1>1, <1>2 DEF CacheInv, TokensPast, key
<1>4. \A w \in written' : w.tok.iat \in Nat /\ w.tok.iat <= now
  BY <1>3 DEF TokensPast, SharedOK, Token
<1>5. ASSUME Covered PROVE EntriesOutlive'
  <2> SUFFICES ASSUME NEW e \in blacklist', NEW w \in written', SameKey(e, w)
               PROVE  w.tok.iat + AccessTicks <= e.until
    BY DEF EntriesOutlive, SameKey
  <2>1. CASE e = new
    BY <1>2, <1>4, <1>5, <2>1, BlacklistTimes DEF Covered, SharedOK
  <2>2. CASE e # new
    <3>1. e \in blacklist /\ w # key
      BY <1>1, <1>2, <2>2 DEF SameKey
    <3> QED
      BY <1>1, <1>5, <3>1 DEF CacheInv, EntriesOutlive
  <2> QED
    BY <2>1, <2>2
<1>6. ASSUME Covered PROVE EntriesKept'
  <2> SUFFICES ASSUME NEW w \in written', Live(w.tok)
               PROVE  \E e \in blacklist' : SameKey(e, w)
    BY DEF EntriesKept, SameKey, Live
  <2>1. CASE w.at = at /\ w.tok.user = tok.user
    BY <1>1, <1>2, <2>1 DEF SameKey
  <2>2. CASE ~(w.at = at /\ w.tok.user = tok.user)
    <3>1. PICK e \in blacklist : SameKey(e, w)
      BY <1>1, <1>2, <1>6, <2>2 DEF CacheInv, EntriesKept
    <3>2. e \in blacklist'
      BY <1>1, <2>2, <3>1 DEF SameKey
    <3> QED
      BY <3>1, <3>2
  <2> QED
    BY <2>1, <2>2
<1> QED
  BY <1>3, <1>5, <1>6 DEF CacheInv

LEMMA TickKeeps == SharedOK /\ CacheInv /\ Tick => CacheInv'
PROOF
<1> SUFFICES ASSUME SharedOK, CacheInv, Tick PROVE CacheInv'
  OBVIOUS
<1>1. /\ now \in Nat /\ now' = now + 1 /\ UNCHANGED <<issued, written>>
      /\ blacklist' = {e \in blacklist : now' < e.until}
  BY DEF Tick, SharedOK
<1>2. /\ \A t \in issued : t.iat \in Nat
      /\ \A w \in written : w.tok.iat \in Nat
      /\ \A e \in blacklist : e.until \in Nat
  BY DEF SharedOK, Token, Key, Entry
<1>3. TokensPast'
  BY <1>1, <1>2 DEF CacheInv, TokensPast
<1>4. Covered => EntriesOutlive'
  BY <1>1 DEF CacheInv, EntriesOutlive, SameKey
<1>5. ASSUME Covered PROVE EntriesKept'
  <2> SUFFICES ASSUME NEW w \in written, now' < w.tok.iat + AccessTicks
               PROVE  \E e \in blacklist' : SameKey(e, w)
    BY <1>1 DEF EntriesKept, SameKey, Live
  <2>1. PICK e \in blacklist : SameKey(e, w)
    BY <1>1, <1>2, <1>5, BlacklistTimes DEF CacheInv, EntriesKept, Live
  <2>2. now' < e.until
    BY <1>1, <1>2, <1>5, <2>1, BlacklistTimes DEF CacheInv, EntriesOutlive
  <2> QED
    BY <1>1, <2>1, <2>2
<1> QED
  BY <1>3, <1>4, <1>5 DEF CacheInv

(* Signing hands out a token of this second, the rest leaves the cache alone. *)
LEMMA IssueKeeps ==
  ASSUME CacheInv, UNCHANGED <<now, blacklist, written>>, issued \subseteq issued',
         \A tok \in issued' : tok.iat <= now
  PROVE  CacheInv'
PROOF
  BY DEF Covered, CacheInv, TokensPast, EntriesOutlive, EntriesKept, SameKey, Live

LEMMA CacheStep == TypeOK /\ CacheInv /\ [Next]_vars => CacheInv'
PROOF
<1> SUFFICES ASSUME TypeOK, CacheInv, [Next]_vars PROVE CacheInv'
  OBVIOUS
<1>1. SharedOK /\ (\A tok \in issued : tok.iat <= now)
  BY DEF TypeOK, CacheInv, TokensPast
<1>2. ASSUME UNCHANGED <<now, issued, blacklist, written>> PROVE CacheInv'
  BY <1>1, <1>2, IssueKeeps
<1>3. ASSUME NEW r \in Requests, Arrive(r) PROVE CacheInv'
  BY <1>2, <1>3 DEF Arrive, StartLogin, StartRefresh, StartGuarded, StartWithoutToken, Start
<1>4. ASSUME NEW r \in Requests, Sign(r) PROVE CacheInv'
  <2>1. req[r].user \in Users
    BY <1>4 DEF Sign, TypeOK, RequestsOK, RequestOK, Busy
  <2>2. SignedNow(req[r].user).iat <= now
    BY <2>1, SignedNowIsPast DEF TypeOK, SharedOK
  <2> QED
    BY <1>1, <1>4, <2>2, IssueKeeps DEF Sign
<1>5. ASSUME NEW r \in Requests, LoginStep(r) \/ RefreshStep(r) \/ GuardStep(r) \/ Serve(r)
      PROVE  CacheInv'
  BY <1>2, <1>4, <1>5 DEF LoginStep, LoginFind, LoginCompare, RefreshStep, VerifyCookie,
       CookieUser, RefreshUser, VerifyBody, GuardStep, AccessVerify, GuardKeys, GuardGet,
       GuardBlacklisted, GuardActiveUser, RoleGuard, Serve
<1>6. ASSUME NEW r \in Requests, req[r].pc = "set", Store(req[r].tok, req[r].at),
             UNCHANGED <<now, issued>>
      PROVE  CacheInv'
  <2>1. req[r].tok \in issued /\ req[r].at \in Nat
    BY <1>6 DEF TypeOK, RequestsOK, RequestOK, Request, PastGuardPcs
  <2> QED
    BY <1>1, <1>6, <2>1, StoreKeeps
<1>7. ASSUME NEW r \in Requests, LogoutStep(r) PROVE CacheInv'
  BY <1>2, <1>6, <1>7 DEF LogoutStep, LogoutUser, LogoutSet, LogoutReturn
<1>8. ASSUME NEW r \in Requests, BackendFails(r) PROVE CacheInv'
  BY <1>2, <1>6, <1>8 DEF BackendFails
<1>9. CASE Tick
  BY <1>1, <1>9, TickKeeps
<1>10. ASSUME Crash \/ (\E u \in Users : OperatorEdit(u)) \/ UNCHANGED vars PROVE CacheInv'
  BY <1>2, <1>10 DEF Crash, OperatorEdit, vars
<1> QED
  BY <1>3, <1>5, <1>7, <1>8, <1>9, <1>10 DEF Next, Handle

-----------------------------------------------------------------------------
(* The requests *)

(* Grows with the types that make it usable. *)
Later == TypeOK /\ Grows /\ now' \in Nat /\ SharedOK'

LEMMA LiveBefore ==
  ASSUME Later, NEW tok \in issued, now' < tok.iat + AccessTicks
  PROVE  Live(tok)
PROOF
  BY BlacklistTimes DEF Later, Grows, TypeOK, SharedOK, Token, Live

LEMMA ScanFrame ==
  ASSUME Later, NEW r \in Requests, ScanInv(r),
         req'[r] = req[r], seen'[r].revoked = seen[r].revoked
  PROVE  ScanInv(r)'
PROOF
<1>1. ASSUME req[r].pc \in GuardPcs \cup PastGuardPcs, now' < req[r].tok.iat + AccessTicks
      PROVE  Live(req[r].tok)
  BY <1>1, LiveBefore DEF Later, TypeOK, RequestsOK, RequestOK
<1>2. written \subseteq written'
  BY DEF Later, Grows
<1>3. (\A at \in seen[r].revoked : [tok |-> req[r].tok, at |-> at] \in written)
       => (\A at \in seen'[r].revoked : [tok |-> req'[r].tok, at |-> at] \in written')
  BY <1>2
<1>4. \A at : Overwritten(req[r].tok, at) => Overwritten(req[r].tok, at)'
  BY <1>2 DEF Overwritten
<1>5. Live(req[r].tok)' <=> now' < req[r].tok.iat + AccessTicks
  BY DEF Live
<1> QED
  BY <1>1, <1>3, <1>4, <1>5 DEF ScanInv, GuardPcs, PastGuardPcs

(* Requests other than r, in a step that concerns r alone. *)
LEMMA OthersKeep ==
  ASSUME Later, RequestInv, NEW r \in Requests, UNCHANGED <<account, admins>>,
         \A q \in Requests \ {r} : req'[q] = req[q] /\ seen'[q] = seen[q],
         ScanInv(r)' /\ SnapshotInv(r)'
  PROVE  RequestInv'
PROOF
<1>1. \A q \in Requests \ {r} : ScanInv(q)'
  BY ScanFrame DEF RequestInv
<1>2. \A q \in Requests \ {r} : SnapshotInv(q)'
  BY DEF RequestInv, SnapshotInv, Standing, Busy
<1> QED
  BY <1>1, <1>2 DEF RequestInv

LEMMA AnswerKeeps ==
  ASSUME Later, RequestInv, NEW r \in Requests, NEW status, UNCHANGED <<account, admins>>,
         Answer(r, status)
  PROVE  RequestInv'
PROOF
<1>1. /\ req'[r] = Idle(status) /\ seen'[r] = NothingSeen
      /\ \A q \in Requests \ {r} : req'[q] = req[q] /\ seen'[q] = seen[q]
  BY DEF Answer, Later, TypeOK, RequestsOK
<1>2. ScanInv(r)' /\ SnapshotInv(r)'
  BY <1>1 DEF ScanInv, SnapshotInv, Busy, Idle, GuardPcs, PastGuardPcs
<1> QED
  BY <1>1, <1>2, OthersKeep

(* A request that moves on with the same token, having seen the same. *)
LEMMA MoveKeeps ==
  ASSUME Later, RequestInv, NEW r \in Requests, UNCHANGED <<account, admins, seen>>,
         NEW q, req' = [req EXCEPT ![r] = q],
         q.tok = req[r].tok, q.user = req[r].user, Busy(r),
         q.pc \in GuardPcs \cup PastGuardPcs => req[r].pc \in GuardPcs \cup PastGuardPcs,
         Covered /\ q.pc = "get" /\ Live(req[r].tok) /\ ~q.hit =>
           \A at \in seen[r].revoked : at \in q.todo \/ Overwritten(req[r].tok, at),
         Covered /\ q.pc \in {"user"} \cup PastGuardPcs /\ Live(req[r].tok) =>
           \A at \in seen[r].revoked : Overwritten(req[r].tok, at),
         q.pc \in PastGuardPcs =>
           \E s \in seen[r].standings : s[1] = "active" /\ (q.admin => s[2]),
         q.pc = "serve" /\ q.ep = "create" => q.admin
  PROVE  RequestInv'
PROOF
<1>1. /\ req'[r] = q /\ seen' = seen
      /\ \A x \in Requests \ {r} : req'[x] = req[x]
  BY DEF Later, TypeOK, RequestsOK
<1>2. SnapshotInv(r)'
  BY <1>1 DEF RequestInv, SnapshotInv, Standing, Busy
<1>3. ScanInv(r)'
  <2>1. ASSUME q.pc \in GuardPcs \cup PastGuardPcs, now' < req[r].tok.iat + AccessTicks
        PROVE  Live(req[r].tok)
    BY <2>1, LiveBefore DEF Later, TypeOK, RequestsOK, RequestOK
  <2>2. q.pc \in GuardPcs \cup PastGuardPcs =>
          \A at \in seen[r].revoked : [tok |-> req[r].tok, at |-> at] \in written'
    BY DEF RequestInv, ScanInv, Later, Grows
  <2>3. \A at : Overwritten(req[r].tok, at) =>
          \E w \in written' : w.at = at /\ w.tok.user = q.tok.user /\ w.tok # q.tok
    BY DEF Overwritten, Later, Grows
  <2>4. Live(req[r].tok)' <=> now' < req[r].tok.iat + AccessTicks
    BY <1>1 DEF Live
  <2>5. \A at : Overwritten(req[r].tok, at)' <=>
          \E w \in written' : w.at = at /\ w.tok.user = q.tok.user /\ w.tok # q.tok
    BY <1>1 DEF Overwritten
  <2> QED
    BY <1>1, <2>1, <2>2, <2>3, <2>4, <2>5 DEF ScanInv, GuardPcs, PastGuardPcs
<1> QED
  BY <1>1, <1>2, <1>3, OthersKeep

LEMMA GotoKeeps ==
  ASSUME Later, RequestInv, NEW r \in Requests, UNCHANGED <<account, admins>>,
         NEW pc \in Pcs \ {"get", "user"}, Goto(r, pc), Busy(r),
         pc \in GuardPcs \cup PastGuardPcs => req[r].pc \in GuardPcs \cup PastGuardPcs,
         pc \in PastGuardPcs => req[r].pc \in PastGuardPcs,
         pc = "serve" => req[r].admin
  PROVE  RequestInv'
PROOF
<1> DEFINE q == [req[r] EXCEPT !.pc = pc]
<1>1. /\ q.pc = pc /\ q.tok = req[r].tok /\ q.user = req[r].user
      /\ q.admin = req[r].admin /\ q.ep = req[r].ep
  BY DEF Later, TypeOK, RequestsOK, RequestOK, Request
<1>2. req' = [req EXCEPT ![r] = q] /\ UNCHANGED seen
  BY DEF Goto
<1> HIDE DEF q
<1> QED
  BY <1>1, <1>2, MoveKeeps DEF RequestInv, ScanInv, SnapshotInv

LEMMA StartKeeps ==
  ASSUME Later, RequestInv, NEW r \in Requests, NEW ep, NEW u \in Users, NEW tok,
         NEW body, NEW pc \in Pcs \ ({"get", "user"} \cup PastGuardPcs),
         Start(r, ep, u, tok, body, pc)
  PROVE  RequestInv'
PROOF
<1>1. /\ req'[r] = [pc |-> pc, ep |-> ep, user |-> u, tok |-> tok, body |-> body,
                    todo |-> {}, hit |-> FALSE, at |-> 0, admin |-> FALSE, status |-> 0]
      /\ seen'[r] = [standings |-> {Standing(u)},
                     revoked |-> {k.at : k \in {w \in revoked : w.tok = tok}}]
      /\ \A x \in Requests \ {r} : req'[x] = req[x] /\ seen'[x] = seen[x]
      /\ UNCHANGED <<account, admins, written>>
  BY DEF Start, Idle, Later, TypeOK, RequestsOK
<1>2. \A at \in {k.at : k \in {w \in revoked : w.tok = tok}} :
        [tok |-> tok, at |-> at] \in written
  BY DEF Later, TypeOK, SharedOK, Key
<1>3. ScanInv(r)'
  <2>1. req'[r].pc = pc /\ req'[r].tok = tok
    BY <1>1
  <2>2. \A at \in seen'[r].revoked : [tok |-> tok, at |-> at] \in written'
    BY <1>1, <1>2
  <2> QED
    BY <2>1, <2>2 DEF ScanInv
<1>4. SnapshotInv(r)'
  <2>1. req'[r].pc = pc /\ req'[r].user = u /\ seen'[r].standings = {Standing(u)}
    BY <1>1
  <2>2. Standing(u)' = Standing(u)
    BY <1>1 DEF Standing
  <2> QED
    BY <2>1, <2>2 DEF SnapshotInv, Standing, PastGuardPcs
<1> QED
  BY <1>1, <1>3, <1>4, OthersKeep

(* The steps of a handler that go on to a stage with nothing new to show. *)
LEMMA PlainSteps ==
  ASSUME Later, RequestInv, NEW r \in Requests,
         \/ LoginStep(r) \/ RefreshStep(r) \/ AccessVerify(r) \/ RoleGuard(r) \/ Serve(r)
         \/ LogoutSet(r) \/ LogoutReturn(r) \/ BackendFails(r)
  PROVE  RequestInv'
PROOF
<1> USE GotoKeeps, AnswerKeeps DEF Busy, Pcs, LoginPcs, RefreshPcs, GuardPcs, PastGuardPcs
<1>1. CASE LoginFind(r)
  BY <1>1 DEF LoginFind
<1>2. CASE LoginCompare(r)
  BY <1>2 DEF LoginCompare
<1>3. CASE Sign(r)
  BY <1>3 DEF Sign
<1>4. CASE VerifyCookie(r)
  BY <1>4 DEF VerifyCookie
<1>5. CASE CookieUser(r)
  BY <1>5 DEF CookieUser
<1>6. CASE RefreshUser(r)
  BY <1>6 DEF RefreshUser
<1>7. CASE VerifyBody(r)
  BY <1>7 DEF VerifyBody
<1>8. CASE AccessVerify(r)
  BY <1>8 DEF AccessVerify
<1>9. CASE RoleGuard(r)
  BY <1>9 DEF RoleGuard
<1>10. CASE Serve(r)
  BY <1>10 DEF Serve
<1>11. CASE LogoutSet(r)
  BY <1>11 DEF LogoutSet
<1>12. CASE LogoutReturn(r)
  BY <1>12 DEF LogoutReturn
<1>13. CASE BackendFails(r)
  BY <1>13 DEF BackendFails
<1> QED
  BY <1>1, <1>2, <1>3, <1>4, <1>5, <1>6, <1>7, <1>8, <1>9, <1>10, <1>11, <1>12, <1>13
     DEF LoginStep, RefreshStep

(* store.keys: the key of every answered logout of the token is there. *)
LEMMA KeysKeeps ==
  ASSUME Later, CacheInv, RequestInv, NEW r \in Requests, GuardKeys(r)
  PROVE  RequestInv'
PROOF
<1> DEFINE keys == {e.at : e \in {e \in blacklist : e.tok.user = req[r].user}}
           q == [req[r] EXCEPT !.pc = "get", !.todo = keys]
<1>1. req[r] \in Request /\ req[r].pc = "keys" /\ req[r].user = req[r].tok.user
        /\ req[r].tok \in issued
  BY DEF GuardKeys, Later, TypeOK, RequestsOK, RequestOK, GuardPcs
<1>2. req' = [req EXCEPT ![r] = q] /\ UNCHANGED <<account, admins, seen>>
  BY DEF GuardKeys
<1>3. q.pc = "get" /\ q.todo = keys /\ q.tok = req[r].tok /\ q.user = req[r].user
  BY <1>1 DEF Request
<1>4. ASSUME Covered, Live(req[r].tok), NEW at \in seen[r].revoked PROVE at \in keys
  <2>1. [tok |-> req[r].tok, at |-> at] \in written
    BY <1>1 DEF RequestInv, ScanInv, GuardPcs
  <2>2. PICK e \in blacklist : SameKey(e, [tok |-> req[r].tok, at |-> at])
    BY <1>4, <2>1 DEF CacheInv, EntriesKept
  <2> QED
    BY <1>1, <2>2 DEF SameKey
<1> QED
  <2> HIDE DEF q, keys
  <2> QED
    BY <1>1, <1>2, <1>3, <1>4, MoveKeeps DEF Busy, GuardPcs, PastGuardPcs

(* get: an entry that was not taken over holds the token, and is found. *)
LEMMA GetKeeps ==
  ASSUME Later, CacheInv, RequestInv, NEW r \in Requests, GuardGet(r)
  PROVE  RequestInv'
PROOF
<1>1. PICK at \in req[r].todo :
         req' = [req EXCEPT ![r].todo = @ \ {at},
           ![r].hit = @ \/ \E e \in blacklist : e.at = at /\ e.tok = req[r].tok]
  BY DEF GuardGet
<1> DEFINE left == req[r].todo \ {at}
           hit == req[r].hit \/ \E e \in blacklist : e.at = at /\ e.tok = req[r].tok
           q == [req[r] EXCEPT !.todo = left, !.hit = hit]
<1>2. req[r] \in Request /\ req[r].pc = "get"
  BY DEF GuardGet, Later, TypeOK, RequestsOK, RequestOK
<1>3. req' = [req EXCEPT ![r] = q] /\ UNCHANGED <<account, admins, seen>>
  BY <1>1 DEF GuardGet
<1>4. q.pc = "get" /\ q.todo = left /\ q.tok = req[r].tok /\ q.user = req[r].user
        /\ (q.hit <=> hit)
  <2> HIDE DEF left, hit
  <2> QED
    BY <1>2 DEF Request
<1>5. ASSUME Covered, Live(req[r].tok), ~hit, NEW k \in seen[r].revoked
      PROVE  k \in left \/ Overwritten(req[r].tok, k)
  <2>1. k \in req[r].todo \/ Overwritten(req[r].tok, k)
    BY <1>2, <1>5 DEF RequestInv, ScanInv
  <2>2. CASE k = at
    <3>1. [tok |-> req[r].tok, at |-> at] \in written
      BY <1>2, <1>5, <2>2 DEF RequestInv, ScanInv, GuardPcs
    <3>2. PICK e \in blacklist : SameKey(e, [tok |-> req[r].tok, at |-> at])
      BY <1>5, <3>1 DEF CacheInv, EntriesKept
    <3>3. [tok |-> e.tok, at |-> e.at] \in written
      BY DEF CacheInv, TokensPast
    <3>4. e.at = at /\ e.tok.user = req[r].tok.user /\ e.tok # req[r].tok
      BY <1>5, <3>2 DEF SameKey
    <3> QED
      BY <2>2, <3>3, <3>4 DEF Overwritten
  <2>3. CASE k # at
    BY <2>1, <2>3
  <2> QED
    BY <2>2, <2>3
<1> QED
  <2> HIDE DEF q, left, hit
  <2> QED
    BY <1>2, <1>3, <1>4, <1>5, MoveKeeps DEF Busy, GuardPcs, PastGuardPcs

(* includes(token): with no key left and no hit, every one was taken over. *)
LEMMA DecisionKeeps ==
  ASSUME Later, RequestInv, NEW r \in Requests, GuardBlacklisted(r)
  PROVE  RequestInv'
PROOF
<1>1. CASE req[r].hit
  BY <1>1, AnswerKeeps DEF GuardBlacklisted
<1>2. CASE ~req[r].hit
  <2> DEFINE q == [req[r] EXCEPT !.pc = "user"]
  <2>1. req[r] \in Request /\ req[r].pc = "get" /\ req[r].todo = {}
    BY DEF GuardBlacklisted, Later, TypeOK, RequestsOK, RequestOK
  <2>2. req' = [req EXCEPT ![r] = q] /\ UNCHANGED <<account, admins, seen>>
    BY <1>2 DEF GuardBlacklisted, Goto
  <2>3. q.pc = "user" /\ q.tok = req[r].tok /\ q.user = req[r].user
    BY <2>1 DEF Request
  <2>4. Covered /\ Live(req[r].tok) =>
          \A at \in seen[r].revoked : Overwritten(req[r].tok, at)
    BY <1>2, <2>1 DEF RequestInv, ScanInv
  <2> HIDE DEF q
  <2> QED
    BY <2>1, <2>2, <2>3, <2>4, MoveKeeps DEF Busy, GuardPcs, PastGuardPcs
<1> QED
  BY <1>1, <1>2

(* findFirst of the active user: the snapshot is the standing of the moment. *)
LEMMA SnapshotKeeps ==
  ASSUME Later, RequestInv, NEW r \in Requests, GuardActiveUser(r)
  PROVE  RequestInv'
PROOF
<1>1. CASE account[req[r].user] # "active"
  BY <1>1, AnswerKeeps DEF GuardActiveUser
<1>2. CASE account[req[r].user] = "active"
  <2> DEFINE admin == req[r].user \in admins
             q == [req[r] EXCEPT !.pc = AfterGuard(req[r].ep), !.admin = admin]
  <2>1. req[r] \in Request /\ req[r].pc = "user"
    BY DEF GuardActiveUser, Later, TypeOK, RequestsOK, RequestOK
  <2>2. req' = [req EXCEPT ![r] = q] /\ UNCHANGED <<account, admins, seen>>
    BY <1>2 DEF GuardActiveUser
  <2>3. /\ q.pc = AfterGuard(req[r].ep) /\ q.tok = req[r].tok /\ q.user = req[r].user
        /\ (q.admin <=> admin) /\ q.ep = req[r].ep
    <3> HIDE DEF admin
    <3> QED
      BY <2>1 DEF Request
  <2>4. Covered /\ Live(req[r].tok) =>
          \A at \in seen[r].revoked : Overwritten(req[r].tok, at)
    BY <2>1 DEF RequestInv, ScanInv
  <2>5. \E s \in seen[r].standings : s[1] = "active" /\ (q.admin => s[2])
    <3>1. Standing(req[r].user) \in seen[r].standings
      BY <2>1 DEF RequestInv, SnapshotInv, Busy
    <3>2. Standing(req[r].user)[1] = "active" /\ (admin => Standing(req[r].user)[2])
      BY <1>2 DEF Standing
    <3> QED
      <4> HIDE DEF q, admin
      <4> QED
        BY <2>3, <3>1, <3>2
  <2>6. q.pc \in PastGuardPcs /\ ~(q.pc = "serve" /\ q.ep = "create")
    <3> HIDE DEF q
    <3> QED
      BY <2>3 DEF AfterGuard, PastGuardPcs
  <2> HIDE DEF q
  <2> QED
    BY <2>1, <2>2, <2>3, <2>4, <2>5, <2>6, MoveKeeps DEF Busy, GuardPcs, PastGuardPcs
<1> QED
  BY <1>1, <1>2

LEMMA LogoutUserKeeps ==
  ASSUME Later, RequestInv, NEW r \in Requests, LogoutUser(r)
  PROVE  RequestInv'
PROOF
<1>1. CASE account[req[r].user] = "absent"
  BY <1>1, AnswerKeeps DEF LogoutUser
<1>2. CASE account[req[r].user] # "absent"
  <2> DEFINE q == [req[r] EXCEPT !.pc = "set", !.at = now]
  <2>1. req[r] \in Request /\ req[r].pc = "logoutUser"
    BY DEF LogoutUser, Later, TypeOK, RequestsOK, RequestOK
  <2>2. req' = [req EXCEPT ![r] = q] /\ UNCHANGED <<account, admins, seen>>
    BY <1>2 DEF LogoutUser
  <2>3. /\ q.pc = "set" /\ q.tok = req[r].tok /\ q.user = req[r].user
        /\ q.admin = req[r].admin
    BY <2>1 DEF Request
  <2>4. /\ Covered /\ Live(req[r].tok) =>
             \A at \in seen[r].revoked : Overwritten(req[r].tok, at)
        /\ \E s \in seen[r].standings : s[1] = "active" /\ (req[r].admin => s[2])
    BY <2>1 DEF RequestInv, ScanInv, SnapshotInv, PastGuardPcs
  <2> HIDE DEF q
  <2> QED
    BY <2>1, <2>2, <2>3, <2>4, MoveKeeps DEF Busy, GuardPcs, PastGuardPcs
<1> QED
  BY <1>1, <1>2

LEMMA EditKeeps ==
  ASSUME Later, RequestInv, NEW u \in Users, OperatorEdit(u)
  PROVE  RequestInv'
PROOF
<1>1. PICK status \in Statuses, admin \in BOOLEAN :
        /\ account' = [account EXCEPT ![u] = status]
        /\ admins' = IF admin THEN admins \cup {u} ELSE admins \ {u}
        /\ seen' = [r \in Requests |->
             IF Busy(r) /\ req[r].user = u
               THEN [seen[r] EXCEPT !.standings = @ \cup {<<status, admin>>}]
               ELSE seen[r]]
  BY DEF OperatorEdit
<1>2. req' = req
  BY DEF OperatorEdit
<1>3. \A r \in Requests : seen[r] \in Sight /\ (Busy(r) => req[r].user \in Users)
  BY DEF Later, TypeOK, RequestsOK, RequestOK
<1>4. \A r \in Requests : /\ seen'[r].revoked = seen[r].revoked
                          /\ seen[r].standings \subseteq seen'[r].standings
                          /\ Busy(r) /\ req[r].user = u => <<status, admin>> \in seen'[r].standings
  BY <1>1, <1>3 DEF Sight
<1>5. <<account'[u], u \in admins'>> = <<status, admin>>
  <2>1. account'[u] = status
    BY <1>1 DEF Later, TypeOK, SharedOK
  <2>2. (u \in admins') = admin
    BY <1>1
  <2> QED
    BY <2>1, <2>2, Zenon
<1>6. \A x \in Users \ {u} : <<account'[x], x \in admins'>> = Standing(x)
  <2> SUFFICES ASSUME NEW x \in Users \ {u} PROVE <<account'[x], x \in admins'>> = Standing(x)
    OBVIOUS
  <2>1. account'[x] = account[x]
    BY <1>1 DEF Later, TypeOK, SharedOK
  <2>2. (x \in admins') = (x \in admins)
    BY <1>1
  <2> QED
    BY <2>1, <2>2, Zenon DEF Standing
<1>7. \A r \in Requests : ScanInv(r)'
  BY <1>2, <1>4, ScanFrame DEF RequestInv
<1>8. \A r \in Requests : SnapshotInv(r)'
  <2> SUFFICES ASSUME NEW r \in Requests PROVE SnapshotInv(r)'
    OBVIOUS
  <2>1. SnapshotInv(r)
    BY DEF RequestInv
  <2>2. Busy(r) => <<account'[req[r].user], req[r].user \in admins'>> \in seen'[r].standings
    <3>1. CASE req[r].user = u
      BY <1>4, <1>5, <3>1
    <3>2. CASE req[r].user # u
      BY <1>3, <1>4, <1>6, <2>1, <3>2 DEF SnapshotInv
    <3> QED
      BY <3>1, <3>2
  <2> QED
    BY <1>2, <1>4, <2>1, <2>2 DEF SnapshotInv, Standing, Busy
<1> QED
  BY <1>7, <1>8 DEF RequestInv

LEMMA RequestStep ==
  TypeOK /\ TypeOK' /\ CacheInv /\ RequestInv /\ [Next]_vars => RequestInv'
PROOF
<1> SUFFICES ASSUME TypeOK, TypeOK', CacheInv, RequestInv, [Next]_vars
             PROVE  RequestInv'
  OBVIOUS
<1>1. Later
  BY StepGrows DEF Later, TypeOK, SharedOK
<1>2. ASSUME NEW r \in Requests, Arrive(r) PROVE RequestInv'
  <2> USE DEF Pcs, LoginPcs, RefreshPcs, GuardPcs, PastGuardPcs
  <2>1. CASE StartLogin(r)
    BY <1>1, <2>1, StartKeeps DEF StartLogin
  <2>2. CASE StartRefresh(r)
    <3>1. PICK cookie \in cookies, body \in issued :
             Start(r, "refresh", cookie.user, cookie, body, "cookie")
      BY <2>2 DEF StartRefresh
    <3>2. cookie.user \in Users
      BY DEF TypeOK, SharedOK, Token
    <3> QED
      BY <1>1, <3>1, <3>2, StartKeeps
  <2>3. CASE StartGuarded(r)
    <3>1. PICK ep \in {"me", "create", "logout"}, tok \in issued :
             Start(r, ep, tok.user, tok, NoToken, "verify")
      BY <2>3 DEF StartGuarded
    <3>2. tok.user \in Users
      BY DEF TypeOK, SharedOK, Token
    <3> QED
      BY <1>1, <3>1, <3>2, StartKeeps
  <2>4. CASE \E ep \in Endpoints : StartWithoutToken(r, ep)
    BY <1>1, <2>4, AnswerKeeps DEF StartWithoutToken
  <2> QED
    BY <1>2, <2>1, <2>2, <2>3, <2>4 DEF Arrive
<1>3. ASSUME NEW r \in Requests, Handle(r) \/ BackendFails(r) PROVE RequestInv'
  BY <1>1, <1>3, PlainSteps, KeysKeeps, GetKeeps, DecisionKeeps, SnapshotKeeps,
     LogoutUserKeeps DEF Handle, GuardStep, LogoutStep
<1>4. CASE Crash
  BY <1>1, <1>4 DEF Crash, RequestInv, ScanInv, SnapshotInv, Busy, Idle,
       GuardPcs, PastGuardPcs, TypeOK, RequestsOK
<1>5. CASE Tick
  <2>1. UNCHANGED <<req, seen, account, admins>>
    BY <1>5 DEF Tick
  <2> QED
    BY <1>1, <2>1, ScanFrame DEF RequestInv, SnapshotInv, Standing, Busy
<1>6. CASE UNCHANGED vars
  <2>1. UNCHANGED <<req, seen, account, admins>>
    BY <1>6 DEF vars
  <2> QED
    BY <1>1, <2>1, ScanFrame DEF RequestInv, SnapshotInv, Standing, Busy
<1>7. ASSUME NEW u \in Users, OperatorEdit(u) PROVE RequestInv'
  BY <1>1, <1>7, EditKeeps
<1> QED
  BY <1>2, <1>3, <1>4, <1>5, <1>6, <1>7 DEF Next

-----------------------------------------------------------------------------
(* The theorems *)

LEMMA Invariance == Spec => []IInv
PROOF
<1>1. Init => IInv
  <2> SUFFICES ASSUME Init PROVE IInv
    OBVIOUS
  <2>1. CacheInv
    BY DEF Init, CacheInv, TokensPast, EntriesOutlive, EntriesKept
  <2>2. RequestInv
    BY DEF Init, RequestInv, ScanInv, SnapshotInv, Busy, Idle, GuardPcs, PastGuardPcs
  <2> QED
    BY <2>1, <2>2, TypeInit DEF IInv
<1>2. IInv /\ [Next]_vars => IInv'
  BY TypeStep, CacheStep, RequestStep DEF IInv
<1> QED
  BY <1>1, <1>2, PTL DEF Spec

(* The blacklist outlives every token on it: AuthService.logout stores the    *)
(* token with a ttl from convertToSeconds, signAsync ends it by its own       *)
(* reading of the same lifetime, whose unit has to be one that both know.     *)
THEOREM LogoutKept ==
  ASSUME AccessExpiresIn.unit \in CoveredUnits
  PROVE  Spec => []LogoutKeptUntilExpiry
PROOF
<1>1. IInv => LogoutKeptUntilExpiry
  <2> SUFFICES ASSUME IInv, NEW w \in written, Live(w.tok)
               PROVE  \E e \in blacklist : /\ e.at = w.at /\ e.tok.user = w.tok.user
                                           /\ Overwritten(w.tok, w.at) \/ (e.tok = w.tok)
    BY DEF LogoutKeptUntilExpiry
  <2>1. PICK e \in blacklist : SameKey(e, w)
    BY DEF Covered, IInv, CacheInv, EntriesKept
  <2>2. [tok |-> e.tok, at |-> e.at] \in written
    BY DEF IInv, CacheInv, TokensPast
  <2>3. CASE e.tok = w.tok
    BY <2>1, <2>3 DEF SameKey
  <2>4. CASE e.tok # w.tok
    BY <2>1, <2>2, <2>4 DEF SameKey, Overwritten
  <2> QED
    BY <2>3, <2>4
<1> QED
  BY <1>1, Invariance, PTL

(* AccessTokenGuard passes no request whose token was logged out before it   *)
(* came in, for any number of requests and any interleaving of their reads   *)
(* of the cache with the logouts, the clock and failures, with an access     *)
(* lifetime in a unit that convertToSeconds knows.                           *)
THEOREM RevokedNotServed ==
  ASSUME AccessExpiresIn.unit \in CoveredUnits
  PROVE  Spec => []RevokedNeverServed
PROOF
<1>1. IInv => RevokedNeverServed
  BY DEF Covered, IInv, RequestInv, ScanInv, RevokedNeverServed
<1> QED
  BY <1>1, Invariance, PTL

(* What AccessTokenGuard and RoleGuard let pass had the standing they ask for *)
(* at one moment of the request, however accounts are edited meanwhile.       *)
THEOREM AdmittedRightly == Spec => []AdmittedAsSeen
PROOF
<1>1. IInv => AdmittedAsSeen
  BY DEF IInv, RequestInv, SnapshotInv, AdmittedAsSeen
<1> QED
  BY <1>1, Invariance, PTL
=============================================================================
