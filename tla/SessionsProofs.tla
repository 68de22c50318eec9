--------------------------- MODULE SessionsProofs ---------------------------
(***************************************************************************)
(* Proofs about Sessions, for all users, requests, lifetimes and bounds.   *)
(***************************************************************************)
EXTENDS Sessions, TLAPS

(* Both readings of a lifetime are numbers of ticks. *)
LEMMA TicksCounted ==
  ASSUME NEW life \in Lifetime
  PROVE  JwtTicks(life) \in Nat /\ ConvertToSeconds(life) \in Nat
PROOF
<1>1. life.value \in Nat /\ TicksPerSecond \in Nat
  BY TicksPerSecondAssumption DEF Lifetime
<1>2. JwtUnitSeconds(life.unit) \in Nat /\ UnitSeconds(LastLetter(life.unit)) \in Nat
  BY DEF JwtUnitSeconds, UnitSeconds
<1>3. \A a, b \in Nat : a * b \in Nat
  OBVIOUS
<1>4. life.value \div 1000 \in Nat
  BY <1>1
<1>5. JwtSeconds(life) \in Nat
  BY <1>1, <1>2, <1>3, <1>4 DEF JwtSeconds
<1> QED
  BY <1>1, <1>2, <1>3, <1>5 DEF JwtTicks, ConvertToSeconds

(* In a covered unit, an entry is kept for at least as long as its token. *)
LEMMA CoveredKept ==
  ASSUME NEW life \in Lifetime, life.unit \in CoveredUnits
  PROVE  /\ JwtTicks(life) \in Nat /\ ConvertToSeconds(life) \in Nat
         /\ JwtTicks(life) <= ConvertToSeconds(life)
PROOF
<1> DEFINE v == life.value
           unit == life.unit
           t == TicksPerSecond
<1>1. v \in Nat /\ unit \in CoveredUnits /\ t \in Nat /\ t > 0
  BY TicksPerSecondAssumption DEF Lifetime
<1>2. /\ JwtSeconds(life) \in Nat
      /\ v * UnitSeconds(LastLetter(unit)) \in Nat
      /\ JwtSeconds(life) <= v * UnitSeconds(LastLetter(unit))
  <2>1. CASE unit \in {"", "ms"}
    <3>1. v \div 1000 \in Nat /\ v \div 1000 <= v
      BY <1>1
    <3>2. UnitSeconds(LastLetter(unit)) = 1
      BY <2>1 DEF UnitSeconds, LastLetter
    <3>3. JwtSeconds(life) = v \div 1000
      BY <2>1 DEF JwtSeconds
    <3> QED
      BY <1>1, <3>1, <3>2, <3>3
  <2>2. CASE unit \notin {"", "ms"}
    <3>1. /\ JwtUnitSeconds(unit) \in Nat /\ UnitSeconds(LastLetter(unit)) \in Nat
          /\ JwtUnitSeconds(unit) <= UnitSeconds(LastLetter(unit))
      <4>1. CASE unit = "s"
        BY <4>1 DEF UnitSeconds, JwtUnitSeconds, LastLetter
      <4>2. CASE unit = "m"
        BY <4>2 DEF UnitSeconds, JwtUnitSeconds, LastLetter
      <4>3. CASE unit = "h"
        BY <4>3 DEF UnitSeconds, JwtUnitSeconds, LastLetter
      <4>4. CASE unit = "d"
        BY <4>4 DEF UnitSeconds, JwtUnitSeconds, LastLetter
      <4>5. CASE unit = "w"
        BY <4>5 DEF UnitSeconds, JwtUnitSeconds, LastLetter
      <4>6. CASE unit = "M"
        BY <4>6 DEF UnitSeconds, JwtUnitSeconds, LastLetter
      <4> QED
        BY <1>1, <2>2, <4>1, <4>2, <4>3, <4>4, <4>5, <4>6 DEF CoveredUnits, Units
    <3>2. \A a, b, c \in Nat : a <= b => c * a \in Nat /\ c * b \in Nat /\ c * a <= c * b
      OBVIOUS
    <3>3. JwtSeconds(life) = v * JwtUnitSeconds(unit)
      BY <2>2 DEF JwtSeconds
    <3> QED
      BY <1>1, <3>1, <3>2, <3>3
  <2> QED
    BY <2>1, <2>2
<1>3. \A a, b, c \in Nat : a <= b => a * c \in Nat /\ b * c \in Nat /\ a * c <= b * c
  OBVIOUS
<1> QED
  BY <1>1, <1>2, <1>3 DEF JwtTicks, ConvertToSeconds

(* In the other units it is not: a second is missing at the least. *)
LEMMA UncoveredNotKept ==
  ASSUME NEW life \in Lifetime, life.unit \notin CoveredUnits, life.value > 0
  PROVE  ConvertToSeconds(life) + TicksPerSecond <= JwtTicks(life)
PROOF
<1> DEFINE v == life.value
           t == TicksPerSecond
<1>1. v \in Nat /\ v > 0 /\ t \in Nat /\ t > 0 /\ life.unit \in {"minutes", "H", "y"}
  <2>1. life.value \in Nat /\ life.unit \in Units
    BY DEF Lifetime
  <2>2. Units \ CoveredUnits = {"minutes", "H", "y"}
    BY DEF Units, CoveredUnits
  <2> QED
    BY <2>1, <2>2, TicksPerSecondAssumption
<1>2. ConvertToSeconds(life) = v * t
  <2>1. UnitSeconds(LastLetter(life.unit)) = 1
    BY <1>1 DEF UnitSeconds, LastLetter
  <2> QED
    BY <1>1, <2>1 DEF ConvertToSeconds
<1>3. PICK n \in Nat : n > 1 /\ JwtTicks(life) = v * n * t
  <2>1. JwtUnitSeconds(life.unit) \in Nat /\ JwtUnitSeconds(life.unit) > 1
    BY <1>1 DEF JwtUnitSeconds
  <2>2. JwtTicks(life) = v * JwtUnitSeconds(life.unit) * t
    BY <1>1 DEF JwtTicks, JwtSeconds
  <2> QED
    BY <2>1, <2>2
<1>4. \A a, b \in Nat : a > 0 /\ b > 1 => a * b \in Nat /\ a * b >= a + 1
  OBVIOUS
<1>5. v * n \in Nat /\ v * n >= v + 1
  BY <1>1, <1>3, <1>4
<1>6. \A a, b, c \in Nat : a >= b + 1 => a * c >= (b + 1) * c
  OBVIOUS
<1>7. (v + 1) * t = v * t + t /\ v * t \in Nat /\ v * n * t \in Nat
  BY <1>1, <1>5
<1> QED
  BY <1>1, <1>2, <1>3, <1>5, <1>6, <1>7

(* Which lifetimes an operator may configure: those for which logout's ttl    *)
(* covers the token are those of CoveredUnits, whatever the number.           *)
THEOREM LifetimesCovered == \A life \in Lifetime : CoveredExactly(life)
<1> SUFFICES ASSUME NEW life \in Lifetime, life.value > 0
             PROVE  ConvertToSeconds(life) >= JwtTicks(life) <=> life.unit \in CoveredUnits
  BY DEF CoveredExactly
<1>1. CASE life.unit \in CoveredUnits
  BY <1>1, CoveredKept
<1>2. CASE life.unit \notin CoveredUnits
  BY <1>2, TicksCounted, UncoveredNotKept, TicksPerSecondAssumption
<1> QED
  BY <1>1, <1>2

(* The times of the configured lifetime; a logout stores the token for long  *)
(* enough if its unit is covered.                                            *)
LEMMA BlacklistTimes ==
  /\ AccessTicks \in Nat /\ BlacklistTicks \in Nat
  /\ AccessExpiresIn.unit \in CoveredUnits => AccessTicks <= BlacklistTicks
PROOF
<1>1. AccessExpiresIn \in Lifetime
  BY LifetimesAssumption
<1>2. AccessTicks \in Nat /\ BlacklistTicks \in Nat
  BY <1>1, TicksCounted DEF AccessTicks, BlacklistTicks
<1>3. ASSUME AccessExpiresIn.unit \in CoveredUnits PROVE AccessTicks <= BlacklistTicks
  BY <1>1, <1>3, CoveredKept DEF AccessTicks, BlacklistTicks
<1> QED
  BY <1>2, <1>3

(* The iat of a token signed now is a second that has begun. *)
LEMMA SignedNowIsPast ==
  ASSUME now \in Nat, NEW u \in Users
  PROVE  /\ SignedNow(u) \in Token /\ SignedNow(u).user = u
         /\ SignedNow(u).iat <= now /\ now - SignedNow(u).iat < TicksPerSecond
PROOF
<1>1. /\ now % TicksPerSecond \in Nat /\ now % TicksPerSecond <= now
      /\ now % TicksPerSecond < TicksPerSecond
  BY TicksPerSecondAssumption
<1> QED
  BY <1>1 DEF SignedNow, Token

-----------------------------------------------------------------------------
(* Types *)

USE DEF tokenVars, cacheVars, accountVars, counters, shared

(* A request that is answered, or dropped, is well typed. *)
LEMMA IdleOK ==
  ASSUME NEW status \in HttpStatuses
  PROVE  Idle(status) \in Request
PROOF BY DEF Idle, Request, Pcs

LEMMA StandingOK ==
  ASSUME SharedOK, NEW u \in Users
  PROVE  Standing(u) \in Standings
PROOF
<1>1. account[u] \in Statuses
  BY DEF SharedOK
<1>2. (u \in admins) \in BOOLEAN
  OBVIOUS
<1>3. \A a \in Statuses, b \in BOOLEAN : <<a, b>> \in Statuses \X BOOLEAN
  OBVIOUS
<1> QED
  BY <1>1, <1>2, <1>3, Zenon DEF Standing, Standings

LEMMA AnswerOK ==
  ASSUME RequestsOK, issued \subseteq issued', written \subseteq written',
         NEW r \in Requests, NEW status \in HttpStatuses, Answer(r, status)
  PROVE  RequestsOK'
PROOF
<1>1. /\ DOMAIN req' = Requests /\ DOMAIN seen' = Requests
      /\ req'[r] = Idle(status) /\ seen'[r] = NothingSeen
      /\ \A q \in Requests \ {r} : req'[q] = req[q] /\ seen'[q] = seen[q]
  BY DEF Answer, RequestsOK
<1>2. RequestOK(r)'
  BY <1>1, IdleOK DEF RequestOK, Busy, Idle, NothingSeen, Sight,
       RefreshPcs, GuardPcs, PastGuardPcs
<1>3. \A q \in Requests \ {r} : RequestOK(q)'
  BY <1>1 DEF RequestsOK, RequestOK, Busy
<1> QED
  BY <1>1, <1>2, <1>3 DEF RequestsOK

LEMMA GotoOK ==
  ASSUME RequestsOK, issued \subseteq issued', written \subseteq written',
         NEW r \in Requests, NEW pc \in Pcs, Goto(r, pc), Busy(r),
         pc \in RefreshPcs => req[r].pc \in RefreshPcs,
         pc \in GuardPcs \cup PastGuardPcs =>
           req[r].pc \in RefreshPcs \cup GuardPcs \cup PastGuardPcs,
         pc = "return" => [tok |-> req[r].tok, at |-> req[r].at] \in written'
  PROVE  RequestsOK'
PROOF
<1>1. /\ DOMAIN req' = Requests /\ seen' = seen
      /\ req'[r] = [req[r] EXCEPT !.pc = pc]
      /\ \A q \in Requests \ {r} : req'[q] = req[q]
  BY DEF Goto, RequestsOK
<1>2. RequestOK(r)'
  <2>1. req'[r] \in Request
    BY <1>1 DEF RequestsOK, RequestOK, Request
  <2> QED
    BY <1>1, <2>1 DEF RequestsOK, RequestOK, Busy, Request
<1>3. \A q \in Requests \ {r} : RequestOK(q)'
  BY <1>1 DEF RequestsOK, RequestOK, Busy
<1> QED
  BY <1>1, <1>2, <1>3 DEF RequestsOK

LEMMA StartOK ==
  ASSUME TypeOK, NEW r \in Requests, NEW ep \in AllEndpoints, NEW u \in Users,
         NEW tok \in Token \cup {NoToken}, NEW body \in Token \cup {NoToken},
         NEW pc \in Pcs \ {"return"}, Start(r, ep, u, tok, body, pc),
         pc \in RefreshPcs \cup GuardPcs \cup PastGuardPcs => tok \in issued /\ u = tok.user,
         pc \in RefreshPcs => body \in issued
  PROVE  TypeOK'
PROOF
<1>1. /\ DOMAIN req' = Requests /\ DOMAIN seen' = Requests
      /\ req'[r] = [Idle(0) EXCEPT !.pc = pc, !.ep = ep, !.user = u, !.tok = tok, !.body = body]
      /\ \A q \in Requests \ {r} : req'[q] = req[q] /\ seen'[q] = seen[q]
  BY DEF Start, TypeOK, RequestsOK
<1>2. SharedOK'
  BY DEF Start, TypeOK, SharedOK
<1>3. RequestOK(r)'
  <2>1. req'[r] \in Request /\ req'[r].pc = pc /\ req'[r].user = u /\ req'[r].tok = tok
          /\ req'[r].body = body
    <3>1. req'[r] = [pc |-> pc, ep |-> ep, user |-> u, tok |-> tok, body |-> body,
                     todo |-> {}, hit |-> FALSE, at |-> 0, admin |-> FALSE, status |-> 0]
      BY <1>1 DEF Idle
    <3> QED
      BY <3>1 DEF Request, HttpStatuses
  <2>2. seen'[r] \in Sight
    <3>1. seen'[r] = [standings |-> {Standing(u)},
                      revoked |-> {k.at : k \in {w \in revoked : w.tok = tok}}]
      BY DEF Start, TypeOK, RequestsOK
    <3>2. Standing(u) \in Standings
      BY StandingOK DEF TypeOK
    <3>3. {k.at : k \in {w \in revoked : w.tok = tok}} \subseteq Nat
      BY DEF TypeOK, SharedOK, Key
    <3> QED
      BY <3>1, <3>2, <3>3 DEF Sight
  <2>3. issued' = issued /\ written' = written
    BY DEF Start
  <2> QED
    BY <2>1, <2>2, <2>3 DEF RequestOK, Busy
<1>4. \A q \in Requests \ {r} : RequestOK(q)'
  BY <1>1 DEF Start, TypeOK, RequestsOK, RequestOK, Busy
<1> QED
  BY <1>1, <1>2, <1>3, <1>4 DEF TypeOK, RequestsOK

(* The actions that read shared state but do not change it, and either go on *)
(* to a stage of the same part of the handler or answer.                     *)
Handover(r) ==
  \/ \E pc \in Pcs \ {"return"} :
                     /\ Goto(r, pc) /\ Busy(r)
                     /\ pc \in RefreshPcs => req[r].pc \in RefreshPcs
                     /\ pc \in GuardPcs \cup PastGuardPcs =>
                          req[r].pc \in RefreshPcs \cup GuardPcs \cup PastGuardPcs
  \/ \E status \in HttpStatuses : Answer(r, status)

LEMMA HandoverOK ==
  ASSUME TypeOK, NEW r \in Requests, Handover(r), UNCHANGED shared
  PROVE  TypeOK'
PROOF
<1>1. SharedOK' /\ issued \subseteq issued' /\ written \subseteq written'
  BY DEF TypeOK, SharedOK
<1>2. RequestsOK'
  BY <1>1, GotoOK, AnswerOK DEF TypeOK, Handover
<1> QED
  BY <1>1, <1>2 DEF TypeOK

LEMMA Handovers ==
  ASSUME NEW r \in Requests,
         \/ LoginFind(r) \/ LoginCompare(r) \/ VerifyCookie(r) \/ CookieUser(r)
         \/ RefreshUser(r) \/ VerifyBody(r) \/ AccessVerify(r)
         \/ GuardBlacklisted(r) \/ RoleGuard(r) \/ Serve(r)
  PROVE  Handover(r) /\ UNCHANGED shared
PROOF
<1> USE DEF Handover, Busy, Pcs, LoginPcs, RefreshPcs, GuardPcs, PastGuardPcs, HttpStatuses
<1>1. Forbidden(req[r].ep) \in HttpStatuses
  BY DEF Forbidden
<1>2. CASE LoginFind(r)
  BY <1>2 DEF LoginFind
<1>3. CASE LoginCompare(r)
  BY <1>3 DEF LoginCompare
<1>4. CASE VerifyCookie(r)
  BY <1>4 DEF VerifyCookie
<1>5. CASE CookieUser(r)
  BY <1>5 DEF CookieUser
<1>6. CASE RefreshUser(r)
  BY <1>6 DEF RefreshUser
<1>7. CASE VerifyBody(r)
  BY <1>7 DEF VerifyBody
<1>8. CASE AccessVerify(r)
  BY <1>1, <1>8 DEF AccessVerify
<1>9. CASE GuardBlacklisted(r)
  BY <1>1, <1>9 DEF GuardBlacklisted
<1>10. CASE RoleGuard(r)
  BY <1>1, <1>10 DEF RoleGuard
<1>11. CASE Serve(r)
  BY <1>11 DEF Serve
<1> QED
  BY <1>2, <1>3, <1>4, <1>5, <1>6, <1>7, <1>8, <1>9, <1>10, <1>11

LEMMA RequestFields ==
  ASSUME NEW q \in Request
  PROVE  /\ \A pc \in Pcs, todo \in SUBSET Nat : [q EXCEPT !.pc = pc, !.todo = todo] \in Request
         /\ \A todo \in SUBSET Nat, hit \in BOOLEAN :
              [q EXCEPT !.todo = todo, !.hit = hit] \in Request
         /\ \A pc \in Pcs, admin \in BOOLEAN : [q EXCEPT !.pc = pc, !.admin = admin] \in Request
         /\ \A pc \in Pcs, at \in Nat : [q EXCEPT !.pc = pc, !.at = at] \in Request
PROOF
<1>1. \A pc \in Pcs, todo \in SUBSET Nat : [q EXCEPT !.pc = pc, !.todo = todo] \in Request
  BY DEF Request
<1>2. \A todo \in SUBSET Nat, hit \in BOOLEAN :
        [q EXCEPT !.todo = todo, !.hit = hit] \in Request
  BY DEF Request
<1>3. \A pc \in Pcs, admin \in BOOLEAN : [q EXCEPT !.pc = pc, !.admin = admin] \in Request
  BY DEF Request
<1>4. \A pc \in Pcs, at \in Nat : [q EXCEPT !.pc = pc, !.at = at] \in Request
  BY DEF Request
<1> QED
  BY <1>1, <1>2, <1>3, <1>4

(* A step of one request that keeps its token and leaves the rest as it is. *)
LEMMA UpdateOK ==
  ASSUME TypeOK, NEW r \in Requests, UNCHANGED <<shared, seen>>,
         NEW q \in Request, req' = [req EXCEPT ![r] = q], Busy(r),
         q.user = req[r].user, q.tok = req[r].tok,
         req[r].pc \in GuardPcs \cup PastGuardPcs,
         q.pc \notin RefreshPcs \cup {"return"}
  PROVE  TypeOK'
PROOF
<1>1. SharedOK'
  BY DEF TypeOK, SharedOK
<1>2. /\ DOMAIN req' = Requests /\ req'[r] = q
      /\ \A x \in Requests \ {r} : req'[x] = req[x]
  BY DEF TypeOK, RequestsOK
<1>3. \A x \in Requests : RequestOK(x)'
  BY <1>2 DEF TypeOK, RequestsOK, RequestOK, Busy
<1> QED
  BY <1>1, <1>2, <1>3 DEF TypeOK, RequestsOK

LEMMA StoreOK ==
  ASSUME SharedOK, NEW tok \in issued, NEW at \in Nat, Store(tok, at),
         UNCHANGED <<now, account, admins, tokenVars>>, failures' \in Nat, arrivals' \in Nat, edits' \in Nat
  PROVE  SharedOK'
PROOF
<1>1. [tok |-> tok, at |-> at, until |-> now + BlacklistTicks] \in Entry
  BY BlacklistTimes DEF SharedOK, Entry
<1>2. [tok |-> tok, at |-> at] \in Key
  BY DEF SharedOK, Key
<1> QED
  BY <1>1, <1>2 DEF SharedOK, Store

(* What a logout is about to store. *)
LEMMA EntryOK ==
  ASSUME TypeOK, NEW r \in Requests, req[r].pc = "set"
  PROVE  req[r].tok \in issued /\ req[r].at \in Nat
PROOF
<1>1. RequestOK(r)
  BY DEF TypeOK, RequestsOK
<1>2. req[r].tok \in issued
  BY <1>1 DEF RequestOK, PastGuardPcs
<1>3. req[r] \in Request
  BY <1>1 DEF RequestOK
<1>4. req[r].at \in Nat
  BY <1>3 DEF Request
<1> QED
  BY <1>2, <1>4

LEMMA TypeStep == TypeOK /\ [Next]_vars => TypeOK'
PROOF
<1> SUFFICES ASSUME TypeOK, [Next]_vars PROVE TypeOK'
  OBVIOUS
<1> USE DEF HttpStatuses
<1>1. ASSUME NEW r \in Requests, StartLogin(r) PROVE TypeOK'
  <2>1. PICK u \in Users : Start(r, "login", u, NoToken, NoToken, "find")
    BY <1>1 DEF StartLogin
  <2> QED
    BY <2>1, StartOK DEF AllEndpoints, Pcs, LoginPcs, RefreshPcs, GuardPcs, PastGuardPcs
<1>2. ASSUME NEW r \in Requests, StartRefresh(r) PROVE TypeOK'
  <2>1. PICK cookie \in cookies, body \in issued :
           Start(r, "refresh", cookie.user, cookie, body, "cookie")
    BY <1>2 DEF StartRefresh
  <2>2. cookie \in issued /\ cookie \in Token /\ body \in Token
    BY DEF TypeOK, SharedOK
  <2>3. cookie.user \in Users
    BY <2>2 DEF Token
  <2> QED
    BY <2>1, <2>2, <2>3, StartOK DEF AllEndpoints, Pcs, RefreshPcs
<1>3. ASSUME NEW r \in Requests, StartGuarded(r) PROVE TypeOK'
  <2>1. PICK ep \in {"me", "create", "logout"}, tok \in issued :
           Start(r, ep, tok.user, tok, NoToken, "verify")
    BY <1>3 DEF StartGuarded
  <2>2. tok \in Token /\ tok.user \in Users
    BY DEF TypeOK, SharedOK, Token
  <2> QED
    BY <2>1, <2>2, StartOK DEF AllEndpoints, Pcs, GuardPcs, RefreshPcs
<1>4. ASSUME NEW r \in Requests, NEW ep \in Endpoints, StartWithoutToken(r, ep)
      PROVE  TypeOK'
  BY <1>4, HandoverOK DEF StartWithoutToken, Handover
<1>5. ASSUME NEW r \in Requests, Sign(r) PROVE TypeOK'
  <2>1. req[r].user \in Users
    BY <1>5 DEF Sign, TypeOK, RequestsOK, RequestOK, Busy
  <2>2. SignedNow(req[r].user) \in Token
    BY <2>1, SignedNowIsPast DEF TypeOK, SharedOK
  <2>3. SharedOK' /\ issued \subseteq issued' /\ written \subseteq written'
    BY <1>5, <2>2 DEF Sign, TypeOK, SharedOK
  <2>4. RequestsOK'
    BY <1>5, <2>3, AnswerOK DEF Sign, TypeOK
  <2> QED
    BY <2>3, <2>4 DEF TypeOK
<1>6. ASSUME NEW r \in Requests, GuardKeys(r) PROVE TypeOK'
  <2> DEFINE keys == {e.at : e \in {e \in blacklist : e.tok.user = req[r].user}}
             q == [req[r] EXCEPT !.pc = "get", !.todo = keys]
  <2>1. keys \subseteq Nat
    BY DEF TypeOK, SharedOK, Entry
  <2>2. req[r] \in Request /\ req[r].pc = "keys"
    BY <1>6 DEF GuardKeys, TypeOK, RequestsOK, RequestOK
  <2>3. q \in Request /\ q.pc = "get" /\ q.user = req[r].user /\ q.tok = req[r].tok
    <3> HIDE DEF keys
    <3>1. "get" \in Pcs
      BY DEF Pcs, GuardPcs
    <3>2. q \in Request
      BY <2>1, <2>2, <3>1, RequestFields
    <3> QED
      BY <2>2, <3>2 DEF Request
  <2>4. req' = [req EXCEPT ![r] = q] /\ UNCHANGED <<shared, seen>>
    BY <1>6 DEF GuardKeys
  <2> QED
    <3> HIDE DEF q
    <3> QED
      BY <2>2, <2>3, <2>4, UpdateOK DEF Busy, GuardPcs, RefreshPcs
<1>7. ASSUME NEW r \in Requests, GuardGet(r) PROVE TypeOK'
  <2>1. PICK at \in req[r].todo :
           req' = [req EXCEPT ![r].todo = @ \ {at},
             ![r].hit = @ \/ \E e \in blacklist : e.at = at /\ e.tok = req[r].tok]
    BY <1>7 DEF GuardGet
  <2> DEFINE left == req[r].todo \ {at}
             hit == req[r].hit \/ \E e \in blacklist : e.at = at /\ e.tok = req[r].tok
             q == [req[r] EXCEPT !.todo = left, !.hit = hit]
  <2>2. req[r] \in Request /\ req[r].pc = "get"
    BY <1>7 DEF GuardGet, TypeOK, RequestsOK, RequestOK
  <2>3. left \subseteq Nat
    BY <2>2 DEF Request
  <2>4. hit \in BOOLEAN
    OBVIOUS
  <2>5. q \in Request /\ q.pc = "get" /\ q.user = req[r].user /\ q.tok = req[r].tok
    <3> HIDE DEF left, hit
    <3>1. q \in Request
      BY <2>2, <2>3, <2>4, RequestFields
    <3> QED
      BY <2>2, <3>1 DEF Request
  <2>6. req' = [req EXCEPT ![r] = q] /\ UNCHANGED <<shared, seen>>
    BY <1>7, <2>1 DEF GuardGet
  <2> QED
    <3> HIDE DEF q
    <3> QED
      BY <2>2, <2>5, <2>6, UpdateOK DEF Busy, GuardPcs, RefreshPcs
<1>8. ASSUME NEW r \in Requests, GuardActiveUser(r) PROVE TypeOK'
  <2>1. Forbidden(req[r].ep) \in HttpStatuses
    BY DEF Forbidden
  <2>2. CASE account[req[r].user] = "active"
    <3> DEFINE admin == req[r].user \in admins
               q == [req[r] EXCEPT !.pc = AfterGuard(req[r].ep), !.admin = admin]
    <3>1. req[r] \in Request /\ req[r].pc = "user"
      BY <1>8 DEF GuardActiveUser, TypeOK, RequestsOK, RequestOK
    <3>2. AfterGuard(req[r].ep) \in PastGuardPcs \ {"return"}
      BY DEF AfterGuard, PastGuardPcs
    <3>3. admin \in BOOLEAN
      OBVIOUS
    <3>4. q \in Request /\ q.pc \in PastGuardPcs \ {"return"} /\ q.user = req[r].user /\ q.tok = req[r].tok
      <4> HIDE DEF admin
      <4>1. AfterGuard(req[r].ep) \in Pcs
        BY <3>2 DEF Pcs
      <4>2. q \in Request
        BY <3>1, <3>3, <4>1, RequestFields
      <4> QED
        BY <3>1, <3>2, <4>2 DEF Request
    <3>5. req' = [req EXCEPT ![r] = q] /\ UNCHANGED <<shared, seen>>
      BY <1>8, <2>2 DEF GuardActiveUser
    <3> QED
      <4> HIDE DEF q
      <4> QED
        BY <3>1, <3>4, <3>5, UpdateOK DEF Busy, GuardPcs, RefreshPcs, PastGuardPcs
  <2>3. CASE account[req[r].user] # "active"
    BY <1>8, <2>1, <2>3, HandoverOK DEF GuardActiveUser, Handover
  <2> QED
    BY <2>2, <2>3
<1>9. ASSUME NEW r \in Requests, LogoutUser(r) PROVE TypeOK'
  <2>1. CASE account[req[r].user] # "absent"
    <3> DEFINE q == [req[r] EXCEPT !.pc = "set", !.at = now]
    <3>1. req[r] \in Request /\ req[r].pc = "logoutUser"
      BY <1>9 DEF LogoutUser, TypeOK, RequestsOK, RequestOK
    <3>2. q \in Request /\ q.pc = "set" /\ q.user = req[r].user /\ q.tok = req[r].tok
      <4>1. "set" \in Pcs /\ now \in Nat
        BY DEF Pcs, PastGuardPcs, TypeOK, SharedOK
      <4>2. q \in Request
        BY <3>1, <4>1, RequestFields
      <4> QED
        BY <3>1, <4>2 DEF Request
    <3>3. req' = [req EXCEPT ![r] = q] /\ UNCHANGED <<shared, seen>>
      BY <1>9, <2>1 DEF LogoutUser
    <3> QED
      <4> HIDE DEF q
      <4> QED
        BY <3>1, <3>2, <3>3, UpdateOK DEF Busy, RefreshPcs, PastGuardPcs
  <2>2. CASE account[req[r].user] = "absent"
    BY <1>9, <2>2, HandoverOK DEF LogoutUser, Handover
  <2> QED
    BY <2>1, <2>2
<1>10. ASSUME NEW r \in Requests, LogoutSet(r) PROVE TypeOK'
  <2>1. req[r].tok \in issued /\ req[r].at \in Nat
    BY <1>10, EntryOK DEF LogoutSet
  <2>2. SharedOK'
    BY <1>10, <2>1, StoreOK DEF LogoutSet, TypeOK, SharedOK
  <2>3. RequestsOK'
    BY <1>10, GotoOK DEF LogoutSet, Store, TypeOK, Busy, Pcs, RefreshPcs, PastGuardPcs
  <2> QED
    BY <2>2, <2>3 DEF TypeOK
<1>11. ASSUME NEW r \in Requests, LogoutReturn(r) PROVE TypeOK'
  <2>1. SharedOK' /\ issued \subseteq issued' /\ written \subseteq written'
    BY <1>11 DEF LogoutReturn, TypeOK, SharedOK, RequestsOK, RequestOK
  <2>2. RequestsOK'
    BY <1>11, <2>1, AnswerOK DEF LogoutReturn, TypeOK
  <2> QED
    BY <2>1, <2>2 DEF TypeOK
<1>12. ASSUME NEW r \in Requests, BackendFails(r) PROVE TypeOK'
  <2>1. FailStatus(r) \in HttpStatuses
    BY DEF FailStatus, Forbidden
  <2>2. SharedOK'
    <3>1. CASE UNCHANGED cacheVars
      BY <1>12, <3>1 DEF BackendFails, TypeOK, SharedOK
    <3>2. CASE req[r].pc = "set" /\ Store(req[r].tok, req[r].at)
      <4>1. req[r].tok \in issued /\ req[r].at \in Nat
        BY <3>2, EntryOK
      <4> QED
        BY <1>12, <3>2, <4>1, StoreOK DEF BackendFails, TypeOK, SharedOK
    <3> QED
      BY <1>12, <3>1, <3>2 DEF BackendFails
  <2>3. issued \subseteq issued' /\ written \subseteq written'
    BY <1>12 DEF BackendFails, Store
  <2>4. RequestsOK'
    BY <1>12, <2>1, <2>3, AnswerOK DEF BackendFails, TypeOK
  <2> QED
    BY <2>2, <2>4 DEF TypeOK
<1>13. ASSUME Crash PROVE TypeOK'
  <2>1. SharedOK'
    BY <1>13 DEF Crash, TypeOK, SharedOK
  <2>2. \A r \in Requests : RequestOK(r)'
    <3> TAKE r \in Requests
    <3>1. CASE Busy(r)
      BY <1>13, <3>1, IdleOK DEF Crash, RequestOK, Busy, Idle, NothingSeen, Sight,
           RefreshPcs, GuardPcs, PastGuardPcs
    <3>2. CASE ~Busy(r)
      BY <1>13, <3>2 DEF Crash, TypeOK, RequestsOK, RequestOK, Busy, NothingSeen, Sight
    <3> QED
      BY <3>1, <3>2
  <2> QED
    BY <1>13, <2>1, <2>2 DEF Crash, TypeOK, RequestsOK
<1>14. ASSUME Tick PROVE TypeOK'
  BY <1>14 DEF Tick, TypeOK, SharedOK, RequestsOK, RequestOK, Busy
<1>15. ASSUME NEW u \in Users, OperatorEdit(u) PROVE TypeOK'
  <2>1. PICK status \in Statuses, admin \in BOOLEAN :
          /\ account' = [account EXCEPT ![u] = status]
          /\ admins' = IF admin THEN admins \cup {u} ELSE admins \ {u}
          /\ seen' = [r \in Requests |->
               IF Busy(r) /\ req[r].user = u
                 THEN [seen[r] EXCEPT !.standings = @ \cup {<<status, admin>>}]
                 ELSE seen[r]]
    BY <1>15 DEF OperatorEdit
  <2>2. SharedOK'
    BY <1>15, <2>1 DEF OperatorEdit, TypeOK, SharedOK
  <2>3. <<status, admin>> \in Standings
    BY DEF Standings
  <2>4. \A r \in Requests : seen'[r] \in Sight
    <3> DEFINE new == <<status, admin>>
    <3> HIDE DEF new
    <3>1. \A r \in Requests : seen'[r] = IF Busy(r) /\ req[r].user = u
             THEN [seen[r] EXCEPT !.standings = @ \cup {new}] ELSE seen[r]
      BY <2>1 DEF new
    <3>2. new \in Standings
      BY <2>3 DEF new
    <3>3. \A r \in Requests : seen[r] \in Sight
      BY DEF TypeOK, RequestsOK, RequestOK
    <3>4. \A s \in Sight : [s EXCEPT !.standings = @ \cup {new}] \in Sight
      BY <3>2 DEF Sight
    <3> QED
      BY <3>1, <3>3, <3>4
  <2>5. UNCHANGED <<req, issued, written>>
    BY <1>15 DEF OperatorEdit
  <2> QED
    BY <2>1, <2>2, <2>4, <2>5 DEF TypeOK, RequestsOK, RequestOK, Busy
<1>16. CASE UNCHANGED vars
  BY <1>16 DEF vars, TypeOK, SharedOK, RequestsOK, RequestOK, Busy
<1>17. ASSUME NEW r \in Requests, Handover(r), UNCHANGED shared PROVE TypeOK'
  BY <1>17, HandoverOK
<1> QED
  BY <1>1, <1>2, <1>3, <1>4, <1>5, <1>6, <1>7, <1>8, <1>9, <1>10, <1>11, <1>12,
     <1>13, <1>14, <1>15, <1>16, <1>17, Handovers
     DEF Next, Arrive, Handle, LoginStep, RefreshStep, GuardStep, LogoutStep

LEMMA TypeInit == Init => TypeOK
PROOF
<1> SUFFICES ASSUME Init PROVE TypeOK
  OBVIOUS
<1>1. SharedOK
  BY DEF Init, SharedOK
<1>2. \A r \in Requests : RequestOK(r)
  BY IdleOK DEF Init, RequestOK, Busy, Idle, NothingSeen, Sight, HttpStatuses,
     RefreshPcs, GuardPcs, PastGuardPcs
<1> QED
  BY <1>1, <1>2 DEF Init, TypeOK, RequestsOK

(* The state keeps its types, and every stage of a handler has the token it   *)
(* works with, for any number of users and requests: AuthService and guards.  *)
THEOREM TypeCorrect == Spec => []TypeOK
PROOF
<1>1. Init => TypeOK
  BY TypeInit
<1>2. TypeOK /\ [Next]_vars => TypeOK'
  BY TypeStep
<1> QED
  BY <1>1, <1>2, PTL DEF Spec

(* What any configured lifetime makes of a logout in the tick of its login:   *)
(* the unit alone decides if convertToSeconds keeps the entry long enough, at *)
(* every time of the server's clock.                                          *)
THEOREM UnitDecides == Spec => []KeptLongEnough
PROOF
<1>1. TypeOK => KeptLongEnough
  <2> SUFFICES ASSUME TypeOK, NEW u \in Users, NEW life \in Configurable
               PROVE  now + ConvertToSeconds(life) >= SignedNow(u).iat + JwtTicks(life)
                        <=> life.unit \in CoveredUnits
    BY DEF KeptLongEnough
  <2>1. life \in Lifetime /\ life.value > 0
    BY ConfigurableAssumption
  <2>2. now \in Nat /\ TicksPerSecond \in Nat
    BY TicksPerSecondAssumption DEF TypeOK, SharedOK
  <2>3. /\ SignedNow(u).iat \in Nat /\ SignedNow(u).iat <= now
        /\ now - SignedNow(u).iat < TicksPerSecond
    BY <2>2, SignedNowIsPast DEF Token
  <2>4. JwtTicks(life) \in Nat /\ ConvertToSeconds(life) \in Nat
    BY <2>1, TicksCounted
  <2>5. CASE life.unit \in CoveredUnits
    BY <2>1, <2>2, <2>3, <2>4, <2>5, CoveredKept
  <2>6. CASE life.unit \notin CoveredUnits
    <3>1. ConvertToSeconds(life) + TicksPerSecond <= JwtTicks(life)
      BY <2>1, <2>6, UncoveredNotKept
    <3> QED
      BY <2>2, <2>3, <2>4, <2>6, <3>1
  <2> QED
    BY <2>5, <2>6
<1> QED
  BY <1>1, TypeCorrect, PTL

-----------------------------------------------------------------------------
(* Steps of a request lead on *)

Forward(r) ==
  \/ req'[r].pc = "idle"
  \/ Place[req[r].pc] < Place[req'[r].pc]
  \/ /\ req'[r].pc = req[r].pc
     /\ req'[r].todo \subseteq req[r].todo /\ req'[r].todo # req[r].todo

Advances == \A r \in Requests : Busy(r) /\ req'[r] # req[r] => Forward(r)

LEMMA AnswerAdvances ==
  ASSUME TypeOK, NEW r \in Requests, NEW status, Answer(r, status)
  PROVE  Advances
PROOF
  BY DEF Answer, Idle, Advances, Forward, TypeOK, RequestsOK

LEMMA MoveAdvances ==
  ASSUME TypeOK, NEW r \in Requests, NEW q, req' = [req EXCEPT ![r] = q],
         Place[req[r].pc] < Place[q.pc]
  PROVE  Advances
PROOF
<1>1. req'[r] = q /\ \A x \in Requests \ {r} : req'[x] = req[x]
  BY DEF TypeOK, RequestsOK
<1> QED
  BY <1>1 DEF Advances, Forward

LEMMA GotoAdvances ==
  ASSUME TypeOK, NEW r \in Requests, NEW pc, Goto(r, pc), Place[req[r].pc] < Place[pc]
  PROVE  Advances
PROOF
<1>1. [req[r] EXCEPT !.pc = pc].pc = pc
  BY DEF TypeOK, RequestsOK, RequestOK, Request
<1> QED
  BY <1>1, MoveAdvances DEF Goto

LEMMA StartAdvances ==
  ASSUME TypeOK, NEW r \in Requests, Arrive(r)
  PROVE  Advances
PROOF
<1>1. ~Busy(r) /\ \A x \in Requests \ {r} : req'[x] = req[x]
  BY DEF Arrive, StartLogin, StartRefresh, StartGuarded, StartWithoutToken, Start, Answer,
     TypeOK, RequestsOK
<1> QED
  BY <1>1 DEF Advances

LEMMA HandoverAdvances ==
  ASSUME TypeOK, NEW r \in Requests,
         \/ LoginFind(r) \/ LoginCompare(r) \/ VerifyCookie(r) \/ CookieUser(r)
         \/ RefreshUser(r) \/ VerifyBody(r) \/ AccessVerify(r)
         \/ GuardBlacklisted(r) \/ RoleGuard(r) \/ Serve(r) \/ Sign(r)
         \/ LogoutSet(r) \/ LogoutReturn(r) \/ BackendFails(r)
  PROVE  Advances
PROOF
<1> USE AnswerAdvances, GotoAdvances DEF Place
<1>1. CASE LoginFind(r) \/ LoginCompare(r) \/ Sign(r)
  BY <1>1 DEF LoginFind, LoginCompare, Sign
<1>2. CASE VerifyCookie(r) \/ CookieUser(r) \/ RefreshUser(r) \/ VerifyBody(r)
  BY <1>2 DEF VerifyCookie, CookieUser, RefreshUser, VerifyBody
<1>3. CASE AccessVerify(r) \/ GuardBlacklisted(r) \/ RoleGuard(r) \/ Serve(r)
  BY <1>3 DEF AccessVerify, GuardBlacklisted, RoleGuard, Serve
<1>4. CASE LogoutSet(r) \/ LogoutReturn(r) \/ BackendFails(r)
  BY <1>4 DEF LogoutSet, LogoutReturn, BackendFails
<1> QED
  BY <1>1, <1>2, <1>3, <1>4

LEMMA KeysAdvance ==
  ASSUME TypeOK, NEW r \in Requests, GuardKeys(r)
  PROVE  Advances
PROOF
<1> DEFINE keys == {e.at : e \in {e \in blacklist : e.tok.user = req[r].user}}
           q == [req[r] EXCEPT !.pc = "get", !.todo = keys]
<1>1. req' = [req EXCEPT ![r] = q] /\ req[r].pc = "keys"
  BY DEF GuardKeys
<1> HIDE DEF keys
<1>2. q.pc = "get"
  BY DEF TypeOK, RequestsOK, RequestOK, Request
<1> HIDE DEF q
<1>3. Place["keys"] < Place["get"]
  BY DEF Place
<1> QED
  BY <1>1, <1>2, <1>3, MoveAdvances

(* The guard's loop leaves the key that it reads. *)
LEMMA GetAdvances ==
  ASSUME TypeOK, NEW r \in Requests, GuardGet(r)
  PROVE  Advances
PROOF
<1>1. PICK at \in req[r].todo :
         req' = [req EXCEPT ![r].todo = @ \ {at},
           ![r].hit = @ \/ \E e \in blacklist : e.at = at /\ e.tok = req[r].tok]
  BY DEF GuardGet
<1> DEFINE left == req[r].todo \ {at}
           hit == req[r].hit \/ \E e \in blacklist : e.at = at /\ e.tok = req[r].tok
           q == [req[r] EXCEPT !.todo = left, !.hit = hit]
<1>2. req' = [req EXCEPT ![r] = q]
  BY <1>1
<1>3. left \subseteq req[r].todo /\ left # req[r].todo
  OBVIOUS
<1> HIDE DEF left, hit
<1>4. q.pc = req[r].pc /\ q.todo = left
  BY DEF TypeOK, RequestsOK, RequestOK, Request
<1> HIDE DEF q
<1>5. req'[r] = q /\ \A x \in Requests \ {r} : req'[x] = req[x]
  BY <1>2 DEF TypeOK, RequestsOK
<1> QED
  BY <1>3, <1>4, <1>5 DEF Advances, Forward

LEMMA SnapshotAdvances ==
  ASSUME TypeOK, NEW r \in Requests, GuardActiveUser(r) \/ LogoutUser(r)
  PROVE  Advances
PROOF
<1>0. req[r] \in Request
  BY DEF TypeOK, RequestsOK, RequestOK
<1>1. CASE \E status : Answer(r, status)
  BY <1>1, AnswerAdvances
<1>2. CASE GuardActiveUser(r) /\ account[req[r].user] = "active"
  <2> DEFINE admin == req[r].user \in admins
             q == [req[r] EXCEPT !.pc = AfterGuard(req[r].ep), !.admin = admin]
  <2>1. req' = [req EXCEPT ![r] = q] /\ req[r].pc = "user"
    BY <1>2 DEF GuardActiveUser
  <2> HIDE DEF admin
  <2>2. q.pc = AfterGuard(req[r].ep)
    BY <1>0 DEF Request
  <2>3. Place["user"] < Place[AfterGuard(req[r].ep)]
    BY DEF Place, AfterGuard
  <2> HIDE DEF q
  <2> QED
    BY <2>1, <2>2, <2>3, MoveAdvances
<1>3. CASE LogoutUser(r) /\ account[req[r].user] # "absent"
  <2> DEFINE q == [req[r] EXCEPT !.pc = "set", !.at = now]
  <2>1. req' = [req EXCEPT ![r] = q] /\ req[r].pc = "logoutUser"
    BY <1>3 DEF LogoutUser
  <2>2. q.pc = "set"
    BY <1>0 DEF Request
  <2>3. Place["logoutUser"] < Place["set"]
    BY DEF Place
  <2> HIDE DEF q
  <2> QED
    BY <2>1, <2>2, <2>3, MoveAdvances
<1> QED
  BY <1>1, <1>2, <1>3 DEF GuardActiveUser, LogoutUser

(* However many logouts add keys, and whatever else comes in between, no step *)
(* of login, refresh, logout or the guards goes back: with fairness, which    *)
(* only TLC can reason about, every request ends.                             *)
THEOREM StepsLeadOn == Spec => StepsAdvance
PROOF
<1>1. TypeOK /\ [Next]_vars =>
        [\A r \in Requests :
           Busy(r) /\ req'[r] # req[r] =>
             \/ req'[r].pc = "idle"
             \/ Place[req[r].pc] < Place[req'[r].pc]
             \/ req'[r].pc = req[r].pc /\ req'[r].todo \subseteq req[r].todo
                /\ req'[r].todo # req[r].todo]_vars
  <2> SUFFICES ASSUME TypeOK, Next PROVE Advances
    BY DEF Advances, Forward
  <2>1. ASSUME NEW r \in Requests, Arrive(r) \/ Handle(r) \/ BackendFails(r) PROVE Advances
    BY <2>1, StartAdvances, HandoverAdvances, KeysAdvance, GetAdvances, SnapshotAdvances
       DEF Handle, LoginStep, RefreshStep, GuardStep, LogoutStep
  <2>2. CASE Tick \/ \E u \in Users : OperatorEdit(u)
    BY <2>2 DEF Tick, OperatorEdit, Advances
  <2>3. CASE Crash
    BY <2>3 DEF Crash, Idle, Busy, Advances, Forward
  <2> QED
    BY <2>1, <2>2, <2>3 DEF Next
<1> QED
  BY <1>1, TypeCorrect, PTL DEF Spec, StepsAdvance
=============================================================================
