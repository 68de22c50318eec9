------------------------------ MODULE Sessions ------------------------------
(***************************************************************************)
(* Sessions: login, token refresh, logout and the guards of the routes.    *)
(*                                                                         *)
(* A request runs through the handlers of AuthController / UserController, *)
(* AccessTokenGuard, RefreshTokenGuard, RoleGuard and AuthService.  Each   *)
(* await on the database, on the cache or on bcrypt ends an action, so     *)
(* that other requests, the clock, an operator's edit of the database or a *)
(* crash come in between.                                                  *)
(*                                                                         *)
(* A token is known by its user and the second it was signed in (iat): the *)
(* payload holds nothing else, so two logins of a user in one second yield *)
(* the same token.  getTokensData signs the access token and the refresh   *)
(* token together, and one record stands for both.                         *)
(***************************************************************************)
EXTENDS TokenLifetime, FiniteSets

CONSTANTS
  Users,             \* the ids of the users
  Requests,          \* the requests the server handles at a time
  Endpoints,         \* the routes the clients call
  AccessExpiresIn,   \* auth.accessTokenExpiresIn
  RefreshExpiresIn,  \* auth.refreshTokenExpiresIn
  Configurable,      \* lifetimes an operator may configure instead
  NoUser,            \* the user of a request that has none
  MaxTime,           \* bound: the clock stops there
  MaxArrivals,       \* bound: requests that come in with what their route needs
  MaxEdits,          \* bound: edits of an account by an operator
  MaxFailures        \* bound: calls of the database or the cache that fail

AllEndpoints == {"login", "refresh", "me", "create", "logout"}

ASSUME EndpointsAssumption == Endpoints \subseteq AllEndpoints
ASSUME LifetimesAssumption == AccessExpiresIn \in Lifetime /\ RefreshExpiresIn \in Lifetime
ASSUME ConfigurableAssumption ==
         \A life \in Configurable : life \in Lifetime /\ life.value > 0
ASSUME BoundsAssumption == MaxTime \in Nat /\ MaxArrivals \in Nat
                           /\ MaxEdits \in Nat /\ MaxFailures \in Nat
ASSUME NoUserAssumption == NoUser \notin Users

VARIABLES
  now,        \* the clock of the server and of the cache, in ticks
  account,    \* User rows: account[u] is the name of u's status, or "absent"
  admins,     \* UserRole rows with the admin role
  edits,      \* how often an operator has edited an account
  failures,   \* how many calls have failed
  arrivals,   \* how many requests have come in
  issued,     \* the tokens handed to clients
  cookies,    \* the refresh tokens set as the cookie 'andy-rft'
  blacklist,  \* cache entries <id>:blacklist:accessToken:<at>
  written,    \* history: every entry ever stored
  revoked,    \* history: the entries whose logout was answered
  req,        \* the state of each request
  seen        \* history: what held while a request was in flight

tokenVars == <<issued, cookies>>
cacheVars == <<blacklist, written, revoked>>
accountVars == <<account, admins, edits>>
counters == <<failures, arrivals>>  \* for the bounds alone
shared == <<now, accountVars, tokenVars, cacheVars, counters>>
vars == <<shared, req, seen>>

-----------------------------------------------------------------------------
(* Data.  A definition named Faulty... is its neighbour with a plausible bug; *)
(* nothing uses it, but with it in place the properties must fail.            *)

AccessTicks == JwtTicks(AccessExpiresIn)
RefreshTicks == JwtTicks(RefreshExpiresIn)
FaultyBlacklistTicks ==  \* seconds where the cache takes milliseconds
  ConvertToSeconds(AccessExpiresIn) \div TicksPerSecond
BlacklistTicks == ConvertToSeconds(AccessExpiresIn)

Statuses == {"absent", "inactive", "active"}
Token == [user : Users, iat : Nat]
NoToken == [user |-> NoUser, iat |-> 0]
Key == [tok : Token, at : Nat]
Entry == [tok : Token, at : Nat, until : Nat]

(* An access token verifies until its exp.  exp is a whole second, so      *)
(* comparing ticks is the same as comparing the whole seconds of the code. *)
Live(tok) == now < tok.iat + AccessTicks
LiveRefresh(tok) == now < tok.iat + RefreshTicks

FaultySignedNow(u) ==  \* iat set a second back, against clock skew
  [user |-> u, iat |-> now - (now % TicksPerSecond) - TicksPerSecond]

(* The token signed for u now: iat is the second the clock is in. *)
SignedNow(u) == [user |-> u, iat |-> now - (now % TicksPerSecond)]

(* Another token of the same user was stored under the same key, which is *)
(* made of the user's id and the millisecond of the logout.               *)
Overwritten(tok, at) ==
  \E w \in written : w.at = at /\ w.tok.user = tok.user /\ w.tok # tok

(* What the guards read of a user. *)
Standing(u) == <<account[u], u \in admins>>
Standings == Statuses \X BOOLEAN

-----------------------------------------------------------------------------
(* Requests *)

LoginPcs == {"find", "compare"}
RefreshPcs == {"cookie", "cookieUser", "refreshUser", "body"}
GuardPcs == {"verify", "keys", "get", "user"}
PastGuardPcs == {"role", "serve", "logoutUser", "set", "return"}
Pcs == {"idle", "sign"} \cup LoginPcs \cup RefreshPcs \cup GuardPcs \cup PastGuardPcs

(* 0: not answered, or dropped by a crash. *)
HttpStatuses == {0, 200, 201, 401, 403, 422, 500}

(* user: the id the handler works for (the payload's id once there is a     *)
(* token); tok: the access token or the cookie; body: the refresh token of  *)
(* the body; todo and hit: the keys still to read and blackListedUserTokens *)
(* holding tok; at: Date.now() of the logout; admin: the role in the        *)
(* snapshot request['user'].                                                *)
Idle(status) ==
  [pc |-> "idle", ep |-> "none", user |-> NoUser, tok |-> NoToken,
   body |-> NoToken, todo |-> {}, hit |-> FALSE, at |-> 0, admin |-> FALSE,
   status |-> status]

Busy(r) == req[r].pc # "idle"
NothingSeen == [standings |-> {}, revoked |-> {}]

Goto(r, pc) == req' = [req EXCEPT ![r].pc = pc] /\ UNCHANGED seen

Answer(r, status) ==
  /\ req' = [req EXCEPT ![r] = Idle(status)]
  /\ seen' = [seen EXCEPT ![r] = NothingSeen]

(* HttpExceptionFilter: a guard that returns false is a 403, which the filter *)
(* turns into a 401 on the route of getMe.                                    *)
Forbidden(ep) == IF ep = "me" THEN 401 ELSE 403

Start(r, ep, u, tok, body, pc) ==
  /\ ~Busy(r) /\ ep \in Endpoints /\ arrivals < MaxArrivals
  /\ arrivals' = arrivals + 1
  /\ req' = [req EXCEPT ![r] = [Idle(0) EXCEPT !.pc = pc, !.ep = ep, !.user = u,
                                               !.tok = tok, !.body = body]]
  /\ seen' = [seen EXCEPT ![r] =
        [standings |-> {Standing(u)},
         revoked |-> {k.at : k \in {w \in revoked : w.tok = tok}}]]
  /\ UNCHANGED <<now, accountVars, tokenVars, cacheVars, failures>>

(* A guarded route without a bearer token, or a refresh without the cookie. *)
StartWithoutToken(r, ep) ==
  /\ ~Busy(r) /\ ep \in Endpoints \ {"login"}
  /\ Answer(r, IF ep = "refresh" THEN 403 ELSE 401)
  /\ UNCHANGED shared

-----------------------------------------------------------------------------
(* POST /auth/login: AuthService.validateLogin *)

StartLogin(r) == \E u \in Users : Start(r, "login", u, NoToken, NoToken, "find")

LoginFind(r) ==
  /\ req[r].pc = "find"
  /\ IF account[req[r].user] # "absent" THEN Goto(r, "compare") ELSE Answer(r, 401)
  /\ UNCHANGED shared

(* bcrypt.compare: the password of the body is right or wrong.  The status *)
(* of the account is not looked at.                                        *)
LoginCompare(r) ==
  /\ req[r].pc = "compare"
  /\ Goto(r, "sign") \/ Answer(r, 401)
  /\ UNCHANGED shared

(* getTokensData and the reply, of a login and of a refresh.  Only a login *)
(* sets the cookie.                                                        *)
Sign(r) ==
  /\ req[r].pc = "sign"
  /\ issued' = issued \cup {SignedNow(req[r].user)}
  /\ cookies' = IF req[r].ep = "login" THEN cookies \cup {SignedNow(req[r].user)}
                                       ELSE cookies
  /\ Answer(r, 201)
  /\ UNCHANGED <<now, accountVars, cacheVars, counters>>

-----------------------------------------------------------------------------
(* POST /auth/refresh: RefreshTokenGuard, then AuthService.refreshToken *)

StartRefresh(r) ==
  \E cookie \in cookies, body \in issued :
    Start(r, "refresh", cookie.user, cookie, body, "cookie")

(* An expired cookie makes verifyAsync throw outside any try. *)
VerifyCookie(r) ==
  /\ req[r].pc = "cookie"
  /\ IF LiveRefresh(req[r].tok) THEN Goto(r, "cookieUser") ELSE Answer(r, 500)
  /\ UNCHANGED shared

CookieUser(r) ==
  /\ req[r].pc = "cookieUser"
  /\ IF account[req[r].user] = "active" THEN Goto(r, "refreshUser") ELSE Answer(r, 401)
  /\ UNCHANGED shared

RefreshUser(r) ==
  /\ req[r].pc = "refreshUser"
  /\ IF account[req[r].user] # "absent" THEN Goto(r, "body") ELSE Answer(r, 401)
  /\ UNCHANGED shared

VerifyBody(r) ==
  /\ req[r].pc = "body"
  /\ IF LiveRefresh(req[r].body) THEN Goto(r, "sign") ELSE Answer(r, 401)
  /\ UNCHANGED shared

-----------------------------------------------------------------------------
(* AccessTokenGuard and RoleGuard *)

StartGuarded(r) ==
  \E ep \in {"me", "create", "logout"}, tok \in issued :
    Start(r, ep, tok.user, tok, NoToken, "verify")

AccessVerify(r) ==
  /\ req[r].pc = "verify"
  /\ IF Live(req[r].tok) THEN Goto(r, "keys") ELSE Answer(r, Forbidden(req[r].ep))
  /\ UNCHANGED shared

(* store.keys: the keys of the user, whichever token they hold. *)
GuardKeys(r) ==
  /\ req[r].pc = "keys"
  /\ req' = [req EXCEPT ![r].pc = "get",
       ![r].todo = {e.at : e \in {e \in blacklist : e.tok.user = req[r].user}}]
  /\ UNCHANGED <<shared, seen>>

FaultyGuardGetLast(r) ==  \* the last key read decides alone
  /\ req[r].pc = "get"
  /\ \E at \in req[r].todo :
       req' = [req EXCEPT ![r].todo = @ \ {at},
         ![r].hit = \E e \in blacklist : e.at = at /\ e.tok = req[r].tok]
  /\ UNCHANGED <<shared, seen>>

FaultyGuardGetAny(r) ==  \* any entry of the user refuses
  /\ req[r].pc = "get"
  /\ \E at \in req[r].todo :
       req' = [req EXCEPT ![r].todo = @ \ {at}, ![r].hit = TRUE]
  /\ UNCHANGED <<shared, seen>>

FaultyGuardGetAgain(r) ==  \* an entry that is not the token's is read again
  /\ req[r].pc = "get"
  /\ \E at \in req[r].todo :
       LET found == \E e \in blacklist : e.at = at /\ e.tok = req[r].tok
       IN req' = [req EXCEPT ![r].todo = IF found THEN {} ELSE @, ![r].hit = found]
  /\ UNCHANGED <<shared, seen>>

(* cacheManager.get of one key; an entry that expired meanwhile is null. *)
GuardGet(r) ==
  /\ req[r].pc = "get"
  /\ \E at \in req[r].todo :
       req' = [req EXCEPT ![r].todo = @ \ {at},
         ![r].hit = @ \/ \E e \in blacklist : e.at = at /\ e.tok = req[r].tok]
  /\ UNCHANGED <<shared, seen>>

FaultyGuardBlacklisted(r) ==  \* keys that were added meanwhile are listed, too
  /\ req[r].pc = "get" /\ req[r].todo = {}
  /\ IF req[r].hit THEN Answer(r, Forbidden(req[r].ep))
     ELSE IF \E e \in blacklist : e.at = now /\ e.tok.user = req[r].user
     THEN Goto(r, "keys")
     ELSE Goto(r, "user")
  /\ UNCHANGED shared

(* blackListedUserTokens.includes(token), on local data alone. *)
GuardBlacklisted(r) ==
  /\ req[r].pc = "get" /\ req[r].todo = {}
  /\ IF req[r].hit THEN Answer(r, Forbidden(req[r].ep)) ELSE Goto(r, "user")
  /\ UNCHANGED shared

(* findFirst of the active user with its roles; the snapshot goes on. *)
AfterGuard(ep) == IF ep = "create" THEN "role"
                  ELSE IF ep = "logout" THEN "logoutUser" ELSE "serve"

FaultyGuardAnyUser(r) ==  \* the status is not in the query
  /\ req[r].pc = "user"
  /\ IF account[req[r].user] # "absent"
       THEN /\ req' = [req EXCEPT ![r].pc = AfterGuard(req[r].ep),
                                  ![r].admin = req[r].user \in admins]
            /\ UNCHANGED seen
       ELSE Answer(r, Forbidden(req[r].ep))
  /\ UNCHANGED shared

FaultyGuardNoRoles(r) ==  \* the roles are not in the query
  /\ req[r].pc = "user"
  /\ IF account[req[r].user] = "active"
       THEN Goto(r, AfterGuard(req[r].ep))
       ELSE Answer(r, Forbidden(req[r].ep))
  /\ UNCHANGED shared

GuardActiveUser(r) ==
  /\ req[r].pc = "user"
  /\ IF account[req[r].user] = "active"
       THEN /\ req' = [req EXCEPT ![r].pc = AfterGuard(req[r].ep),
                                  ![r].admin = req[r].user \in admins]
            /\ UNCHANGED seen
       ELSE Answer(r, Forbidden(req[r].ep))
  /\ UNCHANGED shared

RoleGuard(r) ==
  /\ req[r].pc = "role"
  /\ IF req[r].admin THEN Goto(r, "serve") ELSE Answer(r, Forbidden(req[r].ep))
  /\ UNCHANGED shared

(* The handler of a guarded route other than logout: getMe returns the *)
(* snapshot, createUser goes on to UserService (see Accounts).         *)
Serve(r) ==
  /\ req[r].pc = "serve"
  /\ Answer(r, IF req[r].ep = "me" THEN 200 ELSE 201)
  /\ UNCHANGED shared

-----------------------------------------------------------------------------
(* GET /auth/logout: AuthService.logout, behind AccessTokenGuard *)

(* findFirst; the key is built with Date.now() before the cache is called. *)
LogoutUser(r) ==
  /\ req[r].pc = "logoutUser"
  /\ IF account[req[r].user] # "absent"
       THEN /\ req' = [req EXCEPT ![r].pc = "set", ![r].at = now]
            /\ UNCHANGED seen
       ELSE Answer(r, 422)
  /\ UNCHANGED shared

(* The cache stores the entry: it takes the place of one under the same key. *)
Store(tok, at) ==
  /\ blacklist' = {e \in blacklist : ~(e.at = at /\ e.tok.user = tok.user)}
                    \cup {[tok |-> tok, at |-> at, until |-> now + BlacklistTicks]}
  /\ written' = written \cup {[tok |-> tok, at |-> at]}
  /\ UNCHANGED revoked

LogoutSet(r) ==
  /\ req[r].pc = "set"
  /\ Store(req[r].tok, req[r].at)
  /\ Goto(r, "return")
  /\ UNCHANGED <<now, accountVars, tokenVars, counters>>

LogoutReturn(r) ==
  /\ req[r].pc = "return"
  /\ revoked' = revoked \cup {[tok |-> req[r].tok, at |-> req[r].at]}
  /\ Answer(r, 200)
  /\ UNCHANGED <<now, accountVars, tokenVars, blacklist, written, counters>>

-----------------------------------------------------------------------------
(* Failures and the environment *)

Calling(r) == \/ req[r].pc \in {"find", "cookieUser", "refreshUser", "keys",
                                "user", "logoutUser", "set"}
              \/ (req[r].pc = "get" /\ req[r].todo # {})

(* How each handler answers when the database or the cache fails under it. *)
FailStatus(r) ==
  IF req[r].pc \in {"find", "refreshUser"} THEN 401
  ELSE IF req[r].pc \in GuardPcs THEN Forbidden(req[r].ep) ELSE 500

(* The call may have taken effect before its reply was lost. *)
BackendFails(r) ==
  /\ Calling(r) /\ failures < MaxFailures
  /\ failures' = failures + 1
  /\ Answer(r, FailStatus(r))
  /\ \/ req[r].pc = "set" /\ Store(req[r].tok, req[r].at)
     \/ UNCHANGED cacheVars
  /\ UNCHANGED <<now, accountVars, tokenVars, arrivals>>

(* The process ends: requests are dropped, database and cache keep theirs. *)
Crash ==
  /\ \E r \in Requests : Busy(r)
  /\ req' = [r \in Requests |-> IF Busy(r) THEN Idle(0) ELSE req[r]]
  /\ seen' = [r \in Requests |-> NothingSeen]
  /\ UNCHANGED shared

(* Time passes, and the cache drops the entries whose ttl is over. *)
Tick ==
  /\ now < MaxTime
  /\ now' = now + 1
  /\ blacklist' = {e \in blacklist : now' < e.until}
  /\ UNCHANGED <<accountVars, tokenVars, written, revoked, req, seen, counters>>

(* No route changes a status or a role: an operator does, in the database. *)
(* A signup adds an active user in the same way (see Accounts).            *)
OperatorEdit(u) ==
  /\ edits < MaxEdits
  /\ \E status \in Statuses, admin \in BOOLEAN :
       /\ status = "absent" => ~admin
       /\ <<status, admin>> # Standing(u)
       /\ account' = [account EXCEPT ![u] = status]
       /\ admins' = IF admin THEN admins \cup {u} ELSE admins \ {u}
       /\ seen' = [r \in Requests |->
            IF Busy(r) /\ req[r].user = u
              THEN [seen[r] EXCEPT !.standings = @ \cup {<<status, admin>>}]
              ELSE seen[r]]
  /\ edits' = edits + 1
  /\ UNCHANGED <<now, tokenVars, cacheVars, req, counters>>

-----------------------------------------------------------------------------
(* The specification *)

Init ==
  /\ now = 0
  /\ account \in [Users -> Statuses]
  /\ admins \in SUBSET {u \in Users : account[u] # "absent"}
  /\ issued = {} /\ cookies = {}
  /\ blacklist = {} /\ written = {} /\ revoked = {}
  /\ edits = 0 /\ failures = 0 /\ arrivals = 0
  /\ req = [r \in Requests |-> Idle(0)]
  /\ seen = [r \in Requests |-> NothingSeen]

Arrive(r) == \/ StartLogin(r) \/ StartRefresh(r) \/ StartGuarded(r)
             \/ \E ep \in Endpoints : StartWithoutToken(r, ep)

LoginStep(r) == LoginFind(r) \/ LoginCompare(r) \/ Sign(r)
RefreshStep(r) == VerifyCookie(r) \/ CookieUser(r) \/ RefreshUser(r) \/ VerifyBody(r)
GuardStep(r) == \/ AccessVerify(r) \/ GuardKeys(r) \/ GuardGet(r)
                \/ GuardBlacklisted(r) \/ GuardActiveUser(r) \/ RoleGuard(r)
LogoutStep(r) == LogoutUser(r) \/ LogoutSet(r) \/ LogoutReturn(r)

(* What the server does for a request, one await at a time. *)
Handle(r) == LoginStep(r) \/ RefreshStep(r) \/ GuardStep(r) \/ Serve(r) \/ LogoutStep(r)

Next ==
  \/ Tick \/ Crash
  \/ \E u \in Users : OperatorEdit(u)
  \/ \E r \in Requests : Arrive(r) \/ Handle(r) \/ BackendFails(r)

Spec == Init /\ [][Next]_vars

(* The event loop runs every handler whose await has returned. *)
FairSpec == Spec /\ \A r \in Requests : WF_vars(Handle(r))

-----------------------------------------------------------------------------
(* Properties *)

Request == [pc : Pcs, ep : AllEndpoints \cup {"none"}, user : Users \cup {NoUser},
            tok : Token \cup {NoToken}, body : Token \cup {NoToken},
            todo : SUBSET Nat, hit : BOOLEAN, at : Nat, admin : BOOLEAN,
            status : HttpStatuses]
Sight == [standings : SUBSET Standings, revoked : SUBSET Nat]

(* The type of the state, and what each stage of a handler has at hand: a  *)
(* login works for a user, every other route for the user of its token,    *)
(* which is one the server has handed out.                                 *)
RequestOK(r) ==
  /\ req[r] \in Request
  /\ seen[r] \in Sight
  /\ Busy(r) => req[r].user \in Users
  /\ req[r].pc \in RefreshPcs \cup GuardPcs \cup PastGuardPcs =>
       req[r].tok \in issued /\ req[r].user = req[r].tok.user
  /\ req[r].pc \in RefreshPcs => req[r].body \in issued
  /\ req[r].pc = "return" => [tok |-> req[r].tok, at |-> req[r].at] \in written

SharedOK ==
  /\ now \in Nat /\ edits \in Nat /\ failures \in Nat /\ arrivals \in Nat
  /\ account \in [Users -> Statuses] /\ admins \subseteq Users
  /\ issued \subseteq Token /\ cookies \subseteq issued
  /\ blacklist \subseteq Entry /\ written \subseteq Key /\ revoked \subseteq written

RequestsOK ==
  /\ DOMAIN req = Requests /\ DOMAIN seen = Requests
  /\ \A r \in Requests : RequestOK(r)

TypeOK == SharedOK /\ RequestsOK

(* A logged-out token stays on the blacklist for as long as it would verify: *)
(* AuthService.logout gives the entry the lifetime of the token from the     *)
(* logout on, in another unit and from another parser than signAsync.  Only  *)
(* another logout of the user in the same millisecond takes the entry over.  *)
LogoutKeptUntilExpiry ==
  \A w \in written : Live(w.tok) =>
    \E e \in blacklist : /\ e.at = w.at /\ e.tok.user = w.tok.user
                         /\ Overwritten(w.tok, w.at) \/ (e.tok = w.tok)

(* Whatever the lifetime, the entry of a logout that is stored in the very    *)
(* tick its token was signed ends no earlier than the token, if the unit is   *)
(* one of CoveredUnits, and does end earlier if it is not: with "1y", "12H"   *)
(* or "5 minutes" logout and the token read different times from one string.  *)
KeptLongEnough ==
  \A u \in Users, life \in Configurable :
    now + ConvertToSeconds(life) >= SignedNow(u).iat + JwtTicks(life)
      <=> life.unit \in CoveredUnits

(* AccessTokenGuard lets no request pass that came in after the logout of its *)
(* token was answered, while the token verifies, whatever else is stored,     *)
(* expires or is written between store.keys and each get: unless the entry    *)
(* was lost to another token's logout in the same millisecond.                *)
RevokedNeverServed ==
  \A r \in Requests :
    req[r].pc \in PastGuardPcs /\ Live(req[r].tok) =>
      \A at \in seen[r].revoked : Overwritten(req[r].tok, at)

(* The guards work on a snapshot, and operators edit accounts meanwhile: a   *)
(* request that is past AccessTokenGuard, or past RoleGuard on a route for   *)
(* admins, had an account that was active, and an admin, at one and the same *)
(* moment of the request.                                                    *)
AdmittedAsSeen ==
  \A r \in Requests :
    req[r].pc \in PastGuardPcs =>
      \E s \in seen[r].standings :
        /\ s[1] = "active"
        /\ (req[r].ep = "create" /\ req[r].pc = "serve") => s[2]

(* Why a guarded route may refuse a request. *)
Cause(r) ==
  \/ ~Live(req[r].tok)
  \/ \E w \in written : w.tok = req[r].tok
  \/ \E s \in seen[r].standings : s[1] # "active" \/ (req[r].ep = "create" /\ ~s[2])
  \/ failures' # failures

(* A guarded route refuses a request only if its token has expired or was    *)
(* logged out, if the account was not active (or not an admin's) at some     *)
(* moment of the request, or if a call failed.  Logouts of the user's other  *)
(* tokens, whose entries the guard reads as well, refuse nothing.            *)
RefusedOnlyForCause ==
  [][\A r \in Requests :
       /\ req[r].pc \in GuardPcs \cup PastGuardPcs
       /\ req'[r].pc = "idle" /\ req'[r].status \notin {0, 200, 201}
       => Cause(r)]_vars

(* The stages in the order in which the routes come to them. *)
Place == [find |-> 1, compare |-> 2, cookie |-> 3, cookieUser |-> 4, refreshUser |-> 5,
          body |-> 6, sign |-> 7, verify |-> 8, keys |-> 9, get |-> 10, user |-> 11,
          role |-> 12, serve |-> 13, logoutUser |-> 14, set |-> 15, return |-> 16]

(* No request does a thing twice, whatever the others do meanwhile: each step *)
(* of a handler answers it, takes it to a later await, or leaves the guard's  *)
(* loop with one key less of those that it listed at first.  So a request is  *)
(* over in a bounded number of steps of its own.                              *)
StepsAdvance ==
  [][\A r \in Requests :
       Busy(r) /\ req'[r] # req[r] =>
         \/ req'[r].pc = "idle"
         \/ Place[req[r].pc] < Place[req'[r].pc]
         \/ req'[r].pc = req[r].pc /\ req'[r].todo \subseteq req[r].todo
            /\ req'[r].todo # req[r].todo]_vars

(* Every request is answered in the end, or dropped by a crash: the guard's   *)
(* loop over the keys ends although other logouts add keys all the time.      *)
EveryRequestAnswered == \A r \in Requests : Busy(r) ~> ~Busy(r)

(* A logout of a session ends its refresh token too, as the comment in        *)
(* AuthService.logout has it ("delete the refresh token from cache"): a       *)
(* refresh that comes in after the logout was answered is not granted.        *)
LogoutEndsRefresh ==
  \A r \in Requests :
    req[r].ep = "refresh" /\ req[r].pc = "sign" => seen[r].revoked = {}

(* A login that is answered as "User successfully logged in" hands out a      *)
(* token that the guards accept: one that is not on the blacklist.            *)
LoginGivesUsableToken ==
  [][\A r \in Requests :
       req[r].ep = "login" /\ req[r].pc = "sign" /\ req'[r].status = 201
       => ~\E e \in blacklist : e.tok = SignedNow(req[r].user)]_vars
=============================================================================
