--------------------------- MODULE AccessControl ---------------------------
(***************************************************************************)
(* What the guards, login, refresh and logout promise together: a request  *)
(* is granted only if each of its tokens was valid, and its account was    *)
(* entitled to the route, each at one moment of the request, and not if a  *)
(* logout of its token was answered before it came in.  There is no cache  *)
(* here, no clock, no loop over keys and no snapshot of the account.       *)
(***************************************************************************)
CONSTANTS
  Users, Requests, Statuses,
  NoToken     \* the token of a login; every other token has a user

VARIABLES
  account, admins,  \* the status of every user, and those who are admins
  issued,           \* the tokens handed out
  cookies,          \* those set as a cookie
  valid,            \* <<kind, token>> that a verification accepts now
  stored,           \* the logouts on record, each of a token at a time
  ended,            \* those that were answered
  desk              \* each request: away, with an answer, or being decided

accountsHeld == <<account, admins>>
tokensHeld == <<issued, cookies, valid>>
logoutsHeld == <<stored, ended>>
accessVars == <<accountsHeld, tokensHeld, logoutsHeld, desk>>

Guarded == {"me", "create", "logout"}

Away(answer) == [ep |-> "none", answer |-> answer]
Present(r) == desk[r].ep # "none"

AccessInit ==
  /\ account \in [Users -> Statuses] /\ admins \subseteq Users
  /\ issued = {} /\ cookies = {} /\ valid = {} /\ stored = {} /\ ended = {}
  /\ desk = [r \in Requests |-> Away("none")]

(* A request brings its papers, and finds logouts of its token answered. *)
Come(r, ep, u, tok, papers) ==
  desk' = [desk EXCEPT ![r] =
    [ep |-> ep, user |-> u, tok |-> tok, papers |-> papers, cleared |-> FALSE,
     barred |-> {k.at : k \in {w \in ended : w.tok = tok}}]]

Arrive(r) ==
  /\ ~Present(r)
  /\ \/ \E u \in Users : Come(r, "login", u, NoToken, {})
     \/ \E cookie \in cookies, body \in issued :
          Come(r, "refresh", cookie.user, cookie,
               {<<"refresh", cookie>>, <<"refresh", body>>})
     \/ \E ep \in Guarded, tok \in issued :
          Come(r, ep, tok.user, tok, {<<"access", tok>>})
  /\ UNCHANGED <<accountsHeld, tokensHeld, logoutsHeld>>

(* One of the papers is looked at, and is valid now. *)
Show(r) ==
  /\ Present(r)
  /\ \E paper \in desk[r].papers \cap valid :
       desk' = [desk EXCEPT ![r].papers = @ \ {paper}]
  /\ UNCHANGED <<accountsHeld, tokensHeld, logoutsHeld>>

Entitled(ep, u) ==
  IF ep = "login" THEN account[u] # "absent"
                  ELSE account[u] = "active" /\ (ep = "create" => u \in admins)

(* The record of a logout was taken over by another token's, of the same    *)
(* user at the same time.                                                   *)
TakenOver(tok, at) ==
  \E k \in stored : k.at = at /\ k.tok.user = tok.user /\ k.tok # tok

Barred(r) ==
  /\ desk[r].ep \in Guarded /\ <<"access", desk[r].tok>> \in valid
  /\ \E at \in desk[r].barred : ~TakenOver(desk[r].tok, at)

(* The account is entitled now, and the token is not known to be logged out. *)
Clear(r) ==
  /\ Present(r) /\ ~desk[r].cleared
  /\ Entitled(desk[r].ep, desk[r].user) /\ ~Barred(r)
  /\ desk' = [desk EXCEPT ![r].cleared = TRUE]
  /\ UNCHANGED <<accountsHeld, tokensHeld, logoutsHeld>>

Settled(r) == Present(r) /\ desk[r].cleared /\ desk[r].papers = {}

(* A token of the user is handed out, which may have expired already. *)
Issue(u, cookie) ==
  \E tok \in issued' :
    /\ tok.user = u
    /\ issued' = issued \cup {tok}
    /\ cookies' = IF cookie THEN cookies \cup {tok} ELSE cookies
    /\ valid \subseteq valid' /\ valid' \subseteq valid \cup {<<"access", tok>>, <<"refresh", tok>>}

Grant(r) ==
  /\ Settled(r)
  /\ desk' = [desk EXCEPT ![r] = Away("granted")]
  /\ \/ /\ desk[r].ep \in {"me", "create"}
        /\ UNCHANGED <<tokensHeld, logoutsHeld>>
     \/ /\ desk[r].ep \in {"login", "refresh"}
        /\ Issue(desk[r].user, desk[r].ep = "login")
        /\ UNCHANGED logoutsHeld
     \/ /\ desk[r].ep = "logout"
        /\ \E k \in stored : k.tok = desk[r].tok /\ ended' = ended \cup {k}
        /\ UNCHANGED <<tokensHeld, stored>>
  /\ UNCHANGED accountsHeld

(* A logout goes on record, of its own token alone.  It may fail for all that. *)
Record(r) ==
  /\ Settled(r) /\ desk[r].ep = "logout"
  /\ \E k \in stored' : k.tok = desk[r].tok /\ stored' = stored \cup {k}
  /\ desk' \in {desk, [desk EXCEPT ![r] = Away("refused")]}
  /\ UNCHANGED <<accountsHeld, tokensHeld, ended>>

Refuse(r) ==
  /\ desk' = [desk EXCEPT ![r] = Away("refused")]
  /\ UNCHANGED <<accountsHeld, tokensHeld, logoutsHeld>>

DropAll ==
  /\ desk' = [r \in Requests |-> IF Present(r) THEN Away("none") ELSE desk[r]]
  /\ UNCHANGED <<accountsHeld, tokensHeld, logoutsHeld>>

Edit(u) ==
  /\ \E status \in Statuses, admin \in BOOLEAN :
       /\ status = "absent" => ~admin
       /\ account' = [account EXCEPT ![u] = status]
       /\ admins' = IF admin THEN admins \cup {u} ELSE admins \ {u}
  /\ UNCHANGED <<tokensHeld, logoutsHeld, desk>>

Expire ==
  /\ valid' \subseteq valid
  /\ UNCHANGED <<accountsHeld, issued, cookies, logoutsHeld, desk>>

AccessNext ==
  \/ DropAll \/ Expire
  \/ \E u \in Users : Edit(u)
  \/ \E r \in Requests :
       Arrive(r) \/ Show(r) \/ Clear(r) \/ Grant(r) \/ Record(r) \/ Refuse(r)

AccessSpec == AccessInit /\ [][AccessNext]_accessVars
=============================================================================
