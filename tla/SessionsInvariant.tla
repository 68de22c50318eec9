-------------------------- MODULE SessionsInvariant --------------------------
(***************************************************************************)
(* The inductive invariant of Sessions: what is true of the cache at any   *)
(* time, and what a request has found out at each stage of the guards.     *)
(***************************************************************************)
EXTENDS Sessions

SameKey(e, w) == e.at = w.at /\ e.tok.user = w.tok.user

(* A token was signed before it is used, and what the cache holds was stored. *)
TokensPast ==
  /\ \A tok \in issued : tok.iat <= now
  /\ \A w \in written : w.tok \in issued
  /\ \A e \in blacklist : [tok |-> e.tok, at |-> e.at] \in written

(* The ttl of an entry covers its token (see LifetimesCovered).  With another  *)
(* unit logouts lapse, and what is said of them below is not claimed.          *)
Covered == AccessExpiresIn.unit \in CoveredUnits

(* An entry stays for as long as every token ever stored under its key lives: *)
(* it is stored with the ttl counted from a time when all of them were out.   *)
EntriesOutlive ==
  \A e \in blacklist, w \in written :
    SameKey(e, w) => w.tok.iat + AccessTicks <= e.until

EntriesKept ==
  \A w \in written : Live(w.tok) => \E e \in blacklist : SameKey(e, w)

CacheInv == TokensPast /\ (Covered => EntriesOutlive /\ EntriesKept)

(* The loop over the keys, for each logout of the token that was answered     *)
(* before the request came in: its key is still to be read, or the entry was  *)
(* taken over, or the token has been found.                                   *)
ScanInv(r) ==
  /\ req[r].pc \in GuardPcs \cup PastGuardPcs =>
       \A at \in seen[r].revoked : [tok |-> req[r].tok, at |-> at] \in written
  /\ Covered /\ req[r].pc = "get" /\ Live(req[r].tok) /\ ~req[r].hit =>
       \A at \in seen[r].revoked : at \in req[r].todo \/ Overwritten(req[r].tok, at)
  /\ Covered /\ req[r].pc \in {"user"} \cup PastGuardPcs /\ Live(req[r].tok) =>
       \A at \in seen[r].revoked : Overwritten(req[r].tok, at)

(* The snapshot is one of the standings of the user during the request. *)
SnapshotInv(r) ==
  /\ Busy(r) => Standing(req[r].user) \in seen[r].standings
  /\ req[r].pc \in PastGuardPcs =>
       \E s \in seen[r].standings : s[1] = "active" /\ (req[r].admin => s[2])
  /\ req[r].pc = "serve" /\ req[r].ep = "create" => req[r].admin

(* What a refusal rests on: a token that was found was stored, and a snapshot *)
(* without the role was taken when the account had it not.                    *)
CauseInv(r) ==
  /\ req[r].hit => \E w \in written : w.tok = req[r].tok
  /\ req[r].pc = "role" => req[r].ep = "create"
  /\ req[r].pc = "role" /\ ~req[r].admin => \E s \in seen[r].standings : ~s[2]

(* The stages of each route. *)
OnRoute(pc, ep) ==
  /\ pc \in LoginPcs => ep = "login"
  /\ pc \in RefreshPcs => ep = "refresh"
  /\ pc = "sign" => ep \in {"login", "refresh"}
  /\ pc \in GuardPcs => ep \in {"me", "create", "logout"}
  /\ pc = "role" => ep = "create"
  /\ pc = "serve" => ep \in {"me", "create"}
  /\ pc \in {"logoutUser", "set", "return"} => ep = "logout"

RoutesInv == \A r \in Requests : OnRoute(req[r].pc, req[r].ep)

RequestInv == \A r \in Requests : ScanInv(r) /\ SnapshotInv(r)

IInv == TypeOK /\ CacheInv /\ RequestInv
=============================================================================
