--------------------------- MODULE UserDirectory ---------------------------
(***************************************************************************)
(* What the two ways to create a user promise together: a directory in     *)
(* which a request claims a username and an email in one step, keeps what  *)
(* it claimed, and is told "created" only if it did.                       *)
(***************************************************************************)
CONSTANTS
  Requests,   \* requests for a new user; each names the row it may add
  Usernames, Emails

VARIABLES
  wanted,     \* wanted[r]: the username and the email r asks for
  rows,       \* the users there are
  outcome     \* what each request was told

dirVars == <<wanted, rows, outcome>>

Names == [username : Usernames, email : Emails]
Outcomes == {"none", "created", "taken", "unable"}

(* The row of request r: its uuid is as good as the request's own name. *)
RowOf(r) == [id |-> r, username |-> wanted[r].username, email |-> wanted[r].email]

Has(r) == \E row \in rows : row.id = r

(* A row stands in the way of r. *)
Clash(row, r) == row.username = wanted[r].username \/ row.email = wanted[r].email
Taken(r) == \E row \in rows : row.id # r /\ Clash(row, r)

DirInit ==
  /\ wanted \in [Requests -> Names]
  /\ rows = {}
  /\ outcome = [r \in Requests |-> "none"]

Tell(r, what) ==
  /\ outcome[r] = "none"
  /\ outcome' = [outcome EXCEPT ![r] = what]

(* A request that was told nothing yet claims names that nobody has.  It may *)
(* be told in the same step, also that it failed: the claim stands.          *)
Claim(r) ==
  /\ outcome[r] = "none" /\ ~Has(r) /\ ~Taken(r)
  /\ rows' = rows \cup {RowOf(r)}
  /\ \E what \in {"none", "created", "unable"} : outcome' = [outcome EXCEPT ![r] = what]
  /\ UNCHANGED wanted

Created(r) == Has(r) /\ Tell(r, "created") /\ UNCHANGED <<wanted, rows>>
Refused(r) == Taken(r) /\ ~Has(r) /\ Tell(r, "taken") /\ UNCHANGED <<wanted, rows>>
Unable(r) == Tell(r, "unable") /\ UNCHANGED <<wanted, rows>>

DirNext == \E r \in Requests :
  Claim(r) \/ Created(r) \/ Refused(r) \/ Unable(r)

DirSpec == DirInit /\ [][DirNext]_dirVars
=============================================================================
