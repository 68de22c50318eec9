------------------------------- MODULE Seeder -------------------------------
(***************************************************************************)
(* The database seeder (prisma/seeder/seed.ts) against an application that *)
(* is already running, with runs that break off and are started again.     *)
(*                                                                         *)
(* main() fills four tables, each with one createMany that skips the rows  *)
(* that are there, then adds the default user and, apart, its two roles.   *)
(* Nothing of this is one transaction.  A signup in between gets the       *)
(* status with id 1 (the default of users.statusId).  An id that a failed  *)
(* insert has drawn is not drawn again: only whether 1 was drawn matters.  *)
(***************************************************************************)
EXTENDS Naturals, FiniteSets

CONSTANTS
  UserNames,      \* each stands for a username and its email
  DefaultUser,    \* the one of the default user
  StatusNames,    \* the names in statusTypes
  MaxFailures     \* bound: runs that break off

ASSUME DefaultUserAssumption == DefaultUser \in UserNames
ASSUME StatusNamesAssumption == {"active", "inactive"} \subseteq StatusNames
ASSUME MaxFailuresAssumption == MaxFailures \in Nat

VARIABLES
  pc,         \* where the run of the seeder is
  filled,     \* the tables whose rows are there
  statuses,   \* rows of statuses; first: the row has id 1
  drawn,      \* whether the id 1 of statuses was drawn
  users,      \* rows of users
  userRoles,  \* rows of user_roles
  failures    \* runs that broke off

vars == <<pc, filled, statuses, drawn, users, userRoles, failures>>

-----------------------------------------------------------------------------
(* Data.  A definition named Faulty... is its neighbour with a plausible bug; *)
(* nothing uses it, but with it in place the properties must fail.            *)

Tables == {"settings", "roles", "statuses", "providers"}
Roles == {"user", "admin"}
Running == Tables \cup {"hash", "user", "findRoles", "addRoles"}
Pcs == Running \cup {"off", "done", "failed"}

Status == [name : StatusNames, first : BOOLEAN]
User == [name : UserNames, by : {"seeder", "signup"}, status : StatusNames]
UserRole == [user : User, role : Roles]

FaultyFirstStatus == "inactive"  \* the list of statuses in another order
FirstStatus == "active"

(* createMany with skipDuplicates: the rows of the list that are missing. *)
MissingStatuses ==
  {[name |-> n, first |-> ~drawn /\ n = FirstStatus] :
     n \in StatusNames \ {s.name : s \in statuses}}

Taken(name) == \E u \in users : u.name = name

Goto(next) == pc' = next /\ UNCHANGED failures

-----------------------------------------------------------------------------
(* main() *)

Start ==
  /\ pc \notin Running
  /\ Goto("hash")
  /\ UNCHANGED <<filled, statuses, drawn, users, userRoles>>

(* The two bcrypt hashes. *)
Hash ==
  /\ pc = "hash"
  /\ Goto("settings")
  /\ UNCHANGED <<filled, statuses, drawn, users, userRoles>>

Fill(table) == filled' = filled \cup {table} /\ UNCHANGED <<users, userRoles>>

SeedSettings ==
  /\ pc = "settings"
  /\ Fill("settings") /\ Goto("roles")
  /\ UNCHANGED <<statuses, drawn>>

FaultySeedRoles ==  \* without skipDuplicates
  /\ pc = "roles"
  /\ IF "roles" \in filled
       THEN Goto("failed") /\ UNCHANGED <<filled, users, userRoles>>
       ELSE Fill("roles") /\ Goto("statuses")
  /\ UNCHANGED <<statuses, drawn>>
SeedRoles ==
  /\ pc = "roles"
  /\ Fill("roles") /\ Goto("statuses")
  /\ UNCHANGED <<statuses, drawn>>

AddStatuses ==
  /\ Fill("statuses")
  /\ statuses' = statuses \cup MissingStatuses
  /\ drawn' = TRUE

SeedStatuses ==
  /\ pc = "statuses"
  /\ AddStatuses /\ Goto("providers")

SeedProviders ==
  /\ pc = "providers"
  /\ Fill("providers") /\ Goto("user")
  /\ UNCHANGED <<statuses, drawn>>

(* user.create, with the status "active" connected. *)
SeededUser == [name |-> DefaultUser, by |-> "seeder", status |-> "active"]
AddUser ==
  /\ users' = users \cup {SeededUser}
  /\ UNCHANGED <<filled, statuses, drawn, userRoles>>

FaultySeedUser ==  \* an upsert: a user of that name is taken for the default user
  /\ pc = "user"
  /\ IF Taken(DefaultUser) THEN UNCHANGED <<filled, statuses, drawn, users, userRoles>>
                           ELSE AddUser
  /\ Goto("findRoles")
(* The default user is not skipped when it is there: the insert fails. *)
SeedUser ==
  /\ pc = "user"
  /\ IF Taken(DefaultUser)
       THEN Goto("failed") /\ UNCHANGED <<filled, statuses, drawn, users, userRoles>>
       ELSE AddUser /\ Goto("findRoles")

(* The two findFirst of the roles, while the list of rows is built. *)
FindRoles ==
  /\ pc = "findRoles"
  /\ Goto(IF "roles" \in filled THEN "addRoles" ELSE "failed")
  /\ UNCHANGED <<filled, statuses, drawn, users, userRoles>>

(* The rows have the id of the user that this run has added. *)
AddRoles ==
  /\ userRoles' = userRoles \cup
       {[user |-> u, role |-> role] : u \in {v \in users : v.name = DefaultUser}, role \in Roles}
  /\ UNCHANGED <<filled, statuses, drawn, users>>

SeedUserRoles == pc = "addRoles" /\ AddRoles /\ Goto("done")

(* The run breaks off, by an error or with its process.  The insert under way *)
(* is done all the same, or undone: then the ids it has drawn are lost.       *)
BreaksOff ==
  /\ pc \in Running
  /\ failures < MaxFailures
  /\ failures' = failures + 1
  /\ pc' = "failed"
  /\ \/ UNCHANGED <<filled, statuses, drawn, users, userRoles>>
     \/ pc \in {"settings", "roles", "providers"} /\ Fill(pc) /\ UNCHANGED <<statuses, drawn>>
     \/ pc = "statuses" /\ AddStatuses
     \/ pc = "statuses" /\ drawn' = TRUE /\ UNCHANGED <<filled, statuses, users, userRoles>>
     \/ pc = "user" /\ ~Taken(DefaultUser) /\ AddUser
     \/ pc = "addRoles" /\ AddRoles

(* A signup (see Accounts): the foreign key asks for the status with id 1. *)
Signup(name) ==
  /\ ~Taken(name)
  /\ \E s \in statuses :
       /\ s.first
       /\ users' = users \cup {[name |-> name, by |-> "signup", status |-> s.name]}
  /\ UNCHANGED <<pc, filled, statuses, drawn, userRoles, failures>>

-----------------------------------------------------------------------------
(* The specification *)

(* A database that was migrated and never filled. *)
Init ==
  /\ pc = "off" /\ failures = 0
  /\ filled = {} /\ statuses = {} /\ drawn = FALSE
  /\ users = {} /\ userRoles = {}

Step == \/ Hash \/ SeedSettings \/ SeedRoles \/ SeedStatuses \/ SeedProviders
        \/ SeedUser \/ FindRoles \/ SeedUserRoles

Next == Start \/ Step \/ BreaksOff \/ \E name \in UserNames : Signup(name)

Spec == Init /\ [][Next]_vars

(* A run goes on, and one that ended is started again. *)
FairSpec == Spec /\ WF_vars(Step) /\ WF_vars(Start)

-----------------------------------------------------------------------------
(* Properties *)

(* The types, and what a run has behind it when it is past a table. *)
TypeOK ==
  /\ pc \in Pcs /\ failures \in Nat /\ drawn \in BOOLEAN
  /\ filled \subseteq Tables
  /\ statuses \subseteq Status /\ users \subseteq User /\ userRoles \subseteq UserRole
  /\ pc \in {"user", "findRoles", "addRoles", "done"} => filled = Tables
  /\ "statuses" \in filled <=> {s.name : s \in statuses} = StatusNames
  /\ pc \in {"findRoles", "addRoles", "done"} => SeededUser \in users

(* Only the user that the seeder itself has added gets roles, and becomes an *)
(* admin: never somebody who signed up under its name before the seeder came *)
(* so far, however many runs broke off.                                      *)
AdminIsSeeded == \A x \in userRoles : x.user = SeededUser /\ x.user \in users

(* A run fails by itself only at the default user, whose name is taken: what  *)
(* earlier runs have left in the four tables never stops a later one.         *)
FailsAtTakenUser ==
  [][pc' = "failed" /\ pc \in Running /\ failures' = failures
     => pc = "user" /\ Taken(DefaultUser)]_vars

(* Who signs up is "active", as the guards ask for, although users.statusId   *)
(* says 1 and the guards say "active": the seeder lists "active" first, and   *)
(* when the insert of the statuses has failed, nobody can sign up at all.     *)
SignupsAreActive == \A u \in users : u.status = "active"

(* Somebody has the name of the default user, an earlier run's user or one   *)
(* who signed up, nobody has a role, and no run is about to add one.         *)
AdminMissed ==
  Taken(DefaultUser) /\ pc \notin {"findRoles", "addRoles"} /\ userRoles = {}

(* Then there will never be an admin: every later run fails at the name,     *)
(* whatever it adds before and whoever signs up.                             *)
AdminMissedForGood == [][AdminMissed => AdminMissed']_vars

(* Once the default user is there it gets its roles ("add roles to user"), if *)
(* only the seeder is run again until it has.                                 *)
DefaultUserGetsRoles ==
  SeededUser \in users ~>
    \A role \in Roles : [user |-> SeededUser, role |-> role] \in userRoles
=============================================================================
