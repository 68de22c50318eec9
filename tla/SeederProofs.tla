---------------------------- MODULE SeederProofs ----------------------------
(***************************************************************************)
(* The safety of the seeder, for any names, statuses and broken runs.      *)
(***************************************************************************)
EXTENDS Seeder, TLAPS

(* What a run has behind it before it is past the tables. *)
Behind ==
  /\ pc = "roles" => "settings" \in filled
  /\ pc = "statuses" => {"settings", "roles"} \subseteq filled
  /\ pc = "providers" => {"settings", "roles", "statuses"} \subseteq filled

(* Names are taken once, and the seeder has added no other user than its own; *)
(* the id 1 is drawn by the first status of the list, or by none.             *)
RowsInv ==
  /\ \A u, v \in users : u.name = v.name => u = v
  /\ \A u \in users : u.by = "seeder" => u = SeededUser
  /\ \A s \in statuses : s.first => s.name = FirstStatus

IInv == TypeOK /\ Behind /\ RowsInv /\ AdminIsSeeded /\ SignupsAreActive

LEMMA InitInv == Init => IInv
PROOF
<1> SUFFICES ASSUME Init PROVE IInv
  OBVIOUS
<1>1. {s.name : s \in statuses} # StatusNames
  BY StatusNamesAssumption DEF Init
<1> QED
  BY <1>1 DEF Init, IInv, TypeOK, Behind, RowsInv, AdminIsSeeded, SignupsAreActive, Pcs

(* A step that leaves the rows, and moves on over what is there. *)
LEMMA QuietKeeps ==
  ASSUME IInv, UNCHANGED <<statuses, users, userRoles>>, drawn' \in BOOLEAN, failures' \in Nat,
         pc' \in Pcs, filled \subseteq filled', filled' \subseteq Tables,
         "statuses" \in filled' => "statuses" \in filled, Behind',
         pc' \in {"user", "findRoles", "addRoles", "done"} => filled' = Tables,
         pc' \in {"findRoles", "addRoles", "done"} => SeededUser \in users
  PROVE  IInv'
PROOF
<1>1. TypeOK'
  BY DEF IInv, TypeOK
<1> QED
  BY <1>1 DEF IInv, RowsInv, AdminIsSeeded, SignupsAreActive

(* A missing row is one of the list, and the first of the list if any is first. *)
LEMMA MissingOK ==
  \A s \in MissingStatuses : s \in Status /\ (s.first => s.name = FirstStatus)
PROOF
<1> SUFFICES ASSUME NEW n \in StatusNames
             PROVE  LET s == [name |-> n, first |-> ~drawn /\ n = FirstStatus]
                    IN  s \in Status /\ (s.first => s.name = FirstStatus)
  BY DEF MissingStatuses
<1> DEFINE first == ~drawn /\ n = FirstStatus
<1>1. first \in BOOLEAN /\ (first => n = FirstStatus)
  OBVIOUS
<1> HIDE DEF first
<1>2. LET s == [name |-> n, first |-> first] IN s \in Status /\ (s.first => s.name = FirstStatus)
  BY <1>1 DEF Status
<1> QED
  BY <1>2 DEF first

(* createMany of the statuses: all of them are there, and "active" is first. *)
LEMMA StatusesKeep ==
  ASSUME IInv, AddStatuses, pc' \in {"providers", "failed"}, failures' \in Nat,
         {"settings", "roles"} \subseteq filled
  PROVE  IInv'
PROOF
<1>1. /\ filled' = filled \cup {"statuses"} /\ drawn' = TRUE /\ UNCHANGED <<users, userRoles>>
      /\ statuses' = statuses \cup MissingStatuses
  BY DEF AddStatuses, Fill
<1>2. MissingStatuses \subseteq Status
  BY MissingOK
<1>3. {s.name : s \in statuses'} = StatusNames
  <2>1. ASSUME NEW n \in StatusNames PROVE \E s \in statuses' : s.name = n
    <3>1. CASE n \in {s.name : s \in statuses}
      BY <1>1, <3>1
    <3>2. CASE n \notin {s.name : s \in statuses}
      <4> DEFINE row == [name |-> n, first |-> ~drawn /\ n = FirstStatus]
      <4>1. row \in MissingStatuses /\ row.name = n
        BY <3>2 DEF MissingStatuses
      <4> QED
        BY <1>1, <4>1
    <3> QED
      BY <3>1, <3>2
  <2>2. \A s \in statuses' : s.name \in StatusNames
    BY <1>1, <1>2 DEF IInv, TypeOK, Status
  <2> QED
    BY <2>1, <2>2
<1>4. TypeOK'
  BY <1>1, <1>2, <1>3 DEF IInv, TypeOK, Tables, Pcs, Running
<1>5. \A s \in statuses' : s.first => s.name = FirstStatus
  BY <1>1, MissingOK DEF IInv, RowsInv
<1> QED
  BY <1>1, <1>4, <1>5 DEF IInv, Behind, RowsInv, AdminIsSeeded, SignupsAreActive

(* A user is added, by the seeder or by a signup, whose name was free. *)
LEMMA UserKeeps ==
  ASSUME IInv, UNCHANGED <<filled, statuses, drawn, userRoles>>, failures' \in Nat,
         NEW user \in User, ~Taken(user.name), user.status = "active",
         user.by = "seeder" => user = SeededUser, users' = users \cup {user},
         pc' = pc \/ (pc' \in {"findRoles", "failed"} /\ filled = Tables /\ user = SeededUser)
  PROVE  IInv'
PROOF
<1>1. TypeOK'
  BY DEF IInv, TypeOK, Pcs, Running
<1>2. RowsInv'
  <2>1. \A u \in users : u.name # user.name
    BY DEF Taken
  <2> QED
    BY <2>1 DEF IInv, RowsInv
<1>3. Behind' /\ AdminIsSeeded' /\ SignupsAreActive'
  BY DEF IInv, Behind, AdminIsSeeded, SignupsAreActive
<1> QED
  BY <1>1, <1>2, <1>3 DEF IInv

(* The roles go to the user that this run has added: there is no other of its *)
(* name.                                                                      *)
LEMMA RolesKeep ==
  ASSUME IInv, pc = "addRoles", AddRoles, pc' \in {"done", "failed"}, failures' \in Nat
  PROVE  IInv'
PROOF
<1>1. SeededUser \in users /\ filled = Tables
  BY DEF IInv, TypeOK
<1>2. {v \in users : v.name = DefaultUser} = {SeededUser}
  BY <1>1 DEF IInv, RowsInv, SeededUser
<1>3. /\ userRoles' = userRoles \cup {[user |-> u, role |-> role] : u \in {SeededUser}, role \in Roles}
      /\ UNCHANGED <<filled, statuses, drawn, users>>
  BY <1>2 DEF AddRoles
<1>4. TypeOK'
  BY <1>1, <1>3 DEF IInv, TypeOK, UserRole, Pcs
<1>5. AdminIsSeeded'
  BY <1>1, <1>3 DEF IInv, AdminIsSeeded
<1> QED
  BY <1>3, <1>4, <1>5 DEF IInv, Behind, RowsInv, SignupsAreActive

LEMMA SeededUserOK ==
  SeededUser \in User /\ SeededUser.name = DefaultUser /\ SeededUser.status = "active"
PROOF
  BY DefaultUserAssumption, StatusNamesAssumption DEF SeededUser, User

LEMMA SignupKeeps ==
  ASSUME IInv, NEW name \in UserNames, Signup(name)
  PROVE  IInv'
PROOF
<1>1. PICK s \in statuses :
        s.first /\ users' = users \cup {[name |-> name, by |-> "signup", status |-> s.name]}
  BY DEF Signup
<1>2. s.name = "active" /\ s.name \in StatusNames
  BY <1>1, StatusNamesAssumption DEF IInv, RowsInv, FirstStatus
<1> DEFINE user == [name |-> name, by |-> "signup", status |-> s.name]
<1>3. user \in User /\ user.name = name /\ user.by = "signup" /\ user.status = "active"
  BY <1>2 DEF User
<1>4. users' = users \cup {user}
  BY <1>1
<1> HIDE DEF user
<1> QED
  BY <1>3, <1>4, UserKeeps DEF Signup, IInv, TypeOK

LEMMA StepInv == IInv /\ [Next]_vars => IInv'
PROOF
<1> SUFFICES ASSUME IInv, [Next]_vars PROVE IInv'
  OBVIOUS
<1>1. failures \in Nat /\ failures + 1 \in Nat /\ drawn \in BOOLEAN /\ filled \subseteq Tables
  BY DEF IInv, TypeOK
<1> USE DEF Pcs, Running, Tables
<1>2. CASE Start \/ Hash \/ FindRoles
  BY <1>1, <1>2, QuietKeeps DEF Start, Hash, FindRoles, Goto, Behind, IInv, TypeOK
<1>3. CASE SeedSettings \/ SeedRoles \/ SeedProviders
  <2>1. /\ UNCHANGED <<statuses, drawn, users, userRoles, failures>>
        /\ \/ pc = "settings" /\ pc' = "roles" /\ filled' = filled \cup {"settings"}
           \/ pc = "roles" /\ pc' = "statuses" /\ filled' = filled \cup {"roles"}
           \/ pc = "providers" /\ pc' = "user" /\ filled' = filled \cup {"providers"}
    BY <1>3 DEF SeedSettings, SeedRoles, SeedProviders, Fill, Goto
  <2> QED
    BY <1>1, <2>1, QuietKeeps DEF IInv, Behind
<1>4. CASE SeedStatuses
  BY <1>1, <1>4, StatusesKeep DEF SeedStatuses, Goto, IInv, Behind
<1>5. CASE SeedUser
  <2>1. CASE Taken(DefaultUser)
    BY <1>1, <1>5, <2>1, QuietKeeps DEF SeedUser, Goto, Behind
  <2>2. CASE ~Taken(DefaultUser)
    BY <1>1, <1>5, <2>2, SeededUserOK, UserKeeps DEF SeedUser, AddUser, Goto, IInv, TypeOK
  <2> QED
    BY <2>1, <2>2
<1>6. CASE SeedUserRoles
  BY <1>1, <1>6, RolesKeep DEF SeedUserRoles, Goto
<1>7. CASE BreaksOff
  <2>1. pc' = "failed" /\ failures' = failures + 1
    BY <1>7 DEF BreaksOff
  <2>2. CASE UNCHANGED <<filled, statuses, drawn, users, userRoles>>
    BY <1>1, <2>1, <2>2, QuietKeeps DEF Behind
  <2>3. CASE pc \in {"settings", "roles", "providers"} /\ Fill(pc) /\ UNCHANGED <<statuses, drawn>>
    BY <1>1, <2>1, <2>3, QuietKeeps DEF Fill, Behind
  <2>4. CASE pc = "statuses" /\ AddStatuses
    BY <1>1, <2>1, <2>4, StatusesKeep DEF IInv, Behind
  <2>5. CASE pc = "statuses" /\ drawn' = TRUE /\ UNCHANGED <<filled, statuses, users, userRoles>>
    BY <1>1, <2>1, <2>5, QuietKeeps DEF Behind
  <2>6. CASE pc = "user" /\ ~Taken(DefaultUser) /\ AddUser
    BY <1>1, <2>1, <2>6, SeededUserOK, UserKeeps DEF AddUser, IInv, TypeOK
  <2>7. CASE pc = "addRoles" /\ AddRoles
    BY <1>1, <2>1, <2>7, RolesKeep
  <2> QED
    BY <1>7, <2>2, <2>3, <2>4, <2>5, <2>6, <2>7 DEF BreaksOff
<1>8. CASE UNCHANGED vars
  BY <1>1, <1>8, QuietKeeps DEF vars, IInv, TypeOK, Behind
<1> QED
  BY <1>2, <1>3, <1>4, <1>5, <1>6, <1>7, <1>8, SignupKeeps DEF Next, Step

LEMMA Invariance == Spec => []IInv
PROOF
  BY InitInv, StepInv, PTL DEF Spec

-----------------------------------------------------------------------------
(* The theorems *)

(* The types, and what a run of main() has behind it. *)
THEOREM TypeCorrect == Spec => []TypeOK
PROOF
<1>1. IInv => TypeOK
  BY DEF IInv
<1> QED
  BY <1>1, Invariance, PTL

(* "add roles to user" makes nobody an admin who has signed up. *)
THEOREM OnlySeededAdmins == Spec => []AdminIsSeeded
PROOF
<1>1. IInv => AdminIsSeeded
  BY DEF IInv
<1> QED
  BY <1>1, Invariance, PTL

(* The default of users.statusId is the status that the guards ask for. *)
THEOREM SignupsPassGuards == Spec => []SignupsAreActive
PROOF
<1>1. IInv => SignupsAreActive
  BY DEF IInv
<1> QED
  BY <1>1, Invariance, PTL

(* The seeder can be run again: what is there stops it at the user alone. *)
THEOREM RerunsReachUser == Spec => FailsAtTakenUser
PROOF
<1>1. IInv /\ [Next]_vars =>
        [pc' = "failed" /\ pc \in Running /\ failures' = failures
           => pc = "user" /\ Taken(DefaultUser)]_vars
  <2> SUFFICES ASSUME IInv, Next, pc' = "failed", pc \in Running, failures' = failures
               PROVE  pc = "user" /\ Taken(DefaultUser)
    BY DEF vars
  <2>1. ~BreaksOff
    BY DEF BreaksOff, IInv, TypeOK
  <2>2. ~Start /\ ~Hash /\ ~SeedSettings /\ ~SeedRoles /\ ~SeedStatuses /\ ~SeedProviders
          /\ ~SeedUserRoles
    BY DEF Start, Hash, SeedSettings, SeedRoles, SeedStatuses, SeedProviders, SeedUserRoles, Goto
  <2>3. ~FindRoles
    BY DEF FindRoles, Goto, IInv, TypeOK, Tables
  <2>4. ASSUME NEW name \in UserNames PROVE ~Signup(name)
    BY DEF Signup, Running, Tables
  <2>5. SeedUser
    BY <2>1, <2>2, <2>3, <2>4 DEF Next, Step
  <2> QED
    BY <2>5 DEF SeedUser, Goto
<1> QED
  BY <1>1, Invariance, PTL DEF Spec, FailsAtTakenUser

(* Once the default user's name is taken and its roles are not there, they    *)
(* never will be, whatever runs are started and whoever signs up: user.create *)
(* fails from then on, and the roles come after it.                           *)
THEOREM MissedAdminIsFinal == Spec => AdminMissedForGood
PROOF
<1>1. [Next]_vars => [AdminMissed => AdminMissed']_vars
  <2> SUFFICES ASSUME Next, AdminMissed PROVE AdminMissed'
    BY DEF vars
  <2>1. Taken(DefaultUser) /\ pc \notin {"findRoles", "addRoles"} /\ userRoles = {}
    BY DEF AdminMissed
  <2>2. users \subseteq users' => Taken(DefaultUser)'
    BY <2>1 DEF Taken
  <2>3. CASE Start \/ Hash \/ SeedSettings \/ SeedRoles \/ SeedStatuses \/ SeedProviders
    BY <2>1, <2>2, <2>3 DEF Start, Hash, SeedSettings, SeedRoles, SeedStatuses, SeedProviders,
         Fill, AddStatuses, Goto, AdminMissed
  <2>4. CASE SeedUser
    BY <2>1, <2>2, <2>4 DEF SeedUser, Goto, AdminMissed
  <2>5. ~FindRoles /\ ~SeedUserRoles
    BY <2>1 DEF FindRoles, SeedUserRoles
  <2>6. CASE BreaksOff
    BY <2>1, <2>2, <2>6 DEF BreaksOff, Fill, AddStatuses, AddUser, AdminMissed
  <2>7. ASSUME NEW name \in UserNames, Signup(name) PROVE AdminMissed'
    BY <2>1, <2>2, <2>7 DEF Signup, AdminMissed
  <2> QED
    BY <2>3, <2>4, <2>5, <2>6, <2>7 DEF Next, Step
<1> QED
  BY <1>1, PTL DEF Spec, AdminMissedForGood
=============================================================================
