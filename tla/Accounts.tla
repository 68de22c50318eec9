------------------------------ MODULE Accounts ------------------------------
(***************************************************************************)
(* New users: POST /auth/register (AuthService.validateSignup) and POST    *)
(* /user/create_user (UserController and UserService.createUser, behind    *)
(* the guards of Sessions).                                                *)
(*                                                                         *)
(* Both look whether the names are free, and insert the row later, with    *)
(* other requests in between: what keeps two rows apart are the unique     *)
(* indexes of the table.  create_user hashes the password before it looks, *)
(* register between the look and the insert.  A created user is announced  *)
(* by a job that createUser adds to the queue without waiting for it.      *)
(***************************************************************************)
EXTENDS Naturals, FiniteSets

CONSTANTS
  Requests,     \* the requests; a request that is tried again is another one
  Usernames, Emails,
  Roles,        \* the names of roles that requests ask for
  KnownRoles,   \* those in the table of roles
  MaxFailures   \* bound: failures of a call

ASSUME KnownRolesAssumption == KnownRoles \subseteq Roles
ASSUME FailuresAssumption == MaxFailures \in Nat

VARIABLES
  ask,        \* what each request asks for
  pc,         \* where its handler is
  answer,     \* the status it was answered with
  users,      \* rows of the table of users
  userRoles,  \* rows of the table of their roles
  adding,     \* jobs on their way to the queue
  jobs,       \* jobs in SendEmailQueue
  failures    \* calls that failed, and crashes

tables == <<users, userRoles>>
queue == <<adding, jobs>>
vars == <<ask, pc, answer, tables, queue, failures>>

-----------------------------------------------------------------------------
(* Data.  A definition named Faulty... is its neighbour with a plausible bug; *)
(* nothing uses it, but with it in place the properties must fail.            *)

Names == [username : Usernames, email : Emails]
RegisterAsks == [kind : {"register"}, names : Names, role : {"none"}]
CreateAsks == [kind : {"create"}, names : Names, role : Roles]
Asks == RegisterAsks \cup CreateAsks

RegisterPcs == {"find", "hash", "insert", "sign"}
CreatePcs == {"hashFirst", "look", "create"}
Pcs == {"idle", "done", "dropped"} \cup RegisterPcs \cup CreatePcs

(* 0: not answered.  NoStatus: the HttpException of createUser carries the    *)
(* status of the error, which an error of the database or of bcrypt has not.  *)
NoStatus == 1
HttpStatuses == {201, 400, 422, 500}
Answers == {0, NoStatus} \cup HttpStatuses

User == [id : Requests, username : Usernames, email : Emails]
UserRole == [user : Requests, role : Roles]

(* The row a request inserts: its uuid is modelled by the request. *)
NewUser(r) ==
  [id |-> r, username |-> ask[r].names.username, email |-> ask[r].names.email]

FaultyFound(r) == users # {}  \* a name left out of the body matches every row
(* findFirst with OR: a row has the username or the email asked for. *)
Found(r) == \E u \in users : \/ u.username = ask[r].names.username
                             \/ u.email = ask[r].names.email

FaultyInsertable(r) == TRUE  \* without the unique indexes
(* The unique indexes on email and on username let the row in. *)
Insertable(r) == ~Found(r)

HasRow(r) == \E u \in users : u.id = r

Goto(r, next) == pc' = [pc EXCEPT ![r] = next] /\ UNCHANGED answer

Answer(r, status) ==
  /\ pc' = [pc EXCEPT ![r] = "done"]
  /\ answer' = [answer EXCEPT ![r] = status]

(* What the end of the process leaves of a handler. *)
AfterEnd(r) == IF pc[r] \in RegisterPcs \cup CreatePcs THEN "dropped" ELSE pc[r]

(* An exception without a status: the filter passes undefined on to express,  *)
(* which throws inside the filter.  Nothing catches that, and node ends the   *)
(* process: what other requests have in flight is lost with it.               *)
AnswerWithoutStatus(r) ==
  /\ pc' = [q \in Requests |-> IF q = r THEN "done" ELSE AfterEnd(q)]
  /\ answer' = [answer EXCEPT ![r] = NoStatus]
  /\ adding' = {}

Arrive(r) ==
  /\ pc[r] = "idle"
  /\ Goto(r, IF ask[r].kind = "register" THEN "find" ELSE "hashFirst")
  /\ UNCHANGED <<ask, tables, queue, failures>>

-----------------------------------------------------------------------------
(* validateSignup: every error ends in its catch, as a 422. *)

RegisterFind(r) ==
  /\ pc[r] = "find"
  /\ IF Found(r) THEN Answer(r, 422) ELSE Goto(r, "hash")
  /\ UNCHANGED <<ask, tables, queue, failures>>

RegisterHash(r) ==
  /\ pc[r] = "hash"
  /\ Goto(r, "insert")
  /\ UNCHANGED <<ask, tables, queue, failures>>

RegisterInsert(r) ==
  /\ pc[r] = "insert"
  /\ IF Insertable(r)
       THEN users' = users \cup {NewUser(r)} /\ Goto(r, "sign")
       ELSE UNCHANGED users /\ Answer(r, 422)
  /\ UNCHANGED <<ask, userRoles, queue, failures>>

(* getTokensData and the reply. *)
RegisterSign(r) ==
  /\ pc[r] = "sign"
  /\ Answer(r, 201)
  /\ UNCHANGED <<ask, tables, queue, failures>>

-----------------------------------------------------------------------------
(* createUser *)

CreateHash(r) ==
  /\ pc[r] = "hashFirst"
  /\ Goto(r, "look")
  /\ UNCHANGED <<ask, tables, queue, failures>>

FaultyCreateFind(r) ==  \* announced before the row is added
  /\ pc[r] = "look"
  /\ IF Found(r) THEN Answer(r, 400) /\ UNCHANGED adding
                 ELSE Goto(r, "create") /\ adding' = adding \cup {r}
  /\ UNCHANGED <<ask, tables, jobs, failures>>
CreateFind(r) ==
  /\ pc[r] = "look"
  /\ IF Found(r) THEN Answer(r, 400) ELSE Goto(r, "create")
  /\ UNCHANGED <<ask, tables, queue, failures>>

(* One nested create: the row and its role, or neither. *)
FaultyRowWithRole(r) ==  \* the role is added apart, if there is one
  /\ users' = users \cup {NewUser(r)}
  /\ userRoles' = userRoles \cup
       {[user |-> r, role |-> known] : known \in KnownRoles \cap {ask[r].role}}
RowWithRole(r) ==
  /\ ask[r].role \in KnownRoles
  /\ users' = users \cup {NewUser(r)}
  /\ userRoles' = userRoles \cup {[user |-> r, role |-> ask[r].role]}

(* The job is added without await: the answer does not wait for the queue. *)
CreateInsert(r) ==
  /\ pc[r] = "create"
  /\ \/ /\ Insertable(r) /\ RowWithRole(r)
        /\ adding' = adding \cup {r}
        /\ Answer(r, 201)
     \/ /\ ~(Insertable(r) /\ ask[r].role \in KnownRoles)
        /\ AnswerWithoutStatus(r)
        /\ UNCHANGED tables
  /\ UNCHANGED <<ask, jobs, failures>>

FaultyQueueAdd(r) ==  \* the promise is dropped, not only not waited for
  /\ r \in adding
  /\ adding' = adding \ {r}
  /\ UNCHANGED <<ask, pc, answer, tables, jobs, failures>>
QueueAdd(r) ==
  /\ r \in adding
  /\ adding' = adding \ {r}
  /\ jobs' = jobs \cup {r}
  /\ UNCHANGED <<ask, pc, answer, tables, failures>>

-----------------------------------------------------------------------------
(* Failures *)

FaultyFailStatus(r) == IF pc[r] = "create" THEN 201 ELSE 422  \* the catch swallows the error
(* An error of the database has no status for createUser to pass on. *)
FailStatus(r) == IF pc[r] \in RegisterPcs THEN 422 ELSE NoStatus

(* A call of the database, of bcrypt or of signing fails; an insert may have *)
(* been done all the same.                                                   *)
CallFails(r) ==
  /\ pc[r] \in RegisterPcs \cup CreatePcs
  /\ failures < MaxFailures
  /\ failures' = failures + 1
  /\ IF FailStatus(r) = NoStatus
       THEN AnswerWithoutStatus(r)
       ELSE Answer(r, FailStatus(r)) /\ UNCHANGED adding
  /\ \/ UNCHANGED tables
     \/ /\ pc[r] = "insert" /\ Insertable(r)
        /\ users' = users \cup {NewUser(r)} /\ UNCHANGED userRoles
     \/ pc[r] = "create" /\ Insertable(r) /\ RowWithRole(r)
  /\ UNCHANGED <<ask, jobs>>

(* The process ends, also on the rejection of an add nobody waits for: what *)
(* is in flight is lost, the tables and the queue stay.                     *)
Crash ==
  /\ failures < MaxFailures
  /\ failures' = failures + 1
  /\ pc' = [r \in Requests |-> AfterEnd(r)]
  /\ adding' = {}
  /\ UNCHANGED <<ask, answer, tables, jobs>>

-----------------------------------------------------------------------------
(* The specification *)

Init ==
  /\ ask \in [Requests -> Asks]
  /\ pc = [r \in Requests |-> "idle"]
  /\ answer = [r \in Requests |-> 0]
  /\ users = {} /\ userRoles = {}
  /\ adding = {} /\ jobs = {}
  /\ failures = 0

RegisterStep(r) == RegisterFind(r) \/ RegisterHash(r) \/ RegisterInsert(r) \/ RegisterSign(r)
CreateStep(r) == CreateHash(r) \/ CreateFind(r) \/ CreateInsert(r)
Handle(r) == RegisterStep(r) \/ CreateStep(r)

Next == \/ Crash
        \/ \E r \in Requests : Arrive(r) \/ Handle(r) \/ QueueAdd(r) \/ CallFails(r)

Spec == Init /\ [][Next]_vars

(* The event loop runs each handler on, and the pending add. *)
FairSpec == Spec /\ \A r \in Requests : WF_vars(Handle(r)) /\ WF_vars(QueueAdd(r))

-----------------------------------------------------------------------------
(* Properties *)

(* The types, and where a handler stands: a request has an answer once it is *)
(* done, a row only from its insert on, and a job only with its row.         *)
StageOK(r) ==
  /\ pc[r] = "done" <=> answer[r] # 0
  /\ pc[r] \in RegisterPcs => ask[r].kind = "register"
  /\ pc[r] \in CreatePcs => ask[r].kind = "create"
  /\ HasRow(r) => pc[r] \in {"sign", "done", "dropped"}
  /\ pc[r] = "sign" => HasRow(r)
  /\ r \in adding \cup jobs => HasRow(r) /\ answer[r] = 201

TypeOK ==
  /\ ask \in [Requests -> Asks] /\ pc \in [Requests -> Pcs]
  /\ answer \in [Requests -> Answers]
  /\ users \subseteq User /\ userRoles \subseteq UserRole
  /\ adding \subseteq Requests /\ jobs \subseteq Requests
  /\ failures \in Nat
  /\ \A r \in Requests : StageOK(r)

(* No two users share a username or an email, although register and         *)
(* create_user look and insert apart: the second insert is refused.         *)
UniqueRows ==
  \A u, v \in users :
    u.username = v.username \/ u.email = v.email => u = v

(* A request answered with 201 has its user, with the names it asked for and, *)
(* from create_user, with the role.                                           *)
CreatedIsThere ==
  \A r \in Requests :
    answer[r] = 201 =>
      /\ NewUser(r) \in users
      /\ ask[r].kind = "create" => [user |-> r, role |-> ask[r].role] \in userRoles

(* A user that create_user added has its role, and roles belong to users,     *)
(* whatever fails and whenever the process ends: createUser nests the two     *)
(* inserts in one create.                                                     *)
RolesWithUser ==
  /\ \A u \in users : ask[u.id].kind = "create" =>
       [user |-> u.id, role |-> ask[u.id].role] \in userRoles
  /\ \A x \in userRoles : HasRow(x.user) /\ x.role \in KnownRoles

(* Another user has one of the names that r asks for. *)
TakenByOther(r) ==
  \E u \in users : /\ u.id # r
                   /\ \/ u.username = ask[r].names.username
                      \/ u.email = ask[r].names.email

(* "Username or email already exist" (400) is true of another user, and the   *)
(* request left none.  Without a failed call, the other refusals have a cause *)
(* too: a name that is taken, or a role that is not there.                    *)
RefusedForCause ==
  \A r \in Requests :
    /\ answer[r] = 400 => TakenByOther(r) /\ ~HasRow(r)
    /\ answer[r] \in {422, NoStatus} /\ failures = 0 =>
         ~HasRow(r) /\ (TakenByOther(r) \/ ask[r].role \in Roles \ KnownRoles)

(* The process has ended, or may have: a call has failed, or some create_user *)
(* was answered with an exception that has no status.                         *)
Disturbed == failures > 0 \/ \E r \in Requests : answer[r] = NoStatus

(* A job announces a user whom create_user has added and answered for, and is *)
(* added once: it is on its way or in the queue, not both.  Unless the process *)
(* has ended, no such user goes without: nothing waits for the add, but no     *)
(* other request can make it be forgotten.                                    *)
JobsMatchUsers ==
  /\ adding \cap jobs = {}
  /\ \A r \in adding \cup jobs : NewUser(r) \in users /\ ask[r].kind = "create"
  /\ \A r \in Requests :
       answer[r] = 201 /\ ask[r].kind = "create" => r \in adding \cup jobs \/ Disturbed

(* The job of a created user gets to the queue, although nothing waits for    *)
(* it, unless the process ends: on a failed call, in a crash, or because      *)
(* another create_user was refused by the database.                           *)
JobIsQueued ==
  \A r \in Requests :
    (answer[r] = 201 /\ ask[r].kind = "create") ~> (r \in jobs \/ Disturbed)

(* The two handlers implement the directory: names are claimed in one step,  *)
(* for good, and "created" is said only of a claim that stands.              *)
OutcomeOf(status) ==
  IF status = 0 THEN "none"
  ELSE IF status = 201 THEN "created"
  ELSE IF status = 400 THEN "taken" ELSE "unable"

Directory == INSTANCE UserDirectory WITH
  wanted <- [r \in Requests |-> ask[r].names],
  rows <- users,
  outcome <- [r \in Requests |-> OutcomeOf(answer[r])]

ImplementsDirectory == Directory!DirSpec

(* A signup that is answered "Unable to create user" has created none. *)
UnableLeavesNoRow == \A r \in Requests : answer[r] = 422 => ~HasRow(r)

(* createUser in the controller answers its errors with "error?.status || 500". *)
AnswerHasHttpStatus == \A r \in Requests : answer[r] # NoStatus
=============================================================================
