------------------------ MODULE AccountsSafetyProofs ------------------------
(***************************************************************************)
(* The safety of Accounts, and that it implements UserDirectory, for all   *)
(* requests, names and roles.                                              *)
(*                                                                         *)
(* Seen from the tables and the answers, a step does one of three things:  *)
(* nothing, an answer, or a row (with an answer, or before it).            *)
(***************************************************************************)
EXTENDS AccountsProofs

(* An answer without a row: 201 of a row that is there, 400 of a taken name, *)
(* and another refusal with a cause, unless a call has failed.               *)
ToldAs(r, s) ==
  /\ UNCHANGED tables
  /\ answer[r] = 0 /\ answer' = [answer EXCEPT ![r] = s]
  /\ s = 201 => HasRow(r) /\ ask[r].kind = "register"
  /\ s = 400 => Found(r) /\ ~HasRow(r)
  /\ s \in {422, NoStatus} /\ failures' = 0 =>
       ~HasRow(r) /\ (Found(r) \/ ask[r].role \in Roles \ KnownRoles)
Told(r) == ToldAs(r, 201) \/ ToldAs(r, 400) \/ ToldAs(r, 422) \/ ToldAs(r, NoStatus)

(* The row of a request that had none, and its role. *)
AddedAs(r, s) ==
  /\ Insertable(r) /\ ~HasRow(r)
  /\ users' = users \cup {NewUser(r)}
  /\ answer[r] = 0 /\ answer' = [answer EXCEPT ![r] = s]
  /\ s \in {422, NoStatus} => failures' # 0
  /\ \/ ask[r].kind = "register" /\ userRoles' = userRoles /\ s # 201
     \/ ask[r].kind = "create" /\ RowWithRole(r)
Added(r) == AddedAs(r, 0) \/ AddedAs(r, 201) \/ AddedAs(r, 422) \/ AddedAs(r, NoStatus)

Effect == \/ UNCHANGED <<tables, answer>>
          \/ \E r \in Requests : Told(r) \/ Added(r)

LEMMA StatusesOK ==
  /\ {201, 400, 422, NoStatus} \subseteq Answers \ {0}
  /\ 201 \notin {422, NoStatus} /\ 400 \notin {422, NoStatus}
  /\ 422 \notin {201, 400} /\ NoStatus \notin {201, 400} /\ 0 \notin {422, NoStatus}
BY DEF Answers, HttpStatuses, NoStatus

LEMMA Effects ==
  ASSUME TypeOK, [Next]_vars
  PROVE  /\ ask' = ask /\ (failures' = 0 => failures = 0)
         /\ Effect
<1> USE DEF RegisterPcs, CreatePcs
<1>0. failures \in Nat /\ \A r \in Requests : StageOK(r) /\ answer \in [Requests -> Answers] /\ ask[r] \in Asks
  BY DEF TypeOK
<1>1. ASSUME NEW r \in Requests, Arrive(r) \/ RegisterHash(r) \/ CreateHash(r) \/ QueueAdd(r)
      PROVE  ask' = ask /\ failures' = failures /\ UNCHANGED <<tables, answer>>
  BY <1>1 DEF Arrive, RegisterHash, CreateHash, QueueAdd, Goto
<1>2. ASSUME NEW r \in Requests, RegisterFind(r) \/ CreateFind(r)
      PROVE  ask' = ask /\ failures' = failures /\ (UNCHANGED <<tables, answer>> \/ Told(r))
  <2>1. ask' = ask /\ failures' = failures /\ UNCHANGED tables
        /\ answer[r] = 0 /\ ~HasRow(r)
    BY <1>0, <1>2 DEF RegisterFind, CreateFind, StageOK
  <2>2. \/ UNCHANGED answer
        \/ Found(r) /\ \E s \in {400, 422} : answer' = [answer EXCEPT ![r] = s]
    BY <1>2 DEF RegisterFind, CreateFind, Goto, Answer
  <2>3. CASE UNCHANGED answer
    BY <2>1, <2>3
  <2>4. ASSUME NEW s \in {400, 422}, Found(r), answer' = [answer EXCEPT ![r] = s]
        PROVE  Told(r)
    <3>1. ToldAs(r, s)
      BY <2>1, <2>4, StatusesOK DEF ToldAs
    <3> QED
      BY <2>4, <3>1, StatusesOK DEF Told
  <2> QED
    BY <2>1, <2>2, <2>3, <2>4
<1>3. ASSUME NEW r \in Requests, RegisterInsert(r)
      PROVE  ask' = ask /\ failures' = failures /\ (Told(r) \/ Added(r))
  <2>1. /\ ask' = ask /\ failures' = failures /\ userRoles' = userRoles
        /\ answer[r] = 0 /\ ~HasRow(r) /\ ask[r].kind = "register"
    BY <1>0, <1>3 DEF RegisterInsert, StageOK
  <2>2. CASE Insertable(r)
    <3>1. users' = users \cup {NewUser(r)} /\ answer' = [answer EXCEPT ![r] = 0]
      BY <1>0, <1>3, <2>1, <2>2 DEF RegisterInsert, Goto
    <3>2. AddedAs(r, 0)
      BY <2>1, <2>2, <3>1, StatusesOK DEF AddedAs
    <3> QED
      BY <2>1, <3>2 DEF Added
  <2>3. CASE ~Insertable(r)
    <3>1. users' = users /\ answer' = [answer EXCEPT ![r] = 422] /\ Found(r)
      BY <1>3, <2>3 DEF RegisterInsert, Answer, Insertable
    <3>2. ToldAs(r, 422)
      BY <2>1, <3>1, StatusesOK DEF ToldAs, tables
    <3> QED
      BY <2>1, <3>2, StatusesOK DEF Told
  <2> QED
    BY <2>2, <2>3
<1>4. ASSUME NEW r \in Requests, RegisterSign(r)
      PROVE  ask' = ask /\ failures' = failures /\ Told(r)
  <2>1. /\ ask' = ask /\ failures' = failures /\ UNCHANGED tables
        /\ answer[r] = 0 /\ HasRow(r) /\ ask[r].kind = "register"
        /\ answer' = [answer EXCEPT ![r] = 201]
    BY <1>0, <1>4 DEF RegisterSign, StageOK, Answer
  <2>2. ToldAs(r, 201)
    BY <2>1, StatusesOK DEF ToldAs
  <2> QED
    BY <2>1, <2>2, StatusesOK DEF Told
<1>5. ASSUME NEW r \in Requests, CreateInsert(r)
      PROVE  ask' = ask /\ failures' = failures /\ (Told(r) \/ Added(r))
  <2>1. /\ ask' = ask /\ failures' = failures
        /\ answer[r] = 0 /\ ~HasRow(r) /\ ask[r].kind = "create" /\ ask[r].role \in Roles
    <3>1. StageOK(r) /\ ask[r] \in Asks /\ pc[r] = "create"
      BY <1>0, <1>5 DEF CreateInsert
    <3>2. answer[r] = 0 /\ ~HasRow(r) /\ ask[r].kind = "create"
      BY <3>1 DEF StageOK
    <3>3. ask[r].role \in Roles
      BY <3>1, <3>2 DEF Asks, CreateAsks, RegisterAsks
    <3> QED
      BY <1>5, <3>2, <3>3 DEF CreateInsert
  <2>2. CASE Insertable(r) /\ RowWithRole(r) /\ Answer(r, 201)
    <3>1. AddedAs(r, 201)
      BY <2>1, <2>2, StatusesOK DEF AddedAs, RowWithRole, Answer
    <3> QED
      BY <2>1, <3>1 DEF Added
  <2>3. CASE ~(Insertable(r) /\ ask[r].role \in KnownRoles) /\ AnswerWithoutStatus(r) /\ UNCHANGED tables
    <3>1. ToldAs(r, NoStatus)
      BY <2>1, <2>3, StatusesOK DEF ToldAs, AnswerWithoutStatus, Insertable
    <3> QED
      BY <2>1, <3>1, StatusesOK DEF Told
  <2> QED
    BY <1>5, <2>1, <2>2, <2>3 DEF CreateInsert
<1>6. ASSUME NEW r \in Requests, CallFails(r)
      PROVE  ask' = ask /\ failures' # 0 /\ (Told(r) \/ Added(r))
  <2>1. /\ ask' = ask /\ failures' # 0 /\ answer[r] = 0 /\ pc[r] \in RegisterPcs \cup CreatePcs
        /\ StageOK(r)
    <3>1. pc[r] # "done"
      BY <1>6 DEF CallFails
    <3> QED
      BY <1>0, <1>6, <3>1 DEF CallFails, StageOK
  <2>2. PICK s \in {422, NoStatus} : answer' = [answer EXCEPT ![r] = s]
    BY <1>6 DEF CallFails, Answer, AnswerWithoutStatus, FailStatus
  <2>3. CASE UNCHANGED tables
    <3>1. ToldAs(r, s)
      BY <2>1, <2>2, <2>3, StatusesOK DEF ToldAs
    <3> QED
      BY <2>1, <2>2, <3>1, StatusesOK DEF Told
  <2>4. CASE pc[r] = "insert" /\ Insertable(r) /\ users' = users \cup {NewUser(r)} /\ UNCHANGED userRoles
    <3>1. ~HasRow(r) /\ ask[r].kind = "register"
      BY <2>1, <2>4 DEF StageOK
    <3>2. AddedAs(r, s)
      BY <2>1, <2>2, <2>4, <3>1, StatusesOK DEF AddedAs
    <3> QED
      BY <2>1, <2>2, <3>2 DEF Added
  <2>5. CASE pc[r] = "create" /\ Insertable(r) /\ RowWithRole(r)
    <3>1. ~HasRow(r) /\ ask[r].kind = "create"
      BY <2>1, <2>5 DEF StageOK
    <3>2. users' = users \cup {NewUser(r)}
      BY <2>5 DEF RowWithRole
    <3>3. AddedAs(r, s)
      BY <2>1, <2>2, <2>5, <3>1, <3>2, StatusesOK DEF AddedAs
    <3> QED
      BY <2>1, <2>2, <3>3 DEF Added
  <2> QED
    BY <1>6, <2>1, <2>3, <2>4, <2>5 DEF CallFails
<1>7. ASSUME Crash
      PROVE  ask' = ask /\ failures' # 0 /\ UNCHANGED <<tables, answer>>
  BY <1>0, <1>7 DEF Crash
<1>8. CASE UNCHANGED vars
  BY <1>8 DEF vars, Effect
<1> QED
  BY <1>1, <1>2, <1>3, <1>4, <1>5, <1>6, <1>7, <1>8
     DEF Next, Handle, RegisterStep, CreateStep, Effect

-----------------------------------------------------------------------------
(* The invariant: besides the four properties, every row is as it was asked. *)

RowsAsked == \A u \in users : u.id \in Requests /\ u = NewUser(u.id)

IInv == TypeOK /\ RowsAsked /\ UniqueRows /\ CreatedIsThere /\ RolesWithUser /\ RefusedForCause

(* A status that r is told, or 0. *)
LEMMA EffectCases ==
  ASSUME TypeOK, Effect
  PROVE  \/ UNCHANGED <<tables, answer>>
         \/ \E r \in Requests, s \in Answers : ToldAs(r, s) /\ s # 0
         \/ \E r \in Requests, s \in Answers : AddedAs(r, s) /\ s # 400
<1>1. ASSUME NEW r \in Requests, Told(r)
      PROVE  \E s \in Answers : ToldAs(r, s) /\ s # 0
  BY <1>1, StatusesOK DEF Told
<1>2. ASSUME NEW r \in Requests, Added(r)
      PROVE  \E s \in Answers : AddedAs(r, s) /\ s # 400
  BY <1>2, StatusesOK DEF Added, Answers, HttpStatuses, NoStatus
<1> QED
  BY <1>1, <1>2 DEF Effect

(* What an answer without a row, and a row, keep. *)
LEMMA ToldKeeps ==
  ASSUME IInv, NEW r \in Requests, NEW s \in Answers, ToldAs(r, s), s # 0,
         ask' = ask, failures' = 0 => failures = 0
  PROVE  RowsAsked' /\ UniqueRows' /\ CreatedIsThere' /\ RolesWithUser' /\ RefusedForCause'
<1>1. users' = users /\ userRoles' = userRoles
  BY DEF ToldAs, tables
<1>2. answer'[r] = s /\ \A q \in Requests \ {r} : answer'[q] = answer[q]
  BY DEF ToldAs, IInv, TypeOK
<1>3. \A q \in Requests : /\ HasRow(q)' <=> HasRow(q)
                          /\ TakenByOther(q)' <=> TakenByOther(q)
                          /\ NewUser(q)' = NewUser(q)
  BY <1>1 DEF HasRow, TakenByOther, NewUser
<1>4. RowsAsked' /\ UniqueRows'
  BY <1>1, <1>3 DEF IInv, RowsAsked, UniqueRows
<1>5. RolesWithUser'
  BY <1>1 DEF IInv, RolesWithUser, HasRow
<1>6. CreatedIsThere'
  <2>1. s = 201 => NewUser(r) \in users /\ ask[r].kind # "create"
    BY DEF ToldAs, IInv, RowsAsked, HasRow
  <2> QED
    BY <1>1, <1>2, <1>3, <2>1 DEF IInv, CreatedIsThere
<1>7. RefusedForCause'
  <2>1. Found(r) /\ ~HasRow(r) => TakenByOther(r)
    BY DEF Found, HasRow, TakenByOther
  <2>2. /\ s = 400 => TakenByOther(r) /\ ~HasRow(r)
        /\ s \in {422, NoStatus} /\ failures' = 0 =>
             ~HasRow(r) /\ (TakenByOther(r) \/ ask[r].role \in Roles \ KnownRoles)
    BY <2>1 DEF ToldAs
  <2> QED
    BY <1>2, <1>3, <2>2 DEF IInv, RefusedForCause
<1> QED
  BY <1>4, <1>5, <1>6, <1>7

LEMMA AddedKeeps ==
  ASSUME IInv, NEW r \in Requests, NEW s \in Answers, AddedAs(r, s), s # 400,
         ask' = ask, failures' = 0 => failures = 0
  PROVE  RowsAsked' /\ UniqueRows' /\ CreatedIsThere' /\ RolesWithUser' /\ RefusedForCause'
<1>1. users' = users \cup {NewUser(r)} /\ userRoles \subseteq userRoles'
  BY DEF AddedAs, RowWithRole
<1>2. answer'[r] = s /\ \A q \in Requests \ {r} : answer'[q] = answer[q]
  BY DEF AddedAs, IInv, TypeOK
<1>3. /\ NewUser(r).id = r
      /\ NewUser(r).username = ask[r].names.username
      /\ NewUser(r).email = ask[r].names.email
  BY NewUserOK DEF IInv
<1>4. \A q \in Requests : /\ NewUser(q)' = NewUser(q)
                          /\ TakenByOther(q) => TakenByOther(q)'
                          /\ q # r => (HasRow(q)' <=> HasRow(q))
  BY <1>1, <1>3 DEF HasRow, TakenByOther, NewUser
<1>5. RowsAsked'
  BY <1>1, <1>3, <1>4 DEF IInv, RowsAsked
<1>6. UniqueRows'
  BY <1>1, <1>3 DEF IInv, UniqueRows, AddedAs, Insertable, Found
<1>7. ask[r].kind = "create" => userRoles' = userRoles \cup {[user |-> r, role |-> ask[r].role]}
                                /\ ask[r].role \in KnownRoles
  BY DEF AddedAs, RowWithRole
<1>8. CreatedIsThere'
  <2>1. s = 201 => ask[r].kind = "create"
    BY DEF AddedAs
  <2> QED
    BY <1>1, <1>2, <1>4, <1>7, <2>1 DEF IInv, CreatedIsThere
<1>9. RolesWithUser'
  <2>1. \A u \in users' : ask[u.id].kind = "create" =>
          [user |-> u.id, role |-> ask[u.id].role] \in userRoles'
    BY <1>1, <1>3, <1>7 DEF IInv, RolesWithUser
  <2>2. \A x \in userRoles' : HasRow(x.user)' /\ x.role \in KnownRoles
    <3>1. HasRow(r)' /\ \A q : HasRow(q) => HasRow(q)'
      BY <1>1, <1>3 DEF HasRow
    <3>2. ask[r].kind # "create" => userRoles' = userRoles
      BY DEF AddedAs
    <3> QED
      BY <1>7, <3>1, <3>2 DEF IInv, RolesWithUser
  <2> QED
    BY <2>1, <2>2 DEF RolesWithUser
<1>10. RefusedForCause'
  <2>1. s \in {422, NoStatus} => failures' # 0
    BY DEF AddedAs
  <2>2. \A q \in Requests \ {r} :
          /\ answer[q] = 400 => TakenByOther(q)' /\ ~HasRow(q)'
          /\ answer[q] \in {422, NoStatus} /\ failures' = 0 =>
               ~HasRow(q)' /\ (TakenByOther(q)' \/ ask[q].role \in Roles \ KnownRoles)
    BY <1>4 DEF IInv, RefusedForCause
  <2> QED
    BY <1>2, <2>1, <2>2 DEF RefusedForCause
<1> QED
  BY <1>5, <1>6, <1>8, <1>9, <1>10

LEMMA InvInit == Init => IInv
<1> SUFFICES ASSUME Init PROVE IInv
  OBVIOUS
<1>1. TypeOK
  BY TypeInit
<1>2. \A r \in Requests : answer[r] = 0
  BY DEF Init
<1>3. CreatedIsThere /\ RefusedForCause
  BY <1>2, StatusesOK DEF CreatedIsThere, RefusedForCause, NoStatus
<1> QED
  BY <1>1, <1>3 DEF Init, IInv, RowsAsked, UniqueRows, RolesWithUser

LEMMA InvStep == IInv /\ [Next]_vars => IInv'
<1> SUFFICES ASSUME IInv, [Next]_vars PROVE IInv'
  OBVIOUS
<1>1. TypeOK /\ TypeOK'
  BY TypeStep DEF IInv
<1>2. ask' = ask /\ (failures' = 0 => failures = 0) /\ Effect
  BY <1>1, Effects
<1>3. CASE UNCHANGED <<tables, answer>>
  <2>1. users' = users /\ userRoles' = userRoles /\ answer' = answer
    BY <1>3 DEF tables
  <2> QED
    BY <1>1, <1>2, <2>1 DEF IInv, RowsAsked, UniqueRows, CreatedIsThere, RolesWithUser,
       RefusedForCause, HasRow, TakenByOther, NewUser
<1>4. CASE \E r \in Requests, s \in Answers : ToldAs(r, s) /\ s # 0
  BY <1>1, <1>2, <1>4, ToldKeeps DEF IInv
<1>5. CASE \E r \in Requests, s \in Answers : AddedAs(r, s) /\ s # 400
  BY <1>1, <1>2, <1>5, AddedKeeps DEF IInv
<1> QED
  BY <1>1, <1>2, <1>3, <1>4, <1>5, EffectCases

LEMMA InvAlways == Spec => []IInv
<1> QED
  BY InvInit, InvStep, PTL DEF Spec

(* No two users share a name: register and create_user look and insert apart, *)
(* and the unique indexes refuse the second.                                  *)
THEOREM NamesAreUnique == Spec => []UniqueRows
<1>1. IInv => UniqueRows
  BY DEF IInv
<1> QED
  BY <1>1, InvAlways, PTL

(* 201 is said of a user who is there, with the role that was asked for. *)
THEOREM CreatedMeansThere == Spec => []CreatedIsThere
<1>1. IInv => CreatedIsThere
  BY DEF IInv
<1> QED
  BY <1>1, InvAlways, PTL

(* The nested create keeps a user and its role together. *)
THEOREM RolesStayWithUsers == Spec => []RolesWithUser
<1>1. IInv => RolesWithUser
  BY DEF IInv
<1> QED
  BY <1>1, InvAlways, PTL

(* A refusal has its cause in the tables, unless a call has failed. *)
THEOREM RefusalsHaveCause == Spec => []RefusedForCause
<1>1. IInv => RefusedForCause
  BY DEF IInv
<1> QED
  BY <1>1, InvAlways, PTL

-----------------------------------------------------------------------------
(* The queue: an add is made once, and lost only with the process. *)

QueueInv ==
  /\ adding \cap jobs = {}
  /\ \A r \in adding \cup jobs : ask[r].kind = "create"
  /\ \A r \in Requests :
       answer[r] = 201 /\ ask[r].kind = "create" => r \in adding \cup jobs \/ Disturbed

(* A step that adds nothing to the queue, and creates nobody by createUser. *)
LEMMA QuietQueue ==
  ASSUME TypeOK, QueueInv, NEW r \in Requests, ask' = ask, UNCHANGED queue,
         failures' \in {failures, failures + 1},
         \A q \in Requests \ {r} : answer'[q] = answer[q],
         answer'[r] = answer[r] \/ answer[r] = 0,
         answer'[r] = 201 => answer[r] = 201 \/ ask[r].kind = "register"
  PROVE  QueueInv'
<1>1. Disturbed => Disturbed'
  BY DEF Disturbed, TypeOK, NoStatus
<1> QED
  BY <1>1 DEF QueueInv, queue

(* The process ends. *)
LEMMA LostQueue ==
  ASSUME TypeOK, QueueInv, ask' = ask, adding' = {}, jobs' = jobs, Disturbed'
  PROVE  QueueInv'
BY DEF QueueInv

LEMMA QueueStep == TypeOK /\ QueueInv /\ [Next]_vars => QueueInv'
<1> SUFFICES ASSUME TypeOK, QueueInv, [Next]_vars PROVE QueueInv'
  OBVIOUS
<1> USE DEF RegisterPcs, CreatePcs, NoStatus
<1>0. \A r \in Requests : StageOK(r)
  BY DEF TypeOK
<1>1. answer \in [Requests -> Answers] /\ failures \in Nat
  BY DEF TypeOK
<1>2. ASSUME NEW r \in Requests, Arrive(r) \/ RegisterStep(r) \/ CreateHash(r) \/ CreateFind(r)
      PROVE  QueueInv'
  <2>1. ask' = ask /\ failures' = failures /\ UNCHANGED queue
    BY <1>2 DEF Arrive, RegisterStep, RegisterFind, RegisterHash, RegisterInsert, RegisterSign,
       CreateHash, CreateFind
  <2>2. \/ UNCHANGED answer
        \/ /\ pc[r] \in RegisterPcs \cup {"look"}
           /\ \E s \in {201, 400, 422} : answer' = [answer EXCEPT ![r] = s]
              /\ (s = 201 => pc[r] = "sign")
    BY <1>2 DEF Arrive, RegisterStep, RegisterFind, RegisterHash, RegisterInsert, RegisterSign,
       CreateHash, CreateFind, Goto, Answer
  <2>3. pc[r] \in RegisterPcs \cup {"look"} => answer[r] = 0
    BY <1>0 DEF StageOK
  <2>4. pc[r] = "sign" => ask[r].kind = "register"
    BY <1>0 DEF StageOK
  <2>5. \A q \in Requests \ {r} : answer'[q] = answer[q]
    BY <1>1, <2>2
  <2>6. /\ answer'[r] = answer[r] \/ answer[r] = 0
        /\ answer'[r] = 201 => answer[r] = 201 \/ ask[r].kind = "register"
    BY <1>1, <2>2, <2>3, <2>4
  <2> QED
    BY <2>1, <2>5, <2>6, QuietQueue
<1>3. ASSUME NEW r \in Requests, AnswerWithoutStatus(r), ask' = ask, jobs' = jobs
      PROVE  QueueInv'
  <2>1. answer'[r] = NoStatus /\ adding' = {}
    BY <1>1, <1>3 DEF AnswerWithoutStatus
  <2> QED
    BY <1>3, <2>1, LostQueue DEF Disturbed
<1>4. ASSUME NEW r \in Requests, CreateInsert(r) PROVE QueueInv'
  <2>1. ask' = ask /\ jobs' = jobs /\ pc[r] = "create"
    BY <1>4 DEF CreateInsert
  <2>2. CASE adding' = adding \cup {r} /\ Answer(r, 201)
    <3>1. ask[r].kind = "create" /\ r \notin adding \cup jobs /\ answer[r] = 0
      BY <1>0, <2>1 DEF StageOK
    <3>2. answer' = [answer EXCEPT ![r] = 201] /\ failures' = failures
      BY <1>4, <2>2 DEF Answer, CreateInsert
    <3>3. Disturbed => Disturbed'
      BY <1>1, <3>1, <3>2 DEF Disturbed
    <3> QED
      BY <1>1, <2>1, <2>2, <3>1, <3>2, <3>3 DEF QueueInv
  <2>3. CASE AnswerWithoutStatus(r)
    BY <1>3, <2>1, <2>3
  <2> QED
    BY <1>4, <2>2, <2>3 DEF CreateInsert
<1>5. ASSUME NEW r \in Requests, QueueAdd(r) PROVE QueueInv'
  <2>1. /\ r \in adding /\ adding' = adding \ {r} /\ jobs' = jobs \cup {r}
        /\ UNCHANGED <<ask, answer, failures>>
    BY <1>5 DEF QueueAdd
  <2> QED
    BY <2>1 DEF QueueInv, Disturbed
<1>6. ASSUME NEW r \in Requests, CallFails(r) PROVE QueueInv'
  <2>1. /\ ask' = ask /\ jobs' = jobs /\ failures' = failures + 1
        /\ pc[r] \in RegisterPcs \cup CreatePcs
    BY <1>6 DEF CallFails
  <2>2. CASE AnswerWithoutStatus(r)
    BY <1>3, <2>1, <2>2
  <2>3. CASE Answer(r, 422) /\ UNCHANGED adding
    <3>1. answer[r] = 0 /\ answer' = [answer EXCEPT ![r] = 422]
      BY <1>0, <2>1, <2>3 DEF StageOK, Answer
    <3> QED
      BY <1>1, <2>1, <2>3, <3>1, QuietQueue DEF queue
  <2> QED
    BY <1>6, <2>2, <2>3 DEF CallFails, FailStatus
<1>7. CASE Crash
  BY <1>1, <1>7, LostQueue DEF Crash, Disturbed
<1>8. CASE UNCHANGED vars
  BY <1>8 DEF vars, queue, QueueInv, Disturbed
<1> QED
  BY <1>2, <1>4, <1>5, <1>6, <1>7, <1>8 DEF Next, Handle, CreateStep

(* createUser adds the job of every user it answers for, once, and of nobody  *)
(* else, although it does not wait for the queue: what is lost is lost with   *)
(* the process.                                                               *)
THEOREM QueueMatchesUsers == Spec => []JobsMatchUsers
<1>1. Init => QueueInv
  BY DEF Init, QueueInv
<1>2. IInv => TypeOK
  BY DEF IInv
<1>3. IInv /\ QueueInv => JobsMatchUsers
  <2> SUFFICES ASSUME IInv, QueueInv PROVE JobsMatchUsers
    OBVIOUS
  <2>1. \A r \in adding \cup jobs : r \in Requests /\ HasRow(r)
    BY DEF IInv, TypeOK, StageOK
  <2>2. \A r \in Requests : HasRow(r) => NewUser(r) \in users
    BY DEF IInv, RowsAsked, HasRow
  <2> QED
    BY <2>1, <2>2 DEF QueueInv, JobsMatchUsers
<1> QED
  BY <1>1, <1>2, <1>3, InvAlways, QueueStep, PTL DEF Spec

-----------------------------------------------------------------------------
(* Accounts implements UserDirectory: an answer tells an outcome, and a row   *)
(* is a claim.                                                                *)

LEMMA OutcomesMap ==
  /\ OutcomeOf(0) = "none" /\ OutcomeOf(201) = "created"
  /\ OutcomeOf(400) = "taken" /\ OutcomeOf(422) = "unable" /\ OutcomeOf(NoStatus) = "unable"
BY DEF OutcomeOf, NoStatus

(* What a told status is in the directory. *)
LEMMA OutcomeMoves ==
  ASSUME TypeOK, NEW r \in Requests, NEW s, answer[r] = 0, answer' = [answer EXCEPT ![r] = s]
  PROVE  /\ [q \in Requests |-> OutcomeOf(answer[q])][r] = "none"
         /\ [q \in Requests |-> OutcomeOf(answer'[q])] =
              [[q \in Requests |-> OutcomeOf(answer[q])] EXCEPT ![r] = OutcomeOf(s)]
<1>1. answer'[r] = s /\ \A q \in Requests \ {r} : answer'[q] = answer[q]
  BY DEF TypeOK
<1>2. OutcomeOf(answer'[r]) = OutcomeOf(s)
      /\ \A q \in Requests \ {r} : OutcomeOf(answer'[q]) = OutcomeOf(answer[q])
  BY <1>1
<1>3. OutcomeOf(answer[r]) = "none"
  BY OutcomesMap
<1>4. [q \in Requests |-> OutcomeOf(answer'[q])] =
        [[q \in Requests |-> OutcomeOf(answer[q])] EXCEPT ![r] = OutcomeOf(s)]
  BY <1>2
<1> QED
  BY <1>3, <1>4

LEMMA DirectoryTables ==
  ASSUME NEW r \in Requests
  PROVE  /\ Directory!Has(r) <=> HasRow(r)
         /\ Directory!Taken(r) <=> TakenByOther(r)
         /\ Directory!RowOf(r) = NewUser(r)
BY DEF Directory!Has, HasRow, Directory!Taken, Directory!Clash, TakenByOther,
       Directory!RowOf, NewUser

LEMMA DirectoryStep ==
  ASSUME TypeOK, [Next]_vars
  PROVE  [Directory!DirNext]_Directory!dirVars
<1>1. ask' = ask /\ Effect
  BY Effects
<1>2. CASE UNCHANGED <<tables, answer>>
  <2>1. users' = users /\ answer' = answer
    BY <1>2 DEF tables
  <2> QED
    BY <1>1, <2>1 DEF Directory!dirVars
<1>3. ASSUME NEW r \in Requests, NEW s, ToldAs(r, s), s \in {201, 400, 422, NoStatus}
      PROVE  Directory!DirNext
  <2>1. users' = users /\ answer[r] = 0 /\ answer' = [answer EXCEPT ![r] = s]
    BY <1>3 DEF ToldAs, tables
  <2>2. Directory!Tell(r, OutcomeOf(s))
    BY <2>1, OutcomeMoves DEF Directory!Tell
  <2>3. CASE s = 201
    <3>1. Directory!Has(r)
      BY <1>3, <2>3, DirectoryTables DEF ToldAs
    <3> QED
      BY <1>1, <2>1, <2>2, <2>3, <3>1, OutcomesMap DEF Directory!DirNext, Directory!Created
  <2>4. CASE s = 400
    <3>1. Found(r) /\ ~HasRow(r)
      BY <1>3, <2>4 DEF ToldAs
    <3>2. TakenByOther(r)
      BY <3>1 DEF Found, HasRow, TakenByOther
    <3> QED
      BY <1>1, <2>1, <2>2, <2>4, <3>1, <3>2, DirectoryTables, OutcomesMap
         DEF Directory!DirNext, Directory!Refused
  <2>5. CASE s \in {422, NoStatus}
    BY <1>1, <2>1, <2>2, <2>5, OutcomesMap DEF Directory!DirNext, Directory!Unable
  <2> QED
    BY <1>3, <2>3, <2>4, <2>5
<1>4. ASSUME NEW r \in Requests, NEW s, AddedAs(r, s), s \in {0, 201, 422, NoStatus}
      PROVE  Directory!DirNext
  <2>1. /\ Insertable(r) /\ ~HasRow(r) /\ users' = users \cup {NewUser(r)}
        /\ answer[r] = 0 /\ answer' = [answer EXCEPT ![r] = s]
    BY <1>4 DEF AddedAs
  <2>2. ~Directory!Has(r) /\ ~Directory!Taken(r) /\ users' = users \cup {Directory!RowOf(r)}
    BY <2>1, DirectoryTables DEF Insertable, Found, TakenByOther
  <2>3. OutcomeOf(s) \in {"none", "created", "unable"}
    BY <1>4, OutcomesMap
  <2> QED
    BY <1>1, <2>1, <2>2, <2>3, OutcomeMoves DEF Directory!DirNext, Directory!Claim
<1> QED
  BY <1>1, <1>2, <1>3, <1>4 DEF Effect, Told, Added

LEMMA DirectoryInit == Init => Directory!DirInit
<1> SUFFICES ASSUME Init PROVE Directory!DirInit
  OBVIOUS
<1>1. \A r \in Requests : ask[r].names \in Names
  BY DEF Init, Asks, RegisterAsks, CreateAsks
<1>2. [r \in Requests |-> ask[r].names] \in [Requests -> Directory!Names]
  BY <1>1 DEF Names, Directory!Names
<1>3. [r \in Requests |-> OutcomeOf(answer[r])] = [r \in Requests |-> "none"]
  BY OutcomesMap DEF Init
<1> QED
  BY <1>2, <1>3 DEF Init, Directory!DirInit

(* register and create_user together implement the directory: names are      *)
(* claimed in one step and for good, and told as they are.                    *)
THEOREM DirectoryImplemented == Spec => ImplementsDirectory
<1> QED
  BY DirectoryInit, DirectoryStep, TypeInit, TypeStep, PTL
     DEF Spec, ImplementsDirectory, Directory!DirSpec
=============================================================================
