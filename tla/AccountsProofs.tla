--------------------------- MODULE AccountsProofs ---------------------------
(***************************************************************************)
(* Proofs about Accounts, for all requests, names and roles.               *)
(***************************************************************************)
EXTENDS Accounts, TLAPS

(* Only the handler of r moves, if any, and nobody asks for something else. *)
Moves(r) ==
  /\ ask' = ask
  /\ pc' \in [Requests -> Pcs] /\ answer' \in [Requests -> Answers]
  /\ \A q \in Requests \ {r} : pc'[q] = pc[q] /\ answer'[q] = answer[q]

(* Rows stay, r adds no other than its own, and jobs are those of r or old. *)
Adds(r) ==
  /\ users \subseteq users' /\ users' \subseteq users \cup {NewUser(r)}
  /\ adding' \cup jobs' \subseteq adding \cup jobs \cup {r}

LEMMA GotoMoves ==
  ASSUME TypeOK, NEW r \in Requests, NEW next \in Pcs, ask' = ask, Goto(r, next)
  PROVE  Moves(r) /\ pc'[r] = next /\ answer'[r] = answer[r]
BY DEF TypeOK, Goto, Moves

LEMMA AnswerMoves ==
  ASSUME TypeOK, NEW r \in Requests, NEW status \in Answers, ask' = ask, Answer(r, status)
  PROVE  Moves(r) /\ pc'[r] = "done" /\ answer'[r] = status
BY DEF TypeOK, Answer, Moves, Pcs

LEMMA NewUserOK ==
  ASSUME TypeOK, NEW r \in Requests
  PROVE  NewUser(r) \in User /\ NewUser(r).id = r
         /\ NewUser(r).username = ask[r].names.username
         /\ NewUser(r).email = ask[r].names.email
<1>1. ask[r] \in Asks
  BY DEF TypeOK
<1>2. ask[r].names \in Names
  BY <1>1 DEF Asks, RegisterAsks, CreateAsks
<1> QED
  BY <1>2 DEF NewUser, User, Names

(* What the other requests have at hand stays as it is. *)
LEMMA OthersOK ==
  ASSUME TypeOK, NEW r \in Requests, Moves(r), Adds(r), NEW q \in Requests \ {r}
  PROVE  StageOK(q)'
<1>1. StageOK(q) /\ pc'[q] = pc[q] /\ answer'[q] = answer[q] /\ ask' = ask
  BY DEF TypeOK, Moves
<1>2. HasRow(q)' <=> HasRow(q)
  BY NewUserOK DEF HasRow, Adds
<1>3. q \in (adding \cup jobs)' => q \in adding \cup jobs
  BY DEF Adds
<1> QED
  BY <1>1, <1>2, <1>3 DEF StageOK

LEMMA StepOK ==
  ASSUME TypeOK, NEW r \in Requests, Moves(r), Adds(r), StageOK(r)',
         userRoles' \subseteq UserRole, failures' \in Nat
  PROVE  TypeOK'
<1>1. ask' \in [Requests -> Asks] /\ pc' \in [Requests -> Pcs] /\ answer' \in [Requests -> Answers]
  BY DEF Moves, TypeOK
<1>2. users' \subseteq User
  BY NewUserOK DEF Adds, TypeOK
<1>3. adding' \subseteq Requests /\ jobs' \subseteq Requests
  BY DEF Adds, TypeOK
<1>4. \A q \in Requests : StageOK(q)'
  BY OthersOK
<1> QED
  BY <1>1, <1>2, <1>3, <1>4 DEF TypeOK

LEMMA HasRowKept ==
  ASSUME TypeOK, NEW r \in Requests
  PROVE  /\ users' = users => (HasRow(r)' <=> HasRow(r))
         /\ users' = users \cup {NewUser(r)} => HasRow(r)'
<1>1. users' = users => (HasRow(r)' <=> HasRow(r))
  BY DEF HasRow
<1>2. users' = users \cup {NewUser(r)} => HasRow(r)'
  BY NewUserOK DEF HasRow
<1> QED
  BY <1>1, <1>2

(* A step that moves r alone and leaves the tables and the queue. *)
LEMMA QuietOK ==
  ASSUME TypeOK, NEW r \in Requests, Moves(r), UNCHANGED <<tables, queue>>, failures' \in Nat,
         pc[r] # "done", pc[r] \notin {"sign"} \/ pc'[r] = "done",
         pc'[r] = "done" <=> answer'[r] # 0,
         pc'[r] \in RegisterPcs => ask[r].kind = "register",
         pc'[r] \in CreatePcs => ask[r].kind = "create",
         pc'[r] # "sign", HasRow(r) => pc'[r] = "done"
  PROVE  TypeOK'
<1>1. StageOK(r)
  BY DEF TypeOK
<1>2. HasRow(r)' <=> HasRow(r)
  BY HasRowKept DEF tables
<1>3. r \notin adding \cup jobs
  BY <1>1 DEF StageOK
<1>4. StageOK(r)'
  BY <1>1, <1>2, <1>3 DEF StageOK, queue, Moves
<1>5. Adds(r) /\ userRoles' \subseteq UserRole
  BY DEF Adds, tables, queue, TypeOK
<1> QED
  BY <1>4, <1>5, StepOK

(* The process ends on the exception of r, which may have added its row. *)
LEMMA EndOK ==
  ASSUME TypeOK, NEW r \in Requests, ask' = ask, AnswerWithoutStatus(r), jobs' = jobs,
         failures' \in Nat, pc[r] \in CreatePcs, userRoles' \subseteq UserRole,
         users \subseteq users', users' \subseteq users \cup {NewUser(r)}
  PROVE  TypeOK'
<1> USE DEF RegisterPcs, CreatePcs
<1>1. /\ pc' = [q \in Requests |-> IF q = r THEN "done" ELSE AfterEnd(q)]
      /\ answer' = [answer EXCEPT ![r] = NoStatus] /\ adding' = {}
  BY DEF AnswerWithoutStatus
<1>2. pc' \in [Requests -> Pcs] /\ answer' \in [Requests -> Answers]
  BY <1>1 DEF TypeOK, AfterEnd, Pcs, Answers
<1>3. StageOK(r)'
  <2>1. answer[r] = 0 /\ r \notin jobs
    BY DEF TypeOK, StageOK
  <2>2. pc'[r] = "done" /\ answer'[r] # 0
    BY <1>1 DEF TypeOK, NoStatus
  <2> QED
    BY <1>1, <2>1, <2>2 DEF StageOK
<1>4. ASSUME NEW q \in Requests \ {r} PROVE StageOK(q)'
  <2>1. StageOK(q) /\ answer'[q] = answer[q] /\ pc'[q] = AfterEnd(q)
    BY <1>1 DEF TypeOK
  <2>2. HasRow(q)' <=> HasRow(q)
    BY NewUserOK DEF HasRow
  <2>3. /\ pc'[q] \in {pc[q], "dropped"}
        /\ pc'[q] = "dropped" => pc[q] \notin {"idle", "done"}
        /\ pc[q] \in RegisterPcs \cup CreatePcs => pc'[q] = "dropped"
    BY <2>1 DEF AfterEnd
  <2> QED
    BY <1>1, <2>1, <2>2, <2>3 DEF StageOK
<1>5. users' \subseteq User
  BY NewUserOK DEF TypeOK
<1> QED
  BY <1>1, <1>2, <1>3, <1>4, <1>5 DEF TypeOK

LEMMA TypeStep == TypeOK /\ [Next]_vars => TypeOK'
<1> SUFFICES ASSUME TypeOK, [Next]_vars PROVE TypeOK'
  OBVIOUS
<1> USE DEF RegisterPcs, CreatePcs
<1>0. ASSUME NEW r \in Requests
      PROVE  StageOK(r) /\ failures \in Nat /\ ask[r] \in Asks
  BY DEF TypeOK
<1>1. ASSUME NEW r \in Requests, Arrive(r) PROVE TypeOK'
  <2>1. ask[r].kind \in {"register", "create"}
    BY <1>0 DEF Asks, RegisterAsks, CreateAsks
  <2>2. Moves(r) /\ answer'[r] = answer[r]
        /\ pc'[r] = IF ask[r].kind = "register" THEN "find" ELSE "hashFirst"
    BY <1>1, GotoMoves DEF Arrive, Pcs
  <2>3. StageOK(r) /\ pc[r] = "idle"
    BY <1>0, <1>1 DEF Arrive
  <2>4. answer[r] = 0 /\ ~HasRow(r)
    BY <2>3 DEF StageOK
  <2> QED
    BY <1>0, <1>1, <2>1, <2>2, <2>3, <2>4, QuietOK DEF Arrive
<1>2. ASSUME NEW r \in Requests, RegisterFind(r) \/ RegisterHash(r) \/ CreateHash(r) \/ CreateFind(r)
      PROVE  TypeOK'
  <2>1. pc[r] \in {"find", "hash", "hashFirst", "look"} /\ ask' = ask /\ failures' = failures
        /\ UNCHANGED <<tables, queue>>
    BY <1>2 DEF RegisterFind, RegisterHash, CreateHash, CreateFind
  <2>2. StageOK(r) /\ ~HasRow(r) /\ answer[r] = 0
    BY <1>0, <2>1 DEF StageOK
  <2>3. \/ Answer(r, 422) \/ Answer(r, 400)
        \/ pc[r] \in {"find", "hash"} /\ (Goto(r, "hash") \/ Goto(r, "insert"))
        \/ pc[r] \in {"hashFirst", "look"} /\ (Goto(r, "look") \/ Goto(r, "create"))
    BY <1>2 DEF RegisterFind, RegisterHash, CreateHash, CreateFind
  <2>4. CASE Answer(r, 422) \/ Answer(r, 400)
    <3>1. Moves(r) /\ pc'[r] = "done" /\ answer'[r] # 0
      BY <2>1, <2>4, AnswerMoves DEF Answers, HttpStatuses
    <3> QED
      BY <1>0, <2>1, <2>2, <3>1, QuietOK
  <2>5. CASE pc[r] \in {"find", "hash"} /\ (Goto(r, "hash") \/ Goto(r, "insert"))
    <3>1. Moves(r) /\ pc'[r] \in {"hash", "insert"} /\ answer'[r] = 0
      BY <2>1, <2>2, <2>5, GotoMoves DEF Pcs
    <3>2. ask[r].kind = "register"
      BY <2>2, <2>5 DEF StageOK
    <3> QED
      BY <1>0, <2>1, <2>2, <3>1, <3>2, QuietOK
  <2>6. CASE pc[r] \in {"hashFirst", "look"} /\ (Goto(r, "look") \/ Goto(r, "create"))
    <3>1. Moves(r) /\ pc'[r] \in {"look", "create"} /\ answer'[r] = 0
      BY <2>1, <2>2, <2>6, GotoMoves DEF Pcs
    <3>2. ask[r].kind = "create"
      BY <2>2, <2>6 DEF StageOK
    <3> QED
      BY <1>0, <2>1, <2>2, <3>1, <3>2, QuietOK
  <2> QED
    BY <2>3, <2>4, <2>5, <2>6
<1>3. ASSUME NEW r \in Requests, RegisterInsert(r) PROVE TypeOK'
  <2>1. StageOK(r) /\ pc[r] = "insert" /\ ask' = ask /\ failures' \in Nat
        /\ ask[r].kind = "register" /\ answer[r] = 0 /\ ~HasRow(r) /\ r \notin adding \cup jobs
    BY <1>0, <1>3 DEF RegisterInsert, StageOK
  <2>2. CASE Insertable(r)
    <3>1. users' = users \cup {NewUser(r)} /\ Goto(r, "sign") /\ UNCHANGED <<userRoles, queue>>
      BY <1>3, <2>2 DEF RegisterInsert
    <3>2. Moves(r) /\ pc'[r] = "sign" /\ answer'[r] = 0
      BY <2>1, <3>1, GotoMoves DEF Pcs
    <3>3. HasRow(r)'
      BY <3>1, HasRowKept
    <3>4. StageOK(r)'
      BY <2>1, <3>1, <3>2, <3>3 DEF StageOK, queue
    <3>5. Adds(r) /\ userRoles' \subseteq UserRole
      BY <3>1 DEF Adds, queue, TypeOK
    <3> QED
      BY <2>1, <3>2, <3>4, <3>5, StepOK
  <2>3. CASE ~Insertable(r)
    <3>1. Answer(r, 422) /\ UNCHANGED <<tables, queue>>
      BY <1>3, <2>3 DEF RegisterInsert, tables
    <3>2. Moves(r) /\ pc'[r] = "done" /\ answer'[r] # 0
      BY <2>1, <3>1, AnswerMoves DEF Answers, HttpStatuses
    <3> QED
      BY <2>1, <3>1, <3>2, QuietOK
  <2> QED
    BY <2>2, <2>3
<1>4. ASSUME NEW r \in Requests, RegisterSign(r) PROVE TypeOK'
  <2>1. Answer(r, 201) /\ ask' = ask /\ UNCHANGED <<tables, queue>> /\ failures' = failures
        /\ pc[r] = "sign"
    BY <1>4 DEF RegisterSign
  <2>2. Moves(r) /\ pc'[r] = "done" /\ answer'[r] # 0
    BY <2>1, AnswerMoves DEF Answers, HttpStatuses
  <2> QED
    BY <1>0, <2>1, <2>2, QuietOK
<1>5. ASSUME NEW r \in Requests, CreateInsert(r) PROVE TypeOK'
  <2>1. StageOK(r) /\ pc[r] = "create" /\ ask' = ask /\ failures' \in Nat /\ jobs' = jobs
        /\ ask[r].kind = "create" /\ answer[r] = 0 /\ ~HasRow(r) /\ r \notin adding \cup jobs
    BY <1>0, <1>5 DEF CreateInsert, StageOK
  <2>2. CASE /\ Insertable(r) /\ RowWithRole(r)
             /\ adding' = adding \cup {r} /\ Answer(r, 201)
    <3>1. Moves(r) /\ pc'[r] = "done" /\ answer'[r] = 201
      BY <2>1, <2>2, AnswerMoves DEF Answers, HttpStatuses
    <3>2. users' = users \cup {NewUser(r)} /\ HasRow(r)'
      BY <2>2, HasRowKept DEF RowWithRole
    <3>3. StageOK(r)'
      BY <2>1, <3>1, <3>2 DEF StageOK
    <3>4. userRoles' \subseteq UserRole
      BY <2>2, KnownRolesAssumption DEF RowWithRole, UserRole, TypeOK
    <3>5. Adds(r)
      BY <2>1, <2>2, <3>2 DEF Adds
    <3> QED
      BY <2>1, <3>1, <3>3, <3>4, <3>5, StepOK
  <2>3. CASE AnswerWithoutStatus(r) /\ UNCHANGED tables
    BY <2>1, <2>3, EndOK DEF tables, TypeOK
  <2> QED
    BY <1>5, <2>2, <2>3 DEF CreateInsert
<1>6. ASSUME NEW r \in Requests, QueueAdd(r) PROVE TypeOK'
  <2>1. ask' = ask /\ pc' = pc /\ answer' = answer /\ UNCHANGED tables /\ failures' = failures
        /\ adding' \cup jobs' = adding \cup jobs
    BY <1>6 DEF QueueAdd
  <2>2. Moves(r) /\ Adds(r)
    BY <2>1 DEF Moves, Adds, TypeOK, tables
  <2>3. StageOK(r)'
    <3>1. HasRow(r)' <=> HasRow(r)
      BY <2>1, HasRowKept DEF tables
    <3> QED
      BY <1>0, <2>1, <3>1 DEF StageOK
  <2> QED
    BY <1>0, <2>1, <2>2, <2>3, StepOK DEF TypeOK, tables
<1>7. ASSUME NEW r \in Requests, CallFails(r) PROVE TypeOK'
  <2>1. /\ StageOK(r) /\ pc[r] \in RegisterPcs \cup CreatePcs /\ ask' = ask
        /\ failures' \in Nat /\ jobs' = jobs
        /\ answer[r] = 0 /\ r \notin adding \cup jobs
    <3>1. pc[r] # "done"
      BY <1>7 DEF CallFails
    <3> QED
      BY <1>0, <1>7, <3>1 DEF CallFails, StageOK
  <2>2. \/ UNCHANGED tables
        \/ users' = users \cup {NewUser(r)} /\ UNCHANGED userRoles
        \/ RowWithRole(r)
    BY <1>7 DEF CallFails
  <2>3. users \subseteq users' /\ users' \subseteq users \cup {NewUser(r)}
    BY <2>2 DEF tables, RowWithRole
  <2>4. userRoles' \subseteq UserRole
    BY <2>2, KnownRolesAssumption DEF RowWithRole, UserRole, TypeOK, tables
  <2>5. CASE FailStatus(r) = NoStatus
    <3>1. AnswerWithoutStatus(r)
      BY <1>7, <2>5 DEF CallFails
    <3>2. pc[r] \in CreatePcs
      BY <2>1, <2>5 DEF FailStatus, NoStatus
    <3> QED
      BY <2>1, <2>3, <2>4, <3>1, <3>2, EndOK
  <2>6. CASE FailStatus(r) # NoStatus
    <3>1. FailStatus(r) = 422 /\ Answer(r, 422) /\ adding' = adding
      BY <1>7, <2>6 DEF CallFails, FailStatus
    <3>2. Moves(r) /\ pc'[r] = "done" /\ answer'[r] = 422
      BY <2>1, <3>1, AnswerMoves DEF Answers, HttpStatuses
    <3>3. Adds(r)
      BY <2>1, <2>3, <3>1 DEF Adds
    <3>4. StageOK(r)'
      BY <2>1, <3>1, <3>2 DEF StageOK
    <3> QED
      BY <2>1, <2>4, <3>2, <3>3, <3>4, StepOK
  <2> QED
    BY <2>5, <2>6
<1>8. ASSUME Crash PROVE TypeOK'
  <2>1. /\ ask' = ask /\ answer' = answer /\ users' = users /\ userRoles' = userRoles
        /\ jobs' = jobs /\ adding' = {} /\ failures' \in Nat
        /\ pc' = [r \in Requests |->
                    IF pc[r] \in RegisterPcs \cup CreatePcs THEN "dropped" ELSE pc[r]]
    BY <1>8 DEF Crash, AfterEnd, tables, TypeOK
  <2>2. pc' \in [Requests -> Pcs]
    BY <2>1 DEF TypeOK, Pcs
  <2>3. ASSUME NEW r \in Requests PROVE StageOK(r)'
    <3>1. StageOK(r) /\ pc'[r] \in {pc[r], "dropped"}
          /\ (pc'[r] = "dropped" => pc[r] \notin {"idle", "done"})
          /\ (pc[r] \in RegisterPcs \cup CreatePcs => pc'[r] = "dropped")
      BY <2>1 DEF TypeOK
    <3>2. HasRow(r)' <=> HasRow(r)
      BY <2>1 DEF HasRow
    <3> QED
      BY <2>1, <3>1, <3>2 DEF StageOK
  <2> QED
    BY <2>1, <2>2, <2>3 DEF TypeOK
<1>9. CASE UNCHANGED vars
  BY <1>9 DEF vars, tables, queue, TypeOK, StageOK, HasRow
<1> QED
  BY <1>1, <1>2, <1>3, <1>4, <1>5, <1>6, <1>7, <1>8, <1>9
     DEF Next, Handle, RegisterStep, CreateStep

LEMMA TypeInit == Init => TypeOK
<1> SUFFICES ASSUME Init PROVE TypeOK
  OBVIOUS
<1>1. /\ pc \in [Requests -> Pcs] /\ answer \in [Requests -> Answers]
      /\ \A r \in Requests : StageOK(r)
  BY DEF Init, Pcs, Answers, StageOK, HasRow, RegisterPcs, CreatePcs
<1> QED
  BY <1>1 DEF Init, TypeOK

(* The types of the tables, and what each stage of a handler has at hand. *)
THEOREM TypeCorrect == Spec => []TypeOK
<1> QED
  BY TypeInit, TypeStep, PTL DEF Spec
=============================================================================
