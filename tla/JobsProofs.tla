----------------------------- MODULE JobsProofs -----------------------------
(***************************************************************************)
(* The life of a job, for any requests, stalls and interruptions: how      *)
(* often it is started, and why it may fail.                               *)
(***************************************************************************)
EXTENDS Jobs, AccountsProofs

USE DEF queueVars, counts, jobVars, allVars, tables, queue

Pending(r) == IF worker.job = r /\ worker.timer = 1 THEN 1 ELSE 0
Open(r) == IF stage[r] = "active" /\ r \notin locked THEN 1 ELSE 0
Whole(r) == IF r \in locked \/ stage[r] = "completed" THEN 1 ELSE 0

(* How often a job was started, with the start its worker is about to make,  *)
(* against how often it stalled: a job in line has stalled once for every     *)
(* start, an active one may be at its first.                                  *)
StartInv(r) ==
  /\ stage[r] \in {"none", "delayed"} => starts[r] = 0 /\ stalls[r] = 0 /\ worker.job # r
  /\ stage[r] \in {"waiting", "active"} => stalls[r] <= MaxStalledCount
  /\ stage[r] = "waiting" => starts[r] + Pending(r) <= stalls[r]
  /\ stage[r] = "active" => starts[r] + Pending(r) <= stalls[r] + 1
  /\ stage[r] = "completed" => /\ worker.job # r /\ stalls[r] <= MaxStalledCount
                               /\ starts[r] \in 1..(1 + stalls[r])
  /\ stage[r] = "failed" => starts[r] + Pending(r) <= MaxStalledCount + 1
  /\ worker.job = r /\ worker.timer = 2 => starts[r] >= 1

(* The interruptions of a job are its stalls, and the one that is to be found *)
(* yet; the runs of it are those interrupted, and the one that was not.       *)
CauseInv(r) ==
  /\ interrupted[r] = stalls[r] + Open(r)
  /\ takes[r] = interrupted[r] + Whole(r)
  /\ stage[r] = "failed" => stalls[r] > MaxStalledCount

IInv ==
  /\ TypeOK /\ JobsTypeOK
  /\ adding \cap jobs = {}
  /\ \A r \in Requests : StartInv(r) /\ CauseInv(r)

-----------------------------------------------------------------------------
(* Jobs is Accounts, with a queue that looks on. *)

LEMMA IsAccountsStep == [JobsNext]_allVars => [Next]_vars
PROOF
  BY DEF JobsNext, ProcessEnds, Run, Serve, Enqueue, Line, Begin, Finish, Due, Take,
     Stalled, LoseLock, Next

(* A request has no job before it is answered. *)
LEMMA ServeEffect ==
  ASSUME TypeOK, NEW r \in Requests, Serve(r)
  PROVE  jobs' = jobs /\ r \notin jobs /\ adding' \subseteq adding \cup {r}
PROOF
<1> USE DEF RegisterPcs, CreatePcs
<1>1. StageOK(r)
  BY DEF TypeOK
<1>2. pc[r] \in {"idle"} \cup RegisterPcs \cup CreatePcs
  BY DEF Serve, Arrive, Handle, RegisterStep, CreateStep, RegisterFind, RegisterHash,
     RegisterInsert, RegisterSign, CreateHash, CreateFind, CreateInsert, CallFails
<1>3. r \notin jobs
  BY <1>1, <1>2 DEF StageOK
<1>4. jobs' = jobs /\ adding' \subseteq adding \cup {r}
  <2> USE DEF AnswerWithoutStatus
  <2>1. CASE Arrive(r)
    BY <2>1 DEF Arrive
  <2>2. CASE RegisterStep(r)
    BY <2>2 DEF RegisterStep, RegisterFind, RegisterHash, RegisterInsert, RegisterSign
  <2>3. CASE CreateHash(r) \/ CreateFind(r)
    BY <2>3 DEF CreateHash, CreateFind
  <2>4. CASE CreateInsert(r)
    BY <2>4 DEF CreateInsert
  <2>5. CASE CallFails(r)
    BY <2>5 DEF CallFails
  <2> QED
    BY <2>1, <2>2, <2>3, <2>4, <2>5 DEF Serve, Handle, CreateStep
<1> QED
  BY <1>3, <1>4

-----------------------------------------------------------------------------
(* One lemma for each thing that happens to jobs and worker.  All of them     *)
(* prove the part of the invariant that is about jobs.                        *)

Part == JobsTypeOK /\ \A r \in Requests : StartInv(r) /\ CauseInv(r)

LEMMA IdleOK ==
  IdleWorker \in [job : Requests \cup {NoJob}, timer : {0, 1, 2}]
    /\ IdleWorker.job = NoJob /\ IdleWorker.timer = 0
PROOF
  BY DEF IdleWorker

(* The facts about a state that the steps start from. *)
LEMMA Facts ==
  ASSUME IInv
  PROVE  /\ stage \in [Requests -> Stages] /\ losses \in Nat
         /\ stalls \in [Requests -> Nat] /\ starts \in [Requests -> Nat]
         /\ takes \in [Requests -> Nat] /\ interrupted \in [Requests -> Nat]
         /\ worker \in [job : Requests \cup {NoJob}, timer : {0, 1, 2}]
         /\ jobs \subseteq Requests
         /\ \A r \in Requests : stage[r] # "none" <=> r \in jobs
         /\ locked \subseteq Requests
         /\ \A r \in locked : r = worker.job /\ stage[r] = "active"
         /\ worker = IdleWorker \/ (worker.job \in jobs /\ worker.timer \in {1, 2})
         /\ \A r \in Requests : StartInv(r) /\ CauseInv(r)
PROOF
  BY DEF IInv, JobsTypeOK, WorkerOK, TypeOK

(* Nothing happens to them. *)
LEMMA NothingKeeps ==
  ASSUME IInv, UNCHANGED <<stage, locked, stalls, worker, losses, counts, jobs>>
  PROVE  Part'
PROOF
<1>1. JobsTypeOK'
  BY Facts DEF JobsTypeOK, WorkerOK
<1>2. ASSUME NEW r \in Requests PROVE StartInv(r)' /\ CauseInv(r)'
  <2>1. StartInv(r) /\ CauseInv(r)
    BY Facts
  <2> QED
    BY <2>1 DEF StartInv, CauseInv, Pending, Open, Whole
<1> QED
  BY <1>1, <1>2 DEF Part

(* The process ends, and its worker with it. *)
LEMMA EndKeeps ==
  ASSUME IInv, LoseWorker, UNCHANGED <<stage, stalls, starts, takes, losses, jobs>>
  PROVE  Part'
PROOF
<1>1. worker' = IdleWorker /\ locked' = {} /\ worker'.job = NoJob /\ worker'.timer = 0
  BY IdleOK DEF LoseWorker
<1>2. JobsTypeOK'
  <2>1. interrupted' \in [Requests -> Nat]
    BY Facts DEF LoseWorker, Interrupt
  <2> QED
    BY <1>1, <2>1, IdleOK, Facts DEF JobsTypeOK, WorkerOK
<1>3. ASSUME NEW r \in Requests PROVE StartInv(r)' /\ CauseInv(r)'
  <2>1. /\ stalls[r] \in Nat /\ starts[r] \in Nat /\ interrupted[r] \in Nat /\ r # NoJob
        /\ StartInv(r) /\ CauseInv(r) /\ Pending(r) \in {0, 1}
        /\ r \in locked => stage[r] = "active"
    BY Facts, NoJobAssumption DEF Pending
  <2>2. Pending(r)' = 0
    BY <1>1, <2>1 DEF Pending
  <2>3. StartInv(r)'
    BY <1>1, <2>1, <2>2, StalledAssumption DEF StartInv
  <2>4. CauseInv(r)'
    <3>1. interrupted'[r] = interrupted[r] + IF r \in locked THEN 1 ELSE 0
      BY DEF LoseWorker, Interrupt
    <3> QED
      BY <1>1, <2>1, <3>1 DEF CauseInv, Open, Whole
  <2> QED
    BY <2>3, <2>4
<1> QED
  BY <1>2, <1>3 DEF Part

(* A job is added, or is due: it has not been started yet. *)
LEMMA LineKeeps ==
  ASSUME IInv, NEW r \in Requests, NEW to \in {"delayed", "waiting"}, Move(r, to),
         UNCHANGED <<locked, stalls, worker, losses, counts>>,
         jobs' = jobs \cup {r}, stage[r] = (IF to = "delayed" THEN "none" ELSE "delayed")
  PROVE  Part'
PROOF
<1>1. /\ stage' \in [Requests -> Stages] /\ stage'[r] = to
      /\ \A q \in Requests \ {r} : stage'[q] = stage[q]
  BY Facts DEF Move, Stages
<1>2. starts[r] = 0 /\ stalls[r] = 0 /\ worker.job # r /\ r \notin locked
  BY Facts DEF StartInv
<1>3. JobsTypeOK'
  BY <1>1, <1>2, Facts DEF JobsTypeOK, WorkerOK
<1>4. ASSUME NEW q \in Requests PROVE StartInv(q)' /\ CauseInv(q)'
  <2>1. StartInv(q) /\ CauseInv(q)
    BY Facts
  <2>2. CASE q = r
    BY <1>1, <1>2, <2>1, <2>2, StalledAssumption DEF StartInv, CauseInv, Pending, Open, Whole
  <2>3. CASE q # r
    BY <1>1, <2>1, <2>3 DEF StartInv, CauseInv, Pending, Open, Whole
  <2> QED
    BY <2>2, <2>3
<1> QED
  BY <1>3, <1>4 DEF Part

(* The worker takes a job, and is about to start it. *)
LEMMA TakeKeeps ==
  ASSUME IInv, NEW r \in Requests, Take(r)
  PROVE  Part'
PROOF
<1>1. /\ worker = IdleWorker /\ stage[r] = "waiting"
      /\ locked' = locked \cup {r} /\ worker' = [job |-> r, timer |-> 1]
      /\ UNCHANGED <<jobs, stalls, starts, interrupted, losses>>
      /\ stage' \in [Requests -> Stages] /\ stage'[r] = "active"
      /\ takes' \in [Requests -> Nat] /\ takes'[r] = takes[r] + 1
      /\ \A q \in Requests \ {r} : stage'[q] = stage[q] /\ takes'[q] = takes[q]
  BY Facts DEF Take, Move, Stages, vars
<1>2. worker.job = NoJob /\ locked = {}
  <2>1. worker.job = NoJob
    BY <1>1, IdleOK
  <2>2. ASSUME NEW q \in locked PROVE FALSE
    BY <2>1, NoJobAssumption, Facts
  <2> QED
    BY <2>1, <2>2
<1>3. JobsTypeOK'
  BY <1>1, <1>2, Facts DEF JobsTypeOK, WorkerOK
<1>4. ASSUME NEW q \in Requests PROVE StartInv(q)' /\ CauseInv(q)'
  <2>1. /\ StartInv(q) /\ CauseInv(q) /\ q # NoJob
        /\ stalls[q] \in Nat /\ starts[q] \in Nat
    BY Facts, NoJobAssumption
  <2>2. CASE q = r
    BY <1>1, <1>2, <2>1, <2>2, StalledAssumption DEF StartInv, CauseInv, Pending, Open, Whole
  <2>3. CASE q # r
    BY <1>1, <1>2, <2>1, <2>3 DEF StartInv, CauseInv, Pending, Open, Whole
  <2> QED
    BY <2>2, <2>3
<1> QED
  BY <1>3, <1>4 DEF Part

(* The start that was pending is made. *)
LEMMA BeginKeeps ==
  ASSUME IInv, Begin
  PROVE  Part'
PROOF
<1> DEFINE r == worker.job
<1>1. /\ worker.timer = 1 /\ r \in Requests /\ worker'.job = r /\ worker'.timer = 2
      /\ worker' \in [job : Requests \cup {NoJob}, timer : {0, 1, 2}]
      /\ starts' \in [Requests -> Nat] /\ starts'[r] = starts[r] + 1
      /\ \A q \in Requests \ {r} : starts'[q] = starts[q]
      /\ UNCHANGED <<jobs, stage, locked, stalls, losses, takes, interrupted>>
  BY Facts, IdleOK DEF Begin, vars
<1>2. JobsTypeOK'
  BY <1>1, Facts, IdleOK DEF JobsTypeOK, WorkerOK
<1>3. ASSUME NEW q \in Requests PROVE StartInv(q)' /\ CauseInv(q)'
  <2>1. /\ StartInv(q) /\ CauseInv(q) /\ stalls[q] \in Nat /\ starts[q] \in Nat
    BY Facts
  <2>2. CASE q = r
    BY <1>1, <2>1, <2>2, StalledAssumption DEF StartInv, CauseInv, Pending, Open, Whole
  <2>3. CASE q # r
    BY <1>1, <2>1, <2>3 DEF StartInv, CauseInv, Pending, Open, Whole
  <2> QED
    BY <2>2, <2>3
<1> QED
  BY <1>2, <1>3 DEF Part

(* The run is over: its job is completed if it still has its lock. *)
LEMMA FinishKeeps ==
  ASSUME IInv, Finish
  PROVE  Part'
PROOF
<1> DEFINE r == worker.job
<1>1. /\ worker.timer = 2 /\ r \in jobs /\ r \in Requests /\ starts[r] >= 1
      /\ worker' = IdleWorker /\ worker'.job = NoJob /\ worker'.timer = 0
      /\ locked' = {} /\ UNCHANGED <<jobs, stalls, losses, counts>>
      /\ stage' \in [Requests -> Stages]
      /\ stage'[r] = IF r \in locked THEN "completed" ELSE stage[r]
      /\ \A q \in Requests \ {r} : stage'[q] = stage[q]
  BY Facts, IdleOK DEF Finish, Move, Stages, StartInv, vars
<1>2. r \in locked => stage[r] = "active"
  BY Facts
<1>3. JobsTypeOK'
  BY <1>1, <1>2, Facts, IdleOK DEF JobsTypeOK, WorkerOK
<1>4. ASSUME NEW q \in Requests PROVE StartInv(q)' /\ CauseInv(q)'
  <2>1. /\ StartInv(q) /\ CauseInv(q) /\ q # NoJob
        /\ stalls[q] \in Nat /\ starts[q] \in Nat
    BY Facts, NoJobAssumption
  <2>2. CASE q = r
    BY <1>1, <1>2, <2>1, <2>2, StalledAssumption DEF StartInv, CauseInv, Pending, Open, Whole
  <2>3. CASE q # r
    <3>1. q \notin locked
      BY <2>3, Facts
    <3> QED
      BY <1>1, <2>1, <2>3, <3>1 DEF StartInv, CauseInv, Pending, Open, Whole
  <2> QED
    BY <2>2, <2>3
<1> QED
  BY <1>3, <1>4 DEF Part

(* A lock is lost: one interruption, and one stall to come. *)
LEMMA LossKeeps ==
  ASSUME IInv, NEW r \in Requests, LoseLock(r)
  PROVE  Part'
PROOF
<1>1. /\ r \in locked /\ locked' = locked \ {r} /\ losses' = losses + 1
      /\ UNCHANGED <<jobs, stage, stalls, worker, starts, takes>>
      /\ interrupted' \in [Requests -> Nat] /\ interrupted'[r] = interrupted[r] + 1
      /\ \A q \in Requests \ {r} : interrupted'[q] = interrupted[q]
  BY Facts DEF LoseLock, Interrupt, vars
<1>2. JobsTypeOK'
  BY <1>1, Facts DEF JobsTypeOK, WorkerOK
<1>3. ASSUME NEW q \in Requests PROVE StartInv(q)' /\ CauseInv(q)'
  <2>1. StartInv(q) /\ CauseInv(q) /\ stalls[q] \in Nat /\ (q \in locked => stage[q] = "active")
    BY Facts
  <2>2. StartInv(q)'
    BY <1>1, <2>1 DEF StartInv, Pending
  <2>3. CauseInv(q)'
    BY <1>1, <2>1 DEF CauseInv, Open, Whole
  <2> QED
    BY <2>2, <2>3
<1> QED
  BY <1>2, <1>3 DEF Part

(* A stalled job goes back in line, or fails if it has stalled too often. *)
LEMMA StallKeeps ==
  ASSUME IInv, NEW r \in Requests, Stalled(r)
  PROVE  Part'
PROOF
<1>1. /\ stage[r] = "active" /\ r \notin locked /\ stalls[r] \in Nat
      /\ UNCHANGED <<jobs, locked, worker, losses, counts>>
      /\ stage' \in [Requests -> Stages] /\ stalls' \in [Requests -> Nat]
      /\ stage'[r] = IF stalls[r] < MaxStalledCount THEN "waiting" ELSE "failed"
      /\ stalls'[r] = stalls[r] + 1
      /\ \A q \in Requests \ {r} : stage'[q] = stage[q] /\ stalls'[q] = stalls[q]
  BY Facts DEF Stalled, Move, Stages, vars
<1>2. JobsTypeOK'
  BY <1>1, Facts DEF JobsTypeOK, WorkerOK
<1>3. ASSUME NEW q \in Requests PROVE StartInv(q)' /\ CauseInv(q)'
  <2>1. /\ StartInv(q) /\ CauseInv(q) /\ stalls[q] \in Nat /\ starts[q] \in Nat
        /\ Pending(q)' = Pending(q) /\ Pending(q) \in {0, 1}
    BY <1>1, Facts DEF Pending
  <2>2. CASE q = r
    <3>1. StartInv(r)'
      BY <1>1, <2>1, <2>2, StalledAssumption DEF StartInv
    <3>2. CauseInv(r)'
      BY <1>1, <2>1, <2>2, StalledAssumption DEF CauseInv, Open, Whole
    <3> QED
      BY <2>2, <3>1, <3>2
  <2>3. CASE q # r
    BY <1>1, <2>1, <2>3 DEF StartInv, CauseInv, Open, Whole
  <2> QED
    BY <2>2, <2>3
<1> QED
  BY <1>2, <1>3 DEF Part

-----------------------------------------------------------------------------
(* All together *)

LEMMA InitInv == JobsInit => IInv
PROOF
<1> SUFFICES ASSUME JobsInit PROVE IInv
  OBVIOUS
<1>1. TypeOK
  BY TypeInit DEF JobsInit
<1>2. JobsTypeOK /\ adding \cap jobs = {}
  BY IdleOK DEF JobsInit, Init, JobsTypeOK, WorkerOK, Stages
<1>3. \A r \in Requests : StartInv(r) /\ CauseInv(r)
  BY IdleOK, NoJobAssumption DEF JobsInit, StartInv, CauseInv, Open, Whole
<1> QED
  BY <1>1, <1>2, <1>3 DEF IInv

(* A step leaves the part about jobs as it should be, and adds no job twice. *)
LEMMA PartStep ==
  ASSUME IInv, [JobsNext]_allVars
  PROVE  Part' /\ (adding \cap jobs = {})'
PROOF
<1>1. ASSUME NEW r \in Requests, Serve(r) PROVE Part' /\ (adding \cap jobs = {})'
  <2>1. TypeOK /\ adding \cap jobs = {}
    BY DEF IInv
  <2>2. /\ jobs' = jobs /\ (adding \cap jobs = {})'
        /\ UNCHANGED <<stage, stalls, starts, takes, losses>>
    BY <1>1, <2>1, ServeEffect DEF Serve
  <2>3. CASE answer'[r] = NoStatus
    BY <1>1, <2>2, <2>3, EndKeeps DEF Serve
  <2>4. CASE answer'[r] # NoStatus
    BY <1>1, <2>2, <2>4, NothingKeeps DEF Serve
  <2> QED
    BY <2>2, <2>3, <2>4
<1>2. CASE ProcessEnds
  <2>1. LoseWorker /\ UNCHANGED <<stage, stalls, starts, takes, losses, jobs>> /\ adding' = {}
    BY <1>2 DEF ProcessEnds, Crash
  <2> QED
    BY <2>1, EndKeeps
<1>3. ASSUME NEW r \in Requests, Enqueue(r) PROVE Part' /\ (adding \cap jobs = {})'
  <2>1. /\ r \in adding /\ adding' = adding \ {r} /\ jobs' = jobs \cup {r}
        /\ UNCHANGED <<locked, stalls, worker, losses, counts>>
        /\ Move(r, "delayed")
    BY <1>3 DEF Enqueue, QueueAdd
  <2>2. r \notin jobs /\ adding \cap jobs = {}
    BY <2>1 DEF IInv
  <2>3. stage[r] = "none"
    BY <2>2, Facts
  <2> QED
    BY <2>1, <2>2, <2>3, LineKeeps
<1>4. ASSUME UNCHANGED vars PROVE jobs' = jobs /\ (adding \cap jobs = {})'
  BY <1>4 DEF vars, IInv
<1>5. ASSUME NEW r \in Requests, Line(r) PROVE Part' /\ (adding \cap jobs = {})'
  <2>1. jobs' = jobs /\ (adding \cap jobs = {})'
    BY <1>4, <1>5 DEF Line, Due, Take, Stalled
  <2>2. CASE Due(r)
    <3>1. /\ stage[r] = "delayed" /\ Move(r, "waiting")
          /\ UNCHANGED <<locked, stalls, worker, losses, counts>>
      BY <2>2 DEF Due
    <3>2. jobs' = jobs \cup {r}
      BY <2>1, <3>1, Facts
    <3> QED
      BY <2>1, <3>1, <3>2, LineKeeps
  <2> QED
    BY <1>5, <2>1, <2>2, TakeKeeps, StallKeeps DEF Line
<1>6. CASE Run
  <2>1. (adding \cap jobs = {})'
    BY <1>4, <1>6 DEF Run, Begin, Finish
  <2> QED
    BY <1>6, <2>1, BeginKeeps, FinishKeeps DEF Run
<1>7. ASSUME NEW r \in Requests, LoseLock(r) PROVE Part' /\ (adding \cap jobs = {})'
  <2>1. (adding \cap jobs = {})'
    BY <1>4, <1>7 DEF LoseLock
  <2> QED
    BY <1>7, <2>1, LossKeeps
<1>8. CASE UNCHANGED allVars
  BY <1>4, <1>8, NothingKeeps
<1> QED
  BY <1>1, <1>2, <1>3, <1>5, <1>6, <1>7, <1>8 DEF JobsNext

LEMMA StepInv == IInv /\ [JobsNext]_allVars => IInv'
PROOF
<1> SUFFICES ASSUME IInv, [JobsNext]_allVars PROVE IInv'
  OBVIOUS
<1>1. TypeOK'
  BY IsAccountsStep, TypeStep DEF IInv
<1>2. Part' /\ (adding \cap jobs = {})'
  BY PartStep
<1> QED
  BY <1>1, <1>2 DEF IInv, Part

LEMMA Invariance == JobsSpec => []IInv
PROOF
  BY InitInv, StepInv, PTL DEF JobsSpec

-----------------------------------------------------------------------------
(* The theorems *)

(* The queue changes nothing of what Accounts is proved to do. *)
THEOREM JobsImplementAccounts == JobsSpec => Spec
PROOF
<1>1. JobsInit => Init
  BY DEF JobsInit
<1> QED
  BY <1>1, IsAccountsStep, PTL DEF JobsSpec, Spec

(* The types, and the one lock is that of the job the worker runs. *)
THEOREM JobsTypeCorrect == JobsSpec => []JobsTypeOK
PROOF
<1>1. IInv => JobsTypeOK
  BY DEF IInv
<1> QED
  BY <1>1, Invariance, PTL

(* QueueProcessor.process is begun once, and once more for each stall. *)
THEOREM StartsAreBounded == JobsSpec => []StartsBounded
PROOF
<1>1. IInv => StartsBounded
  <2> SUFFICES ASSUME IInv, NEW r \in Requests PROVE starts[r] <= 1 + MaxStalledCount
    BY DEF StartsBounded
  <2>1. /\ stage[r] \in Stages /\ starts[r] \in Nat /\ stalls[r] \in Nat
        /\ StartInv(r) /\ Pending(r) \in {0, 1}
    BY Facts DEF Pending
  <2> QED
    BY <2>1, StalledAssumption DEF StartInv, Stages
<1> QED
  BY <1>1, Invariance, PTL

(* A job is completed by its last run, which kept its lock from the moment it *)
(* was taken to the end of process; all the runs before it were interrupted.   *)
THEOREM CompletedWereRun == JobsSpec => CompletedWasRun
PROOF
<1>1. IInv /\ [JobsNext]_allVars =>
        [\A r \in Requests : stage[r] # "completed" /\ stage'[r] = "completed" =>
           worker = [job |-> r, timer |-> 2] /\ takes[r] = interrupted[r] + 1]_allVars
  <2> SUFFICES ASSUME IInv, JobsNext, NEW r \in Requests,
                      stage[r] # "completed", stage'[r] = "completed"
               PROVE  worker = [job |-> r, timer |-> 2] /\ takes[r] = interrupted[r] + 1
    OBVIOUS
  <2>1. Finish
    <3> USE Facts DEF Move
    <3>1. CASE ProcessEnds \/ Begin \/ \E q \in Requests : Serve(q) \/ LoseLock(q)
      BY <3>1 DEF ProcessEnds, Begin, Serve, LoseLock
    <3>2. CASE \E q \in Requests : Enqueue(q) \/ Line(q)
      BY <3>2 DEF Enqueue, Line, Due, Take, Stalled
    <3> QED
      BY <3>1, <3>2 DEF JobsNext, Run
  <2>2. worker.job = r /\ worker.timer = 2 /\ r \in locked
    BY <2>1, Facts DEF Finish, Move
  <2>3. worker = [job |-> r, timer |-> 2]
    BY <2>2, Facts
  <2>4. takes[r] = interrupted[r] + 1
    BY <2>2, Facts DEF CauseInv, Whole
  <2> QED
    BY <2>3, <2>4
<1> QED
  BY <1>1, Invariance, PTL DEF JobsSpec, CompletedWasRun

(* A job fails for its own interruptions alone: process throws nothing. *)
THEOREM FailuresHaveCause == JobsSpec => []FailedForCause
PROOF
<1>1. IInv => FailedForCause
  <2> SUFFICES ASSUME IInv, NEW r \in Requests
               PROVE  /\ stalls[r] <= interrupted[r]
                      /\ stage[r] = "failed" => interrupted[r] > MaxStalledCount
    BY DEF FailedForCause
  <2>1. stalls[r] \in Nat /\ CauseInv(r) /\ Open(r) \in {0, 1}
    BY Facts DEF Open
  <2> QED
    BY <2>1, StalledAssumption DEF CauseInv
<1> QED
  BY <1>1, Invariance, PTL
=============================================================================
