-------------------------------- MODULE Jobs --------------------------------
(***************************************************************************)
(* The queue QUEUE_MANAGER and its worker, together with Accounts, which   *)
(* adds a job for every user that create_user adds.                        *)
(*                                                                         *)
(* The queue is in Redis and outlives the process; the worker is in the    *)
(* process.  It runs one job at a time under a lock that it renews.  A job *)
(* that is active without a lock has stalled: the library puts it back in  *)
(* line, at most MaxStalledCount times, and then declares it failed.  The  *)
(* processor itself throws nothing.                                        *)
(***************************************************************************)
EXTENDS Accounts

CONSTANTS
  MaxStalledCount,  \* the library's default is 1
  NoJob,            \* the job of a worker that has none
  MaxLosses         \* bound: locks that are lost while the process goes on

ASSUME StalledAssumption == MaxStalledCount \in Nat
ASSUME LossesAssumption == MaxLosses \in Nat
ASSUME NoJobAssumption == NoJob \notin Requests

VARIABLES
  stage,   \* where each request's job is
  locked,  \* the active jobs whose lock is held
  stalls,  \* how often each job has stalled
  worker,  \* the job the worker runs, and the timer it waits for
  losses,  \* locks lost under a running job
  starts,  \* history: how often each job was started
  takes,   \* history: how often the worker took it
  interrupted  \* history: how often it lost its lock, by itself or with the process

queueVars == <<stage, locked, stalls>>
counts == <<starts, takes, interrupted>>
jobVars == <<queueVars, worker, losses, counts>>
allVars == <<vars, jobVars>>

Stages == {"none", "delayed", "waiting", "active", "completed", "failed"}
Ended == {"completed", "failed"}
IdleWorker == [job |-> NoJob, timer |-> 0]

Move(r, to) == stage' = [stage EXCEPT ![r] = to]

-----------------------------------------------------------------------------
(* What Accounts does, and what it means for the queue. *)

Interrupt(S) ==
  interrupted' = [r \in Requests |-> interrupted[r] + IF r \in S THEN 1 ELSE 0]

FaultyLoseWorker ==  \* locks for good
  worker' = IdleWorker /\ locked' = locked /\ Interrupt(locked)
(* The worker ends with the process, and its locks run out. *)
LoseWorker == worker' = IdleWorker /\ locked' = {} /\ Interrupt(locked)

(* A request ends the process when its exception has no status. *)
Serve(r) ==
  /\ Arrive(r) \/ Handle(r) \/ CallFails(r)
  /\ IF answer'[r] = NoStatus THEN LoseWorker ELSE UNCHANGED <<worker, locked, interrupted>>
  /\ UNCHANGED <<stage, stalls, losses, starts, takes>>

(* The add reaches Redis: the job is due after the delay of its options. *)
Enqueue(r) ==
  /\ QueueAdd(r)
  /\ Move(r, "delayed")
  /\ UNCHANGED <<locked, stalls, worker, losses, counts>>

ProcessEnds == Crash /\ LoseWorker /\ UNCHANGED <<stage, stalls, losses, starts, takes>>

-----------------------------------------------------------------------------
(* The worker *)

(* The nine seconds of the delay are over. *)
Due(r) ==
  /\ stage[r] = "delayed"
  /\ Move(r, "waiting")
  /\ UNCHANGED <<vars, locked, stalls, worker, losses, counts>>

FaultyTake(r) ==  \* while it runs another job, whose run it forgets
  /\ stage[r] = "waiting"
  /\ Move(r, "active")
  /\ locked' = locked \cup {r}
  /\ worker' = [job |-> r, timer |-> 1]
  /\ takes' = [takes EXCEPT ![r] = @ + 1]
  /\ UNCHANGED <<vars, stalls, losses, starts, interrupted>>

(* No concurrency is asked for: the worker takes a job when it has none. *)
Take(r) ==
  /\ worker = IdleWorker /\ stage[r] = "waiting"
  /\ Move(r, "active")
  /\ locked' = locked \cup {r}
  /\ worker' = [job |-> r, timer |-> 1]
  /\ takes' = [takes EXCEPT ![r] = @ + 1]
  /\ UNCHANGED <<vars, stalls, losses, starts, interrupted>>

(* After the first timer: "Started" and the data are logged. *)
Begin ==
  /\ worker.timer = 1
  /\ worker' = [worker EXCEPT !.timer = 2]
  /\ starts' = [starts EXCEPT ![worker.job] = @ + 1]
  /\ UNCHANGED <<vars, queueVars, losses, takes, interrupted>>

FaultyFinish ==  \* the lock is not looked at
  /\ worker.timer = 2
  /\ Move(worker.job, "completed")
  /\ locked' = locked \ {worker.job}
  /\ worker' = IdleWorker
  /\ UNCHANGED <<vars, stalls, losses, counts>>

(* After the second timer process returns.  The job is completed, and kept,  *)
(* if its lock still holds; if not, Redis refuses and the run was for nothing. *)
Finish ==
  /\ worker.timer = 2
  /\ IF worker.job \in locked THEN Move(worker.job, "completed") ELSE UNCHANGED stage
  /\ locked' = locked \ {worker.job}
  /\ worker' = IdleWorker
  /\ UNCHANGED <<vars, stalls, losses, counts>>

(* The lock is not renewed in time, although the process goes on. *)
LoseLock(r) ==
  /\ r \in locked /\ losses < MaxLosses
  /\ losses' = losses + 1
  /\ locked' = locked \ {r}
  /\ Interrupt({r})
  /\ UNCHANGED <<vars, stage, stalls, worker, starts, takes>>

FaultyStalled(r) ==  \* put back however often it stalled
  /\ stage[r] = "active" /\ r \notin locked
  /\ stalls' = [stalls EXCEPT ![r] = @ + 1]
  /\ Move(r, "waiting")
  /\ UNCHANGED <<vars, locked, worker, losses, counts>>

FaultyStalledSoon(r) ==  \* not put back at all
  /\ stage[r] = "active" /\ r \notin locked
  /\ stalls' = [stalls EXCEPT ![r] = @ + 1]
  /\ Move(r, "failed")
  /\ UNCHANGED <<vars, locked, worker, losses, counts>>

(* The library's check for stalled jobs.  attempts: 1 plays no part in it. *)
Stalled(r) ==
  /\ stage[r] = "active" /\ r \notin locked
  /\ stalls' = [stalls EXCEPT ![r] = @ + 1]
  /\ Move(r, IF stalls[r] < MaxStalledCount THEN "waiting" ELSE "failed")
  /\ UNCHANGED <<vars, locked, worker, losses, counts>>

-----------------------------------------------------------------------------
(* The specification *)

JobsInit ==
  /\ Init
  /\ stage = [r \in Requests |-> "none"]
  /\ locked = {} /\ worker = IdleWorker /\ losses = 0
  /\ stalls = [r \in Requests |-> 0] /\ starts = [r \in Requests |-> 0]
  /\ takes = [r \in Requests |-> 0] /\ interrupted = [r \in Requests |-> 0]

Run == Begin \/ Finish
Line(r) == Due(r) \/ Take(r) \/ Stalled(r)

JobsNext ==
  \/ ProcessEnds \/ Run
  \/ \E r \in Requests : Serve(r) \/ Enqueue(r) \/ Line(r) \/ LoseLock(r)

JobsSpec == JobsInit /\ [][JobsNext]_allVars

(* As in Accounts; and the process is started again when it has ended, so that *)
(* the worker takes what waits, its timers run out and the check is made.       *)
FairJobsSpec ==
  /\ JobsSpec
  /\ WF_allVars(Run)
  /\ \A r \in Requests : WF_allVars(Handle(r) /\ Serve(r)) /\ WF_allVars(Enqueue(r))
                         /\ WF_allVars(Line(r))

-----------------------------------------------------------------------------
(* Properties *)

(* The types; a job is somewhere in the queue if it was added, and the one   *)
(* lock is that of the job the worker runs.                                  *)
WorkerOK ==
  \/ worker = IdleWorker
  \/ worker.job \in jobs /\ worker.timer \in {1, 2}

JobsTypeOK ==
  /\ stage \in [Requests -> Stages]
  /\ losses \in Nat /\ stalls \in [Requests -> Nat]
  /\ \A count \in {starts, takes, interrupted} : count \in [Requests -> Nat]
  /\ worker \in [job : Requests \cup {NoJob}, timer : {0, 1, 2}] /\ WorkerOK
  /\ \A r \in Requests : stage[r] # "none" <=> r \in jobs
  /\ locked \subseteq Requests
  /\ \A r \in locked : r = worker.job /\ stage[r] = "active"

(* A job is started once, and once more for each time it stalled and was put *)
(* back: never more often, although a run goes on after its lock was lost.   *)
StartsBounded == \A r \in Requests : starts[r] <= 1 + MaxStalledCount

(* A job is completed only by a run that came to its end and was not         *)
(* interrupted: every earlier run of it was, this one was not.  A run that   *)
(* lost its lock goes on to its end beside the check that puts the job back,  *)
(* and completes nothing.                                                     *)
CompletedWasRun ==
  [][\A r \in Requests : stage[r] # "completed" /\ stage'[r] = "completed" =>
       worker = [job |-> r, timer |-> 2] /\ takes[r] = interrupted[r] + 1]_allVars

(* Each stall of a job has an interruption of that very job as its cause: its *)
(* lock was lost, or the process ended while it ran, by a crash or by the     *)
(* exception of another request.  So it fails only when it was itself          *)
(* interrupted more often than MaxStalledCount.                               *)
FailedForCause ==
  \A r \in Requests :
    /\ stalls[r] <= interrupted[r]
    /\ stage[r] = "failed" => interrupted[r] > MaxStalledCount

(* Every job in the queue ends, through any interruptions: and by            *)
(* FailedForCause it is completed, if there were few.                         *)
EveryJobEnds == \A r \in Requests : r \in jobs ~> stage[r] \in Ended
=============================================================================
