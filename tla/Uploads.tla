------------------------------ MODULE Uploads ------------------------------
(***************************************************************************)
(* The two routes that take files: POST /user/upload, which sends images   *)
(* to a bucket, and POST /file-upload/uploadFile, which takes one csv.     *)
(*                                                                         *)
(* multer stores the parts of a form on disk before the handler runs, in   *)
(* any order of completion, and removes them again if there are too many   *)
(* or if one cannot be stored.  The handler of upload starts a send for    *)
(* every file from an async callback of forEach and answers: nothing waits *)
(* for the sends, and a send that is rejected ends the process.            *)
(*                                                                         *)
(* A file is known by its request and its place in the form: its name on   *)
(* disk and in the bucket is made of 32 random digits.  diskStorage gives  *)
(* a file no buffer, so an object of the bucket is its key alone.          *)
(***************************************************************************)
EXTENDS Integers, Sequences

CONSTANTS
  Requests,    \* the requests, each of which is one form
  Kinds,       \* kinds of files
  Accepted,    \* those that are image/png and not too big
  ImageLimit,  \* the most files upload takes: 4
  MaxFiles,    \* bound: the most files of a form
  MaxFailures  \* bound: stores or sends that fail, and crashes

ASSUME KindsAssumption == Accepted \subseteq Kinds
ASSUME LimitAssumption == ImageLimit \in Nat \ {0}
ASSUME BoundsAssumption == MaxFiles \in Nat /\ MaxFailures \in Nat

VARIABLES
  form,      \* what each request asks for: the route and the files
  stage,     \* where each request is
  status,    \* the status of its answer; 0: not answered, or dropped
  disk,      \* the files in ./uploads
  sending,   \* the sends that the process has under way
  bucket,    \* the objects in the bucket
  lost,      \* history: the sends that ended with the process
  failures   \* how many calls have failed, for the bound

requestVars == <<form, stage, status>>
sendVars == <<sending, bucket, lost>>
vars == <<requestVars, disk, sendVars, failures>>

Form == [route : {"upload", "csv"}, files : UNION {[1..n -> Kinds] : n \in 0..MaxFiles}]
Stages == {"new", "storing", "ended"}
HttpStatuses == {0, 201, 400, 500}

Limit(r) == IF form[r].route = "upload" THEN ImageLimit ELSE 1
Fits(r) == Len(form[r].files) <= Limit(r)

(* The files of the form that multer stores before it sees one too many. *)
Parts(r) == {<<r, n>> : n \in 1..(IF Fits(r) THEN Len(form[r].files) ELSE Limit(r))}

FaultyReady(r) ==  \* what others store is waited for as well
  stage[r] = "storing" /\ Parts(r) = disk

(* Every file that multer has begun to store is on disk. *)
Ready(r) == stage[r] = "storing" /\ Parts(r) \subseteq disk

Answer(r, code) ==
  /\ stage' = [stage EXCEPT ![r] = "ended"]
  /\ status' = [status EXCEPT ![r] = code]
  /\ UNCHANGED form

-----------------------------------------------------------------------------
(* FilesInterceptor and FileInterceptor *)

Arrive(r) ==
  /\ stage[r] = "new"
  /\ stage' = [stage EXCEPT ![r] = "storing"]
  /\ UNCHANGED <<form, status, disk, sendVars, failures>>

StoreFile(r) ==
  /\ stage[r] = "storing"
  /\ \E file \in Parts(r) \ disk : disk' = disk \cup {file}
  /\ UNCHANGED <<requestVars, sendVars, failures>>

FaultyTooMany(r) ==  \* what was stored stays
  /\ Ready(r) /\ ~Fits(r)
  /\ Answer(r, 400)
  /\ UNCHANGED <<disk, sendVars, failures>>

(* LIMIT_UNEXPECTED_FILE: once the files before it are stored, they go. *)
TooMany(r) ==
  /\ Ready(r) /\ ~Fits(r)
  /\ disk' = disk \ Parts(r)
  /\ Answer(r, 400)
  /\ UNCHANGED <<sendVars, failures>>

(* The files of the form that were stored go; what was written of the one that *)
(* failed is no file here (multer leaves it on disk).                          *)
StoreFails(r) ==
  /\ stage[r] = "storing" /\ ~Ready(r) /\ failures < MaxFailures
  /\ failures' = failures + 1
  /\ disk' = disk \ Parts(r)
  /\ Answer(r, 500)
  /\ UNCHANGED sendVars

-----------------------------------------------------------------------------
(* The handlers *)

FaultyPipePasses(r) ==  \* one file that passes is enough
  \E n \in DOMAIN form[r].files : form[r].files[n] \in Accepted

(* ParseFilePipe: there is a file, and every file passes both validators. *)
PipePasses(r) ==
  /\ form[r].files # <<>>
  /\ \A n \in DOMAIN form[r].files : form[r].files[n] \in Accepted

FaultyUpload(r) ==  \* return in the first turn of the loop
  /\ Ready(r) /\ Fits(r) /\ form[r].route = "upload"
  /\ IF PipePasses(r) THEN Answer(r, 201) /\ sending' = sending \cup {<<r, 1>>}
                      ELSE Answer(r, 400) /\ UNCHANGED sending
  /\ UNCHANGED <<disk, bucket, lost, failures>>

(* UserController.uploadFile: every callback runs to its await. *)
Upload(r) ==
  /\ Ready(r) /\ Fits(r) /\ form[r].route = "upload"
  /\ IF PipePasses(r) THEN Answer(r, 201) /\ sending' = sending \cup Parts(r)
                      ELSE Answer(r, 400) /\ UNCHANGED sending
  /\ UNCHANGED <<disk, bucket, lost, failures>>

(* QueueController.uploadFile: without a file, file.buffer throws.  What it *)
(* calls returns its arguments: the file goes nowhere.                      *)
UploadCsv(r) ==
  /\ Ready(r) /\ Fits(r) /\ form[r].route = "csv"
  /\ Answer(r, IF form[r].files = <<>> THEN 500 ELSE 201)
  /\ UNCHANGED <<disk, sendVars, failures>>

-----------------------------------------------------------------------------
(* The sends, and the end of the process *)

FaultySendDone ==  \* the first that is done ends the others
  /\ \E file \in sending : bucket' = bucket \cup {file} /\ sending' = {}
  /\ UNCHANGED <<requestVars, disk, lost, failures>>

SendDone ==
  /\ \E file \in sending : bucket' = bucket \cup {file} /\ sending' = sending \ {file}
  /\ UNCHANGED <<requestVars, disk, lost, failures>>

FaultyProcessEnds ==  \* dropped requests are handled again
  /\ failures < MaxFailures
  /\ failures' = failures + 1
  /\ stage' = [r \in Requests |-> IF stage[r] = "storing" THEN "new" ELSE stage[r]]
  /\ \E done \in SUBSET sending : bucket' = bucket \cup done /\ lost' = lost \cup (sending \ done)
  /\ sending' = {}
  /\ UNCHANGED <<form, status, disk>>

(* Requests are dropped and their files stay on disk.  Of the sends under *)
(* way, some have reached the bucket.                                     *)
ProcessEnds ==
  /\ failures < MaxFailures
  /\ failures' = failures + 1
  /\ stage' = [r \in Requests |-> IF stage[r] = "storing" THEN "ended" ELSE stage[r]]
  /\ \E done \in SUBSET sending : bucket' = bucket \cup done /\ lost' = lost \cup (sending \ done)
  /\ sending' = {}
  /\ UNCHANGED <<form, status, disk>>

(* The try of the handler is over: nobody handles the rejection of a send. *)
SendFails == sending # {} /\ ProcessEnds

Crash == (\E r \in Requests : stage[r] = "storing") /\ ProcessEnds

-----------------------------------------------------------------------------
(* The specification *)

Init ==
  /\ form \in [Requests -> Form]
  /\ stage = [r \in Requests |-> "new"] /\ status = [r \in Requests |-> 0]
  /\ disk = {} /\ sending = {} /\ bucket = {} /\ lost = {} /\ failures = 0

(* What the server does for a request once it has come in. *)
Handle(r) == StoreFile(r) \/ TooMany(r) \/ Upload(r) \/ UploadCsv(r)

Next ==
  \/ SendDone \/ SendFails \/ Crash
  \/ \E r \in Requests : Arrive(r) \/ Handle(r) \/ StoreFails(r)

Spec == Init /\ [][Next]_vars

(* Files are written, handlers run and sends end: with an error, if need be. *)
FairSpec == Spec /\ WF_vars(SendDone) /\ \A r \in Requests : WF_vars(Handle(r))

-----------------------------------------------------------------------------
(* Properties *)

Places == Requests \X (Nat \ {0})

(* The types; a request that has not come in has left nothing anywhere. *)
TypeOK ==
  /\ form \in [Requests -> Form]
  /\ stage \in [Requests -> Stages] /\ status \in [Requests -> HttpStatuses]
  /\ disk \subseteq Places /\ sending \subseteq disk /\ failures \in Nat
  /\ \A r \in Requests : stage[r] # "ended" => status[r] = 0
  /\ \A file \in disk : stage[file[1]] # "new" /\ file \in Parts(file[1])

(* What is left on disk.  A form with too many files, or one of whose files  *)
(* could not be stored, leaves no whole file; all the others leave every file, *)
(* also those that ParseFilePipe has refused.                                *)
LeftOnDisk ==
  \A r \in Requests : status[r] # 0 =>
    IF Fits(r) /\ status[r] # 500 THEN Parts(r) \subseteq disk
                                  ELSE Parts(r) \cap disk = {}

(* Nothing of a form that was refused, dropped or meant for the other route  *)
(* gets to the bucket, whatever part of it was acceptable; and what gets     *)
(* there is on disk as well.                                                 *)
OnlyAcceptedSent ==
  \A file \in sending \cup bucket \cup lost :
    LET r == file[1]
    IN /\ status[r] = 201 /\ form[r].route = "upload" /\ file \in disk
       /\ \A n \in DOMAIN form[r].files : form[r].files[n] \in Accepted

(* An answer that lists the files says nothing of the bucket; but every file *)
(* of it is there, on its way, or was under way when the process ended.      *)
NoFileForgotten ==
  \A r \in Requests : status[r] = 201 /\ form[r].route = "upload" =>
    Parts(r) \subseteq sending \cup bucket \cup lost

(* multer, the pipe and the unawaited sends come to an outbox that accepts   *)
(* a form in one step, the one that answers 201, with all of its files, and   *)
(* that delivers or loses each of them once, whatever ends the process.       *)
AllOf(r) == {<<r, n>> : n \in 1..Len(form[r].files)}

Box == INSTANCE Outbox WITH
  Files <- Requests \X (1..MaxFiles),
  order <- [r \in Requests |-> AllOf(r)],
  accepted <- {r \in Requests : status[r] = 201 /\ form[r].route = "upload"},
  waiting <- sending,
  delivered <- bucket

ImplementsOutbox == Box!BoxSpec

(* The files of an answered upload are in the bucket in the end, but for     *)
(* those that were under way when the process ended.                         *)
FilesArrive ==
  \A r \in Requests : status[r] = 201 /\ form[r].route = "upload" ~>
    Parts(r) \subseteq bucket \cup lost

(* Every request with files ends, answered or dropped with the process.      *)
EveryFormEnds == \A r \in Requests : stage[r] = "storing" ~> stage[r] = "ended"
=============================================================================
