--------------------------- MODULE UploadsProofs ---------------------------
(***************************************************************************)
(* The safety of Uploads for any forms, limits and failures.  No part of   *)
(* it is inductive alone: multer removes files of a form that nothing has  *)
(* been sent of, because OnlyAcceptedSent has it.                          *)
(***************************************************************************)
EXTENDS Uploads, TLAPS

Sent == sending \cup bucket \cup lost

IInv == TypeOK /\ LeftOnDisk /\ OnlyAcceptedSent /\ NoFileForgotten

(* A form is a list of at most MaxFiles files. *)
LEMMA FormTyped ==
  ASSUME form \in [Requests -> Form], NEW r \in Requests
  PROVE  Len(form[r].files) \in 0..MaxFiles /\ form[r].files \in Seq(Kinds)
PROOF
<1>1. form[r].files \in UNION {[1..n -> Kinds] : n \in 0..MaxFiles}
  BY DEF Form
<1>2. PICK n \in 0..MaxFiles : form[r].files \in [1..n -> Kinds]
  BY <1>1
<1> QED
  BY <1>2, BoundsAssumption

(* The files of a form are its own. *)
LEMMA PartsOwn ==
  \A r : \A file \in Parts(r) : file[1] = r
PROOF
  BY DEF Parts

LEMMA PartsTyped ==
  ASSUME TypeOK, NEW r \in Requests
  PROVE  Parts(r) \subseteq Places
PROOF
<1>1. Limit(r) \in Nat
  BY LimitAssumption DEF Limit
<1>2. Len(form[r].files) \in Nat
  BY FormTyped, BoundsAssumption DEF TypeOK
<1> QED
  BY <1>1, <1>2 DEF Parts, Places

LEMMA InitInv == Init => IInv
PROOF
  BY DEF Init, IInv, TypeOK, LeftOnDisk, OnlyAcceptedSent, NoFileForgotten, Stages, HttpStatuses

LEMMA PartsStay == form' = form => \A r : Parts(r)' = Parts(r) /\ (Fits(r)' <=> Fits(r))
PROOF
  BY DEF Parts, Fits, Limit

(* A request whose files are being stored has nothing sent. *)
LEMMA NothingSent ==
  ASSUME IInv, NEW r \in Requests, stage[r] = "storing"
  PROVE  Sent \cap Parts(r) = {}
PROOF
<1>1. status[r] = 0
  BY DEF IInv, TypeOK
<1>2. \A file \in Sent : status[file[1]] = 201
  BY DEF IInv, OnlyAcceptedSent, Sent
<1> QED
  BY <1>1, <1>2, PartsOwn

(* A request comes in, or one of its files is stored. *)
LEMMA StoreKeeps ==
  ASSUME IInv, NEW r \in Requests, Arrive(r) \/ StoreFile(r)
  PROVE  IInv'
PROOF
<1>1. /\ UNCHANGED <<form, status, sending, bucket, lost, failures>>
      /\ stage[r] \in {"new", "storing"} /\ stage' = [stage EXCEPT ![r] = "storing"]
      /\ disk \subseteq disk' /\ disk' \subseteq disk \cup Parts(r)
  BY DEF Arrive, StoreFile, requestVars, sendVars, IInv, TypeOK
<1>2. \A q : Parts(q)' = Parts(q) /\ (Fits(q)' <=> Fits(q))
  BY <1>1, PartsStay
<1>3. TypeOK'
  <2>1. disk' \subseteq Places
    BY <1>1, PartsTyped DEF IInv, TypeOK
  <2>2. ASSUME NEW file \in disk' PROVE stage'[file[1]] # "new" /\ file \in Parts(file[1])'
    <3>1. CASE file \in disk
      <4>1. stage[file[1]] # "new" /\ file \in Parts(file[1]) /\ file[1] \in Requests
        BY <3>1 DEF IInv, TypeOK, Places
      <4> QED
        BY <1>1, <1>2, <4>1 DEF IInv, TypeOK
    <3>2. CASE file \in Parts(r)
      BY <1>1, <1>2, <3>2, PartsOwn DEF IInv, TypeOK
    <3> QED
      BY <1>1, <3>1, <3>2
  <2> QED
    BY <1>1, <2>1, <2>2 DEF IInv, TypeOK, Stages
<1>4. LeftOnDisk'
  <2> SUFFICES ASSUME NEW q \in Requests, status[q] # 0
               PROVE  IF Fits(q) /\ status[q] # 500 THEN Parts(q) \subseteq disk'
                                                    ELSE Parts(q) \cap disk' = {}
    BY <1>1, <1>2 DEF LeftOnDisk
  <2>1. q # r
    BY <1>1 DEF IInv, TypeOK
  <2>2. Parts(q) \cap Parts(r) = {}
    BY <2>1, PartsOwn
  <2> QED
    BY <1>1, <2>2 DEF IInv, LeftOnDisk
<1>5. OnlyAcceptedSent'
  BY <1>1 DEF IInv, OnlyAcceptedSent
<1>6. NoFileForgotten'
  BY <1>1, <1>2 DEF IInv, NoFileForgotten
<1> QED
  BY <1>3, <1>4, <1>5, <1>6 DEF IInv

(* A request is answered without a send: its files stay, or all of them go. *)
LEMMA RefuseKeeps ==
  ASSUME IInv, NEW r \in Requests, NEW code \in HttpStatuses \ {0},
         stage[r] = "storing", Answer(r, code), UNCHANGED sendVars, failures' \in Nat,
         code = 201 => form[r].route = "csv",
         \/ disk' = disk /\ Parts(r) \subseteq disk /\ Fits(r) /\ (code = 500 => Parts(r) = {})
         \/ disk' = disk \ Parts(r) /\ (~Fits(r) \/ code = 500)
  PROVE  IInv'
PROOF
<1>1. /\ form' = form /\ stage' = [stage EXCEPT ![r] = "ended"]
      /\ status' = [status EXCEPT ![r] = code]
      /\ UNCHANGED <<sending, bucket, lost>>
  BY DEF Answer, sendVars
<1>2. \A q : Parts(q)' = Parts(q) /\ (Fits(q)' <=> Fits(q))
  BY <1>1, PartsStay
<1>3. Sent \cap Parts(r) = {} /\ disk' \subseteq disk /\ disk \ Parts(r) \subseteq disk'
  BY NothingSent
<1>4. \A q \in Requests : status'[q] = (IF q = r THEN code ELSE status[q])
  BY <1>1 DEF IInv, TypeOK
<1>5. TypeOK'
  <2>1. sending' \subseteq disk'
    BY <1>1, <1>3 DEF IInv, TypeOK, Sent
  <2>2. ASSUME NEW file \in disk' PROVE stage'[file[1]] # "new" /\ file \in Parts(file[1])'
    BY <1>1, <1>2, <1>3 DEF IInv, TypeOK, Places
  <2>3. \A q \in Requests : stage'[q] # "ended" => status'[q] = 0
    BY <1>1, <1>4 DEF IInv, TypeOK
  <2> QED
    BY <1>1, <1>3, <2>1, <2>2, <2>3 DEF IInv, TypeOK, Stages
<1>6. LeftOnDisk'
  <2> SUFFICES ASSUME NEW q \in Requests, status'[q] # 0
               PROVE  IF Fits(q) /\ status'[q] # 500 THEN Parts(q) \subseteq disk'
                                                     ELSE Parts(q) \cap disk' = {}
    BY <1>2 DEF LeftOnDisk
  <2>1. CASE q = r
    BY <1>4, <2>1
  <2>2. CASE q # r
    <3>1. Parts(q) \cap Parts(r) = {}
      BY <2>2, PartsOwn
    <3> QED
      BY <1>3, <1>4, <2>2, <3>1 DEF IInv, LeftOnDisk
  <2> QED
    BY <2>1, <2>2
<1>7. OnlyAcceptedSent'
  <2> SUFFICES ASSUME NEW file \in Sent
               PROVE  /\ status'[file[1]] = 201 /\ form[file[1]].route = "upload"
                      /\ file \in disk'
                      /\ \A n \in DOMAIN form[file[1]].files : form[file[1]].files[n] \in Accepted
    BY <1>1 DEF OnlyAcceptedSent, Sent
  <2>1. /\ status[file[1]] = 201 /\ form[file[1]].route = "upload" /\ file \in disk
        /\ \A n \in DOMAIN form[file[1]].files : form[file[1]].files[n] \in Accepted
    BY DEF IInv, OnlyAcceptedSent, Sent
  <2>2. file[1] \in Requests /\ file[1] # r
    BY <2>1 DEF IInv, TypeOK, Places
  <2> QED
    BY <1>3, <1>4, <2>1, <2>2
<1>8. NoFileForgotten'
  BY <1>1, <1>2, <1>4 DEF IInv, NoFileForgotten
<1> QED
  BY <1>5, <1>6, <1>7, <1>8 DEF IInv

(* upload answers with 201, and every file of the form is on its way. *)
LEMMA SendKeeps ==
  ASSUME IInv, NEW r \in Requests, Ready(r), Fits(r), form[r].route = "upload", PipePasses(r),
         Answer(r, 201), sending' = sending \cup Parts(r),
         UNCHANGED <<disk, bucket, lost, failures>>
  PROVE  IInv'
PROOF
<1>1. /\ form' = form /\ stage' = [stage EXCEPT ![r] = "ended"]
      /\ status' = [status EXCEPT ![r] = 201]
  BY DEF Answer
<1>2. \A q : Parts(q)' = Parts(q) /\ (Fits(q)' <=> Fits(q))
  BY <1>1, PartsStay
<1>3. \A q \in Requests : status'[q] = (IF q = r THEN 201 ELSE status[q])
  BY <1>1 DEF IInv, TypeOK
<1>4. stage[r] = "storing" /\ Parts(r) \subseteq disk
  BY DEF Ready
<1>5. TypeOK'
  <2>1. ASSUME NEW file \in disk PROVE stage'[file[1]] # "new" /\ file \in Parts(file[1])'
    BY <1>1, <1>2 DEF IInv, TypeOK, Places
  <2>2. \A q \in Requests : stage'[q] # "ended" => status'[q] = 0
    BY <1>1, <1>3 DEF IInv, TypeOK
  <2> QED
    BY <1>1, <1>4, <2>1, <2>2 DEF IInv, TypeOK, Stages, HttpStatuses
<1>6. LeftOnDisk'
  BY <1>2, <1>3, <1>4 DEF IInv, LeftOnDisk
<1>7. OnlyAcceptedSent'
  <2> SUFFICES ASSUME NEW file \in Sent \cup Parts(r)
               PROVE  /\ status'[file[1]] = 201 /\ form[file[1]].route = "upload"
                      /\ file \in disk
                      /\ \A n \in DOMAIN form[file[1]].files : form[file[1]].files[n] \in Accepted
    BY <1>1 DEF OnlyAcceptedSent, Sent
  <2>1. CASE file \in Sent
    <3>1. status[file[1]] = 201 /\ file \in disk
      BY <2>1 DEF IInv, OnlyAcceptedSent, Sent
    <3>2. file[1] \in Requests
      BY <3>1 DEF IInv, TypeOK, Places
    <3> QED
      BY <1>3, <2>1, <3>1, <3>2 DEF IInv, OnlyAcceptedSent, Sent
  <2>2. CASE file \in Parts(r)
    BY <1>3, <1>4, <2>2, PartsOwn DEF PipePasses
  <2> QED
    BY <2>1, <2>2
<1>8. NoFileForgotten'
  BY <1>1, <1>2, <1>3 DEF IInv, NoFileForgotten
<1> QED
  BY <1>5, <1>6, <1>7, <1>8 DEF IInv

(* A send is done, or the process ends: what was sent is still accounted for. *)
LEMMA SettleKeeps ==
  ASSUME IInv, SendDone \/ ProcessEnds
  PROVE  IInv'
PROOF
<1>1. /\ UNCHANGED <<form, status, disk>> /\ Sent' = Sent
      /\ sending' \subseteq sending /\ failures' \in Nat
      /\ stage' \in [Requests -> Stages]
      /\ \A r \in Requests : (stage[r] = "new" <=> stage'[r] = "new")
                             /\ (stage[r] = "ended" => stage'[r] = "ended")
  BY DEF SendDone, ProcessEnds, requestVars, sendVars, Sent, IInv, TypeOK, Stages
<1>2. \A q : Parts(q)' = Parts(q) /\ (Fits(q)' <=> Fits(q))
  BY <1>1, PartsStay
<1>3. TypeOK'
  <2>1. ASSUME NEW file \in disk PROVE stage'[file[1]] # "new" /\ file \in Parts(file[1])'
    BY <1>1, <1>2 DEF IInv, TypeOK, Places
  <2> QED
    BY <1>1, <2>1 DEF IInv, TypeOK
<1>4. LeftOnDisk'
  BY <1>1, <1>2 DEF IInv, LeftOnDisk
<1>5. OnlyAcceptedSent'
  BY <1>1 DEF IInv, OnlyAcceptedSent, Sent
<1>6. NoFileForgotten'
  BY <1>1, <1>2 DEF IInv, NoFileForgotten, Sent
<1> QED
  BY <1>3, <1>4, <1>5, <1>6 DEF IInv

LEMMA StepInv == IInv /\ [Next]_vars => IInv'
PROOF
<1> SUFFICES ASSUME IInv, [Next]_vars PROVE IInv'
  OBVIOUS
<1>1. failures \in Nat /\ failures + 1 \in Nat
  BY DEF IInv, TypeOK
<1>2. ASSUME NEW r \in Requests, TooMany(r) PROVE IInv'
  BY <1>1, <1>2, RefuseKeeps DEF TooMany, Ready, HttpStatuses
<1>3. ASSUME NEW r \in Requests, StoreFails(r) PROVE IInv'
  BY <1>1, <1>3, RefuseKeeps DEF StoreFails, HttpStatuses
<1>4. ASSUME NEW r \in Requests, Upload(r) PROVE IInv'
  <2>1. CASE PipePasses(r)
    BY <1>4, <2>1, SendKeeps DEF Upload
  <2>2. CASE ~PipePasses(r)
    BY <1>1, <1>4, <2>2, RefuseKeeps DEF Upload, Ready, HttpStatuses, sendVars
  <2> QED
    BY <2>1, <2>2
<1>5. ASSUME NEW r \in Requests, UploadCsv(r) PROVE IInv'
  <2>1. form[r].files = <<>> => Parts(r) = {}
    BY <1>5 DEF UploadCsv, Parts
  <2> QED
    BY <1>1, <1>5, <2>1, RefuseKeeps DEF UploadCsv, Ready, HttpStatuses
<1>6. CASE UNCHANGED vars
  BY <1>6, PartsStay DEF vars, requestVars, sendVars, IInv, TypeOK, LeftOnDisk,
     OnlyAcceptedSent, NoFileForgotten
<1> QED
  BY <1>2, <1>3, <1>4, <1>5, <1>6, StoreKeeps, SettleKeeps DEF Next, Handle, SendFails, Crash

LEMMA Invariance == Spec => []IInv
PROOF
  BY InitInv, StepInv, PTL DEF Spec

-----------------------------------------------------------------------------
(* The theorems *)

(* The types, and what is on disk is of forms that have come in. *)
THEOREM TypeCorrect == Spec => []TypeOK
PROOF
<1>1. IInv => TypeOK
  BY DEF IInv
<1> QED
  BY <1>1, Invariance, PTL

(* multer and ParseFilePipe: what is left on disk of which form. *)
THEOREM DiskAccounted == Spec => []LeftOnDisk
PROOF
<1>1. IInv => LeftOnDisk
  BY DEF IInv
<1> QED
  BY <1>1, Invariance, PTL

(* UserController.uploadFile: no send without the pipe and the answer. *)
THEOREM SendsAreAccepted == Spec => []OnlyAcceptedSent
PROOF
<1>1. IInv => OnlyAcceptedSent
  BY DEF IInv
<1> QED
  BY <1>1, Invariance, PTL

(* ... and no answer without a send of every file, which is done, under way  *)
(* or was under way when the process ended.                                  *)
THEOREM SendsAreComplete == Spec => []NoFileForgotten
PROOF
<1>1. IInv => NoFileForgotten
  BY DEF IInv
<1> QED
  BY <1>1, Invariance, PTL

-----------------------------------------------------------------------------
(* Uploads implements Outbox *)

BoxUnchanged == UNCHANGED <<form, sending, bucket, lost>> /\
  \A r \in Requests :
    status'[r] = 201 /\ form[r].route = "upload" <=> status[r] = 201 /\ form[r].route = "upload"

LEMMA OrderStays == form' = form => \A r : AllOf(r)' = AllOf(r)
PROOF
  BY DEF AllOf

LEMMA BoxStutters == BoxUnchanged => UNCHANGED Box!boxVars
PROOF
  BY OrderStays DEF BoxUnchanged, Box!boxVars

(* An answer that is not a 201 of upload accepts nothing. *)
LEMMA AnswerAcceptsNothing ==
  ASSUME TypeOK, NEW r \in Requests, NEW code, stage[r] = "storing", Answer(r, code),
         UNCHANGED sendVars, code = 201 => form[r].route = "csv"
  PROVE  BoxUnchanged
PROOF
<1>1. status[r] = 0 /\ \A q \in Requests : status'[q] = (IF q = r THEN code ELSE status[q])
  BY DEF TypeOK, Answer
<1> QED
  BY <1>1 DEF BoxUnchanged, Answer, sendVars

(* The step of upload that answers 201 is the one that accepts the form. *)
LEMMA UploadAccepts ==
  ASSUME IInv, NEW r \in Requests, Upload(r), PipePasses(r)
  PROVE  Box!Accept(r)
PROOF
<1>1. /\ stage[r] = "storing" /\ status[r] = 0 /\ Fits(r) /\ form[r].route = "upload"
      /\ form' = form /\ UNCHANGED <<bucket, lost>> /\ sending' = sending \cup Parts(r)
      /\ \A q \in Requests : status'[q] = (IF q = r THEN 201 ELSE status[q])
  BY DEF Upload, Ready, Answer, IInv, TypeOK
<1>2. AllOf(r) = Parts(r)
  BY <1>1 DEF AllOf, Parts
<1>3. AllOf(r) # {}
  <2>1. form[r].files \in Seq(Kinds) /\ form[r].files # <<>>
    BY FormTyped DEF IInv, TypeOK, PipePasses
  <2>2. Len(form[r].files) \in Nat /\ Len(form[r].files) # 0
    BY <2>1
  <2>3. <<r, 1>> \in AllOf(r)
    BY <2>2 DEF AllOf
  <2> QED
    BY <2>3
<1>4. AllOf(r) \cap Box!Known = {}
  BY <1>1, <1>2, NothingSent DEF Box!Known, Sent
<1> QED
  BY <1>1, <1>2, <1>3, <1>4, OrderStays DEF Box!Accept

LEMMA BoxStep == IInv /\ [Next]_vars => [Box!BoxNext]_Box!boxVars
PROOF
<1> SUFFICES ASSUME IInv, [Next]_vars PROVE [Box!BoxNext]_Box!boxVars
  OBVIOUS
<1>1. TypeOK
  BY DEF IInv
<1>2. ASSUME BoxUnchanged PROVE UNCHANGED Box!boxVars
  BY <1>2, BoxStutters
<1>3. ASSUME NEW r \in Requests, Arrive(r) \/ StoreFile(r) PROVE BoxUnchanged
  BY <1>3 DEF Arrive, StoreFile, BoxUnchanged, requestVars, sendVars
<1>4. ASSUME NEW r \in Requests, TooMany(r) \/ StoreFails(r) \/ UploadCsv(r) PROVE BoxUnchanged
  BY <1>1, <1>4, AnswerAcceptsNothing DEF TooMany, StoreFails, UploadCsv, Ready
<1>5. ASSUME NEW r \in Requests, Upload(r) PROVE Box!Accept(r) \/ BoxUnchanged
  <2>1. CASE PipePasses(r)
    BY <1>5, <2>1, UploadAccepts
  <2>2. CASE ~PipePasses(r)
    BY <1>1, <1>5, <2>2, AnswerAcceptsNothing DEF Upload, Ready, sendVars
  <2> QED
    BY <2>1, <2>2
<1>6. ASSUME SendDone PROVE Box!BoxNext
  <2>1. PICK file \in sending : bucket' = bucket \cup {file} /\ sending' = sending \ {file}
    BY <1>6 DEF SendDone
  <2>2. file \in Requests \X (1..MaxFiles)
    <3>1. file \in Places /\ file[1] \in Requests /\ file \in Parts(file[1])
      BY <1>1 DEF TypeOK, Places
    <3>2. Len(form[file[1]].files) \in 0..MaxFiles
      BY <1>1, <3>1, FormTyped DEF TypeOK
    <3>3. Limit(file[1]) \in Nat
      BY LimitAssumption DEF Limit
    <3>4. PICK n \in 1..Len(form[file[1]].files) : file = <<file[1], n>>
      BY <3>1, <3>2, <3>3 DEF Parts, Fits
    <3>5. n \in 1..MaxFiles
      BY <3>2, BoundsAssumption
    <3> QED
      BY <3>1, <3>4, <3>5
  <2>3. Box!Deliver(file)
    BY <1>6, <2>1, OrderStays DEF Box!Deliver, SendDone, requestVars
  <2> QED
    BY <2>2, <2>3 DEF Box!BoxNext
<1>7. ASSUME ProcessEnds PROVE Box!BoxNext
  <2>1. Box!Stop
    BY <1>7, OrderStays DEF ProcessEnds, Box!Stop
  <2> QED
    BY <2>1 DEF Box!BoxNext
<1>8. ASSUME UNCHANGED vars PROVE BoxUnchanged
  BY <1>8 DEF vars, requestVars, sendVars, BoxUnchanged
<1> QED
  BY <1>2, <1>3, <1>4, <1>5, <1>6, <1>7, <1>8
     DEF Next, Handle, SendFails, Crash, Box!BoxNext

LEMMA BoxStart == Init => Box!BoxInit
PROOF
<1> SUFFICES ASSUME Init PROVE Box!BoxInit
  OBVIOUS
<1>1. ASSUME NEW r \in Requests PROVE AllOf(r) \in SUBSET (Requests \X (1..MaxFiles))
  <2>1. Len(form[r].files) \in 0..MaxFiles
    BY FormTyped DEF Init
  <2> QED
    BY <2>1, BoundsAssumption DEF AllOf
<1> QED
  BY <1>1 DEF Init, Box!BoxInit

(* Uploads implements Outbox: multer's files, ParseFilePipe and the sends of  *)
(* UserController.uploadFile that nothing waits for accept a form at the step *)
(* that answers 201, whole, and settle each of its files once.                *)
THEOREM OutboxImplemented == Spec => ImplementsOutbox
PROOF
  BY BoxStart, BoxStep, Invariance, PTL DEF Spec, ImplementsOutbox, Box!BoxSpec
=============================================================================
