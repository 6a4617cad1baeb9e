--------------------------- MODULE NotificationsProofs ---------------------------
(***************************************************************************)
(* Proofs about Notifications, for any number of calls and faults.  Every  *)
(* part of the inductive invariant is about one call, its rows and its     *)
(* job: a step of one call or job leaves the others alone, and a crash     *)
(* treats each of them alike.                                              *)
(***************************************************************************)
EXTENDS Notifications, TLAPS

\* Only the update of a profile has a transaction, and none after its end.
OpenInProfile(c) == open[c] => kind[c] = "profile" /\ InProgress(c)

\* The job is the last but for what is left of a transaction, and sending follows it.
JobIsLast(c) ==
    /\ at[c] \in {"idle", "otp", "notification", "delivery", "publish"} => job[c] = "none"
    /\ job[c] = "none" => arrivals[c] = 0

\* The code is there from its INSERT on, unless a rollback took it.
CodeIsThere(c) ==
    /\ at[c] \in {"notification", "delivery", "publish", "update", "commit"} => "otp" \in rows[c]
    /\ job[c] # "none" /\ "otp" \notin rows[c] => kind[c] = "profile" /\ ~open[c]

\* Without a user there is no delivery row; with one, a job that is over has written its outcome,
\* or wrote it before the COMMIT.
OutcomeIsWritten(c) ==
    /\ at[c] \in {"notification", "delivery"} => HasUser(c)
    /\ "delivery" \in rows[c] => at[c] # "idle" /\ HasUser(c)
    /\ job[c] \in {"ack", "done"} /\ "delivery" \in rows[c] /\ status[c] = "pending" => c \in early

\* What success is recorded for was taken.
SuccessWasTaken(c) ==
    /\ job[c] = "record" /\ result[c] => arrivals[c] > 0
    /\ status[c] = "sent" => arrivals[c] > 0

\* A job that is on its way has arrived at most once for each time it was put back.
OncePerDelivery(c) ==
    /\ arrivals[c] <= 1 + redelivered[c]
    /\ job[c] \in {"none", "queued", "send"} => arrivals[c] <= redelivered[c]

CallOK(c) ==
    /\ OpenInProfile(c) /\ JobIsLast(c) /\ CodeIsThere(c)
    /\ OutcomeIsWritten(c) /\ SuccessWasTaken(c) /\ OncePerDelivery(c)

Inv == TypeOK /\ \A c \in Calls : CallOK(c)

\* The initial state.
LEMMA InitInv == Init => Inv
  BY FaultsAssumption DEF Init, Inv, TypeOK, CallOK, OpenInProfile, JobIsLast, CodeIsThere, OutcomeIsWritten,
     SuccessWasTaken,
     OncePerDelivery, InProgress, HasUser, Kinds, CallSteps, Tables, DeliveryStatus, JobSteps

\* A call none of whose variables changes is as it was.
LEMMA OthersKeep ==
  ASSUME NEW c, CallOK(c), UNCHANGED <<kind[c], at[c], open[c], rows[c], status[c], job[c], result[c], arrivals[c], redelivered[c]>>,
         (c \in early)' = (c \in early)
  PROVE  CallOK(c)'
  BY DEF CallOK, OpenInProfile, JobIsLast, CodeIsThere, OutcomeIsWritten, SuccessWasTaken, OncePerDelivery,
     InProgress, HasUser

\* A call begins.
LEMMA StartKeeps ==
  ASSUME Inv, NEW c \in Calls, Start(c)
  PROVE  Inv'
<1> USE DEF Inv
<1>1. TypeOK'
  BY FaultsAssumption DEF Start, Goto, deliveryVars, TypeOK, Kinds, CallSteps, Tables, DeliveryStatus, JobSteps, InProcess
<1>2. CallOK(c)'
  BY DEF Start, Goto, deliveryVars, TypeOK, Kinds, CallSteps, Tables, DeliveryStatus, JobSteps, InProcess, CallOK, OpenInProfile,
     JobIsLast, CodeIsThere, OutcomeIsWritten, SuccessWasTaken, OncePerDelivery, InProgress, HasUser
<1>3. \A o \in Calls : o # c => CallOK(o)'
  BY OthersKeep DEF deliveryVars, Start, Goto, TypeOK
<1> QED
  BY <1>1, <1>2, <1>3

\* The code is inserted.
LEMMA CreateOtpKeeps ==
  ASSUME Inv, NEW c \in Calls, CreateOtp(c)
  PROVE  Inv'
<1> USE DEF Inv
<1>1. TypeOK'
  BY FaultsAssumption DEF CreateOtp, Goto, Insert, HasUser, deliveryVars, TypeOK, Kinds, CallSteps, Tables, DeliveryStatus,
     JobSteps, InProcess
<1>2. CallOK(c)'
  BY DEF CreateOtp, Goto, Insert, HasUser, deliveryVars, TypeOK, Kinds, CallSteps, Tables, DeliveryStatus, JobSteps, InProcess,
     CallOK, OpenInProfile, JobIsLast, CodeIsThere, OutcomeIsWritten, SuccessWasTaken, OncePerDelivery, InProgress,
     HasUser
<1>3. \A o \in Calls : o # c => CallOK(o)'
  BY OthersKeep DEF deliveryVars, CreateOtp, Goto, Insert, HasUser, TypeOK
<1> QED
  BY <1>1, <1>2, <1>3

\* The notification is inserted.
LEMMA CreateNotificationKeeps ==
  ASSUME Inv, NEW c \in Calls, CreateNotification(c)
  PROVE  Inv'
<1> USE DEF Inv
<1>1. TypeOK'
  BY FaultsAssumption DEF CreateNotification, Goto, Insert, deliveryVars, TypeOK, Kinds, CallSteps, Tables, DeliveryStatus,
     JobSteps, InProcess
<1>2. CallOK(c)'
  BY DEF CreateNotification, Goto, Insert, deliveryVars, TypeOK, Kinds, CallSteps, Tables, DeliveryStatus, JobSteps, InProcess,
     CallOK, OpenInProfile, JobIsLast, CodeIsThere, OutcomeIsWritten, SuccessWasTaken, OncePerDelivery, InProgress,
     HasUser
<1>3. \A o \in Calls : o # c => CallOK(o)'
  BY OthersKeep DEF deliveryVars, CreateNotification, Goto, Insert, TypeOK
<1> QED
  BY <1>1, <1>2, <1>3

\* The delivery row is inserted as pending.
LEMMA CreateDeliveryKeeps ==
  ASSUME Inv, NEW c \in Calls, CreateDelivery(c)
  PROVE  Inv'
<1> USE DEF Inv
<1>1. TypeOK'
  BY FaultsAssumption DEF CreateDelivery, Goto, Insert, deliveryVars, TypeOK, Kinds, CallSteps, Tables, DeliveryStatus, JobSteps,
     InProcess
<1>2. CallOK(c)'
  BY DEF CreateDelivery, Goto, Insert, deliveryVars, TypeOK, Kinds, CallSteps, Tables, DeliveryStatus, JobSteps, InProcess, CallOK,
     OpenInProfile, JobIsLast, CodeIsThere, OutcomeIsWritten, SuccessWasTaken, OncePerDelivery, InProgress, HasUser
<1>3. \A o \in Calls : o # c => CallOK(o)'
  BY OthersKeep DEF deliveryVars, CreateDelivery, Goto, Insert, TypeOK
<1> QED
  BY <1>1, <1>2, <1>3

\* The job goes out.
LEMMA PublishKeeps ==
  ASSUME Inv, NEW c \in Calls, Publish(c)
  PROVE  Inv'
<1> USE DEF Inv
<1>1. TypeOK'
  BY FaultsAssumption DEF Publish, Goto, deliveryVars, TypeOK, Kinds, CallSteps, Tables, DeliveryStatus, JobSteps, InProcess
<1>2. CallOK(c)'
  BY DEF Publish, Goto, deliveryVars, TypeOK, Kinds, CallSteps, Tables, DeliveryStatus, JobSteps, InProcess, CallOK, OpenInProfile,
     JobIsLast, CodeIsThere, OutcomeIsWritten, SuccessWasTaken, OncePerDelivery, InProgress, HasUser
<1>3. \A o \in Calls : o # c => CallOK(o)'
  BY OthersKeep DEF deliveryVars, Publish, Goto, TypeOK
<1> QED
  BY <1>1, <1>2, <1>3

\* The transaction goes on, or is rolled back.
LEMMA UpdateUserKeeps ==
  ASSUME Inv, NEW c \in Calls, UpdateUser(c)
  PROVE  Inv'
<1> USE DEF Inv
<1>1. TypeOK'
  <2>1. UNCHANGED <<deployment, kind, status, early, job, result, arrivals, redelivered, faults>>
    BY DEF UpdateUser, deliveryVars
  <2>2. at' \in [Calls -> CallSteps]
    BY DEF UpdateUser, EndTransaction, Goto, TypeOK, CallSteps
  <2>3. open' \in [Calls -> BOOLEAN]
    <3>1. open' = open \/ open' = [open EXCEPT ![c] = FALSE]
      BY DEF UpdateUser, EndTransaction
    <3> QED
      BY <3>1 DEF TypeOK
  <2>4. rows' \in [Calls -> SUBSET Tables]
    <3>1. rows' = rows \/ rows' = [rows EXCEPT ![c] = {}] \/ rows' = [rows EXCEPT ![c] = @]
      BY Zenon DEF UpdateUser, RollBack
    <3> QED
      BY <3>1 DEF TypeOK, Tables
  <2> QED
    BY <2>1, <2>2, <2>3, <2>4 DEF TypeOK
<1>2. CallOK(c)'
  <2>1. UNCHANGED <<kind[c], status[c], early, job[c], arrivals[c], redelivered[c], result[c]>> /\ at[c] = "update"
    BY DEF UpdateUser, deliveryVars
  <2>2. CASE Goto(c, "commit") /\ UNCHANGED <<open, rows>>
    <3>1. at'[c] = "commit" /\ UNCHANGED <<open[c], rows[c]>>
      BY <2>2 DEF Goto, TypeOK
    <3> QED
      BY <2>1, <3>1 DEF CallOK, OpenInProfile, JobIsLast, CodeIsThere, OutcomeIsWritten, SuccessWasTaken,
         OncePerDelivery, InProgress, HasUser
  <2>3. CASE EndTransaction(c) /\ RollBack(c)
    <3>1. at'[c] = "ended" /\ open'[c] = FALSE
      BY <2>3 DEF EndTransaction, Goto, TypeOK
    <3>2. CASE open[c]
      <4>1. rows'[c] = {}
        BY <2>3, <3>2 DEF RollBack, TypeOK
      <4> QED
        BY <2>1, <3>1, <3>2, <4>1 DEF CallOK, OpenInProfile, JobIsLast, CodeIsThere, OutcomeIsWritten,
           SuccessWasTaken, OncePerDelivery, InProgress, HasUser
    <3>3. CASE ~open[c]
      <4>1. rows'[c] = rows[c]
        BY <2>3, <3>3 DEF RollBack, TypeOK
      <4> QED
        BY <2>1, <3>1, <3>3, <4>1 DEF CallOK, OpenInProfile, JobIsLast, CodeIsThere, OutcomeIsWritten,
           SuccessWasTaken, OncePerDelivery, InProgress, HasUser
    <3> QED
      BY <3>2, <3>3
  <2> QED
    BY <2>2, <2>3 DEF UpdateUser
<1>3. \A o \in Calls : o # c => CallOK(o)'
  BY OthersKeep DEF deliveryVars, UpdateUser, Goto, EndTransaction, RollBack, TypeOK
<1> QED
  BY <1>1, <1>2, <1>3

\* The transaction is over.
LEMMA CommitKeeps ==
  ASSUME Inv, NEW c \in Calls, Commit(c)
  PROVE  Inv'
<1> USE DEF Inv
<1>1. TypeOK'
  BY FaultsAssumption DEF Commit, Goto, EndTransaction, deliveryVars, TypeOK, Kinds, CallSteps, Tables, DeliveryStatus, JobSteps,
     InProcess
<1>2. CallOK(c)'
  BY DEF Commit, Goto, EndTransaction, deliveryVars, TypeOK, Kinds, CallSteps, Tables, DeliveryStatus, JobSteps, InProcess, CallOK,
     OpenInProfile, JobIsLast, CodeIsThere, OutcomeIsWritten, SuccessWasTaken, OncePerDelivery, InProgress, HasUser
<1>3. \A o \in Calls : o # c => CallOK(o)'
  BY OthersKeep DEF deliveryVars, Commit, Goto, EndTransaction, TypeOK
<1> QED
  BY <1>1, <1>2, <1>3

\* The call fails.
LEMMA CallThrowsKeeps ==
  ASSUME Inv, NEW c \in Calls, CallThrows(c)
  PROVE  Inv'
<1> USE DEF Inv
<1>1. TypeOK'
  BY FaultsAssumption DEF CallThrows, Goto, EndTransaction, RollBack, Fault, InProgress, deliveryVars, TypeOK, Kinds, CallSteps,
     Tables, DeliveryStatus, JobSteps, InProcess
<1>2. CallOK(c)'
  BY DEF CallThrows, Goto, EndTransaction, RollBack, Fault, InProgress, deliveryVars, TypeOK, Kinds, CallSteps, Tables,
     DeliveryStatus, JobSteps, InProcess, CallOK, OpenInProfile, JobIsLast, CodeIsThere, OutcomeIsWritten,
     SuccessWasTaken, OncePerDelivery, InProgress, HasUser
<1>3. \A o \in Calls : o # c => CallOK(o)'
  BY OthersKeep DEF deliveryVars, CallThrows, Goto, EndTransaction, RollBack, Fault, InProgress, TypeOK
<1> QED
  BY <1>1, <1>2, <1>3

\* The consumer takes the job.
LEMMA ReceiveKeeps ==
  ASSUME Inv, NEW c \in Calls, Receive(c)
  PROVE  Inv'
<1> USE DEF Inv
<1>1. TypeOK'
  BY FaultsAssumption DEF Receive, Work, callVars, deliveryVars, TypeOK, Kinds, CallSteps, Tables, DeliveryStatus, JobSteps,
     InProcess
<1>2. CallOK(c)'
  BY DEF Receive, Work, callVars, deliveryVars, TypeOK, Kinds, CallSteps, Tables, DeliveryStatus, JobSteps, InProcess, CallOK,
     OpenInProfile, JobIsLast, CodeIsThere, OutcomeIsWritten, SuccessWasTaken, OncePerDelivery, InProgress, HasUser
<1>3. \A o \in Calls : o # c => CallOK(o)'
  BY OthersKeep DEF deliveryVars, Receive, Work, callVars, TypeOK
<1> QED
  BY <1>1, <1>2, <1>3

\* The provider answers.
LEMMA SendKeeps ==
  ASSUME Inv, NEW c \in Calls, Send(c)
  PROVE  Inv'
<1> USE DEF Inv
<1>1. TypeOK'
  BY FaultsAssumption DEF Send, Work, callVars, Taken, AfterSend, HasUser, deliveryVars, TypeOK, Kinds, CallSteps, Tables,
     DeliveryStatus, JobSteps, InProcess
<1>2. CallOK(c)'
  <2>1. PICK outcome \in Outcomes(c), n \in {0, 1} :
             /\ outcome = "success" => n = 1
             /\ job[c] = "send" /\ job'[c] = AfterSend(c, outcome)
             /\ arrivals'[c] = arrivals[c] + n
             /\ result'[c] = (outcome = "success")
    BY DEF Send, Work, Taken, TypeOK
  <2>2. UNCHANGED <<kind[c], at[c], open[c], rows[c], status[c], early, redelivered[c]>>
    BY DEF Send, callVars, deliveryVars
  <2>3. n \in {0, 1} /\ (outcome = "success" => n = 1)
    BY <2>1, Zenon
  <2>4. arrivals[c] \in Nat /\ redelivered[c] \in Nat
    BY DEF TypeOK
  <2>5. result'[c] => outcome = "success"
    BY <2>1, Zenon
  <2>6. job[c] = "send" /\ arrivals'[c] = arrivals[c] + n /\ job'[c] = AfterSend(c, outcome)
    BY <2>1, Zenon
  <2>7. OncePerDelivery(c)'
    <3>1. arrivals[c] <= redelivered[c]
      BY <2>6 DEF CallOK, OncePerDelivery
    <3>2. arrivals'[c] <= 1 + redelivered'[c]
      BY <2>2, <2>3, <2>4, <2>6, <3>1
    <3>3. job'[c] \notin {"none", "queued", "send"}
      BY <2>6 DEF AfterSend
    <3> QED
      BY <3>2, <3>3 DEF OncePerDelivery
  <2>8. SuccessWasTaken(c)'
    <3>1. result'[c] => arrivals'[c] > 0
      BY <2>3, <2>4, <2>5, <2>6
    <3>2. status[c] = "sent" => arrivals[c] > 0
      BY DEF CallOK, SuccessWasTaken
    <3>3. status'[c] = "sent" => arrivals'[c] > 0
      BY <2>2, <2>3, <2>4, <2>6, <3>2
    <3> QED
      BY <3>1, <3>3 DEF SuccessWasTaken
  <2>9. job'[c] \in {"ack", "markFailed", "record"} /\ (job'[c] = "ack" => ~HasUser(c))
    BY <2>6 DEF AfterSend
  <2>10. OpenInProfile(c)' /\ JobIsLast(c)' /\ CodeIsThere(c)' /\ OutcomeIsWritten(c)'
    BY <2>2, <2>6, <2>9 DEF CallOK, OpenInProfile, JobIsLast, CodeIsThere, OutcomeIsWritten, InProgress, HasUser
  <2> QED
    BY <2>7, <2>8, <2>10 DEF CallOK
<1>3. \A o \in Calls : o # c => CallOK(o)'
  BY OthersKeep DEF deliveryVars, Send, Work, callVars, Taken, AfterSend, HasUser, TypeOK
<1> QED
  BY <1>1, <1>2, <1>3

\* The outcome is written, or its UPDATE fails.
LEMMA RecordKeeps ==
  ASSUME Inv, NEW c \in Calls, Record(c)
  PROVE  Inv'
<1> USE DEF Inv
<1>1. TypeOK'
  BY FaultsAssumption DEF Record, Work, callVars, UpdateDelivery, Visible, StatusOf, Fault, deliveryVars, TypeOK, Kinds, CallSteps,
     Tables, DeliveryStatus, JobSteps, InProcess
<1>2. CallOK(c)'
  BY DEF Record, Work, callVars, UpdateDelivery, Visible, StatusOf, Fault, deliveryVars, TypeOK, Kinds, CallSteps, Tables,
     DeliveryStatus, JobSteps, InProcess, CallOK, OpenInProfile, JobIsLast, CodeIsThere, OutcomeIsWritten,
     SuccessWasTaken, OncePerDelivery, InProgress, HasUser
<1>3. \A o \in Calls : o # c => CallOK(o)'
  BY OthersKeep DEF deliveryVars, Record, Work, callVars, UpdateDelivery, Visible, StatusOf, Fault, TypeOK
<1> QED
  BY <1>1, <1>2, <1>3

\* A failure is written, or its UPDATE fails and the job is put back.
LEMMA MarkFailedKeeps ==
  ASSUME Inv, NEW c \in Calls, MarkFailed(c)
  PROVE  Inv'
<1> USE DEF Inv
<1>1. TypeOK'
  BY FaultsAssumption DEF MarkFailed, Work, callVars, UpdateDelivery, Visible, PutBack, Fault, deliveryVars, TypeOK, Kinds,
     CallSteps, Tables, DeliveryStatus, JobSteps, InProcess
<1>2. CallOK(c)'
  BY DEF MarkFailed, Work, callVars, UpdateDelivery, Visible, PutBack, Fault, deliveryVars, TypeOK, Kinds, CallSteps, Tables,
     DeliveryStatus, JobSteps, InProcess, CallOK, OpenInProfile, JobIsLast, CodeIsThere, OutcomeIsWritten,
     SuccessWasTaken, OncePerDelivery, InProgress, HasUser
<1>3. \A o \in Calls : o # c => CallOK(o)'
  BY OthersKeep DEF deliveryVars, MarkFailed, Work, callVars, UpdateDelivery, Visible, PutBack, Fault, TypeOK
<1> QED
  BY <1>1, <1>2, <1>3

\* The job is over.
LEMMA AckKeeps ==
  ASSUME Inv, NEW c \in Calls, Ack(c)
  PROVE  Inv'
<1> USE DEF Inv
<1>1. TypeOK'
  BY FaultsAssumption DEF Ack, Work, callVars, deliveryVars, TypeOK, Kinds, CallSteps, Tables, DeliveryStatus, JobSteps, InProcess
<1>2. CallOK(c)'
  BY DEF Ack, Work, callVars, deliveryVars, TypeOK, Kinds, CallSteps, Tables, DeliveryStatus, JobSteps, InProcess, CallOK,
     OpenInProfile, JobIsLast, CodeIsThere, OutcomeIsWritten, SuccessWasTaken, OncePerDelivery, InProgress, HasUser
<1>3. \A o \in Calls : o # c => CallOK(o)'
  BY OthersKeep DEF deliveryVars, Ack, Work, callVars, TypeOK
<1> QED
  BY <1>1, <1>2, <1>3

\* Calls vanish, their transactions with them, and jobs in progress go back.
LEMMA CrashKeeps ==
  ASSUME Inv, Crash
  PROVE  Inv'
<1> USE DEF Inv
<1>1. TypeOK'
  BY FaultsAssumption DEF Crash, Fault, deliveryVars, TypeOK, Kinds, CallSteps, Tables, DeliveryStatus, JobSteps, InProcess
<1>2. \A c \in Calls : CallOK(c)'
  BY DEF Crash, Fault, deliveryVars, TypeOK, Kinds, CallSteps, Tables, DeliveryStatus, JobSteps, InProcess, CallOK, OpenInProfile,
     JobIsLast, CodeIsThere, OutcomeIsWritten, SuccessWasTaken, OncePerDelivery, InProgress, HasUser
<1> QED
  BY <1>1, <1>2

\* A step that changes nothing.
LEMMA StutterKeeps == ASSUME Inv, UNCHANGED vars PROVE Inv'
  BY OthersKeep DEF deliveryVars, Inv, vars, callVars, TypeOK

\* Every reachable state.
LEMMA Invariance == Spec => []Inv
<1>1. Inv /\ [Next]_vars => Inv'
  <2> SUFFICES ASSUME Inv, [Next]_vars PROVE Inv'
    OBVIOUS
  <2>1. CASE Crash
    BY <2>1, CrashKeeps
  <2>2. ASSUME NEW c \in Calls, Call(c) PROVE Inv'
    BY <2>2, StartKeeps, CreateOtpKeeps, CreateNotificationKeeps, CreateDeliveryKeeps, PublishKeeps, UpdateUserKeeps,
       CommitKeeps, CallThrowsKeeps DEF Call
  <2>3. ASSUME NEW c \in Calls, ProcessJob(c) PROVE Inv'
    BY <2>3, ReceiveKeeps, SendKeeps, RecordKeeps, MarkFailedKeeps, AckKeeps DEF ProcessJob
  <2>4. CASE UNCHANGED vars
    BY <2>4, StutterKeeps
  <2> QED
    BY <2>1, <2>2, <2>3, <2>4 DEF Next
<1> QED
  BY InitInv, <1>1, PTL DEF Spec

-----------------------------------------------------------------------------

\* Rows, jobs and calls keep their types.
THEOREM TypeCorrect == Spec => []TypeOK
  BY Invariance, PTL DEF Inv

\* NotificationConsumer calls a delivery sent only if its provider took the message, whatever is
\* redelivered or crashes.
THEOREM SentMessagesWereTaken == Spec => []SentWasTaken
<1>1. Inv => SentWasTaken
  BY DEF Inv, CallOK, SuccessWasTaken, SentWasTaken
<1> QED
  BY <1>1, Invariance, PTL

\* A code that arrived is stored, or belongs to a profile update that was rolled back: OtpService
\* inserts it before NotificationService publishes the job.
THEOREM ArrivedCodesAreStored == Spec => []ArrivedCodeIsStored
<1>1. Inv => ArrivedCodeIsStored
  BY DEF Inv, CallOK, JobIsLast, CodeIsThere, ArrivedCodeIsStored
<1> QED
  BY <1>1, Invariance, PTL

\* A delivery stays pending after its job only when the consumer wrote the outcome before the
\* transaction that inserted the row was committed.
THEOREM PendingBeforeCommit == Spec => []PendingOnlyBeforeCommit
<1>1. Inv => PendingOnlyBeforeCommit
  BY DEF Inv, CallOK, OutcomeIsWritten, PendingOnlyBeforeCommit, Visible
<1> QED
  BY <1>1, Invariance, PTL

\* No message arrives more often than its job was delivered.
THEOREM OncePerRedelivery == Spec => []ArrivesOncePerDelivery
<1>1. Inv => ArrivesOncePerDelivery
  BY DEF Inv, CallOK, OncePerDelivery, ArrivesOncePerDelivery
<1> QED
  BY <1>1, Invariance, PTL
=============================================================================
