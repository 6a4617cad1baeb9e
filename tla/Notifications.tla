------------------------------- MODULE Notifications -------------------------------
(***************************************************************************)
(* One-time codes on their way to a phone or a mailbox: OtpService on      *)
(* NotificationService, the RabbitMQ job, NotificationConsumer and the     *)
(* provider of the channel.                                                *)
(*                                                                         *)
(* A call inserts its rows and publishes its job; the consumer sends it    *)
(* and writes the outcome to the delivery row.  Each statement, publish    *)
(* and answer of a provider is a step.  A call makes one job, so jobs and  *)
(* rows go by the name of their call.  The handlers of the two queues are  *)
(* one, and a consumer takes jobs in any order.  PostgreSQL and RabbitMQ   *)
(* keep what they confirmed; the application, API and consumer in one      *)
(* process, may crash.                                                     *)
(***************************************************************************)
EXTENDS Integers, FiniteSets

CONSTANTS
    Calls,         \* calls of sendOtp and sendEmailOtp
    SmsProviders,  \* the values of SMS_PROVIDER to look at
    MaxFaults      \* bound of the model: crashes, statements and publishes that fail

ASSUME ProvidersAssumption == SmsProviders \subseteq {"console", "kavenegar", "smsir"}
ASSUME FaultsAssumption == MaxFaults \in Nat

VARIABLES
    deployment,   \* SMS_PROVIDER, and whether SMTP_HOST is set
    kind,         \* who made a call
    at,           \* how far it is
    open,         \* whether it runs in a transaction that is not over
    rows,         \* what it has inserted, and not rolled back
    status,       \* notification_deliveries.status
    early,        \* history: the calls whose outcome was written while their transaction was open
    job,          \* the job, at the broker or in processJob
    result,       \* what the handler of the channel answered
    arrivals,     \* history: how often the provider took the message
    redelivered,  \* history: how often the job was put back
    faults

callVars == <<kind, at, open, rows>>
deliveryVars == <<status, early>>
vars == <<deployment, kind, at, open, rows, status, early, job, result, arrivals, redelivered, faults>>

\* newPhone, phone: POST /auth/otp/send, for a phone without a user, and so without a delivery row,
\* and with one; email: POST /auth/email/send; profile: UsersService.update, in its transaction.
Kinds == {"newPhone", "phone", "email", "profile"}
Deployments == [sms : SmsProviders, smtp : BOOLEAN]
CallSteps == {"idle", "otp", "notification", "delivery", "publish", "update", "commit", "ended"}
Tables == {"otp", "notification", "delivery"}
DeliveryStatus == {"pending", "sent", "failed"}
InProcess == {"send", "record", "markFailed", "ack"}
JobSteps == {"none", "queued", "done"} \cup InProcess

Init ==
    /\ deployment \in Deployments
    /\ kind = [c \in Calls |-> "newPhone"]
    /\ at = [c \in Calls |-> "idle"]
    /\ open = [c \in Calls |-> FALSE]
    /\ rows = [c \in Calls |-> {}]
    /\ status = [c \in Calls |-> "pending"]
    /\ early = {}
    /\ job = [c \in Calls |-> "none"]
    /\ result = [c \in Calls |-> FALSE]
    /\ arrivals = [c \in Calls |-> 0]
    /\ redelivered = [c \in Calls |-> 0]
    /\ faults = 0

-----------------------------------------------------------------------------
(* A call *)

InProgress(c) == at[c] \notin {"idle", "ended"}
HasUser(c) == kind[c] # "newPhone"
Goto(c, step) == at' = [at EXCEPT ![c] = step]
Insert(c, table) == rows' = [rows EXCEPT ![c] = @ \cup {table}]

Start(c) == \E k \in Kinds :
    /\ at[c] = "idle"
    /\ kind' = [kind EXCEPT ![c] = k]
    /\ open' = [open EXCEPT ![c] = (k = "profile")]
    /\ Goto(c, "otp")
    /\ UNCHANGED <<deployment, rows, deliveryVars, job, result, arrivals, redelivered, faults>>

\* createPhoneOtp or createEmailOtp, before NotificationService.send.
CodeSentFirst(c) ==                                        \* mutant: sends the code before it is stored
    /\ at[c] = "otp"
    /\ Goto(c, "publish")
    /\ UNCHANGED <<deployment, kind, open, rows, deliveryVars, job, result, arrivals, redelivered, faults>>
CreateOtp(c) ==
    /\ at[c] = "otp"
    /\ Insert(c, "otp")
    /\ Goto(c, IF HasUser(c) THEN "notification" ELSE "publish")
    /\ UNCHANGED <<deployment, kind, open, deliveryVars, job, result, arrivals, redelivered, faults>>

CreateNotification(c) ==
    /\ at[c] = "notification"
    /\ Insert(c, "notification")
    /\ Goto(c, "delivery")
    /\ UNCHANGED <<deployment, kind, open, deliveryVars, job, result, arrivals, redelivered, faults>>

CreateDelivery(c) ==
    /\ at[c] = "delivery"
    /\ Insert(c, "delivery")
    /\ status' = [status EXCEPT ![c] = "pending"]
    /\ Goto(c, "publish")
    /\ UNCHANGED <<deployment, kind, open, early, job, result, arrivals, redelivered, faults>>

\* The job goes out at once: a transaction of the caller is still to commit.
Publish(c) ==
    /\ at[c] = "publish"
    /\ job' = [job EXCEPT ![c] = "queued"]
    /\ Goto(c, IF open[c] THEN "update" ELSE "ended")
    /\ UNCHANGED <<deployment, kind, open, rows, deliveryVars, result, arrivals, redelivered, faults>>

EndTransaction(c) ==
    /\ Goto(c, "ended")
    /\ open' = [open EXCEPT ![c] = FALSE]
RollBack(c) == rows' = [rows EXCEPT ![c] = IF open[c] THEN {} ELSE @]

\* updateById throws when somebody else took the address meanwhile.
UpdateUser(c) ==
    /\ at[c] = "update"
    /\ \/ Goto(c, "commit") /\ UNCHANGED <<open, rows>>
       \/ EndTransaction(c) /\ RollBack(c)
    /\ UNCHANGED <<deployment, kind, deliveryVars, job, result, arrivals, redelivered, faults>>

Commit(c) ==
    /\ at[c] = "commit"
    /\ EndTransaction(c)
    /\ UNCHANGED <<deployment, kind, rows, deliveryVars, job, result, arrivals, redelivered, faults>>

Fault == faults < MaxFaults /\ faults' = faults + 1

\* A statement, the COMMIT or the publish throws, and the call with it.
CallThrows(c) ==
    /\ InProgress(c)
    /\ Fault
    /\ EndTransaction(c)
    /\ RollBack(c)
    /\ UNCHANGED <<deployment, kind, deliveryVars, job, result, arrivals, redelivered>>

-----------------------------------------------------------------------------
(* processJob *)

Channel(c) == IF kind[c] \in {"newPhone", "phone"} THEN "sms" ELSE "email"
Work(c, step) == job' = [job EXCEPT ![c] = step]

SmsOnly(c) ==                                              \* mutant: no consumer on the e-mail queue
    /\ job[c] = "queued" /\ Channel(c) = "sms"
    /\ Work(c, "send")
    /\ UNCHANGED <<deployment, callVars, deliveryVars, result, arrivals, redelivered, faults>>
Receive(c) ==
    /\ job[c] = "queued"
    /\ Work(c, "send")
    /\ UNCHANGED <<deployment, callVars, deliveryVars, result, arrivals, redelivered, faults>>

\* The Kavenegar client may throw; SMS.ir and SMTP answer every error with success = false.
SmsOutcomes ==
    CASE deployment.sms = "console"   -> {"success"}
      [] deployment.sms = "smsir"     -> {"success", "failure"}
      [] deployment.sms = "kavenegar" -> {"success", "failure", "throws"}
EmailOutcomes == IF deployment.smtp THEN {"success", "failure"} ELSE {"failure"}
Outcomes(c) == IF Channel(c) = "sms" THEN SmsOutcomes ELSE EmailOutcomes
Reachable(c) == Channel(c) = "sms" \/ deployment.smtp

\* The provider takes the message, or it does not, or it does and the answer is an error.
Taken(c, outcome) == IF outcome = "success" THEN {1} ELSE IF Reachable(c) THEN {0, 1} ELSE {0}

RetriesFailure(c, outcome) ==                              \* mutant: a failure is tried again at once
    IF outcome # "success" THEN "send" ELSE IF ~HasUser(c) THEN "ack" ELSE "record"
AfterSend(c, outcome) ==
    IF ~HasUser(c) THEN "ack" ELSE IF outcome = "throws" THEN "markFailed" ELSE "record"
Send(c) == \E outcome \in Outcomes(c) : \E n \in Taken(c, outcome) :
    /\ job[c] = "send"
    /\ arrivals' = [arrivals EXCEPT ![c] = @ + n]
    /\ result' = [result EXCEPT ![c] = (outcome = "success")]
    /\ Work(c, AfterSend(c, outcome))
    /\ UNCHANGED <<deployment, callVars, deliveryVars, redelivered, faults>>

\* An UPDATE by id: it meets no row while the INSERT is not committed, or after it was rolled back.
Visible(c) == "delivery" \in rows[c] /\ ~open[c]
UpdateDelivery(c, s) ==
    /\ status' = [status EXCEPT ![c] = IF Visible(c) THEN s ELSE @]
    /\ early' = IF open[c] THEN early \cup {c} ELSE early \ {c}

AlwaysSent(c) == "sent"                                    \* mutant: the result is not looked at
ProviderStatus(c) == IF result[c] THEN "success" ELSE "failure"   \* mutant: not a status of the enum
StatusOf(c) == IF result[c] THEN "sent" ELSE "failed"
OnlySuccess(c) ==                                          \* mutant: a failure is logged, not recorded
    /\ job[c] = "record"
    /\ \/ UpdateDelivery(c, IF result[c] THEN "sent" ELSE status[c]) /\ Work(c, "ack") /\ UNCHANGED faults
       \/ Fault /\ Work(c, "markFailed") /\ UNCHANGED deliveryVars
    /\ UNCHANGED <<deployment, callVars, result, arrivals, redelivered>>
Record(c) ==
    /\ job[c] = "record"
    /\ \/ UpdateDelivery(c, StatusOf(c)) /\ Work(c, "ack") /\ UNCHANGED faults
       \/ Fault /\ Work(c, "markFailed") /\ UNCHANGED deliveryVars
    /\ UNCHANGED <<deployment, callVars, result, arrivals, redelivered>>

\* The job that markFailed throws out of goes back to the queue.
PutBack(c) == Work(c, "queued") /\ redelivered' = [redelivered EXCEPT ![c] = @ + 1]
MarkFailed(c) ==
    /\ job[c] = "markFailed"
    /\ \/ UpdateDelivery(c, "failed") /\ Work(c, "ack") /\ UNCHANGED <<redelivered, faults>>
       \/ Fault /\ PutBack(c) /\ UNCHANGED deliveryVars
    /\ UNCHANGED <<deployment, callVars, result, arrivals>>

Ack(c) ==
    /\ job[c] = "ack"
    /\ Work(c, "done")
    /\ UNCHANGED <<deployment, callVars, deliveryVars, result, arrivals, redelivered, faults>>

-----------------------------------------------------------------------------

\* The process dies and starts again: calls vanish, and jobs without an ack are delivered again.
Crash ==
    /\ Fault
    /\ at' = [c \in Calls |-> IF InProgress(c) THEN "ended" ELSE at[c]]
    /\ open' = [c \in Calls |-> FALSE]
    /\ rows' = [c \in Calls |-> IF open[c] THEN {} ELSE rows[c]]
    /\ job' = [c \in Calls |-> IF job[c] \in InProcess THEN "queued" ELSE job[c]]
    /\ redelivered' = [c \in Calls |-> IF job[c] \in InProcess THEN redelivered[c] + 1 ELSE redelivered[c]]
    /\ UNCHANGED <<deployment, kind, deliveryVars, result, arrivals>>

Call(c) == Start(c) \/ CreateOtp(c) \/ CreateNotification(c) \/ CreateDelivery(c) \/ Publish(c)
           \/ UpdateUser(c) \/ Commit(c) \/ CallThrows(c)
ProcessJob(c) == Receive(c) \/ Send(c) \/ Record(c) \/ MarkFailed(c) \/ Ack(c)

Next == Crash \/ \E c \in Calls : Call(c) \/ ProcessJob(c)
Spec == Init /\ [][Next]_vars

\* The consumer goes on with what it received, a provider answers, and the broker delivers.
Fairness == \A c \in Calls : WF_vars(ProcessJob(c))
FairSpec == Spec /\ Fairness

-----------------------------------------------------------------------------
(* Properties *)

TypeOK ==
    /\ deployment \in Deployments
    /\ kind \in [Calls -> Kinds]
    /\ at \in [Calls -> CallSteps]
    /\ open \in [Calls -> BOOLEAN]
    /\ rows \in [Calls -> SUBSET Tables]
    /\ status \in [Calls -> DeliveryStatus]
    /\ early \subseteq Calls
    /\ job \in [Calls -> JobSteps]
    /\ result \in [Calls -> BOOLEAN]
    /\ arrivals \in [Calls -> Nat]
    /\ redelivered \in [Calls -> Nat]
    /\ faults \in 0..MaxFaults

\* A delivery that reads "sent" was taken by its provider, whatever crashed or was delivered twice
\* (the reverse does not hold: a failed UPDATE marks a message failed that was sent).
SentWasTaken == \A c \in Calls : status[c] = "sent" => arrivals[c] > 0

\* A code that reached somebody is stored, if its caller has no transaction: the row is there before
\* the message.  In a transaction the message is first, and a rollback leaves a code nobody can use.
ArrivedCodeIsStored == \A c \in Calls :
    arrivals[c] > 0 /\ "otp" \notin rows[c] => kind[c] = "profile" /\ ~open[c]

\* A delivery whose job is over is not pending, unless the consumer was faster than the COMMIT of
\* the transaction that inserted it and wrote the outcome to no row; once that is committed, the
\* outcome of a profile update is as certain as any other.
PendingOnlyBeforeCommit == \A c \in Calls : job[c] = "done" /\ Visible(c) /\ status[c] = "pending" => c \in early

\* A message arrives once, and once more for each time its job was put back, never otherwise.
ArrivesOncePerDelivery == \A c \in Calls : arrivals[c] <= 1 + redelivered[c]

\* Each job that was published is done at last, though crashes and failing statements put it back.
JobsAreDone == \A c \in Calls : job[c] = "queued" ~> job[c] = "done"
=============================================================================
