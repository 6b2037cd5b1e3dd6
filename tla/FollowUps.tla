----------------------------- MODULE FollowUps -----------------------------
(***************************************************************************)
(* Scheduled follow-up jobs of one campaign: the part of the worker's poll *)
(* that recovers, resumes, claims and runs them, statement by statement,   *)
(* beside the requests of the user (create, cancel, stop, resume), the     *)
(* mails of the campaign itself on the same account, midnight, failing     *)
(* statements and crashes.  One worker process runs the poll, so one job   *)
(* runs at a time.                                                         *)
(***************************************************************************)
EXTENDS Integers, FiniteSets

CONSTANTS
  Jobs, NoJob,   \* follow_up_jobs.id
  Recipients,    \* recipients whose primary mail was sent, numbered in id order
  Prior,         \* follow_up_jobs.prior_follow_up_count
  HasRunCap,     \* jobs with max_run_minutes
  SmtpCap,       \* smtp_settings.daily_email_limit
  CampaignMails, \* mails the campaign itself has still to send
  Week,          \* length of the week
  OpenDays,      \* follow_up_jobs.send_weekdays
  MaxRequests,   \* bound on requests, manual follow-ups and other events of the outside
  MaxFaults      \* bound on crashes and failing statements

ASSUME FollowUpsAssumption ==
  /\ NoJob \notin Jobs
  /\ Recipients \subseteq Nat /\ IsFiniteSet(Recipients)
  /\ Prior \in [Jobs -> Nat] /\ HasRunCap \subseteq Jobs
  /\ {SmtpCap, CampaignMails, MaxRequests, MaxFaults} \subseteq Nat
  /\ Week \in Nat \ {0} /\ OpenDays \subseteq 0 .. Week - 1

VARIABLES
  jstatus,   \* follow_up_jobs.status, "absent" before the INSERT, "asked" before its check ends
  waits,     \* jobs whose error_message isDailyQuotaPauseMessage recognises
  older,     \* those of them whose completed_at is of an earlier day
  over,      \* running jobs that have used up max_run_minutes, or 35 minutes without it
  retrying,  \* retryFollowUpJob between its SELECTs and its UPDATE
  cstatus,   \* campaigns.status
  inHand,    \* the campaign task is between its quota check and email_send_log
  left,      \* mails of the campaign not sent yet
  otherBusy, \* another campaign on the account is running
  rows,      \* outbound email_replies of a recipient
  blocked,   \* recipients isFollowUpBlockedForRecipient stops
  counted,   \* email_send_log rows of today
  day,
  run,       \* the poll: where it is, and the locals of runFollowUpJob
  requests, faults,
  mails,     \* history: mails the jobs of a step sent to a recipient
  unrecorded,\* history: those of them whose email_replies row was not written
  afterStop  \* history: mails a job sent while its row said stopped

jobVars == <<jstatus, waits, older, over, retrying>>
campaignVars == <<cstatus, inHand, left, otherBusy>>
mailVars == <<rows, counted, mails, unrecorded, afterStop>>
boundVars == <<requests, faults>>
vars == <<jobVars, campaignVars, mailVars, blocked, day, run, boundVars>>

\* Two jobs with the same prior_follow_up_count send the same step of the sequence.
Steps == {Prior[j] : j \in Jobs}

Settled == {"completed", "failed", "stopped", "cancelled"}
Places == {"idle", "recover", "resume", "resumeWrite", "due", "start", "hold", "select",
           "check", "wait", "delay", "crm", "quota", "limit", "send", "row", "record", "write"}
NotRunning == [at |-> "idle", job |-> NoJob, picks |-> {}, todo |-> {}, first |-> TRUE,
               any |-> FALSE, sentOk |-> FALSE, failed |-> FALSE, verdict |-> "none"]

JobTypes ==
  /\ jstatus \in [Jobs -> Settled \union {"absent", "asked", "pending", "running", "paused"}]
  /\ waits \in SUBSET Jobs /\ older \in SUBSET Jobs
  /\ over \in SUBSET Jobs /\ retrying \in SUBSET Jobs

CampaignTypes ==
  /\ cstatus \in {"in_progress", "paused", "completed"}
  /\ inHand \in BOOLEAN /\ left \in 0 .. CampaignMails /\ otherBusy \in BOOLEAN

MailTypes ==
  /\ rows \in [Recipients -> Nat] /\ counted \in Nat
  /\ mails \in [Steps -> [Recipients -> Nat]] /\ unrecorded \in [Steps -> [Recipients -> Nat]]
  /\ afterStop \in [Jobs -> Nat]

RunTypes ==
  run \in [at : Places, job : Jobs \union {NoJob}, picks : SUBSET Jobs, todo : SUBSET Recipients,
           first : BOOLEAN, any : BOOLEAN, sentOk : BOOLEAN, failed : BOOLEAN,
           verdict : {"none", "paused", "completed", "failed", "profile"}]

TypeOK ==
  /\ JobTypes /\ CampaignTypes /\ MailTypes /\ RunTypes
  /\ blocked \in SUBSET Recipients /\ day \in 0 .. Week - 1
  /\ requests \in 0 .. MaxRequests /\ faults \in 0 .. MaxFaults

Init ==
  /\ jstatus = [j \in Jobs |-> "absent"]
  /\ waits = {} /\ older = {} /\ over = {} /\ retrying = {}
  /\ cstatus \in {"in_progress", "paused"}
  /\ inHand = FALSE /\ left = CampaignMails /\ otherBusy = FALSE
  /\ rows = [r \in Recipients |-> 0] /\ blocked = {}
  /\ counted = 0 /\ day = 0
  /\ run = NotRunning
  /\ requests = 0 /\ faults = 0
  /\ mails = [n \in Steps |-> [r \in Recipients |-> 0]] /\ unrecorded = [n \in Steps |-> [r \in Recipients |-> 0]]
  /\ afterStop = [j \in Jobs |-> 0]

-----------------------------------------------------------------------------
(* The jobs table *)

Running == {j \in Jobs : jstatus[j] = "running"}
Full == counted >= SmtpCap

\* An UPDATE by id alone; "profile" is failJob with a message about the SMTP profile,
\* which reads like a quota pause.
SetJob(j, verdict) ==
  /\ jstatus' = [jstatus EXCEPT ![j] = IF verdict = "profile" THEN "failed" ELSE verdict]
  /\ waits' = IF verdict \in {"paused", "profile"} THEN waits \union {j} ELSE waits \ {j}
  /\ older' = older \ {j} /\ over' = over \ {j}
  /\ UNCHANGED retrying

Goto(place) == run' = [run EXCEPT !.at = place]
Decide(verdict) == run' = [run EXCEPT !.at = "write", !.verdict = verdict]
Leave == run' = [NotRunning EXCEPT !.at = "due", !.picks = run.picks]

-----------------------------------------------------------------------------
(* The poll around a job *)

\* recoverStaleRunningFollowUpJobs: what it selects, it pauses by id.
BeginPoll ==
  /\ run.at = "idle"
  /\ run' = [NotRunning EXCEPT !.at = "recover", !.picks = Running \intersect over]
  /\ UNCHANGED <<jobVars, campaignVars, mailVars, blocked, day, boundVars>>

\* Mutant of RecoverJob: the message does not read like a quota pause.
RecoverWithoutMessage(j) ==
  /\ run.at = "recover" /\ j \in run.picks
  /\ jstatus' = [jstatus EXCEPT ![j] = "paused"]
  /\ run' = [run EXCEPT !.picks = @ \ {j}]
  /\ UNCHANGED <<waits, older, over, retrying, campaignVars, mailVars, blocked, day, boundVars>>

RecoverJob(j) ==
  /\ run.at = "recover" /\ j \in run.picks
  /\ SetJob(j, "paused")
  /\ run' = [run EXCEPT !.picks = @ \ {j}]
  /\ UNCHANGED <<campaignVars, mailVars, blocked, day, boundVars>>

\* autoResumePausedFollowUpJobs
BeginResume ==
  /\ run.at = "recover" /\ run.picks = {}
  /\ run' = [run EXCEPT !.at = "resume",
                        !.picks = {j \in waits : jstatus[j] \in {"paused", "failed"}}]
  /\ UNCHANGED <<jobVars, campaignVars, mailVars, blocked, day, boundVars>>

MayResume(j) == j \in older /\ day \in OpenDays /\ ~Full /\ ~otherBusy

ResumeCheck(j) ==
  /\ run.at = "resume" /\ j \in run.picks
  /\ run' = IF MayResume(j)
            THEN [run EXCEPT !.at = "resumeWrite", !.job = j, !.picks = @ \ {j}]
            ELSE [run EXCEPT !.picks = @ \ {j}]
  /\ UNCHANGED <<jobVars, campaignVars, mailVars, blocked, day, boundVars>>

ResumeWrite ==
  /\ run.at = "resumeWrite"
  /\ SetJob(run.job, "pending")
  /\ run' = [run EXCEPT !.at = "resume", !.job = NoJob]
  /\ UNCHANGED <<campaignVars, mailVars, blocked, day, boundVars>>

\* processFollowUpJobsOnce
BeginDue ==
  /\ run.at = "resume" /\ run.picks = {}
  /\ run' = [run EXCEPT !.at = "due", !.picks = {j \in Jobs : jstatus[j] = "pending"}]
  /\ UNCHANGED <<jobVars, campaignVars, mailVars, blocked, day, boundVars>>

\* The conditional UPDATE; a job with a running job beside it is passed over.
Claim(j) ==
  /\ run.at = "due" /\ j \in run.picks
  /\ IF Running = {} /\ jstatus[j] = "pending"
     THEN /\ jstatus' = [jstatus EXCEPT ![j] = "running"]
          /\ over' = over \ {j}
          /\ run' = [run EXCEPT !.at = "start", !.job = j, !.picks = @ \ {j}]
     ELSE /\ run' = [run EXCEPT !.picks = @ \ {j}]
          /\ UNCHANGED <<jstatus, over>>
  /\ UNCHANGED <<waits, older, retrying, campaignVars, mailVars, blocked, day, boundVars>>

EndPoll ==
  /\ run.at = "due" /\ run.picks = {}
  /\ run' = NotRunning
  /\ UNCHANGED <<jobVars, campaignVars, mailVars, blocked, day, boundVars>>

-----------------------------------------------------------------------------
(* runFollowUpJob *)

\* Mutant of StillRunning: a stop is not looked for.
NotCancelled(j) == jstatus[j] \in {"running", "stopped"}

\* isJobStillRunning
StillRunning(j) == jstatus[j] = "running"

RunCapExceeded(j) == j \in HasRunCap /\ j \in over

\* The campaign, the account and the template are looked at before the first recipient.
Start ==
  /\ run.at = "start"
  /\ \/ otherBusy /\ Decide("failed")
     \/ ~otherBusy /\ cstatus = "in_progress" /\ Goto("hold")
     \/ ~otherBusy /\ cstatus # "in_progress" /\ Goto("select")
  /\ UNCHANGED <<jobVars, campaignVars, mailVars, blocked, day, boundVars>>

\* pauseCampaignForFollowUpHold: by id, whatever the campaign has become since it was read.
HoldCampaign ==
  /\ run.at = "hold"
  /\ cstatus' = "paused"
  /\ Goto("select")
  /\ UNCHANGED <<jobVars, inHand, left, otherBusy, mailVars, blocked, day, boundVars>>

\* Mutant of Eligible: everybody who has had at least so many follow-ups.
AtLeastPrior(j) == {r \in Recipients \ blocked : rows[r] >= Prior[j]}

\* eligibleRecipientsWhere
Eligible(j) == {r \in Recipients \ blocked : rows[r] = Prior[j]}

\* The recipients are selected once.
SelectRecipients ==
  /\ run.at = "select"
  /\ run' = [run EXCEPT !.at = "check", !.todo = Eligible(run.job), !.any = Eligible(run.job) # {}]
  /\ UNCHANGED <<jobVars, campaignVars, mailVars, blocked, day, boundVars>>

TemplateGone ==
  /\ run.at = "select" /\ requests < MaxRequests
  /\ requests' = requests + 1
  /\ Decide("failed")
  /\ UNCHANGED <<jobVars, campaignVars, mailVars, blocked, day, faults>>

\* The head of the loop, or what follows it after the last recipient.
EndVerdict == IF run.any /\ ~run.sentOk /\ run.failed THEN "failed" ELSE "completed"

CheckJob ==
  /\ run.at = "check"
  /\ IF run.todo = {} THEN Decide(EndVerdict)
     ELSE IF ~StillRunning(run.job) THEN Leave
     ELSE IF RunCapExceeded(run.job) THEN Decide("completed")
     ELSE IF day \notin OpenDays THEN Goto("wait")
     ELSE IF run.first THEN Goto("crm") ELSE Goto("delay")
  /\ UNCHANGED <<jobVars, campaignVars, mailVars, blocked, day, boundVars>>

\* After each minute of the weekday wait, and after the delay between two mails.
Recheck ==
  /\ run.at \in {"wait", "delay"}
  /\ IF RunCapExceeded(run.job) THEN Decide("completed")
     ELSE IF ~StillRunning(run.job) THEN Leave
     ELSE IF run.at = "wait" /\ day \notin OpenDays THEN FALSE
     ELSE IF run.at = "wait" /\ ~run.first THEN Goto("delay") ELSE Goto("crm")
  /\ UNCHANGED <<jobVars, campaignVars, mailVars, blocked, day, boundVars>>

Current == CHOOSE r \in run.todo : \A q \in run.todo : r <= q

\* isFollowUpBlockedForRecipient
CrmCheck ==
  /\ run.at = "crm"
  /\ run' = IF Current \in blocked
            THEN [run EXCEPT !.at = "check", !.todo = @ \ {Current}, !.first = FALSE]
            ELSE [run EXCEPT !.at = "quota"]
  /\ UNCHANGED <<jobVars, campaignVars, mailVars, blocked, day, boundVars>>

\* Mutant of QuotaVerdict: <= for <.
QuotaVerdictAtCap ==
  IF counted > SmtpCap THEN "limit" ELSE IF RunCapExceeded(run.job) THEN "cap" ELSE "send"

\* assertSmtpQuotaAllowsSend and the daily limit of the campaign
QuotaVerdict == IF Full THEN "limit" ELSE IF RunCapExceeded(run.job) THEN "cap" ELSE "send"

QuotaCheck ==
  /\ run.at = "quota"
  /\ IF QuotaVerdict = "cap" THEN Decide("completed") ELSE Goto(QuotaVerdict)
  /\ UNCHANGED <<jobVars, campaignVars, mailVars, blocked, day, boundVars>>

\* The profile was deleted, or its limit set to 0.
ProfileGone ==
  /\ run.at = "quota" /\ requests < MaxRequests
  /\ requests' = requests + 1
  /\ Decide("profile")
  /\ UNCHANGED <<jobVars, campaignVars, mailVars, blocked, day, faults>>

\* pauseCampaignForSmtpDailyLimit, pauseCampaignForCampaignDailyCap
PauseCampaign ==
  /\ run.at = "limit"
  /\ cstatus' = IF cstatus = "completed" THEN cstatus ELSE "paused"
  /\ Decide("paused")
  /\ UNCHANGED <<jobVars, inHand, left, otherBusy, mailVars, blocked, day, boundVars>>

\* sendFollowUpOutbound: the mail, its row, its entry in the log; an error in any of them
\* counts the recipient as failed.
AfterMail == [run EXCEPT !.at = "check", !.todo = @ \ {Current}, !.first = FALSE]

SendMail ==
  /\ run.at = "send"
  /\ mails' = [mails EXCEPT ![Prior[run.job]][Current] = @ + 1]
  /\ unrecorded' = [unrecorded EXCEPT ![Prior[run.job]][Current] = @ + 1]
  /\ afterStop' = IF jstatus[run.job] = "stopped"
                  THEN [afterStop EXCEPT ![run.job] = @ + 1] ELSE afterStop
  /\ Goto("row")
  /\ UNCHANGED <<jobVars, campaignVars, rows, counted, blocked, day, boundVars>>

InsertRow ==
  /\ run.at = "row"
  /\ rows' = [rows EXCEPT ![Current] = @ + 1]
  /\ unrecorded' = [unrecorded EXCEPT ![Prior[run.job]][Current] = @ - 1]
  /\ Goto("record")
  /\ UNCHANGED <<jobVars, campaignVars, counted, mails, afterStop, blocked, day, boundVars>>

\* recordSuccessfulSend
Record ==
  /\ run.at = "record"
  /\ counted' = counted + 1
  /\ run' = [AfterMail EXCEPT !.sentOk = TRUE]
  /\ UNCHANGED <<jobVars, campaignVars, rows, mails, unrecorded, afterStop, blocked, day, boundVars>>

SendFails ==
  /\ run.at \in {"send", "row", "record"} /\ faults < MaxFaults
  /\ faults' = faults + 1
  /\ run' = [AfterMail EXCEPT !.failed = TRUE]
  /\ UNCHANGED <<jobVars, campaignVars, mailVars, blocked, day, requests>>

\* failJob, pauseJobForQuota, completeJobRunDurationReached and the last UPDATE
WriteVerdict ==
  /\ run.at = "write"
  /\ SetJob(run.job, run.verdict)
  /\ Leave
  /\ UNCHANGED <<campaignVars, mailVars, blocked, day, boundVars>>

\* Another statement throws: processFollowUpJobsOnce catches and fails the job.
Throw ==
  /\ run.at \in {"start", "select", "check", "crm", "quota"} /\ faults < MaxFaults
  /\ faults' = faults + 1
  /\ Decide("failed")
  /\ UNCHANGED <<jobVars, campaignVars, mailVars, blocked, day, requests>>

Crash ==
  /\ run.at # "idle" /\ faults < MaxFaults
  /\ faults' = faults + 1
  /\ run' = NotRunning
  /\ UNCHANGED <<jobVars, campaignVars, mailVars, blocked, day, requests>>

RunnerStep ==
  \/ BeginPoll \/ BeginResume \/ ResumeWrite \/ BeginDue \/ EndPoll
  \/ \E j \in Jobs : RecoverJob(j) \/ ResumeCheck(j) \/ Claim(j)
  \/ Start \/ HoldCampaign \/ SelectRecipients \/ CheckJob \/ Recheck \/ CrmCheck
  \/ QuotaCheck \/ PauseCampaign \/ SendMail \/ InsertRow \/ Record \/ WriteVerdict

-----------------------------------------------------------------------------
(* Requests *)

Request == requests < MaxRequests /\ requests' = requests + 1

\* createFollowUpJob checks, and inserts a statement later.
AskForJob(j) ==
  /\ jstatus[j] = "absent" /\ Running = {}
  /\ jstatus' = [jstatus EXCEPT ![j] = "asked"]
  /\ UNCHANGED <<waits, older, over, retrying, campaignVars, mailVars, blocked, day, run, boundVars>>

InsertJob(j) ==
  /\ jstatus[j] = "asked"
  /\ jstatus' = [jstatus EXCEPT ![j] = "pending"]
  /\ UNCHANGED <<waits, older, over, retrying, campaignVars, mailVars, blocked, day, run, boundVars>>

CancelJob(j) ==
  /\ Request /\ jstatus[j] = "pending"
  /\ jstatus' = [jstatus EXCEPT ![j] = "cancelled"]
  /\ UNCHANGED <<waits, older, over, retrying, campaignVars, mailVars, blocked, day, run, faults>>

StopJob(j) ==
  /\ Request /\ jstatus[j] \in {"running", "pending"}
  /\ jstatus' = [jstatus EXCEPT ![j] = "stopped"]
  /\ afterStop' = [afterStop EXCEPT ![j] = 0]
  /\ UNCHANGED <<waits, older, over, retrying, campaignVars, rows, counted, mails, unrecorded,
                 blocked, day, run, faults>>

\* retryFollowUpJob reads, and writes by id a statement later.
RetryRead(j) ==
  /\ Request /\ jstatus[j] \in {"failed", "stopped", "paused"} /\ Running = {}
  /\ retrying' = retrying \union {j}
  /\ UNCHANGED <<jstatus, waits, older, over, campaignVars, mailVars, blocked, day, run, faults>>

RetryWrite(j) ==
  /\ j \in retrying
  /\ jstatus' = [jstatus EXCEPT ![j] = "pending"]
  /\ waits' = waits \ {j} /\ older' = older \ {j}
  /\ retrying' = retrying \ {j}
  /\ UNCHANGED <<over, campaignVars, mailVars, blocked, day, run, boundVars>>

\* A follow-up of the Inbox or of an approved draft: a row of its own.
ManualFollowUp(r) ==
  /\ Request
  /\ rows' = [rows EXCEPT ![r] = @ + 1]
  /\ UNCHANGED <<jobVars, campaignVars, counted, mails, unrecorded, afterStop, blocked, day, run, faults>>

\* The lead replies, or is moved to a stage that stops follow-ups.
LeadStops(r) ==
  /\ Request /\ r \notin blocked
  /\ blocked' = blocked \union {r}
  /\ UNCHANGED <<jobVars, campaignVars, mailVars, day, run, faults>>

-----------------------------------------------------------------------------
(* The campaign, the account and the clock *)

\* The user or the worker's own schedulers set the campaign running; nothing of
\* isSmtpInUse looks at the jobs of the campaign itself.
CampaignGoes ==
  /\ Request /\ cstatus = "paused"
  /\ cstatus' = "in_progress"
  /\ UNCHANGED <<jobVars, inHand, left, otherBusy, mailVars, blocked, day, run, faults>>

CampaignCompletes ==
  /\ run.at = "idle" /\ cstatus = "in_progress" /\ left = 0 /\ ~inHand
  /\ cstatus' = "completed"
  /\ UNCHANGED <<jobVars, inHand, left, otherBusy, mailVars, blocked, day, run, boundVars>>

\* Mutant of CampaignPick: a batch is taken although nothing is pending.
PickFromNothing ==
  /\ cstatus = "in_progress" /\ ~inHand /\ ~Full
  /\ inHand' = TRUE /\ left' = left - 1
  /\ UNCHANGED <<jobVars, cstatus, otherBusy, mailVars, blocked, day, run, boundVars>>

CampaignPick ==
  /\ cstatus = "in_progress" /\ ~inHand /\ left > 0 /\ ~Full
  /\ inHand' = TRUE /\ left' = left - 1
  /\ UNCHANGED <<jobVars, cstatus, otherBusy, mailVars, blocked, day, run, boundVars>>

CampaignLog ==
  /\ inHand
  /\ inHand' = FALSE
  /\ counted' = counted + 1
  /\ UNCHANGED <<jobVars, cstatus, left, otherBusy, rows, mails, unrecorded, afterStop,
                 blocked, day, run, boundVars>>

OtherStarts ==
  /\ Request /\ ~otherBusy
  /\ otherBusy' = TRUE
  /\ UNCHANGED <<jobVars, cstatus, inHand, left, mailVars, blocked, day, run, faults>>

OtherEnds ==
  /\ otherBusy /\ otherBusy' = FALSE
  /\ UNCHANGED <<jobVars, cstatus, inHand, left, mailVars, blocked, day, run, boundVars>>

\* The statements of the poll around the jobs take no time to speak of; a job takes long.
Midnight ==
  /\ run.at = "idle" \/ run.job # NoJob
  /\ day' = (day + 1) % Week
  /\ counted' = 0
  /\ older' = {j \in waits : jstatus[j] \in {"paused", "failed"}}
  /\ UNCHANGED <<jstatus, waits, over, retrying, campaignVars, rows, mails, unrecorded, afterStop,
                 blocked, run, boundVars>>

\* The time of a running job runs out.
Lapse(j) ==
  /\ j \in (Running \union {run.job}) \ (over \union {NoJob})
  /\ over' = over \union {j}
  /\ UNCHANGED <<jstatus, waits, older, retrying, campaignVars, mailVars, blocked, day, run, boundVars>>

Next ==
  \/ RunnerStep \/ TemplateGone \/ ProfileGone \/ SendFails \/ Throw \/ Crash
  \/ \E j \in Jobs : \/ AskForJob(j) \/ InsertJob(j) \/ CancelJob(j) \/ StopJob(j)
                     \/ RetryRead(j) \/ RetryWrite(j) \/ Lapse(j)
  \/ \E r \in Recipients : ManualFollowUp(r) \/ LeadStops(r)
  \/ CampaignGoes \/ CampaignCompletes \/ CampaignPick \/ CampaignLog
  \/ OtherStarts \/ OtherEnds \/ Midnight

Spec == Init /\ [][Next]_vars

-----------------------------------------------------------------------------
(* Properties *)

\* Jobs of the same step never mail a recipient again, whoever stops, resumes, retries or
\* crashes them, except for a mail whose email_replies row was not written.
RepeatNeedsLostRow ==
  \A n \in Steps, r \in Recipients : mails[n][r] <= 1 + unrecorded[n][r]

\* After a stop by the user a running job sends at most the mail it had in hand, as long
\* as its row says stopped.
OneMailAfterStop == \A j \in Jobs : afterStop[j] <= 1

\* No mail goes out that the user did not ask for, again or after a stop, beyond these.
NoExtraMails == RepeatNeedsLostRow /\ OneMailAfterStop

\* Where a step of the sequence is with a recipient: in hand from the selection on, mailed and not
\* written yet, or as the number of its rows says.
Assigned(n, r) == r \in run.todo /\ Prior[run.job] = n
Stage(n, r) ==
  IF Assigned(n, r) /\ ~(run.at \in {"row", "record"} /\ r = Current) THEN "taken"
  ELSE IF Assigned(n, r) /\ run.at = "row" THEN "mailed"
  ELSE IF rows[r] > n THEN "closed" ELSE "waiting"

StepsDelivered == INSTANCE Delivery WITH
  Letters <- Steps \X Recipients,
  stage <- [l \in Steps \X Recipients |-> Stage(l[1], l[2])],
  copies <- [l \in Steps \X Recipients |-> mails[l[1]][l[2]]],
  lost <- [l \in Steps \X Recipients |->
             unrecorded[l[1]][l[2]] - IF Stage(l[1], l[2]) = "mailed" THEN 1 ELSE 0]

\* Each step of the sequence is delivered to each recipient as a row of a campaign is: taken by one
\* run of a job at a time, mailed in hand, and taken again only if the row of its mail was lost.
ImplementsDelivery == StepsDelivered!DeliverySpec

\* The life of a follow-up: the jobs implement the delivery, and send nothing extra.
FollowUpsHold == ImplementsDelivery /\ []NoExtraMails

\* A job and its own campaign, both between the count and the entry in the log, exceed the
\* daily limit of the account by one mail and no more.
LimitExceededByOne == counted <= SmtpCap + 1

\* The poll goes on, days pass, the time of a run passes, a campaign that uses the account
\* ends; the poll comes round on every day on which it has the time.
Fairness ==
  /\ SF_vars(RunnerStep) /\ SF_vars(BeginPoll /\ day \in OpenDays)
  /\ \A j \in Jobs : WF_vars(Lapse(j))
  /\ SF_vars(Midnight) /\ WF_vars(OtherEnds) /\ WF_vars(CampaignLog)

FairSpec == Spec /\ Fairness

\* A pending job is settled in the end, through quota pauses, blocked days, crashes of the
\* worker and recovery.
JobSettles == \A j \in Jobs : jstatus[j] = "pending" ~> jstatus[j] \in Settled
=============================================================================
