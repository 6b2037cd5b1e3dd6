--------------------------- MODULE FollowUps_proofs ---------------------------
(***************************************************************************)
(* The limits of scheduled follow-ups, proved for every number of jobs,    *)
(* recipients, requests, days, crashes and failing statements: what a poll *)
(* holds where, which mails a step of the sequence can repeat, what a stop *)
(* can no longer prevent, and by how much a job and its own campaign       *)
(* exceed the daily limit of their account.                                *)
(***************************************************************************)
EXTENDS FollowUps, TLAPS, WellFoundedInduction

-----------------------------------------------------------------------------
(* The recipient of the round *)

\* A nonempty set of recipients has a first one, as WHERE ... ORDER BY id promises.
LEMMA LeastExists ==
  ASSUME NEW S \in SUBSET Nat, S # {}
  PROVE  \E r \in S : \A q \in S : r <= q
<1>1. \E x \in S : \A y \in S : ~ (<<y, x>> \in OpToRel(<, Nat))
  <2>1. IsWellFoundedOn(OpToRel(<, Nat), Nat)
    BY NatLessThanWellFounded
  <2> QED
    BY <2>1, WFMin
<1>2. \A x, y \in Nat : y < x => <<y, x>> \in OpToRel(<, Nat)
  BY DEF OpToRel
<1>3. PICK x \in S : \A y \in S : ~ (<<y, x>> \in OpToRel(<, Nat))
  BY <1>1
<1>4. \A y \in S : ~(y < x)
  BY <1>2, <1>3
<1> QED
  BY <1>4

\* The recipient in hand is one of those still to do.
LEMMA CurrentIsToDo ==
  ASSUME TypeOK, run.todo # {}
  PROVE  Current \in run.todo
<1>1. run.todo \in SUBSET Nat
  BY FollowUpsAssumption DEF TypeOK, RunTypes
<1>2. \E r \in run.todo : \A q \in run.todo : r <= q
  BY <1>1, LeastExists
<1> QED
  BY <1>2 DEF Current

-----------------------------------------------------------------------------
(* Types, and what a poll holds where *)

InJob == Places \ {"idle", "recover", "resume", "due"}
InRound == {"wait", "delay", "crm", "quota", "limit", "send", "row", "record"}

\* Inside runFollowUpJob there is a job; inside a round of its loop, a recipient; a message
\* without its row is counted as unrecorded; a verdict is written only once there is one.
RunHolds ==
  /\ run.at \in InJob => run.job \in Jobs
  /\ run.todo # {} => run.at \in InRound \union {"check", "write"}
  /\ run.at \in InRound => run.todo # {}
  /\ run.at = "row" => unrecorded[Prior[run.job]][Current] > 0
  /\ run.at = "write" => run.verdict # "none"

TypeInv == TypeOK /\ RunHolds

\* Who writes follow_up_jobs.
LEMMA JobSteps ==
  ASSUME [Next]_vars
  PROVE  \/ UNCHANGED jobVars
         \/ ResumeWrite \/ WriteVerdict \/ Midnight
         \/ \E j \in Jobs : RecoverJob(j) \/ Claim(j) \/ AskForJob(j) \/ InsertJob(j) \/
             CancelJob(j) \/ StopJob(j) \/ RetryRead(j) \/ RetryWrite(j) \/ Lapse(j)
  BY DEF Next, RunnerStep, vars, campaignVars, mailVars, boundVars, jobVars, BeginPoll,
      BeginResume, BeginDue, EndPoll, ResumeCheck, Start, HoldCampaign, SelectRecipients,
      CheckJob, Recheck, CrmCheck, QuotaCheck, PauseCampaign, SendMail, InsertRow, Record,
      TemplateGone, ProfileGone, SendFails, Throw, Crash, ManualFollowUp, LeadStops,
      CampaignGoes, CampaignCompletes, CampaignPick, CampaignLog, OtherStarts, OtherEnds

\* Who writes the campaign and the account.
LEMMA CampaignSteps ==
  ASSUME [Next]_vars
  PROVE  \/ UNCHANGED campaignVars
         \/ HoldCampaign \/ PauseCampaign \/ CampaignGoes \/ CampaignCompletes \/
             CampaignPick \/ CampaignLog \/ OtherStarts \/ OtherEnds
  BY DEF Next, RunnerStep, vars, jobVars, mailVars, boundVars, campaignVars, BeginPoll,
      BeginResume, ResumeWrite, BeginDue, EndPoll, RecoverJob, ResumeCheck, Claim, Start,
      SelectRecipients, CheckJob, Recheck, CrmCheck, QuotaCheck, SendMail, InsertRow, Record,
      WriteVerdict, TemplateGone, ProfileGone, SendFails, Throw, Crash, AskForJob, InsertJob,
      CancelJob, StopJob, RetryRead, RetryWrite, Lapse, ManualFollowUp, LeadStops, Midnight

\* Who writes email_replies and the log of sends.
LEMMA MailSteps ==
  ASSUME [Next]_vars
  PROVE  \/ UNCHANGED mailVars
         \/ SendMail \/ InsertRow \/ Record \/ CampaignLog \/ Midnight
         \/ \E j \in Jobs : StopJob(j)
         \/ \E r \in Recipients : ManualFollowUp(r)
  BY DEF Next, RunnerStep, vars, jobVars, campaignVars, boundVars, mailVars, BeginPoll,
      BeginResume, ResumeWrite, BeginDue, EndPoll, RecoverJob, ResumeCheck, Claim, Start,
      HoldCampaign, SelectRecipients, CheckJob, Recheck, CrmCheck, QuotaCheck, PauseCampaign,
      WriteVerdict, TemplateGone, ProfileGone, SendFails, Throw, Crash, AskForJob, InsertJob,
      CancelJob, RetryRead, RetryWrite, Lapse, LeadStops, CampaignGoes, CampaignCompletes,
      CampaignPick, OtherStarts, OtherEnds

\* The steps of the poll itself.
LEMMA PollSteps ==
  ASSUME [Next]_vars
  PROVE  \/ UNCHANGED run
         \/ BeginPoll \/ BeginResume \/ ResumeWrite \/ BeginDue \/ EndPoll \/ Start \/
             HoldCampaign \/ SelectRecipients \/ CheckJob \/ Recheck \/ CrmCheck \/
             QuotaCheck \/ PauseCampaign \/ SendMail \/ InsertRow \/ Record \/
             WriteVerdict \/ TemplateGone \/ ProfileGone \/ SendFails \/ Throw \/ Crash
         \/ \E j \in Jobs : RecoverJob(j) \/ ResumeCheck(j) \/ Claim(j)
  BY DEF Next, RunnerStep, vars, jobVars, campaignVars, mailVars, boundVars, AskForJob,
      InsertJob, CancelJob, StopJob, RetryRead, RetryWrite, Lapse, ManualFollowUp, LeadStops,
      CampaignGoes, CampaignCompletes, CampaignPick, CampaignLog, OtherStarts, OtherEnds,
      Midnight
\* The types hold at first and stay, part by part.
LEMMA TypeInvInit == Init => TypeInv
<1> SUFFICES ASSUME Init PROVE TypeInv
  OBVIOUS
<1>1. JobTypes
  BY DEF Init, JobTypes, Settled
<1>2. CampaignTypes
  <2>1. CampaignMails \in 0 .. CampaignMails
    BY FollowUpsAssumption
  <2> QED
    BY <2>1 DEF Init, CampaignTypes
<1>3. MailTypes
  BY DEF Init, MailTypes
<1>4. RunTypes /\ RunHolds
  BY DEF Init, RunTypes, RunHolds, NotRunning, Places, InJob, InRound
<1> QED
  BY <1>1, <1>2, <1>3, <1>4, FollowUpsAssumption DEF Init, TypeInv, TypeOK

LEMMA JobTypesStay ==
  ASSUME TypeInv, [Next]_vars
  PROVE  JobTypes'
<1> USE FollowUpsAssumption DEF TypeInv, TypeOK, RunHolds, JobTypes, RunTypes, InJob, Settled, Places, SetJob
<1>1. ASSUME NEW j \in Jobs, RecoverJob(j)
      PROVE  JobTypes'
  BY <1>1 DEF RecoverJob, SetJob
<1>2. CASE ResumeWrite
  BY <1>2 DEF ResumeWrite, SetJob
<1>3. ASSUME NEW j \in Jobs, Claim(j)
      PROVE  JobTypes'
  BY <1>3 DEF Claim
<1>4. CASE WriteVerdict
  BY <1>4 DEF WriteVerdict, SetJob, Leave, NotRunning
<1>5. ASSUME NEW j \in Jobs, AskForJob(j)
      PROVE  JobTypes'
  BY <1>5 DEF AskForJob
<1>6. ASSUME NEW j \in Jobs, InsertJob(j)
      PROVE  JobTypes'
  BY <1>6 DEF InsertJob
<1>7. ASSUME NEW j \in Jobs, CancelJob(j)
      PROVE  JobTypes'
  BY <1>7 DEF CancelJob, Request
<1>8. ASSUME NEW j \in Jobs, StopJob(j)
      PROVE  JobTypes'
  BY <1>8 DEF StopJob, Request
<1>9. ASSUME NEW j \in Jobs, RetryRead(j)
      PROVE  JobTypes'
  BY <1>9 DEF RetryRead, Request
<1>10. ASSUME NEW j \in Jobs, RetryWrite(j)
       PROVE  JobTypes'
  BY <1>10 DEF RetryWrite
<1>11. ASSUME NEW j \in Jobs, Lapse(j)
       PROVE  JobTypes'
  BY <1>11 DEF Lapse, Running
<1>12. CASE Midnight
  BY <1>12 DEF Midnight
<1>13. CASE UNCHANGED jobVars
  BY <1>13 DEF jobVars
<1> QED
  BY <1>1, <1>2, <1>3, <1>4, <1>5, <1>6, <1>7, <1>8, <1>9, <1>10, <1>11, <1>12, <1>13, JobSteps

LEMMA CampaignTypesStay ==
  ASSUME TypeInv, [Next]_vars
  PROVE  CampaignTypes'
<1> USE FollowUpsAssumption DEF TypeInv, TypeOK, CampaignTypes
<1>1. CASE HoldCampaign
  BY <1>1 DEF HoldCampaign, Goto
<1>2. CASE PauseCampaign
  BY <1>2 DEF PauseCampaign, Decide
<1>3. CASE CampaignGoes
  BY <1>3 DEF CampaignGoes, Request
<1>4. CASE CampaignCompletes
  BY <1>4 DEF CampaignCompletes
<1>5. CASE CampaignPick
  BY <1>5 DEF CampaignPick
<1>6. CASE CampaignLog
  BY <1>6 DEF CampaignLog
<1>7. CASE OtherStarts
  BY <1>7 DEF OtherStarts, Request
<1>8. CASE OtherEnds
  BY <1>8 DEF OtherEnds
<1>9. CASE UNCHANGED campaignVars
  BY <1>9 DEF campaignVars
<1> QED
  BY <1>1, <1>2, <1>3, <1>4, <1>5, <1>6, <1>7, <1>8, <1>9, CampaignSteps

LEMMA MailTypesStay ==
  ASSUME TypeInv, [Next]_vars
  PROVE  MailTypes'
<1> USE FollowUpsAssumption DEF TypeInv, TypeOK, RunHolds, MailTypes, RunTypes, InJob, InRound, Places
<1>c. run.at \in InRound => Current \in Recipients /\ Prior[run.job] \in Steps
  BY CurrentIsToDo DEF Steps
<1>1. CASE SendMail
  BY <1>1, <1>c DEF SendMail, Goto
<1>2. CASE InsertRow
  BY <1>2, <1>c DEF InsertRow, Goto
<1>3. CASE Record
  BY <1>3 DEF Record, AfterMail
<1>4. ASSUME NEW j \in Jobs, StopJob(j)
      PROVE  MailTypes'
  BY <1>4 DEF StopJob, Request
<1>5. ASSUME NEW r \in Recipients, ManualFollowUp(r)
      PROVE  MailTypes'
  BY <1>5 DEF ManualFollowUp, Request
<1>6. CASE CampaignLog
  BY <1>6 DEF CampaignLog
<1>7. CASE Midnight
  BY <1>7 DEF Midnight
<1>8. CASE UNCHANGED mailVars
  BY <1>8 DEF mailVars
<1> QED
  BY <1>1, <1>2, <1>3, <1>4, <1>5, <1>6, <1>7, <1>8, MailSteps

LEMMA RunTypesStay ==
  ASSUME TypeInv, [Next]_vars
  PROVE  RunTypes'
<1> USE FollowUpsAssumption DEF TypeInv, TypeOK, RunTypes
<1>p. {"idle", "recover", "resume", "resumeWrite", "due", "start", "hold", "select", "check", "wait",
      "delay", "crm", "quota", "limit", "send", "row", "record", "write"} \subseteq Places
  BY DEF Places
<1>g. ASSUME NEW place \in Places, Goto(place) PROVE RunTypes'
  BY <1>g DEF Goto
<1>d. ASSUME NEW v \in {"paused", "completed", "failed", "profile"}, Decide(v) PROVE RunTypes'
  BY <1>p, <1>d DEF Decide
<1>l. ASSUME Leave PROVE RunTypes'
  BY <1>p, <1>l DEF Leave, NotRunning
<1>1. CASE BeginPoll
  BY <1>1, <1>p DEF BeginPoll, NotRunning, Running
<1>2. ASSUME NEW j \in Jobs, RecoverJob(j)
      PROVE  RunTypes'
  BY <1>2, <1>p DEF RecoverJob, SetJob
<1>3. CASE BeginResume
  BY <1>3, <1>p DEF BeginResume, JobTypes
<1>4. ASSUME NEW j \in Jobs, ResumeCheck(j)
      PROVE  RunTypes'
  BY <1>4, <1>p DEF ResumeCheck
<1>5. CASE ResumeWrite
  BY <1>5, <1>p DEF ResumeWrite, SetJob
<1>6. CASE BeginDue
  BY <1>6, <1>p DEF BeginDue
<1>7. ASSUME NEW j \in Jobs, Claim(j)
      PROVE  RunTypes'
  <2>1. CASE Running = {} /\ jstatus[j] = "pending"
    <3>1. "start" \in Places
      BY <1>p
    <3>2. run' = [run EXCEPT !.at = "start", !.job = j, !.picks = @ \ {j}]
      BY <1>7, <2>1 DEF Claim
    <3> QED
      BY <3>1, <3>2
  <2>2. CASE ~(Running = {} /\ jstatus[j] = "pending")
    BY <1>7, <2>2 DEF Claim
  <2> QED
    BY <2>1, <2>2
<1>8. CASE EndPoll
  BY <1>8, <1>p DEF EndPoll, NotRunning
<1>9. CASE Start
  <2> HIDE DEF RunTypes
  <2> QED
    BY <1>9, <1>p, <1>g, <1>d, <1>l DEF Start
<1>10. CASE HoldCampaign
  BY <1>10, <1>p DEF HoldCampaign, Goto
<1>11. CASE SelectRecipients
  BY <1>11, <1>p DEF SelectRecipients, Eligible
<1>12. CASE CheckJob
  <2> HIDE DEF RunTypes
  <2> QED
    BY <1>12, <1>p, <1>g, <1>d, <1>l DEF CheckJob, EndVerdict
<1>13. CASE Recheck
  <2> HIDE DEF RunTypes
  <2> QED
    BY <1>13, <1>p, <1>g, <1>d, <1>l DEF Recheck
<1>14. CASE CrmCheck
  BY <1>14, <1>p DEF CrmCheck
<1>15. CASE QuotaCheck
  <2> HIDE DEF RunTypes
  <2> QED
    BY <1>15, <1>p, <1>g, <1>d, <1>l DEF QuotaCheck, QuotaVerdict
<1>16. CASE PauseCampaign
  BY <1>16, <1>p DEF PauseCampaign, Decide
<1>17. CASE SendMail
  BY <1>17, <1>p DEF SendMail, Goto
<1>18. CASE InsertRow
  BY <1>18, <1>p DEF InsertRow, Goto
<1>19. CASE Record
  BY <1>19, <1>p DEF Record, AfterMail
<1>20. CASE WriteVerdict
  BY <1>20, <1>p DEF WriteVerdict, SetJob, Leave, NotRunning
<1>21. CASE TemplateGone
  BY <1>21, <1>p DEF TemplateGone, Decide
<1>22. CASE ProfileGone
  BY <1>22, <1>p DEF ProfileGone, Decide
<1>23. CASE SendFails
  BY <1>23, <1>p DEF SendFails, AfterMail
<1>24. CASE Throw
  BY <1>24, <1>p DEF Throw, Decide
<1>25. CASE Crash
  BY <1>25, <1>p DEF Crash, NotRunning
<1>26. CASE UNCHANGED run
  BY <1>26
<1> QED
  BY <1>1, <1>2, <1>3, <1>4, <1>5, <1>6, <1>7, <1>8, <1>9, <1>10, <1>11, <1>12, <1>13, <1>14,
      <1>15, <1>16, <1>17, <1>18, <1>19, <1>20, <1>21, <1>22, <1>23, <1>24, <1>25, <1>26,
      PollSteps

LEMMA RunHoldsStay ==
  ASSUME TypeInv, [Next]_vars
  PROVE  RunHolds'
<1> USE FollowUpsAssumption DEF TypeInv, TypeOK, RunHolds, InJob, InRound, Places
<1>j. run.job \in Jobs \union {NoJob} /\ run.todo \subseteq Recipients
  BY DEF RunTypes
<1>k. run'.todo = run.todo => Current' = Current
  BY DEF Current
<1>g. ASSUME NEW place \in InRound \ {"row"}, Goto(place), run.todo # {}, run.job \in Jobs PROVE RunHolds'
  BY <1>g DEF Goto, RunTypes
<1>h. ASSUME NEW place \in {"hold", "select"}, Goto(place), run.todo = {}, run.job \in Jobs PROVE RunHolds'
  BY <1>h DEF Goto, RunTypes
<1>d. ASSUME NEW v \in {"paused", "completed", "failed", "profile"}, Decide(v), run.job \in Jobs PROVE RunHolds'
  BY <1>d DEF Decide, RunTypes
<1>l. ASSUME Leave PROVE RunHolds'
  BY <1>l DEF Leave, NotRunning, RunTypes
<1>r. run.at \in InRound \union {"start", "select", "check", "quota"} => run.job \in Jobs
  OBVIOUS
<1>c. run.at \in InRound => Current \in Recipients /\ Prior[run.job] \in Steps
  BY CurrentIsToDo DEF InRound, InJob, Places, Steps, RunTypes
<1>1. CASE BeginPoll
  BY <1>1, <1>j DEF BeginPoll, NotRunning, Running, RunTypes
<1>2. ASSUME NEW j \in Jobs, RecoverJob(j)
      PROVE  RunHolds'
  BY <1>2, <1>j DEF RecoverJob, SetJob, RunTypes
<1>3. CASE BeginResume
  BY <1>3, <1>j DEF BeginResume, RunTypes
<1>4. ASSUME NEW j \in Jobs, ResumeCheck(j)
      PROVE  RunHolds'
  BY <1>4, <1>j DEF ResumeCheck, RunTypes
<1>5. CASE ResumeWrite
  BY <1>5, <1>j DEF ResumeWrite, SetJob, RunTypes
<1>6. CASE BeginDue
  BY <1>6, <1>j DEF BeginDue, RunTypes
<1>7. ASSUME NEW j \in Jobs, Claim(j)
      PROVE  RunHolds'
  <2>1. CASE Running = {} /\ jstatus[j] = "pending"
    <3>1. run' = [run EXCEPT !.at = "start", !.job = j, !.picks = @ \ {j}]
      BY <1>7, <2>1 DEF Claim
    <3> QED
      BY <1>7, <3>1 DEF Claim, RunTypes
  <2>2. CASE ~(Running = {} /\ jstatus[j] = "pending")
    BY <1>7, <2>2 DEF Claim, RunTypes
  <2> QED
    BY <2>1, <2>2
<1>8. CASE EndPoll
  BY <1>8, <1>j DEF EndPoll, NotRunning, RunTypes
<1>9. CASE Start
  <2>1. run.job \in Jobs /\ run.todo = {}
    BY <1>9, <1>r DEF Start
  <2> QED
    BY <1>9, <2>1, <1>h, <1>d DEF Start
<1>10. CASE HoldCampaign
  BY <1>10, <1>j DEF HoldCampaign, Goto, RunTypes
<1>11. CASE SelectRecipients
  BY <1>11, <1>j DEF SelectRecipients, Eligible, RunTypes
<1>12. CASE CheckJob
  <2>1. run.job \in Jobs
    BY <1>12, <1>r DEF CheckJob
  <2> QED
    BY <1>12, <2>1, <1>g, <1>d, <1>l DEF CheckJob, EndVerdict
<1>13. CASE Recheck
  <2>1. run.job \in Jobs /\ run.todo # {}
    BY <1>13, <1>r DEF Recheck
  <2> QED
    BY <1>13, <2>1, <1>g, <1>d, <1>l DEF Recheck
<1>14. CASE CrmCheck
  BY <1>14, <1>j DEF CrmCheck, RunTypes
<1>15. CASE QuotaCheck
  <2>1. run.job \in Jobs /\ run.todo # {}
    BY <1>15, <1>r DEF QuotaCheck
  <2> QED
    BY <1>15, <2>1, <1>g, <1>d, <1>l DEF QuotaCheck, QuotaVerdict
<1>16. CASE PauseCampaign
  BY <1>16, <1>j DEF PauseCampaign, Decide, RunTypes
<1>17. CASE SendMail
  BY <1>17, <1>j, <1>k, <1>c DEF SendMail, Goto, RunTypes, MailTypes
<1>18. CASE InsertRow
  BY <1>18, <1>j DEF InsertRow, Goto, RunTypes
<1>19. CASE Record
  BY <1>19, <1>j DEF Record, AfterMail, RunTypes
<1>20. CASE WriteVerdict
  BY <1>20, <1>j DEF WriteVerdict, SetJob, Leave, NotRunning, RunTypes
<1>21. CASE TemplateGone
  BY <1>21, <1>j DEF TemplateGone, Decide, RunTypes
<1>22. CASE ProfileGone
  BY <1>22, <1>j DEF ProfileGone, Decide, RunTypes
<1>23. CASE SendFails
  BY <1>23, <1>j DEF SendFails, AfterMail, RunTypes
<1>24. CASE Throw
  BY <1>24, <1>j DEF Throw, Decide, RunTypes
<1>25. CASE Crash
  BY <1>25, <1>j DEF Crash, NotRunning, RunTypes
<1>26. CASE UNCHANGED run
  <2>1. unrecorded' = unrecorded
    BY <1>26, MailSteps DEF mailVars, SendMail, InsertRow, Record, CampaignLog, Midnight, StopJob,
         ManualFollowUp, Goto, RunTypes
  <2> QED
    BY <1>26, <1>k, <2>1
<1> QED
  BY <1>1, <1>2, <1>3, <1>4, <1>5, <1>6, <1>7, <1>8, <1>9, <1>10, <1>11, <1>12, <1>13, <1>14,
      <1>15, <1>16, <1>17, <1>18, <1>19, <1>20, <1>21, <1>22, <1>23, <1>24, <1>25, <1>26,
      PollSteps
LEMMA TypeInvStay ==
  ASSUME TypeInv, [Next]_vars
  PROVE  TypeInv'
<1>1. blocked' \in SUBSET Recipients /\ requests' \in 0 .. MaxRequests /\ faults' \in 0 .. MaxFaults
  <2> USE FollowUpsAssumption
  <2>1. blocked \in SUBSET Recipients /\ requests \in 0 .. MaxRequests /\ faults \in 0 .. MaxFaults
    BY DEF TypeInv, TypeOK
  <2>2. blocked' = blocked \/ \E r \in Recipients : LeadStops(r)
    BY DEF Next, RunnerStep, vars, BeginPoll, BeginResume, ResumeWrite, BeginDue, EndPoll,
         RecoverJob, ResumeCheck, Claim, Start, HoldCampaign, SelectRecipients, CheckJob, Recheck,
         CrmCheck, QuotaCheck, PauseCampaign, SendMail, InsertRow, Record, WriteVerdict, TemplateGone,
         ProfileGone, SendFails, Throw, Crash, AskForJob, InsertJob, CancelJob, StopJob, RetryRead,
         RetryWrite, Lapse, ManualFollowUp, CampaignGoes, CampaignCompletes, CampaignPick, CampaignLog,
         OtherStarts, OtherEnds, Midnight
  <2>3. requests' = requests \/ TemplateGone \/ ProfileGone \/ Request
    BY DEF Next, RunnerStep, vars, boundVars, BeginPoll, BeginResume, ResumeWrite, BeginDue,
         EndPoll, RecoverJob, ResumeCheck, Claim, Start, HoldCampaign, SelectRecipients, CheckJob,
         Recheck, CrmCheck, QuotaCheck, PauseCampaign, SendMail, InsertRow, Record, WriteVerdict,
         SendFails, Throw, Crash, AskForJob, InsertJob, CancelJob, StopJob,
         RetryRead, RetryWrite, Lapse, ManualFollowUp, LeadStops, CampaignGoes, CampaignCompletes,
         CampaignPick, CampaignLog, OtherStarts, OtherEnds, Midnight
  <2>4. faults' = faults \/ SendFails \/ Throw \/ Crash
    BY DEF Next, RunnerStep, vars, boundVars, BeginPoll, BeginResume, ResumeWrite, BeginDue,
         EndPoll, RecoverJob, ResumeCheck, Claim, Start, HoldCampaign, SelectRecipients, CheckJob,
         Recheck, CrmCheck, QuotaCheck, PauseCampaign, SendMail, InsertRow, Record, WriteVerdict,
         TemplateGone, ProfileGone, AskForJob, InsertJob, CancelJob, StopJob,
         RetryRead, RetryWrite, Lapse, ManualFollowUp, LeadStops, CampaignGoes, CampaignCompletes,
         CampaignPick, CampaignLog, OtherStarts, OtherEnds, Midnight
  <2>5. requests' = requests \/ (requests < MaxRequests /\ requests' = requests + 1)
    <3>1. CASE TemplateGone \/ ProfileGone
      BY <3>1 DEF TemplateGone, ProfileGone
    <3>2. CASE Request
      BY <3>2 DEF Request
    <3> QED
      BY <2>3, <3>1, <3>2
  <2>6. faults' = faults \/ (faults < MaxFaults /\ faults' = faults + 1)
    <3>1. CASE SendFails
      BY <3>1 DEF SendFails
    <3>2. CASE Throw \/ Crash
      BY <3>2 DEF Throw, Crash
    <3> QED
      BY <2>4, <3>1, <3>2
  <2>7. MaxRequests \in Nat /\ MaxFaults \in Nat
    OBVIOUS
  <2>8. blocked' \in SUBSET Recipients
    BY <2>1, <2>2 DEF LeadStops
  <2>9. requests' \in 0 .. MaxRequests /\ faults' \in 0 .. MaxFaults
    BY <2>1, <2>5, <2>6, <2>7
  <2> QED
    BY <2>8, <2>9
<1>2. day' \in 0 .. Week - 1
  <2>1. day' = day \/ day' = (day + 1) % Week
    BY DEF Next, RunnerStep, vars, BeginPoll, BeginResume, ResumeWrite, BeginDue, EndPoll,
         RecoverJob, ResumeCheck, Claim, Start, HoldCampaign, SelectRecipients, CheckJob, Recheck,
         CrmCheck, QuotaCheck, PauseCampaign, SendMail, InsertRow, Record, WriteVerdict, TemplateGone,
         ProfileGone, SendFails, Throw, Crash, AskForJob, InsertJob, CancelJob, StopJob, RetryRead,
         RetryWrite, Lapse, ManualFollowUp, LeadStops, CampaignGoes, CampaignCompletes, CampaignPick,
         CampaignLog, OtherStarts, OtherEnds, Midnight
  <2>2. day \in 0 .. Week - 1 /\ Week \in Nat \ {0}
    BY FollowUpsAssumption DEF TypeInv, TypeOK
  <2>3. (day + 1) % Week \in 0 .. Week - 1
    BY <2>2
  <2> QED
    BY <2>1, <2>2, <2>3
<1>3. TypeOK'
  BY <1>1, <1>2, JobTypesStay, CampaignTypesStay, MailTypesStay, RunTypesStay DEF TypeOK
<1> QED
  BY <1>3, RunHoldsStay DEF TypeInv

\* In every reachable state every variable has its type, for any number of jobs, recipients,
\* requests and crashes: a round of the loop has a job and a recipient.
THEOREM TypeCorrect == Spec => []TypeOK
<1>1. TypeInv /\ [Next]_vars => TypeInv'
  BY TypeInvStay
<1>2. TypeInv => TypeOK
  BY DEF TypeInv
<1> QED
  BY <1>1, <1>2, TypeInvInit, PTL DEF Spec

-----------------------------------------------------------------------------
(* Mails of a step of the sequence *)

\* What a recipient is owed no more: at most one mail of a step has its row, and a mail with a
\* row has moved the recipient beyond the step.
Recorded ==
  \A n \in Steps, r \in Recipients :
    /\ unrecorded[n][r] <= mails[n][r] /\ mails[n][r] <= 1 + unrecorded[n][r]
    /\ mails[n][r] > unrecorded[n][r] => rows[r] > n

\* Whoever a running job has still to do has no recorded mail of its step, although the
\* recipients were selected once; the recipient just recorded is the exception.
ToDoUnmailed ==
  \A r \in run.todo :
    /\ rows[r] >= Prior[run.job]
    /\ \/ run.at = "record" /\ r = Current
       \/ mails[Prior[run.job]][r] = unrecorded[Prior[run.job]][r]

MailsInv == Recorded /\ ToDoUnmailed

\* A row is written for one recipient at a time, and follow-up counts only grow.
LEMMA RecordedStays ==
  ASSUME TypeInv, MailsInv, [Next]_vars
  PROVE  Recorded'
<1> USE FollowUpsAssumption DEF TypeInv, TypeOK, MailTypes, Steps
<1>c. run.at \in InRound => Current \in run.todo /\ run.todo \subseteq Recipients /\ run.job \in Jobs
  BY CurrentIsToDo DEF RunHolds, RunTypes, InRound, InJob, Places
<1>1. CASE SendMail
  <2>1. Current \in Recipients /\ run.job \in Jobs
    BY <1>1, <1>c DEF SendMail, InRound
  <2> QED
    BY <1>1, <2>1 DEF SendMail, MailsInv, Recorded
<1>2. CASE InsertRow
  <2>1. Current \in run.todo /\ Current \in Recipients /\ run.job \in Jobs /\ run.at = "row"
    BY <1>2, <1>c DEF InsertRow, InRound
  <2>2. /\ rows[Current] >= Prior[run.job]
        /\ mails[Prior[run.job]][Current] = unrecorded[Prior[run.job]][Current]
        /\ unrecorded[Prior[run.job]][Current] > 0
    BY <2>1 DEF MailsInv, ToDoUnmailed, RunHolds
  <2> QED
    BY <1>2, <2>1, <2>2 DEF InsertRow, MailsInv, Recorded
<1>3. ASSUME NEW r \in Recipients, ManualFollowUp(r)
      PROVE  Recorded'
  BY <1>3 DEF ManualFollowUp, MailsInv, Recorded
<1>4. CASE UNCHANGED <<rows, mails, unrecorded>>
  BY <1>4 DEF MailsInv, Recorded
<1> QED
  BY <1>1, <1>2, <1>3, <1>4, MailSteps DEF mailVars, Record, CampaignLog, Midnight, StopJob

\* What is left to do of a round that writes no row is as unmailed as it was.
LEMMA LeftToDo ==
  ASSUME ToDoUnmailed, run'.todo \subseteq run.todo, run'.job = run.job \/ run'.todo = {},
         run.at # "record" \/ Current \notin run'.todo, UNCHANGED <<rows, mails, unrecorded>>
  PROVE  ToDoUnmailed'
  BY DEF ToDoUnmailed

\* The poll takes a recipient off its list with the step that records the mail.
LEMMA ToDoStays ==
  ASSUME TypeInv, MailsInv, [Next]_vars
  PROVE  ToDoUnmailed'
<1> USE DEF MailsInv
<1>t. /\ run.todo \subseteq Recipients
      /\ run.todo # {} => Current \in run.todo /\ run.job \in Jobs
      /\ Prior \in [Jobs -> Nat] /\ rows \in [Recipients -> Nat]
      /\ mails \in [Steps -> [Recipients -> Nat]] /\ unrecorded \in [Steps -> [Recipients -> Nat]]
      /\ \A j \in Jobs : Prior[j] \in Steps
  BY CurrentIsToDo, FollowUpsAssumption
  DEF TypeInv, TypeOK, RunHolds, RunTypes, MailTypes, InJob, InRound, Places, Steps
<1>k. run'.todo = run.todo => Current' = Current
  BY DEF Current
<1>q. run = [at |-> run.at, job |-> run.job, picks |-> run.picks, todo |-> run.todo, first |-> run.first,
             any |-> run.any, sentOk |-> run.sentOk, failed |-> run.failed, verdict |-> run.verdict]
  BY DEF TypeInv, TypeOK, RunTypes
<1>1. CASE SendMail
  <2>1. run.job \in Jobs /\ Current \in Recipients /\ run.at = "send"
    BY <1>1, <1>t DEF SendMail, TypeInv, RunHolds, InRound
  <2>2. run'.todo = run.todo /\ run'.job = run.job /\ rows' = rows
    BY <1>1, <1>q DEF SendMail, Goto
  <2>3. /\ mails' = [mails EXCEPT ![Prior[run.job]][Current] = @ + 1]
        /\ unrecorded' = [unrecorded EXCEPT ![Prior[run.job]][Current] = @ + 1]
    BY <1>1 DEF SendMail
  <2>4. \A r \in run.todo : mails[Prior[run.job]][r] = unrecorded[Prior[run.job]][r]
    BY <2>1 DEF ToDoUnmailed
  <2> QED
    BY <1>t, <2>1, <2>2, <2>3, <2>4 DEF ToDoUnmailed
<1>2. CASE InsertRow
  <2>1. run.job \in Jobs /\ Current \in Recipients /\ run.at = "row"
    BY <1>2, <1>t DEF InsertRow, TypeInv, RunHolds, InRound
  <2>2. run'.todo = run.todo /\ run'.job = run.job /\ run'.at = "record" /\ Current' = Current /\ mails' = mails
    BY <1>2, <1>k, <1>q DEF InsertRow, Goto
  <2>3. /\ rows' = [rows EXCEPT ![Current] = @ + 1]
        /\ unrecorded' = [unrecorded EXCEPT ![Prior[run.job]][Current] = @ - 1]
    BY <1>2 DEF InsertRow
  <2>4. \A r \in run.todo : mails[Prior[run.job]][r] = unrecorded[Prior[run.job]][r]
    BY <2>1 DEF ToDoUnmailed
  <2> QED
    BY <1>t, <2>1, <2>2, <2>3, <2>4 DEF ToDoUnmailed
<1>3. CASE SelectRecipients
  <2>1. /\ run'.todo = Eligible(run.job) /\ run'.job = run.job /\ run.job \in Jobs
        /\ UNCHANGED <<rows, mails, unrecorded>>
    BY <1>3, <1>q DEF SelectRecipients, mailVars, TypeInv, RunHolds, InJob, Places
  <2>2. \A r \in Eligible(run.job) : r \in Recipients /\ rows[r] = Prior[run.job]
    BY DEF Eligible
  <2>3. \A r \in Eligible(run.job) : mails[Prior[run.job]][r] = unrecorded[Prior[run.job]][r]
    <3> SUFFICES ASSUME NEW r \in Eligible(run.job)
                 PROVE  mails[Prior[run.job]][r] = unrecorded[Prior[run.job]][r]
      OBVIOUS
    <3>1. /\ unrecorded[Prior[run.job]][r] <= mails[Prior[run.job]][r]
          /\ mails[Prior[run.job]][r] > unrecorded[Prior[run.job]][r] => rows[r] > Prior[run.job]
      BY <1>t, <2>1, <2>2 DEF Recorded
    <3>2. /\ mails[Prior[run.job]][r] \in Nat /\ unrecorded[Prior[run.job]][r] \in Nat
          /\ rows[r] = Prior[run.job] /\ Prior[run.job] \in Nat
      BY <1>t, <2>1, <2>2
    <3> QED
      BY <3>1, <3>2
  <2>4. \A r \in Eligible(run.job) : rows[r] >= Prior[run.job]
    BY <1>t, <2>1, <2>2
  <2> QED
    BY <2>1, <2>3, <2>4 DEF ToDoUnmailed
<1>4. ASSUME NEW r \in Recipients, ManualFollowUp(r)
      PROVE  ToDoUnmailed'
  <2>1. rows' = [rows EXCEPT ![r] = @ + 1] /\ UNCHANGED <<mails, unrecorded, run>>
    BY <1>4 DEF ManualFollowUp
  <2> QED
    BY <1>k, <1>t, <2>1 DEF ToDoUnmailed
<1>5. CASE UNCHANGED <<rows, mails, unrecorded>> /\ ~SelectRecipients
  <2>1. CASE UNCHANGED run
    BY <1>5, <1>k, <2>1 DEF ToDoUnmailed
  <2>2. CASE Record \/ SendFails
    <3>1. run'.todo = run.todo \ {Current} /\ run'.job = run.job
      BY <2>2, <1>q DEF Record, SendFails, AfterMail
    <3> QED
      BY <1>5, <3>1, LeftToDo
  <2>3. CASE CrmCheck
    BY <1>5, <1>q, <2>3, LeftToDo DEF CrmCheck
  <2>4. CASE CheckJob \/ Recheck \/ QuotaCheck \/ PauseCampaign \/ TemplateGone \/ ProfileGone \/ Throw
               \/ Start \/ HoldCampaign
    <3>1. run'.todo = {} \/ (run'.todo = run.todo /\ run'.job = run.job /\ run.at # "record")
      BY <1>q, <2>4 DEF CheckJob, Recheck, QuotaCheck, QuotaVerdict, PauseCampaign, TemplateGone,
           ProfileGone, Throw, Start, HoldCampaign, Goto, Decide, Leave, NotRunning
    <3> QED
      BY <1>5, <3>1, LeftToDo
  <2>5. CASE BeginPoll \/ EndPoll \/ WriteVerdict \/ Crash
    <3>1. run'.todo = {}
      <4>1. CASE BeginPoll
        BY <4>1 DEF BeginPoll, NotRunning
      <4>2. CASE WriteVerdict
        BY <4>2 DEF WriteVerdict, Leave, NotRunning
      <4>3. CASE EndPoll \/ Crash
        BY <4>3 DEF EndPoll, Crash, NotRunning
      <4> QED
        BY <2>5, <4>1, <4>2, <4>3
    <3> QED
      BY <3>1 DEF ToDoUnmailed
  <2>6. CASE BeginResume \/ ResumeWrite \/ BeginDue \/ \E j \in Jobs : RecoverJob(j) \/ ResumeCheck(j) \/ Claim(j)
    <3>1. run.at \in {"recover", "resume", "resumeWrite", "due"}
      BY <2>6 DEF BeginResume, ResumeWrite, BeginDue, RecoverJob, ResumeCheck, Claim
    <3>2. run.todo = {}
      BY <3>1 DEF TypeInv, RunHolds, InRound
    <3>3. run'.todo = run.todo
      BY <1>q, <2>6 DEF BeginResume, ResumeWrite, BeginDue, RecoverJob, ResumeCheck, Claim
    <3> QED
      BY <3>2, <3>3 DEF ToDoUnmailed
  <2>7. CASE SendMail \/ InsertRow
    BY <1>1, <1>2, <2>7
  <2> QED
    BY <1>5, <2>1, <2>2, <2>3, <2>4, <2>5, <2>6, <2>7, PollSteps
<1>6. UNCHANGED <<rows, mails, unrecorded>> \/ SendMail \/ InsertRow \/ \E r \in Recipients : ManualFollowUp(r)
  BY MailSteps DEF mailVars, Record, CampaignLog, Midnight, StopJob
<1> QED
  BY <1>1, <1>2, <1>3, <1>4, <1>5, <1>6

LEMMA MailsInvInit == Init => MailsInv
  BY DEF Init, NotRunning, MailsInv, Recorded, ToDoUnmailed

-----------------------------------------------------------------------------
(* Mails after a stop *)

\* From a look at the job's row to the message, the row can be stopped; the first mail after
\* that has not gone out yet.
StopInv ==
  \A j \in Jobs :
    /\ afterStop[j] <= 1
    /\ run.job = j /\ run.at \in {"crm", "quota", "send"} /\ jstatus[j] = "stopped" => afterStop[j] = 0

\* Only the stop of the user sets a row to stopped.
LEMMA OnlyStopStops ==
  ASSUME TypeInv, [Next]_vars, NEW j \in Jobs, jstatus[j]' = "stopped", ~StopJob(j)
  PROVE  jstatus[j] = "stopped"
<1> USE DEF TypeInv, TypeOK, JobTypes
<1>1. CASE ResumeWrite
  BY <1>1 DEF ResumeWrite, SetJob
<1>2. CASE WriteVerdict
  <2>1. run.verdict # "stopped"
    BY DEF RunTypes
  <2> QED
    BY <1>2, <2>1 DEF WriteVerdict, SetJob
<1>3. CASE Midnight
  BY <1>3 DEF Midnight
<1>4. ASSUME NEW i \in Jobs,
             RecoverJob(i) \/ Claim(i) \/ AskForJob(i) \/ InsertJob(i) \/ CancelJob(i) \/ RetryRead(i)
               \/ RetryWrite(i) \/ Lapse(i)
      PROVE  jstatus[j] = "stopped"
  BY <1>4 DEF RecoverJob, SetJob, Claim, AskForJob, InsertJob, CancelJob, RetryRead, RetryWrite, Lapse
<1>5. ASSUME NEW i \in Jobs, StopJob(i)
      PROVE  jstatus[j] = "stopped"
  BY <1>5 DEF StopJob
<1>6. CASE UNCHANGED jobVars
  BY <1>6 DEF jobVars
<1> QED
  BY <1>1, <1>2, <1>3, <1>4, <1>5, <1>6, JobSteps

\* The round of a recipient begins with a look at the row of the job.
LEMMA RoundBegins ==
  ASSUME TypeInv, [Next]_vars, run'.at \in {"crm", "quota", "send"}
  PROVE  \/ run'.job = run.job /\ run.at \in {"crm", "quota", "send"}
         \/ jstatus[run'.job] = "running" /\ UNCHANGED jobVars
<1>q. run = [at |-> run.at, job |-> run.job, picks |-> run.picks, todo |-> run.todo, first |-> run.first,
             any |-> run.any, sentOk |-> run.sentOk, failed |-> run.failed, verdict |-> run.verdict]
  BY DEF TypeInv, TypeOK, RunTypes
<1>1. CASE CheckJob
  BY <1>1, <1>q DEF CheckJob, Goto, Decide, Leave, NotRunning, StillRunning
<1>2. CASE Recheck
  BY <1>2, <1>q DEF Recheck, Goto, Decide, Leave, NotRunning, StillRunning
<1>3. CASE CrmCheck
  BY <1>3, <1>q DEF CrmCheck
<1>4. CASE QuotaCheck
  BY <1>4, <1>q DEF QuotaCheck, QuotaVerdict, Goto, Decide
<1>5. CASE \/ Start \/ HoldCampaign \/ SelectRecipients \/ PauseCampaign \/ SendMail \/ InsertRow
           \/ Record \/ TemplateGone \/ ProfileGone \/ SendFails \/ Throw
  BY <1>5, <1>q DEF Start, HoldCampaign, SelectRecipients, PauseCampaign, SendMail, InsertRow, Record,
       TemplateGone, ProfileGone, SendFails, Throw, Goto, Decide, AfterMail
<1>6. CASE BeginResume \/ ResumeWrite \/ BeginDue
  BY <1>6, <1>q DEF BeginResume, ResumeWrite, BeginDue
<1>11. CASE EndPoll \/ Crash
  BY <1>11 DEF EndPoll, Crash, NotRunning
<1>9. CASE BeginPoll
  BY <1>9 DEF BeginPoll, NotRunning
<1>10. CASE WriteVerdict
  BY <1>10 DEF WriteVerdict, Leave, NotRunning
<1>7. ASSUME NEW j \in Jobs, RecoverJob(j) \/ ResumeCheck(j) \/ Claim(j)
      PROVE  FALSE
  BY <1>7, <1>q DEF RecoverJob, ResumeCheck, Claim
<1>8. CASE UNCHANGED run
  BY <1>8
<1> QED
  BY <1>1, <1>2, <1>3, <1>4, <1>5, <1>6, <1>7, <1>8, <1>9, <1>10, <1>11, PollSteps

LEMMA StopInvStep ==
  ASSUME TypeInv, StopInv, [Next]_vars
  PROVE  StopInv'
<1> SUFFICES ASSUME NEW j \in Jobs
             PROVE  /\ afterStop'[j] <= 1
                    /\ run'.job = j /\ run'.at \in {"crm", "quota", "send"} /\ jstatus'[j] = "stopped"
                         => afterStop'[j] = 0
  BY DEF StopInv
<1>t. afterStop \in [Jobs -> Nat]
  BY DEF TypeInv, TypeOK, MailTypes
<1>1. CASE StopJob(j)
  BY <1>1, <1>t DEF StopJob
<1>2. CASE SendMail
  <2>1. run.job \in Jobs /\ run.at = "send" /\ run'.at = "row" /\ jstatus' = jstatus
    BY <1>2 DEF SendMail, Goto, jobVars, TypeInv, TypeOK, RunHolds, RunTypes, InJob, Places
  <2>2. jstatus[run.job] = "stopped" => afterStop[run.job] = 0
    BY <2>1 DEF StopInv
  <2>3. afterStop'[j] <= 1
    BY <1>2, <1>t, <2>1, <2>2 DEF SendMail, StopInv
  <2> QED
    BY <2>1, <2>3
<1>3. CASE ~StopJob(j) /\ ~SendMail
  <2>1. afterStop'[j] = afterStop[j]
    BY <1>3, <1>t, MailSteps DEF mailVars, InsertRow, Record, CampaignLog, Midnight, ManualFollowUp, StopJob
  <2>2. ASSUME run'.job = j, run'.at \in {"crm", "quota", "send"}, jstatus'[j] = "stopped"
        PROVE  afterStop'[j] = 0
    <3>1. jstatus[j] = "stopped"
      BY <1>3, <2>2, OnlyStopStops
    <3>2. run.job = j /\ run.at \in {"crm", "quota", "send"}
      BY <2>2, <3>1, RoundBegins
    <3> QED
      BY <2>1, <3>1, <3>2 DEF StopInv
  <2>3. afterStop[j] <= 1
    BY DEF StopInv
  <2> QED
    BY <2>1, <2>2, <2>3
<1> QED
  BY <1>1, <1>2, <1>3

\* No mail of a step goes out twice but for one whose row was not written, and after a stop at
\* most the mail in hand goes out.
THEOREM OnlyAskedMails == Spec => []NoExtraMails
<1>1. Init => TypeInv /\ MailsInv /\ StopInv
  BY TypeInvInit, MailsInvInit DEF Init, StopInv
<1>2. TypeInv /\ MailsInv /\ StopInv /\ [Next]_vars => TypeInv' /\ MailsInv' /\ StopInv'
  BY TypeInvStay, RecordedStays, ToDoStays, StopInvStep DEF MailsInv
<1>3. MailsInv /\ StopInv => NoExtraMails
  BY DEF MailsInv, Recorded, StopInv, NoExtraMails, RepeatNeedsLostRow, OneMailAfterStop
<1> QED
  BY <1>1, <1>2, <1>3, PTL DEF Spec

-----------------------------------------------------------------------------
(* The daily limit of the account *)

AsOne(b) == IF b THEN 1 ELSE 0
JobSends == run.at \in {"send", "row", "record"}

\* The campaign's task and the job each look at the count once, and log their mail later: what
\* both have in hand counts as well, and nothing is in hand under a limit of 0.
LimitInv ==
  /\ counted + AsOne(inHand) + AsOne(JobSends) <= SmtpCap + 1
  /\ inHand \/ JobSends => SmtpCap > 0

\* A job begins to send under the limit, and a mail of its own comes out of its hand as it is
\* logged.
LEMMA JobBegins ==
  ASSUME TypeInv, [Next]_vars, JobSends', ~JobSends
  PROVE  QuotaCheck /\ ~Full
<1>q. run = [at |-> run.at, job |-> run.job, picks |-> run.picks, todo |-> run.todo, first |-> run.first,
             any |-> run.any, sentOk |-> run.sentOk, failed |-> run.failed, verdict |-> run.verdict]
  BY DEF TypeInv, TypeOK, RunTypes
<1> USE DEF JobSends
<1>1. CASE QuotaCheck
  BY <1>1, <1>q DEF QuotaCheck, QuotaVerdict, Goto, Decide
<1>2. CASE CheckJob \/ Recheck
  <2>1. run'.at \in {"write", "due", "wait", "crm", "delay"}
    BY <1>2, <1>q DEF CheckJob, Recheck, Goto, Decide, Leave, NotRunning
  <2> QED
    BY <2>1
<1>3. CASE Start \/ HoldCampaign \/ SelectRecipients \/ CrmCheck \/ PauseCampaign
  BY <1>3, <1>q DEF Start, HoldCampaign, SelectRecipients, CrmCheck, PauseCampaign, Goto, Decide
<1>4. CASE SendMail \/ InsertRow \/ Record \/ SendFails
  BY <1>4 DEF SendMail, InsertRow, Record, SendFails
<1>5. CASE TemplateGone \/ ProfileGone \/ Throw
  BY <1>5, <1>q DEF TemplateGone, ProfileGone, Throw, Decide
<1>6. CASE BeginResume \/ ResumeWrite \/ BeginDue
  BY <1>6, <1>q DEF BeginResume, ResumeWrite, BeginDue
<1>11. CASE EndPoll \/ Crash
  BY <1>11 DEF EndPoll, Crash, NotRunning
<1>7. CASE BeginPoll
  BY <1>7 DEF BeginPoll, NotRunning
<1>8. CASE WriteVerdict
  BY <1>8 DEF WriteVerdict, Leave, NotRunning
<1>9. ASSUME NEW j \in Jobs, RecoverJob(j) \/ ResumeCheck(j) \/ Claim(j)
      PROVE  FALSE
  BY <1>9, <1>q DEF RecoverJob, ResumeCheck, Claim
<1>10. CASE UNCHANGED run
  BY <1>10
<1> QED
  BY <1>1, <1>2, <1>3, <1>4, <1>5, <1>6, <1>7, <1>8, <1>9, <1>10, <1>11, PollSteps

LEMMA LimitInvStep ==
  ASSUME TypeInv, LimitInv, [Next]_vars
  PROVE  LimitInv'
<1>t. SmtpCap \in Nat /\ counted \in Nat /\ inHand \in BOOLEAN /\ JobSends \in BOOLEAN
  BY FollowUpsAssumption DEF TypeInv, TypeOK, MailTypes, CampaignTypes, JobSends
<1>1. CASE Record
  <2>1. counted' = counted + 1 /\ inHand' = inHand /\ JobSends
    BY <1>1 DEF Record, JobSends, campaignVars
  <2>2. ~JobSends'
    BY <1>1 DEF Record, AfterMail, JobSends, TypeInv, TypeOK, RunTypes
  <2> QED
    BY <1>t, <2>1, <2>2 DEF LimitInv, AsOne
<1>2. CASE CampaignLog
  <2>1. counted' = counted + 1 /\ inHand = TRUE /\ inHand' = FALSE /\ JobSends' = JobSends
    BY <1>2, <1>t DEF CampaignLog, JobSends
  <2> QED
    BY <1>t, <2>1 DEF LimitInv, AsOne
<1>3. CASE Midnight
  <2>1. counted' = 0 /\ inHand' = inHand /\ JobSends' = JobSends
    BY <1>3 DEF Midnight, JobSends, campaignVars
  <2> QED
    BY <1>t, <2>1 DEF LimitInv, AsOne
<1>4. CASE CampaignPick
  <2>1. counted' = counted /\ counted < SmtpCap /\ inHand = FALSE /\ inHand' = TRUE /\ JobSends' = JobSends
    BY <1>4, <1>t DEF CampaignPick, mailVars, JobSends, Full
  <2> QED
    BY <1>t, <2>1 DEF LimitInv, AsOne
<1>5. CASE ~Record /\ ~CampaignLog /\ ~Midnight /\ ~CampaignPick
  <2>1. counted' = counted
    BY <1>5, MailSteps DEF mailVars, SendMail, InsertRow, StopJob, ManualFollowUp
  <2>2. inHand' = inHand
    BY <1>5, CampaignSteps DEF campaignVars, HoldCampaign, PauseCampaign, CampaignGoes,
         CampaignCompletes, OtherStarts, OtherEnds
  <2>3. CASE JobSends' /\ ~JobSends
    <3>1. counted < SmtpCap
      BY <1>t, <2>3, JobBegins DEF Full
    <3> QED
      BY <1>t, <2>1, <2>2, <2>3, <3>1 DEF LimitInv, AsOne
  <2>4. CASE JobSends' => JobSends
    BY <1>t, <2>1, <2>2, <2>4 DEF LimitInv, AsOne
  <2> QED
    BY <2>3, <2>4
<1> QED
  BY <1>1, <1>2, <1>3, <1>4, <1>5

\* Whatever the order of the two counts and the two entries, midnights between them included, a
\* job and its campaign log at most one mail beyond the daily limit of the account.
THEOREM LimitHolds == Spec => []LimitExceededByOne
<1>1. Init => TypeInv /\ LimitInv
  <2>1. Init => LimitInv
    BY FollowUpsAssumption DEF Init, LimitInv, AsOne, JobSends, NotRunning
  <2> QED
    BY <2>1, TypeInvInit
<1>2. TypeInv /\ LimitInv /\ [Next]_vars => TypeInv' /\ LimitInv'
  BY TypeInvStay, LimitInvStep
<1>3. TypeInv /\ LimitInv => LimitExceededByOne
  BY FollowUpsAssumption DEF TypeInv, TypeOK, MailTypes, LimitInv, AsOne, LimitExceededByOne
<1> QED
  BY <1>1, <1>2, <1>3, PTL DEF Spec

-----------------------------------------------------------------------------
(* The delivery of the steps of a sequence *)

Letters == Steps \X Recipients
StageOf(l) == Stage(l[1], l[2])
Unwritten(l) == unrecorded[l[1]][l[2]]
Lost(l) == Unwritten(l) - IF StageOf(l) = "mailed" THEN 1 ELSE 0

LEMMA LetterTypes ==
  ASSUME TypeInv, NEW l \in Letters
  PROVE  /\ l = <<l[1], l[2]>> /\ l[1] \in Steps /\ l[2] \in Recipients /\ l[1] \in Nat
         /\ Unwritten(l) \in Nat /\ mails[l[1]][l[2]] \in Nat /\ rows[l[2]] \in Nat
         /\ StageOf(l) \in {"taken", "mailed", "closed", "waiting"}
<1>1. l = <<l[1], l[2]>> /\ l[1] \in Steps /\ l[2] \in Recipients
  BY DEF Letters
<1>2. l[1] \in Nat
  BY <1>1, FollowUpsAssumption DEF Steps
<1>3. mails[l[1]][l[2]] \in Nat /\ unrecorded[l[1]][l[2]] \in Nat /\ rows[l[2]] \in Nat
  BY <1>1 DEF TypeInv, TypeOK, MailTypes
<1>4. StageOf(l) \in {"taken", "mailed", "closed", "waiting"}
  BY DEF StageOf, Stage
<1> QED
  BY <1>1, <1>2, <1>3, <1>4 DEF Unwritten

\* Letters let go of make a step of the delivery.
LEMMA Releasing ==
  ASSUME TypeInv, TypeInv', UNCHANGED <<mails, unrecorded>>, NEW S \in SUBSET Letters,
         \A l \in S : StageOf(l) \in {"taken", "mailed"} /\ StageOf(l)' \in {"waiting", "closed"},
         \A l \in Letters \ S : StageOf(l)' = StageOf(l)
  PROVE  StepsDelivered!DeliveryNext
<1>1. \A l \in Letters : StageOf(l)' \in {"taken", "mailed", "closed", "waiting"}
  BY LetterTypes DEF StageOf, Stage
<1>2. \A l \in Letters : Lost(l)' = IF l \in S /\ StageOf(l) = "mailed" THEN Lost(l) + 1 ELSE Lost(l)
  <2> SUFFICES ASSUME NEW l \in Letters
               PROVE  Lost(l)' = IF l \in S /\ StageOf(l) = "mailed" THEN Lost(l) + 1 ELSE Lost(l)
    OBVIOUS
  <2>1. Unwritten(l)' = Unwritten(l) /\ Unwritten(l) \in Nat
    BY LetterTypes DEF Unwritten
  <2>2. StageOf(l)' = StageOf(l) \/ (l \in S /\ StageOf(l)' # "mailed")
    OBVIOUS
  <2> QED
    BY <2>1, <2>2 DEF Lost
<1>3. StepsDelivered!Release(S)
  BY <1>1, <1>2 DEF StepsDelivered!Release, StepsDelivered!Stages, StageOf, Lost, Unwritten, Letters
<1> QED
  BY <1>3 DEF StepsDelivered!DeliveryNext, Letters

\* So do letters that are closed.
LEMMA Closing ==
  ASSUME TypeInv, TypeInv', UNCHANGED mails,
         \A l \in Letters : Lost(l)' = Lost(l) /\ (StageOf(l)' = StageOf(l) \/ StageOf(l)' = "closed")
  PROVE  StepsDelivered!DeliveryNext
<1>1. \A l \in Letters : StageOf(l) # "none" /\ StageOf(l)' \in {"taken", "mailed", "closed", "waiting"}
  BY LetterTypes DEF StageOf, Stage
<1>2. StepsDelivered!Close
  BY <1>1 DEF StepsDelivered!Close, StepsDelivered!Stages, StageOf, Lost, Unwritten, Letters
<1> QED
  BY <1>2 DEF StepsDelivered!DeliveryNext

\* What the poll lets go of: it leaves the round of a recipient, or all that is left to do.
LEMMA Leaving ==
  ASSUME TypeInv, TypeInv', UNCHANGED <<rows, mails, unrecorded>>, run'.todo \subseteq run.todo,
         run'.job = run.job \/ run'.todo = {}, run'.at \notin {"row", "record"},
         run.at \in {"row", "record"} => Current \notin run'.todo
  PROVE  StepsDelivered!DeliveryNext
<1>1. ASSUME NEW l \in Letters
      PROVE  \/ StageOf(l)' = StageOf(l)
             \/ StageOf(l) \in {"taken", "mailed"} /\ StageOf(l)' \in {"waiting", "closed"}
  <2>1. CASE Assigned(l[1], l[2])'
    <3>1. Assigned(l[1], l[2]) /\ (run.at \in {"row", "record"} => l[2] # Current)
      BY <2>1 DEF Assigned
    <3>2. StageOf(l) = "taken"
      BY <3>1 DEF StageOf, Stage
    <3>3. StageOf(l)' = "taken"
      BY <2>1 DEF StageOf, Stage
    <3> QED
      BY <3>2, <3>3
  <2>2. CASE ~Assigned(l[1], l[2])'
    BY <2>2 DEF StageOf, Stage
  <2> QED
    BY <2>1, <2>2
<1>2. PICK S \in SUBSET Letters : S = {l \in Letters : StageOf(l)' # StageOf(l)}
  OBVIOUS
<1>3. \A l \in S : StageOf(l) \in {"taken", "mailed"} /\ StageOf(l)' \in {"waiting", "closed"}
  BY <1>1, <1>2
<1>4. \A l \in Letters \ S : StageOf(l)' = StageOf(l)
  BY <1>2
<1> QED
  BY <1>3, <1>4, Releasing

\* The recipients selected are taken for the step of the job; none of them has had it.
LEMMA SelectTakes ==
  ASSUME TypeInv, TypeInv', SelectRecipients
  PROVE  StepsDelivered!DeliveryNext
<1>1. /\ run.job \in Jobs /\ run.todo = {} /\ run.at = "select"
      /\ run' = [run EXCEPT !.at = "check", !.todo = Eligible(run.job), !.any = Eligible(run.job) # {}]
      /\ UNCHANGED <<rows, mails, unrecorded>>
  BY DEF SelectRecipients, mailVars, TypeInv, RunHolds, InJob, InRound, Places
<1>q. run = [at |-> run.at, job |-> run.job, picks |-> run.picks, todo |-> run.todo, first |-> run.first,
             any |-> run.any, sentOk |-> run.sentOk, failed |-> run.failed, verdict |-> run.verdict]
  BY DEF TypeInv, TypeOK, RunTypes
<1>2. run'.todo = Eligible(run.job) /\ run'.job = run.job /\ run'.at = "check"
  BY <1>1, <1>q
<1>3. PICK n \in Steps, E \in SUBSET Recipients : n = Prior[run.job] /\ E = Eligible(run.job)
  BY <1>1 DEF Steps, Eligible
<1>4. PICK S \in SUBSET Letters : S = {l \in Letters : l[1] = n /\ l[2] \in E}
  OBVIOUS
<1>5. ASSUME NEW l \in Letters
      PROVE  /\ StageOf(l)' = IF l \in S THEN "taken" ELSE StageOf(l)
             /\ l \in S => StageOf(l) = "waiting"
             /\ Lost(l)' = Lost(l)
  <2>1. l = <<l[1], l[2]>> /\ l[1] \in Nat /\ rows[l[2]] \in Nat /\ l[2] \in Recipients
    BY LetterTypes DEF TypeInv
  <2>2. l \in S <=> l[2] \in E /\ l[1] = n
    BY <1>4, <2>1
  <2>3. Assigned(l[1], l[2])' <=> l \in S
    BY <1>2, <1>3, <2>2 DEF Assigned
  <2>4. StageOf(l) = IF rows[l[2]] > l[1] THEN "closed" ELSE "waiting"
    BY <1>1 DEF StageOf, Stage, Assigned
  <2>5. StageOf(l)' = IF l \in S THEN "taken" ELSE StageOf(l)
    BY <1>1, <1>2, <2>3, <2>4 DEF StageOf, Stage
  <2>6. l \in S => rows[l[2]] = l[1]
    BY <1>3, <2>2 DEF Eligible
  <2>7. l \in S => StageOf(l) = "waiting"
    BY <2>1, <2>4, <2>6
  <2>8. Lost(l)' = Lost(l)
    BY <1>1, <2>4, <2>5 DEF Lost, Unwritten
  <2> QED
    BY <2>5, <2>7, <2>8
<1>6. StepsDelivered!Take(S)
  BY <1>1, <1>5 DEF StepsDelivered!Take, Letters, StageOf, Lost, Unwritten
<1> QED
  BY <1>6 DEF StepsDelivered!DeliveryNext, Letters

\* The mail goes out to the recipient in hand; its row is still to be written.
LEMMA SendDelivers ==
  ASSUME TypeInv, TypeInv', SendMail
  PROVE  StepsDelivered!DeliveryNext
<1>1. Current \in run.todo /\ Current \in Recipients /\ run.job \in Jobs /\ run.at = "send"
  BY CurrentIsToDo DEF SendMail, TypeInv, TypeOK, RunTypes, RunHolds, InRound, InJob, Places
<1>2. /\ run' = [run EXCEPT !.at = "row"] /\ UNCHANGED rows
      /\ mails' = [mails EXCEPT ![Prior[run.job]][Current] = @ + 1]
      /\ unrecorded' = [unrecorded EXCEPT ![Prior[run.job]][Current] = @ + 1]
  BY DEF SendMail, Goto
<1>3. run'.todo = run.todo /\ run'.job = run.job /\ run'.at = "row"
  BY <1>2 DEF TypeInv, TypeOK, RunTypes
<1>4. Current' = Current
  BY <1>3 DEF Current
<1>5. PICK n \in Steps, c \in Recipients : n = Prior[run.job] /\ c = Current
  BY <1>1 DEF Steps
<1>6. PICK m \in Letters : m = <<n, c>>
  BY DEF Letters
<1>7. ASSUME NEW l \in Letters
      PROVE  /\ l # m => StageOf(l)' = StageOf(l) /\ Unwritten(l)' = Unwritten(l)
             /\ l # m => mails'[l[1]][l[2]] = mails[l[1]][l[2]]
             /\ l = m => StageOf(l) = "taken" /\ StageOf(l)' = "mailed" /\ Unwritten(l)' = Unwritten(l) + 1
             /\ l = m => mails'[l[1]][l[2]] = mails[l[1]][l[2]] + 1
             /\ StageOf(l) # "mailed"
  <2>1. l = <<l[1], l[2]>> /\ l[1] \in Steps /\ l[2] \in Recipients /\ (l = m <=> l[1] = n /\ l[2] = c)
    BY <1>6, LetterTypes
  <2>2. Assigned(l[1], l[2])' <=> Assigned(l[1], l[2])
    BY <1>3 DEF Assigned
  <2>3. StageOf(l) = IF Assigned(l[1], l[2]) THEN "taken" ELSE IF rows[l[2]] > l[1] THEN "closed" ELSE "waiting"
    BY <1>1 DEF StageOf, Stage
  <2>4. StageOf(l)' = IF Assigned(l[1], l[2]) /\ l[2] # c THEN "taken"
                      ELSE IF Assigned(l[1], l[2]) THEN "mailed"
                      ELSE IF rows[l[2]] > l[1] THEN "closed" ELSE "waiting"
    BY <1>2, <1>3, <1>4, <1>5, <2>2 DEF StageOf, Stage
  <2>5. l = m => Assigned(l[1], l[2])
    BY <1>1, <1>5, <2>1 DEF Assigned
  <2>6. Assigned(l[1], l[2]) /\ l[2] = c => l = m
    BY <1>5, <2>1 DEF Assigned
  <2>7. /\ mails'[l[1]][l[2]] = IF l = m THEN mails[l[1]][l[2]] + 1 ELSE mails[l[1]][l[2]]
        /\ unrecorded'[l[1]][l[2]] = IF l = m THEN unrecorded[l[1]][l[2]] + 1 ELSE unrecorded[l[1]][l[2]]
    BY <1>2, <1>5, <2>1 DEF TypeInv, TypeOK, MailTypes
  <2> QED
    BY <2>1, <2>3, <2>4, <2>5, <2>6, <2>7 DEF Unwritten
<1>8. \A l \in Letters : Lost(l)' = Lost(l)
  <2> SUFFICES ASSUME NEW l \in Letters
               PROVE  Lost(l)' = Lost(l)
    OBVIOUS
  <2>1. Unwritten(l) \in Nat
    BY LetterTypes
  <2>2. CASE l = m
    BY <1>7, <2>1, <2>2 DEF Lost
  <2>3. CASE l # m
    BY <1>7, <2>1, <2>3 DEF Lost
  <2> QED
    BY <2>2, <2>3
<1>9. \A l \in Letters : /\ StageOf(l)' = IF l = m THEN "mailed" ELSE StageOf(l)
                         /\ mails'[l[1]][l[2]] = IF l = m THEN mails[l[1]][l[2]] + 1 ELSE mails[l[1]][l[2]]
  BY <1>7
<1>10. StageOf(m) = "taken"
  BY <1>7
<1>11. StepsDelivered!Deliver(m)
  BY <1>8, <1>9, <1>10 DEF StepsDelivered!Deliver, Letters, StageOf, Lost, Unwritten
<1> QED
  BY <1>11 DEF StepsDelivered!DeliveryNext, Letters

\* The row of the mail closes the letter, and every other step the recipient is beyond now.
LEMMA InsertCloses ==
  ASSUME TypeInv, TypeInv', ToDoUnmailed, InsertRow
  PROVE  StepsDelivered!DeliveryNext
<1>1. Current \in run.todo /\ Current \in Recipients /\ run.job \in Jobs /\ run.at = "row"
  BY CurrentIsToDo DEF InsertRow, TypeInv, TypeOK, RunTypes, RunHolds, InRound, InJob, Places
<1>2. /\ run' = [run EXCEPT !.at = "record"] /\ UNCHANGED mails
      /\ rows' = [rows EXCEPT ![Current] = @ + 1]
      /\ unrecorded' = [unrecorded EXCEPT ![Prior[run.job]][Current] = @ - 1]
  BY DEF InsertRow, Goto
<1>3. run'.todo = run.todo /\ run'.job = run.job /\ run'.at = "record"
  BY <1>2 DEF TypeInv, TypeOK, RunTypes
<1>4. Current' = Current
  BY <1>3 DEF Current
<1>5. PICK n \in Steps, c \in Recipients : n = Prior[run.job] /\ c = Current
  BY <1>1 DEF Steps
<1>6. rows[c] >= n
  BY <1>1, <1>5 DEF ToDoUnmailed
<1>7. ASSUME NEW l \in Letters
      PROVE  Lost(l)' = Lost(l) /\ (StageOf(l)' = StageOf(l) \/ StageOf(l)' = "closed")
  <2>1. /\ l = <<l[1], l[2]>> /\ l[1] \in Steps /\ l[2] \in Recipients /\ l[1] \in Nat
        /\ rows[l[2]] \in Nat /\ unrecorded[l[1]][l[2]] \in Nat
    BY LetterTypes DEF Unwritten
  <2>2. /\ rows'[l[2]] = IF l[2] = c THEN rows[l[2]] + 1 ELSE rows[l[2]]
        /\ unrecorded'[l[1]][l[2]] = IF l[1] = n /\ l[2] = c THEN unrecorded[l[1]][l[2]] - 1
                                                            ELSE unrecorded[l[1]][l[2]]
    BY <1>2, <1>5, <2>1 DEF TypeInv, TypeOK, MailTypes
  <2>3. Assigned(l[1], l[2])' <=> Assigned(l[1], l[2])
    BY <1>3 DEF Assigned
  <2>4. Assigned(l[1], l[2]) => l[1] = n
    BY <1>5 DEF Assigned
  <2>5. l[1] = n /\ l[2] = c => Assigned(l[1], l[2])
    BY <1>1, <1>5 DEF Assigned
  <2>6. StageOf(l) = IF Assigned(l[1], l[2]) /\ l[2] # c THEN "taken"
                     ELSE IF Assigned(l[1], l[2]) THEN "mailed"
                     ELSE IF rows[l[2]] > l[1] THEN "closed" ELSE "waiting"
    BY <1>1, <1>5 DEF StageOf, Stage
  <2>7. StageOf(l)' = IF Assigned(l[1], l[2]) /\ l[2] # c THEN "taken"
                      ELSE IF rows'[l[2]] > l[1] THEN "closed" ELSE "waiting"
    BY <1>3, <1>4, <1>5, <2>3 DEF StageOf, Stage
  <2>8. CASE l[1] = n /\ l[2] = c
    <3>1. rows'[l[2]] > l[1]
      BY <1>6, <2>1, <2>2, <2>8
    <3>2. StageOf(l) = "mailed" /\ StageOf(l)' = "closed"
      BY <2>5, <2>6, <2>7, <2>8, <3>1
    <3>3. Lost(l)' = Lost(l)
      BY <2>1, <2>2, <2>8, <3>2 DEF Lost, Unwritten
    <3> QED
      BY <3>2, <3>3
  <2>9. CASE ~(l[1] = n /\ l[2] = c)
    <3>1. rows[l[2]] > l[1] => rows'[l[2]] > l[1]
      BY <2>1, <2>2
    <3>2. StageOf(l) # "mailed" /\ StageOf(l)' # "mailed"
      BY <2>4, <2>6, <2>7, <2>9
    <3>3. StageOf(l)' = StageOf(l) \/ StageOf(l)' = "closed"
      BY <2>4, <2>6, <2>7, <2>9, <3>1
    <3>4. Lost(l)' = Lost(l)
      BY <2>1, <2>2, <2>9, <3>2 DEF Lost, Unwritten
    <3> QED
      BY <3>3, <3>4
  <2> QED
    BY <2>8, <2>9
<1> QED
  BY <1>2, <1>7, Closing

\* So does a follow-up the user writes, for who is not in hand.
LEMMA ManualCloses ==
  ASSUME TypeInv, TypeInv', NEW r \in Recipients, ManualFollowUp(r)
  PROVE  StepsDelivered!DeliveryNext
<1>1. rows' = [rows EXCEPT ![r] = @ + 1] /\ UNCHANGED <<run, mails, unrecorded>>
  BY DEF ManualFollowUp
<1>2. Current' = Current
  BY <1>1 DEF Current
<1>3. ASSUME NEW l \in Letters
      PROVE  Lost(l)' = Lost(l) /\ (StageOf(l)' = StageOf(l) \/ StageOf(l)' = "closed")
  <2>1. l[2] \in Recipients /\ l[1] \in Nat /\ rows[l[2]] \in Nat
    BY LetterTypes
  <2>2. rows'[l[2]] = rows[l[2]] \/ rows'[l[2]] = rows[l[2]] + 1
    BY <1>1, <2>1 DEF TypeInv, TypeOK, MailTypes
  <2>3. rows[l[2]] > l[1] => rows'[l[2]] > l[1]
    BY <2>1, <2>2
  <2>4. StageOf(l)' = StageOf(l) \/ (StageOf(l) = "waiting" /\ StageOf(l)' = "closed")
    BY <1>1, <1>2, <2>3 DEF StageOf, Stage, Assigned
  <2>5. Lost(l)' = Lost(l)
    BY <1>1, <2>4 DEF Lost, Unwritten
  <2> QED
    BY <2>4, <2>5
<1> QED
  BY <1>1, <1>3, Closing

\* Every other step leaves the letters where they are, or lets go of some.
LEMMA OthersDeliver ==
  ASSUME TypeInv, TypeInv', [Next]_vars, UNCHANGED <<rows, mails, unrecorded>>, ~SelectRecipients
  PROVE  [StepsDelivered!DeliveryNext]_(StepsDelivered!deliveryVars)
<1>q. run = [at |-> run.at, job |-> run.job, picks |-> run.picks, todo |-> run.todo, first |-> run.first,
             any |-> run.any, sentOk |-> run.sentOk, failed |-> run.failed, verdict |-> run.verdict]
  BY DEF TypeInv, TypeOK, RunTypes
<1>1. CASE UNCHANGED run
  <2>1. Current' = Current
    BY <1>1 DEF Current
  <2>2. \A l \in Letters : StageOf(l)' = StageOf(l)
    BY <1>1, <2>1 DEF StageOf, Stage, Assigned
  <2> QED
    BY <2>2 DEF StepsDelivered!deliveryVars, StageOf, Letters
<1>2. CASE Record \/ SendFails
  <2>1. run' = [AfterMail EXCEPT !.sentOk = TRUE] \/ run' = [AfterMail EXCEPT !.failed = TRUE]
    BY <1>2 DEF Record, SendFails
  <2>2. run'.todo = run.todo \ {Current} /\ run'.job = run.job /\ run'.at = "check"
    BY <1>q, <2>1 DEF AfterMail
  <2> QED
    BY <2>2, Leaving
<1>3. CASE CrmCheck
  <2>1. run'.todo \subseteq run.todo /\ run'.job = run.job /\ run'.at \in {"check", "quota"} /\ run.at = "crm"
    BY <1>q, <1>3 DEF CrmCheck
  <2> QED
    BY <2>1, Leaving
<1>4. CASE CheckJob \/ Recheck \/ QuotaCheck \/ PauseCampaign \/ TemplateGone \/ ProfileGone \/ Throw
             \/ Start \/ HoldCampaign
  <2>1. /\ run'.todo = {} \/ (run'.todo = run.todo /\ run'.job = run.job)
        /\ run'.at \in {"write", "hold", "select", "wait", "crm", "delay", "due", "limit", "send"}
        /\ run.at \notin {"row", "record"}
    BY <1>q, <1>4 DEF CheckJob, Recheck, QuotaCheck, QuotaVerdict, PauseCampaign, TemplateGone,
         ProfileGone, Throw, Start, HoldCampaign, Goto, Decide, Leave, NotRunning
  <2> QED
    BY <2>1, Leaving
<1>5. CASE BeginPoll \/ EndPoll \/ WriteVerdict \/ Crash
  <2>1. run'.todo = {} /\ run'.at \in {"recover", "idle", "due"}
    <3>1. CASE BeginPoll
      BY <3>1 DEF BeginPoll, NotRunning
    <3>2. CASE WriteVerdict
      BY <3>2 DEF WriteVerdict, Leave, NotRunning
    <3>3. CASE EndPoll \/ Crash
      BY <3>3 DEF EndPoll, Crash, NotRunning
    <3> QED
      BY <1>5, <3>1, <3>2, <3>3
  <2> QED
    BY <2>1, Leaving
<1>6. CASE BeginResume \/ ResumeWrite \/ BeginDue
  <2>1. run'.todo = run.todo /\ run'.at \in {"resume", "due"} /\ run.at \in {"recover", "resume", "resumeWrite"}
    BY <1>q, <1>6 DEF BeginResume, ResumeWrite, BeginDue
  <2>2. run.todo = {}
    BY <2>1 DEF TypeInv, RunHolds, InRound
  <2> QED
    BY <2>1, <2>2, Leaving
<1>7. ASSUME NEW j \in Jobs, RecoverJob(j) \/ ResumeCheck(j) \/ Claim(j)
      PROVE  StepsDelivered!DeliveryNext
  <2>1. /\ run'.todo = run.todo /\ run'.at \in {"recover", "resume", "resumeWrite", "due", "start"}
        /\ run.at \in {"recover", "resume", "due"}
    BY <1>q, <1>7 DEF RecoverJob, ResumeCheck, Claim
  <2>2. run.todo = {}
    BY <2>1 DEF TypeInv, RunHolds, InRound
  <2> QED
    BY <2>1, <2>2, Leaving
<1>8. ~SendMail
  <2>1. ASSUME SendMail PROVE FALSE
    <3>1. Current \in Recipients /\ run.job \in Jobs
      BY <2>1, CurrentIsToDo DEF SendMail, TypeInv, TypeOK, RunTypes, RunHolds, InRound, InJob, Places
    <3>2. mails'[Prior[run.job]][Current] = mails[Prior[run.job]][Current] + 1 /\ mails[Prior[run.job]][Current] \in Nat
      BY <2>1, <3>1 DEF SendMail, TypeInv, TypeOK, MailTypes, Steps
    <3> QED
      BY <3>2
  <2> QED
    BY <2>1
<1>9. ~InsertRow
  <2>1. ASSUME InsertRow PROVE FALSE
    <3>1. Current \in Recipients
      BY <2>1, CurrentIsToDo DEF InsertRow, TypeInv, TypeOK, RunTypes, RunHolds, InRound
    <3>2. rows'[Current] = rows[Current] + 1 /\ rows[Current] \in Nat
      BY <2>1, <3>1 DEF InsertRow, TypeInv, TypeOK, MailTypes
    <3> QED
      BY <3>2
  <2> QED
    BY <2>1
<1> QED
  BY <1>1, <1>2, <1>3, <1>4, <1>5, <1>6, <1>7, <1>8, <1>9, PollSteps

LEMMA StartsUndelivered == Init => StepsDelivered!DeliveryInit
<1> SUFFICES ASSUME Init PROVE StepsDelivered!DeliveryInit
  OBVIOUS
<1>1. ASSUME NEW l \in Letters
      PROVE  StageOf(l) = "waiting" /\ Lost(l) = 0 /\ mails[l[1]][l[2]] = 0
  <2>1. l[1] \in Steps /\ l[2] \in Recipients /\ l[1] \in Nat
    <3>1. l[1] \in Steps /\ l[2] \in Recipients
      BY DEF Letters
    <3> QED
      BY <3>1, FollowUpsAssumption DEF Steps
  <2>2. run.todo = {} /\ rows[l[2]] = 0 /\ mails[l[1]][l[2]] = 0 /\ unrecorded[l[1]][l[2]] = 0
    BY <2>1 DEF Init, NotRunning
  <2>3. StageOf(l) = "waiting"
    BY <2>1, <2>2 DEF StageOf, Stage, Assigned
  <2> QED
    BY <2>2, <2>3 DEF Lost, Unwritten
<1> QED
  BY <1>1 DEF StepsDelivered!DeliveryInit, Letters, StageOf, Lost, Unwritten

\* The jobs implement the delivery: step of the sequence by step and recipient by recipient, with
\* every stop, retry, manual follow-up, failing statement and crash.
THEOREM StepsAreDelivered == Spec => FollowUpsHold
<1>1. Init => TypeInv /\ MailsInv /\ StepsDelivered!DeliveryInit
  BY TypeInvInit, MailsInvInit, StartsUndelivered
<1>2. TypeInv /\ MailsInv /\ [Next]_vars => TypeInv' /\ MailsInv'
  BY TypeInvStay, RecordedStays, ToDoStays DEF MailsInv
<1>3. TypeInv /\ MailsInv /\ TypeInv' /\ [Next]_vars =>
        [StepsDelivered!DeliveryNext]_(StepsDelivered!deliveryVars)
  <2> SUFFICES ASSUME TypeInv, MailsInv, TypeInv', [Next]_vars
               PROVE  [StepsDelivered!DeliveryNext]_(StepsDelivered!deliveryVars)
    OBVIOUS
  <2>1. UNCHANGED <<rows, mails, unrecorded>> \/ SendMail \/ InsertRow \/ \E r \in Recipients : ManualFollowUp(r)
    BY MailSteps DEF mailVars, Record, CampaignLog, Midnight, StopJob
  <2>2. CASE SelectRecipients
    BY <2>2, SelectTakes
  <2>3. CASE UNCHANGED <<rows, mails, unrecorded>> /\ ~SelectRecipients
    BY <2>3, OthersDeliver
  <2>4. CASE SendMail
    BY <2>4, SendDelivers
  <2>5. CASE InsertRow
    BY <2>5, InsertCloses DEF MailsInv
  <2>6. CASE \E r \in Recipients : ManualFollowUp(r)
    BY <2>6, ManualCloses
  <2> QED
    BY <2>1, <2>2, <2>3, <2>4, <2>5, <2>6
<1>4. Spec => StepsDelivered!DeliverySpec
  BY <1>1, <1>2, <1>3, PTL DEF Spec, StepsDelivered!DeliverySpec
<1> QED
  BY <1>4, OnlyAskedMails DEF FollowUpsHold, ImplementsDelivery

\* What a letter keeps: one message beyond the lost ones at most, that one while it is
\* mailed in hand, and none while it is not out.
Copies(l) == mails[l[1]][l[2]]
LetterHolds(l) ==
  /\ StageOf(l) \in StepsDelivered!Stages /\ Copies(l) \in Nat /\ Lost(l) \in Nat
  /\ Copies(l) <= Lost(l) + 1
  /\ StageOf(l) \in {"none", "waiting", "taken"} => Copies(l) = Lost(l)
  /\ StageOf(l) = "mailed" => Copies(l) = Lost(l) + 1
LettersHold == \A l \in Letters : LetterHolds(l)

LEMMA LetterStays ==
  ASSUME StepsDelivered!DeliveryNext, NEW l \in Letters, LetterHolds(l)
  PROVE  LetterHolds(l)'
<1> USE DEF LetterHolds, StepsDelivered!Stages
<1>1. ASSUME NEW r \in Letters, StepsDelivered!Enter(r)
      PROVE  LetterHolds(l)'
  <2>1. /\ StageOf(l)' = StageOf(l) \/ (StageOf(l)' = "waiting" /\ StageOf(l) = "none")
        /\ Copies(l)' = Copies(l) /\ Lost(l)' = Lost(l)
    BY <1>1 DEF StepsDelivered!Enter, Letters, StageOf, Lost, Unwritten, Copies
  <2> QED
    BY <2>1
<1>2. ASSUME NEW r \in Letters, StepsDelivered!Deliver(r)
      PROVE  LetterHolds(l)'
  <2>1. l # r => StageOf(l)' = StageOf(l)
    BY <1>2 DEF StepsDelivered!Deliver, Letters, StageOf
  <2>2. l = r => StageOf(l) = "taken" /\ StageOf(l)' \in {"mailed", "closed"}
    BY <1>2 DEF StepsDelivered!Deliver, Letters, StageOf
  <2>3. Copies(l)' = IF l = r THEN Copies(l) + 1 ELSE Copies(l)
    BY <1>2 DEF StepsDelivered!Deliver, Letters, Copies
  <2>4. Lost(l)' = Lost(l)
    BY <1>2 DEF StepsDelivered!Deliver, Letters, StageOf, Lost, Unwritten
  <2> QED
    BY <2>1, <2>2, <2>3, <2>4
<1>3. ASSUME NEW S \in SUBSET Letters, StepsDelivered!Take(S)
      PROVE  LetterHolds(l)'
  <2>1. /\ StageOf(l)' = StageOf(l) \/ (StageOf(l)' = "taken" /\ StageOf(l) = "waiting")
        /\ Copies(l)' = Copies(l) /\ Lost(l)' = Lost(l)
    BY <1>3 DEF StepsDelivered!Take, Letters, StageOf, Lost, Unwritten, Copies
  <2> QED
    BY <2>1
<1>4. ASSUME NEW S \in SUBSET Letters, StepsDelivered!Release(S)
      PROVE  LetterHolds(l)'
  <2>1. StageOf(l)' \in IF l \in S THEN {"waiting", "closed"} ELSE {StageOf(l)}
    BY <1>4 DEF StepsDelivered!Release, Letters, StageOf
  <2>2. l \in S => StageOf(l) \in {"taken", "mailed"}
    BY <1>4 DEF StepsDelivered!Release, Letters, StageOf
  <2>3. Lost(l)' = IF l \in S /\ StageOf(l) = "mailed" THEN Lost(l) + 1 ELSE Lost(l)
    BY <1>4 DEF StepsDelivered!Release, Letters, StageOf, Lost, Unwritten
  <2>4. Copies(l)' = Copies(l)
    BY <1>4 DEF StepsDelivered!Release, Letters, Copies
  <2> QED
    BY <2>1, <2>2, <2>3, <2>4
<1>5. CASE StepsDelivered!Close
  <2>1. StageOf(l)' \in {StageOf(l), "closed"} /\ Copies(l)' = Copies(l) /\ Lost(l)' = Lost(l)
    BY <1>5 DEF StepsDelivered!Close, Letters, StageOf, Lost, Unwritten, Copies
  <2> QED
    BY <2>1
<1> QED
  BY <1>1, <1>2, <1>3, <1>4, <1>5 DEF StepsDelivered!DeliveryNext, Letters

\* The delivery of the steps alone, whoever makes its steps, mails a letter again only if a message of it was
\* lost, and leaves nothing but lost messages of a letter that is not out.
THEOREM DeliveryMailsOnce == StepsDelivered!DeliverySpec => []StepsDelivered!OnceUnlessLost
<1>1. StepsDelivered!DeliveryInit => LettersHold
  <2> SUFFICES ASSUME StepsDelivered!DeliveryInit, NEW l \in Letters
               PROVE  LetterHolds(l)
    BY DEF LettersHold
  <2>1. StageOf(l) \in {"none", "waiting"} /\ Copies(l) = 0 /\ Lost(l) = 0
    BY DEF StepsDelivered!DeliveryInit, Letters, StageOf, Lost, Unwritten, Copies
  <2> QED
    BY <2>1 DEF LetterHolds, StepsDelivered!Stages
<1>2. LettersHold /\ [StepsDelivered!DeliveryNext]_(StepsDelivered!deliveryVars) => LettersHold'
  <2> SUFFICES ASSUME NEW l \in Letters, LetterHolds(l),
                      [StepsDelivered!DeliveryNext]_(StepsDelivered!deliveryVars)
               PROVE  LetterHolds(l)'
    BY DEF LettersHold, Letters
  <2>1. CASE UNCHANGED StepsDelivered!deliveryVars
    <3>1. StageOf(l)' = StageOf(l) /\ Copies(l)' = Copies(l) /\ Lost(l)' = Lost(l)
      BY <2>1 DEF StepsDelivered!deliveryVars, Letters, StageOf, Lost, Unwritten, Copies
    <3> QED
      BY <3>1 DEF LetterHolds
  <2> QED
    BY <2>1, LetterStays
<1>3. LettersHold => StepsDelivered!OnceUnlessLost
  BY DEF LettersHold, StepsDelivered!OnceUnlessLost, LetterHolds, Letters, StageOf, Lost, Unwritten, Copies
<1> QED
  BY <1>1, <1>2, <1>3, PTL DEF StepsDelivered!DeliverySpec

\* So no letter of the jobs goes out a second time unless a message of it was lost.
THEOREM StepsMailedOnce == Spec => []StepsDelivered!OnceUnlessLost
BY StepsAreDelivered, DeliveryMailsOnce, PTL DEF FollowUpsHold, ImplementsDelivery
=============================================================================
