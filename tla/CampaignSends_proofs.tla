------------------------ MODULE CampaignSends_proofs ------------------------
(***************************************************************************)
(* What becomes of a recipient row and how far the limits on sending hold, *)
(* proved for every number of campaigns, rows and accounts: a settled row  *)
(* stays settled, a completed campaign has nothing in hand, an address     *)
(* gets one mail, the daily cap of a campaign is kept, the daily limit of  *)
(* an account is exceeded by no more than the campaigns that share it, the *)
(* pause of a user ends by the user only, and the sender implements the    *)
(* delivery of rows.                                                       *)
(***************************************************************************)
EXTENDS CampaignSystem_proofs, FiniteSetTheorems

-----------------------------------------------------------------------------
(* The statuses a row can have while its campaign's task is somewhere *)

Open == {"pending", "sending", "gone"}
Holds(r) == row[CampaignOf[r]] = r

\* A message_id is set on settled rows only.  A row in hand is not settled before the
\* UPDATE that follows the hand-over; after it, it is settled and has its message_id,
\* and only a failing statement leads from there to the catch block.  A deleted
\* campaign has no rows.
Fresh(r) ==
  /\ r \in stamped => rstatus[r] \in Settled \union {"gone"}
  /\ rstatus[r] = "sent" => r \in stamped
  /\ Holds(r) /\ pc[CampaignOf[r]] \notin {"log", "catch"} => rstatus[r] \in Open
  /\ HeldAt(r, {"log"}) => rstatus[r] = "gone" \/ (rstatus[r] \in Settled /\ r \in stamped)
  /\ HeldAt(r, {"catch"}) => rstatus[r] \in Open \/ (rstatus[r] \in Settled /\ r \in stamped /\ DbFaults)
  /\ cstatus[CampaignOf[r]] = "deleted" => rstatus[r] \in {"absent", "gone"}

RowsInv == \A r \in Recipients : Fresh(r)

\* What a step that is not one of the task of r's campaign may do to r.
Beside(r) ==
  /\ row'[CampaignOf[r]] = row[CampaignOf[r]]
  /\ \/ pc'[CampaignOf[r]] = pc[CampaignOf[r]]
     \/ pc[CampaignOf[r]] = "off" /\ pc'[CampaignOf[r]] = "begin"
  /\ accepted'[r] = accepted[r] /\ orphans'[r] = orphans[r]
  /\ r \in stamped' <=> r \in stamped
  /\ \/ rstatus'[r] = rstatus[r]
     \/ rstatus[r] = "sending" /\ rstatus'[r] = "pending"
     \/ rstatus[r] # "absent" /\ rstatus'[r] = "gone"
     \/ rstatus[r] = "absent" /\ rstatus'[r] = "pending" /\ cstatus[CampaignOf[r]] # "deleted"
     \/ rstatus[r] # "gone" /\ r \in stamped /\ rstatus'[r] = "reported"
  /\ cstatus'[CampaignOf[r]] = "deleted" =>
       cstatus[CampaignOf[r]] = "deleted" \/ (rstatus[r] \in {"absent", "gone"} /\ rstatus'[r] = rstatus[r])

\* A campaign that is paused, started or activated is not deleted by it, nor brought back.
LEMMA DeletedStays ==
  ASSUME CampaignsOK, NEW c \in Campaigns
  PROVE  /\ \A d, v, t : SetPaused(d, v, t) => (cstatus'[c] = "deleted" <=> cstatus[c] = "deleted")
         /\ \A d, t : SetRunning(d, t) => (cstatus'[c] = "deleted" <=> cstatus[c] = "deleted")
BY DEF SetPaused, SetRunning, Exists, campaignVars, CampaignsOK

\* The task of another campaign writes nothing of r, nor of r's campaign.
LEMMA OtherTaskBeside ==
  ASSUME TypeOK, RowHeld, RowsInv, NEW c \in Campaigns, TaskStep(c), NEW r \in Recipients,
         CampaignOf[r] # c
  PROVE  Beside(r)
<1>1. /\ row'[CampaignOf[r]] = row[CampaignOf[r]] /\ pc'[CampaignOf[r]] = pc[CampaignOf[r]]
      /\ accepted'[r] = accepted[r] /\ orphans'[r] = orphans[r] /\ rstatus'[r] = rstatus[r]
  BY TaskLocal
<1>2. \/ stamped' = stamped
      \/ stamped' = stamped \union {q \in Recipients : rstatus'[q] = "sent"}
  BY DEF TaskStep, Begin, Decide, Loop, Stop, Claim, NothingToClaim, Recheck, Delay, PreSend,
         GiveBack, ReleaseRows, Hold, HoldRows, GuardStopped, GuardDuplicate, GuardExhausted,
         FullRow, GuardPick, Accept, Mark, Log, Throw, Catch, storeVars, rowVars
<1>3. r \in stamped' <=> r \in stamped
  BY <1>1, <1>2 DEF RowsInv, Fresh
<1>4. CampaignOf[r] \in Campaigns /\ CampaignsOK
  BY StoreAssumption DEF TypeOK, StoreTypeOK, CampaignsOK
<1>5. cstatus' = cstatus \/ \E v, t : SetPaused(c, v, t)
  BY DEF TaskStep, Begin, Decide, Loop, Stop, Claim, NothingToClaim, Recheck, Delay, PreSend,
         GiveBack, ReleaseRows, Hold, HoldRows, GuardStopped, GuardDuplicate, GuardExhausted,
         FullRow, GuardPick, Accept, Mark, Log, Throw, Catch, storeVars, campaignVars
<1>6. cstatus'[CampaignOf[r]] = "deleted" => cstatus[CampaignOf[r]] = "deleted"
  BY <1>4, <1>5, DeletedStays
<1> QED
  BY <1>1, <1>3, <1>6 DEF Beside

\* Neither does the poll loop, but for giving back rows in 'sending'.
LEMMA PollBeside ==
  ASSUME TypeOK, PollLoop, NEW r \in Recipients
  PROVE  Beside(r)
<1>1. UNCHANGED <<accepted, orphans, stamped>> /\ (rstatus' = rstatus \/ \E cs : ReleaseRows(cs))
  BY DEF PollLoop, PollStep, Activate, ActivateWrite, Arm, AutoPauseSelect, AutoPauseWrite,
       AutoPauseRows, DurationSelect, DurationEach, DurationWrite, DurationHold,
       DurationHoldRows, DurationEnd, WindowSelect, WindowEach, WindowHold, WindowHoldRows,
       WindowEnd, DailySelect, DailyEach, DailyWrite, DailyEnd, Enqueue, Complete, Select, EndOf,
       Skip, Choose, PauseCur, ReleaseCur, ResumeCur, Back, storeVars, mailVars, rowVars, ReleaseRows
<1>2. rstatus'[r] = rstatus[r] \/ (rstatus[r] = "sending" /\ rstatus'[r] = "pending")
  BY <1>1 DEF ReleaseRows
<1>3. CampaignOf[r] \in Campaigns /\ CampaignsOK /\ PollStep
  BY StoreAssumption DEF TypeOK, StoreTypeOK, CampaignsOK, PollLoop
<1>4. /\ row'[CampaignOf[r]] = row[CampaignOf[r]]
      /\ \/ pc'[CampaignOf[r]] = pc[CampaignOf[r]]
         \/ pc[CampaignOf[r]] = "off" /\ pc'[CampaignOf[r]] = "begin"
  BY <1>3, PollTasks
<1>5. \/ cstatus' = cstatus \/ (\E d, v, t : SetPaused(d, v, t)) \/ (\E d, t : SetRunning(d, t))
      \/ ActivateWrite \/ AutoPauseWrite \/ Complete
  BY <1>3 DEF PollStep, Activate, Arm, AutoPauseSelect,
       AutoPauseRows, DurationSelect, DurationEach, DurationWrite, DurationHold,
       DurationHoldRows, DurationEnd, WindowSelect, WindowEach, WindowHold, WindowHoldRows,
       WindowEnd, DailySelect, DailyEach, DailyWrite, DailyEnd, Enqueue, Select, EndOf,
       Skip, Choose, PauseCur, ReleaseCur, ResumeCur, storeVars, campaignVars
<1>6. cstatus'[CampaignOf[r]] = "deleted" => cstatus[CampaignOf[r]] = "deleted"
  <2>1. CASE ActivateWrite \/ AutoPauseWrite \/ Complete
    BY <1>3, <2>1 DEF ActivateWrite, AutoPauseWrite, Complete, CampaignsOK
  <2> QED
    BY <1>3, <1>5, <2>1, DeletedStays
<1> QED
  BY <1>1, <1>2, <1>4, <1>6 DEF Beside

-----------------------------------------------------------------------------
(* The status an edit is going to write *)

\* No request carries the status of a deleted or a completed campaign.
Carried == {"draft", "scheduled", "in_progress", "paused"}
CarriedInv == \A c \in Campaigns : req[c].status \in Carried

\* A request takes its status from the row once, when it begins.
LEMMA RequestsCarry ==
  ASSUME TypeOK, CarriedInv, [Next]_vars
  PROVE  CarriedInv'
<1>a. req \in [Campaigns -> Requests] /\ NoRequest.status \in Carried
  BY DEF TypeOK, ApiTypeOK, NoRequest, Carried
<1>1. ASSUME NEW c \in Campaigns, NEW r, r.status \in Carried, Submit(c, r)
      PROVE  CarriedInv'
  BY <1>a, <1>1 DEF Submit, CarriedInv
<1>2. ASSUME NEW c \in Campaigns, NEW next, Goes(c, next) \/ Answer(c)
      PROVE  CarriedInv'
  BY <1>a, <1>2 DEF Goes, Answer, CarriedInv, Requests
<1>3. ASSUME UNCHANGED req
      PROVE  CarriedInv'
  BY <1>3 DEF CarriedInv
<1>4. ASSUME NEW c \in Campaigns, StartResume(c)
      PROVE  CarriedInv'
  <2>1. ASSUME NEW k \in {"start", "resume"}, NEW f \in BOOLEAN, Ask(c, k, f)
        PROVE  CarriedInv'
    <3>1. [NoRequest EXCEPT !.at = "other", !.kind = k, !.force = f, !.pauseAt = pauseAt[c]].status \in Carried
      BY DEF NoRequest, Carried
    <3> QED
      BY <1>1, <2>1, <3>1 DEF Ask
  <2>2. CASE FindOther(c)
    <3>1. ASSUME NEW d, req' = [req EXCEPT ![c].other = d, ![c].at = "pauseOther"]
          PROVE  CarriedInv'
      BY <1>a, <3>1 DEF CarriedInv, Requests
    <3> QED
      BY <1>2, <2>2, <3>1 DEF FindOther
  <2>3. CASE PauseOther(c) \/ OtherRows(c) \/ Check(c) \/ ResumeRows(c) \/ WriteRunning(c)
    BY <1>2, <2>3 DEF PauseOther, OtherRows, Check, ResumeRows, WriteRunning
  <2> QED
    BY <1>4, <2>1, <2>2, <2>3 DEF StartResume
<1>5. ASSUME NEW c \in Campaigns, Pause(c)
      PROVE  CarriedInv'
  <2>1. [NoRequest EXCEPT !.at = "pauseWrite"].status \in Carried
    BY DEF NoRequest, Carried
  <2> QED
    BY <1>1, <1>2, <1>5, <2>1 DEF Pause, AskPause, PauseWrite, PauseRows
<1>6. ASSUME NEW c \in Campaigns, Edit(c)
      PROVE  CarriedInv'
  <2>1. ASSUME NEW s \in EditChoices, NEW t \in EditChoices, AskEdit(c, s, t)
        PROVE  CarriedInv'
    <3>1. PICK v \in Carried :
            \E time : Submit(c, [NoRequest EXCEPT !.at = "editWrite", !.status = v, !.sched = s,
                                                 !.pauseAt = time])
      BY <2>1 DEF AskEdit, Carried
    <3>2. \A time : [NoRequest EXCEPT !.at = "editWrite", !.status = v, !.sched = s,
                                     !.pauseAt = time].status \in Carried
      BY DEF NoRequest
    <3> QED
      BY <1>1, <3>1, <3>2
  <2>2. CASE AskSettings(c)
    <3>1. [NoRequest EXCEPT !.at = "settingsWrite",
             !.status = IF reason[c] = "daily_campaign_cap" THEN "in_progress" ELSE "draft"].status \in Carried
      BY DEF NoRequest, Carried
    <3> QED
      BY <1>1, <2>2, <3>1 DEF AskSettings
  <2>3. CASE EditWrite(c) \/ SettingsWrite(c) \/ Reconcile(c) \/ ReconcileHold(c) \/ ReconcileRows(c)
             \/ ReconcileResume(c)
    BY <1>2, <2>3 DEF EditWrite, SettingsWrite, AfterEdit, Reconcile, ReconcileHold, ReconcileRows,
                      ReconcileResume
  <2> QED
    BY <1>6, <2>1, <2>2, <2>3 DEF Edit
<1>7. ASSUME NEW c \in Campaigns, Delete(c)
      PROVE  CarriedInv'
  <2>1. /\ [NoRequest EXCEPT !.at = "deleteLog"].status \in Carried
        /\ [NoRequest EXCEPT !.at = "removeRows"].status \in Carried
    BY DEF NoRequest, Carried
  <2> QED
    BY <1>1, <1>2, <1>7, <2>1 DEF Delete, AskDelete, DeleteLog, DeleteRows, DeleteCampaign, AskRemove, Remove
<1>8. ASSUME NEW r \in Recipients, Upload(r) \/ Report(r)
      PROVE  CarriedInv'
  BY <1>3, <1>8 DEF Upload, Report, apiVars
<1>9. CASE Api
  BY <1>4, <1>5, <1>6, <1>7, <1>8, <1>9 DEF Api, ApiStep
<1>10. CASE ~Api
  BY <1>3, <1>10 DEF Next, Worker, PollLoop, Time, Crash, vars, apiVars
<1> QED
  BY <1>9, <1>10

-----------------------------------------------------------------------------
(* The other steps beside a row *)

\* A request gives rows back, deletes them, uploads one or reports on one; a campaign
\* is deleted when it has no rows left.
LEMMA ApiBeside ==
  ASSUME TypeOK, CarriedInv, Api, NEW r \in Recipients
  PROVE  Beside(r)
<1> DEFINE c == CampaignOf[r]
<1>a. c \in Campaigns /\ CampaignsOK /\ rstatus \in [Recipients -> RStatus] /\ stamped \subseteq Recipients
  BY StoreAssumption DEF TypeOK, StoreTypeOK, CampaignsOK
<1>1. UNCHANGED taskVars /\ accepted' = accepted /\ orphans' = orphans
  BY ApiFrame DEF ByRequest
<1>2. stamped' = stamped
  BY DEF Api, ApiStep, StartResume, Pause, Edit, Delete, Ask, AskPause, AskEdit, AskSettings, AskDelete,
         AskRemove, Submit, FindOther, PauseOther, OtherRows, Check, ResumeRows, WriteRunning, PauseWrite,
         PauseRows, EditWrite, SettingsWrite, Reconcile, ReconcileHold, ReconcileRows, ReconcileResume,
         DeleteLog, DeleteRows, DeleteCampaign, Remove, Upload, Report, ReleaseRows, RemoveRows,
         storeVars, rowVars
<1>3. \/ rstatus'[r] = rstatus[r]
      \/ rstatus[r] = "sending" /\ rstatus'[r] = "pending"
      \/ rstatus[r] # "absent" /\ rstatus'[r] = "gone"
      \/ rstatus[r] = "absent" /\ rstatus'[r] = "pending" /\ cstatus[c] # "deleted"
      \/ rstatus[r] # "gone" /\ r \in stamped /\ rstatus'[r] = "reported"
  <2>1. ASSUME NEW q \in Recipients, Upload(q) \/ Report(q)
        PROVE  \/ rstatus'[r] = rstatus[r]
               \/ rstatus[r] = "absent" /\ rstatus'[r] = "pending" /\ cstatus[c] # "deleted"
               \/ rstatus[r] # "gone" /\ r \in stamped /\ rstatus'[r] = "reported"
    BY <1>a, <2>1 DEF Upload, Report, Exists
  <2> QED
    BY <2>1, ApiFrame DEF ByRequest, ReleaseRows, RemoveRows
<1>4. \/ cstatus' = cstatus \/ (\E d, v, t : SetPaused(d, v, t)) \/ (\E d, t : SetRunning(d, t))
      \/ \E d \in Campaigns : EditWrite(d) \/ DeleteCampaign(d)
  BY DEF Api, ApiStep, StartResume, Pause, Edit, Delete, Ask, AskPause, AskEdit, AskSettings, AskDelete,
         AskRemove, Submit, FindOther, PauseOther, OtherRows, Check, ResumeRows, WriteRunning, PauseWrite,
         PauseRows, SettingsWrite, Reconcile, ReconcileHold, ReconcileRows, ReconcileResume,
         DeleteLog, DeleteRows, Remove, Upload, Report, storeVars, campaignVars
<1>5. ASSUME NEW d \in Campaigns, EditWrite(d), cstatus'[c] = "deleted"
      PROVE  cstatus[c] = "deleted"
  BY <1>a, <1>5 DEF EditWrite, CarriedInv, Carried, CampaignsOK
<1>6. ASSUME NEW d \in Campaigns, DeleteCampaign(d), cstatus'[c] = "deleted"
      PROVE  cstatus[c] = "deleted" \/ (rstatus[r] \in {"absent", "gone"} /\ rstatus'[r] = rstatus[r])
  BY <1>a, <1>6 DEF DeleteCampaign, Rows, CampaignsOK, rowVars
<1>7. cstatus'[c] = "deleted" =>
        cstatus[c] = "deleted" \/ (rstatus[r] \in {"absent", "gone"} /\ rstatus'[r] = rstatus[r])
  BY <1>a, <1>4, <1>5, <1>6, DeletedStays
<1> QED
  BY <1>1, <1>2, <1>3, <1>7 DEF Beside, taskVars

\* Time passes no row by.
LEMMA TimeBeside ==
  ASSUME Time \/ UNCHANGED vars, NEW r \in Recipients
  PROVE  Beside(r)
<1>1. UNCHANGED <<cstatus, rstatus, stamped, accepted, orphans, pc, row>>
  BY DEF Time, Clock, Midnight, WindowFlip, PauseTime, ScheduleTime, vars, storeVars, campaignVars,
         rowVars, mailVars, taskVars
<1> QED
  BY <1>1 DEF Beside

\* A task works on its own row, account and place.
LEMMA TaskApart ==
  ASSUME TypeOK, NEW c \in Campaigns, NEW d \in Campaigns, d # c, TaskStep(d)
  PROVE  row'[c] = row[c] /\ acct'[c] = acct[c] /\ pc'[c] = pc[c]
BY DEF TaskStep, Begin, Decide, Loop, Stop, Claim, NothingToClaim, Recheck, Delay,
       PreSend, GiveBack, Hold, HoldRows, GuardStopped, GuardDuplicate, GuardExhausted, FullRow,
       GuardPick, Accept, Mark, Log, Throw, Catch, GoTo, Drop, TypeOK, TaskTypeOK

\* The row and the place of c's task change by its own steps, by a crash, and when it is started.
LEMMA OtherTasks ==
  ASSUME TypeOK, [Next]_vars, NEW c \in Campaigns, ~TaskStep(c), ~Crash
  PROVE  /\ row'[c] = row[c] /\ acct'[c] = acct[c]
         /\ pc'[c] = pc[c] \/ (pc[c] = "off" /\ pc'[c] = "begin")
<1>1. ASSUME PollLoop
      PROVE  /\ row'[c] = row[c] /\ acct'[c] = acct[c]
             /\ pc'[c] = pc[c] \/ (pc[c] = "off" /\ pc'[c] = "begin")
  <2>1. acct' = acct
    BY <1>1 DEF PollLoop, PollStep, Activate, ActivateWrite, Arm, AutoPauseSelect, AutoPauseWrite,
         AutoPauseRows, DurationSelect, DurationEach, DurationWrite, DurationHold,
         DurationHoldRows, DurationEnd, WindowSelect, WindowEach, WindowHold, WindowHoldRows,
         WindowEnd, DailySelect, DailyEach, DailyWrite, DailyEnd, Enqueue, Complete, Select, EndOf,
         Skip, Choose, PauseCur, ReleaseCur, ResumeCur, Back, taskVars
  <2> QED
    BY <1>1, <2>1, PollTasks DEF PollLoop
<1>2. ASSUME Api \/ Time \/ UNCHANGED vars
      PROVE  UNCHANGED <<row, acct, pc>>
  BY <1>2, ApiFrame DEF ByRequest, Time, vars, taskVars
<1> QED
  BY <1>1, <1>2, TaskApart DEF Next, Worker

\* Every step but a crash and those of the task of r's campaign is beside r.
LEMMA StepBeside ==
  ASSUME TypeOK, RowHeld, RowsInv, CarriedInv, [Next]_vars, NEW r \in Recipients
  PROVE  Beside(r) \/ Crash \/ TaskStep(CampaignOf[r])
<1>1. ASSUME NEW c \in Campaigns, Worker(c), CampaignOf[r] # c
      PROVE  Beside(r)
  BY <1>1, OtherTaskBeside DEF Worker
<1> QED
  BY <1>1, PollBeside, ApiBeside, TimeBeside DEF Next, Worker

-----------------------------------------------------------------------------
(* RowsInv is inductive *)

\* A step beside r keeps Fresh(r).
LEMMA BesideFresh ==
  ASSUME NEW r \in Recipients, Fresh(r), Beside(r)
  PROVE  Fresh(r)'
<1> USE DEF Open, Settled
<1>1. (r \in stamped => rstatus[r] \in Settled \union {"gone"})' /\ (rstatus[r] = "sent" => r \in stamped)'
  BY DEF Fresh, Beside
<1>2. (Holds(r) /\ pc[CampaignOf[r]] \notin {"log", "catch"} => rstatus[r] \in Open)'
  BY DEF Fresh, Beside, Holds
<1>3. (HeldAt(r, {"log"}) => rstatus[r] = "gone" \/ (rstatus[r] \in Settled /\ r \in stamped))'
  BY DEF Fresh, Beside, HeldAt
<1>4. (HeldAt(r, {"catch"}) => rstatus[r] \in Open \/ (rstatus[r] \in Settled /\ r \in stamped /\ DbFaults))'
  BY DEF Fresh, Beside, HeldAt
<1>5. (cstatus[CampaignOf[r]] = "deleted" => rstatus[r] \in {"absent", "gone"})'
  BY DEF Fresh, Beside
<1> QED
  BY <1>1, <1>2, <1>3, <1>4, <1>5 DEF Fresh

\* A crash lets go of every row and writes none.
LEMMA CrashFresh ==
  ASSUME NEW r \in Recipients, Fresh(r), Crash
  PROVE  Fresh(r)'
<1>1. UNCHANGED <<cstatus, rstatus, stamped>> /\ row'[CampaignOf[r]] # r
  BY StoreAssumption DEF Crash, campaignVars, rowVars
<1> QED
  BY <1>1 DEF Fresh, Holds, HeldAt

\* Every step of the task of r's campaign keeps Fresh(r).
LEMMA TaskFresh ==
  ASSUME TypeOK, RowHeld, NEW c \in Campaigns, TaskStep(c),
         NEW r \in Recipients, CampaignOf[r] = c, Fresh(r)
  PROVE  Fresh(r)'
<1> USE StoreAssumption, StatementsOnRows
<1>a. /\ pc[c] \in Holding => row[c] \in Recipients
      /\ pc[c] \in Between => row[c] = NoRow
  BY DEF RowHeld
<1>b. CampaignsOK
  BY DEF TypeOK, StoreTypeOK, CampaignsOK
<1>c. /\ rstatus[r] \in RStatus /\ DbFaults \in BOOLEAN
      /\ \A v, t : SetPaused(c, v, t) => (cstatus'[c] = "deleted" <=> cstatus[c] = "deleted")
  BY <1>b, DeletedStays, TaskAssumption DEF TypeOK, StoreTypeOK
<1> USE <1>a, <1>c DEF TypeOK, TaskTypeOK, StoreTypeOK, storeVars, campaignVars, rowVars, mailVars,
                       GoTo, Drop, Fresh, Holds, HeldAt, Open, Settled, RStatus, Holding, Between, InHand
<1>1. CASE Begin(c)
  BY <1>1 DEF Begin, Decide
<1>2. CASE Loop(c)
  BY <1>2 DEF Loop, Decide
<1>3. CASE Stop(c)
  BY <1>3 DEF Stop
<1>4. CASE Claim(c)
  BY <1>4 DEF Claim, RowsIn, Rows
<1>5. CASE NothingToClaim(c)
  BY <1>5 DEF NothingToClaim
<1>6. CASE Recheck(c)
  BY <1>6 DEF Recheck, Decide
<1>7. CASE Delay(c)
  BY <1>7 DEF Delay
<1>8. CASE PreSend(c)
  BY <1>8 DEF PreSend, Decide
<1>9. CASE GiveBack(c)
  BY <1>9 DEF GiveBack, ReleaseRows
<1>10. CASE Hold(c)
  BY <1>10 DEF Hold
<1>11. CASE HoldRows(c)
  <2>1. /\ \/ pc[c] = "holdRows" /\ row'[c] = NoRow
           \/ pc[c] = "fullRows" /\ row' = row /\ pc'[c] = "fullRow"
        /\ ReleaseRows({c}) /\ UNCHANGED <<stamped, cstatus>>
    BY <1>11, SMTT(30) DEF HoldRows, ReleaseRows
  <2>2. rstatus'[r] = rstatus[r] \/ (rstatus[r] = "sending" /\ rstatus'[r] = "pending")
    BY <2>1 DEF ReleaseRows
  <2> QED
    BY <2>1, <2>2, SMTT(30)
<1>12. CASE GuardStopped(c)
  BY <1>12, SMTT(30) DEF GuardStopped
<1>13. CASE GuardDuplicate(c)
  BY <1>13, SMTT(30) DEF GuardDuplicate
<1>14. CASE GuardExhausted(c)
  BY <1>14 DEF GuardExhausted
<1>15. CASE FullRow(c)
  BY <1>15, SMTT(30) DEF FullRow
<1>16. CASE GuardPick(c)
  BY <1>16 DEF GuardPick
<1>17. CASE Accept(c)
  BY <1>17, SMTT(30) DEF Accept
<1>18. CASE Mark(c)
  BY <1>18, SMTT(30) DEF Mark
<1>19. CASE Log(c)
  BY <1>19 DEF Log
<1>20. CASE Throw(c)
  <2>1. /\ UNCHANGED <<rstatus, stamped, row, cstatus>> /\ pc'[c] = "catch"
        /\ \/ pc[c] \in Holding \ {"log", "catch"}
           \/ pc[c] = "log" /\ cstatus[c] = "deleted"
           \/ pc[c] = "log" /\ DbFaults
    BY <1>20 DEF Throw, Exists
  <2> QED
    BY <2>1
<1>21. CASE Catch(c)
  BY <1>21, SMTT(30) DEF Catch
<1> QED
  BY <1>1, <1>2, <1>3, <1>4, <1>5, <1>6, <1>7, <1>8, <1>9, <1>10, <1>11,
     <1>12, <1>13, <1>14, <1>15, <1>16, <1>17, <1>18, <1>19, <1>20, <1>21 DEF TaskStep

\* The whole inductive invariant.
THEOREM InductiveRows == Spec => [](TypeOK /\ RowHeld /\ MailInv /\ CarriedInv /\ RowsInv)
<1>1. Init => CarriedInv /\ RowsInv
  <2> SUFFICES ASSUME Init PROVE CarriedInv /\ RowsInv
    OBVIOUS
  <2>1. CarriedInv
    BY DEF Init, CarriedInv, Carried, NoRequest
  <2>2. RowsInv
    BY StoreAssumption DEF Init, RowsInv, Fresh, Holds, HeldAt
  <2> QED
    BY <2>1, <2>2
<1>2. TypeOK /\ RowHeld /\ MailInv /\ CarriedInv /\ RowsInv /\ [Next]_vars => CarriedInv' /\ RowsInv'
  <2> SUFFICES ASSUME TypeOK, RowHeld, CarriedInv, RowsInv, [Next]_vars
               PROVE  CarriedInv' /\ RowsInv'
    OBVIOUS
  <2>1. CarriedInv'
    BY RequestsCarry
  <2>2. ASSUME NEW r \in Recipients
        PROVE  Fresh(r)'
    <3>1. Fresh(r) /\ CampaignOf[r] \in Campaigns
      BY StoreAssumption DEF RowsInv
    <3> QED
      BY <3>1, StepBeside, BesideFresh, CrashFresh, TaskFresh
  <2> QED
    BY <2>1, <2>2 DEF RowsInv
<1> QED
  BY <1>1, <1>2, Inductive, PTL DEF Spec

-----------------------------------------------------------------------------
(* Settled rows *)

\* What the property says of one row.
StaysSettled(r) ==
  rstatus[r] \in Settled =>
    /\ rstatus'[r] \in Settled \union {"gone"}
    /\ rstatus'[r] = "sent" => rstatus[r] = "sent"
    /\ rstatus'[r] = "failed" => rstatus[r] = "failed" \/ DbFaults

\* The task writes the row it holds and rows in 'sending': settled ones only from the
\* catch block, and only where a statement has failed after the hand-over.
LEMMA TaskSettled ==
  ASSUME TypeOK, RowHeld, NEW c \in Campaigns, TaskStep(c),
         NEW r \in Recipients, CampaignOf[r] = c, Fresh(r)
  PROVE  StaysSettled(r)
<1>1. \/ rstatus' = rstatus
      \/ Claim(c) \/ ReleaseRows({c}) \/ GuardStopped(c) \/ GuardDuplicate(c) \/ FullRow(c)
      \/ Mark(c) \/ Catch(c)
  BY DEF TaskStep, Begin, Decide, Loop, Stop, NothingToClaim, Recheck, Delay, PreSend, GiveBack,
         Hold, HoldRows, GuardExhausted, GuardPick, Accept, Log, Throw, storeVars, rowVars
<1>2. CASE Claim(c)
  BY <1>2 DEF Claim, RowsIn, Rows, StaysSettled, Settled, TypeOK, StoreTypeOK
<1>3. CASE rstatus' = rstatus \/ ReleaseRows({c})
  BY <1>3 DEF ReleaseRows, StaysSettled, Settled
<1>4. CASE GuardStopped(c) \/ GuardDuplicate(c) \/ FullRow(c) \/ Mark(c)
  <2>1. rstatus[r] \in Settled => row[c] # r
    BY <1>4 DEF Fresh, Holds, Open, Settled, GuardStopped, GuardDuplicate, FullRow, Mark
  <2>2. row[c] # r => rstatus'[r] = rstatus[r] \/ rstatus[r] = "sending"
    BY <1>4, StatementsOnRows DEF GuardStopped, GuardDuplicate, FullRow, Mark, TypeOK, StoreTypeOK
  <2> QED
    BY <2>1, <2>2 DEF StaysSettled, Settled
<1>5. CASE Catch(c)
  <2>1. rstatus[r] \in Settled => row[c] # r \/ DbFaults
    BY <1>5 DEF Fresh, HeldAt, Open, Settled, Catch
  <2>2. /\ row[c] # r => rstatus'[r] = rstatus[r] \/ rstatus[r] = "sending"
        /\ row[c] = r => rstatus'[r] \in {"gone", "failed"}
    BY <1>5, StatementsOnRows DEF Catch
  <2> QED
    BY <2>1, <2>2 DEF StaysSettled, Settled
<1> QED
  BY <1>1, <1>2, <1>3, <1>4, <1>5

\* A row that is sent, failed or reported never becomes claimable again, whatever pauses,
\* resumes, twins, reports and crashes come; what was sent or reported turns failed only
\* where a statement after the hand-over throws.
THEOREM SettledStay == Spec => SettledRowsStay
<1> DEFINE A == \A r \in Recipients :
                  rstatus[r] \in Settled =>
                    /\ rstatus'[r] \in Settled \union {"gone"}
                    /\ rstatus'[r] = "sent" => rstatus[r] = "sent"
                    /\ rstatus'[r] = "failed" => rstatus[r] = "failed" \/ DbFaults
<1>1. TypeOK /\ RowHeld /\ MailInv /\ CarriedInv /\ RowsInv /\ [Next]_vars => [A]_vars
  <2> SUFFICES ASSUME TypeOK, RowHeld, CarriedInv, RowsInv, [Next]_vars, NEW r \in Recipients
               PROVE  StaysSettled(r)
    BY DEF StaysSettled
  <2>1. Fresh(r) /\ CampaignOf[r] \in Campaigns
    BY StoreAssumption DEF RowsInv
  <2>2. CASE Beside(r)
    BY <2>2 DEF Beside, StaysSettled, Settled
  <2>3. CASE Crash
    BY <2>3 DEF Crash, rowVars, StaysSettled, Settled
  <2> QED
    BY <2>1, <2>2, <2>3, StepBeside, TaskSettled
<1> QED
  BY <1>1, InductiveRows, PTL DEF Spec, SettledRowsStay

-----------------------------------------------------------------------------
(* Completed campaigns *)

\* What the property says of one campaign.
Emptied(c) ==
  cstatus[c] = "completed" /\ pc[c] \in InHand \ {"recheck"} => rstatus[row[c]] = "gone"

\* Only markCompletedCampaigns completes a campaign.
LEMMA OnlyComplete ==
  ASSUME TypeOK, CarriedInv, [Next]_vars, NEW c \in Campaigns, cstatus'[c] = "completed"
  PROVE  cstatus[c] = "completed" \/ Complete
<1>a. CampaignsOK
  BY DEF TypeOK, StoreTypeOK, CampaignsOK
<1>1. /\ \A d, v, t : SetPaused(d, v, t) => cstatus[c] = "completed"
      /\ \A d, t : SetRunning(d, t) => cstatus[c] = "completed"
  BY <1>a DEF SetPaused, SetRunning, campaignVars, CampaignsOK
<1>2. ASSUME NEW d \in Campaigns, Worker(d)
      PROVE  cstatus' = cstatus \/ \E v, t : SetPaused(d, v, t)
  BY <1>2 DEF Worker, TaskStep, Begin, Decide, Loop, Stop, Claim, NothingToClaim, Recheck, Delay, PreSend,
         GiveBack, ReleaseRows, Hold, HoldRows, GuardStopped, GuardDuplicate, GuardExhausted,
         FullRow, GuardPick, Accept, Mark, Log, Throw, Catch, storeVars, campaignVars
<1>3. ASSUME PollLoop
      PROVE  cstatus[c] = "completed" \/ Complete
  <2>1. \/ cstatus' = cstatus \/ (\E d, v, t : SetPaused(d, v, t)) \/ (\E d, t : SetRunning(d, t))
        \/ ActivateWrite \/ AutoPauseWrite \/ Complete
    BY <1>3 DEF PollLoop, PollStep, Activate, Arm, AutoPauseSelect,
         AutoPauseRows, DurationSelect, DurationEach, DurationWrite, DurationHold,
         DurationHoldRows, DurationEnd, WindowSelect, WindowEach, WindowHold, WindowHoldRows,
         WindowEnd, DailySelect, DailyEach, DailyWrite, DailyEnd, Enqueue, Select, EndOf,
         Skip, Choose, PauseCur, ReleaseCur, ResumeCur, storeVars, campaignVars
  <2>2. ActivateWrite \/ AutoPauseWrite => cstatus[c] = "completed"
    BY DEF ActivateWrite, AutoPauseWrite
  <2> QED
    BY <1>1, <2>1, <2>2
<1>4. ASSUME Api
      PROVE  cstatus[c] = "completed"
  <2>1. \/ cstatus' = cstatus \/ (\E d, v, t : SetPaused(d, v, t)) \/ (\E d, t : SetRunning(d, t))
        \/ \E d \in Campaigns : EditWrite(d) \/ DeleteCampaign(d)
    BY <1>4 DEF Api, ApiStep, StartResume, Pause, Edit, Delete, Ask, AskPause, AskEdit, AskSettings, AskDelete,
         AskRemove, Submit, FindOther, PauseOther, OtherRows, Check, ResumeRows, WriteRunning, PauseWrite,
         PauseRows, SettingsWrite, Reconcile, ReconcileHold, ReconcileRows, ReconcileResume,
         DeleteLog, DeleteRows, Remove, Upload, Report, storeVars, campaignVars
  <2>2. ASSUME NEW d \in Campaigns, EditWrite(d) \/ DeleteCampaign(d)
        PROVE  cstatus[c] = "completed"
    BY <1>a, <2>2 DEF EditWrite, DeleteCampaign, CarriedInv, Carried, CampaignsOK
  <2> QED
    BY <1>1, <2>1, <2>2
<1>5. ASSUME Time \/ Crash \/ UNCHANGED vars
      PROVE  cstatus' = cstatus
  BY <1>5 DEF Time, Clock, Midnight, WindowFlip, PauseTime, ScheduleTime, Crash, vars, storeVars, campaignVars
<1> QED
  BY <1>1, <1>2, <1>3, <1>4, <1>5 DEF Next

\* A task goes on to a send only from a look at the status that finds the campaign in
\* progress; a row in hand keeps the campaign from being completed, unless it is deleted.
LEMMA TaskEmptied ==
  ASSUME TypeOK, RowHeld, NEW c \in Campaigns, TaskStep(c), Emptied(c),
         cstatus'[c] = "completed" => cstatus[c] = "completed"
  PROVE  Emptied(c)'
<1> SUFFICES ASSUME cstatus[c] = "completed", pc'[c] \in InHand \ {"recheck"}
             PROVE  rstatus'[row'[c]] = "gone"
  BY DEF Emptied
<1> USE DEF InHand
<1>1. Delay(c) \/ Accept(c)
  BY DEF TaskStep, Begin, Decide, Loop, Stop, Claim, NothingToClaim, Recheck, Delay, PreSend, GiveBack,
         Hold, HoldRows, GuardStopped, GuardDuplicate, GuardExhausted, FullRow, GuardPick, Accept, Mark,
         Log, Throw, Catch, GoTo, Drop, TypeOK, TaskTypeOK
<1>2. row' = row /\ rstatus' = rstatus /\ pc[c] \in InHand \ {"recheck"}
  BY <1>1 DEF Delay, Accept, storeVars, rowVars
<1> QED
  BY <1>2 DEF Emptied

\* A campaign is never completed over a row that is on its way out, unless a delete has
\* taken the row away: neither the poll loop between two statements of the task, nor a
\* pause, an edit or a resume that falls into the send brings that about.
THEOREM CompletedIsEmpty == Spec => []CompletedLeavesNothingInHand
<1> DEFINE Inv == \A c \in Campaigns : Emptied(c)
<1>1. Init => Inv
  BY DEF Init, Emptied, InHand
<1>2. TypeOK /\ RowHeld /\ MailInv /\ CarriedInv /\ RowsInv /\ Inv /\ [Next]_vars => Inv'
  <2> SUFFICES ASSUME TypeOK, RowHeld, CarriedInv, RowsInv, Inv, [Next]_vars, NEW c \in Campaigns
               PROVE  Emptied(c)'
    OBVIOUS
  <2>1. Emptied(c) /\ (cstatus'[c] = "completed" => cstatus[c] = "completed" \/ Complete)
    BY OnlyComplete
  <2>2. CASE TaskStep(c)
    <3>1. ~Complete
      BY <2>2 DEF Complete, TaskStep, Begin, Decide, Loop, Stop, Claim, NothingToClaim, Recheck, Delay,
             PreSend, GiveBack, Hold, HoldRows, GuardStopped, GuardDuplicate, GuardExhausted, FullRow,
             GuardPick, Accept, Mark, Log, Throw, Catch, GoTo, Drop, TypeOK, TaskTypeOK, taskVars, PCs, InHand
    <3> QED
      BY <2>1, <2>2, <3>1, TaskEmptied
  <2>3. CASE Crash
    BY <2>3 DEF Crash, Emptied, InHand
  <2>4. ASSUME ~TaskStep(c), ~Crash, pc'[c] \in InHand \ {"recheck"}, cstatus'[c] = "completed"
        PROVE  rstatus'[row'[c]] = "gone"
    <3> DEFINE r == row[c]
    <3>1. row'[c] = r /\ pc'[c] = pc[c] /\ pc[c] \in InHand \ {"recheck"}
      BY <2>4, OtherTasks DEF InHand
    <3>2. r \in Recipients /\ CampaignOf[r] = c /\ Fresh(r) /\ Holds(r)
      BY <3>1 DEF RowHeld, Holding, Holds, RowsInv
    <3>3. Beside(r)
      BY <2>4, <3>2, StepBeside
    <3>4. CASE cstatus[c] = "completed"
      BY <2>1, <3>1, <3>3, <3>4 DEF Emptied, Beside
    <3>5. CASE Complete /\ cstatus[c] # "completed"
      <4>1. rstatus' = rstatus /\ rstatus[r] \notin {"pending", "sending"}
        BY <2>4, <3>2, <3>5 DEF Complete, RowsIn, Rows, rowVars
      <4> QED
        BY <3>1, <3>2, <4>1 DEF Fresh, Open, InHand
    <3> QED
      BY <2>1, <2>4, <3>4, <3>5
  <2> QED
    BY <2>2, <2>3, <2>4 DEF Emptied
<1>3. Inv => CompletedLeavesNothingInHand
  BY DEF Emptied, CompletedLeavesNothingInHand
<1> QED
  BY <1>1, <1>2, <1>3, InductiveRows, PTL DEF Spec

-----------------------------------------------------------------------------
(* One mail for each address *)

\* The row leaves no usable message_id behind: the worker died on its message, its
\* statements failed, or it is deleted.
Excused(r) == orphans[r] > 0 \/ (rstatus[r] = "failed" /\ r \notin stamped) \/ rstatus[r] = "gone"

\* A row that was mailed is excused, has its message_id, or is just being marked.
Accounted(r) == accepted[r] > 0 => Excused(r) \/ r \in stamped \/ HeldAt(r, {"mark", "catch"})

\* While q is handed to the server, its twin r is not known as sent.
Paired(r, q) ==
  /\ HeldAt(q, {"smtp"}) => ~(r \in stamped /\ rstatus[r] # "gone")
  /\ accepted[r] > 0 /\ accepted[q] > 0 => Excused(r) \/ Excused(q)

AddressInv == \A r \in Recipients : Accounted(r) /\ \A q \in Twins(r) : Paired(r, q)

\* What the task of c may do to a row of c: only the hand-over counts a message, only the
\* UPDATE to 'sent' sets a message_id, and what is settled and not in hand is left alone.
LEMMA TaskTouch ==
  ASSUME TypeOK, RowHeld, NEW c \in Campaigns, TaskStep(c), NEW r \in Recipients, CampaignOf[r] = c
  PROVE  /\ rstatus[r] = "gone" => rstatus'[r] = "gone"
         /\ rstatus[r] \in Settled /\ row[c] # r => rstatus'[r] = rstatus[r]
         /\ r \in stamped => r \in stamped'
         /\ r \in stamped' => r \in stamped \/ (rstatus'[r] = "sent" /\ pc[c] \in {"guard", "mark"})
         /\ orphans'[r] = orphans[r]
         /\ accepted'[r] = accepted[r] \/ (Accept(c) /\ row[c] = r)
<1>1. orphans' = orphans /\ (accepted' = accepted \/ Accept(c))
  BY DEF TaskStep, Begin, Decide, Loop, Stop, Claim, NothingToClaim, Recheck, Delay, PreSend, GiveBack,
         Hold, HoldRows, GuardStopped, GuardDuplicate, GuardExhausted, FullRow, GuardPick, Accept, Mark,
         Log, Throw, Catch, storeVars, mailVars
<1>2. Accept(c) => accepted'[r] = accepted[r] \/ row[c] = r
  BY DEF Accept, TypeOK, StoreTypeOK
<1>3. \/ stamped' = stamped
      \/ pc[c] \in {"guard", "mark"} /\ stamped' = stamped \union {q \in Recipients : rstatus'[q] = "sent"}
  BY DEF TaskStep, Begin, Decide, Loop, Stop, Claim, NothingToClaim, Recheck, Delay, PreSend,
         GiveBack, ReleaseRows, Hold, HoldRows, GuardStopped, GuardDuplicate, GuardExhausted,
         FullRow, GuardPick, Accept, Mark, Log, Throw, Catch, storeVars, rowVars
<1>4. \/ rstatus' = rstatus \/ Claim(c) \/ ReleaseRows({c}) \/ FullRow(c)
      \/ \E own, twin : SettleRow(row[c], own, twin)
  BY DEF TaskStep, Begin, Decide, Loop, Stop, NothingToClaim, Recheck, Delay, PreSend, GiveBack,
         Hold, HoldRows, GuardStopped, GuardDuplicate, GuardExhausted, GuardPick, Accept, Mark, Log, Throw,
         Catch, storeVars, rowVars
<1>5. /\ rstatus[r] = "gone" => rstatus'[r] = "gone"
      /\ rstatus[r] \in Settled /\ row[c] # r => rstatus'[r] = rstatus[r]
  <2>1. CASE Claim(c) \/ FullRow(c)
    BY <2>1 DEF Claim, FullRow, RowsIn, Rows, Settled, TypeOK, StoreTypeOK
  <2>2. CASE rstatus' = rstatus \/ ReleaseRows({c})
    BY <2>2 DEF ReleaseRows, Settled
  <2>3. ASSUME NEW own, NEW twin, SettleRow(row[c], own, twin)
        PROVE  /\ rstatus[r] = "gone" => rstatus'[r] = "gone"
               /\ rstatus[r] \in Settled /\ row[c] # r => rstatus'[r] = rstatus[r]
    BY <2>3 DEF SettleRow, Settled
  <2> QED
    BY <1>4, <2>1, <2>2, <2>3
<1> QED
  BY <1>1, <1>2, <1>3, <1>5

\* An excuse is never taken back.
LEMMA ExcusedStays ==
  ASSUME TypeOK, RowHeld, RowsInv, CarriedInv, [Next]_vars, NEW r \in Recipients, Excused(r)
  PROVE  Excused(r)'
<1>1. Fresh(r) /\ CampaignOf[r] \in Campaigns /\ orphans[r] \in Nat
  BY StoreAssumption DEF RowsInv, TypeOK, StoreTypeOK
<1>2. CASE Beside(r)
  BY <1>2 DEF Beside, Excused
<1>3. CASE Crash
  BY <1>1, <1>3 DEF Crash, Excused, rowVars
<1>4. CASE TaskStep(CampaignOf[r])
  <2>1. rstatus[r] = "failed" /\ r \notin stamped => row[CampaignOf[r]] # r
    BY <1>1 DEF Fresh, Holds, HeldAt, Open, Settled
  <2> QED
    BY <1>1, <1>4, <2>1, TaskTouch DEF Excused, Settled
<1> QED
  BY <1>2, <1>3, <1>4, StepBeside

\* Every step keeps account of the rows that were mailed.
LEMMA AccountedStays ==
  ASSUME TypeOK, RowHeld, RowsInv, CarriedInv, [Next]_vars, NEW r \in Recipients, Accounted(r)
  PROVE  Accounted(r)'
<1> DEFINE c == CampaignOf[r]
<1>1. Fresh(r) /\ c \in Campaigns /\ orphans[r] \in Nat /\ accepted[r] \in Nat
  BY StoreAssumption DEF RowsInv, TypeOK, StoreTypeOK
<1>2. Excused(r) => Accounted(r)'
  BY ExcusedStays DEF Accounted
<1>3. CASE Beside(r)
  BY <1>2, <1>3 DEF Beside, Accounted, HeldAt
<1>4. CASE Crash
  <2>1. accepted' = accepted /\ stamped' = stamped
    BY <1>4 DEF Crash, rowVars
  <2>2. accepted[r] > 0 /\ ~Excused(r) /\ r \notin stamped => r \in Unmarked
    BY <1>1 DEF Accounted, Excused, Fresh, Holds, HeldAt, Open, Settled, Unmarked
  <2>3. r \in Unmarked => orphans'[r] > 0
    BY <1>1, <1>4 DEF Crash
  <2> QED
    BY <1>2, <2>1, <2>2, <2>3 DEF Accounted, Excused
<1>5. CASE TaskStep(c)
  <2>1. r \in stamped => r \in stamped'
    BY <1>1, <1>5, TaskTouch
  <2>2. CASE Accept(c) /\ row[c] = r
    BY <1>1, <2>2 DEF Accept, GoTo, Accounted, HeldAt, TypeOK, TaskTypeOK
  <2>3. CASE ~(Accept(c) /\ row[c] = r) /\ HeldAt(r, {"mark", "catch"})
    <3>1. Mark(c) \/ Throw(c) \/ Catch(c)
      BY <1>5, <2>3 DEF HeldAt, TaskStep, Begin, Decide, Loop, Stop, Claim, NothingToClaim, Recheck, Delay,
         PreSend, GiveBack, Hold, HoldRows, GuardStopped, GuardDuplicate, GuardExhausted, FullRow, GuardPick,
         Accept, Log
    <3>2. CASE Mark(c)
      <4>1. rstatus'[r] = IF rstatus[r] = "gone" THEN "gone" ELSE "sent"
        BY <2>3, <3>2, StatementsOnRows DEF Mark, HeldAt
      <4> QED
        BY <3>2, <4>1 DEF Mark, Accounted, Excused
    <3>3. CASE Throw(c)
      BY <1>1, <2>3, <3>3 DEF Throw, GoTo, Accounted, HeldAt, TypeOK, TaskTypeOK
    <3>4. CASE Catch(c)
      <4>1. rstatus'[r] = IF rstatus[r] = "gone" THEN "gone" ELSE "failed"
        BY <2>3, <3>4, StatementsOnRows DEF Catch, HeldAt
      <4> QED
        BY <4>1 DEF Accounted, Excused
    <3> QED
      BY <3>1, <3>2, <3>3, <3>4
  <2>4. CASE ~(Accept(c) /\ row[c] = r) /\ ~HeldAt(r, {"mark", "catch"})
    <3>1. accepted'[r] = accepted[r]
      BY <1>1, <1>5, <2>4, TaskTouch
    <3> QED
      BY <1>2, <2>1, <2>4, <3>1 DEF Accounted
  <2> QED
    BY <2>2, <2>3, <2>4
<1> QED
  BY <1>3, <1>4, <1>5, StepBeside

\* The check for another sent row of the address, made before the hand-over, holds until
\* the hand-over: no other task sets a message_id in this campaign.
LEMMA PairedStays ==
  ASSUME TypeOK, RowHeld, RowsInv, CarriedInv, AddressInv, [Next]_vars,
         NEW r \in Recipients, NEW q \in Twins(r)
  PROVE  Paired(r, q)'
<1> DEFINE c == CampaignOf[r]
<1>1. /\ q \in Recipients /\ q # r /\ CampaignOf[q] = c /\ r \in Twins(q) /\ c \in Campaigns
      /\ accepted[r] \in Nat /\ accepted[q] \in Nat
  BY StoreAssumption DEF Twins, TypeOK, StoreTypeOK
<1>2. Paired(r, q) /\ Paired(q, r) /\ Accounted(r) /\ Accounted(q)
  BY <1>1 DEF AddressInv
<1>3. (Excused(r) => Excused(r)') /\ (Excused(q) => Excused(q)')
  BY <1>1, ExcusedStays
<1>4. (HeldAt(q, {"smtp"}) => ~(r \in stamped /\ rstatus[r] # "gone"))'
  <2> SUFFICES ASSUME HeldAt(q, {"smtp"})', r \in stamped', rstatus'[r] # "gone"
               PROVE  FALSE
    OBVIOUS
  <2>1. CASE TaskStep(c)
    <3>1. GuardPick(c)
      BY <1>1, <2>1 DEF HeldAt, TaskStep, Begin, Decide, Loop, Stop, Claim, NothingToClaim, Recheck, Delay,
         PreSend, GiveBack, Hold, HoldRows, GuardStopped, GuardDuplicate, GuardExhausted, FullRow,
         Accept, Mark, Log, Throw, Catch, GoTo, Drop, TypeOK, TaskTypeOK
    <3> QED
      BY <1>1, <3>1 DEF HeldAt, GuardPick, AlreadySent, storeVars, rowVars
  <2>2. CASE Crash
    BY <1>1, <2>2 DEF HeldAt, Crash
  <2>3. CASE ~TaskStep(c) /\ ~Crash
    <3>1. Beside(r) /\ HeldAt(q, {"smtp"})
      BY <1>1, <2>3, StepBeside, OtherTasks DEF HeldAt
    <3> QED
      BY <1>2, <3>1 DEF Paired, Beside
  <2> QED
    BY <2>1, <2>2, <2>3
<1>5. (accepted[r] > 0 /\ accepted[q] > 0 => Excused(r) \/ Excused(q))'
  <2>1. CASE accepted'[r] = accepted[r] /\ accepted'[q] = accepted[q]
    BY <1>2, <1>3, <2>1 DEF Paired
  <2>2. ASSUME Accept(c), row[c] \in {r, q}
        PROVE  (accepted[r] > 0 /\ accepted[q] > 0 => Excused(r) \/ Excused(q))'
    <3>1. CASE row[c] = q
      <4>1. HeldAt(q, {"smtp"}) /\ ~HeldAt(r, {"mark", "catch"})
        BY <1>1, <2>2, <3>1 DEF Accept, HeldAt
      <4>2. accepted'[r] = accepted[r]
        BY <1>1, <2>2, <3>1 DEF Accept, TypeOK, StoreTypeOK
      <4>3. accepted[r] > 0 => Excused(r)
        BY <1>2, <4>1 DEF Paired, Accounted, Excused
      <4> QED
        BY <1>3, <4>2, <4>3
    <3>2. CASE row[c] = r
      <4>1. HeldAt(r, {"smtp"}) /\ ~HeldAt(q, {"mark", "catch"})
        BY <1>1, <2>2, <3>2 DEF Accept, HeldAt
      <4>2. accepted'[q] = accepted[q]
        BY <1>1, <2>2, <3>2 DEF Accept, TypeOK, StoreTypeOK
      <4>3. accepted[q] > 0 => Excused(q)
        BY <1>2, <4>1 DEF Paired, Accounted, Excused
      <4> QED
        BY <1>3, <4>2, <4>3
    <3> QED
      BY <2>2, <3>1, <3>2
  <2>3. CASE TaskStep(c)
    BY <1>1, <2>1, <2>2, <2>3, TaskTouch
  <2>4. CASE ~TaskStep(c)
    <3>1. accepted'[r] = accepted[r] /\ accepted'[q] = accepted[q]
      BY <1>1, <2>4, StepBeside DEF Beside, Crash
    <3> QED
      BY <2>1, <3>1
  <2> QED
    BY <2>3, <2>4
<1> QED
  BY <1>4, <1>5 DEF Paired

\* Two rows of one campaign with one address: the second is mailed too only if the first
\* one lost its message_id to a crash, a failing statement or a deletion.
THEOREM NoSecondMailToAddress == Spec => []AtMostOneMailPerAddress
<1>1. Init => AddressInv
  BY StoreAssumption DEF Init, AddressInv, Accounted, Paired, HeldAt, Twins
<1>2. TypeOK /\ RowHeld /\ MailInv /\ CarriedInv /\ RowsInv /\ AddressInv /\ [Next]_vars => AddressInv'
  <2> SUFFICES ASSUME TypeOK, RowHeld, CarriedInv, RowsInv, AddressInv, [Next]_vars, NEW r \in Recipients
               PROVE  Accounted(r)' /\ \A q \in Twins(r) : Paired(r, q)'
    BY DEF AddressInv, Twins
  <2> QED
    BY AccountedStays, PairedStays DEF AddressInv
<1>3. AddressInv => AtMostOneMailPerAddress
  BY DEF AddressInv, Paired, Excused, AtMostOneMailPerAddress
<1> QED
  BY <1>1, <1>2, <1>3, InductiveRows, PTL DEF Spec

-----------------------------------------------------------------------------
(* The log of sends *)

LogOf(c) == {m \in sendLog : CampaignOf[m.rcpt] = c}
LogBy(a) == {m \in sendLog : m.acct = a}

\* A part of a finite log is no longer than the log, and one more entry makes it at most
\* one longer.
LEMMA LogCount ==
  ASSUME NEW S, IsFiniteSet(S)
  PROVE  /\ Cardinality(S) \in Nat
         /\ \A T \in SUBSET S : IsFiniteSet(T) /\ Cardinality(T) \in Nat /\ Cardinality(T) <= Cardinality(S)
         /\ \A x : IsFiniteSet(S \union {x}) /\ Cardinality(S \union {x}) <= Cardinality(S) + 1
<1>1. Cardinality(S) \in Nat
  BY FS_CardinalityType
<1>2. ASSUME NEW T \in SUBSET S
      PROVE  IsFiniteSet(T) /\ Cardinality(T) \in Nat /\ Cardinality(T) <= Cardinality(S)
  BY FS_Subset, FS_CardinalityType
<1>3. ASSUME NEW x
      PROVE  IsFiniteSet(S \union {x}) /\ Cardinality(S \union {x}) <= Cardinality(S) + 1
  BY <1>1, FS_AddElement
<1> QED
  BY <1>1, <1>2, <1>3

\* Only recordSuccessfulSend adds to the log; midnight and a deletion take entries away.
LEMMA LogSteps ==
  ASSUME TypeOK, [Next]_vars
  PROVE  sendLog' \subseteq sendLog \/ \E c \in Campaigns : Log(c)
<1>1. ASSUME NEW c \in Campaigns, TaskStep(c)
      PROVE  sendLog' = sendLog \/ Log(c)
  BY <1>1 DEF TaskStep, Begin, Decide, Loop, Stop, Claim, NothingToClaim, Recheck, Delay, PreSend, GiveBack,
         Hold, HoldRows, GuardStopped, GuardDuplicate, GuardExhausted, FullRow, GuardPick, Accept, Mark,
         Throw, Catch, storeVars, mailVars
<1>2. ASSUME PollLoop
      PROVE  sendLog' = sendLog
  BY <1>2 DEF PollLoop, PollStep, Activate, ActivateWrite, Arm, AutoPauseSelect, AutoPauseWrite,
         AutoPauseRows, DurationSelect, DurationEach, DurationWrite, DurationHold,
         DurationHoldRows, DurationEnd, WindowSelect, WindowEach, WindowHold, WindowHoldRows,
         WindowEnd, DailySelect, DailyEach, DailyWrite, DailyEnd, Enqueue, Complete, Select, EndOf,
         Skip, Choose, PauseCur, ReleaseCur, ResumeCur, Back, storeVars, mailVars
<1>3. ASSUME Api
      PROVE  sendLog' \subseteq sendLog
  BY <1>3 DEF Api, ApiStep, StartResume, Pause, Edit, Delete, Ask, AskPause, AskEdit, AskSettings, AskDelete,
         AskRemove, Submit, FindOther, PauseOther, OtherRows, Check, ResumeRows, WriteRunning, PauseWrite,
         PauseRows, EditWrite, SettingsWrite, Reconcile, ReconcileHold, ReconcileRows, ReconcileResume,
         DeleteLog, DeleteRows, DeleteCampaign, Remove, Upload, Report, storeVars, mailVars
<1>4. ASSUME Time \/ Crash \/ UNCHANGED vars
      PROVE  sendLog' \subseteq sendLog
  BY <1>4 DEF Time, Clock, Midnight, WindowFlip, PauseTime, ScheduleTime, Crash, vars, storeVars, mailVars
<1> QED
  BY <1>1, <1>2, <1>3, <1>4 DEF Next, Worker

\* The log of a day is finite.
FiniteLog == IsFiniteSet(sendLog)

LEMMA FiniteLogStays ==
  ASSUME TypeOK, FiniteLog, [Next]_vars
  PROVE  FiniteLog'
<1>1. ASSUME NEW c \in Campaigns, Log(c)
      PROVE  IsFiniteSet(sendLog')
  BY <1>1, LogCount DEF Log, FiniteLog
<1> QED
  BY <1>1, LogSteps, LogCount DEF FiniteLog

-----------------------------------------------------------------------------
(* The daily cap of a campaign *)

\* From the check before the claim to the log entry there is room for one more.
Room(c) ==
  /\ SentByCampaign(c) <= CampaignCap[c]
  /\ pc[c] \in InHand \union {"claim", "log"} => SentByCampaign(c) < CampaignCap[c]

\* A step that adds nothing to c's part of the log and moves its task on only after a
\* check of the cap keeps the room.
LEMMA RoomKept ==
  ASSUME FiniteLog, NEW c \in Campaigns, Room(c), LogOf(c)' \subseteq LogOf(c),
         pc'[c] \in InHand \union {"claim", "log"} =>
           pc[c] \in InHand \union {"claim", "log"} \/ ~OverCampaignCap(c)
  PROVE  Room(c)'
<1>1. /\ Cardinality(LogOf(c)) \in Nat /\ Cardinality(LogOf(c)') \in Nat
      /\ Cardinality(LogOf(c)') <= Cardinality(LogOf(c))
  <2>1. IsFiniteSet(LogOf(c))
    BY LogCount DEF FiniteLog, LogOf
  <2> QED
    BY <2>1, LogCount
<1>2. SentByCampaign(c) = Cardinality(LogOf(c)) /\ SentByCampaign(c)' = Cardinality(LogOf(c)')
  BY DEF SentByCampaign, LogOf
<1>3. CampaignCap[c] \in Nat
  BY StoreAssumption
<1> QED
  BY <1>1, <1>2, <1>3 DEF Room, OverCampaignCap

\* The task of c: the check before the claim, and again after it, then one entry.
LEMMA TaskRoom ==
  ASSUME TypeOK, FiniteLog, NEW c \in Campaigns, TaskStep(c), Room(c)
  PROVE  Room(c)'
<1> USE DEF TypeOK, TaskTypeOK, GoTo, Drop, InHand
<1>1. CASE Log(c)
  <2>1. LogOf(c)' \subseteq LogOf(c) \union {CurrentMail(c)}
    BY <1>1 DEF Log, LogOf
  <2>2. IsFiniteSet(LogOf(c))
    BY LogCount DEF FiniteLog, LogOf
  <2>3. /\ Cardinality(LogOf(c)) \in Nat /\ Cardinality(LogOf(c)') \in Nat
        /\ Cardinality(LogOf(c)') <= Cardinality(LogOf(c)) + 1
    <3>1. /\ IsFiniteSet(LogOf(c) \union {CurrentMail(c)})
          /\ Cardinality(LogOf(c) \union {CurrentMail(c)}) <= Cardinality(LogOf(c)) + 1
      BY <2>2, LogCount
    <3>2. /\ Cardinality(LogOf(c)') \in Nat
          /\ Cardinality(LogOf(c)') <= Cardinality(LogOf(c) \union {CurrentMail(c)})
      BY <2>1, <3>1, LogCount
    <3>3. Cardinality(LogOf(c)) \in Nat /\ Cardinality(LogOf(c) \union {CurrentMail(c)}) \in Nat
      BY <2>2, <3>1, LogCount
    <3> QED
      BY <3>1, <3>2, <3>3
  <2>4. SentByCampaign(c) = Cardinality(LogOf(c)) /\ SentByCampaign(c)' = Cardinality(LogOf(c)')
    BY DEF SentByCampaign, LogOf
  <2>5. CampaignCap[c] \in Nat /\ pc[c] = "log" /\ pc'[c] = "loop"
    BY <1>1, StoreAssumption DEF Log
  <2> QED
    BY <2>3, <2>4, <2>5 DEF Room
<1>2. CASE ~Log(c)
  <2>1. sendLog' = sendLog
    BY <1>2 DEF TaskStep, Begin, Decide, Loop, Stop, Claim, NothingToClaim, Recheck, Delay, PreSend, GiveBack,
         Hold, HoldRows, GuardStopped, GuardDuplicate, GuardExhausted, FullRow, GuardPick, Accept, Mark,
         Throw, Catch, storeVars, mailVars
  <2>2. LogOf(c)' = LogOf(c)
    BY <2>1 DEF LogOf
  <2>3. pc'[c] \in InHand \union {"claim", "log"} =>
          pc[c] \in InHand \union {"claim", "log"} \/ ~OverCampaignCap(c)
    BY <1>2 DEF TaskStep, Begin, Decide, Loop, Stop, Claim, NothingToClaim, Recheck, Delay, PreSend, GiveBack,
         Hold, HoldRows, GuardStopped, GuardDuplicate, GuardExhausted, FullRow, GuardPick, Accept, Mark,
         Throw, Catch, FullVerdict
  <2> QED
    BY <2>2, <2>3, RoomKept
<1> QED
  BY <1>1, <1>2

\* Every step keeps the room of every campaign.
LEMMA RoomStays ==
  ASSUME TypeOK, RowHeld, FiniteLog, [Next]_vars, NEW c \in Campaigns, Room(c)
  PROVE  Room(c)'
<1>1. CASE TaskStep(c)
  BY <1>1, TaskRoom
<1>2. CASE ~TaskStep(c)
  <2>1. LogOf(c)' \subseteq LogOf(c)
    <3>1. ASSUME NEW d \in Campaigns, Log(d)
          PROVE  LogOf(c)' \subseteq LogOf(c)
      <4>1. d # c
        BY <1>2, <3>1 DEF TaskStep
      <4>2. CampaignOf[CurrentMail(d).rcpt] = d /\ sendLog' = sendLog \union {CurrentMail(d)}
        BY <3>1 DEF Log, CurrentMail, RowHeld, Holding
      <4> QED
        BY <4>1, <4>2 DEF LogOf
    <3>2. CASE sendLog' \subseteq sendLog
      BY <3>2 DEF LogOf
    <3> QED
      BY <3>1, <3>2, LogSteps
  <2>2. pc'[c] \in InHand \union {"claim", "log"} => pc[c] \in InHand \union {"claim", "log"}
    <3>1. CASE Crash
      BY <3>1 DEF Crash, InHand
    <3>2. CASE ~Crash
      BY <1>2, <3>2, OtherTasks DEF InHand
    <3> QED
      BY <3>1, <3>2
  <2> QED
    BY <2>1, <2>2, RoomKept
<1> QED
  BY <1>1, <1>2

\* The sends of a campaign that are logged today, and the one its task is about to log,
\* stay within the daily cap of the campaign, although the cap is checked before the claim
\* and the log is written last: pauses, resumes, deletions, crashes and midnight between
\* the two leave the room that the check has found.
THEOREM DailyCapHolds == Spec => []DailyCapKept
<1> DEFINE Inv == FiniteLog /\ \A c \in Campaigns : Room(c)
<1>1. Init => Inv
  <2> SUFFICES ASSUME Init PROVE Inv
    OBVIOUS
  <2>1. FiniteLog
    BY FS_EmptySet DEF Init, FiniteLog
  <2>2. ASSUME NEW c \in Campaigns
        PROVE  Room(c)
    <3>1. {m \in sendLog : CampaignOf[m.rcpt] = c} = {}
      BY DEF Init
    <3>2. SentByCampaign(c) = 0
      BY <3>1, FS_EmptySet DEF SentByCampaign
    <3>3. CampaignCap[c] \in Nat \ {0}
      BY StoreAssumption
    <3> QED
      BY <3>2, <3>3 DEF Room
  <2> QED
    BY <2>1, <2>2
<1>2. TypeOK /\ RowHeld /\ MailInv /\ Inv /\ [Next]_vars => Inv'
  BY FiniteLogStays, RoomStays
<1>3. TypeOK /\ RowHeld /\ MailInv /\ Inv => DailyCapKept
  <2> SUFFICES ASSUME TypeOK, RowHeld, Inv, NEW c \in Campaigns,
                      NEW inFlight, inFlight = IF pc[c] = "log" THEN {CurrentMail(c)} ELSE {}
               PROVE  Cardinality({m \in sendLog \union inFlight : CampaignOf[m.rcpt] = c}) <= CampaignCap[c]
    BY DEF DailyCapKept
  <2> DEFINE S == {m \in sendLog \union inFlight : CampaignOf[m.rcpt] = c}
  <2>1. Room(c) /\ CampaignCap[c] \in Nat /\ IsFiniteSet(LogOf(c)) /\ SentByCampaign(c) = Cardinality(LogOf(c))
    BY StoreAssumption, LogCount DEF FiniteLog, LogOf, SentByCampaign
  <2>2. CASE pc[c] = "log"
    <3>1. S \subseteq LogOf(c) \union {CurrentMail(c)}
      BY <2>2 DEF LogOf
    <3>2. /\ IsFiniteSet(LogOf(c) \union {CurrentMail(c)})
          /\ Cardinality(LogOf(c) \union {CurrentMail(c)}) <= Cardinality(LogOf(c)) + 1
          /\ Cardinality(LogOf(c)) \in Nat
      BY <2>1, LogCount
    <3>3. /\ Cardinality(S) \in Nat
          /\ Cardinality(S) <= Cardinality(LogOf(c) \union {CurrentMail(c)})
          /\ Cardinality(LogOf(c) \union {CurrentMail(c)}) \in Nat
      BY <3>1, <3>2, LogCount
    <3>4. Cardinality(LogOf(c)) < CampaignCap[c]
      BY <2>1, <2>2 DEF Room
    <3> HIDE DEF S
    <3>5. Cardinality(S) <= CampaignCap[c]
      BY <2>1, <3>2, <3>3, <3>4
    <3> QED
      BY <3>5 DEF S
  <2>3. CASE pc[c] # "log"
    <3>1. S = LogOf(c)
      BY <2>3 DEF LogOf
    <3> QED
      BY <2>1, <3>1 DEF Room
  <2> QED
    BY <2>2, <2>3
<1> HIDE DEF Inv
<1> QED
  BY <1>1, <1>2, <1>3, Inductive, PTL DEF Spec

-----------------------------------------------------------------------------
(* The daily limit of an account *)

\* The places between the choice of an account and the log entry of the send.
Reserved == {"smtp", "mark", "log"}

\* An account in use is one of the campaign's own list.
Listed(c) == pc[c] \in Reserved => c \in Sharing(acct[c])

Bounded(a) ==
  Sharing(a) # {} =>
    SentByAccount(a) + Cardinality(Unlogged(a)) < SmtpCap[a] + Cardinality(Sharing(a))

AccountInv == FiniteLog /\ (\A c \in Campaigns : Listed(c)) /\ \A a \in Accounts : Bounded(a)

\* A task that comes to use an account has just found quota on it, in its own list.
LEMMA PickReserves ==
  ASSUME TypeOK, NEW c \in Campaigns, TaskStep(c), pc'[c] \in Reserved
  PROVE  \/ pc[c] \in Reserved /\ acct'[c] = acct[c]
         \/ c \in Sharing(acct'[c]) /\ HasQuota(acct'[c])
<1>1. CASE GuardPick(c)
  BY <1>1 DEF GuardPick, FirstUsable, Usable, Sharing, TypeOK, TaskTypeOK
<1>2. CASE ~GuardPick(c)
  BY <1>2 DEF TaskStep, Begin, Decide, Loop, Stop, Claim, NothingToClaim, Recheck, Delay, PreSend, GiveBack,
         Hold, HoldRows, GuardStopped, GuardDuplicate, GuardExhausted, FullRow, Accept, Mark, Log,
         Throw, Catch, GoTo, Drop, Reserved, TypeOK, TaskTypeOK
<1> QED
  BY <1>1, <1>2

\* Only its own task brings a campaign to an account.
LEMMA OthersReserveNothing ==
  ASSUME TypeOK, [Next]_vars, NEW c \in Campaigns, ~TaskStep(c), pc'[c] \in Reserved
  PROVE  pc[c] \in Reserved /\ acct'[c] = acct[c]
<1>1. ~Crash
  BY DEF Crash, Reserved
<1> QED
  BY <1>1, OtherTasks DEF Reserved

\* The accounts in use stay accounts of the list.
LEMMA ListedStays ==
  ASSUME TypeOK, [Next]_vars, NEW c \in Campaigns, Listed(c)
  PROVE  Listed(c)'
<1>1. \A a : Sharing(a)' = Sharing(a)
  BY DEF Sharing
<1>2. CASE TaskStep(c)
  BY <1>1, <1>2, PickReserves DEF Listed
<1>3. CASE ~TaskStep(c)
  BY <1>1, <1>3, OthersReserveNothing DEF Listed
<1> QED
  BY <1>2, <1>3

\* What counts for the bound is finite.
LEMMA AccountCounts ==
  ASSUME FiniteLog, NEW a
  PROVE  /\ IsFiniteSet(Unlogged(a)) /\ Cardinality(Unlogged(a)) \in Nat
         /\ IsFiniteSet(Sharing(a)) /\ Cardinality(Sharing(a)) \in Nat
         /\ IsFiniteSet(LogBy(a)) /\ Cardinality(LogBy(a)) \in Nat
         /\ SentByAccount(a) = Cardinality(LogBy(a))
<1>1. Unlogged(a) \subseteq Campaigns /\ Sharing(a) \subseteq Campaigns /\ LogBy(a) \subseteq sendLog
  BY DEF Unlogged, Sharing, LogBy
<1> QED
  BY <1>1, FiniteAssumption, LogCount DEF FiniteLog, SentByAccount, LogBy

\* With fewer entries and fewer messages on their way the bound holds as before.
LEMMA BoundShrinks ==
  ASSUME FiniteLog, FiniteLog', NEW a \in Accounts, Bounded(a),
         LogBy(a)' \subseteq LogBy(a), Unlogged(a)' \subseteq Unlogged(a)
  PROVE  Bounded(a)'
<1>1. /\ Cardinality(LogBy(a)') \in Nat /\ Cardinality(LogBy(a)') <= Cardinality(LogBy(a))
      /\ Cardinality(Unlogged(a)') \in Nat /\ Cardinality(Unlogged(a)') <= Cardinality(Unlogged(a))
  BY AccountCounts, LogCount
<1>2. /\ Cardinality(LogBy(a)) \in Nat /\ Cardinality(Unlogged(a)) \in Nat /\ Cardinality(Sharing(a)) \in Nat
      /\ SentByAccount(a) = Cardinality(LogBy(a)) /\ SmtpCap[a] \in Nat
  BY AccountCounts, StoreAssumption
<1>3. SentByAccount(a)' = Cardinality(LogBy(a)') /\ Sharing(a)' = Sharing(a)
  BY DEF SentByAccount, LogBy, Sharing
<1>4. (Sharing(a) # {} => SentByAccount(a) + Cardinality(Unlogged(a)) < SmtpCap[a] + Cardinality(Sharing(a)))'
  BY <1>1, <1>2, <1>3 DEF Bounded
<1> QED
  BY <1>4 DEF Bounded

\* The choice of an account with quota left: only campaigns that share the account can
\* have messages on their way, so the bound holds however many there are.
LEMMA BoundAtPick ==
  ASSUME FiniteLog, NEW a \in Accounts, HasQuota(a), sendLog' = sendLog, Unlogged(a)' \subseteq Sharing(a)
  PROVE  Bounded(a)'
<1>1. Cardinality(Unlogged(a)') \in Nat /\ Cardinality(Unlogged(a)') <= Cardinality(Sharing(a))
  BY AccountCounts, LogCount
<1>2. /\ Cardinality(Sharing(a)) \in Nat /\ SentByAccount(a) \in Nat /\ SentByAccount(a) < SmtpCap[a]
      /\ SmtpCap[a] \in Nat
  BY AccountCounts, StoreAssumption DEF HasQuota
<1>3. SentByAccount(a)' = SentByAccount(a) /\ Sharing(a)' = Sharing(a)
  BY DEF SentByAccount, Sharing
<1>4. (Sharing(a) # {} => SentByAccount(a) + Cardinality(Unlogged(a)) < SmtpCap[a] + Cardinality(Sharing(a)))'
  BY <1>1, <1>2, <1>3
<1> QED
  BY <1>4 DEF Bounded

\* The log entry: one message less on its way, one entry more.
LEMMA BoundAtLog ==
  ASSUME TypeOK, FiniteLog, FiniteLog', NEW c \in Campaigns, Log(c), NEW a \in Accounts, Bounded(a),
         \A d \in Campaigns \ {c} : pc'[d] = pc[d] /\ acct'[d] = acct[d]
  PROVE  Bounded(a)'
<1>1. /\ pc[c] = "log" /\ pc'[c] = "loop" /\ acct'[c] = acct[c]
      /\ sendLog' = sendLog \union {CurrentMail(c)}
  BY DEF Log, Drop, GoTo, TypeOK, TaskTypeOK
<1>2. CASE acct[c] = a
  <2>1. c \in Unlogged(a) /\ Unlogged(a)' = Unlogged(a) \ {c}
    BY <1>1, <1>2 DEF Unlogged
  <2>2. Cardinality(Unlogged(a)') = Cardinality(Unlogged(a)) - 1
    BY <2>1, AccountCounts, FS_RemoveElement
  <2>3. LogBy(a)' \subseteq LogBy(a) \union {CurrentMail(c)}
    BY <1>1 DEF LogBy
  <2>4. /\ IsFiniteSet(LogBy(a) \union {CurrentMail(c)})
        /\ Cardinality(LogBy(a) \union {CurrentMail(c)}) <= Cardinality(LogBy(a)) + 1
    BY AccountCounts, LogCount
  <2>5. /\ Cardinality(LogBy(a)') \in Nat /\ Cardinality(LogBy(a) \union {CurrentMail(c)}) \in Nat
        /\ Cardinality(LogBy(a)') <= Cardinality(LogBy(a) \union {CurrentMail(c)})
    BY <2>3, <2>4, LogCount
  <2>6. /\ Cardinality(LogBy(a)) \in Nat /\ Cardinality(Unlogged(a)) \in Nat /\ Cardinality(Sharing(a)) \in Nat
        /\ SentByAccount(a) = Cardinality(LogBy(a)) /\ SmtpCap[a] \in Nat
    BY AccountCounts, StoreAssumption
  <2>7. SentByAccount(a)' = Cardinality(LogBy(a)') /\ Sharing(a)' = Sharing(a)
    BY DEF SentByAccount, LogBy, Sharing
  <2>8. (Sharing(a) # {} => SentByAccount(a) + Cardinality(Unlogged(a)) < SmtpCap[a] + Cardinality(Sharing(a)))'
    BY <2>2, <2>4, <2>5, <2>6, <2>7 DEF Bounded
  <2> QED
    BY <2>8 DEF Bounded
<1>3. CASE acct[c] # a
  <2>1. LogBy(a)' = LogBy(a)
    BY <1>1, <1>3 DEF LogBy, CurrentMail
  <2>2. Unlogged(a)' \subseteq Unlogged(a)
    BY <1>1, <1>3 DEF Unlogged
  <2> QED
    BY <2>1, <2>2, BoundShrinks
<1> QED
  BY <1>2, <1>3

\* Every step keeps the bound of every account.
LEMMA BoundStays ==
  ASSUME TypeOK, FiniteLog, FiniteLog', \A c \in Campaigns : Listed(c), \A c \in Campaigns : Listed(c)',
         [Next]_vars, NEW a \in Accounts, Bounded(a)
  PROVE  Bounded(a)'
<1>1. ASSUME NEW c \in Campaigns, Log(c)
      PROVE  Bounded(a)'
  <2>1. \A d \in Campaigns \ {c} : pc'[d] = pc[d] /\ acct'[d] = acct[d]
    BY <1>1, TaskApart DEF TaskStep
  <2> QED
    BY <1>1, <2>1, BoundAtLog
<1>2. ASSUME sendLog' \subseteq sendLog, Unlogged(a)' \subseteq Unlogged(a)
      PROVE  Bounded(a)'
  <2>1. LogBy(a)' \subseteq LogBy(a)
    BY <1>2 DEF LogBy
  <2> QED
    BY <1>2, <2>1, BoundShrinks
<1>3. ASSUME NEW c \in Unlogged(a)', c \notin Unlogged(a)
      PROVE  Bounded(a)'
  <2>1. c \in Campaigns /\ pc'[c] \in Reserved /\ acct'[c] = a /\ ~(pc[c] \in Reserved /\ acct'[c] = acct[c])
    BY <1>3 DEF Unlogged, Reserved
  <2>2. TaskStep(c)
    BY <2>1, OthersReserveNothing
  <2>3. HasQuota(a)
    BY <2>1, <2>2, PickReserves
  <2>4. GuardPick(c)
    BY <2>1, <2>2 DEF TaskStep, Begin, Decide, Loop, Stop, Claim, NothingToClaim, Recheck, Delay, PreSend,
         GiveBack, Hold, HoldRows, GuardStopped, GuardDuplicate, GuardExhausted, FullRow, Accept, Mark, Log,
         Throw, Catch, GoTo, Drop, Reserved, TypeOK, TaskTypeOK
  <2>5. sendLog' = sendLog
    BY <2>4 DEF GuardPick, storeVars, mailVars
  <2>6. Unlogged(a)' \subseteq Sharing(a)
    BY DEF Unlogged, Listed, Reserved, Sharing
  <2> QED
    BY <2>3, <2>5, <2>6, BoundAtPick
<1> QED
  BY <1>1, <1>2, <1>3, LogSteps

\* Nothing reserves an account between pickAvailableSmtp and recordSuccessfulSend, so the
\* daily limit of an account can be exceeded; but with the messages on their way counted
\* it is exceeded by less than the number of campaigns that have it in their list.
THEOREM OvershootBounded == Spec => []AccountOvershootBounded
<1>1. Init => AccountInv
  <2> SUFFICES ASSUME Init PROVE AccountInv
    OBVIOUS
  <2>1. FiniteLog
    BY FS_EmptySet DEF Init, FiniteLog
  <2>2. ASSUME NEW c \in Campaigns
        PROVE  Listed(c)
    BY DEF Init, Listed, Reserved
  <2>3. ASSUME NEW a \in Accounts
        PROVE  Bounded(a)
    <3>1. LogBy(a) = {} /\ Unlogged(a) = {}
      BY DEF Init, LogBy, Unlogged
    <3>2. SentByAccount(a) = 0 /\ Cardinality(Unlogged(a)) = 0
      BY <2>1, <3>1, AccountCounts, FS_EmptySet
    <3>3. Sharing(a) # {} => Cardinality(Sharing(a)) > 0
      BY <2>1, AccountCounts, FS_EmptySet
    <3>4. SmtpCap[a] \in Nat /\ Cardinality(Sharing(a)) \in Nat
      BY <2>1, AccountCounts, StoreAssumption
    <3> QED
      BY <3>2, <3>3, <3>4 DEF Bounded
  <2> QED
    BY <2>1, <2>2, <2>3 DEF AccountInv
<1>2. TypeOK /\ AccountInv /\ [Next]_vars => AccountInv'
  <2> SUFFICES ASSUME TypeOK, AccountInv, [Next]_vars
               PROVE  AccountInv'
    OBVIOUS
  <2>1. FiniteLog'
    BY FiniteLogStays DEF AccountInv
  <2>2. \A c \in Campaigns : Listed(c)'
    BY ListedStays DEF AccountInv
  <2>3. \A a \in Accounts : Bounded(a)'
    BY <2>1, <2>2, BoundStays DEF AccountInv
  <2> QED
    BY <2>1, <2>2, <2>3 DEF AccountInv
<1>3. AccountInv => AccountOvershootBounded
  BY DEF AccountInv, Bounded, AccountOvershootBounded
<1> QED
  BY <1>1, <1>2, <1>3, TypeCorrect, PTL DEF Spec

-----------------------------------------------------------------------------
(* The pause of a user *)

StaysPaused(c) == cstatus'[c] = "paused" /\ reason'[c] = "none" /\ WorkerQuiet(c)'

\* A statement on another campaign leaves c as it is; a pause without a reason may hit it.
LEMMA StatementsElsewhere ==
  ASSUME CampaignsOK, NEW c \in Campaigns, NEW d
  PROVE  /\ \A v, t : SetPaused(d, v, t) /\ d # c => cstatus'[c] = cstatus[c] /\ reason'[c] = reason[c]
         /\ \A t : SetRunning(d, t) /\ d # c => cstatus'[c] = cstatus[c] /\ reason'[c] = reason[c]
         /\ \A t : SetPaused(d, "none", t) /\ cstatus[c] = "paused" /\ reason[c] = "none" =>
              cstatus'[c] = "paused" /\ reason'[c] = "none"
<1>1. \A v, t : SetPaused(d, v, t) /\ d # c => cstatus'[c] = cstatus[c] /\ reason'[c] = reason[c]
  BY DEF SetPaused, campaignVars, CampaignsOK
<1>2. \A t : SetRunning(d, t) /\ d # c => cstatus'[c] = cstatus[c] /\ reason'[c] = reason[c]
  BY DEF SetRunning, campaignVars, CampaignsOK
<1>3. \A t : SetPaused(d, "none", t) /\ cstatus[c] = "paused" /\ reason[c] = "none" =>
        cstatus'[c] = "paused" /\ reason'[c] = "none"
  BY DEF SetPaused, campaignVars, CampaignsOK
<1> QED
  BY <1>1, <1>2, <1>3

\* No task prepares a pause of a campaign that it finds paused.
LEMMA TaskKeepsPause ==
  ASSUME TypeOK, NEW c \in Campaigns, cstatus[c] = "paused", reason[c] = "none", WorkerQuiet(c),
         NEW d \in Campaigns, Worker(d)
  PROVE  StaysPaused(c)
<1>a. CampaignsOK
  BY DEF TypeOK, StoreTypeOK, CampaignsOK
<1>1. UNCHANGED <<cur, todo>>
  BY DEF Worker, pollVars
<1>2. UNCHANGED campaignVars \/ Hold(d)
  BY DEF Worker, TaskStep, Begin, Decide, Loop, Stop, Claim, NothingToClaim, Recheck, Delay, PreSend, GiveBack,
         HoldRows, GuardStopped, GuardDuplicate, GuardExhausted, FullRow, GuardPick, Accept, Mark, Log,
         Throw, Catch, storeVars
<1>3. cstatus'[c] = "paused" /\ reason'[c] = "none"
  <2>1. CASE UNCHANGED campaignVars
    BY <2>1 DEF campaignVars
  <2>2. CASE Hold(d)
    <3>1. d # c /\ SetPaused(d, why[d], "today")
      BY <2>2 DEF Hold, WorkerQuiet
    <3> QED
      BY <1>a, <3>1, StatementsElsewhere
  <2> QED
    BY <1>2, <2>1, <2>2
<1>4. pc'[c] \notin {"hold", "full"}
  <2>1. CASE d = c
    BY <2>1 DEF Worker, TaskStep, Begin, Decide, Loop, Stop, Claim, NothingToClaim, Recheck, Delay, PreSend,
         GiveBack, Hold, HoldRows, GuardStopped, GuardDuplicate, GuardExhausted, FullRow, GuardPick, Accept,
         Mark, Log, Throw, Catch, GoTo, Drop, WorkerQuiet, TypeOK, TaskTypeOK
  <2>2. CASE d # c
    BY <2>2, TaskApart DEF Worker, WorkerQuiet
  <2> QED
    BY <2>1, <2>2
<1> QED
  BY <1>1, <1>3, <1>4 DEF StaysPaused, WorkerQuiet

\* Neither does the poll loop select it, nor write to what it has not selected.
LEMMA PollKeepsPause ==
  ASSUME TypeOK, NEW c \in Campaigns, cstatus[c] = "paused", reason[c] = "none", WorkerQuiet(c), PollLoop
  PROVE  StaysPaused(c)
<1>a. CampaignsOK /\ PollStep /\ cur # c /\ c \notin todo /\ NoCampaign # c
  BY StoreAssumption DEF TypeOK, StoreTypeOK, CampaignsOK, PollLoop, WorkerQuiet
<1>1. pc'[c] \notin {"hold", "full"}
  BY <1>a, PollTasks DEF WorkerQuiet
<1>2. cur' # c /\ c \notin todo'
  <2>1. CASE Activate \/ AutoPauseSelect \/ DurationSelect \/ WindowSelect \/ DailySelect
    BY <1>a, <2>1 DEF Activate, AutoPauseSelect, DurationSelect, WindowSelect, DailySelect, Select, Running,
                      DailyReasons
  <2>2. CASE DurationEach \/ WindowEach \/ DailyEach
    BY <1>a, <2>2 DEF DurationEach, WindowEach, DailyEach, Skip, Choose
  <2>3. CASE ActivateWrite \/ Arm \/ AutoPauseWrite \/ AutoPauseRows \/ Enqueue \/ Complete
    BY <1>a, <2>3 DEF ActivateWrite, Arm, AutoPauseWrite, AutoPauseRows, Enqueue, Complete
  <2>4. CASE DurationWrite \/ DurationHold \/ DurationHoldRows \/ DurationEnd \/ WindowHold \/ WindowHoldRows
             \/ WindowEnd \/ DailyWrite \/ DailyEnd
    BY <1>a, <2>4 DEF DurationWrite, DurationHold, DurationHoldRows, DurationEnd, WindowHold, WindowHoldRows,
                      WindowEnd, DailyWrite, DailyEnd, PauseCur, ReleaseCur, ResumeCur, EndOf, Back
  <2> QED
    BY <1>a, <2>1, <2>2, <2>3, <2>4 DEF PollStep
<1>3. cstatus'[c] = "paused" /\ reason'[c] = "none"
  <2>1. CASE ActivateWrite \/ AutoPauseWrite \/ Complete
    BY <1>a, <2>1 DEF ActivateWrite, AutoPauseWrite, Complete, Running, CampaignsOK
  <2>2. CASE DurationWrite \/ DurationHold \/ WindowHold \/ DailyWrite
    <3>1. (\E v, t : SetPaused(cur, v, t)) \/ (\E t : SetRunning(cur, t))
      BY <2>2 DEF DurationWrite, DurationHold, WindowHold, DailyWrite, PauseCur, ResumeCur
    <3> QED
      BY <1>a, <3>1, StatementsElsewhere
  <2>3. CASE ~(ActivateWrite \/ AutoPauseWrite \/ Complete) /\ ~(DurationWrite \/ DurationHold \/ WindowHold \/ DailyWrite)
    <3>1. UNCHANGED <<cstatus, reason>>
      BY <1>a, <2>3 DEF PollStep, Activate, Arm, AutoPauseSelect, AutoPauseRows, DurationSelect, DurationEach,
           DurationHoldRows, DurationEnd, WindowSelect, WindowEach, WindowHoldRows, WindowEnd, DailySelect,
           DailyEach, DailyEnd, Enqueue, Select, EndOf, Skip, Choose, ReleaseCur, storeVars, campaignVars
    <3> QED
      BY <3>1
  <2> QED
    BY <2>1, <2>2, <2>3
<1> QED
  BY <1>1, <1>2, <1>3 DEF StaysPaused, WorkerQuiet

\* A request writes its own campaign, or pauses another one as the user would.
LEMMA ApiKeepsPause ==
  ASSUME TypeOK, NEW c \in Campaigns, cstatus[c] = "paused", reason[c] = "none", WorkerQuiet(c),
         req[c] = NoRequest, Api
  PROVE  StaysPaused(c)
<1>a. CampaignsOK
  BY DEF TypeOK, StoreTypeOK, CampaignsOK
<1>1. UNCHANGED <<taskVars, pollVars>>
  BY DEF Api, ApiStep, StartResume, Pause, Edit, Delete, Ask, AskPause, AskEdit, AskSettings, AskDelete,
         AskRemove, Submit, FindOther, PauseOther, OtherRows, Check, ResumeRows, WriteRunning, PauseWrite,
         PauseRows, EditWrite, SettingsWrite, Reconcile, ReconcileHold, ReconcileRows, ReconcileResume,
         DeleteLog, DeleteRows, DeleteCampaign, Remove, Upload, Report
<1>2. ASSUME NEW d \in Campaigns, StartResume(d)
      PROVE  UNCHANGED <<cstatus, reason>> \/ PauseOther(d) \/ WriteRunning(d)
  BY <1>2 DEF StartResume, Ask, Submit, FindOther, OtherRows, Check, ResumeRows, storeVars, campaignVars
<1>3. ASSUME NEW d \in Campaigns, Pause(d) \/ Edit(d) \/ Delete(d)
      PROVE  \/ UNCHANGED <<cstatus, reason>>
             \/ PauseWrite(d) \/ EditWrite(d) \/ SettingsWrite(d) \/ ReconcileHold(d)
             \/ ReconcileResume(d) \/ DeleteCampaign(d)
  BY <1>3 DEF Pause, Edit, Delete, AskPause, AskEdit, AskSettings, AskDelete, AskRemove, Submit, PauseRows,
         Reconcile, ReconcileRows, DeleteLog, DeleteRows, Remove, storeVars, campaignVars
<1>4. ASSUME NEW r \in Recipients, Upload(r) \/ Report(r)
      PROVE  UNCHANGED <<cstatus, reason>>
  BY <1>4 DEF Upload, Report, campaignVars
<1>5. ASSUME NEW d \in Campaigns, PauseOther(d)
      PROVE  cstatus'[c] = "paused" /\ reason'[c] = "none"
  BY <1>a, <1>5, StatementsElsewhere DEF PauseOther
<1>6. ASSUME NEW d \in Campaigns,
             \/ WriteRunning(d) \/ PauseWrite(d) \/ EditWrite(d) \/ SettingsWrite(d) \/ ReconcileHold(d)
             \/ ReconcileResume(d) \/ DeleteCampaign(d)
      PROVE  cstatus'[c] = "paused" /\ reason'[c] = "none"
  <2>1. d # c
    BY <1>6 DEF WriteRunning, PauseWrite, EditWrite, SettingsWrite, ReconcileHold, ReconcileResume,
                DeleteCampaign, NoRequest
  <2>2. CASE EditWrite(d) \/ DeleteCampaign(d)
    BY <1>a, <2>1, <2>2 DEF EditWrite, DeleteCampaign, CampaignsOK
  <2>3. CASE WriteRunning(d) \/ PauseWrite(d) \/ SettingsWrite(d) \/ ReconcileHold(d) \/ ReconcileResume(d)
    <3>1. (\E v, t : SetPaused(d, v, t)) \/ (\E t : SetRunning(d, t)) \/ UNCHANGED campaignVars
      BY <2>3 DEF WriteRunning, PauseWrite, SettingsWrite, ReconcileHold, ReconcileResume
    <3> QED
      BY <1>a, <2>1, <3>1, StatementsElsewhere DEF campaignVars
  <2> QED
    BY <1>6, <2>2, <2>3
<1>7. cstatus'[c] = "paused" /\ reason'[c] = "none"
  BY <1>2, <1>3, <1>4, <1>5, <1>6 DEF Api, ApiStep
<1> QED
  BY <1>1, <1>7 DEF StaysPaused, WorkerQuiet, taskVars, pollVars

\* A pause by the user ends only by the user: once the decisions taken before it have
\* drained, no step of a task, of the poll loop, of the clock or of a request on another
\* campaign resumes it, gives it a reason that would resume later, or prepares either.
THEOREM UserPauseHolds == Spec => PauseHolds
<1> DEFINE A == \A c \in Campaigns :
                  /\ userPaused[c] /\ cstatus[c] = "paused" /\ reason[c] = "none"
                  /\ WorkerQuiet(c) /\ req[c] = NoRequest
                  => cstatus'[c] = "paused" /\ reason'[c] = "none" /\ WorkerQuiet(c)'
<1>1. TypeOK /\ [Next]_vars => [A]_vars
  <2> SUFFICES ASSUME TypeOK, [Next]_vars, NEW c \in Campaigns, cstatus[c] = "paused", reason[c] = "none",
                      WorkerQuiet(c), req[c] = NoRequest
               PROVE  StaysPaused(c)
    BY DEF StaysPaused
  <2>1. CASE Time \/ UNCHANGED vars
    BY <2>1 DEF Time, Clock, Midnight, WindowFlip, PauseTime, ScheduleTime, vars, storeVars, campaignVars,
                taskVars, pollVars, StaysPaused, WorkerQuiet
  <2>2. CASE Crash
    BY <2>2, StoreAssumption DEF Crash, campaignVars, StaysPaused, WorkerQuiet
  <2> QED
    BY <2>1, <2>2, TaskKeepsPause, PollKeepsPause, ApiKeepsPause DEF Next
<1> QED
  BY <1>1, TypeCorrect, PTL DEF Spec, PauseHolds

-----------------------------------------------------------------------------
(* The delivery of rows *)

\* A worker dies on accepted messages only.
LostInv == \A r \in Recipients : orphans[r] <= accepted[r]

\* A task counts a message when the server accepts it, and nowhere else.
LEMMA TaskCounts ==
  ASSUME NEW c \in Campaigns, TaskStep(c)
  PROVE  orphans' = orphans /\ (accepted' = accepted \/ Accept(c))
<1>1. CASE Accept(c)
  BY <1>1 DEF Accept
<1>2. CASE ~Accept(c)
  BY <1>2 DEF TaskStep, Begin, Decide, Loop, Stop, Claim, NothingToClaim, Recheck, Delay, PreSend,
       GiveBack, Hold, HoldRows, GuardStopped, GuardDuplicate, GuardExhausted,
       FullRow, GuardPick, Mark, Log, Throw, Catch, storeVars, mailVars
<1> QED
  BY <1>1, <1>2

\* Everybody else leaves the counts alone, but for a crash.
LEMMA LostStays ==
  ASSUME TypeOK, RowHeld, LostInv, [Next]_vars
  PROVE  LostInv'
<1> SUFFICES ASSUME NEW r \in Recipients
             PROVE  orphans'[r] <= accepted'[r]
  BY DEF LostInv
<1>a. accepted[r] \in Nat /\ orphans[r] \in Nat /\ orphans[r] <= accepted[r]
  BY DEF TypeOK, StoreTypeOK, LostInv
<1>1. ASSUME NEW c \in Campaigns, TaskStep(c)
      PROVE  orphans'[r] <= accepted'[r]
  <2>1. CASE Accept(c)
    BY <1>a, <1>1, <2>1, TaskCounts DEF Accept, TypeOK, StoreTypeOK
  <2> QED
    BY <1>a, <1>1, <2>1, TaskCounts
<1>2. CASE PollLoop \/ Api \/ Time \/ UNCHANGED vars
  BY <1>a, <1>2, OthersAside DEF Aside
<1>3. CASE Crash
  BY <1>a, <1>3 DEF Crash, Unmarked
<1> QED
  BY <1>1, <1>2, <1>3 DEF Next, Worker

Kept(r) == Stage(r)' = Stage(r)
Closed(r) == Stage(r) # "none" /\ Stage(r)' = "closed"

\* Rows that stay where they are or are closed make a step of the delivery.
LEMMA Closing ==
  ASSUME \A r \in Recipients : Kept(r) \/ Closed(r), UNCHANGED <<accepted, orphans>>
  PROVE  RowsDelivered!Close
<1>1. \A r \in Recipients : Stage(r)' \in RowsDelivered!Stages
  BY DEF Stage, RowsDelivered!Stages
<1> QED
  BY <1>1 DEF RowsDelivered!Close, Kept, Closed

\* So does one row that enters, is taken, or is put back while the others stay.
LEMMA Moving ==
  ASSUME TypeOK, NEW r \in Recipients, \A q \in Recipients \ {r} : Kept(q), UNCHANGED <<accepted, orphans>>,
         \/ Stage(r) = "none" /\ Stage(r)' = "waiting"
         \/ Stage(r) = "waiting" /\ Stage(r)' = "taken"
         \/ Stage(r) = "taken" /\ Stage(r)' = "waiting"
  PROVE  RowsDelivered!DeliveryNext
<1>1. CASE Stage(r) = "none" /\ Stage(r)' = "waiting"
  <2>1. RowsDelivered!Enter(r)
    BY <1>1 DEF RowsDelivered!Enter, Kept
  <2> QED
    BY <2>1 DEF RowsDelivered!DeliveryNext
<1>2. CASE Stage(r) = "waiting" /\ Stage(r)' = "taken"
  <2>1. RowsDelivered!Take({r})
    BY <1>2 DEF RowsDelivered!Take, Kept
  <2> QED
    BY <2>1 DEF RowsDelivered!DeliveryNext
<1>3. CASE Stage(r) = "taken" /\ Stage(r)' = "waiting"
  <2>1. \A q \in Recipients : Stage(q)' \in RowsDelivered!Stages
    BY DEF Stage, RowsDelivered!Stages
  <2>2. orphans' = [q \in Recipients |-> IF q \in {r} /\ Stage(q) = "mailed" THEN orphans[q] + 1 ELSE orphans[q]]
    BY <1>3 DEF TypeOK, StoreTypeOK
  <2>3. RowsDelivered!Release({r})
    BY <1>3, <2>1, <2>2 DEF RowsDelivered!Release, Kept
  <2> QED
    BY <2>3 DEF RowsDelivered!DeliveryNext
<1> QED
  BY <1>1, <1>2, <1>3

\* A step beside a row leaves it where it is or closes it, but for an upload.
LEMMA BesideStage ==
  ASSUME RowHeld, NEW r \in Recipients, Fresh(r), Mailed(r), Beside(r)
  PROVE  \/ Kept(r) \/ Closed(r)
         \/ rstatus[r] = "absent" /\ rstatus'[r] = "pending" /\ Stage(r) = "none" /\ Stage(r)' = "waiting"
<1>1. CampaignOf[r] \in Campaigns /\ NoRow # r
  BY StoreAssumption
<1>2. pc[CampaignOf[r]] = "off" => row[CampaignOf[r]] # r
  BY <1>1 DEF RowHeld, Between
<1> QED
  BY <1>1, <1>2 DEF Beside, Fresh, Mailed, Stage, Kept, Closed, Settled

\* The poll loop, the clock and every request close rows, or none; an upload enters one.
LEMMA OthersDeliver ==
  ASSUME TypeOK, RowHeld, MailInv, CarriedInv, RowsInv, PollLoop \/ Api \/ Time \/ UNCHANGED vars
  PROVE  RowsDelivered!DeliveryNext
<1>a. \A r \in Recipients : Fresh(r) /\ Mailed(r) /\ Beside(r) /\ Aside(r)
  BY PollBeside, ApiBeside, TimeBeside, OthersAside DEF RowsInv, MailInv
<1>b. UNCHANGED <<accepted, orphans>>
  <2>1. CASE Recipients = {}
    <3>1. TypeOK' /\ TypeOK
      BY Step DEF Next
    <3> QED
      BY <2>1, <3>1 DEF TypeOK, StoreTypeOK
  <2> QED
    BY <1>a, <2>1 DEF Aside
<1>1. ASSUME NEW r \in Recipients, rstatus[r] = "absent", rstatus'[r] = "pending"
      PROVE  Upload(r)
  <2>1. ASSUME NEW q \in Recipients, Upload(q) \/ Report(q)
        PROVE  q = r /\ Upload(r)
    BY <1>1, <2>1 DEF Upload, Report, TypeOK, StoreTypeOK
  <2>2. CASE Api
    BY <1>1, <2>1, <2>2, ApiFrame DEF ByRequest, ReleaseRows, RemoveRows
  <2>3. CASE PollLoop
    <3>1. UNCHANGED rstatus \/ \E cs : ReleaseRows(cs)
      BY <2>3 DEF PollLoop, PollStep, Activate, ActivateWrite, Arm, AutoPauseSelect, AutoPauseWrite,
           AutoPauseRows, DurationSelect, DurationEach, DurationWrite, DurationHold,
           DurationHoldRows, DurationEnd, WindowSelect, WindowEach, WindowHold, WindowHoldRows,
           WindowEnd, DailySelect, DailyEach, DailyWrite, DailyEnd, Enqueue, Complete, Select, EndOf,
           Skip, Choose, PauseCur, ReleaseCur, ResumeCur, Back, storeVars, rowVars
    <3> QED
      BY <1>1, <3>1 DEF ReleaseRows
  <2>4. CASE Time \/ UNCHANGED vars
    BY <1>1, <2>4 DEF Time, Clock, Midnight, WindowFlip, PauseTime, ScheduleTime, vars, storeVars, rowVars
  <2> QED
    BY <2>2, <2>3, <2>4
<1>2. CASE \A r \in Recipients : Kept(r) \/ Closed(r)
  BY <1>b, <1>2, Closing DEF RowsDelivered!DeliveryNext
<1>3. ASSUME NEW r \in Recipients, ~(Kept(r) \/ Closed(r))
      PROVE  RowsDelivered!DeliveryNext
  <2>1. Upload(r) /\ Stage(r) = "none" /\ Stage(r)' = "waiting"
    BY <1>a, <1>1, <1>3, BesideStage
  <2>2. \A q \in Recipients \ {r} : Kept(q)
    BY <2>1, <1>b DEF Upload, Kept, Stage, TypeOK, StoreTypeOK, taskVars
  <2> QED
    BY <1>b, <2>1, <2>2, Moving
<1> QED
  BY <1>2, <1>3

\* A row of another campaign stays where it is.
LEMMA ElsewhereStage ==
  ASSUME TypeOK, RowHeld, NEW c \in Campaigns, TaskStep(c), NEW r \in Recipients, CampaignOf[r] # c
  PROVE  Kept(r)
BY TaskLocal DEF Kept, Stage

\* The statements that settle a row close it, and the twins in 'sending' with it.
LEMMA SettledStage ==
  ASSUME TypeOK, RowHeld, NEW c \in Campaigns, GuardDuplicate(c) \/ Mark(c) \/ Catch(c),
         NEW r \in Recipients, CampaignOf[r] = c, Fresh(r)
  PROVE  Kept(r) \/ Closed(r)
<1>a. PICK own \in {"sent", "failed"}, twin \in {"sent", "pending"} : SettleRow(row[c], own, twin)
  BY DEF GuardDuplicate, Mark, Catch
<1>b. /\ r # row[c] => rstatus'[r] = rstatus[r] \/ (rstatus[r] = "sending" /\ rstatus'[r] = twin)
      /\ r = row[c] => rstatus'[r] = IF rstatus[r] = "gone" THEN "gone" ELSE own
  BY <1>a, StatementsOnRows
<1>c. row'[c] \in {row[c], NoRow} /\ pc'[c] \in {"loop", "log"} /\ NoRow # r
  BY StoreAssumption DEF GuardDuplicate, Mark, Catch, GoTo, Drop, TypeOK, TaskTypeOK
<1>d. UNCHANGED <<accepted, orphans>>
  BY DEF GuardDuplicate, Mark, Catch, mailVars
<1>1. CASE r = row[c]
  <2>1. Stage(r) # "none"
    BY <1>1 DEF Stage, Fresh, Holds, HeldAt, Open, Settled, GuardDuplicate, Mark, Catch
  <2>2. Stage(r)' = "closed"
    <3>1. pc'[c] = "log" \/ row'[c] # r
      BY <1>c DEF GuardDuplicate, Mark, Catch, GoTo, Drop, TypeOK, TaskTypeOK
    <3>2. rstatus'[r] \in {"gone", "sent", "failed"}
      BY <1>b, <1>1
    <3> QED
      BY <3>1, <3>2 DEF Stage
  <2> QED
    BY <2>1, <2>2 DEF Closed
<1>2. CASE r # row[c]
  <2>1. row'[c] # r
    BY <1>c, <1>2
  <2> QED
    BY <1>b, <1>2, <2>1 DEF Stage, Kept, Closed
<1> QED
  BY <1>1, <1>2

\* The other statements of a task leave all rows where they are but the one in hand.
Plain(c) == TaskStep(c) /\ ~Claim(c) /\ ~Accept(c) /\ ~GuardDuplicate(c) /\ ~Mark(c) /\ ~Catch(c)

LEMMA PlainBeside ==
  ASSUME TypeOK, NEW c \in Campaigns, Plain(c), NEW r \in Recipients, CampaignOf[r] = c, row[c] # r
  PROVE  Kept(r)
<1>1. row'[c] # r
  BY StoreAssumption DEF Plain, TaskStep, Begin, Decide, Loop, Stop, NothingToClaim, Recheck, Delay, PreSend,
       GiveBack, Hold, HoldRows, GuardStopped, GuardExhausted, FullRow, GuardPick, Log, Throw,
       GoTo, Drop, TypeOK, TaskTypeOK
<1>2. rstatus'[r] = rstatus[r] \/ (rstatus[r] = "sending" /\ rstatus'[r] = "pending")
  <2>1. \/ rstatus' = rstatus \/ ReleaseRows({c}) \/ FullRow(c)
        \/ \E own : SettleRow(row[c], own, "pending")
    BY DEF Plain, TaskStep, Begin, Decide, Loop, Stop, NothingToClaim, Recheck, Delay, PreSend,
         GiveBack, Hold, HoldRows, GuardStopped, GuardExhausted, GuardPick, Log, Throw, storeVars, rowVars
  <2>2. FullRow(c) => rstatus'[r] = rstatus[r]
    BY DEF FullRow, TypeOK, StoreTypeOK
  <2>3. ReleaseRows({c}) => rstatus'[r] = rstatus[r] \/ (rstatus[r] = "sending" /\ rstatus'[r] = "pending")
    BY DEF ReleaseRows
  <2> QED
    BY <2>1, <2>2, <2>3, StatementsOnRows
<1> QED
  BY <1>1, <1>2 DEF Kept, Stage

\* The row in hand stays there, goes back without a message, or is closed.
LEMMA PlainOwn ==
  ASSUME TypeOK, RowHeld, NEW c \in Campaigns, Plain(c), NEW r \in Recipients, CampaignOf[r] = c,
         row[c] = r, Fresh(r), Mailed(r)
  PROVE  Kept(r) \/ Closed(r) \/ (Stage(r) = "taken" /\ Stage(r)' = "waiting")
<1>a. UNCHANGED <<accepted, orphans>>
  BY TaskCounts DEF Plain
<1>b. NoRow # r /\ pc[c] \notin Between
  BY StoreAssumption DEF RowHeld, Between
<1>1. CASE Log(c)
  <2>1. pc[c] = "log" /\ row'[c] = NoRow /\ rstatus' = rstatus
    BY <1>1 DEF Log, Drop, TypeOK, TaskTypeOK, rowVars
  <2>2. rstatus[r] \in Settled \union {"gone"}
    BY <2>1 DEF Fresh, HeldAt
  <2> QED
    BY <1>b, <2>1, <2>2 DEF Stage, Kept, Settled
<1>2. CASE Throw(c)
  <2>1. /\ pc[c] \in BeforeMail \union {"mark", "log"} /\ pc'[c] = "catch"
        /\ row' = row /\ rstatus' = rstatus
    BY <1>2 DEF Throw, GoTo, BeforeMail, TypeOK, TaskTypeOK, storeVars, rowVars
  <2>2. CASE pc[c] \in {"mark", "log"}
    <3>1. pc[c] = "log" => rstatus[r] \in Settled \union {"gone"}
      BY DEF Fresh, HeldAt
    <3> QED
      BY <1>a, <2>1, <2>2, <3>1 DEF Stage, Kept, Settled
  <2>3. CASE pc[c] \in BeforeMail
    <3>1. rstatus[r] \in Open /\ ~(accepted[r] > orphans[r])
      BY <2>3 DEF Fresh, Holds, Mailed, HeldAt, BeforeMail, TypeOK, StoreTypeOK
    <3> QED
      BY <1>a, <2>1, <2>3, <3>1 DEF Stage, Closed, Open, BeforeMail
  <2> QED
    BY <2>1, <2>2, <2>3
<1>3. CASE GiveBack(c) \/ HoldRows(c) \/ GuardStopped(c) \/ FullRow(c)
  <2>1. pc[c] \notin {"mark", "log", "catch"}
    BY <1>3 DEF GiveBack, HoldRows, GuardStopped, FullRow
  <2>2. rstatus[r] \in Open
    BY <2>1 DEF Fresh, Holds
  <2>3. rstatus'[r] \in Open
    <3>1. CASE GiveBack(c) \/ HoldRows(c)
      BY <2>2, <3>1 DEF GiveBack, HoldRows, ReleaseRows, Open
    <3>2. CASE GuardStopped(c)
      BY <2>2, <3>2, StatementsOnRows DEF GuardStopped, Open
    <3>3. CASE FullRow(c)
      BY <2>2, <3>3 DEF FullRow, Open, TypeOK, StoreTypeOK
    <3> QED
      BY <1>3, <3>1, <3>2, <3>3
  <2>4. row'[c] = NoRow \/ (row' = row /\ pc'[c] = "fullRow")
    BY <1>3 DEF GiveBack, HoldRows, GuardStopped, FullRow, GoTo, Drop, TypeOK, TaskTypeOK
  <2> QED
    BY <1>b, <2>1, <2>2, <2>3, <2>4 DEF Stage, Kept, Closed, Open
<1>4. CASE ~(Log(c) \/ Throw(c) \/ GiveBack(c) \/ HoldRows(c) \/ GuardStopped(c) \/ FullRow(c))
  <2>1. /\ row' = row
        /\ pc[c] \notin {"mark", "log", "catch"} /\ pc'[c] \notin {"mark", "log", "catch"}
    BY <1>b, <1>4 DEF Plain, TaskStep, Begin, Decide, Loop, Stop, NothingToClaim, Recheck, Delay, PreSend,
         Hold, GuardExhausted, GuardPick, GoTo, Between, TypeOK, TaskTypeOK
  <2> QED
    BY <2>1 DEF Stage, Kept
<1> QED
  BY <1>1, <1>2, <1>3, <1>4

\* The step of a task takes a row, delivers one, closes rows, puts its row back, or none of it.
LEMMA TaskDelivers ==
  ASSUME TypeOK, RowHeld, MailInv, RowsInv, LostInv, NEW c \in Campaigns, TaskStep(c)
  PROVE  RowsDelivered!DeliveryNext
<1>a. \A r \in Recipients : Fresh(r) /\ Mailed(r) /\ CampaignOf[r] \in Campaigns
  BY StoreAssumption DEF RowsInv, MailInv
<1>b. \A r \in Recipients : CampaignOf[r] # c => Kept(r)
  BY ElsewhereStage
<1>c. orphans' = orphans /\ (~Accept(c) => accepted' = accepted)
  BY TaskCounts
<1>1. CASE Claim(c)
  <2>1. PICK r \in RowsIn(c, "pending") :
          rstatus' = [rstatus EXCEPT ![r] = "sending"] /\ row' = [row EXCEPT ![c] = r]
    BY <1>1 DEF Claim
  <2>2. /\ r \in Recipients /\ CampaignOf[r] = c /\ rstatus[r] = "pending"
        /\ pc[c] = "claim" /\ pc'[c] = "recheck" /\ row[c] = NoRow /\ NoRow \notin Recipients
        /\ UNCHANGED <<accepted, orphans>>
    BY <1>1, <2>1, StoreAssumption DEF Claim, RowsIn, Rows, RowHeld, Between, GoTo, TypeOK, TaskTypeOK, mailVars
  <2>3. Stage(r) = "waiting" /\ Stage(r)' = "taken"
    BY <2>1, <2>2 DEF Stage, TypeOK, TaskTypeOK
  <2>4. \A q \in Recipients \ {r} : Kept(q)
    <3> SUFFICES ASSUME NEW q \in Recipients, q # r, CampaignOf[q] = c
                 PROVE  Kept(q)
      BY <1>b
    <3> QED
      BY <2>1, <2>2 DEF Kept, Stage, TypeOK, TaskTypeOK, StoreTypeOK
  <2> QED
    BY <2>2, <2>3, <2>4, Moving
<1>2. CASE Accept(c)
  <2>1. PICK r \in Recipients : row[c] = r /\ CampaignOf[r] = c
    BY <1>2 DEF Accept, RowHeld, Holding, InHand
  <2>2. /\ pc[c] = "smtp" /\ pc'[c] = "mark" /\ row' = row /\ rstatus' = rstatus
        /\ accepted' = [accepted EXCEPT ![r] = @ + 1] /\ orphans' = orphans
    BY <1>2, <2>1 DEF Accept, GoTo, TypeOK, TaskTypeOK, rowVars
  <2>3. accepted[r] \in Nat /\ orphans[r] \in Nat /\ orphans[r] <= accepted[r] /\ accepted'[r] = accepted[r] + 1
    BY <2>2 DEF TypeOK, StoreTypeOK, LostInv
  <2>4. accepted'[r] > orphans'[r]
    BY <2>2, <2>3
  <2>5. Stage(r) = "taken" /\ Stage(r)' \in {"mailed", "closed"}
    <3>1. rstatus[r] \in Open
      BY <1>a, <2>1, <2>2 DEF Fresh, Holds
    <3> QED
      BY <2>1, <2>2, <2>4, <3>1 DEF Stage, Open
  <2>6. \A q \in Recipients \ {r} : Kept(q)
    <3> SUFFICES ASSUME NEW q \in Recipients, q # r, CampaignOf[q] = c
                 PROVE  Kept(q)
      BY <1>b
    <3> QED
      BY <2>1, <2>2 DEF Kept, Stage, TypeOK, StoreTypeOK
  <2>7. RowsDelivered!Deliver(r)
    BY <2>2, <2>5, <2>6 DEF RowsDelivered!Deliver, Kept
  <2> QED
    BY <2>7 DEF RowsDelivered!DeliveryNext
<1>3. CASE GuardDuplicate(c) \/ Mark(c) \/ Catch(c)
  <2>1. UNCHANGED <<accepted, orphans>>
    BY <1>3 DEF GuardDuplicate, Mark, Catch, mailVars
  <2>2. \A r \in Recipients : Kept(r) \/ Closed(r)
    BY <1>a, <1>b, <1>3, SettledStage
  <2> QED
    BY <2>1, <2>2, Closing DEF RowsDelivered!DeliveryNext
<1>4. CASE Plain(c)
  <2>1. \A r \in Recipients : Kept(r) \/ row[c] = r
    BY <1>b, <1>4, PlainBeside
  <2>2. UNCHANGED <<accepted, orphans>>
    BY <1>c, <1>4 DEF Plain
  <2>3. CASE \A r \in Recipients : Kept(r) \/ Closed(r)
    BY <2>2, <2>3, Closing DEF RowsDelivered!DeliveryNext
  <2>4. ASSUME NEW r \in Recipients, ~(Kept(r) \/ Closed(r))
        PROVE  RowsDelivered!DeliveryNext
    <3>1. row[c] = r /\ CampaignOf[r] = c
      BY <1>b, <2>1, <2>4
    <3>2. Stage(r) = "taken" /\ Stage(r)' = "waiting"
      BY <1>a, <1>4, <2>4, <3>1, PlainOwn
    <3> QED
      BY <2>1, <2>2, <3>1, <3>2, Moving
  <2> QED
    BY <2>3, <2>4
<1> QED
  BY <1>1, <1>2, <1>3, <1>4 DEF Plain

\* A crash lets all rows go.
LEMMA CrashDelivers ==
  ASSUME TypeOK, RowHeld, MailInv, RowsInv, Crash
  PROVE  RowsDelivered!DeliveryNext
<1>a. /\ \A r \in Recipients : row'[CampaignOf[r]] # r
      /\ rstatus' = rstatus /\ accepted' = accepted
      /\ orphans' = [r \in Recipients |-> IF r \in Unmarked THEN orphans[r] + 1 ELSE orphans[r]]
  BY StoreAssumption DEF Crash, rowVars
<1>1. ASSUME NEW r \in Recipients
      PROVE  /\ Stage(r)' \in RowsDelivered!Stages
             /\ Stage(r)' \in IF Stage(r) = "taken" THEN {"waiting", "closed"}
                              ELSE IF Stage(r) = "mailed" THEN {"waiting"} ELSE {Stage(r)}
             /\ r \in Unmarked <=> Stage(r) = "mailed"
  <2>1. CampaignOf[r] \in Campaigns /\ Fresh(r) /\ Mailed(r)
    BY StoreAssumption DEF RowsInv, MailInv
  <2>2. Stage(r) = "taken" => rstatus[r] # "absent"
    BY <2>1 DEF Stage, Mailed
  <2>3. r \in Unmarked <=> Stage(r) = "mailed"
    BY <2>1 DEF Unmarked, Stage, RowHeld
  <2> QED
    BY <1>a, <2>1, <2>2, <2>3 DEF Stage, RowsDelivered!Stages
<1>2. PICK S \in SUBSET Recipients : S = {r \in Recipients : Stage(r) \in {"taken", "mailed"}}
  OBVIOUS
<1>3. \A r \in Recipients : Stage(r)' \in IF r \in S THEN {"waiting", "closed"} ELSE {Stage(r)}
  BY <1>1, <1>2
<1>4. orphans' = [r \in Recipients |-> IF r \in S /\ Stage(r) = "mailed" THEN orphans[r] + 1 ELSE orphans[r]]
  BY <1>a, <1>1, <1>2
<1>5. RowsDelivered!Release(S)
  BY <1>a, <1>1, <1>2, <1>3, <1>4 DEF RowsDelivered!Release
<1> QED
  BY <1>5 DEF RowsDelivered!DeliveryNext

\* The sender implements the delivery of rows, for every number of campaigns, rows and accounts,
\* and settled rows stay settled.
THEOREM RowsAreDelivered == Spec => DeliveryHolds
<1> DEFINE Inv == TypeOK /\ RowHeld /\ MailInv /\ CarriedInv /\ RowsInv
<1>1. Init => LostInv /\ RowsDelivered!DeliveryInit
  BY StoreAssumption DEF Init, LostInv, RowsDelivered!DeliveryInit, Stage
<1>2. Inv /\ LostInv /\ [Next]_vars => LostInv'
  BY LostStays
<1>3. Inv /\ LostInv /\ [Next]_vars => [RowsDelivered!DeliveryNext]_(RowsDelivered!deliveryVars)
  BY OthersDeliver, TaskDelivers, CrashDelivers DEF Next, Worker
<1>4. Spec => ImplementsDelivery
  BY <1>1, <1>2, <1>3, InductiveRows, PTL DEF Spec, ImplementsDelivery, RowsDelivered!DeliverySpec
<1> QED
  BY <1>4, SettledStay DEF DeliveryHolds

=============================================================================
