----------------------- MODULE CampaignSystem_proofs -----------------------
(***************************************************************************)
(* Proofs about CampaignSystem, for every number of campaigns, rows and    *)
(* accounts: type correctness, and that no row is mailed twice without a   *)
(* crash in between.                                                       *)
(***************************************************************************)
EXTENDS CampaignSystem, TLAPS

-----------------------------------------------------------------------------
(* The inductive invariant *)

\* From the claim to the end of a send the task of c holds a row of c, and a task
\* that is between two rows holds none.
Holding == InHand \union {"log", "catch", "full", "fullRows", "fullRow"}
Between == {"off", "begin", "loop", "claim"}

RowHeld ==
  \A c \in Campaigns :
    /\ pc[c] \in Holding => row[c] \in Recipients
    /\ pc[c] \in Between => row[c] = NoRow
    /\ row[c] \in Recipients => CampaignOf[row[c]] = c

-----------------------------------------------------------------------------
(* What the statements of CampaignStore do to the types *)

CampaignsOK ==
  /\ cstatus \in [Campaigns -> CStatus]
  /\ reason \in [Campaigns -> Reasons]
  /\ pausedAt \in [Campaigns -> {"none", "today", "earlier"}]
  /\ pauseAt \in [Campaigns -> {"none", "armed", "due"}]
  /\ sched \in [Campaigns -> {"none", "future", "due"}]

RowsOK == rstatus \in [Recipients -> RStatus] /\ stamped \in SUBSET Recipients

\* The statement that pauses a campaign keeps the types of its columns.
LEMMA SetPausedType ==
  ASSUME CampaignsOK, NEW c, NEW why_ \in Reasons, NEW at_ \in {"none", "today"},
         SetPaused(c, why_, at_)
  PROVE  CampaignsOK'
<1>1. CASE Exists(c)
  BY <1>1 DEF CampaignsOK, SetPaused, CStatus
<1>2. CASE ~Exists(c)
  BY <1>2 DEF CampaignsOK, SetPaused, campaignVars
<1> QED
  BY <1>1, <1>2

\* The statement that sets a campaign running keeps the types of its columns.
LEMMA SetRunningType ==
  ASSUME CampaignsOK, NEW c, NEW t, c \in Campaigns => t \in {"none", "armed", "due"},
         SetRunning(c, t)
  PROVE  CampaignsOK'
<1>1. CASE Exists(c)
  BY <1>1 DEF CampaignsOK, SetRunning, CStatus, Reasons
<1>2. CASE ~Exists(c)
  BY <1>2 DEF CampaignsOK, SetRunning, campaignVars
<1> QED
  BY <1>1, <1>2

\* Giving rows back keeps the types of the recipient columns.
LEMMA ReleaseRowsType ==
  ASSUME RowsOK, NEW cs, ReleaseRows(cs)
  PROVE  RowsOK'
BY DEF RowsOK, ReleaseRows, RStatus

\* Deleting rows keeps the types of the recipient columns.
LEMMA RemoveRowsType ==
  ASSUME RowsOK, NEW rs, RemoveRows(rs)
  PROVE  RowsOK'
BY DEF RowsOK, RemoveRows, RStatus

\* Counting one more message for a row keeps the counts natural numbers.
LEMMA CountType ==
  ASSUME NEW f \in [Recipients -> Nat], NEW r \in Recipients
  PROVE  [f EXCEPT ![r] = @ + 1] \in [Recipients -> Nat]
OBVIOUS

\* Settling a row and its twins keeps the type of the status column.
LEMMA SettleRowType ==
  ASSUME RowsOK, NEW r, NEW own \in RStatus, NEW twin \in RStatus, SettleRow(r, own, twin)
  PROVE  rstatus' \in [Recipients -> RStatus]
BY DEF RowsOK, SettleRow

-----------------------------------------------------------------------------
(* Type correctness *)

\* The initial states are well typed, and no task holds a row.
LEMMA InitType == Init => TypeOK /\ RowHeld
<1> SUFFICES ASSUME Init PROVE TypeOK /\ RowHeld
  OBVIOUS
<1> USE StoreAssumption, TaskAssumption, ApiAssumption, SystemAssumption
<1>1. \A c \in Campaigns : Primary(c) \in Accounts
  BY DEF Primary
<1>2. StoreTypeOK
  BY DEF Init, StoreTypeOK, CStatus, Reasons, RStatus
<1>3. TaskTypeOK
  BY <1>1 DEF Init, TaskTypeOK, PCs, InHand, Reasons
<1>4. PollTypeOK
  BY DEF Init, PollTypeOK, PollPCs, Reasons
<1>5. ApiTypeOK
  BY DEF Init, ApiTypeOK, NoRequest, Requests, ReqPCs, CStatus
<1>6. RowHeld
  BY DEF Init, RowHeld, Holding, InHand
<1> QED
  BY <1>2, <1>3, <1>4, <1>5, <1>6 DEF Init, TypeOK

\* Every step of a campaign task keeps the types.
LEMMA TaskType ==
  ASSUME TypeOK, RowHeld, NEW c \in Campaigns, TaskStep(c), UNCHANGED <<pollVars, apiVars, crashes>>
  PROVE  TypeOK'
<1> USE StoreAssumption
<1>a. CampaignsOK /\ RowsOK
  BY DEF TypeOK, StoreTypeOK, CampaignsOK, RowsOK
<1>b. row[c] \in Recipients => accepted[row[c]] \in Nat
  BY DEF TypeOK, StoreTypeOK
<1>c. pc[c] \in Holding => row[c] \in Recipients
  BY DEF RowHeld
<1> USE <1>a, <1>b, <1>c DEF TypeOK, StoreTypeOK, TaskTypeOK, PollTypeOK, ApiTypeOK, CampaignsOK, RowsOK,
            pollVars, apiVars, storeVars, campaignVars, rowVars, mailVars, clockVars, GoTo, Drop
<1>1. CASE Begin(c)
  BY <1>1 DEF Begin, Decide, ScheduleVerdict, PCs, InHand, Reasons, DailyReasons
<1>2. CASE Loop(c)
  BY <1>2 DEF Loop, Decide, FullVerdict, ScheduleVerdict, PCs, InHand, Reasons, DailyReasons
<1>3. CASE Stop(c)
  BY <1>3 DEF Stop, PCs, InHand, Reasons, DailyReasons
<1>4. CASE Claim(c)
  BY <1>4, SMTT(30) DEF Claim, RowsIn, Rows, RStatus, PCs, InHand
<1>5. CASE NothingToClaim(c)
  BY <1>5 DEF NothingToClaim, PCs, InHand, Reasons, DailyReasons
<1>6. CASE Recheck(c)
  BY <1>6 DEF Recheck, Decide, FullVerdict, ScheduleVerdict, PCs, InHand, Reasons, DailyReasons
<1>7. CASE Delay(c)
  BY <1>7 DEF Delay, PCs, InHand, Reasons, DailyReasons
<1>8. CASE PreSend(c)
  BY <1>8 DEF PreSend, Decide, PreSendVerdict, PCs, InHand, Reasons, DailyReasons
<1>9. CASE GiveBack(c)
  <2>1. RowsOK'
    BY <1>9, ReleaseRowsType DEF GiveBack
  <2> QED
    BY <1>9, <2>1 DEF GiveBack, PCs, Reasons
<1>10. CASE Hold(c)
  <2>1. CampaignsOK'
    BY <1>10, SetPausedType DEF Hold
  <2> QED
    BY <1>10, <2>1 DEF Hold, PCs
<1>11. CASE HoldRows(c)
  <2>1. RowsOK'
    BY <1>11, ReleaseRowsType DEF HoldRows
  <2>2. pc' \in [Campaigns -> PCs] /\ row' \in [Campaigns -> Recipients \union {NoRow}]
    <3>1. PICK next \in {"off", "loop", "fullRow"} : pc' = [pc EXCEPT ![c] = next]
      BY <1>11 DEF HoldRows
    <3>2. row' = [row EXCEPT ![c] = NoRow] \/ row' = row
      BY <1>11 DEF HoldRows
    <3> QED
      BY <3>1, <3>2 DEF PCs
  <2>3. why' \in [Campaigns -> Reasons]
    BY <1>11 DEF HoldRows, Reasons
  <2> QED
    BY <1>11, <2>1, <2>2, <2>3 DEF HoldRows
<1>12. CASE GuardStopped(c)
  <2>1. row[c] \in Recipients
    BY <1>12 DEF GuardStopped, Holding, InHand
  <2>2. (IF rstatus[row[c]] = "sending" THEN "pending" ELSE rstatus[row[c]]) \in RStatus
    BY <2>1 DEF RStatus
  <2>3. PICK own \in RStatus : SettleRow(row[c], own, "pending")
    BY <1>12, <2>2 DEF GuardStopped
  <2>4. "pending" \in RStatus
    BY DEF RStatus
  <2>5. rstatus' \in [Recipients -> RStatus]
    BY <1>a, <2>3, <2>4, SettleRowType
  <2> QED
    BY <1>12, <2>5 DEF GuardStopped, PCs
<1>13. CASE GuardDuplicate(c)
  <2>1. RowsOK'
    BY <1>13, SettleRowType DEF GuardDuplicate, RStatus
  <2> QED
    BY <1>13, <2>1 DEF GuardDuplicate, PCs
<1>14. CASE GuardExhausted(c)
  BY <1>14 DEF GuardExhausted, PCs, InHand, Reasons, DailyReasons
<1>15. CASE FullRow(c)
  BY <1>15 DEF FullRow, PCs, RStatus, Holding
<1>16. CASE GuardPick(c)
  BY <1>16, SMTT(30) DEF GuardPick, PCs, InHand, Reasons, DailyReasons
<1>17. CASE Accept(c)
  <2>1. row[c] \in Recipients
    BY <1>17 DEF Accept, Holding, InHand
  <2>2. accepted' \in [Recipients -> Nat]
    BY <1>17, <2>1, CountType DEF Accept
  <2> QED
    BY <1>17, <2>2 DEF Accept, PCs, InHand
<1>18. CASE Mark(c)
  <2>1. RowsOK'
    BY <1>18, SettleRowType DEF Mark, RStatus
  <2> QED
    BY <1>18, <2>1 DEF Mark, PCs
<1>19. CASE Log(c)
  <2>1. CurrentMail(c) \in Mails
    BY <1>19 DEF Log, CurrentMail, Mails, Holding
  <2> QED
    BY <1>19, <2>1 DEF Log, PCs
<1>20. CASE Throw(c)
  BY <1>20 DEF Throw, PCs, InHand, Reasons, DailyReasons
<1>21. CASE Catch(c)
  <2>1. RowsOK'
    BY <1>21, SettleRowType DEF Catch, RStatus
  <2> QED
    BY <1>21, <2>1 DEF Catch, PCs
<1> QED
  BY <1>1, <1>2, <1>3, <1>4, <1>5, <1>6, <1>7, <1>8, <1>9, <1>10, <1>11,
     <1>12, <1>13, <1>14, <1>15, <1>16, <1>17, <1>18, <1>19, <1>20, <1>21 DEF TaskStep

\* Every step of a campaign task keeps the correspondence of its place and its row.
LEMMA TaskHeld ==
  ASSUME TypeOK, RowHeld, NEW c \in Campaigns, TaskStep(c)
  PROVE  RowHeld'
<1> USE StoreAssumption
<1> USE DEF TypeOK, TaskTypeOK, RowHeld, Holding, Between, InHand, storeVars, GoTo, Drop
<1>1. CASE Begin(c)
  BY <1>1 DEF Begin, Decide
<1>2. CASE Loop(c)
  BY <1>2 DEF Loop, Decide
<1>3. CASE Stop(c)
  BY <1>3 DEF Stop
<1>4. CASE Claim(c)
  BY <1>4 DEF Claim, RowsIn, Rows
<1>5. CASE NothingToClaim(c)
  BY <1>5 DEF NothingToClaim
<1>6. CASE Recheck(c)
  BY <1>6 DEF Recheck, Decide
<1>7. CASE Delay(c)
  BY <1>7 DEF Delay
<1>8. CASE PreSend(c)
  BY <1>8 DEF PreSend, Decide
<1>9. CASE GiveBack(c)
  BY <1>9 DEF GiveBack
<1>10. CASE Hold(c)
  BY <1>10 DEF Hold
<1>11. CASE HoldRows(c)
  BY <1>11 DEF HoldRows
<1>12. CASE GuardStopped(c)
  BY <1>12 DEF GuardStopped
<1>13. CASE GuardDuplicate(c)
  BY <1>13 DEF GuardDuplicate
<1>14. CASE GuardExhausted(c)
  BY <1>14 DEF GuardExhausted
<1>15. CASE FullRow(c)
  BY <1>15 DEF FullRow
<1>16. CASE GuardPick(c)
  BY <1>16 DEF GuardPick
<1>17. CASE Accept(c)
  BY <1>17 DEF Accept
<1>18. CASE Mark(c)
  BY <1>18 DEF Mark
<1>19. CASE Log(c)
  BY <1>19 DEF Log
<1>20. CASE Throw(c)
  BY <1>20 DEF Throw
<1>21. CASE Catch(c)
  BY <1>21 DEF Catch
<1> QED
  BY <1>1, <1>2, <1>3, <1>4, <1>5, <1>6, <1>7, <1>8, <1>9, <1>10, <1>11,
     <1>12, <1>13, <1>14, <1>15, <1>16, <1>17, <1>18, <1>19, <1>20, <1>21 DEF TaskStep

\* Every step of the poll loop keeps the types.
LEMMA PollType ==
  ASSUME TypeOK, PollStep, UNCHANGED <<apiVars, crashes>>
  PROVE  TypeOK'
<1>a. CampaignsOK /\ RowsOK
  BY DEF TypeOK, StoreTypeOK, CampaignsOK, RowsOK
<1>b. cur \in Campaigns \union {NoCampaign} /\ todo \subseteq Campaigns /\ verdict \in Reasons
  BY DEF TypeOK, PollTypeOK
<1>1. ASSUME NEW from, NEW cs, NEW next \in PollPCs, NEW skip \in PollPCs,
             cs \subseteq Campaigns, Select(from, cs, next, skip)
      PROVE  TypeOK'
  BY <1>1 DEF Select, TypeOK, StoreTypeOK, TaskTypeOK, PollTypeOK, ApiTypeOK, storeVars,
              campaignVars, rowVars, mailVars, clockVars, taskVars, apiVars
<1>2. ASSUME NEW from, NEW next \in PollPCs, EndOf(from, next)
      PROVE  TypeOK'
  BY <1>2 DEF EndOf, TypeOK, StoreTypeOK, TaskTypeOK, PollTypeOK, ApiTypeOK, storeVars,
              campaignVars, rowVars, mailVars, clockVars, taskVars, apiVars
<1>3. ASSUME NEW c \in todo, Skip(c)
      PROVE  TypeOK'
  BY <1>3 DEF Skip, TypeOK, StoreTypeOK, TaskTypeOK, PollTypeOK, ApiTypeOK, storeVars,
              campaignVars, rowVars, mailVars, clockVars, taskVars, apiVars
<1>4. ASSUME NEW c \in todo, NEW v \in Reasons, NEW next \in PollPCs, Choose(c, v, next)
      PROVE  TypeOK'
  BY <1>b, <1>4 DEF Choose, TypeOK, StoreTypeOK, TaskTypeOK, PollTypeOK, ApiTypeOK, storeVars,
              campaignVars, rowVars, mailVars, clockVars, taskVars, apiVars
<1>5. ASSUME NEW from, NEW next \in PollPCs, PauseCur(from, next)
      PROVE  TypeOK'
  <2>1. CampaignsOK'
    BY <1>a, <1>b, <1>5, SetPausedType DEF PauseCur
  <2> QED
    BY <1>5, <2>1 DEF PauseCur, CampaignsOK, TypeOK, StoreTypeOK, TaskTypeOK, PollTypeOK, ApiTypeOK,
              rowVars, mailVars, clockVars, taskVars, apiVars
<1>6. ASSUME NEW from, NEW next \in PollPCs, ReleaseCur(from, next)
      PROVE  TypeOK'
  <2>1. RowsOK'
    BY <1>a, <1>6, ReleaseRowsType DEF ReleaseCur
  <2> QED
    BY <1>6, <2>1 DEF ReleaseCur, Back, RowsOK, TypeOK, StoreTypeOK, TaskTypeOK, PollTypeOK,
              ApiTypeOK, campaignVars, mailVars, clockVars, taskVars, apiVars, Reasons
<1>7. ASSUME NEW from, NEW t, NEW next \in PollPCs, ResumeCur(from, t, next),
             cur \in Campaigns => t \in {"none", "armed", "due"}
      PROVE  TypeOK'
  <2>1. CampaignsOK'
    BY <1>a, <1>7, SetRunningType DEF ResumeCur
  <2> QED
    BY <1>7, <2>1 DEF ResumeCur, Back, CampaignsOK, TypeOK, StoreTypeOK, TaskTypeOK, PollTypeOK,
              ApiTypeOK, rowVars, mailVars, clockVars, taskVars, apiVars, Reasons
<1>8. cur \in Campaigns => pauseAt[cur] \in {"none", "armed", "due"}
  BY <1>a DEF CampaignsOK
<1>9. CASE Activate \/ AutoPauseSelect \/ DurationSelect \/ WindowSelect \/ DailySelect
  BY <1>1, <1>9 DEF Activate, AutoPauseSelect, DurationSelect, WindowSelect, DailySelect, PollPCs, Running
<1>10. CASE DurationEnd \/ WindowEnd \/ DailyEnd
  BY <1>2, <1>10 DEF DurationEnd, WindowEnd, DailyEnd, PollPCs
<1>11. CASE DurationEach
  <2>1. PICK c \in todo : \/ Skip(c)
                          \/ Choose(c, DurationVerdict(c), "durationWrite") /\ DurationVerdict(c) # "skip"
                          \/ Choose(c, DurationVerdict(c), "durationHold") /\ DurationVerdict(c) # "skip"
    BY <1>11 DEF DurationEach
  <2>2. DurationVerdict(c) \in Reasons \union {"skip"}
    BY DEF DurationVerdict, Reasons, DailyReasons
  <2> QED
    BY <1>3, <1>4, <2>1, <2>2 DEF PollPCs
<1>12. CASE WindowEach \/ DailyEach
  BY <1>3, <1>4, <1>12 DEF WindowEach, DailyEach, PollPCs, Reasons, DailyReasons
<1>13. CASE DurationHold \/ WindowHold
  BY <1>5, <1>13 DEF DurationHold, WindowHold, PollPCs
<1>14. CASE DurationHoldRows \/ WindowHoldRows
  BY <1>6, <1>14 DEF DurationHoldRows, WindowHoldRows, PollPCs
<1>15. CASE DurationWrite \/ DailyWrite
  BY <1>7, <1>8, <1>15 DEF DurationWrite, DailyWrite, PauseAtOnStart, PollPCs
<1>16. CASE ActivateWrite
  BY <1>16 DEF ActivateWrite, TypeOK, StoreTypeOK, TaskTypeOK, PollTypeOK, ApiTypeOK, CStatus,
               rowVars, mailVars, clockVars, taskVars, apiVars, PollPCs
<1>17. CASE Arm
  <2>1. PICK c \in todo : \E t \in ArmedAt(c) :
          pauseAt' = IF Exists(c) THEN [pauseAt EXCEPT ![c] = t] ELSE pauseAt
    BY <1>17 DEF Arm
  <2>2. c \in Campaigns /\ ArmedAt(c) \subseteq {"none", "armed", "due"}
    BY <1>a, <1>b DEF ArmedAt, CampaignsOK
  <2>3. pauseAt' \in [Campaigns -> {"none", "armed", "due"}]
    BY <1>a, <2>1, <2>2 DEF CampaignsOK
  <2>4. todo' \subseteq Campaigns /\ at' \in PollPCs
    BY <1>17, <1>b DEF Arm, PollPCs
  <2> QED
    BY <1>17, <2>3, <2>4 DEF Arm, TypeOK, StoreTypeOK, TaskTypeOK, PollTypeOK, ApiTypeOK,
               rowVars, mailVars, clockVars, taskVars, apiVars
<1>18. CASE AutoPauseWrite
  BY <1>18 DEF AutoPauseWrite, TypeOK, StoreTypeOK, TaskTypeOK, PollTypeOK, ApiTypeOK, CStatus,
               Reasons, Running, rowVars, mailVars, clockVars, taskVars, apiVars, PollPCs
<1>19. CASE AutoPauseRows
  <2>1. RowsOK'
    BY <1>a, <1>19, ReleaseRowsType DEF AutoPauseRows
  <2> QED
    BY <1>19, <2>1 DEF AutoPauseRows, RowsOK, TypeOK, StoreTypeOK, TaskTypeOK, PollTypeOK,
              ApiTypeOK, campaignVars, mailVars, clockVars, taskVars, apiVars, PollPCs
<1>20. CASE Enqueue
  BY <1>20 DEF Enqueue, TypeOK, StoreTypeOK, TaskTypeOK, PollTypeOK, ApiTypeOK, storeVars,
               campaignVars, rowVars, mailVars, clockVars, apiVars, PollPCs, PCs
<1>21. CASE Complete
  BY <1>21 DEF Complete, TypeOK, StoreTypeOK, TaskTypeOK, PollTypeOK, ApiTypeOK, CStatus,
               rowVars, mailVars, clockVars, taskVars, apiVars, PollPCs
<1> QED
  BY <1>9, <1>10, <1>11, <1>12, <1>13, <1>14, <1>15, <1>16, <1>17, <1>18, <1>19, <1>20, <1>21
     DEF PollStep

\* The poll loop only starts tasks; it leaves the rows they hold alone.
LEMMA PollTasks ==
  ASSUME TypeOK, PollStep
  PROVE  /\ row' = row
         /\ pc' \in [Campaigns -> PCs]
         /\ \A c \in Campaigns : pc'[c] = pc[c] \/ (pc[c] = "off" /\ pc'[c] = "begin")
<1>1. CASE Enqueue
  BY <1>1 DEF Enqueue, TypeOK, TaskTypeOK, PCs
<1>2. CASE ~Enqueue
  <2>1. UNCHANGED taskVars
    BY <1>2 DEF PollStep, Activate, ActivateWrite, Arm, AutoPauseSelect, AutoPauseWrite,
         AutoPauseRows, DurationSelect, DurationEach, DurationWrite, DurationHold,
         DurationHoldRows, DurationEnd, WindowSelect, WindowEach, WindowHold, WindowHoldRows,
         WindowEnd, DailySelect, DailyEach, DailyWrite, DailyEnd, Complete, Select, EndOf, Skip,
         Choose, PauseCur, ReleaseCur, ResumeCur, Back
  <2> QED
    BY <2>1 DEF taskVars, TypeOK, TaskTypeOK
<1> QED
  BY <1>1, <1>2

\* The poll loop keeps the correspondence of places and rows.
LEMMA PollHeld ==
  ASSUME TypeOK, RowHeld, PollStep
  PROVE  RowHeld'
BY PollTasks DEF RowHeld, Holding, Between, InHand
\* What the request handlers do to the requests in flight.
LEMMA RequestType ==
  ASSUME ApiTypeOK, NEW c \in Campaigns
  PROVE  /\ NoRequest \in Requests
         /\ Answer(c) => ApiTypeOK'
         /\ \A next \in ReqPCs : Goes(c, next) => ApiTypeOK'
<1>1. NoRequest \in Requests
  BY DEF NoRequest, Requests, ReqPCs, CStatus
<1>2. Answer(c) => ApiTypeOK'
  BY <1>1 DEF Answer, ApiTypeOK
<1>3. ASSUME NEW next \in ReqPCs, Goes(c, next)
      PROVE  ApiTypeOK'
  <2>1. [req[c] EXCEPT !.at = next] \in Requests
    BY <1>3 DEF ApiTypeOK, Requests
  <2>2. req' = [req EXCEPT ![c] = [req[c] EXCEPT !.at = next]] /\ requests' = requests
    BY <1>3 DEF Goes
  <2> QED
    BY <2>1, <2>2 DEF ApiTypeOK
<1> QED
  BY <1>1, <1>2, <1>3

\* A new request keeps the types.
LEMMA SubmitType ==
  ASSUME TypeOK, NEW c \in Campaigns, NEW r \in Requests, Submit(c, r), UNCHANGED crashes
  PROVE  TypeOK'
<1>1. requests \in Nat /\ MaxRequests \in Nat
  BY ApiAssumption DEF TypeOK, ApiTypeOK
<1>2. ApiTypeOK'
  BY <1>1 DEF Submit, TypeOK, ApiTypeOK
<1> QED
  BY <1>2 DEF Submit, TypeOK, StoreTypeOK, TaskTypeOK, PollTypeOK, storeVars, campaignVars,
              rowVars, mailVars, clockVars, taskVars, pollVars

\* Every step of a request handler keeps the types.
LEMMA ApiType ==
  ASSUME TypeOK, ApiStep, UNCHANGED crashes
  PROVE  TypeOK'
<1>a. CampaignsOK /\ RowsOK /\ ApiTypeOK
  BY DEF TypeOK, StoreTypeOK, CampaignsOK, RowsOK
<1>1. ASSUME ApiTypeOK', UNCHANGED <<storeVars, taskVars, pollVars>>
      PROVE  TypeOK'
  BY <1>1 DEF TypeOK, StoreTypeOK, TaskTypeOK, PollTypeOK, storeVars, campaignVars, rowVars,
              mailVars, clockVars, taskVars, pollVars
<1>2. ASSUME ApiTypeOK', CampaignsOK', userPaused' \in [Campaigns -> BOOLEAN],
             UNCHANGED <<rowVars, mailVars, clockVars, taskVars, pollVars>>
      PROVE  TypeOK'
  BY <1>2 DEF TypeOK, CampaignsOK, StoreTypeOK, TaskTypeOK, PollTypeOK, rowVars, mailVars,
              clockVars, taskVars, pollVars
<1>3. ASSUME ApiTypeOK', RowsOK',
             UNCHANGED <<campaignVars, mailVars, clockVars, userPaused, taskVars, pollVars>>
      PROVE  TypeOK'
  BY <1>3 DEF TypeOK, RowsOK, StoreTypeOK, TaskTypeOK, PollTypeOK, campaignVars, mailVars,
              clockVars, taskVars, pollVars
<1>u. userPaused \in [Campaigns -> BOOLEAN]
  BY DEF TypeOK, StoreTypeOK
<1>4. ASSUME NEW c \in Campaigns, StartResume(c)
      PROVE  TypeOK'
  <2>1. ASSUME NEW k \in {"start", "resume"}, NEW f \in BOOLEAN, Ask(c, k, f)
        PROVE  TypeOK'
    <3>1. [NoRequest EXCEPT !.at = "other", !.kind = k, !.force = f, !.pauseAt = pauseAt[c]] \in Requests
      BY <1>a, <2>1 DEF NoRequest, Requests, ReqPCs, CStatus, CampaignsOK
    <3> QED
      BY <2>1, <3>1, SubmitType DEF Ask
  <2>2. CASE FindOther(c)
    <3>1. ASSUME NEW d \in Running,
                 req' = [req EXCEPT ![c].other = d, ![c].at = "pauseOther"], requests' = requests
          PROVE  ApiTypeOK'
      <4>1. d \in Campaigns /\ "pauseOther" \in ReqPCs /\ req[c] \in Requests
        BY <1>a, <3>1 DEF ApiTypeOK, ReqPCs, Running
      <4>2. [req[c] EXCEPT !.other = d, !.at = "pauseOther"] \in Requests
        BY <4>1 DEF Requests
      <4> QED
        BY <1>a, <3>1, <4>2 DEF ApiTypeOK
    <3>2. "check" \in ReqPCs
      BY DEF ReqPCs
    <3>3. ApiTypeOK'
      BY <1>a, <2>2, <3>1, <3>2, RequestType DEF FindOther
    <3> QED
      BY <1>1, <2>2, <3>3 DEF FindOther
  <2>3. CASE PauseOther(c)
    <3>1. ApiTypeOK'
      BY <1>a, <2>3, RequestType DEF PauseOther, ReqPCs
    <3>2. CampaignsOK'
      BY <1>a, <2>3, SetPausedType DEF PauseOther, Reasons
    <3>3. userPaused' \in [Campaigns -> BOOLEAN]
      BY <1>u, <2>3 DEF PauseOther, Exists
    <3> QED
      BY <1>2, <2>3, <3>1, <3>2, <3>3 DEF PauseOther
  <2>4. CASE OtherRows(c)
    <3>1. ApiTypeOK' /\ RowsOK'
      BY <1>a, <2>4, RequestType, ReleaseRowsType DEF OtherRows, ReqPCs
    <3> QED
      BY <1>3, <2>4, <3>1 DEF OtherRows
  <2>5. CASE Check(c)
    <3>1. "rows" \in ReqPCs /\ "write" \in ReqPCs
      BY DEF ReqPCs
    <3>2. ApiTypeOK'
      BY <1>a, <2>5, <3>1, RequestType DEF Check
    <3> QED
      BY <1>1, <2>5, <3>2 DEF Check
  <2>6. CASE ResumeRows(c)
    <3>1. ApiTypeOK' /\ RowsOK'
      BY <1>a, <2>6, RequestType, ReleaseRowsType DEF ResumeRows, ReqPCs
    <3> QED
      BY <1>3, <2>6, <3>1 DEF ResumeRows
  <2>7. CASE WriteRunning(c)
    <3>1. req[c].pauseAt \in {"none", "armed", "due"}
      BY <1>a DEF ApiTypeOK, Requests
    <3>2. PICK t \in {"none", "armed", "due"} : SetRunning(c, t)
      BY <2>7, <3>1 DEF WriteRunning, PauseAtOnStart, Restored
    <3>3. CampaignsOK'
      BY <1>a, <3>2, SetRunningType
    <3>4. ApiTypeOK' /\ userPaused' \in [Campaigns -> BOOLEAN]
      BY <1>a, <1>u, <2>7, RequestType DEF WriteRunning
    <3> QED
      BY <1>2, <2>7, <3>3, <3>4 DEF WriteRunning
  <2> QED
    BY <1>4, <2>1, <2>2, <2>3, <2>4, <2>5, <2>6, <2>7 DEF StartResume
<1>5. ASSUME NEW c \in Campaigns, Pause(c)
      PROVE  TypeOK'
  <2>1. CASE AskPause(c)
    <3>1. [NoRequest EXCEPT !.at = "pauseWrite"] \in Requests
      BY DEF NoRequest, Requests, ReqPCs, CStatus
    <3> QED
      BY <2>1, <3>1, SubmitType DEF AskPause
  <2>2. CASE PauseWrite(c)
    <3>1. ApiTypeOK'
      BY <1>a, <2>2, RequestType DEF PauseWrite, ReqPCs
    <3>2. CampaignsOK' /\ userPaused' \in [Campaigns -> BOOLEAN]
      BY <1>a, <1>u, <2>2, SetPausedType DEF PauseWrite, Reasons, Exists
    <3> QED
      BY <1>2, <2>2, <3>1, <3>2 DEF PauseWrite
  <2>3. CASE PauseRows(c)
    <3>1. ApiTypeOK' /\ RowsOK'
      BY <1>a, <2>3, RequestType, ReleaseRowsType DEF PauseRows
    <3> QED
      BY <1>3, <2>3, <3>1 DEF PauseRows
  <2> QED
    BY <1>5, <2>1, <2>2, <2>3 DEF Pause
<1>6. ASSUME NEW c \in Campaigns, Edit(c)
      PROVE  TypeOK'
  <2>a. AfterEdit(c) => ApiTypeOK'
    BY <1>a, RequestType DEF AfterEdit, ReqPCs
  <2>1. ASSUME NEW s \in EditChoices, NEW t \in EditChoices, AskEdit(c, s, t)
        PROVE  TypeOK'
    <3>1. PICK status \in CStatus, time \in {"none", "armed", "due"} :
            Submit(c, [NoRequest EXCEPT !.at = "editWrite", !.status = status,
                                        !.sched = s, !.pauseAt = time])
      BY <1>a, <2>1, ApiAssumption DEF AskEdit, CStatus, CampaignsOK
    <3>2. [NoRequest EXCEPT !.at = "editWrite", !.status = status,
                            !.sched = s, !.pauseAt = time] \in Requests
      BY <3>1, ApiAssumption DEF NoRequest, Requests, ReqPCs
    <3> QED
      BY <3>1, <3>2, SubmitType
  <2>2. CASE EditWrite(c)
    <3>1. req[c] \in Requests
      BY <1>a DEF ApiTypeOK
    <3>2. CampaignsOK'
      BY <1>a, <2>2, <3>1 DEF EditWrite, CampaignsOK, Requests, Restored
    <3>3. ApiTypeOK' /\ userPaused' \in [Campaigns -> BOOLEAN]
      BY <1>u, <2>2, <2>a DEF EditWrite
    <3> QED
      BY <1>2, <2>2, <3>2, <3>3 DEF EditWrite
  <2>3. CASE AskSettings(c)
    <3>1. PICK status \in CStatus :
            Submit(c, [NoRequest EXCEPT !.at = "settingsWrite", !.status = status])
      BY <2>3 DEF AskSettings, CStatus
    <3>2. [NoRequest EXCEPT !.at = "settingsWrite", !.status = status] \in Requests
      BY <3>1 DEF NoRequest, Requests, ReqPCs
    <3> QED
      BY <3>1, <3>2, SubmitType
  <2>4. CASE SettingsWrite(c)
    <3>1. SetRunning(c, pauseAt[c]) => CampaignsOK'
      BY <1>a, SetRunningType DEF CampaignsOK
    <3>2. UNCHANGED campaignVars => CampaignsOK'
      BY <1>a DEF CampaignsOK, campaignVars
    <3>3. ApiTypeOK' /\ userPaused' \in [Campaigns -> BOOLEAN]
      BY <1>u, <2>4, <2>a DEF SettingsWrite
    <3> QED
      BY <1>2, <2>4, <3>1, <3>2, <3>3 DEF SettingsWrite
  <2>5. CASE Reconcile(c)
    <3>1. "reconcileHold" \in ReqPCs /\ "reconcileResume" \in ReqPCs
      BY DEF ReqPCs
    <3>2. ApiTypeOK'
      BY <1>a, <2>5, <3>1, RequestType DEF Reconcile
    <3> QED
      BY <1>1, <2>5, <3>2 DEF Reconcile
  <2>6. CASE ReconcileHold(c)
    <3>1. CampaignsOK'
      BY <1>a, <2>6, SetPausedType DEF ReconcileHold, Reasons, DailyReasons
    <3>2. ApiTypeOK' /\ userPaused' \in [Campaigns -> BOOLEAN]
      BY <1>a, <1>u, <2>6, RequestType DEF ReconcileHold, ReqPCs
    <3> QED
      BY <1>2, <2>6, <3>1, <3>2 DEF ReconcileHold
  <2>7. CASE ReconcileRows(c)
    <3>1. ApiTypeOK' /\ RowsOK'
      BY <1>a, <2>7, RequestType, ReleaseRowsType DEF ReconcileRows
    <3> QED
      BY <1>3, <2>7, <3>1 DEF ReconcileRows
  <2>8. CASE ReconcileResume(c)
    <3>1. SetRunning(c, pauseAt[c]) => CampaignsOK'
      BY <1>a, SetRunningType DEF CampaignsOK
    <3>2. ApiTypeOK' /\ userPaused' \in [Campaigns -> BOOLEAN]
      BY <1>a, <1>u, <2>8, RequestType DEF ReconcileResume
    <3> QED
      BY <1>2, <2>8, <3>1, <3>2 DEF ReconcileResume
  <2> QED
    BY <1>6, <2>1, <2>2, <2>3, <2>4, <2>5, <2>6, <2>7, <2>8 DEF Edit
<1>7. ASSUME NEW c \in Campaigns, Delete(c)
      PROVE  TypeOK'
  <2>1. CASE AskDelete(c) \/ AskRemove(c)
    <3>1. /\ [NoRequest EXCEPT !.at = "deleteLog"] \in Requests
          /\ [NoRequest EXCEPT !.at = "removeRows"] \in Requests
      BY DEF NoRequest, Requests, ReqPCs, CStatus
    <3> QED
      BY <2>1, <3>1, SubmitType DEF AskDelete, AskRemove
  <2>2. CASE DeleteLog(c)
    <3>1. ApiTypeOK'
      BY <1>a, <2>2, RequestType DEF DeleteLog, ReqPCs
    <3>2. sendLog' \subseteq sendLog
      BY <2>2 DEF DeleteLog
    <3> QED
      BY <2>2, <3>1, <3>2 DEF DeleteLog, TypeOK, StoreTypeOK, TaskTypeOK, PollTypeOK,
                  campaignVars, rowVars, clockVars, taskVars, pollVars
  <2>3. CASE DeleteRows(c)
    <3>1. ApiTypeOK' /\ RowsOK'
      BY <1>a, <2>3, RequestType, RemoveRowsType DEF DeleteRows, ReqPCs
    <3> QED
      BY <1>3, <2>3, <3>1 DEF DeleteRows
  <2>4. CASE DeleteCampaign(c)
    <3>1. ApiTypeOK'
      BY <1>a, <2>4, RequestType DEF DeleteCampaign
    <3>2. CampaignsOK' /\ userPaused' \in [Campaigns -> BOOLEAN]
      BY <1>a, <1>u, <2>4 DEF DeleteCampaign, CampaignsOK, CStatus
    <3> QED
      BY <1>2, <2>4, <3>1, <3>2 DEF DeleteCampaign
  <2>5. CASE Remove(c)
    <3>1. ApiTypeOK' /\ RowsOK'
      BY <1>a, <2>5, RequestType, RemoveRowsType DEF Remove
    <3> QED
      BY <1>3, <2>5, <3>1 DEF Remove
  <2> QED
    BY <1>7, <2>1, <2>2, <2>3, <2>4, <2>5 DEF Delete
<1>8. ASSUME NEW r \in Recipients, Upload(r) \/ Report(r)
      PROVE  TypeOK'
  <2>1. RowsOK'
    BY <1>a, <1>8 DEF Upload, Report, RowsOK, RStatus
  <2>2. ApiTypeOK'
    BY <1>a, <1>8 DEF Upload, Report, ApiTypeOK, apiVars
  <2> QED
    BY <1>3, <1>8, <2>1, <2>2 DEF Upload, Report
<1> QED
  BY <1>4, <1>5, <1>6, <1>7, <1>8 DEF ApiStep

\* The clock and a crash keep the types.
LEMMA OtherType ==
  ASSUME TypeOK, Time \/ Crash \/ UNCHANGED vars
  PROVE  TypeOK'
<1> USE DEF TypeOK, StoreTypeOK, TaskTypeOK, PollTypeOK, ApiTypeOK
<1>1. CASE Time /\ Midnight
  <2>1. dow' \in 0 .. Week - 1
    BY <1>1, StoreAssumption DEF Midnight
  <2>2. pausedAt' \in [Campaigns -> {"none", "today", "earlier"}]
    BY <1>1 DEF Midnight
  <2> QED
    BY <1>1, <2>1, <2>2 DEF Time, Midnight, rowVars, taskVars, pollVars, apiVars
<1>2. CASE Time /\ ~Midnight
  BY <1>2 DEF Time, Clock, WindowFlip, PauseTime, ScheduleTime, campaignVars, rowVars, mailVars,
              clockVars, taskVars, pollVars, apiVars
<1>3. CASE Crash
  <2>1. orphans' \in [Recipients -> Nat]
    BY <1>3 DEF Crash
  <2>2. crashes' \in 0 .. MaxCrashes
    BY <1>3, SystemAssumption DEF Crash
  <2> QED
    BY <1>3, <2>1, <2>2 DEF Crash, campaignVars, rowVars, clockVars, apiVars, PCs, Reasons, PollPCs
<1>4. CASE UNCHANGED vars
  BY <1>4 DEF vars, storeVars, campaignVars, rowVars, mailVars, clockVars, taskVars, pollVars, apiVars
<1> QED
  BY <1>1, <1>2, <1>3, <1>4

\* What a step of a request leaves alone, and how it may write the rows.
ByRequest ==
  /\ UNCHANGED taskVars
  /\ accepted' = accepted /\ orphans' = orphans
  /\ \/ rstatus' = rstatus
     \/ \E cs : ReleaseRows(cs)
     \/ \E rs : RemoveRows(rs)
     \/ \E q \in Recipients : Upload(q) \/ Report(q)

\* No request touches a task or the history of a row.
LEMMA ApiFrame ==
  ASSUME Api
  PROVE  ByRequest
<1>1. ASSUME NEW c, NEW r, Submit(c, r)
      PROVE  ByRequest
  BY <1>1 DEF Submit, ByRequest, storeVars, mailVars, rowVars
<1>2. ASSUME UNCHANGED <<storeVars, taskVars>> \/ UNCHANGED <<rowVars, mailVars, taskVars>>
      PROVE  ByRequest
  BY <1>2 DEF ByRequest, storeVars, mailVars, rowVars
<1>3. ASSUME NEW cs, ReleaseRows(cs) \/ RemoveRows(cs), UNCHANGED <<mailVars, taskVars>>
      PROVE  ByRequest
  BY <1>3 DEF ByRequest, mailVars
<1>4. ASSUME NEW c \in Campaigns, StartResume(c)
      PROVE  ByRequest
  <2>1. CASE (\E k \in {"start", "resume"}, f \in BOOLEAN : Ask(c, k, f))
    BY <1>1, <2>1 DEF Ask
  <2>2. CASE FindOther(c) \/ Check(c) \/ PauseOther(c) \/ WriteRunning(c)
    BY <1>2, <2>2 DEF FindOther, Check, PauseOther, WriteRunning
  <2>3. CASE OtherRows(c) \/ ResumeRows(c)
    BY <1>3, <2>3 DEF OtherRows, ResumeRows
  <2> QED
    BY <1>4, <2>1, <2>2, <2>3 DEF StartResume
<1>5. ASSUME NEW c \in Campaigns, Pause(c)
      PROVE  ByRequest
  <2>1. CASE AskPause(c)
    BY <1>1, <2>1 DEF AskPause
  <2>2. CASE PauseWrite(c)
    BY <1>2, <2>2 DEF PauseWrite
  <2>3. CASE PauseRows(c)
    BY <1>3, <2>3 DEF PauseRows
  <2> QED
    BY <1>5, <2>1, <2>2, <2>3 DEF Pause
<1>6. ASSUME NEW c \in Campaigns, Edit(c)
      PROVE  ByRequest
  <2>1. CASE (\E s, t \in EditChoices : AskEdit(c, s, t)) \/ AskSettings(c)
    BY <1>1, <2>1 DEF AskEdit, AskSettings
  <2>2. CASE EditWrite(c) \/ SettingsWrite(c) \/ ReconcileHold(c) \/ ReconcileResume(c)
    BY <1>2, <2>2 DEF EditWrite, SettingsWrite, ReconcileHold, ReconcileResume
  <2>3. CASE Reconcile(c)
    BY <1>2, <2>3 DEF Reconcile
  <2>4. CASE ReconcileRows(c)
    BY <1>3, <2>4 DEF ReconcileRows
  <2> QED
    BY <1>6, <2>1, <2>2, <2>3, <2>4 DEF Edit
<1>7. ASSUME NEW c \in Campaigns, Delete(c)
      PROVE  ByRequest
  <2>1. CASE AskDelete(c) \/ AskRemove(c)
    BY <1>1, <2>1 DEF AskDelete, AskRemove
  <2>2. CASE DeleteCampaign(c)
    BY <1>2, <2>2 DEF DeleteCampaign
  <2>3. CASE DeleteRows(c) \/ Remove(c)
    BY <1>3, <2>3 DEF DeleteRows, Remove
  <2>4. CASE DeleteLog(c)
    BY <2>4 DEF DeleteLog, ByRequest, rowVars
  <2> QED
    BY <1>7, <2>1, <2>2, <2>3, <2>4 DEF Delete
<1>8. ASSUME NEW q \in Recipients, Upload(q) \/ Report(q)
      PROVE  ByRequest
  <2>1. UNCHANGED <<mailVars, taskVars>>
    BY <1>8 DEF Upload, Report
  <2> QED
    BY <1>8, <2>1 DEF ByRequest, mailVars
<1> QED
  BY <1>4, <1>5, <1>6, <1>7, <1>8 DEF Api, ApiStep

\* Only tasks, the start of tasks and a crash touch the rows in hand.
LEMMA OtherHeld ==
  ASSUME TypeOK, RowHeld, Api \/ Time \/ Crash \/ UNCHANGED vars
  PROVE  RowHeld'
<1>1. CASE Crash
  BY <1>1, StoreAssumption DEF Crash, RowHeld, Holding, InHand
<1>2. CASE UNCHANGED <<pc, row>>
  BY <1>2 DEF RowHeld
<1>3. CASE Api
  BY <1>2, <1>3, ApiFrame DEF ByRequest, taskVars
<1>4. CASE Time \/ UNCHANGED vars
  BY <1>2, <1>4 DEF Time, vars, taskVars
<1> QED
  BY <1>1, <1>3, <1>4

\* Every step of the system keeps the types, and what the tasks hold.
LEMMA Step ==
  ASSUME TypeOK, RowHeld, [Next]_vars
  PROVE  TypeOK' /\ RowHeld'
<1>1. ASSUME NEW c \in Campaigns, Worker(c)
      PROVE  TypeOK' /\ RowHeld'
  BY <1>1, TaskType, TaskHeld DEF Worker
<1>2. CASE PollLoop
  BY <1>2, PollType, PollHeld DEF PollLoop
<1>3. CASE Api
  BY <1>3, ApiType, OtherHeld DEF Api
<1>4. CASE Time \/ Crash \/ UNCHANGED vars
  BY <1>4, OtherType, OtherHeld
<1> QED
  BY <1>1, <1>2, <1>3, <1>4 DEF Next

\* Every reachable state is a state of the variables' types: the statuses are those the
\* enums of the code name, a counter is never negative, a request holds what it has read.
THEOREM TypeCorrect == Spec => []TypeOK
<1>1. Init => TypeOK /\ RowHeld
  BY InitType
<1>2. TypeOK /\ RowHeld /\ [Next]_vars => TypeOK' /\ RowHeld'
  BY Step
<1> QED
  BY <1>1, <1>2, PTL DEF Spec
-----------------------------------------------------------------------------
(* No second mail for a row *)

\* The task of r's campaign is at one of the places, and r is the row it holds.
HeldAt(r, places) == row[CampaignOf[r]] = r /\ pc[CampaignOf[r]] \in places

Unsettled == {"absent", "pending", "sending"}
BeforeMail == {"recheck", "wait", "presend", "guard", "smtp", "full", "fullRows", "fullRow"}

\* A row that may still be claimed, or is in hand before the hand-over to the server,
\* has no accepted message but those a crash made the database forget; only between
\* the acceptance and the UPDATE that follows it may an unsettled row be ahead by one.
Mailed(r) ==
  /\ accepted[r] <= 1 + orphans[r]
  /\ row[CampaignOf[r]] = r => rstatus[r] # "absent"
  /\ HeldAt(r, BeforeMail) => accepted[r] <= orphans[r]
  /\ rstatus[r] \in Unsettled /\ ~HeldAt(r, {"mark", "catch"}) => accepted[r] <= orphans[r]

MailInv == \A r \in Recipients : Mailed(r)

\* A step that leaves the task of r's campaign and the counts of r alone keeps Mailed(r),
\* unless it brings a settled row back to life.
LEMMA MailedKept ==
  ASSUME NEW r \in Recipients, Mailed(r),
         row'[CampaignOf[r]] = row[CampaignOf[r]],
         \/ pc'[CampaignOf[r]] = pc[CampaignOf[r]]
         \/ pc[CampaignOf[r]] = "off" /\ pc'[CampaignOf[r]] = "begin",
         accepted'[r] = accepted[r], orphans'[r] = orphans[r],
         rstatus'[r] \in Unsettled => rstatus[r] \in Unsettled,
         rstatus'[r] = "absent" => rstatus[r] = "absent"
  PROVE  Mailed(r)'
BY StoreAssumption DEF Mailed, HeldAt, BeforeMail

\* The statements on rows never revive a settled row, but for the row they settle.
LEMMA StatementsOnRows ==
  ASSUME NEW r \in Recipients
  PROVE  /\ \A cs : ReleaseRows(cs) => /\ rstatus'[r] \in Unsettled => rstatus[r] \in Unsettled
                                       /\ rstatus'[r] = "absent" => rstatus[r] = "absent"
                                       /\ rstatus'[r] = "sending" => rstatus[r] = "sending"
                                       /\ CampaignOf[r] \notin cs => rstatus'[r] = rstatus[r]
         /\ \A rs : RemoveRows(rs) => /\ rstatus'[r] \in Unsettled => rstatus[r] \in Unsettled
                                      /\ rstatus'[r] = "absent" => rstatus[r] = "absent"
                                      /\ rstatus'[r] = "sending" => rstatus[r] = "sending"
         /\ \A q, own, twin :
              SettleRow(q, own, twin) =>
                /\ CampaignOf[r] # CampaignOf[q] => rstatus'[r] = rstatus[r]
                /\ r # q => \/ rstatus'[r] = rstatus[r]
                            \/ rstatus[r] = "sending" /\ rstatus'[r] = twin
                /\ r = q => rstatus'[r] = IF rstatus[r] = "gone" THEN "gone" ELSE own
<1>1. \A cs : ReleaseRows(cs) => /\ rstatus'[r] \in Unsettled => rstatus[r] \in Unsettled
                                 /\ rstatus'[r] = "absent" => rstatus[r] = "absent"
                                 /\ rstatus'[r] = "sending" => rstatus[r] = "sending"
                                 /\ CampaignOf[r] \notin cs => rstatus'[r] = rstatus[r]
  BY DEF ReleaseRows, Unsettled
<1>2. \A rs : RemoveRows(rs) => /\ rstatus'[r] \in Unsettled => rstatus[r] \in Unsettled
                                /\ rstatus'[r] = "absent" => rstatus[r] = "absent"
                                /\ rstatus'[r] = "sending" => rstatus[r] = "sending"
  BY DEF RemoveRows, Unsettled
<1>3. ASSUME NEW q, NEW own, NEW twin, SettleRow(q, own, twin)
      PROVE  /\ CampaignOf[r] # CampaignOf[q] => rstatus'[r] = rstatus[r]
             /\ r # q => \/ rstatus'[r] = rstatus[r]
                         \/ rstatus[r] = "sending" /\ rstatus'[r] = twin
             /\ r = q => rstatus'[r] = IF rstatus[r] = "gone" THEN "gone" ELSE own
  BY <1>3 DEF SettleRow, Twins
<1> QED
  BY <1>1, <1>2, <1>3

\* A task touches its own row and rows of its own campaign only.
LEMMA TaskLocal ==
  ASSUME TypeOK, RowHeld, NEW c \in Campaigns, TaskStep(c), NEW r \in Recipients, CampaignOf[r] # c
  PROVE  /\ row'[CampaignOf[r]] = row[CampaignOf[r]]
         /\ pc'[CampaignOf[r]] = pc[CampaignOf[r]]
         /\ accepted'[r] = accepted[r] /\ orphans'[r] = orphans[r]
         /\ rstatus'[r] = rstatus[r]
<1> USE StoreAssumption, StatementsOnRows
<1>a. pc[c] \in Holding => row[c] \in Recipients /\ CampaignOf[row[c]] = c
  BY DEF RowHeld
<1> USE <1>a DEF TypeOK, TaskTypeOK, StoreTypeOK, storeVars, rowVars, mailVars, GoTo, Drop, Holding, InHand
<1>1. CASE Begin(c)
  BY <1>1 DEF Begin, Decide
<1>2. CASE Loop(c)
  BY <1>2 DEF Loop, Decide
<1>3. CASE Stop(c)
  BY <1>3 DEF Stop
<1>4. CASE Claim(c)
  BY <1>4 DEF Claim, RowsIn, Rows
<1>5. CASE NothingToClaim(c)
  BY <1>5 DEF NothingToClaim
<1>6. CASE Recheck(c)
  BY <1>6 DEF Recheck, Decide
<1>7. CASE Delay(c)
  BY <1>7 DEF Delay
<1>8. CASE PreSend(c)
  BY <1>8 DEF PreSend, Decide
<1>9. CASE GiveBack(c)
  BY <1>9 DEF GiveBack
<1>10. CASE Hold(c)
  BY <1>10 DEF Hold
<1>11. CASE HoldRows(c)
  BY <1>11, SMTT(30) DEF HoldRows
<1>12. CASE GuardStopped(c)
  BY <1>12 DEF GuardStopped
<1>13. CASE GuardDuplicate(c)
  BY <1>13 DEF GuardDuplicate
<1>14. CASE GuardExhausted(c)
  BY <1>14 DEF GuardExhausted
<1>15. CASE FullRow(c)
  BY <1>15 DEF FullRow
<1>16. CASE GuardPick(c)
  BY <1>16 DEF GuardPick
<1>17. CASE Accept(c)
  BY <1>17 DEF Accept
<1>18. CASE Mark(c)
  BY <1>18 DEF Mark
<1>19. CASE Log(c)
  BY <1>19 DEF Log
<1>20. CASE Throw(c)
  BY <1>20 DEF Throw
<1>21. CASE Catch(c)
  BY <1>21 DEF Catch
<1> QED
  BY <1>1, <1>2, <1>3, <1>4, <1>5, <1>6, <1>7, <1>8, <1>9, <1>10, <1>11,
     <1>12, <1>13, <1>14, <1>15, <1>16, <1>17, <1>18, <1>19, <1>20, <1>21 DEF TaskStep

\* Every step of the task of r's campaign keeps Mailed(r).
LEMMA TaskMailed ==
  ASSUME TypeOK, RowHeld, NEW c \in Campaigns, TaskStep(c),
         NEW r \in Recipients, CampaignOf[r] = c, Mailed(r)
  PROVE  Mailed(r)'
<1> USE StoreAssumption, StatementsOnRows
<1>a. /\ pc[c] \in Holding => row[c] \in Recipients
      /\ pc[c] \in Between => row[c] = NoRow
  BY DEF RowHeld
<1>b. accepted[r] \in Nat /\ orphans[r] \in Nat
  BY DEF TypeOK, StoreTypeOK
<1> USE <1>a, <1>b DEF TypeOK, TaskTypeOK, StoreTypeOK, storeVars, rowVars, mailVars, GoTo, Drop,
                       Mailed, HeldAt, Unsettled, BeforeMail, Holding, Between, InHand
<1>1. CASE Begin(c)
  BY <1>1 DEF Begin, Decide
<1>2. CASE Loop(c)
  BY <1>2 DEF Loop, Decide
<1>3. CASE Stop(c)
  BY <1>3 DEF Stop
<1>4. CASE Claim(c)
  BY <1>4 DEF Claim, RowsIn, Rows
<1>5. CASE NothingToClaim(c)
  BY <1>5 DEF NothingToClaim
<1>6. CASE Recheck(c)
  BY <1>6 DEF Recheck, Decide
<1>7. CASE Delay(c)
  BY <1>7 DEF Delay
<1>8. CASE PreSend(c)
  BY <1>8 DEF PreSend, Decide
<1>9. CASE GiveBack(c)
  BY <1>9 DEF GiveBack
<1>10. CASE Hold(c)
  BY <1>10 DEF Hold
<1>11. CASE HoldRows(c)
  <2>1. /\ \/ pc[c] = "holdRows" /\ row'[c] = NoRow
           \/ pc[c] = "fullRows" /\ row' = row /\ pc'[c] = "fullRow"
        /\ ReleaseRows({c}) /\ UNCHANGED <<accepted, orphans>>
    BY <1>11, SMTT(30) DEF HoldRows
  <2>2. /\ rstatus'[r] \in Unsettled => rstatus[r] \in Unsettled
        /\ rstatus'[r] = "absent" => rstatus[r] = "absent"
    BY <2>1
  <2> QED
    BY <2>1, <2>2, SMTT(30)
<1>12. CASE GuardStopped(c)
  BY <1>12, SMTT(30) DEF GuardStopped
<1>13. CASE GuardDuplicate(c)
  BY <1>13 DEF GuardDuplicate
<1>14. CASE GuardExhausted(c)
  BY <1>14 DEF GuardExhausted
<1>15. CASE FullRow(c)
  BY <1>15, SMTT(30) DEF FullRow
<1>16. CASE GuardPick(c)
  BY <1>16 DEF GuardPick
<1>17. CASE Accept(c)
  BY <1>17, SMTT(30) DEF Accept
<1>18. CASE Mark(c)
  <2>1. /\ SettleRow(row[c], "sent", "sent") /\ pc[c] = "mark" /\ row[c] \in Recipients
        /\ row' = row /\ pc'[c] = "log" /\ UNCHANGED <<accepted, orphans>>
    BY <1>18 DEF Mark
  <2>2. CASE r = row[c]
    <3>1. SettleRow(r, "sent", "sent")
      BY <2>1, <2>2
    <3>2. rstatus'[r] = IF rstatus[r] = "gone" THEN "gone" ELSE "sent"
      BY <3>1
    <3> QED
      BY <2>1, <3>2
  <2>3. CASE r # row[c]
    <3>1. rstatus'[r] = rstatus[r] \/ (rstatus[r] = "sending" /\ rstatus'[r] = "sent")
      BY <2>1, <2>3
    <3> QED
      BY <2>1, <2>3, <3>1
  <2> QED
    BY <2>2, <2>3
<1>19. CASE Log(c)
  BY <1>19 DEF Log
<1>20. CASE Throw(c)
  BY <1>20 DEF Throw
<1>21. CASE Catch(c)
  <2>1. /\ SettleRow(row[c], "failed", "pending") /\ pc[c] = "catch" /\ row[c] \in Recipients
        /\ row'[c] = NoRow /\ pc'[c] = "loop" /\ UNCHANGED <<accepted, orphans>>
    BY <1>21 DEF Catch
  <2>2. CASE r = row[c]
    <3>1. SettleRow(r, "failed", "pending")
      BY <2>1, <2>2
    <3>2. rstatus'[r] = IF rstatus[r] = "gone" THEN "gone" ELSE "failed"
      BY <3>1
    <3> QED
      BY <2>1, <3>2
  <2>3. CASE r # row[c]
    <3>1. rstatus'[r] = rstatus[r] \/ (rstatus[r] = "sending" /\ rstatus'[r] = "pending")
      BY <2>1, <2>3
    <3> QED
      BY <2>1, <2>3, <3>1
  <2> QED
    BY <2>2, <2>3
<1> QED
  BY <1>1, <1>2, <1>3, <1>4, <1>5, <1>6, <1>7, <1>8, <1>9, <1>10, <1>11,
     <1>12, <1>13, <1>14, <1>15, <1>16, <1>17, <1>18, <1>19, <1>20, <1>21 DEF TaskStep

\* The step does not revive the row, claim it, or touch what its campaign's task holds.
Aside(r) ==
  /\ row'[CampaignOf[r]] = row[CampaignOf[r]]
  /\ \/ pc'[CampaignOf[r]] = pc[CampaignOf[r]]
     \/ pc[CampaignOf[r]] = "off" /\ pc'[CampaignOf[r]] = "begin"
  /\ accepted' = accepted /\ orphans' = orphans
  /\ rstatus'[r] \in Unsettled => rstatus[r] \in Unsettled
  /\ rstatus'[r] = "absent" => rstatus[r] = "absent"
  /\ rstatus'[r] = "sending" => rstatus[r] = "sending"

\* Neither the poll loop nor a request nor the clock does any of that.
LEMMA OthersAside ==
  ASSUME TypeOK, PollLoop \/ Api \/ Time \/ UNCHANGED vars, NEW r \in Recipients
  PROVE  Aside(r)
<1>1. CASE PollLoop
  <2>1. UNCHANGED <<accepted, orphans>>
    BY <1>1 DEF PollLoop, PollStep, Activate, ActivateWrite, Arm, AutoPauseSelect, AutoPauseWrite,
         AutoPauseRows, DurationSelect, DurationEach, DurationWrite, DurationHold,
         DurationHoldRows, DurationEnd, WindowSelect, WindowEach, WindowHold, WindowHoldRows,
         WindowEnd, DailySelect, DailyEach, DailyWrite, DailyEnd, Enqueue, Complete, Select, EndOf,
         Skip, Choose, PauseCur, ReleaseCur, ResumeCur, Back, storeVars, mailVars
  <2>2. UNCHANGED rstatus \/ \E cs : ReleaseRows(cs)
    BY <1>1 DEF PollLoop, PollStep, Activate, ActivateWrite, Arm, AutoPauseSelect, AutoPauseWrite,
         AutoPauseRows, DurationSelect, DurationEach, DurationWrite, DurationHold,
         DurationHoldRows, DurationEnd, WindowSelect, WindowEach, WindowHold, WindowHoldRows,
         WindowEnd, DailySelect, DailyEach, DailyWrite, DailyEnd, Enqueue, Complete, Select, EndOf,
         Skip, Choose, PauseCur, ReleaseCur, ResumeCur, Back, storeVars, rowVars
  <2>3. /\ rstatus'[r] \in Unsettled => rstatus[r] \in Unsettled
        /\ rstatus'[r] = "absent" => rstatus[r] = "absent"
        /\ rstatus'[r] = "sending" => rstatus[r] = "sending"
    BY <2>2, StatementsOnRows
  <2>4. CampaignOf[r] \in Campaigns /\ PollStep
    BY <1>1, StoreAssumption DEF PollLoop
  <2>5. /\ row'[CampaignOf[r]] = row[CampaignOf[r]]
        /\ \/ pc'[CampaignOf[r]] = pc[CampaignOf[r]]
           \/ pc[CampaignOf[r]] = "off" /\ pc'[CampaignOf[r]] = "begin"
    BY <2>4, PollTasks
  <2> QED
    BY <2>1, <2>3, <2>5 DEF Aside
<1>2. CASE Api
  <2>1. UNCHANGED <<pc, row>> /\ accepted' = accepted /\ orphans' = orphans
    BY <1>2, ApiFrame DEF ByRequest, taskVars
  <2>2. \/ rstatus' = rstatus \/ (\E cs : ReleaseRows(cs)) \/ (\E rs : RemoveRows(rs))
        \/ \E q \in Recipients : Upload(q) \/ Report(q)
    BY <1>2, ApiFrame DEF ByRequest
  <2>3. /\ rstatus'[r] \in Unsettled => rstatus[r] \in Unsettled
        /\ rstatus'[r] = "absent" => rstatus[r] = "absent"
        /\ rstatus'[r] = "sending" => rstatus[r] = "sending"
    <3>1. ASSUME NEW q \in Recipients, Upload(q) \/ Report(q)
          PROVE  /\ rstatus'[r] \in Unsettled => rstatus[r] \in Unsettled
                 /\ rstatus'[r] = "absent" => rstatus[r] = "absent"
                 /\ rstatus'[r] = "sending" => rstatus[r] = "sending"
      BY <3>1 DEF Upload, Report, Unsettled, TypeOK, StoreTypeOK
    <3> QED
      BY <2>2, <3>1, StatementsOnRows
  <2> QED
    BY <2>1, <2>3 DEF Aside
<1>3. CASE Time \/ UNCHANGED vars
  <2>1. UNCHANGED <<accepted, orphans, pc, row, rstatus>>
    BY <1>3 DEF Time, Clock, Midnight, WindowFlip, PauseTime, ScheduleTime, vars, storeVars,
         mailVars, rowVars, taskVars
  <2> QED
    BY <2>1 DEF Aside
<1> QED
  BY <1>1, <1>2, <1>3

\* So none of them disturbs Mailed(r).
LEMMA OthersMailed ==
  ASSUME TypeOK, PollLoop \/ Api \/ Time \/ UNCHANGED vars, NEW r \in Recipients, Mailed(r)
  PROVE  Mailed(r)'
<1>1. Aside(r)
  BY OthersAside
<1> QED
  BY <1>1, MailedKept DEF Aside

\* A crash forgets the row in hand; if its message was out and unmarked, the ghost
\* count of such losses grows with it.
LEMMA CrashMailed ==
  ASSUME TypeOK, RowHeld, Crash, NEW r \in Recipients, Mailed(r)
  PROVE  Mailed(r)'
<1>1. CampaignOf[r] \in Campaigns /\ NoRow \notin Recipients
  BY StoreAssumption
<1>2. accepted[r] \in Nat /\ orphans[r] \in Nat /\ accepted'[r] = accepted[r] /\ rstatus'[r] = rstatus[r]
  BY DEF Crash, TypeOK, StoreTypeOK, rowVars
<1>3. row'[CampaignOf[r]] = NoRow
  BY <1>1 DEF Crash
<1>4. orphans'[r] = IF r \in Unmarked THEN orphans[r] + 1 ELSE orphans[r]
  BY DEF Crash
<1>5. rstatus[r] \in Unsettled => accepted[r] <= orphans'[r]
  <2>1. CASE HeldAt(r, {"mark", "catch"})
    <3>1. rstatus[r] \in Unsettled /\ accepted[r] > orphans[r] => r \in Unmarked
      BY <1>1, <2>1 DEF Unmarked, HeldAt, Mailed, Unsettled
    <3> QED
      BY <1>2, <1>4, <3>1 DEF Mailed
  <2>2. CASE ~HeldAt(r, {"mark", "catch"})
    BY <1>2, <1>4, <2>2 DEF Mailed
  <2> QED
    BY <2>1, <2>2
<1>6. accepted[r] <= 1 + orphans'[r]
  BY <1>2, <1>4 DEF Mailed
<1> QED
  BY <1>1, <1>2, <1>3, <1>5, <1>6 DEF Mailed, HeldAt

\* The inductive invariant of the system.
THEOREM Inductive == Spec => [](TypeOK /\ RowHeld /\ MailInv)
<1>1. Init => TypeOK /\ RowHeld /\ MailInv
  <2> SUFFICES ASSUME Init PROVE MailInv
    BY InitType
  <2> QED
    BY StoreAssumption DEF Init, MailInv, Mailed, HeldAt, BeforeMail
<1>2. TypeOK /\ RowHeld /\ MailInv /\ [Next]_vars => TypeOK' /\ RowHeld' /\ MailInv'
  <2> SUFFICES ASSUME TypeOK, RowHeld, MailInv, [Next]_vars
               PROVE  MailInv'
    BY Step
  <2> SUFFICES ASSUME NEW r \in Recipients
               PROVE  Mailed(r)'
    BY DEF MailInv
  <2>a. Mailed(r) /\ CampaignOf[r] \in Campaigns
    BY StoreAssumption DEF MailInv
  <2>1. ASSUME NEW c \in Campaigns, Worker(c)
        PROVE  Mailed(r)'
    <3>1. CASE CampaignOf[r] = c
      BY <2>a, <2>1, <3>1, TaskMailed DEF Worker
    <3>2. CASE CampaignOf[r] # c
      BY <2>a, <2>1, <3>2, TaskLocal, MailedKept DEF Worker
    <3> QED
      BY <3>1, <3>2
  <2>2. CASE PollLoop \/ Api \/ Time \/ UNCHANGED vars
    BY <2>a, <2>2, OthersMailed
  <2>3. CASE Crash
    BY <2>a, <2>3, CrashMailed
  <2> QED
    BY <2>1, <2>2, <2>3 DEF Next
<1> QED
  BY <1>1, <1>2, PTL DEF Spec

\* However pauses, resumes, edits, uploads, deletions and failing statements fall into
\* its send, a row is mailed at most once for every time the worker dies between the
\* server's acceptance and the UPDATE of the row, and once more.
THEOREM NoSecondMail == Spec => []AtMostOneMail
<1>1. MailInv => AtMostOneMail
  BY DEF MailInv, Mailed, AtMostOneMail
<1> QED
  BY <1>1, Inductive, PTL
-----------------------------------------------------------------------------
(* No row is stranded in 'sending' *)

OwnerPlaces == InHand \union {"hold", "holdRows", "full", "fullRows", "catch"}
Owned(r) == rstatus[r] = "sending" => HeldAt(r, OwnerPlaces)

\* The task of the row's campaign: it lets go of a row only where no row of the
\* campaign is left in 'sending'.
LEMMA TaskOwned ==
  ASSUME TypeOK, RowHeld, NEW c \in Campaigns, TaskStep(c),
         NEW r \in Recipients, CampaignOf[r] = c, Owned(r)
  PROVE  Owned(r)'
<1> USE StoreAssumption, StatementsOnRows
<1>a. /\ pc[c] \in Holding => row[c] \in Recipients
      /\ pc[c] \in Between => row[c] = NoRow
  BY DEF RowHeld
<1> USE <1>a DEF TypeOK, TaskTypeOK, StoreTypeOK, storeVars, rowVars, GoTo, Drop,
                 Owned, OwnerPlaces, HeldAt, Holding, Between, InHand
<1>1. CASE Begin(c)
  BY <1>1 DEF Begin, Decide
<1>2. CASE Loop(c)
  BY <1>2 DEF Loop, Decide
<1>3. CASE Stop(c)
  BY <1>3 DEF Stop
<1>4. CASE Claim(c)
  BY <1>4 DEF Claim, RowsIn, Rows
<1>5. CASE NothingToClaim(c)
  BY <1>5 DEF NothingToClaim
<1>6. CASE Recheck(c)
  BY <1>6 DEF Recheck, Decide
<1>7. CASE Delay(c)
  BY <1>7 DEF Delay
<1>8. CASE PreSend(c)
  BY <1>8 DEF PreSend, Decide
<1>9. CASE GiveBack(c)
  <2>1. rstatus'[r] # "sending"
    BY <1>9 DEF GiveBack, ReleaseRows
  <2> QED
    BY <2>1
<1>10. CASE Hold(c)
  BY <1>10 DEF Hold
<1>11. CASE HoldRows(c)
  <2>1. rstatus'[r] # "sending"
    BY <1>11 DEF HoldRows, ReleaseRows
  <2> QED
    BY <2>1
<1>12. CASE GuardStopped(c)
  <2>1. rstatus'[r] # "sending"
    BY <1>12 DEF GuardStopped, SettleRow
  <2> QED
    BY <2>1
<1>13. CASE GuardDuplicate(c)
  <2>1. rstatus'[r] # "sending"
    BY <1>13 DEF GuardDuplicate, SettleRow
  <2> QED
    BY <2>1
<1>14. CASE GuardExhausted(c)
  BY <1>14 DEF GuardExhausted
<1>15. CASE FullRow(c)
  BY <1>15 DEF FullRow
<1>16. CASE GuardPick(c)
  BY <1>16 DEF GuardPick
<1>17. CASE Accept(c)
  BY <1>17 DEF Accept
<1>18. CASE Mark(c)
  <2>1. rstatus'[r] # "sending"
    BY <1>18 DEF Mark, SettleRow
  <2> QED
    BY <2>1
<1>19. CASE Log(c)
  BY <1>19 DEF Log
<1>20. CASE Throw(c)
  BY <1>20 DEF Throw
<1>21. CASE Catch(c)
  <2>1. rstatus'[r] # "sending"
    BY <1>21 DEF Catch, SettleRow
  <2> QED
    BY <2>1
<1> QED
  BY <1>1, <1>2, <1>3, <1>4, <1>5, <1>6, <1>7, <1>8, <1>9, <1>10, <1>11,
     <1>12, <1>13, <1>14, <1>15, <1>16, <1>17, <1>18, <1>19, <1>20, <1>21 DEF TaskStep
\* A row shows 'sending' only while the task of its campaign holds it, for as long as the
\* worker has not crashed: no pause, resume, edit, deletion or failing statement strands it.
THEOREM NoStrandedRow == Spec => []SendingHasOwner
<1> DEFINE Inv == crashes = 0 => \A r \in Recipients : Owned(r)
<1>1. Init => Inv
  BY DEF Init, Owned
<1>2. TypeOK /\ RowHeld /\ Inv /\ [Next]_vars => Inv'
  <2> SUFFICES ASSUME TypeOK, RowHeld, Inv, [Next]_vars, crashes' = 0, NEW r \in Recipients
               PROVE  Owned(r)'
    OBVIOUS
  <2>1. ~Crash
    BY DEF Crash, TypeOK
  <2>2. crashes = 0
    BY <2>1 DEF Next, Worker, PollLoop, Api, Time, vars
  <2>3. Owned(r) /\ CampaignOf[r] \in Campaigns
    BY <2>2, StoreAssumption
  <2>4. ASSUME NEW c \in Campaigns, Worker(c)
        PROVE  Owned(r)'
    <3>1. CASE CampaignOf[r] = c
      BY <2>3, <2>4, <3>1, TaskOwned DEF Worker
    <3>2. CASE CampaignOf[r] # c
      BY <2>3, <2>4, <3>2, TaskLocal DEF Worker, Owned, HeldAt
    <3> QED
      BY <3>1, <3>2
  <2>5. CASE PollLoop \/ Api \/ Time \/ UNCHANGED vars
    <3>1. Aside(r)
      BY <2>5, OthersAside
    <3> QED
      BY <2>3, <3>1 DEF Aside, Owned, HeldAt, OwnerPlaces, InHand
  <2> QED
    BY <2>1, <2>4, <2>5 DEF Next
<1>3. Inv => SendingHasOwner
  BY DEF Owned, HeldAt, OwnerPlaces, SendingHasOwner
<1> HIDE DEF Inv
<1> QED
  BY <1>1, <1>2, <1>3, Inductive, PTL DEF Spec
=============================================================================
