---------------------------- MODULE CampaignPoll ----------------------------
(***************************************************************************)
(* The poll loop of the email worker.  One pass runs the scheduler         *)
(* functions in a fixed order; each reads its candidates, decides on one   *)
(* after the other, and writes.  at is the statement about to run, todo    *)
(* the candidates left, cur and verdict the write decided on.  The         *)
(* follow-up jobs that run between "daily" and "enqueue" are left to the   *)
(* follow-up module.                                                       *)
(***************************************************************************)
EXTENDS CampaignTask

VARIABLES at, todo, cur, verdict

pollVars == <<at, todo, cur, verdict>>

PollPCs == {"activate", "activateWrite", "arm", "autoPause", "autoPauseWrite", "autoPauseRows",
            "duration", "durationEach", "durationWrite", "durationHold", "durationHoldRows",
            "window", "windowEach", "windowHold", "windowHoldRows",
            "daily", "dailyEach", "dailyWrite", "enqueue", "complete"}

PollTypeOK ==
  /\ at \in PollPCs
  /\ todo \in SUBSET Campaigns
  /\ cur \in Campaigns \union {NoCampaign}
  /\ verdict \in Reasons

\* Read the candidates of a scheduler function; with none it returns at once.
Select(from, cs, next, skip) ==
  /\ at = from
  /\ todo' = cs
  /\ at' = IF cs = {} THEN skip ELSE next
  /\ UNCHANGED <<storeVars, taskVars, cur, verdict>>

\* The loop over the candidates has come to its end.
EndOf(from, next) ==
  /\ at = from
  /\ todo = {}
  /\ at' = next
  /\ UNCHANGED <<storeVars, taskVars, todo, cur, verdict>>

\* `continue`: the candidate is left as it is.
Skip(c) == todo' = todo \ {c} /\ UNCHANGED <<storeVars, taskVars, at, cur, verdict>>

\* The checks on candidate c end in a write with reason v ("none" to resume it).
Choose(c, v, next) ==
  /\ todo' = todo \ {c}
  /\ cur' = c
  /\ verdict' = v
  /\ at' = next
  /\ UNCHANGED <<storeVars, taskVars>>

\* Back to the loop after a write.
Back(next) == at' = next /\ cur' = NoCampaign /\ verdict' = "none" /\ UNCHANGED <<todo, taskVars>>

PauseCur(from, next) ==
  /\ at = from
  /\ SetPaused(cur, verdict, "today")
  /\ at' = next
  /\ UNCHANGED <<rowVars, mailVars, clockVars, userPaused, taskVars, todo, cur, verdict>>

ReleaseCur(from, next) ==
  /\ at = from
  /\ ReleaseRows({cur})
  /\ Back(next)
  /\ UNCHANGED <<campaignVars, mailVars, clockVars, userPaused>>

ResumeCur(from, nextPauseAt, next) ==
  /\ at = from
  /\ SetRunning(cur, nextPauseAt)
  /\ Back(next)
  /\ UNCHANGED <<rowVars, mailVars, clockVars, userPaused>>

-----------------------------------------------------------------------------
(* activateScheduledCampaigns: no look at the other campaigns or accounts. *)

\* Mutant of Activate: a paused campaign with a due schedule is taken as well.
ActivatePaused ==
  Select("activate",
         {c \in Campaigns : cstatus[c] \in {"scheduled", "paused"} /\ sched[c] = "due" /\ HasPending(c)},
         "activateWrite", "autoPause")

Activate ==
  Select("activate",
         {c \in Campaigns : cstatus[c] = "scheduled" /\ sched[c] = "due" /\ HasPending(c)},
         "activateWrite", "autoPause")

ActivateWrite ==
  /\ at = "activateWrite"
  /\ LET started == {c \in todo : cstatus[c] = "scheduled"} IN
       /\ cstatus' = [c \in Campaigns |-> IF c \in started THEN "in_progress" ELSE cstatus[c]]
       /\ todo' = started
       /\ at' = IF started = {} THEN "autoPause" ELSE "arm"
  /\ UNCHANGED <<reason, pausedAt, pauseAt, sched, rowVars, mailVars, clockVars, userPaused,
                 taskVars, cur, verdict>>

\* The duration counts from scheduled_at, so its end may have passed already.
ArmedAt(c) ==
  IF AutoPause[c] = "duration" /\ pauseAt[c] # "due" THEN {"armed", "due"} ELSE {pauseAt[c]}

\* The pause time of an activated campaign is a write of its own.
Arm ==
  /\ at = "arm"
  /\ \E c \in todo :
       /\ \E t \in ArmedAt(c) :
            pauseAt' = IF Exists(c) THEN [pauseAt EXCEPT ![c] = t] ELSE pauseAt
       /\ todo' = todo \ {c}
       /\ at' = IF todo = {c} THEN "autoPause" ELSE "arm"
  /\ UNCHANGED <<cstatus, reason, pausedAt, sched, rowVars, mailVars, clockVars, userPaused,
                 taskVars, cur, verdict>>

-----------------------------------------------------------------------------
(* autoPauseCampaigns *)

AutoPauseSelect ==
  Select("autoPause", {c \in Running : pauseAt[c] = "due"}, "autoPauseWrite", "duration")

AutoPauseWrite ==
  /\ at = "autoPauseWrite"
  /\ LET hit == todo \intersect Running IN
       /\ cstatus' = [c \in Campaigns |-> IF c \in hit THEN "paused" ELSE cstatus[c]]
       /\ reason' = [c \in Campaigns |->
                       IF c \notin hit THEN reason[c]
                       ELSE IF AutoPause[c] = "duration" THEN "duration_break" ELSE "auto_pause"]
       /\ pausedAt' = [c \in Campaigns |-> IF c \in hit THEN "today" ELSE pausedAt[c]]
       /\ pauseAt' = [c \in Campaigns |-> IF c \in hit THEN "none" ELSE pauseAt[c]]
       /\ todo' = hit
       /\ at' = IF hit = {} THEN "duration" ELSE "autoPauseRows"
  /\ UNCHANGED <<sched, rowVars, mailVars, clockVars, userPaused, taskVars, cur, verdict>>

AutoPauseRows ==
  /\ at = "autoPauseRows"
  /\ ReleaseRows(todo)
  /\ todo' = {}
  /\ at' = "duration"
  /\ UNCHANGED <<campaignVars, mailVars, clockVars, userPaused, taskVars, cur, verdict>>

-----------------------------------------------------------------------------
(* autoResumeDurationPausedCampaigns.  The test of the next calendar day   *)
(* uses the row as selected, so it is part of the selection here.          *)

DurationSelect ==
  Select("duration",
         {c \in Campaigns : /\ cstatus[c] = "paused"
                            /\ reason[c] = "duration_break"
                            /\ AutoPause[c] = "duration"
                            /\ pausedAt[c] = "earlier"},
         "durationEach", "window")

\* Only the primary account counts here, not the whole list.
DurationVerdict(c) ==
  IF ~HasPending(c) \/ ~CanSendNow(c) THEN "skip"
  ELSE IF ~HasQuota(Primary(c)) THEN "smtp_daily_limit"
  ELSE IF SmtpInUse(c) THEN "skip"
  ELSE IF OverCampaignCap(c) THEN "daily_campaign_cap"
  ELSE IF Running # {} THEN "skip" ELSE "none"

DurationEach ==
  /\ at = "durationEach"
  /\ \E c \in todo :
       LET v == DurationVerdict(c) IN
       \/ v = "skip" /\ Skip(c)
       \/ v = "none" /\ Choose(c, v, "durationWrite")
       \/ v \notin {"skip", "none"} /\ Choose(c, v, "durationHold")

DurationWrite == ResumeCur("durationWrite", PauseAtOnStart(cur, pauseAt[cur]), "durationEach")
DurationHold == PauseCur("durationHold", "durationHoldRows")
DurationHoldRows == ReleaseCur("durationHoldRows", "durationEach")
DurationEnd == EndOf("durationEach", "window")

-----------------------------------------------------------------------------
(* autoPauseInProgressOutsideSendWindow *)

WindowSelect == Select("window", Running, "windowEach", "daily")

WindowEach ==
  /\ at = "windowEach"
  /\ \E c \in todo : IF WindowBlocked(c)
                      THEN Choose(c, "send_window_closed", "windowHold")
                      ELSE Skip(c)

WindowHold == PauseCur("windowHold", "windowHoldRows")
WindowHoldRows == ReleaseCur("windowHoldRows", "windowEach")
WindowEnd == EndOf("windowEach", "daily")

-----------------------------------------------------------------------------
(* autoResumeDailyPausedCampaigns *)

NextDayNeeded == {"smtp_daily_limit", "daily_campaign_cap"}

\* Mutants of DailySelect: the comparison of the days is the wrong way round ...
SelectSameDay ==
  Select("daily",
         {c \in Campaigns : /\ cstatus[c] = "paused"
                            /\ reason[c] \in DailyReasons
                            /\ pausedAt[c] # "none"
                            /\ reason[c] \in NextDayNeeded => pausedAt[c] = "today"},
         "dailyEach", "enqueue")

\* ... or only the pauses for a limit are resumed.
SelectLimitsOnly ==
  Select("daily",
         {c \in Campaigns : /\ cstatus[c] = "paused"
                            /\ reason[c] \in NextDayNeeded
                            /\ pausedAt[c] = "earlier"},
         "dailyEach", "enqueue")

DailySelect ==
  Select("daily",
         {c \in Campaigns : /\ cstatus[c] = "paused"
                            /\ reason[c] \in DailyReasons
                            /\ pausedAt[c] # "none"
                            /\ reason[c] \in NextDayNeeded => pausedAt[c] = "earlier"},
         "dailyEach", "enqueue")

DailyEach ==
  /\ at = "dailyEach"
  /\ \E c \in todo : IF CanSendNow(c) /\ HasPending(c) /\ Running = {}
                      THEN Choose(c, "none", "dailyWrite")
                      ELSE Skip(c)

\* pause_at is not part of this UPDATE.
DailyWrite == ResumeCur("dailyWrite", pauseAt[cur], "dailyEach")
DailyEnd == EndOf("dailyEach", "enqueue")

-----------------------------------------------------------------------------
(* The end of a pass: start the missing tasks, mark what is completed. *)

Enqueue ==
  /\ at = "enqueue"
  /\ pc' = [c \in Campaigns |->
              IF c \in Running /\ pc[c] = "off" /\ ScheduleReached(c) THEN "begin" ELSE pc[c]]
  /\ at' = "complete"
  /\ UNCHANGED <<storeVars, row, why, first, acct, todo, cur, verdict>>

\* Mutant of Complete: rows in 'sending' do not count.
CompleteOverSending ==
  /\ at = "complete"
  /\ cstatus' = [c \in Campaigns |-> IF c \in Running /\ ~HasPending(c)
                                      THEN "completed" ELSE cstatus[c]]
  /\ at' = "activate"
  /\ UNCHANGED <<reason, pausedAt, pauseAt, sched, rowVars, mailVars, clockVars, userPaused,
                 taskVars, todo, cur, verdict>>

\* One UPDATE with the test in its WHERE clause.
Complete ==
  /\ at = "complete"
  /\ cstatus' = [c \in Campaigns |->
                   IF c \in Running /\ RowsIn(c, "pending") \union RowsIn(c, "sending") = {}
                   THEN "completed" ELSE cstatus[c]]
  /\ at' = "activate"
  /\ UNCHANGED <<reason, pausedAt, pauseAt, sched, rowVars, mailVars, clockVars, userPaused,
                 taskVars, todo, cur, verdict>>

PollStep ==
  \/ Activate \/ ActivateWrite \/ Arm
  \/ AutoPauseSelect \/ AutoPauseWrite \/ AutoPauseRows
  \/ DurationSelect \/ DurationEach \/ DurationWrite \/ DurationHold \/ DurationHoldRows \/ DurationEnd
  \/ WindowSelect \/ WindowEach \/ WindowHold \/ WindowHoldRows \/ WindowEnd
  \/ DailySelect \/ DailyEach \/ DailyWrite \/ DailyEnd
  \/ Enqueue \/ Complete
=============================================================================
