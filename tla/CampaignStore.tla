--------------------------- MODULE CampaignStore ---------------------------
(***************************************************************************)
(* The database rows and the clock that the campaign sender works on, and  *)
(* the statements that the worker, the poll loop and the API handlers      *)
(* issue.  Every statement is atomic (one SQL statement on PostgreSQL);    *)
(* two statements of one handler are two steps, with the other processes   *)
(* free to run in between.  One user owns every campaign.                  *)
(***************************************************************************)
EXTENDS Naturals, Sequences, FiniteSets

CONSTANTS
  Campaigns,     \* campaigns of the user
  Recipients,    \* recipient rows
  Accounts,      \* SMTP profiles of the user
  CampaignOf,    \* recipients.campaign_id
  AddressOf,     \* recipients.email
  SmtpList,      \* campaigns.smtp_setting_ids, the primary account first
  SmtpCap,       \* interpreted daily limit of an account, 0 when blocked
  CampaignCap,   \* campaigns.daily_send_limit, out of reach when it is null
  SendDays,      \* campaigns.send_weekdays
  HasWindow,     \* a daily send window is configured
  AutoPause,     \* "off", "fixed" (pause_at) or "duration" (minutes)
  Week,          \* number of days the weekday counter runs through
  NoRow, NoCampaign

ASSUME StoreAssumption ==
  /\ CampaignOf \in [Recipients -> Campaigns]
  /\ SmtpList \in [Campaigns -> Seq(Accounts)]
  /\ \A c \in Campaigns : SmtpList[c] # << >>
  /\ SmtpCap \in [Accounts -> Nat]
  /\ CampaignCap \in [Campaigns -> Nat \ {0}]
  /\ Week \in Nat \ {0}
  /\ SendDays \in [Campaigns -> SUBSET (0 .. Week - 1)]
  /\ HasWindow \in [Campaigns -> BOOLEAN]
  /\ AutoPause \in [Campaigns -> {"off", "fixed", "duration"}]
  /\ NoRow \notin Recipients
  /\ NoCampaign \notin Campaigns

ASSUME FiniteAssumption == IsFiniteSet(Campaigns)

VARIABLES
  cstatus,    \* campaigns.status, "deleted" when the row is gone
  reason,     \* campaigns.pause_reason, "none" for NULL
  pausedAt,   \* campaigns.paused_at as the day it names: none, today, earlier
  pauseAt,    \* campaigns.pause_at: none, armed (in the future), due
  sched,      \* campaigns.scheduled_at: none, future, due
  rstatus,    \* recipients.status, "absent" before upload, "gone" when deleted,
              \* "reported" for delivered, bounced and complained
  stamped,    \* recipients whose message_id is set
  sendLog,    \* email_send_log rows that count for today
  dow,        \* weekday in the schedule time zone
  open,       \* the time of day lies in the send windows
  accepted,   \* history: messages the SMTP server accepted, per row
  orphans,    \* history: accepted messages the worker died on before the row update
  userPaused  \* history: the last thing the user did to the campaign is to pause it

campaignVars == <<cstatus, reason, pausedAt, pauseAt, sched>>
rowVars == <<rstatus, stamped>>
mailVars == <<sendLog, accepted, orphans>>
clockVars == <<dow, open>>
storeVars == <<campaignVars, rowVars, mailVars, clockVars, userPaused>>

CStatus == {"draft", "scheduled", "in_progress", "paused", "completed", "deleted"}
DailyReasons == {"smtp_daily_limit", "daily_campaign_cap", "weekday_filter", "send_window_closed"}
Reasons == DailyReasons \union {"none", "duration_break", "auto_pause"}
RStatus == {"absent", "pending", "sending", "sent", "failed", "reported", "gone"}

\* A message handed to an SMTP server: the n-th one for its row.
Mails == [rcpt : Recipients, n : Nat, acct : Accounts]

StoreTypeOK ==
  /\ cstatus \in [Campaigns -> CStatus]
  /\ reason \in [Campaigns -> Reasons]
  /\ pausedAt \in [Campaigns -> {"none", "today", "earlier"}]
  /\ pauseAt \in [Campaigns -> {"none", "armed", "due"}]
  /\ sched \in [Campaigns -> {"none", "future", "due"}]
  /\ rstatus \in [Recipients -> RStatus]
  /\ stamped \in SUBSET Recipients
  /\ sendLog \in SUBSET Mails
  /\ dow \in 0 .. Week - 1
  /\ open \in BOOLEAN
  /\ accepted \in [Recipients -> Nat]
  /\ orphans \in [Recipients -> Nat]
  /\ userPaused \in [Campaigns -> BOOLEAN]

-----------------------------------------------------------------------------
(* Queries *)

Rows(c) == {r \in Recipients : CampaignOf[r] = c}
RowsIn(c, status) == {r \in Rows(c) : rstatus[r] = status}
HasPending(c) == RowsIn(c, "pending") # {}
Running == {c \in Campaigns : cstatus[c] = "in_progress"}
Primary(c) == Head(SmtpList[c])

\* isScheduledTimeReached: a campaign without a schedule may send at once.
ScheduleReached(c) == sched[c] # "future"

SentByAccount(a) == Cardinality({m \in sendLog : m.acct = a})
SentByCampaign(c) == Cardinality({m \in sendLog : CampaignOf[m.rcpt] = c})

\* Mutant of HasQuota: <= for <.
HasQuotaAtCap(a) == SentByAccount(a) <= SmtpCap[a]
HasQuota(a) == SentByAccount(a) < SmtpCap[a]
OverCampaignCap(c) == SentByCampaign(c) >= CampaignCap[c]

\* pickAvailableSmtp: positions of the list whose account has quota left.
Usable(c) == {i \in DOMAIN SmtpList[c] : HasQuota(SmtpList[c][i])}
FirstUsable(c, i) == i \in Usable(c) /\ \A j \in Usable(c) : i <= j

DayBlocked(c) == dow \notin SendDays[c]
WindowBlocked(c) == HasWindow[c] /\ ~open
CanSendNow(c) == ~DayBlocked(c) /\ ~WindowBlocked(c)

\* isSmtpInUse: only the primary account of the other campaign is compared.
SmtpInUse(c) == \E d \in Running \ {c} : Primary(d) = Primary(c)

-----------------------------------------------------------------------------
(* Statements *)

Exists(c) == cstatus[c] # "deleted"

\* UPDATE campaigns SET status = 'paused', ... WHERE id = c: no test of the status.
SetPaused(c, why, at) ==
  IF Exists(c)
  THEN /\ cstatus' = [cstatus EXCEPT ![c] = "paused"]
       /\ reason' = [reason EXCEPT ![c] = why]
       /\ pausedAt' = [pausedAt EXCEPT ![c] = at]
       /\ pauseAt' = [pauseAt EXCEPT ![c] = "none"]
       /\ UNCHANGED sched
  ELSE UNCHANGED campaignVars

\* UPDATE campaigns SET status = 'in_progress', pause_reason = NULL, ... WHERE id = c.
SetRunning(c, nextPauseAt) ==
  IF Exists(c)
  THEN /\ cstatus' = [cstatus EXCEPT ![c] = "in_progress"]
       /\ reason' = [reason EXCEPT ![c] = "none"]
       /\ pausedAt' = [pausedAt EXCEPT ![c] = "none"]
       /\ pauseAt' = [pauseAt EXCEPT ![c] = nextPauseAt]
       /\ UNCHANGED sched
  ELSE UNCHANGED campaignVars

\* computePauseAtOnStart: a run duration arms a new pause time; the earlier one wins.
PauseAtOnStart(c, time) == IF AutoPause[c] = "duration" /\ time # "due" THEN "armed" ELSE time

\* Mutant of ReleaseRows: failed rows are released as well.
ReleaseFailedToo(cs) ==
  /\ rstatus' = [r \in Recipients |->
                   IF CampaignOf[r] \in cs /\ rstatus[r] \in {"sending", "failed"}
                   THEN "pending" ELSE rstatus[r]]
  /\ UNCHANGED stamped

\* UPDATE recipients SET status = 'pending' WHERE campaign_id IN cs AND status = 'sending'.
ReleaseRows(cs) ==
  /\ rstatus' = [r \in Recipients |->
                   IF CampaignOf[r] \in cs /\ rstatus[r] = "sending"
                   THEN "pending" ELSE rstatus[r]]
  /\ UNCHANGED stamped

\* DELETE FROM recipients: the rows of rs.
RemoveRows(rs) ==
  /\ rstatus' = [r \in Recipients |->
                   IF r \in rs /\ rstatus[r] # "absent" THEN "gone" ELSE rstatus[r]]
  /\ UNCHANGED stamped

\* Rows of the same campaign and address still marked 'sending'.
Twins(r) ==
  {q \in Recipients \ {r} : /\ CampaignOf[q] = CampaignOf[r]
                            /\ AddressOf[q] = AddressOf[r]}

\* Mutant of SettleRow: twins are written whatever their status.
SettleEveryTwin(r, own, twin) ==
  rstatus' = [q \in Recipients |->
                IF q = r /\ rstatus[q] # "gone" THEN own
                ELSE IF q \in Twins(r) /\ rstatus[q] # "gone" THEN twin
                ELSE rstatus[q]]

\* UPDATE row r, then every twin that is 'sending'; a deleted row matches nothing.
SettleRow(r, own, twin) ==
  rstatus' = [q \in Recipients |->
                IF q = r /\ rstatus[q] # "gone" THEN own
                ELSE IF q \in Twins(r) /\ rstatus[q] = "sending" THEN twin
                ELSE rstatus[q]]

-----------------------------------------------------------------------------
(* Time *)

\* Mutant of Midnight: the weekday runs past the end of the week.
MidnightNoWrap ==
  /\ dow' = dow + 1
  /\ pausedAt' = [c \in Campaigns |-> IF pausedAt[c] = "today" THEN "earlier" ELSE pausedAt[c]]
  /\ sendLog' = {}
  /\ UNCHANGED <<cstatus, reason, pauseAt, sched, rowVars, accepted, orphans, open, userPaused>>

\* Midnight in the schedule time zone: the daily counts restart.
Midnight ==
  /\ dow' = (dow + 1) % Week
  /\ pausedAt' = [c \in Campaigns |-> IF pausedAt[c] = "today" THEN "earlier" ELSE pausedAt[c]]
  /\ sendLog' = {}
  /\ UNCHANGED <<cstatus, reason, pauseAt, sched, rowVars, accepted, orphans, open, userPaused>>

\* The time of day enters or leaves the send windows.
WindowFlip ==
  /\ \E c \in Campaigns : HasWindow[c]
  /\ open' = ~open
  /\ UNCHANGED <<campaignVars, rowVars, mailVars, dow, userPaused>>

\* The clock reaches pause_at, or scheduled_at, of a campaign.
PauseTime(c) ==
  /\ pauseAt[c] = "armed"
  /\ pauseAt' = [pauseAt EXCEPT ![c] = "due"]
  /\ UNCHANGED <<cstatus, reason, pausedAt, sched, rowVars, mailVars, clockVars, userPaused>>

ScheduleTime(c) ==
  /\ sched[c] = "future"
  /\ sched' = [sched EXCEPT ![c] = "due"]
  /\ UNCHANGED <<cstatus, reason, pausedAt, pauseAt, rowVars, mailVars, clockVars, userPaused>>

Clock == Midnight \/ WindowFlip \/ \E c \in Campaigns : PauseTime(c) \/ ScheduleTime(c)
=============================================================================
