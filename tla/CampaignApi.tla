----------------------------- MODULE CampaignApi -----------------------------
(***************************************************************************)
(* The API handlers that change a campaign: start, resume, pause, edit,    *)
(* delete, and the upload and removal of recipients.  Each campaign has at most one     *)
(* request in flight; a handler reads the row, decides, and writes later   *)
(* without testing the row again.  The settings a campaign is edited to    *)
(* (limits, weekdays, window, accounts) are constants of the model.        *)
(***************************************************************************)
EXTENDS CampaignPoll

CONSTANTS
  EditChoices,   \* what an edit may do to a time of the campaign
  Reportable,    \* rows whose message the mail service reports on
  MaxRequests    \* bound on the number of requests

ASSUME ApiAssumption ==
  /\ EditChoices \subseteq {"keep", "none", "future"}
  /\ Reportable \subseteq Recipients
  /\ MaxRequests \in Nat

VARIABLES
  req,       \* the request in flight on a campaign, and what it has read
  requests   \* number of requests made so far

apiVars == <<req, requests>>

ReqPCs == {"none", "other", "pauseOther", "otherRows", "check", "rows", "write",
           "pauseWrite", "pauseRows", "editWrite", "settingsWrite",
           "reconcile", "reconcileHold", "reconcileRows", "reconcileResume",
           "deleteLog", "deleteRows", "deleteCampaign", "removeRows"}

Requests ==
  [at : ReqPCs,                            \* the statement it runs next
   kind : {"start", "resume"},
   force : BOOLEAN,                        \* pause the campaign that is running
   other : Campaigns \union {NoCampaign},  \* that campaign
   status : CStatus,                       \* the status an edit is going to write
   sched : {"keep", "none", "future"},    \* leave it, remove it, move it
   pauseAt : {"none", "armed", "due"}]     \* the pause time as read, or as edited

NoRequest ==
  [at |-> "none", kind |-> "start", force |-> FALSE, other |-> NoCampaign,
   status |-> "draft", sched |-> "keep", pauseAt |-> "none"]

ApiTypeOK ==
  /\ req \in [Campaigns -> Requests]
  /\ requests \in 0 .. MaxRequests

\* A new request on c, which has read what r holds.
Submit(c, r) ==
  /\ req[c] = NoRequest
  /\ requests < MaxRequests
  /\ req' = [req EXCEPT ![c] = r]
  /\ requests' = requests + 1
  /\ UNCHANGED <<storeVars, taskVars, pollVars>>

Goes(c, next) == req' = [req EXCEPT ![c].at = next] /\ UNCHANGED requests
Answer(c) == req' = [req EXCEPT ![c] = NoRequest] /\ UNCHANGED requests

\* A pause time written back as it was read: it may have passed since.
Restored(time) == IF time = "armed" THEN {"armed", "due"} ELSE {time}

-----------------------------------------------------------------------------
(* startCampaign and resumeCampaign *)

Ask(c, k, f) ==
  /\ IF k = "start" THEN cstatus[c] \in {"draft", "scheduled"} /\ HasPending(c)
                    ELSE cstatus[c] = "paused"
  /\ Submit(c, [NoRequest EXCEPT !.at = "other", !.kind = k, !.force = f, !.pauseAt = pauseAt[c]])

\* findOtherInProgressCampaign: none, a conflict (409), or one to pause.
FindOther(c) ==
  /\ req[c].at = "other"
  /\ LET others == Running \ {c} IN
       \/ others = {} /\ Goes(c, "check")
       \/ others # {} /\ ~req[c].force /\ Answer(c)
       \/ /\ req[c].force
          /\ \E d \in others : req' = [req EXCEPT ![c].other = d, ![c].at = "pauseOther"]
          /\ UNCHANGED requests
  /\ UNCHANGED <<storeVars, taskVars, pollVars>>

\* pauseCampaignInternal
PauseOther(c) ==
  /\ req[c].at = "pauseOther"
  /\ SetPaused(req[c].other, "none", "none")
  /\ userPaused' = [userPaused EXCEPT ![req[c].other] = Exists(req[c].other)]
  /\ Goes(c, "otherRows")
  /\ UNCHANGED <<rowVars, mailVars, clockVars, taskVars, pollVars>>

OtherRows(c) ==
  /\ req[c].at = "otherRows"
  /\ ReleaseRows({req[c].other})
  /\ Goes(c, "check")
  /\ UNCHANGED <<campaignVars, mailVars, clockVars, userPaused, taskVars, pollVars>>

\* assertSmtpDailyQuotaAllowsSend and isSmtpInUse; a reached cap does not stop a resume.
Allowed(c) ==
  /\ IF req[c].kind = "start" THEN HasQuota(Primary(c)) ELSE SmtpCap[Primary(c)] # 0
  /\ ~SmtpInUse(c)

Check(c) ==
  /\ req[c].at = "check"
  /\ IF Allowed(c) THEN Goes(c, IF req[c].kind = "resume" THEN "rows" ELSE "write") ELSE Answer(c)
  /\ UNCHANGED <<storeVars, taskVars, pollVars>>

\* Resume first recovers the rows left in 'sending'.
ResumeRows(c) ==
  /\ req[c].at = "rows"
  /\ ReleaseRows({c})
  /\ Goes(c, "write")
  /\ UNCHANGED <<campaignVars, mailVars, clockVars, userPaused, taskVars, pollVars>>

WriteRunning(c) ==
  /\ req[c].at = "write"
  /\ \E t \in Restored(PauseAtOnStart(c, req[c].pauseAt)) : SetRunning(c, t)
  /\ userPaused' = [userPaused EXCEPT ![c] = FALSE]
  /\ Answer(c)
  /\ UNCHANGED <<rowVars, mailVars, clockVars, taskVars, pollVars>>

-----------------------------------------------------------------------------
(* pauseCampaign *)

AskPause(c) ==
  /\ cstatus[c] = "in_progress"
  /\ Submit(c, [NoRequest EXCEPT !.at = "pauseWrite"])

PauseWrite(c) ==
  /\ req[c].at = "pauseWrite"
  /\ SetPaused(c, "none", "none")
  /\ userPaused' = [userPaused EXCEPT ![c] = Exists(c)]
  /\ Goes(c, "pauseRows")
  /\ UNCHANGED <<rowVars, mailVars, clockVars, taskVars, pollVars>>

PauseRows(c) ==
  /\ req[c].at = "pauseRows"
  /\ ReleaseRows({c})
  /\ Answer(c)
  /\ UNCHANGED <<campaignVars, mailVars, clockVars, userPaused, taskVars, pollVars>>

-----------------------------------------------------------------------------
(* updateCampaign, full edit.  The status written is derived from the row  *)
(* as it was read: paused stays paused, a schedule makes it scheduled.     *)

AskEdit(c, newSched, newPause) ==
  /\ cstatus[c] \in {"draft", "paused", "scheduled"}
  /\ LET hasSchedule == newSched = "future" \/ (newSched = "keep" /\ sched[c] # "none")
         status == IF cstatus[c] = "paused" THEN "paused"
                   ELSE IF hasSchedule THEN "scheduled" ELSE "draft"
         time == CASE newPause = "keep" -> pauseAt[c]
                   [] newPause = "none" -> "none"
                   [] newPause = "future" -> "armed"
     IN Submit(c, [NoRequest EXCEPT !.at = "editWrite", !.status = status,
                                    !.sched = newSched, !.pauseAt = time])

\* A body that names the send window is followed by the reconciliation.
AfterEdit(c) == Answer(c) \/ Goes(c, "reconcile")

\* pause_reason and paused_at are not part of this UPDATE.
EditWrite(c) ==
  /\ req[c].at = "editWrite"
  /\ IF Exists(c)
     THEN /\ cstatus' = [cstatus EXCEPT ![c] = req[c].status]
          /\ sched' = [sched EXCEPT ![c] = IF req[c].sched = "keep" THEN @ ELSE req[c].sched]
          /\ \E t \in Restored(req[c].pauseAt) : pauseAt' = [pauseAt EXCEPT ![c] = t]
     ELSE UNCHANGED <<cstatus, sched, pauseAt>>
  /\ AfterEdit(c)
  /\ UNCHANGED <<reason, pausedAt, rowVars, mailVars, clockVars, userPaused, taskVars, pollVars>>

\* updateCampaign of a running campaign: limits and window only.  A row read with
\* the daily cap as its pause reason is going to be written in_progress again.
AskSettings(c) ==
  /\ cstatus[c] = "in_progress"
  /\ Submit(c, [NoRequest EXCEPT !.at = "settingsWrite",
                  !.status = IF reason[c] = "daily_campaign_cap" THEN "in_progress" ELSE "draft"])

SettingsWrite(c) ==
  /\ req[c].at = "settingsWrite"
  /\ \/ /\ req[c].status = "in_progress"
        /\ SetRunning(c, pauseAt[c])
     \/ UNCHANGED campaignVars
  /\ AfterEdit(c)
  /\ UNCHANGED <<rowVars, mailVars, clockVars, userPaused, taskVars, pollVars>>

\* reconcileCampaignSendWindowAfterUpdate
Reconcile(c) ==
  /\ req[c].at = "reconcile"
  /\ LET concerned == Exists(c) /\ HasWindow[c] /\ HasPending(c)
         hold == concerned /\ cstatus[c] = "in_progress" /\ ~CanSendNow(c)
         resume == /\ concerned /\ CanSendNow(c) /\ Running = {}
                   /\ cstatus[c] = "paused" /\ reason[c] = "send_window_closed"
     IN IF hold THEN Goes(c, "reconcileHold")
        ELSE IF resume THEN Goes(c, "reconcileResume") ELSE Answer(c)
  /\ UNCHANGED <<storeVars, taskVars, pollVars>>

ReconcileHold(c) ==
  /\ req[c].at = "reconcileHold"
  /\ SetPaused(c, "send_window_closed", "today")
  /\ Goes(c, "reconcileRows")
  /\ UNCHANGED <<rowVars, mailVars, clockVars, userPaused, taskVars, pollVars>>

ReconcileRows(c) ==
  /\ req[c].at = "reconcileRows"
  /\ ReleaseRows({c})
  /\ Answer(c)
  /\ UNCHANGED <<campaignVars, mailVars, clockVars, userPaused, taskVars, pollVars>>

ReconcileResume(c) ==
  /\ req[c].at = "reconcileResume"
  /\ SetRunning(c, pauseAt[c])
  /\ Answer(c)
  /\ UNCHANGED <<rowVars, mailVars, clockVars, userPaused, taskVars, pollVars>>

-----------------------------------------------------------------------------
(* uploadRecipientsCSV takes any campaign; deleteCampaign any status.  An  *)
(* upload drops the addresses it has read in the campaign before, so two   *)
(* rows with one address come from two uploads at the same time.           *)

Upload(r) ==
  /\ rstatus[r] = "absent"
  /\ Exists(CampaignOf[r])
  /\ rstatus' = [rstatus EXCEPT ![r] = "pending"]
  /\ UNCHANGED <<campaignVars, stamped, mailVars, clockVars, userPaused, taskVars, pollVars, apiVars>>

AskDelete(c) == Exists(c) /\ Submit(c, [NoRequest EXCEPT !.at = "deleteLog"])

\* DELETE FROM email_send_log: the sends of today leave the account's count.
DeleteLog(c) ==
  /\ req[c].at = "deleteLog"
  /\ sendLog' = {m \in sendLog : CampaignOf[m.rcpt] # c}
  /\ Goes(c, "deleteRows")
  /\ UNCHANGED <<campaignVars, rowVars, accepted, orphans, clockVars, userPaused,
                 taskVars, pollVars>>

DeleteRows(c) ==
  /\ req[c].at = "deleteRows"
  /\ RemoveRows(Rows(c))
  /\ Goes(c, "deleteCampaign")
  /\ UNCHANGED <<campaignVars, mailVars, clockVars, userPaused, taskVars, pollVars>>

\* A row or a log row that came in between keeps the campaign (foreign key, 500).
DeleteCampaign(c) ==
  /\ req[c].at = "deleteCampaign"
  /\ IF \/ \E m \in sendLog : CampaignOf[m.rcpt] = c
        \/ \E r \in Rows(c) : rstatus[r] \notin {"absent", "gone"}
     THEN UNCHANGED <<cstatus, userPaused>>
     ELSE /\ cstatus' = [cstatus EXCEPT ![c] = "deleted"]
          /\ userPaused' = [userPaused EXCEPT ![c] = FALSE]
  /\ Answer(c)
  /\ UNCHANGED <<reason, pausedAt, pauseAt, sched, rowVars, mailVars, clockVars, taskVars, pollVars>>

\* deleteRecipient and deleteAllRecipients: only for a campaign read as a draft.
AskRemove(c) == cstatus[c] = "draft" /\ Submit(c, [NoRequest EXCEPT !.at = "removeRows"])

Remove(c) ==
  /\ req[c].at = "removeRows"
  /\ \E rs \in {Rows(c)} \union {{r} : r \in Rows(c)} : RemoveRows(rs)
  /\ Answer(c)
  /\ UNCHANGED <<campaignVars, mailVars, clockVars, userPaused, taskVars, pollVars>>

-----------------------------------------------------------------------------
(* The mail service reports on a message (emailWebhooks, the bounce scan   *)
(* of the inbox): the row is found by its message_id, whatever its status. *)

Report(r) ==
  /\ r \in Reportable /\ r \in stamped
  /\ rstatus[r] \notin {"gone", "reported"}
  /\ rstatus' = [rstatus EXCEPT ![r] = "reported"]
  /\ UNCHANGED <<campaignVars, stamped, mailVars, clockVars, userPaused, taskVars, pollVars, apiVars>>

-----------------------------------------------------------------------------

StartResume(c) ==
  \/ \E k \in {"start", "resume"}, f \in BOOLEAN : Ask(c, k, f)
  \/ FindOther(c) \/ PauseOther(c) \/ OtherRows(c) \/ Check(c) \/ ResumeRows(c) \/ WriteRunning(c)

Pause(c) == AskPause(c) \/ PauseWrite(c) \/ PauseRows(c)

Edit(c) ==
  \/ \E s, t \in EditChoices : AskEdit(c, s, t)
  \/ EditWrite(c) \/ AskSettings(c) \/ SettingsWrite(c)
  \/ Reconcile(c) \/ ReconcileHold(c) \/ ReconcileRows(c) \/ ReconcileResume(c)

Delete(c) ==
  AskDelete(c) \/ DeleteLog(c) \/ DeleteRows(c) \/ DeleteCampaign(c) \/ AskRemove(c) \/ Remove(c)

ApiStep ==
  \/ \E c \in Campaigns : StartResume(c) \/ Pause(c) \/ Edit(c) \/ Delete(c)
  \/ \E r \in Recipients : Upload(r) \/ Report(r)
=============================================================================
