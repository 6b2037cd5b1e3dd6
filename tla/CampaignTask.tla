---------------------------- MODULE CampaignTask ----------------------------
(***************************************************************************)
(* processCampaign and sendRecipient of the email worker: one asynchronous *)
(* task per active campaign.  pc[c] is the statement the task of campaign  *)
(* c is about to run; every await of the code is a boundary between steps. *)
(* "off" means that c is not in activeCampaigns.                           *)
(***************************************************************************)
EXTENDS CampaignStore

CONSTANT DbFaults   \* the statements in the try block of sendRecipient may fail

ASSUME TaskAssumption == DbFaults \in BOOLEAN

VARIABLES
  pc,      \* where the task of a campaign is
  row,     \* the recipient it has claimed
  why,     \* the pause reason it has decided on
  first,   \* isFirstEmail
  acct     \* the account picked for the current send

taskVars == <<pc, row, why, first, acct>>

InHand == {"recheck", "wait", "presend", "guard", "smtp", "mark"}
PCs == InHand \union {"off", "begin", "loop", "claim", "log", "catch", "hold", "holdRows",
                       "full", "fullRows", "fullRow"}

TaskTypeOK ==
  /\ pc \in [Campaigns -> PCs]
  /\ row \in [Campaigns -> Recipients \union {NoRow}]
  /\ why \in [Campaigns -> Reasons]
  /\ first \in [Campaigns -> BOOLEAN]
  /\ acct \in [Campaigns -> Accounts]

\* The message the task of c has handed over and not yet logged.
CurrentMail(c) == [rcpt |-> row[c], n |-> accepted[row[c]], acct |-> acct[c]]

-----------------------------------------------------------------------------
(* Decisions *)

ScheduleVerdict(c) ==
  IF DayBlocked(c) THEN "weekday_filter"
  ELSE IF WindowBlocked(c) THEN "send_window_closed" ELSE "none"

\* Mutant of FullVerdict: the campaign's own daily cap is not looked at.
VerdictWithoutCap(c) == IF Usable(c) = {} THEN "smtp_daily_limit" ELSE ScheduleVerdict(c)

\* pauseIfQuotaExceeded, then the weekday and the window.
FullVerdict(c) ==
  IF Usable(c) = {} THEN "smtp_daily_limit"
  ELSE IF OverCampaignCap(c) THEN "daily_campaign_cap" ELSE ScheduleVerdict(c)

\* After the delay only the window is looked at again.
PreSendVerdict(c) == IF WindowBlocked(c) THEN "send_window_closed" ELSE "none"

\* Reads the campaign row at statement `from`; goes on to `next` or to the pause.
Decide(c, from, verdict, next) ==
  /\ pc[c] = from
  /\ cstatus[c] = "in_progress"
  /\ pc' = [pc EXCEPT ![c] = IF verdict = "none" THEN next ELSE "hold"]
  /\ why' = [why EXCEPT ![c] = verdict]
  /\ UNCHANGED <<storeVars, row, acct>>

GoTo(c, next) == pc' = [pc EXCEPT ![c] = next]
Drop(c, next) == GoTo(c, next) /\ row' = [row EXCEPT ![c] = NoRow]

-----------------------------------------------------------------------------
(* processCampaign *)

Begin(c) ==
  /\ ScheduleReached(c)
  /\ Decide(c, "begin", ScheduleVerdict(c), "loop")
  /\ first' = [first EXCEPT ![c] = TRUE]

Loop(c) == Decide(c, "loop", FullVerdict(c), "claim") /\ UNCHANGED first

\* The campaign is not in progress any more (or not due yet): the task ends.
Stop(c) ==
  /\ \/ pc[c] = "begin" /\ (cstatus[c] # "in_progress" \/ ~ScheduleReached(c))
     \/ pc[c] = "loop" /\ cstatus[c] # "in_progress"
  /\ GoTo(c, "off")
  /\ UNCHANGED <<storeVars, row, why, first, acct>>

\* claimBatch with BATCH_SIZE 1; SKIP LOCKED may pass over a lower id.
Claim(c) ==
  /\ pc[c] = "claim"
  /\ \E r \in RowsIn(c, "pending") :
       /\ rstatus' = [rstatus EXCEPT ![r] = "sending"]
       /\ row' = [row EXCEPT ![c] = r]
  /\ GoTo(c, "recheck")
  /\ UNCHANGED <<campaignVars, stamped, mailVars, clockVars, userPaused, why, first, acct>>

NothingToClaim(c) ==
  /\ pc[c] = "claim"
  /\ ~HasPending(c)
  /\ GoTo(c, "off")
  /\ UNCHANGED <<storeVars, row, why, first, acct>>

Recheck(c) ==
  Decide(c, "recheck", FullVerdict(c), IF first[c] THEN "presend" ELSE "wait") /\ UNCHANGED first

\* The random delay of one to two minutes between two messages of a campaign.
Delay(c) ==
  /\ pc[c] = "wait"
  /\ GoTo(c, "presend")
  /\ UNCHANGED <<storeVars, row, why, first, acct>>

PreSend(c) == Decide(c, "presend", PreSendVerdict(c), "guard") /\ UNCHANGED first

\* Mutant of GiveBack: the claimed row is dropped without its release.
GiveBackNothing(c) ==
  /\ pc[c] \in {"recheck", "presend"}
  /\ cstatus[c] # "in_progress"
  /\ Drop(c, "loop")
  /\ UNCHANGED <<storeVars, why, first, acct>>

\* Not in progress: the claimed rows go back and the loop decides again.
GiveBack(c) ==
  /\ pc[c] \in {"recheck", "presend"}
  /\ cstatus[c] # "in_progress"
  /\ ReleaseRows({c})
  /\ Drop(c, "loop")
  /\ UNCHANGED <<campaignVars, mailVars, clockVars, userPaused, why, first, acct>>

\* pauseCampaignFor...: the campaign first, whatever its status has become ...
Hold(c) ==
  /\ pc[c] \in {"hold", "full"}
  /\ SetPaused(c, why[c], "today")
  /\ GoTo(c, IF pc[c] = "hold" THEN "holdRows" ELSE "fullRows")
  /\ UNCHANGED <<rowVars, mailVars, clockVars, userPaused, row, why, first, acct>>

\* ... then its rows.  With a row in hand the loop is entered again.
HoldRows(c) ==
  /\ \/ pc[c] = "holdRows" /\ Drop(c, IF row[c] = NoRow THEN "off" ELSE "loop")
     \/ pc[c] = "fullRows" /\ GoTo(c, "fullRow") /\ UNCHANGED row
  /\ ReleaseRows({c})
  /\ why' = [why EXCEPT ![c] = "none"]
  /\ UNCHANGED <<campaignVars, mailVars, clockVars, userPaused, first, acct>>

-----------------------------------------------------------------------------
(* sendRecipient *)

\* Paused since preSend: the row and its twins go back.
GuardStopped(c) ==
  /\ pc[c] = "guard"
  /\ cstatus[c] # "in_progress"
  /\ SettleRow(row[c], IF rstatus[row[c]] = "sending" THEN "pending" ELSE rstatus[row[c]], "pending")
  /\ Drop(c, "loop")
  /\ UNCHANGED <<campaignVars, stamped, mailVars, clockVars, userPaused, why, first, acct>>

\* Mutant of AlreadySent: no look at the other rows of the address.
NeverSent(r) == FALSE

AlreadySent(r) == \E q \in Twins(r) : q \in stamped /\ rstatus[q] # "gone"

\* Another row with this address was sent: this one is marked sent without a message.
GuardDuplicate(c) ==
  /\ pc[c] = "guard"
  /\ cstatus[c] = "in_progress"
  /\ AlreadySent(row[c])
  /\ SettleRow(row[c], "sent", "sent")
  /\ stamped' = stamped \union {q \in Recipients : rstatus'[q] = "sent"}
  /\ Drop(c, "loop")
  /\ UNCHANGED <<campaignVars, mailVars, clockVars, userPaused, why, first, acct>>

\* Every account is exhausted: pause for the SMTP limit.
GuardExhausted(c) ==
  /\ pc[c] = "guard"
  /\ cstatus[c] = "in_progress"
  /\ ~AlreadySent(row[c])
  /\ Usable(c) = {}
  /\ GoTo(c, "full")
  /\ why' = [why EXCEPT ![c] = "smtp_daily_limit"]
  /\ UNCHANGED <<storeVars, row, first, acct>>

\* After that pause the row is set to pending once more, whatever it is.
FullRow(c) ==
  /\ pc[c] = "fullRow"
  /\ rstatus' = [rstatus EXCEPT ![row[c]] = IF @ = "gone" THEN @ ELSE "pending"]
  /\ Drop(c, "loop")
  /\ UNCHANGED <<campaignVars, stamped, mailVars, clockVars, userPaused, why, first, acct>>

GuardPick(c) ==
  /\ pc[c] = "guard"
  /\ cstatus[c] = "in_progress"
  /\ ~AlreadySent(row[c])
  /\ \E i \in DOMAIN SmtpList[c] :
       FirstUsable(c, i) /\ acct' = [acct EXCEPT ![c] = SmtpList[c][i]]
  /\ GoTo(c, "smtp")
  /\ UNCHANGED <<storeVars, row, why, first>>

\* The SMTP server accepts the message.
Accept(c) ==
  /\ pc[c] = "smtp"
  /\ accepted' = [accepted EXCEPT ![row[c]] = @ + 1]
  /\ GoTo(c, "mark")
  /\ UNCHANGED <<campaignVars, rowVars, sendLog, orphans, clockVars, userPaused, row, why, first, acct>>

Mark(c) ==
  /\ pc[c] = "mark"
  /\ SettleRow(row[c], "sent", "sent")
  /\ stamped' = stamped \union {q \in Recipients : rstatus'[q] = "sent"}
  /\ GoTo(c, "log")
  /\ UNCHANGED <<campaignVars, mailVars, clockVars, userPaused, row, why, first, acct>>

\* recordSuccessfulSend, the last statement of a successful send.
Log(c) ==
  /\ pc[c] = "log"
  /\ Exists(c)
  /\ sendLog' = sendLog \union {CurrentMail(c)}
  /\ first' = [first EXCEPT ![c] = FALSE]
  /\ Drop(c, "loop")
  /\ UNCHANGED <<campaignVars, rowVars, accepted, orphans, clockVars, userPaused, why, acct>>

\* The try block throws: the server refuses, a statement fails, or the send of a
\* deleted campaign cannot be logged.
Throw(c) ==
  /\ \/ pc[c] = "smtp"
     \/ pc[c] = "log" /\ ~Exists(c)
     \/ DbFaults /\ pc[c] \in {"full", "fullRows", "fullRow", "mark", "log"}
  /\ GoTo(c, "catch")
  /\ why' = [why EXCEPT ![c] = "none"]
  /\ UNCHANGED <<storeVars, row, first, acct>>

Catch(c) ==
  /\ pc[c] = "catch"
  /\ SettleRow(row[c], "failed", "pending")
  /\ Drop(c, "loop")
  /\ UNCHANGED <<campaignVars, stamped, mailVars, clockVars, userPaused, why, first, acct>>

TaskStep(c) ==
  \/ Begin(c) \/ Loop(c) \/ Stop(c) \/ Claim(c) \/ NothingToClaim(c) \/ Recheck(c)
  \/ Delay(c) \/ PreSend(c) \/ GiveBack(c) \/ Hold(c) \/ HoldRows(c)
  \/ GuardStopped(c) \/ GuardDuplicate(c) \/ GuardExhausted(c) \/ FullRow(c) \/ GuardPick(c)
  \/ Accept(c) \/ Mark(c) \/ Log(c) \/ Throw(c) \/ Catch(c)
=============================================================================
