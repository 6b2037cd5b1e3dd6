--------------------------- MODULE CampaignSystem ---------------------------
(***************************************************************************)
(* The campaign sender as a whole: the API process, the poll loop and the  *)
(* campaign tasks of the one email worker, the clock, and crashes of the   *)
(* worker.                                                                 *)
(***************************************************************************)
EXTENDS CampaignApi

CONSTANTS
  Scheduled,     \* the campaigns created with a schedule
  MaxCrashes     \* bound on the number of worker crashes

ASSUME SystemAssumption == Scheduled \subseteq Campaigns /\ MaxCrashes \in Nat

VARIABLE crashes

vars == <<storeVars, taskVars, pollVars, apiVars, crashes>>

Init ==
  /\ sched = [c \in Campaigns |-> IF c \in Scheduled THEN "future" ELSE "none"]
  /\ cstatus = [c \in Campaigns |-> IF c \in Scheduled THEN "scheduled" ELSE "draft"]
  /\ reason = [c \in Campaigns |-> "none"]
  /\ pausedAt = [c \in Campaigns |-> "none"]
  /\ pauseAt = [c \in Campaigns |-> IF AutoPause[c] = "fixed" THEN "armed" ELSE "none"]
  /\ rstatus = [r \in Recipients |-> "absent"]
  /\ stamped = {}
  /\ sendLog = {}
  /\ accepted = [r \in Recipients |-> 0]
  /\ orphans = [r \in Recipients |-> 0]
  /\ dow = 0 /\ open = TRUE
  /\ userPaused = [c \in Campaigns |-> FALSE]
  /\ pc = [c \in Campaigns |-> "off"]
  /\ row = [c \in Campaigns |-> NoRow]
  /\ why = [c \in Campaigns |-> "none"]
  /\ first = [c \in Campaigns |-> TRUE]
  /\ acct = [c \in Campaigns |-> Primary(c)]
  /\ at = "activate" /\ todo = {} /\ cur = NoCampaign /\ verdict = "none"
  /\ req = [c \in Campaigns |-> NoRequest]
  /\ requests = 0
  /\ crashes = 0

\* The rows whose message has been accepted while no UPDATE has settled them yet.
Unmarked ==
  {r \in Recipients : /\ \E c \in Campaigns : row[c] = r /\ pc[c] \in {"mark", "catch"}
                      /\ rstatus[r] \in {"pending", "sending"}
                      /\ accepted[r] > orphans[r]}

\* The worker process dies and is started again: tasks and poll loop begin anew,
\* the database is as it was, and nothing looks after the rows in 'sending'.
Crash ==
  /\ crashes < MaxCrashes
  /\ crashes' = crashes + 1
  /\ orphans' = [r \in Recipients |-> IF r \in Unmarked THEN orphans[r] + 1 ELSE orphans[r]]
  /\ pc' = [c \in Campaigns |-> "off"]
  /\ row' = [c \in Campaigns |-> NoRow]
  /\ why' = [c \in Campaigns |-> "none"]
  /\ at' = "activate" /\ todo' = {} /\ cur' = NoCampaign /\ verdict' = "none"
  /\ UNCHANGED <<campaignVars, rowVars, sendLog, accepted, clockVars, userPaused,
                 first, acct, apiVars>>

Worker(c) == TaskStep(c) /\ UNCHANGED <<pollVars, apiVars, crashes>>
PollLoop == PollStep /\ UNCHANGED <<apiVars, crashes>>
Api == ApiStep /\ UNCHANGED crashes
Time == Clock /\ UNCHANGED <<taskVars, pollVars, apiVars, crashes>>

Next == (\E c \in Campaigns : Worker(c)) \/ PollLoop \/ Api \/ Time \/ Crash

Spec == Init /\ [][Next]_vars

TypeOK == StoreTypeOK /\ TaskTypeOK /\ PollTypeOK /\ ApiTypeOK /\ crashes \in 0 .. MaxCrashes

-----------------------------------------------------------------------------
(* Safety *)

\* A row is mailed a second time only if the worker died between the server's
\* acceptance and the UPDATE that marks the row (emailWorker.ts, sendRecipient),
\* however pauses, resumes, edits and uploads fall into the send.
AtMostOneMail == \A r \in Recipients : accepted[r] <= 1 + orphans[r]

\* Two rows with one address: the second is mailed too only if the first send left
\* no message_id behind: a crash, a failing UPDATE, or a row that was deleted (the
\* sameEmailSent check), even when the first one has bounced since.
AtMostOneMailPerAddress ==
  \A r \in Recipients : \A q \in Twins(r) :
    accepted[r] > 0 /\ accepted[q] > 0 =>
      \E x \in {r, q} : \/ orphans[x] > 0
                       \/ (rstatus[x] = "failed" /\ x \notin stamped)
                       \/ rstatus[x] = "gone"

\* A row shows 'sending' only while the task of its campaign holds it, or after
\* a crash left it behind: pause, resume and give-back never strand one.
SendingHasOwner ==
  crashes = 0 =>
    \A r \in Recipients :
      rstatus[r] = "sending" =>
        LET c == CampaignOf[r] IN
        row[c] = r /\ pc[c] \in InHand \union {"hold", "holdRows", "full", "fullRows", "catch"}

\* The sends of a campaign that are logged today, and the one its task is about
\* to log, stay within its daily cap: the checks around the claim are early, but
\* nobody else adds to this campaign's log while the task waits.
DailyCapKept ==
  \A c \in Campaigns :
    LET inFlight == IF pc[c] = "log" THEN {CurrentMail(c)} ELSE {}
    IN Cardinality({m \in sendLog \union inFlight : CampaignOf[m.rcpt] = c}) <= CampaignCap[c]

\* Nothing reserves an account between pickAvailableSmtp and recordSuccessfulSend, so
\* the campaigns that share it can exceed its daily limit, but by no more than one
\* message for every further campaign.
Sharing(a) == {c \in Campaigns : \E i \in DOMAIN SmtpList[c] : SmtpList[c][i] = a}
Unlogged(a) == {c \in Campaigns : pc[c] \in {"smtp", "mark", "log"} /\ acct[c] = a}
AccountOvershootBounded ==
  \A a \in Accounts :
    Sharing(a) # {} =>
      SentByAccount(a) + Cardinality(Unlogged(a)) < SmtpCap[a] + Cardinality(Sharing(a))

\* markCompletedCampaigns never completes a campaign over a row that is on its way
\* out, unless a delete took the row away.  (A row uploaded after the completion may
\* still be claimed: the task gives it back at its next look at the status.)
CompletedLeavesNothingInHand ==
  \A c \in Campaigns :
    cstatus[c] = "completed" /\ pc[c] \in InHand \ {"recheck"} => rstatus[row[c]] = "gone"

\* A settled row never becomes claimable again; 'sent' or a report turns 'failed'
\* only where a statement after the hand-over throws.
Settled == {"sent", "failed", "reported"}
SettledRowsStay ==
  [][\A r \in Recipients :
       rstatus[r] \in Settled =>
         /\ rstatus'[r] \in Settled \union {"gone"}
         /\ rstatus'[r] = "sent" => rstatus[r] = "sent"
         /\ rstatus'[r] = "failed" => rstatus[r] = "failed" \/ DbFaults]_vars

\* Where a row is: in a task's hand, handed over but not settled, or as its status says.
Stage(r) ==
  LET c == CampaignOf[r] IN
  IF row[c] = r /\ pc[c] \notin {"mark", "log", "catch"} THEN "taken"
  ELSE IF rstatus[r] = "absent" THEN "none"
  ELSE IF rstatus[r] \notin {"pending", "sending"} THEN "closed"
  ELSE IF row[c] = r /\ pc[c] \in {"mark", "catch"} /\ accepted[r] > orphans[r] THEN "mailed"
  ELSE "waiting"

RowsDelivered == INSTANCE Delivery WITH
  Letters <- Recipients, stage <- [r \in Recipients |-> Stage(r)], copies <- accepted, lost <- orphans

\* However pauses, resumes, edits, uploads, deletions, reports, failing statements and crashes fall
\* into a send, a row is mailed only in hand, leaves the hand with its message, and comes to a task
\* again only if it has no message the worker knows of (sendRecipient and claimBatch).
ImplementsDelivery == RowsDelivered!DeliverySpec

\* The life of a row: the sender implements the delivery, and settled rows stay settled.
DeliveryHolds == ImplementsDelivery /\ SettledRowsStay

\* Neither a task nor the poll loop has a write on campaign c in preparation.
WorkerQuiet(c) == pc[c] \notin {"hold", "full"} /\ cur # c /\ c \notin todo

\* A pause by the user ends only by the user: once the decisions taken before the
\* pause have drained, neither the poll loop nor a task prepares or makes a write that
\* resumes the campaign, or that gives the pause a reason that resumes later.
PauseHolds ==
  [][\A c \in Campaigns :
       /\ userPaused[c] /\ cstatus[c] = "paused" /\ reason[c] = "none"
       /\ WorkerQuiet(c) /\ req[c] = NoRequest
       => cstatus'[c] = "paused" /\ reason'[c] = "none" /\ WorkerQuiet(c)']_vars
=============================================================================
