-------------------------- MODULE CampaignLiveness --------------------------
(***************************************************************************)
(* What must eventually happen to a campaign, under the fairness of the    *)
(* running system: the event loop of the worker runs every ready task and  *)
(* comes back to the poll loop, a handler that has begun finishes, days    *)
(* pass.  Nothing is assumed of the user, of schedules or of windows.      *)
(***************************************************************************)
EXTENDS CampaignSystem

\* The steps of a handler that has begun.
Handler(c) ==
  /\ req[c] # NoRequest
  /\ StartResume(c) \/ Pause(c) \/ Edit(c) \/ Delete(c)
  /\ UNCHANGED crashes

NextDay == Midnight /\ UNCHANGED <<taskVars, pollVars, apiVars, crashes>>

Fairness ==
  /\ \A c \in Campaigns : WF_vars(Worker(c)) /\ WF_vars(Handler(c))
  /\ WF_vars(PollLoop)
  /\ WF_vars(NextDay)

FairSpec == Spec /\ Fairness

-----------------------------------------------------------------------------

\* The user has taken the campaign out of the worker's hands.
TakenOver(c) == userPaused[c] \/ cstatus[c] = "deleted"

\* A row claimed by a task does not stay 'sending': the message goes out, fails, or
\* the row is given back, whatever the user and the poll loop do in between.
ClaimedRowSettles ==
  \A r \in Recipients : rstatus[r] = "sending" ~> rstatus[r] # "sending"

\* Every pending row of a campaign that has been started is settled in the end,
\* over as many days as the daily cap takes: the pause at the cap, the resume on
\* the next day and the restart of the task work together.
EveryRowSettled ==
  \A r \in Recipients :
    LET c == CampaignOf[r] IN
    cstatus[c] = "in_progress" /\ rstatus[r] = "pending"
      ~> rstatus[r] \in {"sent", "failed", "gone"} \/ TakenOver(c)

\* Claimed or pending, no row of a started campaign is left behind.
RowsSettle == ClaimedRowSettles /\ EveryRowSettled
=============================================================================
