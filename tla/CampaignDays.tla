---------------------------- MODULE CampaignDays ----------------------------
(***************************************************************************)
(* The same system with a clock that is slow against the poll loop: a day  *)
(* and a send window last minutes or hours, a pass of the loop about two   *)
(* seconds.  passes counts the ends of passes since the last change of the *)
(* day or the window; the clock waits for two, so for one whole pass.      *)
(***************************************************************************)
EXTENDS CampaignLiveness

VARIABLE passes

daysVars == <<vars, passes>>

ClockMoves == clockVars' # clockVars

SlowNext ==
  /\ Next
  /\ ClockMoves => passes = 2
  /\ passes' = IF ClockMoves THEN 0
               ELSE IF Complete /\ passes < 2 THEN passes + 1 ELSE passes

Moves(A) == A /\ SlowNext

SlowSpec ==
  /\ Init /\ passes = 2
  /\ [][SlowNext]_daysVars
  /\ \A c \in Campaigns : WF_daysVars(Moves(Worker(c))) /\ WF_daysVars(Moves(Handler(c)))
  /\ WF_daysVars(Moves(PollLoop))
  /\ WF_daysVars(Moves(Time /\ ClockMoves))

\* A campaign paused for a closed window or a wrong weekday, with rows to send,
\* leaves that pause in the end: the poll loop finds the window or the day open
\* again (autoResumeDailyPausedCampaigns), unless the user has stepped in.
SchedulePauseEnds ==
  \A c \in Campaigns :
    cstatus[c] = "paused" /\ reason[c] \in {"weekday_filter", "send_window_closed"} /\ HasPending(c)
      ~> cstatus[c] # "paused" \/ reason[c] = "none" \/ ~HasPending(c)
=============================================================================
