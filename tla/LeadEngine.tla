---------------------------- MODULE LeadEngine ----------------------------
(***************************************************************************)
(* The lead engine as a whole: what it guarantees, the task ledger it      *)
(* implements, and the fairness under which its runs end.                  *)
(***************************************************************************)
EXTENDS LeadRuns

\* Two calls of processTask hold the same token of the same task only while a worker
\* that shuts down has put the task back and not exited yet (releaseTasks takes the
\* attempt back, so the next claim gives the token out again).
LeaseUnique ==
  \A j, k \in jobs :
    j # k /\ j.t = k.t /\ j.tok = k.tok => "releasing" \in {life[j.w], life[k.w]}

\* A run that finalizeRuns has closed has no task left that a worker could take or be
\* working on, whatever completions, retries and recoveries run beside it.
ClosedRunIsSettled ==
  \A r \in Runs : rstatus[r] \in {"done", "failed"} => OpenTasks(r) = {}

\* The number of leads stays within the target of each run and the limit of the day,
\* also when several runs, retries and jobs with a lost lease add leads at a time.
LeadsWithinLimits ==
  /\ Cardinality(today) <= DailyLimit
  /\ \A r \in Runs : Cardinality(LeadsOf(r)) <= TargetPerRun

\* A user never has more than MAX_CONCURRENT_RUNS running, though requests check before
\* they insert and several processes start queued runs.
RunsWithinLimit == Cardinality(UserRunsIn({"running"})) <= MaxRunning

\* After MAX_CONSECUTIVE_FAILURES failed runs the schedule is paused; only an edit that
\* read the schedule before the pause, and writes it back, undoes it.
FailuresPause ==
  \A s \in Schedules : fails[s] >= MaxFailures => s \in paused \union overtaken

\* Follow-up tasks of completions that read the run as running before it was cancelled.
AddedLate(r) ==
  UNION {FollowUps(j) : j \in {k \in jobs : k.at = "closing" /\ RunOf(k.t) = r}}

\* A closed run stays as it was closed: a start, a closing or a cancellation that began
\* while the run was open does not reopen it or give it another result, and no task is
\* added to it, except by a completion that a cancellation has overtaken.
ClosedRunsStay ==
  [][\A r \in Runs : rstatus[r] \in Closed =>
       /\ rstatus'[r] = rstatus[r]
       /\ OpenTasks(r)' \subseteq
            OpenTasks(r) \union (IF rstatus[r] = "cancelled" THEN AddedLate(r) ELSE {})]_vars

-----------------------------------------------------------------------------
(* The ledger *)

Ledger == INSTANCE TaskLedger WITH
  todo <- {t \in Tasks : tstatus[t] \in Open},
  done <- {t \in Tasks : tstatus[t] = "done"},
  dropped <- {t \in Tasks : tstatus[t] \in Final \ {"done"}},
  booked <- tally

\* The queue implements the ledger: whoever loses a lease, retries, releases or cancels,
\* a task is settled once and its stats are added to the run exactly once.
ImplementsLedger == Ledger!LedgerSpec

-----------------------------------------------------------------------------
(* Liveness *)

Unheld(t) == \A w \in Workers : inFlight[w][t] = 0

\* Timers fire, every statement and every handler returns or throws, a worker that is
\* down is started again, some worker that is up goes on with its loop; a row nobody
\* heartbeats becomes stale in the end.
Fairness ==
  /\ WF_vars(Queue /\ \E w \in Workers, S \in SUBSET Claimable : Claim(w, S))
  /\ WF_vars(Queue /\ \E w \in Workers : RecoverStale(w))
  /\ WF_vars(Queue /\ \E w \in Workers : ShutdownStep(w))
  /\ WF_vars(Queue /\ \E j \in jobs : JobStep(j))
  /\ WF_vars(Queue /\ \E t \in Tasks : Unheld(t) /\ HeartbeatExpires(t))
  /\ WF_vars(Queue /\ \E t \in Tasks : BackoffEnds(t))
  /\ WF_vars(\E w \in Workers : SkipOff(w))
  /\ WF_vars(\E w \in Workers, r \in Runs : FinalizeRun(w, r))

FairSpec == Spec /\ Fairness

\* Every started run ends: no crash, lost heartbeat, blocked source, lost lease or failed
\* statement leaves one of its tasks open for ever and the user's run slot taken.
RunEnds == \A r \in Runs : rstatus[r] = "running" ~> rstatus[r] \in Closed
=============================================================================
