------------------------------ MODULE LeadRuns ------------------------------
(***************************************************************************)
(* The life of a lead run over the queue: schedules that come due, runs on *)
(* demand, the start under the limits of the user, the nightly refresh,    *)
(* the closing of runs without open tasks with the failure count of their  *)
(* schedule, and edits of a schedule that read and write in two            *)
(* statements.                                                             *)
(***************************************************************************)
EXTENDS LeadQueue

CONSTANTS
  Schedules, NoSchedule,
  Nightly,       \* the refresh run of the night, a run without user
  MaxRunning,    \* MAX_CONCURRENT_RUNS
  MaxFailures,   \* MAX_CONSECUTIVE_FAILURES
  MaxTicks,      \* bound on the clock
  MaxAsks        \* bound on the requests of the user

ASSUME RunsAssumption ==
  /\ {MaxRunning, MaxTicks, MaxAsks} \subseteq Nat
  /\ MaxFailures \in Nat \ {0}
  /\ NoSchedule \notin Schedules

VARIABLES
  now,        \* the clock; two ticks are a day
  rsched,     \* scrape_runs.schedule_id
  rdate,      \* scrape_runs.run_date
  nextRun,    \* search_schedules.next_run_at
  paused,     \* schedules with is_paused
  fails,      \* search_schedules.consecutive_failures
  edit,       \* updateSchedule between its SELECT and its UPDATE
  asked,      \* runSearchNow calls between the check and the INSERT
  asks,
  overtaken   \* history: schedules whose pause was undone by an edit that had not read it

planVars == <<rsched, rdate, nextRun, paused, fails, edit, asked, asks, overtaken>>
vars == <<queueVars, planVars, now>>

Date(n) == n \div 2
UserRuns == Runs \ {Nightly}
UserRunsIn(S) == {r \in UserRuns : rstatus[r] \in S}
NoEdit == [wants |-> "none", paused |-> FALSE, next |-> 0, timing |-> FALSE]
Edits == [wants : {"none", "keep", "pause", "resume"}, paused : BOOLEAN, next : Nat, timing : BOOLEAN]

TypeOK ==
  /\ QueueTypeOK
  /\ now \in Nat
  /\ rsched \in [Runs -> Schedules \union {NoSchedule}]
  /\ rdate \in [Runs -> Nat]
  /\ nextRun \in [Schedules -> Nat]
  /\ paused \in SUBSET Schedules
  /\ fails \in [Schedules -> Nat]
  /\ edit \in [Schedules -> Edits]
  /\ asked \in Nat /\ asks \in Nat
  /\ overtaken \in SUBSET Schedules

Init ==
  /\ QueueInit
  /\ now = 0
  /\ rsched = [r \in Runs |-> NoSchedule] /\ rdate = [r \in Runs |-> 0]
  /\ nextRun = [s \in Schedules |-> 1]
  /\ paused = {} /\ fails = [s \in Schedules |-> 0]
  /\ edit = [s \in Schedules |-> NoEdit]
  /\ asked = 0 /\ asks = 0 /\ overtaken = {}

Tick ==
  /\ now < MaxTicks
  /\ now' = now + 1
  /\ today' = IF Date(now + 1) = Date(now) THEN today ELSE {}
  /\ UNCHANGED <<taskVars, runVars, lead, sourceVars, workerVars, planVars>>

-----------------------------------------------------------------------------
(* New runs *)

\* computeNextRunAt: the next slot after now.
NextSlots == {now + 1, now + 2}

DateTaken(s, d) == \E r \in Runs : rstatus[r] # "absent" /\ rsched[r] = s /\ rdate[r] = d

\* tickScheduler: a due schedule gets one run for the date of its slot, if the plan
\* of the user has lead search, and moves to its next slot in any case.
TickSchedule(w, s, may) ==
  /\ life[w] = "up"
  /\ s \notin paused /\ nextRun[s] <= now
  /\ \E n \in NextSlots : nextRun' = [nextRun EXCEPT ![s] = n]
  /\ IF may /\ ~DateTaken(s, Date(nextRun[s]))
     THEN \E r \in UserRuns :
            /\ rstatus[r] = "absent"
            /\ rstatus' = [rstatus EXCEPT ![r] = "queued"]
            /\ rsched' = [rsched EXCEPT ![r] = s]
            /\ rdate' = [rdate EXCEPT ![r] = Date(nextRun[s])]
     ELSE UNCHANGED <<rstatus, rsched, rdate>>
  /\ UNCHANGED <<taskVars, cancelling, leadVars, sourceVars, workerVars,
                 now, paused, fails, edit, asked, asks, overtaken>>

\* runSearchNow checks, and inserts the run a statement later.
AskForRun ==
  /\ asks < MaxAsks /\ asks' = asks + 1
  /\ Cardinality(UserRunsIn({"queued", "running"})) < MaxRunning
  /\ Cardinality(today) < DailyLimit
  /\ asked' = asked + 1
  /\ UNCHANGED <<queueVars, now, rsched, rdate, nextRun, paused, fails, edit, overtaken>>

InsertRun(r) ==
  /\ asked > 0 /\ r \in UserRuns /\ rstatus[r] = "absent"
  /\ asked' = asked - 1
  /\ rstatus' = [rstatus EXCEPT ![r] = "queued"]
  /\ rdate' = [rdate EXCEPT ![r] = Date(now)]
  /\ UNCHANGED <<taskVars, cancelling, leadVars, sourceVars, workerVars,
                 now, rsched, nextRun, paused, fails, edit, asks, overtaken>>

\* Mutant of StartRun: the limit counts the running runs without the new one.
StartBeyondLimit(r, may) ==
  LET usable == Discovery \ off IN
  /\ r \in UserRuns /\ rstatus[r] = "queued"
  /\ Cardinality(UserRunsIn({"running"})) <= MaxRunning
  /\ rstatus' = [rstatus EXCEPT ![r] = IF may /\ usable # {} THEN "running" ELSE "failed"]
  /\ tstatus' = IF rstatus'[r] = "running" THEN AfterEnqueue(tstatus, {r} \X usable) ELSE tstatus
  /\ UNCHANGED <<attempts, waiting, stale, tally, cancelling, leadVars, sourceVars, workerVars,
                 now, planVars>>

\* Mutant of StartRun: the status is not tested again under the lock.
StartCancelled(r, may) ==
  LET usable == Discovery \ off IN
  /\ r \in UserRuns /\ rstatus[r] \in {"queued", "cancelled"}
  /\ Cardinality(UserRunsIn({"running"})) < MaxRunning
  /\ rstatus' = [rstatus EXCEPT ![r] = IF may /\ usable # {} THEN "running" ELSE "failed"]
  /\ tstatus' = IF rstatus'[r] = "running" THEN AfterEnqueue(tstatus, {r} \X usable) ELSE tstatus
  /\ UNCHANGED <<attempts, waiting, stale, tally, cancelling, leadVars, sourceVars, workerVars,
                 now, planVars>>

\* startRun: one transaction; the status is tested again under the lock of the row,
\* the running runs are counted under the lock of the user.
StartRun(r, may) ==
  LET usable == Discovery \ off IN
  /\ r \in UserRuns /\ rstatus[r] = "queued"
  /\ Cardinality(UserRunsIn({"running"})) < MaxRunning
  /\ rstatus' = [rstatus EXCEPT ![r] =
                   IF ~may THEN "failed"
                   ELSE IF Cardinality(today) >= DailyLimit THEN "done"
                   ELSE IF usable = {} THEN "failed" ELSE "running"]
  /\ tstatus' = IF rstatus'[r] = "running" THEN AfterEnqueue(tstatus, {r} \X usable) ELSE tstatus
  /\ UNCHANGED <<attempts, waiting, stale, tally, cancelling, leadVars, sourceVars, workerVars,
                 now, planVars>>

\* startNightlyRefresh: the run and its tasks in one transaction.
NightlyRefresh(w, due) ==
  /\ life[w] = "up"
  /\ Nightly \in Runs /\ rstatus[Nightly] = "absent"
  /\ Website \in off => due = {}
  /\ rstatus' = [rstatus EXCEPT ![Nightly] = IF due = {} THEN "done" ELSE "running"]
  /\ tstatus' = AfterEnqueue(tstatus, {Nightly} \X due)
  /\ UNCHANGED <<attempts, waiting, stale, tally, cancelling, leadVars, sourceVars, workerVars,
                 now, planVars>>

-----------------------------------------------------------------------------
(* finalizeRuns *)

\* skipTasksOfSourcesOffForToday, the statement before the transaction.
SkipOff(w) ==
  LET idle == {t \in Tasks : tstatus[t] = "pending" /\ SourceOf(t) \in cooling \union off} IN
  /\ life[w] = "up" /\ idle # {}
  /\ tstatus' = [t \in Tasks |-> IF t \in idle THEN "skipped" ELSE tstatus[t]]
  /\ UNCHANGED <<attempts, waiting, stale, tally, runVars, leadVars, sourceVars, workerVars,
                 now, planVars>>

\* Mutant of Finished: a task that is being worked on does not count.
NothingPending(r) ==
  rstatus[r] = "running" /\ \A t \in Tasks : RunOf(t) = r => tstatus[t] # "pending"

Finished(r) == rstatus[r] = "running" /\ OpenTasks(r) = {}

\* Mutant of FinalizeRun: the schedule is paused one failure too late.
FinalizeLate(w, r) ==
  LET failed == \A t \in Tasks : RunOf(t) = r => tstatus[t] # "done"
      s == rsched[r]
  IN
  /\ life[w] = "up" /\ Finished(r)
  /\ rstatus' = [rstatus EXCEPT ![r] = IF failed THEN "failed" ELSE "done"]
  /\ IF s \in Schedules
     THEN /\ fails' = [fails EXCEPT ![s] = IF failed THEN @ + 1 ELSE 0]
          /\ paused' = IF failed /\ fails[s] >= MaxFailures THEN paused \union {s} ELSE paused
     ELSE UNCHANGED <<fails, paused>>
  /\ UNCHANGED <<taskVars, cancelling, leadVars, sourceVars, workerVars,
                 now, rsched, rdate, nextRun, edit, asked, asks, overtaken>>

FinalizeRun(w, r) ==
  LET failed == \A t \in Tasks : RunOf(t) = r => tstatus[t] # "done"
      s == rsched[r]
  IN
  /\ life[w] = "up" /\ Finished(r)
  /\ rstatus' = [rstatus EXCEPT ![r] = IF failed THEN "failed" ELSE "done"]
  /\ IF s \in Schedules
     THEN /\ fails' = [fails EXCEPT ![s] = IF failed THEN @ + 1 ELSE 0]
          /\ paused' = IF failed /\ fails[s] + 1 >= MaxFailures THEN paused \union {s} ELSE paused
     ELSE UNCHANGED <<fails, paused>>
  /\ UNCHANGED <<taskVars, cancelling, leadVars, sourceVars, workerVars,
                 now, rsched, rdate, nextRun, edit, asked, asks, overtaken>>

-----------------------------------------------------------------------------
(* updateSchedule: what the request leaves out is written back as it was read *)

ReadSchedule(s, wants, timing) ==
  /\ edit[s] = NoEdit /\ asks < MaxAsks
  /\ asks' = asks + 1
  /\ edit' = [edit EXCEPT ![s] = [wants |-> wants, paused |-> s \in paused,
                                  next |-> nextRun[s], timing |-> timing]]
  /\ UNCHANGED <<queueVars, now, rsched, rdate, nextRun, paused, fails, asked, overtaken>>

WriteSchedule(s) ==
  LET e == edit[s]
      pause == IF e.wants = "keep" THEN e.paused ELSE e.wants = "pause"
      resumed == e.paused /\ ~pause
  IN
  /\ e # NoEdit
  /\ paused' = IF pause THEN paused \union {s} ELSE paused \ {s}
  /\ fails' = IF resumed THEN [fails EXCEPT ![s] = 0] ELSE fails
  /\ \E n \in IF e.timing \/ resumed THEN NextSlots ELSE {e.next} :
       nextRun' = [nextRun EXCEPT ![s] = n]
  /\ overtaken' = IF s \in paused /\ ~e.paused /\ ~pause THEN overtaken \union {s}
                  ELSE IF resumed THEN overtaken \ {s} ELSE overtaken
  /\ edit' = [edit EXCEPT ![s] = NoEdit]
  /\ UNCHANGED <<queueVars, now, rsched, rdate, asked, asks>>

-----------------------------------------------------------------------------

Queue == QueueNext /\ UNCHANGED <<planVars, now>>

Next ==
  \/ Queue
  \/ Tick \/ AskForRun
  \/ \E w \in Workers :
       \/ \E s \in Schedules, may \in BOOLEAN : TickSchedule(w, s, may)
       \/ \E due \in SUBSET Companies : NightlyRefresh(w, due)
       \/ SkipOff(w)
       \/ \E r \in Runs : FinalizeRun(w, r)
  \/ \E r \in Runs : InsertRun(r) \/ (\E may \in BOOLEAN : StartRun(r, may))
  \/ \E s \in Schedules :
       \/ \E wants \in {"keep", "pause", "resume"}, timing \in BOOLEAN : ReadSchedule(s, wants, timing)
       \/ WriteSchedule(s)

Spec == Init /\ [][Next]_vars
=============================================================================
