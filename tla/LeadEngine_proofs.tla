------------------------ MODULE LeadEngine_proofs ------------------------
(***************************************************************************)
(* Proofs about LeadEngine, for every number of runs, companies, workers   *)
(* and schedules.                                                          *)
(***************************************************************************)
EXTENDS LeadEngine, TLAPS, FiniteSetTheorems

-----------------------------------------------------------------------------
(* Type correctness *)

\* A task that can still be claimed has an attempt left.
AttemptsLeft ==
  \A t \in Tasks : tstatus[t] \in {"absent", "pending"} => attempts[t] < MaxAttempts

\* Every step keeps the types: a claim never takes a task that is out of attempts.
LEMMA NextType ==
  ASSUME TypeOK, AttemptsLeft, [Next]_vars
  PROVE  TypeOK' /\ AttemptsLeft'
<1> USE QueueAssumption, RunsAssumption
      DEF TypeOK, QueueTypeOK, AttemptsLeft, vars, queueVars, planVars, taskVars, runVars,
         leadVars,
          sourceVars, workerVars, Open, Final, Closed, Tokens, Jobs, Empty
<1>1. ASSUME NEW w \in Workers, NEW S \in SUBSET Claimable, Claim(w, S), UNCHANGED <<planVars,
             now>>
      PROVE  TypeOK' /\ AttemptsLeft'
  <2>1. S \subseteq Tasks /\ \A t \in S : tstatus[t] = "pending" /\ attempts[t] + 1 \in Tokens
    BY DEF Claimable
  <2>2. attempts' \in [Tasks -> Tokens] /\ inFlight' \in [Workers -> [Tasks -> Tokens]]
    BY <1>1, <2>1 DEF Claim
  <2>3. ASSUME NEW u \in S
        PROVE  [w |-> w, t |-> u, tok |-> attempts[u] + 1, at |-> "handling", found |-> {},
           live |-> FALSE] \in Jobs
    BY <2>1
  <2>4. jobs' \subseteq Jobs
    <3>1. jobs \subseteq Jobs
      OBVIOUS
    <3> HIDE DEF Jobs, TypeOK, QueueTypeOK
    <3> QED
      BY <1>1, <2>3, <3>1 DEF Claim
  <2> QED
    BY <1>1, <2>1, <2>2, <2>4 DEF Claim
<1>2. ASSUME NEW w \in Workers, Heartbeat(w), UNCHANGED <<planVars, now>>
      PROVE  TypeOK' /\ AttemptsLeft'
  BY <1>2 DEF Heartbeat, Held
<1>3. ASSUME NEW w \in Workers, RecoverStale(w), UNCHANGED <<planVars, now>>
      PROVE  TypeOK' /\ AttemptsLeft'
  BY <1>3 DEF RecoverStale, Locked
<1>4. ASSUME NEW w \in Workers, Stop(w), UNCHANGED <<planVars, now>>
      PROVE  TypeOK' /\ AttemptsLeft'
  BY <1>4 DEF Stop
<1>5. ASSUME NEW w \in Workers, Crash(w), UNCHANGED <<planVars, now>>
      PROVE  TypeOK' /\ AttemptsLeft'
  BY <1>5 DEF Crash, Gone
<1>6. ASSUME NEW w \in Workers, BeginRelease(w), UNCHANGED <<planVars, now>>
      PROVE  TypeOK' /\ AttemptsLeft'
  BY <1>6 DEF BeginRelease, Held
<1>7. ASSUME NEW w \in Workers, NEW t \in Tasks, ReleaseTask(w, t), UNCHANGED <<planVars, now>>
      PROVE  TypeOK' /\ AttemptsLeft'
  <2>1. release' \in [Workers -> [Tasks -> Tokens]]
    BY <1>7 DEF ReleaseTask
  <2>2. LeaseHeld(t, release[w][t]) => attempts[t] \in 1 .. MaxAttempts
    BY <1>7 DEF ReleaseTask, LeaseHeld
  <2>3. CASE LeaseHeld(t, release[w][t])
    <3>1. tstatus' = [tstatus EXCEPT ![t] = "pending"] /\ attempts' = [attempts EXCEPT ![t] = attempts[t] - 1]
      BY <1>7, <2>3 DEF ReleaseTask
    <3>2. attempts' \in [Tasks -> Tokens] /\ AttemptsLeft'
      BY <2>2, <2>3, <3>1
    <3> QED
      BY <1>7, <2>1, <2>3, <3>1, <3>2 DEF ReleaseTask
  <2>4. CASE ~LeaseHeld(t, release[w][t])
    BY <1>7, <2>1, <2>4 DEF ReleaseTask
  <2> QED
    BY <2>3, <2>4
<1>8. ASSUME NEW w \in Workers, Exit(w), UNCHANGED <<planVars, now>>
      PROVE  TypeOK' /\ AttemptsLeft'
  BY <1>8 DEF Exit, Gone
<1>9. ASSUME NEW w \in Workers, Restart(w), UNCHANGED <<planVars, now>>
      PROVE  TypeOK' /\ AttemptsLeft'
  BY <1>9 DEF Restart
<1>10. ASSUME NEW j \in jobs, NEW added \in SUBSET LeadsOf(NoRun), Discover(j, added),
              UNCHANGED <<planVars, now>>
      PROVE  TypeOK' /\ AttemptsLeft'
  <2>1. j.t \in Tasks /\ RunOf(j.t) \in Runs /\ added \subseteq Companies
    BY DEF LeadsOf, Tasks, RunOf
  <2>2. [j EXCEPT !.at = "handled", !.found = IF Website \in off THEN {} ELSE added] \in Jobs
    BY <2>1
  <2>3. jobs' \subseteq Jobs
    BY <1>10, <2>2 DEF Discover, Becomes
  <2> QED
    BY <1>10, <2>1, <2>3 DEF Discover, Becomes
<1>11. ASSUME NEW j \in jobs, BeginComplete(j), UNCHANGED <<planVars, now>>
      PROVE  TypeOK' /\ AttemptsLeft'
  BY <1>11 DEF BeginComplete, Becomes, LeaseHeld, HandlerDone, Locked
<1>12. ASSUME NEW j \in jobs, LeaseLost(j), UNCHANGED <<planVars, now>>
      PROVE  TypeOK' /\ AttemptsLeft'
  BY <1>12 DEF LeaseLost, Ends
<1>13. ASSUME NEW j \in jobs, Commit(j), UNCHANGED <<planVars, now>>
      PROVE  TypeOK' /\ AttemptsLeft'
  BY <1>13 DEF Commit, Ends, FollowUps, AfterEnqueue
<1>14. ASSUME NEW j \in jobs, NEW error \in Errors, Fail(j, error), UNCHANGED <<planVars, now>>
      PROVE  TypeOK' /\ AttemptsLeft'
  <2>1. j.t \in Tasks /\ SourceOf(j.t) \in Sources /\ jobs' \subseteq Jobs
    BY <1>14 DEF Fail, Ends, Tasks, SourceOf, IsDiscover, Sources
  <2>2. LeaseHeld(j.t, j.tok) /\ AfterFailure(j,
        error) = "pending" => attempts[j.t] < MaxAttempts
    BY DEF AfterFailure, LeaseHeld
  <2>3. AfterFailure(j, error) \in Open \union Final
    BY DEF AfterFailure
  <2>4. tstatus' \in [Tasks -> Open \union Final \union {"absent"}] /\ AttemptsLeft'
    BY <1>14, <2>1, <2>2, <2>3 DEF Fail
  <2>5. inFlight' \in [Workers -> [Tasks -> Tokens]] /\ cooling' \subseteq Sources
    BY <1>14, <2>1 DEF Fail, Ends
  <2> QED
    BY <1>14, <2>1, <2>4, <2>5 DEF Fail, Ends
<1>15. ASSUME NEW j \in jobs, FailureLost(j), UNCHANGED <<planVars, now>>
      PROVE  TypeOK' /\ AttemptsLeft'
  BY <1>15 DEF FailureLost, Ends
<1>16. ASSUME NEW t \in Tasks, HeartbeatExpires(t), UNCHANGED <<planVars, now>>
      PROVE  TypeOK' /\ AttemptsLeft'
  BY <1>16 DEF HeartbeatExpires
<1>17. ASSUME NEW t \in Tasks, BackoffEnds(t), UNCHANGED <<planVars, now>>
      PROVE  TypeOK' /\ AttemptsLeft'
  BY <1>17 DEF BackoffEnds
<1>18. ASSUME NEW r \in Runs, CancelRun(r), UNCHANGED <<planVars, now>>
      PROVE  TypeOK' /\ AttemptsLeft'
  BY <1>18 DEF CancelRun
<1>19. ASSUME NEW r \in Runs, CancelTasks(r), UNCHANGED <<planVars, now>>
      PROVE  TypeOK' /\ AttemptsLeft'
  BY <1>19 DEF CancelTasks
<1>20. ASSUME NEW s \in cooling, CooldownEnds(s), UNCHANGED <<planVars, now>>
      PROVE  TypeOK' /\ AttemptsLeft'
  BY <1>20 DEF CooldownEnds
<1>21. ASSUME NEW s \in Switchable, SetEnabled(s), UNCHANGED <<planVars, now>>
      PROVE  TypeOK' /\ AttemptsLeft'
  BY <1>21 DEF SetEnabled, Sources
<1>22. ASSUME Tick
      PROVE  TypeOK' /\ AttemptsLeft'
  BY <1>22 DEF Tick
<1>23. ASSUME AskForRun
      PROVE  TypeOK' /\ AttemptsLeft'
  BY <1>23 DEF AskForRun
<1>24. ASSUME NEW w \in Workers, NEW s \in Schedules, NEW may \in BOOLEAN, TickSchedule(w, s,
              may)
      PROVE  TypeOK' /\ AttemptsLeft'
  <2>1. nextRun' \in [Schedules -> Nat]
    BY <1>24 DEF TickSchedule, NextSlots
  <2>2. Date(nextRun[s]) \in Nat
    BY DEF Date
  <2>3. \/ \E r \in Runs : /\ rstatus' = [rstatus EXCEPT ![r] = "queued"]
                        /\ rsched' = [rsched EXCEPT ![r] = s]
                        /\ rdate' = [rdate EXCEPT ![r] = Date(nextRun[s])]
        \/ UNCHANGED <<rstatus, rsched, rdate>>
    BY <1>24 DEF TickSchedule, UserRuns
  <2>4. /\ rstatus' \in [Runs -> {"absent", "queued", "running"} \union Closed]
        /\ rsched' \in [Runs -> Schedules \union {NoSchedule}] /\ rdate' \in [Runs -> Nat]
    <3>1. CASE UNCHANGED <<rstatus, rsched, rdate>>
      BY <3>1
    <3>2. CASE ~UNCHANGED <<rstatus, rsched, rdate>>
      <4>1. PICK r \in Runs : /\ rstatus' = [rstatus EXCEPT ![r] = "queued"]
                             /\ rsched' = [rsched EXCEPT ![r] = s]
                             /\ rdate' = [rdate EXCEPT ![r] = Date(nextRun[s])]
        BY <2>3, <3>2
      <4>2. rstatus' \in [Runs -> {"absent", "queued", "running"} \union Closed]
        BY <4>1
      <4>3. rsched' \in [Runs -> Schedules \union {NoSchedule}]
        BY <4>1
      <4>4. rdate' \in [Runs -> Nat]
        BY <2>2, <4>1
      <4> QED
        BY <4>2, <4>3, <4>4
    <3> QED
      BY <3>1, <3>2
  <2> QED
    BY <1>24, <2>1, <2>4 DEF TickSchedule
<1>25. ASSUME NEW w \in Workers, NEW due \in SUBSET Companies, NightlyRefresh(w, due)
      PROVE  TypeOK' /\ AttemptsLeft'
  BY <1>25 DEF NightlyRefresh, AfterEnqueue
<1>26. ASSUME NEW w \in Workers, SkipOff(w)
      PROVE  TypeOK' /\ AttemptsLeft'
  BY <1>26 DEF SkipOff
<1>27. ASSUME NEW w \in Workers, NEW r \in Runs, FinalizeRun(w, r)
      PROVE  TypeOK' /\ AttemptsLeft'
  <2>1. rstatus' \in [Runs -> {"absent", "queued", "running"} \union Closed]
    BY <1>27 DEF FinalizeRun
  <2>2. fails' \in [Schedules -> Nat] /\ paused' \subseteq Schedules
    BY <1>27 DEF FinalizeRun
  <2> QED
    BY <1>27, <2>1, <2>2 DEF FinalizeRun
<1>28. ASSUME NEW r \in Runs, InsertRun(r)
      PROVE  TypeOK' /\ AttemptsLeft'
  <2>1. Date(now) \in Nat /\ asked - 1 \in Nat
    BY <1>28 DEF Date, InsertRun
  <2> QED
    BY <1>28, <2>1 DEF InsertRun, UserRuns
<1>29. ASSUME NEW r \in Runs, NEW may \in BOOLEAN, StartRun(r, may)
      PROVE  TypeOK' /\ AttemptsLeft'
  BY <1>29 DEF StartRun, AfterEnqueue, UserRuns
<1>30. ASSUME NEW s \in Schedules, NEW wants \in {"keep", "pause", "resume"},
              NEW timing \in BOOLEAN, ReadSchedule(s, wants, timing)
      PROVE  TypeOK' /\ AttemptsLeft'
  <2>1. [wants |-> wants, paused |-> s \in paused, next |-> nextRun[s],
        timing |-> timing] \in Edits
    BY DEF Edits
  <2>2. edit' \in [Schedules -> Edits] /\ asks' \in Nat
    BY <1>30, <2>1 DEF ReadSchedule
  <2> QED
    BY <1>30, <2>2 DEF ReadSchedule
<1>31. ASSUME NEW s \in Schedules, WriteSchedule(s)
      PROVE  TypeOK' /\ AttemptsLeft'
  <2>1. edit[s] \in Edits /\ edit[s].next \in Nat /\ NoEdit \in Edits
    BY DEF Edits, NoEdit
  <2>2. nextRun' \in [Schedules -> Nat] /\ edit' \in [Schedules -> Edits]
    BY <1>31, <2>1 DEF WriteSchedule, NextSlots
  <2>3. fails' \in [Schedules -> Nat]
    BY <1>31 DEF WriteSchedule
  <2>4. paused' \subseteq Schedules /\ overtaken' \subseteq Schedules
    BY <1>31 DEF WriteSchedule
  <2> QED
    BY <1>31, <2>2, <2>3, <2>4 DEF WriteSchedule
<1>32. CASE UNCHANGED vars
  BY <1>32
<1> HIDE DEF TypeOK, QueueTypeOK, AttemptsLeft, vars, queueVars, planVars, taskVars, runVars,
   leadVars,
             sourceVars, workerVars, Open, Final, Closed, Tokens, Jobs, Empty
<1> QED
  BY <1>1, <1>2, <1>3, <1>4, <1>5, <1>6, <1>7, <1>8, <1>9, <1>10, <1>11, <1>12, <1>13, <1>14,
     <1>15, <1>16, <1>17, <1>18, <1>19, <1>20, <1>21, <1>22, <1>23, <1>24, <1>25, <1>26, <1>27,
     <1>28, <1>29, <1>30, <1>31, <1>32 DEF Next, Queue, QueueNext, JobStep, ShutdownStep

-----------------------------------------------------------------------------
(* What a step may do to tasks and to runs *)

\* A completion under way holds its task: it is running, and no other completes it.
OneCommit ==
  \A j \in jobs : j.at = "closing" =>
    /\ tstatus[j.t] = "running"
    /\ \A k \in jobs : k.at = "closing" /\ k.t = j.t => k = j

\* A run has tasks only once it has been started.
StartedTasks ==
  \A t \in Tasks : tstatus[t] # "absent" => rstatus[RunOf(t)] \notin {"absent", "queued"}

Inv == TypeOK /\ AttemptsLeft /\ OneCommit /\ StartedTasks

\* What the proofs below need of the types.
Shaped ==
  /\ tstatus \in [Tasks -> Open \union Final \union {"absent"}]
  /\ rstatus \in [Runs -> {"absent", "queued", "running"} \union Closed]
  /\ \A j \in jobs : j.t \in Tasks /\ RunOf(j.t) \in Runs /\ j.found \subseteq Companies
                    /\ j.at \in {"handling", "handled", "closing"}

\* What the proofs below need follows from the types.
LEMMA TypeShape == TypeOK => Shaped
BY DEF TypeOK, QueueTypeOK, Shaped, Jobs, Tasks, RunOf

\* Tasks that are open are taken, put back or given up.
Moved ==
  /\ tally' = tally
  /\ \A t \in Tasks : \/ tstatus'[t] = tstatus[t]
                      \/ /\ tstatus[t] \in Open
                         /\ tstatus'[t] \in {"pending", "running", "failed", "skipped",
                            "cancelled"}

\* The first tasks of run r, which starts in the same step.
Started(r) ==
  /\ tally' = tally
  /\ rstatus[r] \in {"absent", "queued"} /\ rstatus'[r] = "running"
  /\ \A t \in Tasks : \/ tstatus'[t] = tstatus[t]
                      \/ RunOf(t) = r /\ tstatus[t] = "absent" /\ tstatus'[t] = "pending"

\* The commit of completeTask: the task is done, its stats are added, follow-ups come.
Committed(j) ==
  /\ tstatus[j.t] = "running" /\ tstatus'[j.t] = "done"
  /\ tally' = [tally EXCEPT ![j.t] = @ + 1]
  /\ j.at = "closing" /\ rstatus' = rstatus
  /\ \A t \in Tasks \ {j.t} :
       \/ tstatus'[t] = tstatus[t]
       \/ t \in FollowUps(j) /\ tstatus[t] = "absent" /\ tstatus'[t] = "pending"

TaskStep == Moved \/ (\E r \in Runs : Started(r)) \/ (\E j \in jobs : Committed(j))

\* Every step is of one of the three kinds.
LEMMA TaskShape ==
  ASSUME TypeOK, OneCommit, [Next]_vars
  PROVE  TaskStep
<1>a. Shaped
  BY TypeShape
<1> USE <1>a DEF Shaped, Open, Final, Closed, TaskStep, vars, queueVars, planVars, taskVars,
   runVars, leadVars, sourceVars, workerVars
<1>1. ASSUME NEW w \in Workers, NEW S \in SUBSET Claimable, Claim(w, S), UNCHANGED <<planVars,
             now>>
      PROVE  TaskStep
  BY <1>1 DEF Claim, Claimable, Moved
<1>2. ASSUME NEW w \in Workers, Heartbeat(w), UNCHANGED <<planVars, now>>
      PROVE  TaskStep
  BY <1>2 DEF Heartbeat, Moved
<1>3. ASSUME NEW w \in Workers, RecoverStale(w), UNCHANGED <<planVars, now>>
      PROVE  TaskStep
  BY <1>3 DEF RecoverStale, Moved
<1>4. ASSUME NEW w \in Workers, Stop(w), UNCHANGED <<planVars, now>>
      PROVE  TaskStep
  BY <1>4 DEF Stop, Moved
<1>5. ASSUME NEW w \in Workers, Crash(w), UNCHANGED <<planVars, now>>
      PROVE  TaskStep
  BY <1>5 DEF Crash, Moved, Gone
<1>6. ASSUME NEW w \in Workers, BeginRelease(w), UNCHANGED <<planVars, now>>
      PROVE  TaskStep
  BY <1>6 DEF BeginRelease, Moved
<1>7. ASSUME NEW w \in Workers, NEW t \in Tasks, ReleaseTask(w, t), UNCHANGED <<planVars, now>>
      PROVE  TaskStep
  BY <1>7 DEF ReleaseTask, LeaseHeld, Moved
<1>8. ASSUME NEW w \in Workers, Exit(w), UNCHANGED <<planVars, now>>
      PROVE  TaskStep
  BY <1>8 DEF Exit, Moved, Gone
<1>9. ASSUME NEW w \in Workers, Restart(w), UNCHANGED <<planVars, now>>
      PROVE  TaskStep
  BY <1>9 DEF Restart, Moved
<1>10. ASSUME NEW j \in jobs, NEW added \in SUBSET LeadsOf(NoRun), Discover(j, added),
              UNCHANGED <<planVars, now>>
      PROVE  TaskStep
  BY <1>10 DEF Discover, Moved
<1>11. ASSUME NEW j \in jobs, BeginComplete(j), UNCHANGED <<planVars, now>>
      PROVE  TaskStep
  BY <1>11 DEF BeginComplete, Moved
<1>12. ASSUME NEW j \in jobs, LeaseLost(j), UNCHANGED <<planVars, now>>
      PROVE  TaskStep
  BY <1>12 DEF LeaseLost, Moved
<1>13. ASSUME NEW j \in jobs, Commit(j), UNCHANGED <<planVars, now>>
      PROVE  TaskStep
  <2>1. j.at = "closing" /\ tstatus[j.t] = "running"
    BY <1>13 DEF Commit, OneCommit
  <2>2. tstatus' = AfterEnqueue([tstatus EXCEPT ![j.t] = "done"], FollowUps(j))
    BY <1>13 DEF Commit
  <2>3. Committed(j)
    BY <1>13, <2>1, <2>2 DEF Commit, Committed, AfterEnqueue
  <2> QED
    BY <2>3
<1>14. ASSUME NEW j \in jobs, NEW error \in Errors, Fail(j, error), UNCHANGED <<planVars, now>>
      PROVE  TaskStep
  BY <1>14 DEF Fail, LeaseHeld, AfterFailure, Moved
<1>15. ASSUME NEW j \in jobs, FailureLost(j), UNCHANGED <<planVars, now>>
      PROVE  TaskStep
  BY <1>15 DEF FailureLost, Moved
<1>16. ASSUME NEW t \in Tasks, HeartbeatExpires(t), UNCHANGED <<planVars, now>>
      PROVE  TaskStep
  BY <1>16 DEF HeartbeatExpires, Moved
<1>17. ASSUME NEW t \in Tasks, BackoffEnds(t), UNCHANGED <<planVars, now>>
      PROVE  TaskStep
  BY <1>17 DEF BackoffEnds, Moved
<1>18. ASSUME NEW r \in Runs, CancelRun(r), UNCHANGED <<planVars, now>>
      PROVE  TaskStep
  BY <1>18 DEF CancelRun, Moved
<1>19. ASSUME NEW r \in Runs, CancelTasks(r), UNCHANGED <<planVars, now>>
      PROVE  TaskStep
  BY <1>19 DEF CancelTasks, Moved
<1>20. ASSUME NEW s \in cooling, CooldownEnds(s), UNCHANGED <<planVars, now>>
      PROVE  TaskStep
  BY <1>20 DEF CooldownEnds, Moved
<1>21. ASSUME NEW s \in Switchable, SetEnabled(s), UNCHANGED <<planVars, now>>
      PROVE  TaskStep
  BY <1>21 DEF SetEnabled, Moved
<1>22. ASSUME Tick
      PROVE  TaskStep
  BY <1>22 DEF Tick, Moved
<1>23. ASSUME AskForRun
      PROVE  TaskStep
  BY <1>23 DEF AskForRun, Moved
<1>24. ASSUME NEW w \in Workers, NEW s \in Schedules, NEW may \in BOOLEAN, TickSchedule(w, s,
              may)
      PROVE  TaskStep
  BY <1>24 DEF TickSchedule, Moved
<1>25. ASSUME NEW w \in Workers, NEW due \in SUBSET Companies, NightlyRefresh(w, due)
      PROVE  TaskStep
  <2>1. CASE due = {}
    BY <1>25, <2>1 DEF NightlyRefresh, Moved, AfterEnqueue
  <2>2. CASE due # {}
    <3>1. Started(Nightly) /\ Nightly \in Runs
      BY <1>25, <2>2 DEF NightlyRefresh, Started, AfterEnqueue, RunOf
    <3> QED
      BY <3>1
  <2> QED
    BY <2>1, <2>2
<1>26. ASSUME NEW w \in Workers, SkipOff(w)
      PROVE  TaskStep
  BY <1>26 DEF SkipOff, Moved
<1>27. ASSUME NEW w \in Workers, NEW r \in Runs, FinalizeRun(w, r)
      PROVE  TaskStep
  BY <1>27 DEF FinalizeRun, Moved
<1>28. ASSUME NEW r \in Runs, InsertRun(r)
      PROVE  TaskStep
  BY <1>28 DEF InsertRun, Moved
<1>29. ASSUME NEW r \in Runs, NEW may \in BOOLEAN, StartRun(r, may)
      PROVE  TaskStep
  <2>1. CASE rstatus'[r] = "running"
    BY <1>29, <2>1 DEF StartRun, Started, AfterEnqueue, RunOf
  <2>2. CASE rstatus'[r] # "running"
    BY <1>29, <2>2 DEF StartRun, Moved
  <2> QED
    BY <2>1, <2>2
<1>30. ASSUME NEW s \in Schedules, NEW wants \in {"keep", "pause", "resume"},
              NEW timing \in BOOLEAN, ReadSchedule(s, wants, timing)
      PROVE  TaskStep
  BY <1>30 DEF ReadSchedule, Moved
<1>31. ASSUME NEW s \in Schedules, WriteSchedule(s)
      PROVE  TaskStep
  BY <1>31 DEF WriteSchedule, Moved
<1>32. CASE UNCHANGED vars
  BY <1>32 DEF Moved
<1> HIDE DEF TaskStep, vars, queueVars, planVars, taskVars, runVars, leadVars, sourceVars,
   workerVars
<1> QED
  BY <1>1, <1>2, <1>3, <1>4, <1>5, <1>6, <1>7, <1>8, <1>9, <1>10, <1>11, <1>12, <1>13, <1>14,
     <1>15, <1>16, <1>17, <1>18, <1>19, <1>20, <1>21, <1>22, <1>23, <1>24, <1>25, <1>26, <1>27,
     <1>28, <1>29, <1>30, <1>31, <1>32 DEF Next, Queue, QueueNext, JobStep, ShutdownStep

\* No step lets two completions of one task be under way, or one of a task that is not
\* running: the row stays locked until the commit.
LEMMA NextOneCommit ==
  ASSUME TypeOK, OneCommit, [Next]_vars
  PROVE  OneCommit'
<1>a. Shaped /\ jobs \subseteq Jobs
  BY TypeShape DEF TypeOK, QueueTypeOK
<1> USE <1>a DEF OneCommit, Shaped, Open, Final, Closed, vars, queueVars, planVars, taskVars,
   runVars, leadVars, sourceVars, workerVars
<1>1. ASSUME NEW w \in Workers, NEW S \in SUBSET Claimable, Claim(w, S), UNCHANGED <<planVars,
             now>>
      PROVE  OneCommit'
  <2>1. \A k \in jobs' : k \in jobs \/ k.at = "handling"
    BY <1>1 DEF Claim
  <2>2. \A t \in Tasks : tstatus[t] = "running" => tstatus'[t] = "running"
    BY <1>1 DEF Claim
  <2> QED
    BY <2>1, <2>2
<1>2. ASSUME NEW w \in Workers, Heartbeat(w), UNCHANGED <<planVars, now>>
      PROVE  OneCommit'
  BY <1>2 DEF Heartbeat
<1>3. ASSUME NEW w \in Workers, RecoverStale(w), UNCHANGED <<planVars, now>>
      PROVE  OneCommit'
  BY <1>3 DEF RecoverStale, Locked
<1>4. ASSUME NEW w \in Workers, Stop(w), UNCHANGED <<planVars, now>>
      PROVE  OneCommit'
  BY <1>4 DEF Stop
<1>5. ASSUME NEW w \in Workers, Crash(w), UNCHANGED <<planVars, now>>
      PROVE  OneCommit'
  BY <1>5 DEF Crash, Gone
<1>6. ASSUME NEW w \in Workers, BeginRelease(w), UNCHANGED <<planVars, now>>
      PROVE  OneCommit'
  BY <1>6 DEF BeginRelease
<1>7. ASSUME NEW w \in Workers, NEW t \in Tasks, ReleaseTask(w, t), UNCHANGED <<planVars, now>>
      PROVE  OneCommit'
  BY <1>7 DEF ReleaseTask, Locked
<1>8. ASSUME NEW w \in Workers, Exit(w), UNCHANGED <<planVars, now>>
      PROVE  OneCommit'
  BY <1>8 DEF Exit, Gone
<1>9. ASSUME NEW w \in Workers, Restart(w), UNCHANGED <<planVars, now>>
      PROVE  OneCommit'
  BY <1>9 DEF Restart
<1>10. ASSUME NEW j \in jobs, NEW added \in SUBSET LeadsOf(NoRun), Discover(j, added),
              UNCHANGED <<planVars, now>>
      PROVE  OneCommit'
  <2>1. \A k \in jobs' : k \in jobs \/ k.at = "handled"
    BY <1>10 DEF Discover, Becomes, Jobs
  <2> QED
    BY <1>10, <2>1 DEF Discover
<1>11. ASSUME NEW j \in jobs, BeginComplete(j), UNCHANGED <<planVars, now>>
      PROVE  OneCommit'
  <2>1. tstatus[j.t] = "running" /\ ~Locked(j.t) /\ tstatus' = tstatus
    BY <1>11 DEF BeginComplete, LeaseHeld
  <2>2. \A k \in jobs' : k \in jobs \/ (k = [j EXCEPT !.at = "closing",
        !.live = (rstatus[RunOf(j.t)] = "running")] /\ k.t = j.t)
    BY <1>11 DEF BeginComplete, Becomes, Jobs
  <2> QED
    BY <2>1, <2>2 DEF Locked
<1>12. ASSUME NEW j \in jobs, LeaseLost(j), UNCHANGED <<planVars, now>>
      PROVE  OneCommit'
  BY <1>12 DEF LeaseLost, Ends
<1>13. ASSUME NEW j \in jobs, Commit(j), UNCHANGED <<planVars, now>>
      PROVE  OneCommit'
  <2>1. \A k \in jobs' : k \in jobs /\ (k.at = "closing" => k.t # j.t)
    BY <1>13 DEF Commit, Ends
  <2>2. \A t \in Tasks : t # j.t /\ tstatus[t] = "running" => tstatus'[t] = "running"
    BY <1>13 DEF Commit, AfterEnqueue
  <2> QED
    BY <2>1, <2>2
<1>14. ASSUME NEW j \in jobs, NEW error \in Errors, Fail(j, error), UNCHANGED <<planVars, now>>
      PROVE  OneCommit'
  <2>1. \A k \in jobs' : k \in jobs /\ (k.at = "closing" => k.t # j.t)
    BY <1>14 DEF Fail, Ends, Locked
  <2>2. \A t \in Tasks : t # j.t => tstatus'[t] = tstatus[t]
    BY <1>14 DEF Fail
  <2> QED
    BY <2>1, <2>2
<1>15. ASSUME NEW j \in jobs, FailureLost(j), UNCHANGED <<planVars, now>>
      PROVE  OneCommit'
  BY <1>15 DEF FailureLost, Ends
<1>16. ASSUME NEW t \in Tasks, HeartbeatExpires(t), UNCHANGED <<planVars, now>>
      PROVE  OneCommit'
  BY <1>16 DEF HeartbeatExpires
<1>17. ASSUME NEW t \in Tasks, BackoffEnds(t), UNCHANGED <<planVars, now>>
      PROVE  OneCommit'
  BY <1>17 DEF BackoffEnds
<1>18. ASSUME NEW r \in Runs, CancelRun(r), UNCHANGED <<planVars, now>>
      PROVE  OneCommit'
  BY <1>18 DEF CancelRun
<1>19. ASSUME NEW r \in Runs, CancelTasks(r), UNCHANGED <<planVars, now>>
      PROVE  OneCommit'
  BY <1>19 DEF CancelTasks
<1>20. ASSUME NEW s \in cooling, CooldownEnds(s), UNCHANGED <<planVars, now>>
      PROVE  OneCommit'
  BY <1>20 DEF CooldownEnds
<1>21. ASSUME NEW s \in Switchable, SetEnabled(s), UNCHANGED <<planVars, now>>
      PROVE  OneCommit'
  BY <1>21 DEF SetEnabled
<1>22. ASSUME Tick
      PROVE  OneCommit'
  BY <1>22 DEF Tick
<1>23. ASSUME AskForRun
      PROVE  OneCommit'
  BY <1>23 DEF AskForRun
<1>24. ASSUME NEW w \in Workers, NEW s \in Schedules, NEW may \in BOOLEAN, TickSchedule(w, s,
              may)
      PROVE  OneCommit'
  BY <1>24 DEF TickSchedule
<1>25. ASSUME NEW w \in Workers, NEW due \in SUBSET Companies, NightlyRefresh(w, due)
      PROVE  OneCommit'
  BY <1>25 DEF NightlyRefresh, AfterEnqueue
<1>26. ASSUME NEW w \in Workers, SkipOff(w)
      PROVE  OneCommit'
  BY <1>26 DEF SkipOff
<1>27. ASSUME NEW w \in Workers, NEW r \in Runs, FinalizeRun(w, r)
      PROVE  OneCommit'
  BY <1>27 DEF FinalizeRun
<1>28. ASSUME NEW r \in Runs, InsertRun(r)
      PROVE  OneCommit'
  BY <1>28 DEF InsertRun
<1>29. ASSUME NEW r \in Runs, NEW may \in BOOLEAN, StartRun(r, may)
      PROVE  OneCommit'
  BY <1>29 DEF StartRun, AfterEnqueue
<1>30. ASSUME NEW s \in Schedules, NEW wants \in {"keep", "pause", "resume"},
              NEW timing \in BOOLEAN, ReadSchedule(s, wants, timing)
      PROVE  OneCommit'
  BY <1>30 DEF ReadSchedule
<1>31. ASSUME NEW s \in Schedules, WriteSchedule(s)
      PROVE  OneCommit'
  BY <1>31 DEF WriteSchedule
<1>32. CASE UNCHANGED vars
  BY <1>32
<1> HIDE DEF OneCommit, vars, queueVars, planVars, taskVars, runVars, leadVars, sourceVars,
   workerVars
<1> QED
  BY <1>1, <1>2, <1>3, <1>4, <1>5, <1>6, <1>7, <1>8, <1>9, <1>10, <1>11, <1>12, <1>13, <1>14,
     <1>15, <1>16, <1>17, <1>18, <1>19, <1>20, <1>21, <1>22, <1>23, <1>24, <1>25, <1>26, <1>27,
     <1>28, <1>29, <1>30, <1>31, <1>32 DEF Next, Queue, QueueNext, JobStep, ShutdownStep

\* How the status of a run may change; while it does, only its start touches tasks.
RunMove(r) ==
  \/ rstatus'[r] = rstatus[r]
  \/ rstatus[r] \in {"absent", "queued"} /\ rstatus'[r] = "running"
  \/ /\ UNCHANGED tstatus
     /\ \/ rstatus[r] = "absent" /\ rstatus'[r] = "queued"
        \/ rstatus[r] \in {"absent", "queued"} /\ rstatus'[r] \in {"done", "failed"}
        \/ rstatus[r] \in {"queued", "running"} /\ rstatus'[r] = "cancelled"
        \/ rstatus[r] = "running" /\ OpenTasks(r) = {} /\ rstatus'[r] \in {"done", "failed"}

\* Every step moves a run, if at all, along its life.
LEMMA RunShape ==
  ASSUME TypeOK, [Next]_vars, NEW run \in Runs
  PROVE  RunMove(run)
<1>a. Shaped
  BY TypeShape
<1> USE <1>a DEF Shaped, Closed, RunMove, vars, queueVars, planVars, taskVars, runVars,
   leadVars, sourceVars, workerVars
<1>1. ASSUME NEW w \in Workers, NEW S \in SUBSET Claimable, Claim(w, S), UNCHANGED <<planVars,
             now>>
      PROVE  RunMove(run)
  BY <1>1 DEF Claim
<1>2. ASSUME NEW w \in Workers, Heartbeat(w), UNCHANGED <<planVars, now>>
      PROVE  RunMove(run)
  BY <1>2 DEF Heartbeat
<1>3. ASSUME NEW w \in Workers, RecoverStale(w), UNCHANGED <<planVars, now>>
      PROVE  RunMove(run)
  BY <1>3 DEF RecoverStale
<1>4. ASSUME NEW w \in Workers, Stop(w), UNCHANGED <<planVars, now>>
      PROVE  RunMove(run)
  BY <1>4 DEF Stop
<1>5. ASSUME NEW w \in Workers, Crash(w), UNCHANGED <<planVars, now>>
      PROVE  RunMove(run)
  BY <1>5 DEF Crash, Gone
<1>6. ASSUME NEW w \in Workers, BeginRelease(w), UNCHANGED <<planVars, now>>
      PROVE  RunMove(run)
  BY <1>6 DEF BeginRelease
<1>7. ASSUME NEW w \in Workers, NEW t \in Tasks, ReleaseTask(w, t), UNCHANGED <<planVars, now>>
      PROVE  RunMove(run)
  BY <1>7 DEF ReleaseTask
<1>8. ASSUME NEW w \in Workers, Exit(w), UNCHANGED <<planVars, now>>
      PROVE  RunMove(run)
  BY <1>8 DEF Exit, Gone
<1>9. ASSUME NEW w \in Workers, Restart(w), UNCHANGED <<planVars, now>>
      PROVE  RunMove(run)
  BY <1>9 DEF Restart
<1>10. ASSUME NEW j \in jobs, NEW added \in SUBSET LeadsOf(NoRun), Discover(j, added),
              UNCHANGED <<planVars, now>>
      PROVE  RunMove(run)
  BY <1>10 DEF Discover
<1>11. ASSUME NEW j \in jobs, BeginComplete(j), UNCHANGED <<planVars, now>>
      PROVE  RunMove(run)
  BY <1>11 DEF BeginComplete
<1>12. ASSUME NEW j \in jobs, LeaseLost(j), UNCHANGED <<planVars, now>>
      PROVE  RunMove(run)
  BY <1>12 DEF LeaseLost
<1>13. ASSUME NEW j \in jobs, Commit(j), UNCHANGED <<planVars, now>>
      PROVE  RunMove(run)
  BY <1>13 DEF Commit
<1>14. ASSUME NEW j \in jobs, NEW error \in Errors, Fail(j, error), UNCHANGED <<planVars, now>>
      PROVE  RunMove(run)
  BY <1>14 DEF Fail
<1>15. ASSUME NEW j \in jobs, FailureLost(j), UNCHANGED <<planVars, now>>
      PROVE  RunMove(run)
  BY <1>15 DEF FailureLost
<1>16. ASSUME NEW t \in Tasks, HeartbeatExpires(t), UNCHANGED <<planVars, now>>
      PROVE  RunMove(run)
  BY <1>16 DEF HeartbeatExpires
<1>17. ASSUME NEW t \in Tasks, BackoffEnds(t), UNCHANGED <<planVars, now>>
      PROVE  RunMove(run)
  BY <1>17 DEF BackoffEnds
<1>18. ASSUME NEW r \in Runs, CancelRun(r), UNCHANGED <<planVars, now>>
      PROVE  RunMove(run)
  BY <1>18 DEF CancelRun
<1>19. ASSUME NEW r \in Runs, CancelTasks(r), UNCHANGED <<planVars, now>>
      PROVE  RunMove(run)
  BY <1>19 DEF CancelTasks
<1>20. ASSUME NEW s \in cooling, CooldownEnds(s), UNCHANGED <<planVars, now>>
      PROVE  RunMove(run)
  BY <1>20 DEF CooldownEnds
<1>21. ASSUME NEW s \in Switchable, SetEnabled(s), UNCHANGED <<planVars, now>>
      PROVE  RunMove(run)
  BY <1>21 DEF SetEnabled
<1>22. ASSUME Tick
      PROVE  RunMove(run)
  BY <1>22 DEF Tick
<1>23. ASSUME AskForRun
      PROVE  RunMove(run)
  BY <1>23 DEF AskForRun
<1>24. ASSUME NEW w \in Workers, NEW s \in Schedules, NEW may \in BOOLEAN, TickSchedule(w, s,
              may)
      PROVE  RunMove(run)
  BY <1>24 DEF TickSchedule, UserRuns
<1>25. ASSUME NEW w \in Workers, NEW due \in SUBSET Companies, NightlyRefresh(w, due)
      PROVE  RunMove(run)
  <2>1. due = {} => tstatus' = tstatus
    BY <1>25 DEF NightlyRefresh, AfterEnqueue
  <2> QED
    BY <1>25, <2>1 DEF NightlyRefresh
<1>26. ASSUME NEW w \in Workers, SkipOff(w)
      PROVE  RunMove(run)
  BY <1>26 DEF SkipOff
<1>27. ASSUME NEW w \in Workers, NEW r \in Runs, FinalizeRun(w, r)
      PROVE  RunMove(run)
  BY <1>27 DEF FinalizeRun, Finished
<1>28. ASSUME NEW r \in Runs, InsertRun(r)
      PROVE  RunMove(run)
  BY <1>28 DEF InsertRun
<1>29. ASSUME NEW r \in Runs, NEW may \in BOOLEAN, StartRun(r, may)
      PROVE  RunMove(run)
  BY <1>29 DEF StartRun
<1>30. ASSUME NEW s \in Schedules, NEW wants \in {"keep", "pause", "resume"},
              NEW timing \in BOOLEAN, ReadSchedule(s, wants, timing)
      PROVE  RunMove(run)
  BY <1>30 DEF ReadSchedule
<1>31. ASSUME NEW s \in Schedules, WriteSchedule(s)
      PROVE  RunMove(run)
  BY <1>31 DEF WriteSchedule
<1>32. CASE UNCHANGED vars
  BY <1>32
<1> HIDE DEF RunMove, vars, queueVars, planVars, taskVars, runVars, leadVars, sourceVars,
   workerVars
<1> QED
  BY <1>1, <1>2, <1>3, <1>4, <1>5, <1>6, <1>7, <1>8, <1>9, <1>10, <1>11, <1>12, <1>13, <1>14,
     <1>15, <1>16, <1>17, <1>18, <1>19, <1>20, <1>21, <1>22, <1>23, <1>24, <1>25, <1>26, <1>27,
     <1>28, <1>29, <1>30, <1>31, <1>32 DEF Next, Queue, QueueNext, JobStep, ShutdownStep

\* A run that has not been started gets no tasks.
LEMMA NextStartedTasks ==
  ASSUME TypeOK, OneCommit, StartedTasks, [Next]_vars
  PROVE  StartedTasks'
<1>a. Shaped /\ TaskStep
  BY TypeShape, TaskShape
<1>b. \A r \in Runs : RunMove(r)
  BY RunShape
<1>c. \A t \in Tasks : RunOf(t) \in Runs
  BY DEF Tasks, RunOf
<1> SUFFICES ASSUME NEW t \in Tasks, tstatus'[t] # "absent"
             PROVE  rstatus'[RunOf(t)] \notin {"absent", "queued"}
  BY DEF StartedTasks
<1>1. CASE tstatus[t] # "absent"
  BY <1>1, <1>b, <1>c DEF RunMove, StartedTasks
<1>2. CASE tstatus[t] = "absent"
  <2>1. CASE Moved
    BY <1>2, <2>1 DEF Moved, Open
  <2>2. ASSUME NEW r \in Runs, Started(r)
        PROVE  rstatus'[RunOf(t)] \notin {"absent", "queued"}
    BY <1>2, <2>2 DEF Started
  <2>3. ASSUME NEW j \in jobs, Committed(j)
        PROVE  rstatus'[RunOf(t)] \notin {"absent", "queued"}
    <3>1. t \in FollowUps(j)
      BY <1>2, <2>3 DEF Committed
    <3>2. RunOf(t) = RunOf(j.t)
      BY <3>1 DEF FollowUps, RunOf
    <3> QED
      BY <1>a, <2>3, <3>2 DEF Committed, StartedTasks, Shaped
  <2> QED
    BY <1>a, <2>1, <2>2, <2>3 DEF TaskStep
<1> QED
  BY <1>1, <1>2

\* The initial states satisfy the invariant.
LEMMA InitInv == Init => Inv
<1> SUFFICES ASSUME Init PROVE Inv
  OBVIOUS
<1> USE QueueAssumption, RunsAssumption DEF Init, QueueInit
<1>1. QueueTypeOK
  BY DEF QueueTypeOK, Empty, Open, Final, Closed, Tokens
<1>2. TypeOK
  BY <1>1 DEF TypeOK, NoEdit, Edits
<1>3. AttemptsLeft /\ OneCommit /\ StartedTasks
  BY DEF AttemptsLeft, OneCommit, StartedTasks, Empty
<1> QED
  BY <1>2, <1>3 DEF Inv

\* Every step keeps the invariant.
LEMMA NextInv == Inv /\ [Next]_vars => Inv'
BY NextType, NextOneCommit, NextStartedTasks DEF Inv

\* The invariant holds in every reachable state.
LEMMA Invariance == Spec => []Inv
<1> QED
  BY InitInv, NextInv, PTL DEF Spec

\* Every reachable state of the lead engine is well typed.
THEOREM TypeCorrect == Spec => []TypeOK
<1>1. Inv => TypeOK
  BY DEF Inv
<1> QED
  BY <1>1, Invariance, PTL

-----------------------------------------------------------------------------
(* Runs *)

\* No step leaves an open task in a run that is done or failed.
LEMMA NextClosedRunIsSettled ==
  ASSUME Inv, ClosedRunIsSettled, [Next]_vars
  PROVE  ClosedRunIsSettled'
<1>a. Shaped /\ TaskStep /\ \A r \in Runs : RunMove(r)
  BY TypeShape, TaskShape, RunShape DEF Inv
<1> SUFFICES ASSUME NEW r \in Runs, rstatus'[r] \in {"done", "failed"},
                    NEW t \in Tasks, RunOf(t) = r
             PROVE  tstatus'[t] \notin Open
  BY DEF ClosedRunIsSettled, OpenTasks
<1>1. CASE rstatus[r] \in {"absent", "queued"}
  <2>1. tstatus'[t] = tstatus[t] /\ tstatus[t] = "absent"
    BY <1>1, <1>a DEF RunMove, Inv, StartedTasks
  <2> QED
    BY <2>1 DEF Open
<1>2. CASE rstatus[r] \notin {"absent", "queued"} /\ rstatus'[r] # rstatus[r]
  BY <1>2, <1>a DEF RunMove, OpenTasks
<1>3. CASE rstatus'[r] = rstatus[r]
  <2>1. tstatus[t] \notin Open
    BY <1>3 DEF ClosedRunIsSettled, OpenTasks
  <2>2. CASE Moved
    BY <2>1, <2>2 DEF Moved
  <2>3. ASSUME NEW q \in Runs, Started(q)
        PROVE  tstatus'[t] \notin Open
    BY <1>3, <2>1, <2>3 DEF Started
  <2>4. ASSUME NEW j \in jobs, Committed(j)
        PROVE  tstatus'[t] \notin Open
    <3>1. RunOf(j.t) # r
      BY <1>3, <1>a, <2>4 DEF Committed, ClosedRunIsSettled, OpenTasks, Open, Shaped
    <3>2. t # j.t /\ t \notin FollowUps(j)
      BY <3>1 DEF FollowUps, RunOf
    <3> QED
      BY <2>1, <2>4, <3>2 DEF Committed
  <2> QED
    BY <1>a, <2>2, <2>3, <2>4 DEF TaskStep
<1> QED
  BY <1>1, <1>2, <1>3

\* With the invariant, a run that is done or failed is settled in every reachable state.
LEMMA SettledInvariance == Spec => [](Inv /\ ClosedRunIsSettled)
<1>1. Init => ClosedRunIsSettled
  BY DEF Init, QueueInit, ClosedRunIsSettled
<1>2. Inv /\ ClosedRunIsSettled /\ [Next]_vars => ClosedRunIsSettled'
  BY NextClosedRunIsSettled
<1> QED
  BY <1>1, <1>2, Invariance, PTL DEF Spec

\* A run that is done or failed has no task that a worker could take or be working on:
\* completions, retries, releases and recoveries that are late find nothing to reopen.
THEOREM RunsCloseSettled == Spec => []ClosedRunIsSettled
BY SettledInvariance, PTL

\* A closed run keeps its result, and gets no open task but by the completion that a
\* cancellation has overtaken.
THEOREM RunsStayClosed == Spec => ClosedRunsStay
<1> DEFINE Kept(r) ==
      /\ rstatus'[r] = rstatus[r]
      /\ OpenTasks(r)' \subseteq
           OpenTasks(r) \union (IF rstatus[r] = "cancelled" THEN AddedLate(r) ELSE {})
<1>1. ASSUME Inv, ClosedRunIsSettled, [Next]_vars, NEW r \in Runs, rstatus[r] \in Closed
      PROVE  Kept(r)
  <2>a. Shaped /\ TaskStep /\ RunMove(r) /\ ClosedRunIsSettled'
    BY <1>1, TypeShape, TaskShape, RunShape, NextClosedRunIsSettled DEF Inv
  <2>1. rstatus'[r] = rstatus[r]
    BY <1>1, <2>a DEF RunMove, Closed
  <2>2. CASE rstatus[r] # "cancelled"
    <3>1. OpenTasks(r)' = {}
      BY <1>1, <2>a, <2>1, <2>2 DEF ClosedRunIsSettled, Closed
    <3> QED
      BY <2>1, <3>1
  <2>3. CASE rstatus[r] = "cancelled"
    <3> SUFFICES ASSUME NEW t \in Tasks, RunOf(t) = r, tstatus'[t] \in Open,
       tstatus[t] \notin Open
                 PROVE  t \in AddedLate(r)
      BY <2>1, <2>3 DEF OpenTasks
    <3>1. ~Moved
      BY DEF Moved
    <3>2. ASSUME NEW q \in Runs, Started(q)
          PROVE  FALSE
      BY <1>1, <2>1, <3>2 DEF Started, Closed
    <3>3. PICK j \in jobs : Committed(j)
      BY <2>a, <3>1, <3>2 DEF TaskStep
    <3>4. t \in FollowUps(j) /\ j.at = "closing"
      BY <3>3 DEF Committed, Open
    <3>5. RunOf(j.t) = r
      BY <3>4 DEF FollowUps, RunOf
    <3> QED
      BY <3>4, <3>5 DEF AddedLate
  <2> QED
    BY <2>2, <2>3
<1>2. Inv /\ ClosedRunIsSettled /\ [Next]_vars => [\A r \in Runs : rstatus[r] \in Closed => Kept(r)]_vars
  BY <1>1
<1> QED
  BY <1>2, SettledInvariance, PTL DEF Spec, ClosedRunsStay

-----------------------------------------------------------------------------
(* The ledger *)

\* The queue begins with the empty ledger.
LEMMA InitLedger == Init => Ledger!LedgerInit
BY DEF Init, QueueInit, Ledger!LedgerInit, Open, Final

\* Every step of the lead engine adds, books or drops tasks of the ledger, or none.
LEMMA StepLedger ==
  ASSUME Inv, [Next]_vars
  PROVE  [Ledger!LedgerNext]_(Ledger!ledgerVars)
<1>a. Shaped /\ TaskStep
  BY TypeShape, TaskShape DEF Inv
<1> DEFINE Todo == {t \in Tasks : tstatus[t] \in Open}
           Dropped == {t \in Tasks : tstatus[t] \in Final \ {"done"}}
           Done == {t \in Tasks : tstatus[t] = "done"}
           New == {t \in Tasks : tstatus[t] = "absent" /\ tstatus'[t] = "pending"}
           Lost == {t \in Todo : tstatus'[t] \in Final}
<1>b. New \subseteq Tasks \ (Todo \union Done \union Dropped)
  BY DEF Open, Final
<1>1. CASE Moved
  <2>1. Todo' = Todo \ Lost /\ Dropped' = Dropped \union Lost /\ Done' = Done /\ tally' = tally
    BY <1>1, <1>a DEF Moved, Shaped, Open, Final
  <2>2. PICK S \in SUBSET Tasks : S = Lost
    OBVIOUS
  <2>3. Ledger!Drop(S)
    BY <2>1, <2>2 DEF Ledger!Drop
  <2> QED
    BY <2>3 DEF Ledger!LedgerNext
<1>2. ASSUME NEW r \in Runs, Started(r)
      PROVE  \E S \in SUBSET Tasks : Ledger!Add(S)
  <2>1. Todo' = Todo \union New /\ Dropped' = Dropped /\ Done' = Done /\ tally' = tally
    BY <1>2, <1>a DEF Started, Shaped, Open, Final
  <2>2. PICK S \in SUBSET Tasks : S = New
    OBVIOUS
  <2>3. Ledger!Add(S)
    BY <2>1, <2>2, <1>b DEF Ledger!Add, Ledger!Known
  <2> QED
    BY <2>3
<1>3. ASSUME NEW j \in jobs, Committed(j)
      PROVE  \E t \in Tasks, S \in SUBSET Tasks : Ledger!Book(t, S)
  <2>1. j.t \in Todo /\ tally' = [tally EXCEPT ![j.t] = @ + 1]
    BY <1>3, <1>a DEF Committed, Shaped, Open
  <2>2. Todo' = (Todo \ {j.t}) \union New /\ Dropped' = Dropped /\ Done' = Done \union {j.t}
    BY <1>3, <1>a, <2>1 DEF Committed, Shaped, Open, Final
  <2>3. PICK t \in Tasks, S \in SUBSET Tasks : t = j.t /\ S = New
    BY <2>1
  <2>4. Ledger!Book(t, S)
    BY <2>1, <2>2, <2>3, <1>b DEF Ledger!Book, Ledger!Known
  <2> QED
    BY <2>4
<1> QED
  BY <1>a, <1>1, <1>2, <1>3 DEF TaskStep, Ledger!LedgerNext

\* The queue implements the ledger: every task is added once and settled once, and its
\* stats are added to its run exactly when it is settled as done.
THEOREM QueueImplementsLedger == Spec => ImplementsLedger
<1>1. Init => Ledger!LedgerInit
  BY InitLedger
<1>2. Inv /\ [Next]_vars => [Ledger!LedgerNext]_(Ledger!ledgerVars)
  BY StepLedger
<1> QED
  BY <1>1, <1>2, Invariance, PTL DEF Spec, ImplementsLedger, Ledger!LedgerSpec

-----------------------------------------------------------------------------
(* Limits *)

OnlyStarts ==
  \/ \A r \in UserRuns : rstatus'[r] = "running" => rstatus[r] = "running"
  \/ \E r \in Runs, may \in BOOLEAN : StartRun(r, may)

\* No run of the user begins to run but by a start.
LEMMA OnlyStartsRun ==
  ASSUME TypeOK, [Next]_vars
  PROVE  OnlyStarts
<1>a. Shaped /\ UserRuns \subseteq Runs
  BY TypeShape DEF UserRuns
<1> USE <1>a DEF Shaped, OnlyStarts, vars, queueVars, planVars, taskVars, runVars, leadVars,
   sourceVars, workerVars
<1>1. ASSUME NEW w \in Workers, NEW S \in SUBSET Claimable, Claim(w, S), UNCHANGED <<planVars,
             now>>
      PROVE  OnlyStarts
  BY <1>1 DEF Claim
<1>2. ASSUME NEW w \in Workers, Heartbeat(w), UNCHANGED <<planVars, now>>
      PROVE  OnlyStarts
  BY <1>2 DEF Heartbeat
<1>3. ASSUME NEW w \in Workers, RecoverStale(w), UNCHANGED <<planVars, now>>
      PROVE  OnlyStarts
  BY <1>3 DEF RecoverStale
<1>4. ASSUME NEW w \in Workers, Stop(w), UNCHANGED <<planVars, now>>
      PROVE  OnlyStarts
  BY <1>4 DEF Stop
<1>5. ASSUME NEW w \in Workers, Crash(w), UNCHANGED <<planVars, now>>
      PROVE  OnlyStarts
  BY <1>5 DEF Crash, Gone
<1>6. ASSUME NEW w \in Workers, BeginRelease(w), UNCHANGED <<planVars, now>>
      PROVE  OnlyStarts
  BY <1>6 DEF BeginRelease
<1>7. ASSUME NEW w \in Workers, NEW t \in Tasks, ReleaseTask(w, t), UNCHANGED <<planVars, now>>
      PROVE  OnlyStarts
  BY <1>7 DEF ReleaseTask
<1>8. ASSUME NEW w \in Workers, Exit(w), UNCHANGED <<planVars, now>>
      PROVE  OnlyStarts
  BY <1>8 DEF Exit, Gone
<1>9. ASSUME NEW w \in Workers, Restart(w), UNCHANGED <<planVars, now>>
      PROVE  OnlyStarts
  BY <1>9 DEF Restart
<1>10. ASSUME NEW j \in jobs, NEW added \in SUBSET LeadsOf(NoRun), Discover(j, added),
              UNCHANGED <<planVars, now>>
      PROVE  OnlyStarts
  BY <1>10 DEF Discover
<1>11. ASSUME NEW j \in jobs, BeginComplete(j), UNCHANGED <<planVars, now>>
      PROVE  OnlyStarts
  BY <1>11 DEF BeginComplete
<1>12. ASSUME NEW j \in jobs, LeaseLost(j), UNCHANGED <<planVars, now>>
      PROVE  OnlyStarts
  BY <1>12 DEF LeaseLost
<1>13. ASSUME NEW j \in jobs, Commit(j), UNCHANGED <<planVars, now>>
      PROVE  OnlyStarts
  BY <1>13 DEF Commit
<1>14. ASSUME NEW j \in jobs, NEW error \in Errors, Fail(j, error), UNCHANGED <<planVars, now>>
      PROVE  OnlyStarts
  BY <1>14 DEF Fail
<1>15. ASSUME NEW j \in jobs, FailureLost(j), UNCHANGED <<planVars, now>>
      PROVE  OnlyStarts
  BY <1>15 DEF FailureLost
<1>16. ASSUME NEW t \in Tasks, HeartbeatExpires(t), UNCHANGED <<planVars, now>>
      PROVE  OnlyStarts
  BY <1>16 DEF HeartbeatExpires
<1>17. ASSUME NEW t \in Tasks, BackoffEnds(t), UNCHANGED <<planVars, now>>
      PROVE  OnlyStarts
  BY <1>17 DEF BackoffEnds
<1>18. ASSUME NEW r \in Runs, CancelRun(r), UNCHANGED <<planVars, now>>
      PROVE  OnlyStarts
  BY <1>18 DEF CancelRun
<1>19. ASSUME NEW r \in Runs, CancelTasks(r), UNCHANGED <<planVars, now>>
      PROVE  OnlyStarts
  BY <1>19 DEF CancelTasks
<1>20. ASSUME NEW s \in cooling, CooldownEnds(s), UNCHANGED <<planVars, now>>
      PROVE  OnlyStarts
  BY <1>20 DEF CooldownEnds
<1>21. ASSUME NEW s \in Switchable, SetEnabled(s), UNCHANGED <<planVars, now>>
      PROVE  OnlyStarts
  BY <1>21 DEF SetEnabled
<1>22. ASSUME Tick
      PROVE  OnlyStarts
  BY <1>22 DEF Tick
<1>23. ASSUME AskForRun
      PROVE  OnlyStarts
  BY <1>23 DEF AskForRun
<1>24. ASSUME NEW w \in Workers, NEW s \in Schedules, NEW may \in BOOLEAN, TickSchedule(w, s,
              may)
      PROVE  OnlyStarts
  BY <1>24 DEF TickSchedule
<1>25. ASSUME NEW w \in Workers, NEW due \in SUBSET Companies, NightlyRefresh(w, due)
      PROVE  OnlyStarts
  BY <1>25 DEF NightlyRefresh, UserRuns
<1>26. ASSUME NEW w \in Workers, SkipOff(w)
      PROVE  OnlyStarts
  BY <1>26 DEF SkipOff
<1>27. ASSUME NEW w \in Workers, NEW r \in Runs, FinalizeRun(w, r)
      PROVE  OnlyStarts
  BY <1>27 DEF FinalizeRun
<1>28. ASSUME NEW r \in Runs, InsertRun(r)
      PROVE  OnlyStarts
  BY <1>28 DEF InsertRun
<1>29. ASSUME NEW r \in Runs, NEW may \in BOOLEAN, StartRun(r, may)
      PROVE  OnlyStarts
  BY <1>29
<1>30. ASSUME NEW s \in Schedules, NEW wants \in {"keep", "pause", "resume"},
              NEW timing \in BOOLEAN, ReadSchedule(s, wants, timing)
      PROVE  OnlyStarts
  BY <1>30 DEF ReadSchedule
<1>31. ASSUME NEW s \in Schedules, WriteSchedule(s)
      PROVE  OnlyStarts
  BY <1>31 DEF WriteSchedule
<1>32. CASE UNCHANGED vars
  BY <1>32
<1> HIDE DEF OnlyStarts, vars, queueVars, planVars, taskVars, runVars, leadVars, sourceVars,
   workerVars
<1> QED
  BY <1>1, <1>2, <1>3, <1>4, <1>5, <1>6, <1>7, <1>8, <1>9, <1>10, <1>11, <1>12, <1>13, <1>14,
     <1>15, <1>16, <1>17, <1>18, <1>19, <1>20, <1>21, <1>22, <1>23, <1>24, <1>25, <1>26, <1>27,
     <1>28, <1>29, <1>30, <1>31, <1>32 DEF Next, Queue, QueueNext, JobStep, ShutdownStep

\* Only a start under the limit adds a running run.
LEMMA NextRunsWithinLimit ==
  ASSUME TypeOK, RunsWithinLimit, [Next]_vars
  PROVE  RunsWithinLimit'
<1>a. Shaped /\ IsFiniteSet(Runs)
  BY TypeShape, QueueAssumption
<1> DEFINE Running == UserRunsIn({"running"})
<1>b. IsFiniteSet(Running) /\ Cardinality(Running) \in Nat
  BY <1>a, FS_Subset, FS_CardinalityType DEF UserRunsIn, UserRuns
<1>d. ASSUME Running' \subseteq Running
      PROVE  RunsWithinLimit'
  <2>1. Cardinality(Running') <= Cardinality(Running) /\ Cardinality(Running') \in Nat
    BY <1>b, <1>d, FS_Subset, FS_CardinalityType
  <2> QED
    BY <1>b, <2>1, RunsAssumption DEF RunsWithinLimit
<1>1. CASE \A r \in UserRuns : rstatus'[r] = "running" => rstatus[r] = "running"
  BY <1>1, <1>d DEF UserRunsIn
<1>2. ASSUME NEW r \in Runs, NEW may \in BOOLEAN, StartRun(r, may)
      PROVE  RunsWithinLimit'
  <2>1. Running' \subseteq Running \union {r} /\ Cardinality(Running) < MaxRunning
    BY <1>2, <1>a DEF StartRun, UserRunsIn, UserRuns, Shaped
  <2>2. IsFiniteSet(Running \union {r}) /\ Cardinality(Running \union {r}) <= Cardinality(Running) + 1
    <3>1. /\ IsFiniteSet(Running \union {r})
          /\ Cardinality(Running \union {r}) = IF r \in Running THEN Cardinality(Running)
                                               ELSE Cardinality(Running) + 1
      <4> HIDE DEF Running
      <4> QED
        BY <1>b, FS_AddElement
    <3> HIDE DEF Running
    <3> QED
      BY <1>b, <3>1
  <2>3. /\ Cardinality(Running') <= Cardinality(Running \union {r})
        /\ Cardinality(Running') \in Nat /\ Cardinality(Running \union {r}) \in Nat
    BY <2>1, <2>2, FS_Subset, FS_CardinalityType
  <2> QED
    BY <1>b, <2>1, <2>2, <2>3, RunsAssumption DEF RunsWithinLimit
<1>3. \/ \A r \in UserRuns : rstatus'[r] = "running" => rstatus[r] = "running"
      \/ \E r \in Runs, may \in BOOLEAN : StartRun(r, may)
  BY OnlyStartsRun DEF OnlyStarts
<1> QED
  BY <1>1, <1>2, <1>3

\* The number of running runs of the user stays within MAX_CONCURRENT_RUNS, for every
\* number of requests, schedules and scheduler processes.
THEOREM RunsLimited == Spec => []RunsWithinLimit
<1>1. Init => RunsWithinLimit
  <2> SUFFICES ASSUME Init PROVE RunsWithinLimit
    OBVIOUS
  <2>1. UserRunsIn({"running"}) = {}
    BY DEF Init, QueueInit, UserRunsIn, UserRuns
  <2> QED
    BY <2>1, FS_EmptySet, RunsAssumption DEF RunsWithinLimit
<1>2. Inv /\ RunsWithinLimit /\ [Next]_vars => RunsWithinLimit'
  BY NextRunsWithinLimit DEF Inv
<1> QED
  BY <1>1, <1>2, Invariance, PTL DEF Spec

\* A failure that reaches the limit pauses; only an edit takes the pause away.
LEMMA NextFailuresPause ==
  ASSUME TypeOK, FailuresPause, [Next]_vars
  PROVE  FailuresPause'
<1>a. fails \in [Schedules -> Nat] /\ MaxFailures \in Nat \ {0}
  BY RunsAssumption DEF TypeOK
<1> USE <1>a DEF FailuresPause, vars, queueVars, planVars, taskVars, runVars, leadVars,
   sourceVars, workerVars
<1>1. ASSUME NEW w \in Workers, NEW S \in SUBSET Claimable, Claim(w, S), UNCHANGED <<planVars,
             now>>
      PROVE  FailuresPause'
  BY <1>1 DEF Claim
<1>2. ASSUME NEW w \in Workers, Heartbeat(w), UNCHANGED <<planVars, now>>
      PROVE  FailuresPause'
  BY <1>2 DEF Heartbeat
<1>3. ASSUME NEW w \in Workers, RecoverStale(w), UNCHANGED <<planVars, now>>
      PROVE  FailuresPause'
  BY <1>3 DEF RecoverStale
<1>4. ASSUME NEW w \in Workers, Stop(w), UNCHANGED <<planVars, now>>
      PROVE  FailuresPause'
  BY <1>4 DEF Stop
<1>5. ASSUME NEW w \in Workers, Crash(w), UNCHANGED <<planVars, now>>
      PROVE  FailuresPause'
  BY <1>5 DEF Crash, Gone
<1>6. ASSUME NEW w \in Workers, BeginRelease(w), UNCHANGED <<planVars, now>>
      PROVE  FailuresPause'
  BY <1>6 DEF BeginRelease
<1>7. ASSUME NEW w \in Workers, NEW t \in Tasks, ReleaseTask(w, t), UNCHANGED <<planVars, now>>
      PROVE  FailuresPause'
  BY <1>7 DEF ReleaseTask
<1>8. ASSUME NEW w \in Workers, Exit(w), UNCHANGED <<planVars, now>>
      PROVE  FailuresPause'
  BY <1>8 DEF Exit, Gone
<1>9. ASSUME NEW w \in Workers, Restart(w), UNCHANGED <<planVars, now>>
      PROVE  FailuresPause'
  BY <1>9 DEF Restart
<1>10. ASSUME NEW j \in jobs, NEW added \in SUBSET LeadsOf(NoRun), Discover(j, added),
              UNCHANGED <<planVars, now>>
      PROVE  FailuresPause'
  BY <1>10 DEF Discover
<1>11. ASSUME NEW j \in jobs, BeginComplete(j), UNCHANGED <<planVars, now>>
      PROVE  FailuresPause'
  BY <1>11 DEF BeginComplete
<1>12. ASSUME NEW j \in jobs, LeaseLost(j), UNCHANGED <<planVars, now>>
      PROVE  FailuresPause'
  BY <1>12 DEF LeaseLost
<1>13. ASSUME NEW j \in jobs, Commit(j), UNCHANGED <<planVars, now>>
      PROVE  FailuresPause'
  BY <1>13 DEF Commit
<1>14. ASSUME NEW j \in jobs, NEW error \in Errors, Fail(j, error), UNCHANGED <<planVars, now>>
      PROVE  FailuresPause'
  BY <1>14 DEF Fail
<1>15. ASSUME NEW j \in jobs, FailureLost(j), UNCHANGED <<planVars, now>>
      PROVE  FailuresPause'
  BY <1>15 DEF FailureLost
<1>16. ASSUME NEW t \in Tasks, HeartbeatExpires(t), UNCHANGED <<planVars, now>>
      PROVE  FailuresPause'
  BY <1>16 DEF HeartbeatExpires
<1>17. ASSUME NEW t \in Tasks, BackoffEnds(t), UNCHANGED <<planVars, now>>
      PROVE  FailuresPause'
  BY <1>17 DEF BackoffEnds
<1>18. ASSUME NEW r \in Runs, CancelRun(r), UNCHANGED <<planVars, now>>
      PROVE  FailuresPause'
  BY <1>18 DEF CancelRun
<1>19. ASSUME NEW r \in Runs, CancelTasks(r), UNCHANGED <<planVars, now>>
      PROVE  FailuresPause'
  BY <1>19 DEF CancelTasks
<1>20. ASSUME NEW s \in cooling, CooldownEnds(s), UNCHANGED <<planVars, now>>
      PROVE  FailuresPause'
  BY <1>20 DEF CooldownEnds
<1>21. ASSUME NEW s \in Switchable, SetEnabled(s), UNCHANGED <<planVars, now>>
      PROVE  FailuresPause'
  BY <1>21 DEF SetEnabled
<1>22. ASSUME Tick
      PROVE  FailuresPause'
  BY <1>22 DEF Tick
<1>23. ASSUME AskForRun
      PROVE  FailuresPause'
  BY <1>23 DEF AskForRun
<1>24. ASSUME NEW w \in Workers, NEW s \in Schedules, NEW may \in BOOLEAN, TickSchedule(w, s,
              may)
      PROVE  FailuresPause'
  BY <1>24 DEF TickSchedule
<1>25. ASSUME NEW w \in Workers, NEW due \in SUBSET Companies, NightlyRefresh(w, due)
      PROVE  FailuresPause'
  BY <1>25 DEF NightlyRefresh
<1>26. ASSUME NEW w \in Workers, SkipOff(w)
      PROVE  FailuresPause'
  BY <1>26 DEF SkipOff
<1>27. ASSUME NEW w \in Workers, NEW r \in Runs, FinalizeRun(w, r)
      PROVE  FailuresPause'
  <2>1. overtaken' = overtaken
    BY <1>27 DEF FinalizeRun
  <2>2. CASE rsched[r] \notin Schedules
    BY <1>27, <2>1, <2>2 DEF FinalizeRun
  <2>3. CASE rsched[r] \in Schedules
    <3>1. \A s \in Schedules \ {rsched[r]} : fails'[s] = fails[s] /\ (s \in paused => s \in paused')
      BY <1>27, <2>3 DEF FinalizeRun
    <3>2. fails'[rsched[r]] >= MaxFailures => rsched[r] \in paused'
      BY <1>27, <2>3 DEF FinalizeRun
    <3> QED
      BY <2>1, <3>1, <3>2
  <2> QED
    BY <2>2, <2>3
<1>28. ASSUME NEW r \in Runs, InsertRun(r)
      PROVE  FailuresPause'
  BY <1>28 DEF InsertRun
<1>29. ASSUME NEW r \in Runs, NEW may \in BOOLEAN, StartRun(r, may)
      PROVE  FailuresPause'
  BY <1>29 DEF StartRun
<1>30. ASSUME NEW s \in Schedules, NEW wants \in {"keep", "pause", "resume"},
              NEW timing \in BOOLEAN, ReadSchedule(s, wants, timing)
      PROVE  FailuresPause'
  BY <1>30 DEF ReadSchedule
<1>31. ASSUME NEW s \in Schedules, WriteSchedule(s)
      PROVE  FailuresPause'
  <2>1. \A q \in Schedules \ {s} :
         fails'[q] = fails[q] /\ (q \in paused => q \in paused') /\ (q \in overtaken => q \in overtaken')
    BY <1>31 DEF WriteSchedule
  <2>2. fails'[s] >= MaxFailures => s \in paused' \union overtaken'
    BY <1>31 DEF WriteSchedule
  <2> QED
    BY <2>1, <2>2
<1>32. CASE UNCHANGED vars
  BY <1>32
<1> HIDE DEF FailuresPause, vars, queueVars, planVars, taskVars, runVars, leadVars, sourceVars,
   workerVars
<1> QED
  BY <1>1, <1>2, <1>3, <1>4, <1>5, <1>6, <1>7, <1>8, <1>9, <1>10, <1>11, <1>12, <1>13, <1>14,
     <1>15, <1>16, <1>17, <1>18, <1>19, <1>20, <1>21, <1>22, <1>23, <1>24, <1>25, <1>26, <1>27,
     <1>28, <1>29, <1>30, <1>31, <1>32 DEF Next, Queue, QueueNext, JobStep, ShutdownStep

\* A schedule whose runs have failed MAX_CONSECUTIVE_FAILURES times in a row is paused,
\* unless an edit that read it before the pause has written the old value back.
THEOREM FailuresArePaused == Spec => []FailuresPause
<1>1. Init => FailuresPause
  BY RunsAssumption DEF Init, FailuresPause
<1>2. Inv /\ FailuresPause /\ [Next]_vars => FailuresPause'
  BY NextFailuresPause DEF Inv
<1> QED
  BY <1>1, <1>2, Invariance, PTL DEF Spec

\* How leads come in: handlers of discover add rows of companies without one, as far as
\* there is room in the run and in the day; a new day begins with none.
LeadStep ==
  \/ UNCHANGED leadVars
  \/ lead' = lead /\ today' = {}
  \/ \E r \in Runs : \E added \in SUBSET LeadsOf(NoRun) :
       /\ added # {} /\ Cardinality(added) <= Room(r)
       /\ lead' = [c \in Companies |-> IF c \in added THEN r ELSE lead[c]]
       /\ today' = today \union added

\* Every step adds leads, if any, as far as there is room.
LEMMA LeadShape ==
  ASSUME TypeOK, [Next]_vars
  PROVE  LeadStep
<1>a. Shaped /\ lead \in [Companies -> Runs \union {NoRun}]
  BY TypeShape DEF TypeOK, QueueTypeOK
<1> USE <1>a DEF Shaped, LeadStep, vars, queueVars, planVars, taskVars, runVars, leadVars,
   sourceVars, workerVars
<1>1. ASSUME NEW w \in Workers, NEW S \in SUBSET Claimable, Claim(w, S), UNCHANGED <<planVars,
             now>>
      PROVE  LeadStep
  BY <1>1 DEF Claim
<1>2. ASSUME NEW w \in Workers, Heartbeat(w), UNCHANGED <<planVars, now>>
      PROVE  LeadStep
  BY <1>2 DEF Heartbeat
<1>3. ASSUME NEW w \in Workers, RecoverStale(w), UNCHANGED <<planVars, now>>
      PROVE  LeadStep
  BY <1>3 DEF RecoverStale
<1>4. ASSUME NEW w \in Workers, Stop(w), UNCHANGED <<planVars, now>>
      PROVE  LeadStep
  BY <1>4 DEF Stop
<1>5. ASSUME NEW w \in Workers, Crash(w), UNCHANGED <<planVars, now>>
      PROVE  LeadStep
  BY <1>5 DEF Crash, Gone
<1>6. ASSUME NEW w \in Workers, BeginRelease(w), UNCHANGED <<planVars, now>>
      PROVE  LeadStep
  BY <1>6 DEF BeginRelease
<1>7. ASSUME NEW w \in Workers, NEW t \in Tasks, ReleaseTask(w, t), UNCHANGED <<planVars, now>>
      PROVE  LeadStep
  BY <1>7 DEF ReleaseTask
<1>8. ASSUME NEW w \in Workers, Exit(w), UNCHANGED <<planVars, now>>
      PROVE  LeadStep
  BY <1>8 DEF Exit, Gone
<1>9. ASSUME NEW w \in Workers, Restart(w), UNCHANGED <<planVars, now>>
      PROVE  LeadStep
  BY <1>9 DEF Restart
<1>10. ASSUME NEW j \in jobs, NEW added \in SUBSET LeadsOf(NoRun), Discover(j, added),
              UNCHANGED <<planVars, now>>
      PROVE  LeadStep
  <2>1. CASE added = {}
    BY <1>10, <2>1 DEF Discover
  <2>2. CASE added # {}
    BY <1>10, <2>2 DEF Discover
  <2> QED
    BY <2>1, <2>2
<1>11. ASSUME NEW j \in jobs, BeginComplete(j), UNCHANGED <<planVars, now>>
      PROVE  LeadStep
  BY <1>11 DEF BeginComplete
<1>12. ASSUME NEW j \in jobs, LeaseLost(j), UNCHANGED <<planVars, now>>
      PROVE  LeadStep
  BY <1>12 DEF LeaseLost
<1>13. ASSUME NEW j \in jobs, Commit(j), UNCHANGED <<planVars, now>>
      PROVE  LeadStep
  BY <1>13 DEF Commit
<1>14. ASSUME NEW j \in jobs, NEW error \in Errors, Fail(j, error), UNCHANGED <<planVars, now>>
      PROVE  LeadStep
  BY <1>14 DEF Fail
<1>15. ASSUME NEW j \in jobs, FailureLost(j), UNCHANGED <<planVars, now>>
      PROVE  LeadStep
  BY <1>15 DEF FailureLost
<1>16. ASSUME NEW t \in Tasks, HeartbeatExpires(t), UNCHANGED <<planVars, now>>
      PROVE  LeadStep
  BY <1>16 DEF HeartbeatExpires
<1>17. ASSUME NEW t \in Tasks, BackoffEnds(t), UNCHANGED <<planVars, now>>
      PROVE  LeadStep
  BY <1>17 DEF BackoffEnds
<1>18. ASSUME NEW r \in Runs, CancelRun(r), UNCHANGED <<planVars, now>>
      PROVE  LeadStep
  BY <1>18 DEF CancelRun
<1>19. ASSUME NEW r \in Runs, CancelTasks(r), UNCHANGED <<planVars, now>>
      PROVE  LeadStep
  BY <1>19 DEF CancelTasks
<1>20. ASSUME NEW s \in cooling, CooldownEnds(s), UNCHANGED <<planVars, now>>
      PROVE  LeadStep
  BY <1>20 DEF CooldownEnds
<1>21. ASSUME NEW s \in Switchable, SetEnabled(s), UNCHANGED <<planVars, now>>
      PROVE  LeadStep
  BY <1>21 DEF SetEnabled
<1>22. ASSUME Tick
      PROVE  LeadStep
  BY <1>22 DEF Tick
<1>23. ASSUME AskForRun
      PROVE  LeadStep
  BY <1>23 DEF AskForRun
<1>24. ASSUME NEW w \in Workers, NEW s \in Schedules, NEW may \in BOOLEAN, TickSchedule(w, s,
              may)
      PROVE  LeadStep
  BY <1>24 DEF TickSchedule
<1>25. ASSUME NEW w \in Workers, NEW due \in SUBSET Companies, NightlyRefresh(w, due)
      PROVE  LeadStep
  BY <1>25 DEF NightlyRefresh
<1>26. ASSUME NEW w \in Workers, SkipOff(w)
      PROVE  LeadStep
  BY <1>26 DEF SkipOff
<1>27. ASSUME NEW w \in Workers, NEW r \in Runs, FinalizeRun(w, r)
      PROVE  LeadStep
  BY <1>27 DEF FinalizeRun
<1>28. ASSUME NEW r \in Runs, InsertRun(r)
      PROVE  LeadStep
  BY <1>28 DEF InsertRun
<1>29. ASSUME NEW r \in Runs, NEW may \in BOOLEAN, StartRun(r, may)
      PROVE  LeadStep
  BY <1>29 DEF StartRun
<1>30. ASSUME NEW s \in Schedules, NEW wants \in {"keep", "pause", "resume"},
              NEW timing \in BOOLEAN, ReadSchedule(s, wants, timing)
      PROVE  LeadStep
  BY <1>30 DEF ReadSchedule
<1>31. ASSUME NEW s \in Schedules, WriteSchedule(s)
      PROVE  LeadStep
  BY <1>31 DEF WriteSchedule
<1>32. CASE UNCHANGED vars
  BY <1>32
<1> HIDE DEF LeadStep, vars, queueVars, planVars, taskVars, runVars, leadVars, sourceVars,
   workerVars
<1> QED
  BY <1>1, <1>2, <1>3, <1>4, <1>5, <1>6, <1>7, <1>8, <1>9, <1>10, <1>11, <1>12, <1>13, <1>14,
     <1>15, <1>16, <1>17, <1>18, <1>19, <1>20, <1>21, <1>22, <1>23, <1>24, <1>25, <1>26, <1>27,
     <1>28, <1>29, <1>30, <1>31, <1>32 DEF Next, Queue, QueueNext, JobStep, ShutdownStep

\* A union is no larger than its parts together.
LEMMA UnionSize ==
  ASSUME NEW S, NEW T, IsFiniteSet(S), IsFiniteSet(T)
  PROVE  /\ Cardinality(S) \in Nat /\ Cardinality(T) \in Nat /\ Cardinality(S \union T) \in Nat
         /\ Cardinality(S \union T) <= Cardinality(S) + Cardinality(T)
<1>1. IsFiniteSet(S \intersect T)
  BY FS_Intersection
<1>2. IsFiniteSet(S \union T)
  BY FS_Union
<1>3. Cardinality(S \union T) = Cardinality(S) + Cardinality(T) - Cardinality(S \intersect T)
  BY FS_Union
<1>4. /\ Cardinality(S) \in Nat /\ Cardinality(T) \in Nat /\ Cardinality(S \union T) \in Nat
      /\ Cardinality(S \intersect T) \in Nat
  BY <1>1, <1>2, FS_CardinalityType
<1> QED
  BY <1>3, <1>4

\* Leads that fit the room of the run and of the day keep both limits.
LEMMA NextLeadsWithinLimits ==
  ASSUME TypeOK, LeadsWithinLimits, LeadStep
  PROVE  LeadsWithinLimits'
<1>a. TargetPerRun \in Nat /\ DailyLimit \in Nat /\ NoRun \notin Runs /\ IsFiniteSet(Companies)
  BY QueueAssumption
<1>b. today \subseteq Companies /\ lead \in [Companies -> Runs \union {NoRun}]
  BY DEF TypeOK, QueueTypeOK
<1>1. CASE UNCHANGED leadVars
  BY <1>1 DEF leadVars, LeadsWithinLimits, LeadsOf
<1>2. CASE lead' = lead /\ today' = {}
  BY <1>2, <1>a, FS_EmptySet DEF LeadsWithinLimits, LeadsOf
<1>3. ASSUME NEW r \in Runs, NEW added \in SUBSET LeadsOf(NoRun),
             added # {}, Cardinality(added) <= Room(r),
             lead' = [c \in Companies |-> IF c \in added THEN r ELSE lead[c]],
             today' = today \union added
      PROVE  LeadsWithinLimits'
  <2>1. IsFiniteSet(today) /\ IsFiniteSet(added) /\ IsFiniteSet(LeadsOf(r))
    BY <1>a, <1>b, FS_Subset DEF LeadsOf
  <2>2. /\ Cardinality(today \union added) <= Cardinality(today) + Cardinality(added)
        /\ Cardinality(today) \in Nat /\ Cardinality(added) \in Nat
        /\ Cardinality(today \union added) \in Nat
    BY <2>1, UnionSize
  <2>3. /\ Cardinality(LeadsOf(r) \union added) <= Cardinality(LeadsOf(r)) + Cardinality(added)
        /\ Cardinality(LeadsOf(r)) \in Nat /\ Cardinality(LeadsOf(r) \union added) \in Nat
    BY <2>1, UnionSize
  <2>4. /\ Cardinality(added) <= TargetPerRun - Cardinality(LeadsOf(r))
        /\ Cardinality(added) <= DailyLimit - Cardinality(today)
    BY <1>3, <1>a, <2>2, <2>3 DEF Room
  <2>5. Cardinality(today') <= DailyLimit
    BY <1>3, <1>a, <2>2, <2>4
  <2>6. LeadsOf(r)' = LeadsOf(r) \union added
    BY <1>3, <1>a DEF LeadsOf
  <2>7. \A q \in Runs \ {r} : LeadsOf(q)' = LeadsOf(q)
    BY <1>3, <1>a DEF LeadsOf
  <2>8. Cardinality(LeadsOf(r)') <= TargetPerRun
    BY <1>a, <2>2, <2>3, <2>4, <2>6
  <2>9. ASSUME NEW q \in Runs
        PROVE  Cardinality(LeadsOf(q)') <= TargetPerRun
    BY <2>7, <2>8 DEF LeadsWithinLimits
  <2> QED
    BY <2>5, <2>9 DEF LeadsWithinLimits
<1> QED
  BY <1>1, <1>2, <1>3 DEF LeadStep

\* However many runs, retries and jobs with a lost lease add leads, a run stays within
\* its target and a day within the limit of the plan.
THEOREM LeadsStayWithinLimits == Spec => []LeadsWithinLimits
<1>1. Init => LeadsWithinLimits
  <2> SUFFICES ASSUME Init PROVE LeadsWithinLimits
    OBVIOUS
  <2>1. today = {} /\ \A r \in Runs : LeadsOf(r) = {}
    BY QueueAssumption DEF Init, QueueInit, LeadsOf
  <2> QED
    BY <2>1, FS_EmptySet, QueueAssumption DEF LeadsWithinLimits
<1>2. Inv /\ LeadsWithinLimits /\ [Next]_vars => LeadsWithinLimits'
  BY LeadShape, NextLeadsWithinLimits DEF Inv
<1> QED
  BY <1>1, <1>2, Invariance, PTL DEF Spec

-----------------------------------------------------------------------------
(* Leases *)

\* Worker w holds the lease of t with token n: by its map inFlight or one of its jobs,
\* and once it puts its tasks back, by what it has still to put back.
Holds(w, t, n) ==
  IF life[w] = "releasing" THEN release[w][t] = n
  ELSE inFlight[w][t] = n \/ \E j \in jobs : j.w = w /\ j.t = t /\ j.tok = n

Given == Tokens \ {0}

\* Tokens are given out in order, a lease has one holder, and a worker has one job for
\* a lease it holds.
LeaseInv ==
  /\ \A j \in jobs : j.tok # 0
  /\ \A w \in Workers, t \in Tasks, n \in Given : Holds(w, t, n) => n <= attempts[t]
  /\ \A v, w \in Workers, t \in Tasks, n \in Given : Holds(v, t, n) /\ Holds(w, t, n) => v = w
  /\ \A j, k \in jobs :
       j.w = k.w /\ j.t = k.t /\ j.tok = k.tok /\ life[j.w] # "releasing" => j = k

LeaseShaped ==
  /\ jobs \subseteq Jobs
  /\ attempts \in [Tasks -> Tokens]
  /\ inFlight \in [Workers -> [Tasks -> Tokens]] /\ release \in [Workers -> [Tasks -> Tokens]]
  /\ life \in [Workers -> {"up", "stopping", "releasing", "down"}]
  /\ Tokens \subseteq Nat

\* What the proofs about leases need follows from the types.
LEMMA LeaseShape == TypeOK => LeaseShaped
BY QueueAssumption DEF TypeOK, QueueTypeOK, LeaseShaped, Tokens

\* A step after which nobody holds a lease that he did not hold before.
Fewer ==
  /\ attempts' = attempts
  /\ \A w \in Workers, t \in Tasks, n \in Given : Holds(w, t, n)' => Holds(w, t, n)
  /\ \A j \in jobs' : j.tok # 0
  /\ \A j, k \in jobs' :
       j.w = k.w /\ j.t = k.t /\ j.tok = k.tok /\ life'[j.w] # "releasing" => j = k

\* A step that gives no lease keeps the lease invariant.
LEMMA FewerLeaseInv ==
  ASSUME LeaseInv, Fewer
  PROVE  LeaseInv'
<1>1. \A w \in Workers, t \in Tasks, n \in Given : Holds(w, t, n)' => n <= attempts'[t]
  BY DEF LeaseInv, Fewer
<1>2. \A v, w \in Workers, t \in Tasks, n \in Given : Holds(v, t, n)' /\ Holds(w, t,
      n)' => v = w
  BY DEF LeaseInv, Fewer
<1> QED
  BY <1>1, <1>2 DEF LeaseInv, Fewer

\* The end of a call of processTask gives no lease to anybody.
LEMMA EndsFewer ==
  ASSUME LeaseShaped, LeaseInv, NEW j \in jobs, Ends(j), attempts' = attempts
  PROVE  Fewer
<1>1. j.w \in Workers /\ j.t \in Tasks
  BY DEF LeaseShaped, Jobs
<1>2. \A w \in Workers, t \in Tasks, n \in Given : inFlight'[w][t] = n => inFlight[w][t] = n
  BY <1>1 DEF Ends, LeaseShaped, Given
<1>3. jobs' \subseteq jobs /\ life' = life /\ release' = release
  BY DEF Ends
<1> QED
  BY <1>2, <1>3 DEF Fewer, Holds, LeaseInv

\* Neither does a step within the call.
LEMMA BecomesFewer ==
  ASSUME LeaseShaped, LeaseInv, NEW j \in jobs, NEW k, k.w = j.w, k.t = j.t, k.tok = j.tok,
         Becomes(j, k), attempts' = attempts
  PROVE  Fewer
<1>1. \A i \in jobs' : i = k \/ (i \in jobs /\ i # j)
  BY DEF Becomes
<1>2. life' = life /\ release' = release /\ inFlight' = inFlight
  BY DEF Becomes
<1>3. \A w \in Workers, t \in Tasks, n \in Given : Holds(w, t, n)' => Holds(w, t, n)
  BY <1>1, <1>2 DEF Holds
<1>4. \A i, l \in jobs' :
        i.w = l.w /\ i.t = l.t /\ i.tok = l.tok /\ life'[i.w] # "releasing" => i = l
  BY <1>1, <1>2 DEF LeaseInv
<1> QED
  BY <1>1, <1>3, <1>4 DEF Fewer, LeaseInv

\* A worker that is gone holds nothing.
LEMMA GoneFewer ==
  ASSUME LeaseShaped, LeaseInv, NEW w \in Workers, Gone(w)
  PROVE  Fewer
<1>1. /\ jobs' = {j \in jobs : j.w # w} /\ attempts' = attempts
      /\ \A t \in Tasks : inFlight'[w][t] = 0 /\ release'[w][t] = 0
      /\ \A v \in Workers \ {w} : inFlight'[v] = inFlight[v] /\ release'[v] = release[v] /\ life'[v] = life[v]
  BY DEF Gone, Empty, LeaseShaped, taskVars
<1>2. ASSUME NEW v \in Workers, NEW t \in Tasks, NEW n \in Given, Holds(v, t, n)'
      PROVE  Holds(v, t, n)
  <2>1. v # w
    BY <1>1, <1>2 DEF Holds, Given
  <2> QED
    BY <1>1, <1>2, <2>1 DEF Holds
<1>3. \A j \in jobs' : j.w \in Workers \ {w}
  BY <1>1 DEF LeaseShaped, Jobs
<1> QED
  BY <1>1, <1>2, <1>3 DEF Fewer, LeaseInv

\* A claim gives out a token that nobody holds.
LEMMA ClaimLeaseInv ==
  ASSUME LeaseShaped, LeaseInv, NEW w \in Workers, NEW S \in SUBSET Tasks, Claim(w, S)
  PROVE  LeaseInv'
<1>a. life[w] = "up" /\ life' = life /\ release' = release
  BY DEF Claim
<1>b. \A t \in Tasks : attempts'[t] = IF t \in S THEN attempts[t] + 1 ELSE attempts[t]
  BY DEF Claim
<1>c. /\ \A t \in Tasks : inFlight'[w][t] = IF t \in S THEN attempts[t] + 1 ELSE inFlight[w][t]
      /\ \A v \in Workers \ {w} : inFlight'[v] = inFlight[v]
  BY DEF Claim, LeaseShaped
<1> DEFINE New(t) == [w |-> w, t |-> t, tok |-> attempts[t] + 1, at |-> "handling",
                      found |-> {}, live |-> FALSE]
<1>d. \A j \in jobs' : j \in jobs \/ \E t \in S : j = New(t)
  BY DEF Claim
<1>e. \A t \in Tasks : attempts[t] \in Nat
  BY DEF LeaseShaped
<1>f. \A j \in jobs : j.w \in Workers /\ j.t \in Tasks /\ j.tok \in Given
  BY DEF LeaseShaped, LeaseInv, Jobs, Given
<1>1. ASSUME NEW v \in Workers, NEW t \in Tasks, NEW n \in Given, Holds(v, t, n)'
      PROVE  Holds(v, t, n) \/ (v = w /\ t \in S /\ n = attempts[t] + 1)
  <2>1. CASE \E j \in jobs' : j.w = v /\ j.t = t /\ j.tok = n /\ life[v] # "releasing"
    BY <1>a, <1>d, <2>1 DEF Holds
  <2>2. CASE inFlight'[v][t] = n /\ life[v] # "releasing"
    BY <1>a, <1>c, <2>2 DEF Holds
  <2>3. CASE life[v] = "releasing"
    BY <1>1, <1>a, <2>3 DEF Holds
  <2> QED
    BY <1>1, <1>a, <2>1, <2>2, <2>3 DEF Holds
<1>2. \A v \in Workers, t \in Tasks, n \in Given : Holds(v, t, n) => n <= attempts[t]
  BY DEF LeaseInv
<1>3. \A v \in Workers, t \in Tasks, n \in Given : Holds(v, t, n)' => n <= attempts'[t]
  BY <1>1, <1>2, <1>b, <1>e DEF Given, LeaseShaped
<1>4. ASSUME NEW u \in Workers, NEW v \in Workers, NEW t \in Tasks, NEW n \in Given,
             Holds(u, t, n)', Holds(v, t, n)'
      PROVE  u = v
  <2>1. n \in Nat /\ ~(n <= attempts[t] /\ n = attempts[t] + 1)
    BY <1>e DEF Given, LeaseShaped
  <2> QED
    BY <1>1, <1>2, <1>4, <2>1 DEF LeaseInv
<1>5. \A j \in jobs' : j.tok # 0
  BY <1>d, <1>e, <1>f DEF Given
<1>6. ASSUME NEW j \in jobs', NEW k \in jobs', j.w = k.w, j.t = k.t, j.tok = k.tok,
             life'[j.w] # "releasing"
      PROVE  j = k
  <2>1. ASSUME NEW i \in jobs, i.w = w
        PROVE  i.tok <= attempts[i.t] /\ i.tok \in Nat
    <3>1. Holds(w, i.t, i.tok)
      BY <1>a, <2>1 DEF Holds
    <3> QED
      BY <1>2, <1>f, <3>1 DEF Given, LeaseShaped
  <2>2. CASE j \in jobs /\ k \in jobs
    BY <1>6, <1>a, <2>2 DEF LeaseInv
  <2>3. CASE \E t \in S : j = New(t)
    BY <1>6, <1>d, <1>e, <2>1, <2>3
  <2>4. CASE \E t \in S : k = New(t)
    BY <1>6, <1>d, <1>e, <2>1, <2>4
  <2> QED
    BY <1>d, <2>2, <2>3, <2>4
<1> QED
  BY <1>3, <1>4, <1>5, <1>6 DEF LeaseInv

\* A task that is put back takes its token back from the only worker that held it.
LEMMA ReleaseLeaseInv ==
  ASSUME LeaseShaped, LeaseInv, NEW w \in Workers, NEW t \in Tasks, ReleaseTask(w, t)
  PROVE  LeaseInv'
<1>a. life[w] = "releasing" /\ release[w][t] \in Given /\ jobs' = jobs /\ inFlight' = inFlight /\ life' = life
  BY DEF ReleaseTask, LeaseShaped, Given
<1>b. release' = [release EXCEPT ![w][t] = 0]
  BY DEF ReleaseTask
<1>c. \A v \in Workers,
      u \in Tasks : release'[v][u] = IF v = w /\ u = t THEN 0 ELSE release[v][u]
  BY <1>b DEF LeaseShaped
<1>1. \A v \in Workers, u \in Tasks, n \in Given :
        Holds(v, u, n)' => Holds(v, u, n) /\ ~(v = w /\ u = t)
  BY <1>a, <1>c DEF Holds, Given
<1>2. CASE ~LeaseHeld(t, release[w][t])
  <2>1. attempts' = attempts
    BY <1>2 DEF ReleaseTask
  <2> QED
    BY <1>a, <1>1, <2>1, FewerLeaseInv DEF Fewer, LeaseInv
<1>3. CASE LeaseHeld(t, release[w][t])
  <2>1. attempts' = [attempts EXCEPT ![t] = attempts[t] - 1] /\ attempts[t] = release[w][t]
    BY <1>3 DEF ReleaseTask, LeaseHeld
  <2>2. Holds(w, t, attempts[t]) /\ attempts[t] \in Given
    BY <1>a, <2>1 DEF Holds
  <2>3. ASSUME NEW v \in Workers, NEW u \in Tasks, NEW n \in Given, Holds(v, u, n)'
        PROVE  n <= attempts'[u]
    <3>1. n <= attempts[u] /\ Holds(v, u, n)
      BY <1>1, <2>3 DEF LeaseInv
    <3>2. CASE u # t
      BY <2>1, <3>1, <3>2 DEF LeaseShaped
    <3>3. CASE u = t
      <4>1. n # attempts[t]
        BY <1>1, <2>2, <2>3, <3>1, <3>3 DEF LeaseInv
      <4>2. n \in Nat /\ attempts[t] \in Nat /\ attempts'[t] = attempts[t] - 1 /\ n <= attempts[t]
        BY <2>1, <3>1, <3>3 DEF LeaseShaped, Given
      <4> QED
        BY <3>3, <4>1, <4>2
    <3> QED
      BY <3>2, <3>3
  <2>4. \A u, v \in Workers, s \in Tasks, n \in Given : Holds(u, s, n)' /\ Holds(v, s,
        n)' => u = v
    BY <1>1 DEF LeaseInv
  <2> QED
    BY <1>a, <2>3, <2>4 DEF LeaseInv
<1> QED
  BY <1>2, <1>3

\* A step that gives no lease, a claim, or a task put back.
LeaseStep ==
  \/ Fewer
  \/ \E w \in Workers, S \in SUBSET Tasks : Claim(w, S)
  \/ \E w \in Workers, t \in Tasks : ReleaseTask(w, t)

\* Every step is of one of the three kinds.
LEMMA LeaseSteps ==
  ASSUME TypeOK, LeaseInv, [Next]_vars
  PROVE  LeaseStep
<1>a. LeaseShaped
  BY LeaseShape
<1>b. \A j \in jobs : j.w \in Workers
  BY <1>a DEF LeaseShaped, Jobs
<1>c. UNCHANGED <<attempts, jobs, inFlight, life, release>> => Fewer
  BY DEF Fewer, Holds, LeaseInv
<1> USE <1>a DEF LeaseShaped, LeaseStep, vars, queueVars, planVars, taskVars, runVars, leadVars,
   sourceVars, workerVars
<1>1. ASSUME NEW w \in Workers, NEW S \in SUBSET Claimable, Claim(w, S), UNCHANGED <<planVars,
             now>>
      PROVE  LeaseStep
  <2>1. S \in SUBSET Tasks
    BY DEF Claimable
  <2> QED
    BY <1>1, <2>1 DEF LeaseStep
<1>2. ASSUME NEW w \in Workers, Heartbeat(w), UNCHANGED <<planVars, now>>
      PROVE  LeaseStep
  BY <1>2, <1>c DEF Heartbeat
<1>3. ASSUME NEW w \in Workers, RecoverStale(w), UNCHANGED <<planVars, now>>
      PROVE  LeaseStep
  BY <1>3, <1>c DEF RecoverStale
<1>4. ASSUME NEW w \in Workers, Stop(w), UNCHANGED <<planVars, now>>
      PROVE  LeaseStep
  <2>1. \A v \in Workers : life'[v] = "releasing" <=> life[v] = "releasing"
    BY <1>4 DEF Stop
  <2>2. \A v \in Workers, t \in Tasks, n \in Given : Holds(v, t, n)' => Holds(v, t, n)
    BY <1>4, <2>1 DEF Stop, Holds
  <2>3. attempts' = attempts /\ jobs' = jobs
    BY <1>4 DEF Stop
  <2> QED
    BY <1>b, <2>1, <2>2, <2>3 DEF Fewer, LeaseInv
<1>5. ASSUME NEW w \in Workers, Crash(w), UNCHANGED <<planVars, now>>
      PROVE  LeaseStep
  BY <1>5, GoneFewer DEF Crash
<1>6. ASSUME NEW w \in Workers, BeginRelease(w), UNCHANGED <<planVars, now>>
      PROVE  LeaseStep
  <2>1. /\ life'[w] = "releasing" /\ release'[w] = inFlight[w] /\ life[w] # "releasing"
        /\ \A v \in Workers \ {w} : life'[v] = life[v] /\ release'[v] = release[v]
        /\ attempts' = attempts /\ jobs' = jobs /\ inFlight' = inFlight
    BY <1>6 DEF BeginRelease
  <2>2. \A v \in Workers, t \in Tasks, n \in Given : Holds(v, t, n)' => Holds(v, t, n)
    BY <2>1 DEF Holds
  <2> QED
    BY <1>b, <2>1, <2>2 DEF Fewer, LeaseInv
<1>7. ASSUME NEW w \in Workers, NEW t \in Tasks, ReleaseTask(w, t), UNCHANGED <<planVars, now>>
      PROVE  LeaseStep
  BY <1>7 DEF LeaseStep
<1>8. ASSUME NEW w \in Workers, Exit(w), UNCHANGED <<planVars, now>>
      PROVE  LeaseStep
  BY <1>8, GoneFewer DEF Exit
<1>9. ASSUME NEW w \in Workers, Restart(w), UNCHANGED <<planVars, now>>
      PROVE  LeaseStep
  <2>1. \A v \in Workers : life'[v] = "releasing" <=> life[v] = "releasing"
    BY <1>9 DEF Restart
  <2>2. \A v \in Workers, t \in Tasks, n \in Given : Holds(v, t, n)' => Holds(v, t, n)
    BY <1>9, <2>1 DEF Restart, Holds
  <2>3. attempts' = attempts /\ jobs' = jobs
    BY <1>9 DEF Restart
  <2> QED
    BY <1>b, <2>1, <2>2, <2>3 DEF Fewer, LeaseInv
<1>10. ASSUME NEW j \in jobs, NEW added \in SUBSET LeadsOf(NoRun), Discover(j, added),
              UNCHANGED <<planVars, now>>
      PROVE  LeaseStep
  <2> DEFINE k == [j EXCEPT !.at = "handled", !.found = IF Website \in off THEN {} ELSE added]
  <2>1. attempts' = attempts /\ Becomes(j, k)
    BY <1>10 DEF Discover
  <2>2. k.w = j.w /\ k.t = j.t /\ k.tok = j.tok
    BY DEF Jobs
  <2> QED
    BY <2>1, <2>2, BecomesFewer
<1>11. ASSUME NEW j \in jobs, BeginComplete(j), UNCHANGED <<planVars, now>>
      PROVE  LeaseStep
  <2> DEFINE k == [j EXCEPT !.at = "closing", !.live = (rstatus[RunOf(j.t)] = "running")]
  <2>1. attempts' = attempts /\ Becomes(j, k)
    BY <1>11 DEF BeginComplete
  <2>2. k.w = j.w /\ k.t = j.t /\ k.tok = j.tok
    BY DEF Jobs
  <2> QED
    BY <2>1, <2>2, BecomesFewer
<1>12. ASSUME NEW j \in jobs, LeaseLost(j), UNCHANGED <<planVars, now>>
      PROVE  LeaseStep
  <2>1. attempts' = attempts /\ Ends(j)
    BY <1>12 DEF LeaseLost
  <2> QED
    BY <2>1, EndsFewer
<1>13. ASSUME NEW j \in jobs, Commit(j), UNCHANGED <<planVars, now>>
      PROVE  LeaseStep
  <2>1. attempts' = attempts /\ Ends(j)
    BY <1>13 DEF Commit
  <2> QED
    BY <2>1, EndsFewer
<1>14. ASSUME NEW j \in jobs, NEW error \in Errors, Fail(j, error), UNCHANGED <<planVars, now>>
      PROVE  LeaseStep
  <2>1. attempts' = attempts /\ Ends(j)
    BY <1>14 DEF Fail
  <2> QED
    BY <2>1, EndsFewer
<1>15. ASSUME NEW j \in jobs, FailureLost(j), UNCHANGED <<planVars, now>>
      PROVE  LeaseStep
  <2>1. attempts' = attempts /\ Ends(j)
    BY <1>15 DEF FailureLost
  <2> QED
    BY <2>1, EndsFewer
<1>16. ASSUME NEW t \in Tasks, HeartbeatExpires(t), UNCHANGED <<planVars, now>>
      PROVE  LeaseStep
  BY <1>16, <1>c DEF HeartbeatExpires
<1>17. ASSUME NEW t \in Tasks, BackoffEnds(t), UNCHANGED <<planVars, now>>
      PROVE  LeaseStep
  BY <1>17, <1>c DEF BackoffEnds
<1>18. ASSUME NEW r \in Runs, CancelRun(r), UNCHANGED <<planVars, now>>
      PROVE  LeaseStep
  BY <1>18, <1>c DEF CancelRun
<1>19. ASSUME NEW r \in Runs, CancelTasks(r), UNCHANGED <<planVars, now>>
      PROVE  LeaseStep
  BY <1>19, <1>c DEF CancelTasks
<1>20. ASSUME NEW s \in cooling, CooldownEnds(s), UNCHANGED <<planVars, now>>
      PROVE  LeaseStep
  BY <1>20, <1>c DEF CooldownEnds
<1>21. ASSUME NEW s \in Switchable, SetEnabled(s), UNCHANGED <<planVars, now>>
      PROVE  LeaseStep
  BY <1>21, <1>c DEF SetEnabled
<1>22. ASSUME Tick
      PROVE  LeaseStep
  BY <1>22, <1>c DEF Tick
<1>23. ASSUME AskForRun
      PROVE  LeaseStep
  BY <1>23, <1>c DEF AskForRun
<1>24. ASSUME NEW w \in Workers, NEW s \in Schedules, NEW may \in BOOLEAN, TickSchedule(w, s,
              may)
      PROVE  LeaseStep
  BY <1>24, <1>c DEF TickSchedule
<1>25. ASSUME NEW w \in Workers, NEW due \in SUBSET Companies, NightlyRefresh(w, due)
      PROVE  LeaseStep
  BY <1>25, <1>c DEF NightlyRefresh
<1>26. ASSUME NEW w \in Workers, SkipOff(w)
      PROVE  LeaseStep
  BY <1>26, <1>c DEF SkipOff
<1>27. ASSUME NEW w \in Workers, NEW r \in Runs, FinalizeRun(w, r)
      PROVE  LeaseStep
  BY <1>27, <1>c DEF FinalizeRun
<1>28. ASSUME NEW r \in Runs, InsertRun(r)
      PROVE  LeaseStep
  BY <1>28, <1>c DEF InsertRun
<1>29. ASSUME NEW r \in Runs, NEW may \in BOOLEAN, StartRun(r, may)
      PROVE  LeaseStep
  BY <1>29, <1>c DEF StartRun
<1>30. ASSUME NEW s \in Schedules, NEW wants \in {"keep", "pause", "resume"},
              NEW timing \in BOOLEAN, ReadSchedule(s, wants, timing)
      PROVE  LeaseStep
  BY <1>30, <1>c DEF ReadSchedule
<1>31. ASSUME NEW s \in Schedules, WriteSchedule(s)
      PROVE  LeaseStep
  BY <1>31, <1>c DEF WriteSchedule
<1>32. CASE UNCHANGED vars
  BY <1>32 DEF Fewer, Holds, LeaseInv
<1> HIDE DEF LeaseStep, vars, queueVars, planVars, taskVars, runVars, leadVars, sourceVars,
   workerVars
<1> QED
  BY <1>1, <1>2, <1>3, <1>4, <1>5, <1>6, <1>7, <1>8, <1>9, <1>10, <1>11, <1>12, <1>13, <1>14,
     <1>15, <1>16, <1>17, <1>18, <1>19, <1>20, <1>21, <1>22, <1>23, <1>24, <1>25, <1>26, <1>27,
     <1>28, <1>29, <1>30, <1>31, <1>32 DEF Next, Queue, QueueNext, JobStep, ShutdownStep

\* Two calls of processTask share a lease only while one of their workers is putting its
\* tasks back: tokens given out, lost and given out again never let two workers that go
\* on both complete a task.
THEOREM LeasesUnique == Spec => []LeaseUnique
<1>1. Init => LeaseInv
  <2> SUFFICES ASSUME Init PROVE LeaseInv
    OBVIOUS
  <2>1. \A w \in Workers, t \in Tasks, n \in Given : ~Holds(w, t, n)
    BY DEF Init, QueueInit, Holds, Empty, Given
  <2> QED
    BY <2>1 DEF Init, QueueInit, LeaseInv
<1>2. Inv /\ LeaseInv /\ [Next]_vars => LeaseInv'
  BY LeaseShape, LeaseSteps, FewerLeaseInv, ClaimLeaseInv, ReleaseLeaseInv DEF Inv, LeaseStep
<1>3. Inv /\ LeaseInv => LeaseUnique
  <2> SUFFICES ASSUME Inv, LeaseInv, NEW j \in jobs, NEW k \in jobs,
                      j # k, j.t = k.t, j.tok = k.tok,
                      life[j.w] # "releasing", life[k.w] # "releasing"
               PROVE  FALSE
    BY DEF LeaseUnique
  <2>1. /\ j.w \in Workers /\ k.w \in Workers /\ j.t \in Tasks /\ j.tok \in Given
        /\ j.w # k.w
    BY LeaseShape DEF Inv, LeaseShaped, Jobs, LeaseInv, Given
  <2>2. Holds(j.w, j.t, j.tok) /\ Holds(k.w, j.t, j.tok)
    BY DEF Holds
  <2> QED
    BY <2>1, <2>2 DEF LeaseInv
<1> QED
  BY <1>1, <1>2, <1>3, Invariance, PTL DEF Spec

=============================================================================
