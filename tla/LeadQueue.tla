----------------------------- MODULE LeadQueue -----------------------------
(***************************************************************************)
(* The scrape_tasks queue of the lead engine and the worker processes that *)
(* take tasks from it: claims under a lease token, heartbeats, completion, *)
(* retries, recovery of tasks whose worker has stopped, graceful shutdown, *)
(* crashes and the cancellation of a run.  The runs belong to one user;    *)
(* users share nothing but workers and sources.                            *)
(***************************************************************************)
EXTENDS Integers, FiniteSets

CONSTANTS
  Runs,          \* scrape_runs.id
  Discovery,     \* sources asked by discover tasks
  Website,       \* the source of the follow-up tasks (fetch_site, find_social)
  Companies,
  Workers,       \* worker processes
  NoRun,
  MaxAttempts,   \* MAX_ATTEMPTS
  Concurrency,   \* LEADGEN_WORKER_CONCURRENCY
  TargetPerRun,  \* saved_searches.target_per_run
  DailyLimit,    \* plans.lead_gen_daily_limit
  Switchable,    \* sources an administrator may switch off and on
  Blockable,     \* sources that may answer 429 or 403
  MaxStops       \* bound on the stops and crashes of workers

ASSUME QueueAssumption ==
  /\ MaxAttempts \in Nat \ {0}
  /\ {Concurrency, TargetPerRun, DailyLimit, MaxStops} \subseteq Nat
  /\ NoRun \notin Runs /\ IsFiniteSet(Runs) /\ IsFiniteSet(Companies)
  /\ Discovery \intersect Companies = {}
  /\ Switchable \union Blockable \subseteq Discovery \union {Website}

Sources == Discovery \union {Website}

\* UNIQUE (run_id, task_type, target): the key is the identity of a task.
Tasks == Runs \X (Discovery \union Companies)
RunOf(t) == t[1]
IsDiscover(t) == t[2] \in Discovery
SourceOf(t) == IF IsDiscover(t) THEN t[2] ELSE Website

VARIABLES
  tstatus,    \* scrape_tasks.status, "absent" before the INSERT
  attempts,   \* scrape_tasks.attempts
  waiting,    \* tasks whose next_attempt_at is in the future
  stale,      \* running tasks whose heartbeat_at is older than STALE_AFTER_MS
  rstatus,    \* scrape_runs.status, "absent" before the INSERT, "done" also for partial
  cancelling, \* runs between the two statements of cancelRun
  lead,       \* workspace_leads.first_run_id of a company, NoRun without a row
  today,      \* leads with found_at of today
  cooling,    \* sources with cooldown_until in the future
  off,        \* sources that are not enabled
  jobs,       \* calls of processTask in progress
  inFlight,   \* the map inFlight of a worker: task to lease token, 0 for none
  life,       \* the worker process: up, stopping, releasing, down
  release,    \* what releaseTasks has still to put back, as in inFlight
  stops,
  tally       \* history: how often the stats of a task were added to its run

taskVars == <<tstatus, attempts, waiting, stale, tally>>
runVars == <<rstatus, cancelling>>
leadVars == <<lead, today>>
sourceVars == <<cooling, off>>
workerVars == <<jobs, inFlight, life, release, stops>>
queueVars == <<taskVars, runVars, leadVars, sourceVars, workerVars>>

Open == {"pending", "running"}
Final == {"done", "failed", "skipped", "cancelled"}
Closed == {"done", "failed", "cancelled"}
Tokens == 0 .. MaxAttempts

\* handling: before the handler's own transaction; handled: before completeTask;
\* closing: the transaction of completeTask is open and holds the lock on the row.
Jobs == [w : Workers, t : Tasks, tok : Tokens, at : {"handling", "handled", "closing"},
         found : SUBSET Companies, live : BOOLEAN]

QueueTypeOK ==
  /\ tstatus \in [Tasks -> Open \union Final \union {"absent"}]
  /\ attempts \in [Tasks -> Tokens]
  /\ waiting \in SUBSET Tasks /\ stale \in SUBSET Tasks
  /\ rstatus \in [Runs -> {"absent", "queued", "running"} \union Closed]
  /\ cancelling \in SUBSET Runs
  /\ lead \in [Companies -> Runs \union {NoRun}]
  /\ today \in SUBSET Companies
  /\ cooling \in SUBSET Sources /\ off \in SUBSET Sources
  /\ jobs \in SUBSET Jobs
  /\ inFlight \in [Workers -> [Tasks -> Tokens]]
  /\ life \in [Workers -> {"up", "stopping", "releasing", "down"}]
  /\ release \in [Workers -> [Tasks -> Tokens]]
  /\ stops \in Nat
  /\ tally \in [Tasks -> Nat]

Empty == [t \in Tasks |-> 0]

QueueInit ==
  /\ tstatus = [t \in Tasks |-> "absent"] /\ attempts = Empty
  /\ waiting = {} /\ stale = {} /\ tally = [t \in Tasks |-> 0]
  /\ rstatus = [r \in Runs |-> "absent"] /\ cancelling = {}
  /\ lead = [c \in Companies |-> NoRun] /\ today = {}
  /\ cooling = {} /\ off = {}
  /\ jobs = {} /\ inFlight = [w \in Workers |-> Empty]
  /\ life = [w \in Workers |-> "up"] /\ release = [w \in Workers |-> Empty]
  /\ stops = 0

-----------------------------------------------------------------------------
(* Rows *)

Locked(t) == \E j \in jobs : j.t = t /\ j.at = "closing"
OpenTasks(r) == {t \in Tasks : RunOf(t) = r /\ tstatus[t] \in Open}
Held(w) == {t \in Tasks : inFlight[w][t] # 0}

\* INSERT ... ON CONFLICT DO NOTHING; next_attempt_at is now() by default.
AfterEnqueue(status, S) ==
  [t \in Tasks |-> IF t \in S /\ status[t] = "absent" THEN "pending" ELSE status[t]]

Claimable ==
  {t \in Tasks : /\ tstatus[t] = "pending" /\ t \notin waiting
                 /\ rstatus[RunOf(t)] = "running" /\ SourceOf(t) \notin cooling}

\* Mutant of LeaseHeld: the token alone, without the status of the row.
LeaseByToken(t, tok) == attempts[t] = tok

\* The UPDATEs of completeTask, failTask and releaseTasks test status and token.
LeaseHeld(t, tok) == tstatus[t] = "running" /\ attempts[t] = tok

-----------------------------------------------------------------------------
(* The worker loop *)

\* fillSlots with claimTasks.  SKIP LOCKED: rows another claim has locked are
\* passed over, so any part of the claimable tasks may come back.
Claim(w, S) ==
  /\ life[w] = "up"
  /\ S # {} /\ S \subseteq Claimable
  /\ Cardinality(Held(w)) + Cardinality(S) <= Concurrency
  /\ tstatus' = [t \in Tasks |-> IF t \in S THEN "running" ELSE tstatus[t]]
  /\ attempts' = [t \in Tasks |-> IF t \in S THEN attempts[t] + 1 ELSE attempts[t]]
  /\ stale' = stale \ S
  /\ inFlight' = [inFlight EXCEPT ![w] =
                    [t \in Tasks |-> IF t \in S THEN attempts[t] + 1 ELSE inFlight[w][t]]]
  /\ jobs' = jobs \union {[w |-> w, t |-> t, tok |-> attempts[t] + 1, at |-> "handling",
                           found |-> {}, live |-> FALSE] : t \in S}
  /\ UNCHANGED <<waiting, tally, runVars, leadVars, sourceVars, life, release, stops>>

\* heartbeatTasks: by id and status, whoever holds the lease.
Heartbeat(w) ==
  /\ life[w] = "up"
  /\ \E t \in Held(w) : t \in stale /\ tstatus[t] = "running"
  /\ stale' = stale \ {t \in Held(w) : tstatus[t] = "running"}
  /\ UNCHANGED <<tstatus, attempts, waiting, tally, runVars, leadVars, sourceVars, workerVars>>

\* Five minutes without a heartbeat: the worker is gone, or its loop is held up.
HeartbeatExpires(t) ==
  /\ tstatus[t] = "running" /\ t \notin stale
  /\ stale' = stale \union {t}
  /\ UNCHANGED <<tstatus, attempts, waiting, tally, runVars, leadVars, sourceVars, workerVars>>

BackoffEnds(t) ==
  /\ t \in waiting
  /\ waiting' = waiting \ {t}
  /\ UNCHANGED <<tstatus, attempts, stale, tally, runVars, leadVars, sourceVars, workerVars>>

\* Mutant of RecoverStale: the attempt of a lost task is taken back.
RecoverUncounted(w) ==
  LET lost == {t \in stale : tstatus[t] = "running" /\ ~Locked(t)} IN
  /\ life[w] = "up" /\ lost # {}
  /\ tstatus' = [t \in Tasks |-> IF t \in lost THEN "pending" ELSE tstatus[t]]
  /\ attempts' = [t \in Tasks |-> IF t \in lost THEN attempts[t] - 1 ELSE attempts[t]]
  /\ waiting' = waiting \ lost
  /\ stale' = stale \ lost
  /\ UNCHANGED <<tally, runVars, leadVars, sourceVars, workerVars>>

\* Mutant of RecoverStale: a task out of attempts is left as it is.
RecoverTriesLeft(w) ==
  LET lost == {t \in stale : tstatus[t] = "running" /\ ~Locked(t) /\ attempts[t] < MaxAttempts} IN
  /\ life[w] = "up" /\ lost # {}
  /\ tstatus' = [t \in Tasks |-> IF t \in lost THEN "pending" ELSE tstatus[t]]
  /\ waiting' = waiting \ lost
  /\ stale' = stale \ lost
  /\ UNCHANGED <<attempts, tally, runVars, leadVars, sourceVars, workerVars>>

\* Mutant of RecoverStale: one attempt too many.
RecoverOnceMore(w) ==
  LET lost == {t \in stale : tstatus[t] = "running" /\ ~Locked(t)} IN
  /\ life[w] = "up" /\ lost # {}
  /\ tstatus' = [t \in Tasks |-> IF t \notin lost THEN tstatus[t]
                                 ELSE IF attempts[t] > MaxAttempts THEN "failed" ELSE "pending"]
  /\ waiting' = waiting \ lost
  /\ stale' = stale \ lost
  /\ UNCHANGED <<attempts, tally, runVars, leadVars, sourceVars, workerVars>>

\* recoverStaleTasks: a row under a lock is tested again once the lock is gone.
RecoverStale(w) ==
  LET lost == {t \in stale : tstatus[t] = "running" /\ ~Locked(t)} IN
  /\ life[w] = "up" /\ lost # {}
  /\ tstatus' = [t \in Tasks |-> IF t \notin lost THEN tstatus[t]
                                 ELSE IF attempts[t] >= MaxAttempts THEN "failed" ELSE "pending"]
  /\ waiting' = waiting \ lost
  /\ stale' = stale \ lost
  /\ UNCHANGED <<attempts, tally, runVars, leadVars, sourceVars, workerVars>>

-----------------------------------------------------------------------------
(* processTask: one call is a job *)

\* The end of processTask: the finally clause deletes the map entry by task id.
Ends(j) ==
  /\ jobs' = jobs \ {j}
  /\ inFlight' = [inFlight EXCEPT ![j.w][j.t] = 0]
  /\ UNCHANGED <<life, release, stops>>

Becomes(j, k) ==
  /\ jobs' = (jobs \ {j}) \union {k}
  /\ UNCHANGED <<inFlight, life, release, stops>>

LeadsOf(r) == {c \in Companies : lead[c] = r}

\* Mutant of Room: what the run has already is not counted.
RoomOfDay(r) == DailyLimit - Cardinality(today)

Room(r) ==
  LET inRun == TargetPerRun - Cardinality(LeadsOf(r))
      inDay == DailyLimit - Cardinality(today)
  IN IF inRun < inDay THEN inRun ELSE inDay

\* discover: addLeadsForRun, under the lock of the user, commits new leads as far
\* as there is room; they alone get follow-up tasks.
Discover(j, added) ==
  /\ j.at = "handling" /\ IsDiscover(j.t)
  /\ added \subseteq LeadsOf(NoRun)
  /\ added = {} \/ Cardinality(added) <= Room(RunOf(j.t))
  /\ lead' = [c \in Companies |-> IF c \in added THEN RunOf(j.t) ELSE lead[c]]
  /\ today' = today \union added
  /\ Becomes(j, [j EXCEPT !.at = "handled", !.found = IF Website \in off THEN {} ELSE added])
  /\ UNCHANGED <<taskVars, runVars, sourceVars>>

\* A handler other than discover leaves nothing the queue depends on.
HandlerDone(j) == j.at = "handled" \/ (j.at = "handling" /\ ~IsDiscover(j.t))

\* completeTask: the conditional UPDATE, and the status of the run, read while the
\* transaction is open.
BeginComplete(j) ==
  /\ HandlerDone(j) /\ ~Locked(j.t) /\ LeaseHeld(j.t, j.tok)
  /\ Becomes(j, [j EXCEPT !.at = "closing", !.live = (rstatus[RunOf(j.t)] = "running")])
  /\ UNCHANGED <<taskVars, runVars, leadVars, sourceVars>>

LeaseLost(j) ==
  /\ HandlerDone(j) /\ ~Locked(j.t) /\ ~LeaseHeld(j.t, j.tok)
  /\ Ends(j)
  /\ UNCHANGED <<taskVars, runVars, leadVars, sourceVars>>

FollowUps(j) == IF j.live THEN {RunOf(j.t)} \X j.found ELSE {}

Commit(j) ==
  /\ j.at = "closing"
  /\ tstatus' = AfterEnqueue([tstatus EXCEPT ![j.t] = "done"], FollowUps(j))
  /\ tally' = [tally EXCEPT ![j.t] = @ + 1]
  /\ stale' = stale \ {j.t}
  /\ Ends(j)
  /\ UNCHANGED <<attempts, waiting, runVars, leadVars, sourceVars>>

\* handleTaskError: a block cools the source and skips, an unavailable source or a
\* permanent error skips, every other error (one of completeTask too) is retried.
Errors == {"block", "skip", "retry"}
AfterFailure(j, error) ==
  IF error # "retry" THEN "skipped"
  ELSE IF j.tok < MaxAttempts THEN "pending" ELSE "failed"

Fail(j, error) ==
  /\ j.at = "closing" => error = "retry"
  /\ j.at # "closing" => ~Locked(j.t)
  /\ error = "block" => SourceOf(j.t) \in Blockable
  /\ cooling' = IF error = "block" THEN cooling \union {SourceOf(j.t)} ELSE cooling
  /\ IF LeaseHeld(j.t, j.tok)
     THEN /\ tstatus' = [tstatus EXCEPT ![j.t] = AfterFailure(j, error)]
          /\ waiting' = IF AfterFailure(j, error) = "pending" THEN waiting \union {j.t} ELSE waiting
          /\ stale' = stale \ {j.t}
     ELSE UNCHANGED <<tstatus, waiting, stale>>
  /\ Ends(j)
  /\ UNCHANGED <<attempts, tally, runVars, leadVars, off>>

\* The error itself could not be recorded: the row stays running.
FailureLost(j) ==
  /\ Ends(j)
  /\ UNCHANGED <<taskVars, runVars, leadVars, sourceVars>>

JobStep(j) ==
  \/ \E added \in SUBSET LeadsOf(NoRun) : Discover(j, added)
  \/ BeginComplete(j) \/ LeaseLost(j) \/ Commit(j)
  \/ \E error \in Errors : Fail(j, error)
  \/ FailureLost(j)

-----------------------------------------------------------------------------
(* Shutdown, crash, restart *)

\* SIGTERM: no more claims; the jobs go on for up to 20 seconds.
Stop(w) ==
  /\ life[w] = "up" /\ stops < MaxStops
  /\ life' = [life EXCEPT ![w] = "stopping"]
  /\ stops' = stops + 1
  /\ UNCHANGED <<taskVars, runVars, leadVars, sourceVars, jobs, inFlight, release>>

BeginRelease(w) ==
  /\ life[w] = "stopping" /\ Held(w) # {}
  /\ life' = [life EXCEPT ![w] = "releasing"]
  /\ release' = [release EXCEPT ![w] = inFlight[w]]
  /\ UNCHANGED <<taskVars, runVars, leadVars, sourceVars, jobs, inFlight, stops>>

\* releaseTasks, one UPDATE per task; the jobs still run.
ReleaseTask(w, t) ==
  /\ life[w] = "releasing" /\ release[w][t] # 0 /\ ~Locked(t)
  /\ IF LeaseHeld(t, release[w][t])
     THEN /\ tstatus' = [tstatus EXCEPT ![t] = "pending"]
          /\ attempts' = [attempts EXCEPT ![t] = @ - 1]
          /\ waiting' = waiting \ {t}
          /\ stale' = stale \ {t}
     ELSE UNCHANGED <<tstatus, attempts, waiting, stale>>
  /\ release' = [release EXCEPT ![w][t] = 0]
  /\ UNCHANGED <<tally, runVars, leadVars, sourceVars, jobs, inFlight, life, stops>>

Gone(w) ==
  /\ life' = [life EXCEPT ![w] = "down"]
  /\ jobs' = {j \in jobs : j.w # w}
  /\ inFlight' = [inFlight EXCEPT ![w] = Empty]
  /\ release' = [release EXCEPT ![w] = Empty]
  /\ UNCHANGED <<taskVars, runVars, leadVars, sourceVars>>

\* The pool waits for its clients before the process exits.
Exit(w) ==
  /\ \/ life[w] = "stopping" /\ Held(w) = {}
     \/ life[w] = "releasing" /\ release[w] = Empty
  /\ \A j \in jobs : j.w = w => j.at # "closing"
  /\ Gone(w)
  /\ UNCHANGED stops

\* The process dies; an open transaction is rolled back.
Crash(w) ==
  /\ life[w] # "down" /\ stops < MaxStops
  /\ Gone(w)
  /\ stops' = stops + 1

Restart(w) ==
  /\ life[w] = "down"
  /\ life' = [life EXCEPT ![w] = "up"]
  /\ UNCHANGED <<taskVars, runVars, leadVars, sourceVars, jobs, inFlight, release, stops>>

ShutdownStep(w) == BeginRelease(w) \/ (\E t \in Tasks : ReleaseTask(w, t)) \/ Exit(w) \/ Restart(w)

-----------------------------------------------------------------------------
(* cancelRun: two statements without a transaction *)

CancelRun(r) ==
  /\ rstatus[r] \in {"queued", "running"}
  /\ rstatus' = [rstatus EXCEPT ![r] = "cancelled"]
  /\ cancelling' = cancelling \union {r}
  /\ UNCHANGED <<taskVars, leadVars, sourceVars, workerVars>>

CancelTasks(r) ==
  /\ r \in cancelling
  /\ tstatus' = [t \in Tasks |-> IF RunOf(t) = r /\ tstatus[t] = "pending"
                                 THEN "cancelled" ELSE tstatus[t]]
  /\ cancelling' = cancelling \ {r}
  /\ UNCHANGED <<attempts, waiting, stale, tally, rstatus, leadVars, sourceVars, workerVars>>

-----------------------------------------------------------------------------
(* Sources *)

CooldownEnds(s) ==
  /\ s \in cooling
  /\ cooling' = cooling \ {s}
  /\ UNCHANGED <<taskVars, runVars, leadVars, off, workerVars>>

SetEnabled(s) ==
  /\ off' = IF s \in off THEN off \ {s} ELSE off \union {s}
  /\ UNCHANGED <<taskVars, runVars, leadVars, cooling, workerVars>>

QueueNext ==
  \/ \E w \in Workers : \/ \E S \in SUBSET Claimable : Claim(w, S)
                        \/ Heartbeat(w) \/ RecoverStale(w)
                        \/ Stop(w) \/ Crash(w) \/ ShutdownStep(w)
  \/ \E j \in jobs : JobStep(j)
  \/ \E t \in Tasks : HeartbeatExpires(t) \/ BackoffEnds(t)
  \/ \E r \in Runs : CancelRun(r) \/ CancelTasks(r)
  \/ \E s \in cooling : CooldownEnds(s)
  \/ \E s \in Switchable : SetEnabled(s)
=============================================================================
