---------------------------- MODULE AgentActions ----------------------------
(***************************************************************************)
(* A plan of tool calls of the agent service: the chat turn that runs its  *)
(* safe steps and pauses at the first step that needs approval, the stored *)
(* pending action, the requests that confirm or cancel it, in the memory   *)
(* of the process or in Redis, and the tool calls with their retries.  A   *)
(* risky request of one tool is a plan of one step.                        *)
(***************************************************************************)
EXTENDS Integers, Sequences, FiniteSets

CONSTANTS
  Stores,       \* what createPendingActionStore may pick: "memory", "redis"
  Plans,        \* plans of the planner, sequences of tools
  Confirms,     \* POST /api/agent/confirm
  Cancels,      \* POST /api/agent/cancel
  Chat,         \* the chat turn
  MaxAttempts,  \* maxAttempts of McpToolCallerService.call
  MaxFaults     \* bound on lost answers, refused tokens and failing writes to Redis

Tools == {"create_campaign", "start_campaign", "pause_campaign", "get_campaign_stats"}

ASSUME AgentActionsAssumption ==
  /\ Stores \subseteq {"memory", "redis"}
  /\ Plans \subseteq Seq(Tools) /\ \A p \in Plans : Len(p) <= 3
  /\ Confirms \intersect Cancels = {} /\ Chat \notin Confirms \union Cancels
  /\ IsFiniteSet(Confirms) /\ IsFiniteSet(Cancels)
  /\ MaxAttempts \in Nat \ {0} /\ MaxFaults \in Nat

Requests == Confirms \union Cancels
Runners == Requests \union {Chat}
RequiresApproval(tool) == tool \in {"start_campaign", "pause_campaign"}
NeedsCampaign(tool) == tool \in {"start_campaign", "pause_campaign", "get_campaign_stats"}

VARIABLES
  store,      \* the store picked at start-up
  plan,       \* the plan of the turn
  record,     \* status of the stored action, "none" before create, "gone" after eviction
  age,        \* its expiresAt: "fresh", "overdue", or "evicted" by Redis
  pausedAt,   \* planContext.pausedStepIndex, 0 without one
  target,     \* localActiveCampaignId: the session's own, none, or the one just created
  runner,     \* where each request is
  faults,
  effects,    \* history: how often a step took effect at the backend
  lost,       \* history: calls of a step whose answer was lost
  late,       \* of these, the calls the backend may still carry out
  approvals,  \* history: confirm requests that were let through
  started,    \* history: campaigns a start was aimed at
  refusals,   \* history: create_campaign answered success: false
  failed      \* history: steps that ended in an error

storeVars == <<record, age, pausedAt>>
effectVars == <<effects, lost, late>>
historyVars == <<approvals, started, refusals, failed>>
actionVars == <<store, plan, storeVars, target, runner, faults, effectVars, historyVars>>

Steps == 1 .. 3  \* MAX_PLAN_STEPS
Statuses == {"none", "pending", "confirmed", "cancelled", "expired", "executed", "gone"}
Places == {"idle", "read", "step", "call", "mark", "refused", "done", "stopped", "thrown"}

\* Where a request can be: its place, its step, the calls made for it, and what it will write.
RunnerRecords == [at : Places, step : 0 .. Len(plan) + 1, tries : 0 .. MaxAttempts, write : Statuses]

RunnerTypes == runner \in [Runners -> RunnerRecords]

StoreTypes ==
  /\ store \in Stores /\ plan \in Plans
  /\ record \in Statuses /\ age \in {"fresh", "overdue", "evicted"}
  /\ pausedAt \in 0 .. Len(plan)
  /\ target \in {"session", "none", "new"}
  /\ faults \in 0 .. MaxFaults

EffectTypes ==
  /\ effects \in [Steps -> Nat] /\ lost \in [Steps -> Nat] /\ late \in [Steps -> Nat]
  /\ approvals \in SUBSET Confirms
  /\ started \in SUBSET {"session", "new", "none"} /\ refusals \in BOOLEAN
  /\ failed \in SUBSET Steps

\* Types of the variables.
ActionTypeOK == StoreTypes /\ RunnerTypes /\ EffectTypes

ActionInit ==
  /\ store \in Stores /\ plan \in Plans
  /\ record = "none" /\ age = "fresh" /\ pausedAt = 0
  /\ target \in {"session", "none"}
  /\ runner = [r \in Runners |->
       [at |-> IF r = Chat THEN "step" ELSE "idle", step |-> IF r = Chat THEN 1 ELSE 0,
        tries |-> 0, write |-> "none"]]
  /\ faults = 0
  /\ effects = [s \in Steps |-> 0] /\ lost = [s \in Steps |-> 0] /\ late = [s \in Steps |-> 0]
  /\ approvals = {} /\ started = {} /\ refusals = FALSE /\ failed = {}

Go(r, place) == runner' = [runner EXCEPT ![r].at = place]
At(r, place) == runner[r].at = place
Tool(r) == plan[runner[r].step]
Fault == faults < MaxFaults /\ faults' = faults + 1
Dispatch(r, step) == runner' = [runner EXCEPT ![r].at = "call", ![r].step = step, ![r].tries = 1]

-----------------------------------------------------------------------------
(* The chat turn: executePlanStepNode *)

\* TRUE when the turn has no campaign to give to a step that needs one.
Unresolved(tool) == NeedsCampaign(tool) /\ target = "none"

PausesBefore(step) == RequiresApproval(plan[step])

\* A safe step is dispatched, the first risky one stored and asked about.
TurnStep ==
  /\ At(Chat, "step") /\ runner[Chat].step <= Len(plan)
  /\ \/ /\ Unresolved(Tool(Chat))
        /\ Go(Chat, "stopped")
        /\ UNCHANGED <<storeVars, faults>>
     \/ /\ ~Unresolved(Tool(Chat)) /\ ~PausesBefore(runner[Chat].step)
        /\ Dispatch(Chat, runner[Chat].step)
        /\ UNCHANGED <<storeVars, faults>>
     \/ /\ ~Unresolved(Tool(Chat)) /\ PausesBefore(runner[Chat].step)
        /\ \/ /\ record' = "pending" /\ UNCHANGED faults
           \/ /\ store = "redis" /\ Fault /\ UNCHANGED record
        /\ pausedAt' = runner[Chat].step
        /\ Go(Chat, "done")
        /\ UNCHANGED age
     \/ \* get_recipient_count answered 0
        /\ ~Unresolved(Tool(Chat)) /\ Tool(Chat) = "start_campaign"
        /\ Go(Chat, "stopped")
        /\ UNCHANGED <<storeVars, faults>>
  /\ UNCHANGED <<store, plan, target, effectVars, historyVars>>

TurnEnd ==
  /\ At(Chat, "step") /\ runner[Chat].step > Len(plan)
  /\ Go(Chat, "done")
  /\ UNCHANGED <<store, plan, storeVars, target, faults, effectVars, historyVars>>

-----------------------------------------------------------------------------
(* The pending action: validate, confirm, cancel, markExecuted *)

Missing == record \in {"none", "gone"}

\* Mutant of Acceptable: the status is not looked at.
AcceptableWhenFresh == ~Missing

\* What validate lets pass, an action that is overdue included: it is marked expired.
Acceptable == ~Missing /\ (age # "fresh" \/ record = "pending")

\* What the request is going to write.
Verdict(r) ==
  IF age # "fresh" THEN "expired" ELSE IF r \in Confirms THEN "confirmed" ELSE "cancelled"

\* Mutant of Settle: the plan is run again from its first step.
SettleFromFirst(r, status) ==
  IF status = "confirmed"
    THEN /\ approvals' = approvals \union {r}
         /\ runner' = [runner EXCEPT ![r] = [at |-> "call", step |-> 1, tries |-> 1,
                                             write |-> status]]
    ELSE /\ UNCHANGED approvals
         /\ runner' = [runner EXCEPT ![r] = [@ EXCEPT !.write = status,
                         !.at = IF status = "expired" THEN "refused" ELSE "done"]]

\* After the write of a request: a confirmed action runs from its paused step.
Settle(r, status) ==
  IF status = "confirmed"
    THEN /\ approvals' = approvals \union {r}
         /\ runner' = [runner EXCEPT ![r] = [at |-> "call", step |-> pausedAt, tries |-> 1,
                                             write |-> status]]
    ELSE /\ UNCHANGED approvals
         /\ runner' = [runner EXCEPT ![r] = [@ EXCEPT !.write = status,
                         !.at = IF status = "expired" THEN "refused" ELSE "done"]]

\* The action lives in the process: between the check and the assignment nothing else runs.
DecideInMemory(r) ==
  /\ store = "memory" /\ At(r, "idle") /\ pausedAt # 0 /\ Acceptable
  /\ record' = Verdict(r)
  /\ Settle(r, Verdict(r))
  /\ UNCHANGED <<store, plan, age, pausedAt, target, faults, effectVars, started, refusals, failed>>

\* RedisPendingActionStore: GET in one request, SET in a later one.
ReadRedis(r) ==
  /\ store = "redis" /\ At(r, "idle") /\ pausedAt # 0 /\ Acceptable
  /\ runner' = [runner EXCEPT ![r].at = "read", ![r].write = Verdict(r)]
  /\ UNCHANGED <<store, plan, storeVars, target, faults, effectVars, historyVars>>

WriteRedis(r) ==
  /\ At(r, "read")
  /\ \/ record' = runner[r].write /\ UNCHANGED faults
     \/ Fault /\ UNCHANGED record
  /\ Settle(r, runner[r].write)
  /\ UNCHANGED <<store, plan, age, pausedAt, target, effectVars, started, refusals, failed>>

\* 404 and 409; a read of Redis that fails is a missing action.
Refuse(r) ==
  /\ At(r, "idle") /\ pausedAt # 0
  /\ \/ ~Acceptable /\ UNCHANGED faults
     \/ store = "redis" /\ Fault
  /\ Go(r, "refused")
  /\ UNCHANGED <<store, plan, storeVars, target, effectVars, historyVars>>

MarkExecuted(r) ==
  /\ At(r, "mark")
  /\ \/ record' = (IF Missing THEN record ELSE "executed") /\ UNCHANGED faults
     \/ store = "redis" /\ Fault /\ UNCHANGED record
  /\ Go(r, "done")
  /\ UNCHANGED <<store, plan, age, pausedAt, target, effectVars, historyVars>>

\* The action's time is over; Redis drops the key soon after.
PassDeadline ==
  /\ pausedAt # 0 /\ age = "fresh"
  /\ age' = "overdue"
  /\ UNCHANGED <<store, plan, record, pausedAt, target, runner, faults, effectVars, historyVars>>

Evict ==
  /\ store = "redis" /\ age = "overdue"
  /\ age' = "evicted" /\ record' = IF record = "none" THEN record ELSE "gone"
  /\ UNCHANGED <<store, plan, pausedAt, target, runner, faults, effectVars, historyVars>>

-----------------------------------------------------------------------------
(* A tool call: executeFromState and McpToolCallerService.call *)

AfterAnswer(r) ==
  LET next == runner[r].step + 1 IN
  IF r = Chat
    THEN runner' = [runner EXCEPT ![r].at = "step", ![r].step = next]
    ELSE IF next > Len(plan) THEN Go(r, "mark") ELSE Dispatch(r, next)

\* Mutant of AfterFailure: only a success is marked.
LeaveUnmarked(r) == Go(r, IF r = Chat THEN "stopped" ELSE "done")

\* patch.error ends the turn, or resumePlan and the confirm request after it.
AfterFailure(r) == Go(r, IF r = Chat THEN "stopped" ELSE "mark")

\* The paused step carries the turn's target; a later start, the campaign the planner named.
TakeEffect(step) ==
  /\ effects' = [effects EXCEPT ![step] = @ + 1]
  /\ started' = IF step = pausedAt /\ plan[step] = "start_campaign"
                THEN started \union {target} ELSE started

\* A campaign created in the turn is the target of its later steps.
CaptureCreated(r) ==
  target' = IF r = Chat /\ Tool(r) = "create_campaign" THEN "new" ELSE target

AnswerOk(r) ==
  /\ At(r, "call")
  /\ TakeEffect(runner[r].step)
  /\ CaptureCreated(r)
  /\ AfterAnswer(r)
  /\ UNCHANGED <<store, plan, storeVars, faults, lost, late, approvals, refusals, failed>>

\* isToolError, or { success: false }: a result like any other, and the plan goes on.
AnswerNo(r) ==
  /\ At(r, "call")
  /\ refusals' = (refusals \/ Tool(r) = "create_campaign")
  /\ AfterAnswer(r)
  /\ UNCHANGED <<store, plan, storeVars, target, faults, effectVars, approvals, started, failed>>

\* An error that is not transient, or one before the tool is sent.
CallFails(r) ==
  /\ At(r, "call")
  /\ AfterFailure(r)
  /\ failed' = failed \union {runner[r].step}
  /\ UNCHANGED <<store, plan, storeVars, target, faults, effectVars, approvals, started, refusals>>

CanRetry(r) == runner[r].tries < MaxAttempts

\* A timeout: the call may still reach the backend, and is sent again.
LoseAnswer(r) ==
  /\ At(r, "call") /\ Fault
  /\ lost' = [lost EXCEPT ![runner[r].step] = @ + 1]
  /\ late' = [late EXCEPT ![runner[r].step] = @ + 1]
  /\ IF CanRetry(r)
       THEN runner' = [runner EXCEPT ![r].tries = @ + 1] /\ UNCHANGED failed
       ELSE AfterFailure(r) /\ failed' = failed \union {runner[r].step}
  /\ UNCHANGED <<store, plan, storeVars, target, effects, approvals, started, refusals>>

InCall(r, step) == At(r, "call") /\ runner[r].step = step

LateEffect(step) ==
  /\ late[step] > 0
  /\ late' = [late EXCEPT ![step] = @ - 1]
  /\ TakeEffect(step)
  /\ UNCHANGED <<store, plan, storeVars, target, runner, faults, lost, approvals, refusals, failed>>

\* An auth error leaves the handler at once: a confirmed action is never marked.
TokenRefused(r) ==
  /\ At(r, "call") /\ Fault
  /\ Go(r, "thrown")
  /\ UNCHANGED <<store, plan, storeVars, target, effectVars, historyVars>>

\* The process ends: its requests with it, and the memory store.
Crash ==
  /\ Fault
  /\ runner' = [r \in Runners |-> IF runner[r].at \in {"read", "step", "call", "mark"}
                                 THEN [runner[r] EXCEPT !.at = "thrown"] ELSE runner[r]]
  /\ lost' = [s \in Steps |-> lost[s] + Cardinality({r \in Runners : InCall(r, s)})]
  /\ late' = [s \in Steps |-> late[s] + Cardinality({r \in Runners : InCall(r, s)})]
  /\ record' = IF store = "memory" /\ record # "none" THEN "gone" ELSE record
  /\ UNCHANGED <<store, plan, age, pausedAt, target, effects, historyVars>>

Call(r) ==
  AnswerOk(r) \/ AnswerNo(r) \/ CallFails(r) \/ LoseAnswer(r) \/ TokenRefused(r)
RequestStep(r) ==
  DecideInMemory(r) \/ ReadRedis(r) \/ WriteRedis(r) \/ Refuse(r) \/ MarkExecuted(r)

ActionNext ==
  \/ TurnStep \/ TurnEnd \/ PassDeadline \/ Evict \/ Crash
  \/ \E r \in Runners : Call(r)
  \/ \E r \in Requests : RequestStep(r)
  \/ \E s \in Steps : LateEffect(s)

ActionSpec == ActionInit /\ [][ActionNext]_actionVars

\* What a request does once it has begun, and its process therefore finishes.
TurnRuns == TurnStep \/ TurnEnd
RequestRuns(r) == WriteRedis(r) \/ MarkExecuted(r)

-----------------------------------------------------------------------------
(* Properties *)

\* One approval at most is acted upon when the store is the memory of the process, whatever
\* requests race: "prevents double-execution".
ApprovedOnce == store = "memory" => Cardinality(approvals) <= 1

\* How often a step is run: before the pause by the turn, after it by each approval.
Runs(step) == IF pausedAt # 0 /\ step >= pausedAt THEN Cardinality(approvals) ELSE 1

\* A step takes effect more often than it is run only for calls whose answer was lost.
RepeatsAreLostAnswers == \A s \in Steps : effects[s] + late[s] <= Runs(s) + lost[s]

\* No risky step reaches the backend without an approval of its plan, and an action that was
\* cancelled in memory has done nothing at all.
RiskNeedsApproval ==
  /\ \A s \in 1 .. Len(plan) :
       RequiresApproval(plan[s]) /\ effects[s] + late[s] > 0 => approvals # {}
  /\ store = "memory" /\ record = "cancelled" => approvals = {}

\* Nothing of a plan is done after a step that ended in an error, in the turn or in the
\* request of its one approval.
NothingAfterFailure ==
  Cardinality(approvals) <= 1 =>
    \A s \in failed, t \in Steps : t > s => effects[t] + late[t] = 0

\* A plan that created a campaign starts that one and not the campaign of the session,
\* unless the backend refused to create it.
StartsWhatItCreated ==
  "session" \in started /\ (\E s \in 1 .. pausedAt : plan[s] = "create_campaign") => refusals

\* The store and the pause together: nothing risky happens without one approval.
ApprovalHolds == ApprovedOnce /\ RiskNeedsApproval

\* The steps of a plan take effect in their order, as often as they are run and on the
\* campaign they are about.
PlanStepsHold == RepeatsAreLostAnswers /\ NothingAfterFailure /\ StartsWhatItCreated

\* A confirmed action in memory ends as executed (or lost to a crash, or overdue), unless
\* its request was thrown out by an auth error.
ConfirmedEnds ==
  store = "memory" /\ record = "confirmed"
    ~> record # "confirmed" \/ \E r \in Confirms : At(r, "thrown")

\* What planExecution.service.ts says of a resumed plan: after the confirmed step it runs
\* the safe steps that follow, so no risky step runs but the one asked about.
EachRiskIsAskedFor ==
  \A s \in 1 .. Len(plan) :
    RequiresApproval(plan[s]) /\ s # pausedAt => effects[s] + late[s] = 0
=============================================================================
