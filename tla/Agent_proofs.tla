---------------------------- MODULE Agent_proofs ----------------------------
(***************************************************************************)
(* The two conversations of the agent service.  A plan: no risky step      *)
(* without an approval, and the steps in their order as often as they are  *)
(* run, proved for every number of requests, retries, faults and every set *)
(* of plans of at most three steps.  The wizard: it and the system agree,  *)
(* proved for every number of overlapping turns of a session, of           *)
(* campaigns, and of troubles with the tools.                              *)
(***************************************************************************)
EXTENDS MCAgent, FiniteSetTheorems, TLAPS

-----------------------------------------------------------------------------
(* Types, and where the turn and the requests can be *)

\* The turn and the stored action: nothing is stored while the turn runs its safe steps, and
\* the step it pauses at is the first risky one.
TurnInv ==
  /\ pausedAt = 0 => /\ record = "none" /\ age = "fresh" /\ approvals = {} /\ started = {}
                     /\ \A r \in Requests : At(r, "idle")
  /\ pausedAt # 0 => /\ runner[Chat].step = pausedAt /\ pausedAt \in 1 .. Len(plan)
                     /\ RequiresApproval(plan[pausedAt]) /\ ~At(Chat, "step") /\ ~At(Chat, "call")
  /\ At(Chat, "call") =>
       runner[Chat].step \in 1 .. Len(plan) /\ ~RequiresApproval(plan[runner[Chat].step])
  /\ runner[Chat].step # 0 /\ ~At(Chat, "mark") /\ ~At(Chat, "read") /\ ~At(Chat, "idle")

\* A request calls tools only after its approval, from the paused step on.
RequestInv ==
  /\ \A r \in Requests :
       /\ At(r, "call") => r \in approvals /\ runner[r].step \in 1 .. Len(plan)
       /\ At(r, "read") =>
            store = "redis" /\ runner[r].write \in {"expired", "confirmed", "cancelled"}
       /\ At(r, "read") /\ runner[r].write = "confirmed" => r \in Confirms
       /\ ~At(r, "step")
  /\ \A r \in approvals : ~At(r, "idle") /\ ~At(r, "read") /\ runner[r].step >= pausedAt

PlacesInv == ActionTypeOK /\ TurnInv /\ RequestInv

\* Plans have at most three steps.
LEMMA PlanFacts ==
  ASSUME StoreTypes
  PROVE  /\ Len(plan) \in 0 .. 3 /\ 1 .. Len(plan) \subseteq Steps
         /\ \A s \in 1 .. Len(plan) : plan[s] \in Tools
<1>1. plan \in Seq(Tools) /\ Len(plan) <= 3
  BY AgentActionsAssumption DEF StoreTypes
<1>2. Len(plan) \in Nat /\ \A s \in 1 .. Len(plan) : plan[s] \in Tools
  <2> HIDE DEF Tools
  <2> QED
    BY <1>1
<1>3. \A n \in Nat : n <= 3 => n \in 0 .. 3 /\ 1 .. n \subseteq Steps
  BY DEF Steps
<1> QED
  BY <1>1, <1>2, <1>3

LEMMA RunnersFinite == IsFiniteSet(Runners) /\ \A S \in SUBSET Runners : IsFiniteSet(S) /\ Cardinality(S) \in Nat
<1>1. IsFiniteSet(Runners)
  BY AgentActionsAssumption, FS_Union, FS_AddElement DEF Runners, Requests
<1> QED
  BY <1>1, FS_Subset, FS_CardinalityType

LEMMA PlacesInit == ActionInit => PlacesInv
<1> SUFFICES ASSUME ActionInit PROVE PlacesInv
  OBVIOUS
<1>1. StoreTypes
  BY AgentActionsAssumption DEF ActionInit, StoreTypes, Statuses
<1>2. RunnerTypes
  <2>1. /\ {"step", "idle"} \subseteq Places /\ {0, 1} \subseteq 0 .. Len(plan) + 1 /\ "none" \in Statuses
        /\ 0 \in 0 .. MaxAttempts
    BY <1>1, PlanFacts, AgentActionsAssumption DEF Places, Statuses
  <2> QED
    BY <2>1 DEF ActionInit, RunnerTypes, RunnerRecords
<1>3. EffectTypes
  BY DEF ActionInit, EffectTypes
<1>4. TurnInv /\ RequestInv
  BY AgentActionsAssumption DEF ActionInit, TurnInv, RequestInv, At, Runners, Requests
<1> QED
  BY <1>1, <1>2, <1>3, <1>4 DEF PlacesInv, ActionTypeOK

LEMMA StoreTypesStay ==
  ASSUME PlacesInv, [ActionNext]_actionVars
  PROVE  StoreTypes'
<1> USE AgentActionsAssumption DEF PlacesInv, ActionTypeOK, StoreTypes, storeVars, effectVars, historyVars
<1>p. /\ {"none", "pending", "confirmed", "cancelled", "expired", "executed", "gone"} \subseteq Statuses
      /\ Len(plan) \in 0 .. 3
  BY PlanFacts DEF Statuses, PlacesInv, ActionTypeOK
<1>1. CASE TurnStep
  BY <1>1, <1>p DEF TurnStep, Fault, RunnerTypes, RunnerRecords, Runners
<1>2. CASE TurnEnd
  BY <1>2, <1>p DEF TurnEnd
<1>3. CASE PassDeadline
  BY <1>3, <1>p DEF PassDeadline
<1>4. CASE Evict
  BY <1>4, <1>p DEF Evict
<1>5. CASE Crash
  BY <1>5, <1>p DEF Crash, Fault
<1>6. ASSUME NEW r \in Runners, AnswerOk(r)
      PROVE  StoreTypes'
  BY <1>6, <1>p DEF AnswerOk, CaptureCreated
<1>7. ASSUME NEW r \in Runners, AnswerNo(r)
      PROVE  StoreTypes'
  BY <1>7, <1>p DEF AnswerNo
<1>8. ASSUME NEW r \in Runners, CallFails(r)
      PROVE  StoreTypes'
  BY <1>8, <1>p DEF CallFails
<1>9. ASSUME NEW r \in Runners, LoseAnswer(r)
      PROVE  StoreTypes'
  BY <1>9, <1>p DEF LoseAnswer, Fault, CanRetry
<1>10. ASSUME NEW r \in Runners, TokenRefused(r)
       PROVE  StoreTypes'
  BY <1>10, <1>p DEF TokenRefused, Fault
<1>11. ASSUME NEW r \in Requests, DecideInMemory(r)
       PROVE  StoreTypes'
  BY <1>11, <1>p DEF DecideInMemory, Settle, Verdict
<1>12. ASSUME NEW r \in Requests, ReadRedis(r)
       PROVE  StoreTypes'
  BY <1>12, <1>p DEF ReadRedis
<1>13. ASSUME NEW r \in Requests, WriteRedis(r)
       PROVE  StoreTypes'
  BY <1>13, <1>p DEF WriteRedis, Settle, Fault, Settle, RequestInv
<1>14. ASSUME NEW r \in Requests, Refuse(r)
       PROVE  StoreTypes'
  BY <1>14, <1>p DEF Refuse, Fault
<1>15. ASSUME NEW r \in Requests, MarkExecuted(r)
       PROVE  StoreTypes'
  BY <1>15, <1>p DEF MarkExecuted, Fault
<1>16. ASSUME NEW s \in Steps, LateEffect(s)
       PROVE  StoreTypes'
  BY <1>16, <1>p DEF LateEffect
<1>17. CASE UNCHANGED actionVars
  BY <1>17, <1>p DEF actionVars
<1> QED
  BY <1>1, <1>2, <1>3, <1>4, <1>5, <1>6, <1>7, <1>8, <1>9, <1>10, <1>11, <1>12, <1>13, <1>14,
      <1>15, <1>16, <1>17 DEF ActionNext, Call, RequestStep

LEMMA EffectTypesStay ==
  ASSUME PlacesInv, [ActionNext]_actionVars
  PROVE  EffectTypes'
<1> USE AgentActionsAssumption DEF PlacesInv, ActionTypeOK, EffectTypes, storeVars, effectVars, historyVars
<1>p. /\ 1 .. Len(plan) \subseteq Steps /\ target \in {"session", "new", "none"}
      /\ \A r \in Runners : At(r, "call") => runner[r].step \in 1 .. Len(plan)
  BY PlanFacts DEF PlacesInv, ActionTypeOK, StoreTypes, TurnInv, RequestInv, Runners
<1>1. CASE TurnStep
  BY <1>1, <1>p DEF TurnStep
<1>2. CASE TurnEnd
  BY <1>2, <1>p DEF TurnEnd
<1>3. CASE PassDeadline
  BY <1>3, <1>p DEF PassDeadline
<1>4. CASE Evict
  BY <1>4, <1>p DEF Evict
<1>5. CASE Crash
  <2> DEFINE inCall(s) == Cardinality({r \in Runners : InCall(r, s)})
  <2>1. \A s \in Steps : inCall(s) \in Nat
    BY RunnersFinite
  <2>2. /\ lost' = [s \in Steps |-> lost[s] + inCall(s)] /\ late' = [s \in Steps |-> late[s] + inCall(s)]
        /\ UNCHANGED <<effects, historyVars>>
    BY <1>5 DEF Crash
  <2> HIDE DEF inCall
  <2> QED
    BY <2>1, <2>2
<1>6. ASSUME NEW r \in Runners, AnswerOk(r)
      PROVE  EffectTypes'
  BY <1>6, <1>p DEF AnswerOk, TakeEffect, CaptureCreated
<1>7. ASSUME NEW r \in Runners, AnswerNo(r)
      PROVE  EffectTypes'
  BY <1>7, <1>p DEF AnswerNo
<1>8. ASSUME NEW r \in Runners, CallFails(r)
      PROVE  EffectTypes'
  BY <1>8, <1>p DEF CallFails
<1>9. ASSUME NEW r \in Runners, LoseAnswer(r)
      PROVE  EffectTypes'
  BY <1>9, <1>p DEF LoseAnswer, CanRetry
<1>10. ASSUME NEW r \in Runners, TokenRefused(r)
       PROVE  EffectTypes'
  BY <1>10, <1>p DEF TokenRefused
<1>11. ASSUME NEW r \in Requests, DecideInMemory(r)
       PROVE  EffectTypes'
  BY <1>11, <1>p DEF DecideInMemory, Settle, Verdict
<1>12. ASSUME NEW r \in Requests, ReadRedis(r)
       PROVE  EffectTypes'
  BY <1>12, <1>p DEF ReadRedis
<1>13. ASSUME NEW r \in Requests, WriteRedis(r)
       PROVE  EffectTypes'
  BY <1>13, <1>p DEF WriteRedis, Settle, RequestInv
<1>14. ASSUME NEW r \in Requests, Refuse(r)
       PROVE  EffectTypes'
  BY <1>14, <1>p DEF Refuse
<1>15. ASSUME NEW r \in Requests, MarkExecuted(r)
       PROVE  EffectTypes'
  BY <1>15, <1>p DEF MarkExecuted
<1>16. ASSUME NEW s \in Steps, LateEffect(s)
       PROVE  EffectTypes'
  BY <1>16, <1>p DEF LateEffect, TakeEffect
<1>17. CASE UNCHANGED actionVars
  BY <1>17, <1>p DEF actionVars
<1> QED
  BY <1>1, <1>2, <1>3, <1>4, <1>5, <1>6, <1>7, <1>8, <1>9, <1>10, <1>11, <1>12, <1>13, <1>14,
      <1>15, <1>16, <1>17 DEF ActionNext, Call, RequestStep

\* Where a request can go.
LEMMA RunnerMoves ==
  ASSUME RunnerTypes, StoreTypes, NEW r \in Runners
  PROVE  /\ \A q \in RunnerRecords : [runner EXCEPT ![r] = q] \in [Runners -> RunnerRecords]
         /\ \A place \in Places : Go(r, place) => runner' \in [Runners -> RunnerRecords]
         /\ \A step \in 0 .. Len(plan) + 1 : Dispatch(r, step) => runner' \in [Runners -> RunnerRecords]
         /\ \A status \in Statuses : Settle(r, status) => runner' \in [Runners -> RunnerRecords]
<1>1. /\ {"idle", "read", "step", "call", "mark", "refused", "done", "stopped", "thrown"} \subseteq Places
      /\ 1 \in 0 .. MaxAttempts
  BY AgentActionsAssumption DEF Places
<1>2. \A q \in RunnerRecords : [runner EXCEPT ![r] = q] \in [Runners -> RunnerRecords]
  BY DEF RunnerTypes
<1>3. ASSUME NEW place \in Places, Go(r, place)
      PROVE  runner' \in [Runners -> RunnerRecords]
  <2>1. [runner[r] EXCEPT !.at = place] \in RunnerRecords
    BY DEF RunnerTypes, RunnerRecords
  <2>2. runner' = [runner EXCEPT ![r] = [runner[r] EXCEPT !.at = place]]
    BY <1>3 DEF Go
  <2> QED
    BY <1>2, <2>1, <2>2
<1>4. ASSUME NEW step \in 0 .. Len(plan) + 1, Dispatch(r, step)
      PROVE  runner' \in [Runners -> RunnerRecords]
  <2>1. [runner[r] EXCEPT !.at = "call", !.step = step, !.tries = 1] \in RunnerRecords
    BY <1>1 DEF RunnerTypes, RunnerRecords
  <2>2. runner' = [runner EXCEPT ![r] = [runner[r] EXCEPT !.at = "call", !.step = step, !.tries = 1]]
    BY <1>4 DEF Dispatch
  <2> QED
    BY <1>2, <2>1, <2>2
<1>5. ASSUME NEW status \in Statuses, Settle(r, status)
      PROVE  runner' \in [Runners -> RunnerRecords]
  <2>1. CASE status = "confirmed"
    <3>1. pausedAt \in 0 .. Len(plan) + 1
      BY PlanFacts DEF StoreTypes
    <3>2. [at |-> "call", step |-> pausedAt, tries |-> 1, write |-> status] \in RunnerRecords
      BY <1>1, <3>1 DEF RunnerRecords
    <3> QED
      BY <1>2, <1>5, <2>1, <3>2 DEF Settle
  <2>2. CASE status # "confirmed"
    <3>1. \A place \in Places : [runner[r] EXCEPT !.write = status, !.at = place] \in RunnerRecords
      BY DEF RunnerTypes, RunnerRecords
    <3>2. runner' = [runner EXCEPT ![r] = [runner[r] EXCEPT !.write = status,
                       !.at = IF status = "expired" THEN "refused" ELSE "done"]]
      BY <1>5, <2>2 DEF Settle
    <3> QED
      BY <1>1, <1>2, <3>1, <3>2
  <2> QED
    BY <2>1, <2>2
<1> QED
  BY <1>2, <1>3, <1>4, <1>5

LEMMA PlanStays ==
  ASSUME [ActionNext]_actionVars
  PROVE  plan' = plan /\ store' = store
BY DEF ActionNext, Call, RequestStep, actionVars,
       TurnStep, TurnEnd, PassDeadline, Evict, Crash, AnswerOk, AnswerNo, CallFails,
       LoseAnswer, TokenRefused, DecideInMemory, ReadRedis, WriteRedis, Refuse,
       MarkExecuted, LateEffect

LEMMA RunnerTypesStay ==
  ASSUME PlacesInv, [ActionNext]_actionVars
  PROVE  RunnerTypes'
<1> USE AgentActionsAssumption DEF PlacesInv, ActionTypeOK
<1>p. /\ {"idle", "read", "step", "call", "mark", "refused", "done", "stopped", "thrown"} \subseteq Places
      /\ {"confirmed", "cancelled", "expired"} \subseteq Statuses
      /\ Len(plan) \in 0 .. 3 /\ plan' = plan /\ runner \in [Runners -> RunnerRecords]
  BY PlanFacts, PlanStays DEF Places, Statuses, RunnerTypes
<1>q. runner' \in [Runners -> RunnerRecords] => RunnerTypes'
  BY <1>p DEF RunnerTypes, RunnerRecords
<1>r. /\ Chat \in Runners /\ Requests \subseteq Runners
      /\ \A r \in Runners : At(r, "call") => runner[r].step \in 1 .. Len(plan)
  BY DEF Runners, TurnInv, RequestInv
<1>s. ASSUME NEW r \in Runners, At(r, "call"), AfterAnswer(r)
      PROVE  runner' \in [Runners -> RunnerRecords]
  <2>1. runner[r].step + 1 \in 0 .. Len(plan) + 1
    BY <1>p, <1>r, <1>s
  <2>2. [runner[r] EXCEPT !.at = "step", !.step = runner[r].step + 1] \in RunnerRecords
    BY <1>p, <2>1 DEF RunnerRecords
  <2>3. CASE r = Chat
    <3>1. runner' = [runner EXCEPT ![r] = [runner[r] EXCEPT !.at = "step", !.step = runner[r].step + 1]]
      BY <1>s, <2>3 DEF AfterAnswer
    <3> QED
      BY <2>2, <3>1, RunnerMoves
  <2>4. CASE r # Chat
    BY <1>p, <1>s, <2>1, <2>4, RunnerMoves DEF AfterAnswer
  <2> QED
    BY <2>3, <2>4
<1>1. CASE TurnStep
  <2>1. runner[Chat].step \in 0 .. Len(plan) + 1
    BY <1>p, <1>r DEF RunnerRecords
  <2> QED
    BY <1>1, <1>p, <1>q, <1>r, <2>1, RunnerMoves DEF TurnStep
<1>2. CASE TurnEnd
  BY <1>2, <1>p, <1>q, <1>r, RunnerMoves DEF TurnEnd
<1>3. CASE PassDeadline
  BY <1>3, <1>p, <1>q DEF PassDeadline
<1>4. CASE Evict
  BY <1>4, <1>p, <1>q DEF Evict
<1>5. CASE Crash
  <2>1. \A r \in Runners : [runner[r] EXCEPT !.at = "thrown"] \in RunnerRecords
    BY <1>p DEF RunnerRecords
  <2> QED
    BY <1>5, <1>p, <1>q, <2>1 DEF Crash
<1>6. ASSUME NEW r \in Runners, AnswerOk(r)
      PROVE  RunnerTypes'
  BY <1>6, <1>q, <1>s DEF AnswerOk
<1>7. ASSUME NEW r \in Runners, AnswerNo(r)
      PROVE  RunnerTypes'
  BY <1>7, <1>q, <1>s DEF AnswerNo
<1>8. ASSUME NEW r \in Runners, CallFails(r)
      PROVE  RunnerTypes'
  BY <1>8, <1>p, <1>q, <1>r, RunnerMoves DEF CallFails, AfterFailure
<1>9. ASSUME NEW r \in Runners, LoseAnswer(r)
      PROVE  RunnerTypes'
  <2>1. CASE CanRetry(r)
    <3>1. [runner[r] EXCEPT !.tries = runner[r].tries + 1] \in RunnerRecords
      BY <1>p, <2>1 DEF RunnerRecords, CanRetry
    <3>2. runner' = [runner EXCEPT ![r] = [runner[r] EXCEPT !.tries = runner[r].tries + 1]]
      BY <1>9, <2>1 DEF LoseAnswer
    <3> QED
      BY <1>q, <3>1, <3>2, RunnerMoves
  <2>2. CASE ~CanRetry(r)
    BY <1>9, <1>p, <1>q, <2>2, RunnerMoves DEF LoseAnswer, AfterFailure
  <2> QED
    BY <2>1, <2>2
<1>10. ASSUME NEW r \in Runners, TokenRefused(r)
       PROVE  RunnerTypes'
  BY <1>10, <1>p, <1>q, <1>r, RunnerMoves DEF TokenRefused
<1>11. ASSUME NEW r \in Requests, DecideInMemory(r)
       PROVE  RunnerTypes'
  <2>1. Verdict(r) \in Statuses
    BY <1>p DEF Verdict
  <2> QED
    BY <1>11, <1>q, <1>r, <2>1, RunnerMoves DEF DecideInMemory
<1>12. ASSUME NEW r \in Requests, ReadRedis(r)
       PROVE  RunnerTypes'
  <2>1. Verdict(r) \in Statuses
    BY <1>p DEF Verdict
  <2>2. [runner[r] EXCEPT !.at = "read", !.write = Verdict(r)] \in RunnerRecords
    BY <1>p, <1>r, <2>1 DEF RunnerRecords
  <2>3. runner' = [runner EXCEPT ![r] = [runner[r] EXCEPT !.at = "read", !.write = Verdict(r)]]
    BY <1>12 DEF ReadRedis
  <2> QED
    BY <1>q, <1>r, <2>2, <2>3, RunnerMoves
<1>13. ASSUME NEW r \in Requests, WriteRedis(r)
       PROVE  RunnerTypes'
  <2>1. runner[r].write \in Statuses
    BY <1>p, <1>r DEF RunnerRecords
  <2> QED
    BY <1>13, <1>q, <1>r, <2>1, RunnerMoves DEF WriteRedis
<1>14. ASSUME NEW r \in Requests, Refuse(r)
       PROVE  RunnerTypes'
  BY <1>14, <1>p, <1>q, <1>r, RunnerMoves DEF Refuse
<1>15. ASSUME NEW r \in Requests, MarkExecuted(r)
       PROVE  RunnerTypes'
  BY <1>15, <1>p, <1>q, <1>r, RunnerMoves DEF MarkExecuted
<1>16. ASSUME NEW s \in Steps, LateEffect(s)
       PROVE  RunnerTypes'
  BY <1>16, <1>p, <1>q DEF LateEffect
<1>17. CASE UNCHANGED actionVars
  BY <1>17, <1>p, <1>q, <1>r, RunnerMoves DEF actionVars
<1> QED
  BY <1>1, <1>2, <1>3, <1>4, <1>5, <1>6, <1>7, <1>8, <1>9, <1>10, <1>11, <1>12, <1>13, <1>14,
      <1>15, <1>16, <1>17 DEF ActionNext, Call, RequestStep

LEMMA TurnInvStays ==
  ASSUME PlacesInv, [ActionNext]_actionVars
  PROVE  TurnInv'
<1> USE AgentActionsAssumption DEF PlacesInv, ActionTypeOK, RunnerRecords, TurnInv, At, storeVars, effectVars, historyVars
<1>p. /\ Len(plan) \in 0 .. 3 /\ plan' = plan /\ store' = store /\ runner \in [Runners -> RunnerRecords]
      /\ Chat \in Runners /\ Chat \notin Requests /\ Requests \subseteq Runners /\ Runners = Requests \union {Chat}
      /\ approvals \subseteq Requests /\ pausedAt \in 0 .. Len(plan)
      /\ \A r \in Runners : runner[r].step \in 0 .. Len(plan) + 1
  BY PlanFacts, PlanStays, AgentActionsAssumption DEF RunnerTypes, StoreTypes, EffectTypes, Runners, Requests, RunnerRecords
<1>1. CASE TurnStep
  BY <1>1, <1>p DEF TurnStep, Go, Dispatch, PausesBefore, Tool
<1>2. CASE TurnEnd
  BY <1>2, <1>p DEF TurnEnd, Go
<1>3. CASE PassDeadline
  BY <1>3, <1>p DEF PassDeadline
<1>4. CASE Evict
  BY <1>4, <1>p DEF Evict
<1>5. CASE Crash
  BY <1>5, <1>p DEF Crash
<1>6. ASSUME NEW r \in Runners, AnswerOk(r)
      PROVE  TurnInv'
  BY <1>6, <1>p DEF AnswerOk, TakeEffect, AfterAnswer, Dispatch, Go, CaptureCreated
<1>7. ASSUME NEW r \in Runners, AnswerNo(r)
      PROVE  TurnInv'
  BY <1>7, <1>p DEF AnswerNo, AfterAnswer, Dispatch, Go
<1>8. ASSUME NEW r \in Runners, CallFails(r)
      PROVE  TurnInv'
  BY <1>8, <1>p DEF CallFails, AfterFailure, Go
<1>9. ASSUME NEW r \in Runners, LoseAnswer(r)
      PROVE  TurnInv'
  BY <1>9, <1>p DEF LoseAnswer, AfterFailure, Go, CanRetry
<1>10. ASSUME NEW r \in Runners, TokenRefused(r)
       PROVE  TurnInv'
  BY <1>10, <1>p DEF TokenRefused, Go
<1>11. ASSUME NEW r \in Requests, DecideInMemory(r)
       PROVE  TurnInv'
  BY <1>11, <1>p DEF DecideInMemory, Settle, Verdict
<1>12. ASSUME NEW r \in Requests, ReadRedis(r)
       PROVE  TurnInv'
  BY <1>12, <1>p DEF ReadRedis
<1>13. ASSUME NEW r \in Requests, WriteRedis(r)
       PROVE  TurnInv'
  BY <1>13, <1>p DEF WriteRedis, Settle
<1>14. ASSUME NEW r \in Requests, Refuse(r)
       PROVE  TurnInv'
  BY <1>14, <1>p DEF Refuse, Go
<1>15. ASSUME NEW r \in Requests, MarkExecuted(r)
       PROVE  TurnInv'
  BY <1>15, <1>p DEF MarkExecuted, Go
<1>16. ASSUME NEW s \in Steps, LateEffect(s)
       PROVE  TurnInv'
  BY <1>16, <1>p DEF LateEffect, TakeEffect, Steps
<1>17. CASE UNCHANGED actionVars
  BY <1>17, <1>p DEF actionVars
<1> QED
  BY <1>1, <1>2, <1>3, <1>4, <1>5, <1>6, <1>7, <1>8, <1>9, <1>10, <1>11, <1>12, <1>13, <1>14,
      <1>15, <1>16, <1>17 DEF ActionNext, Call, RequestStep

\* A request that is in a call, and a turn, after an answer.
LEMMA AnswerMoves ==
  ASSUME RunnerTypes, Len(plan) \in 0 .. 3, NEW r \in Runners, At(r, "call"), AfterAnswer(r)
  PROVE  /\ \A q \in Runners \ {r} : runner'[q] = runner[q]
         /\ r = Chat => runner'[r].at = "step"
         /\ r # Chat => \/ runner'[r].at = "mark" /\ runner'[r].step = runner[r].step
                       \/ /\ runner'[r].at = "call" /\ runner'[r].step = runner[r].step + 1
                          /\ runner[r].step + 1 <= Len(plan)
<1>1. runner \in [Runners -> RunnerRecords] /\ runner[r] \in RunnerRecords
  BY DEF RunnerTypes
<1>2. CASE r = Chat
  BY <1>1, <1>2 DEF AfterAnswer, RunnerRecords
<1>3. CASE r # Chat /\ runner[r].step + 1 > Len(plan)
  BY <1>1, <1>3 DEF AfterAnswer, Go, RunnerRecords
<1>4. CASE r # Chat /\ ~(runner[r].step + 1 > Len(plan))
  <2>1. runner[r].step + 1 <= Len(plan)
    BY <1>1, <1>4 DEF RunnerRecords
  <2> QED
    BY <1>1, <1>4, <2>1 DEF AfterAnswer, Dispatch, RunnerRecords
<1> QED
  BY <1>2, <1>3, <1>4

LEMMA RequestInvStays ==
  ASSUME PlacesInv, [ActionNext]_actionVars
  PROVE  RequestInv'
<1> USE AgentActionsAssumption DEF PlacesInv, ActionTypeOK, RunnerRecords, RequestInv, At, storeVars, effectVars, historyVars
<1>p. /\ Len(plan) \in 0 .. 3 /\ plan' = plan /\ store' = store /\ runner \in [Runners -> RunnerRecords]
      /\ Chat \in Runners /\ Chat \notin Requests /\ Requests \subseteq Runners /\ Runners = Requests \union {Chat}
      /\ approvals \subseteq Requests /\ pausedAt \in 0 .. Len(plan)
      /\ \A r \in Runners : runner[r].step \in 0 .. Len(plan) + 1
  BY PlanFacts, PlanStays, AgentActionsAssumption DEF RunnerTypes, StoreTypes, EffectTypes, Runners, Requests, RunnerRecords
<1>1. CASE TurnStep
  BY <1>1, <1>p DEF TurnStep, Go, Dispatch, TurnInv
<1>2. CASE TurnEnd
  BY <1>2, <1>p DEF TurnEnd, Go
<1>3. CASE PassDeadline
  BY <1>3, <1>p DEF PassDeadline
<1>4. CASE Evict
  BY <1>4, <1>p DEF Evict
<1>5. CASE Crash
  BY <1>5, <1>p DEF Crash
<1>6. ASSUME NEW r \in Runners, AnswerOk(r)
      PROVE  RequestInv'
  <2>1. /\ At(r, "call") /\ AfterAnswer(r) /\ RunnerTypes /\ UNCHANGED <<approvals, pausedAt>>
    BY <1>6 DEF AnswerOk
  <2> HIDE DEF At, RequestInv, RunnerRecords, PlacesInv, ActionTypeOK
  <2>2. /\ \A q \in Runners \ {r} : runner'[q] = runner[q]
        /\ r = Chat => runner'[r].at = "step"
        /\ r # Chat => \/ runner'[r].at = "mark" /\ runner'[r].step = runner[r].step
                      \/ /\ runner'[r].at = "call" /\ runner'[r].step = runner[r].step + 1
                         /\ runner[r].step + 1 <= Len(plan)
    BY <1>p, <2>1, AnswerMoves
  <2> QED
    BY <1>p, <1>6, <2>1, <2>2 DEF RequestInv, At, PlacesInv
<1>7. ASSUME NEW r \in Runners, AnswerNo(r)
      PROVE  RequestInv'
  <2>1. /\ At(r, "call") /\ AfterAnswer(r) /\ RunnerTypes /\ UNCHANGED <<approvals, pausedAt>>
    BY <1>7 DEF AnswerNo
  <2> HIDE DEF At, RequestInv, RunnerRecords, PlacesInv, ActionTypeOK
  <2>2. /\ \A q \in Runners \ {r} : runner'[q] = runner[q]
        /\ r = Chat => runner'[r].at = "step"
        /\ r # Chat => \/ runner'[r].at = "mark" /\ runner'[r].step = runner[r].step
                      \/ /\ runner'[r].at = "call" /\ runner'[r].step = runner[r].step + 1
                         /\ runner[r].step + 1 <= Len(plan)
    BY <1>p, <2>1, AnswerMoves
  <2> QED
    BY <1>p, <1>7, <2>1, <2>2 DEF RequestInv, At, PlacesInv
<1>8. ASSUME NEW r \in Runners, CallFails(r)
      PROVE  RequestInv'
  BY <1>8, <1>p DEF CallFails, AfterFailure, Go
<1>9. ASSUME NEW r \in Runners, LoseAnswer(r)
      PROVE  RequestInv'
  <2>1. UNCHANGED <<approvals, pausedAt>>
    BY <1>9 DEF LoseAnswer
  <2>2. CASE CanRetry(r)
    BY <1>9, <1>p, <2>1, <2>2 DEF LoseAnswer
  <2>3. CASE ~CanRetry(r)
    BY <1>9, <1>p, <2>1, <2>3 DEF LoseAnswer, AfterFailure, Go
  <2> QED
    BY <2>2, <2>3
<1>10. ASSUME NEW r \in Runners, TokenRefused(r)
       PROVE  RequestInv'
  BY <1>10, <1>p DEF TokenRefused, Go
<1>11. ASSUME NEW r \in Requests, DecideInMemory(r)
       PROVE  RequestInv'
  <2> DEFINE status == Verdict(r)
  <2>1. /\ Settle(r, status) /\ pausedAt' = pausedAt /\ pausedAt \in 1 .. Len(plan) /\ r \notin approvals
        /\ status \in {"expired", "confirmed", "cancelled"} /\ (status = "confirmed" => r \in Confirms)
    BY <1>11, <1>p DEF DecideInMemory, Verdict, TurnInv
  <2> HIDE DEF status
  <2>2. CASE status = "confirmed"
    <3>1. /\ approvals' = approvals \union {r}
          /\ runner' = [runner EXCEPT ![r] = [at |-> "call", step |-> pausedAt, tries |-> 1, write |-> status]]
      BY <2>1, <2>2 DEF Settle
    <3>2. /\ runner'[r].at = "call" /\ runner'[r].step = pausedAt
          /\ \A q \in Runners \ {r} : runner'[q] = runner[q]
      BY <1>p, <3>1
    <3> QED
      BY <1>p, <2>1, <3>1, <3>2
  <2>3. CASE status # "confirmed"
    <3>1. /\ approvals' = approvals /\ runner'[r].at \in {"refused", "done"}
          /\ \A q \in Runners \ {r} : runner'[q] = runner[q]
      <4> DEFINE place == IF status = "expired" THEN "refused" ELSE "done"
                 left == [runner[r] EXCEPT !.write = status, !.at = place]
      <4>1. approvals' = approvals /\ runner' = [runner EXCEPT ![r] = left]
        BY <2>1, <2>3 DEF Settle
      <4>2. left.at = place
        BY <1>p
      <4> HIDE DEF left
      <4> QED
        BY <1>p, <4>1, <4>2
    <3> QED
      BY <1>p, <2>1, <3>1
  <2> QED
    BY <2>2, <2>3
<1>12. ASSUME NEW r \in Requests, ReadRedis(r)
       PROVE  RequestInv'
  BY <1>12, <1>p DEF ReadRedis, Verdict
<1>13. ASSUME NEW r \in Requests, WriteRedis(r)
       PROVE  RequestInv'
  <2> DEFINE status == runner[r].write
  <2>1. /\ Settle(r, status) /\ pausedAt' = pausedAt /\ pausedAt \in 1 .. Len(plan) /\ r \notin approvals
        /\ status \in {"expired", "confirmed", "cancelled"} /\ (status = "confirmed" => r \in Confirms)
    BY <1>13, <1>p DEF WriteRedis, TurnInv
  <2> HIDE DEF status
  <2>2. CASE status = "confirmed"
    <3>1. /\ approvals' = approvals \union {r}
          /\ runner' = [runner EXCEPT ![r] = [at |-> "call", step |-> pausedAt, tries |-> 1, write |-> status]]
      BY <2>1, <2>2 DEF Settle
    <3>2. /\ runner'[r].at = "call" /\ runner'[r].step = pausedAt
          /\ \A q \in Runners \ {r} : runner'[q] = runner[q]
      BY <1>p, <3>1
    <3> QED
      BY <1>p, <2>1, <3>1, <3>2
  <2>3. CASE status # "confirmed"
    <3>1. /\ approvals' = approvals /\ runner'[r].at \in {"refused", "done"}
          /\ \A q \in Runners \ {r} : runner'[q] = runner[q]
      <4> DEFINE place == IF status = "expired" THEN "refused" ELSE "done"
                 left == [runner[r] EXCEPT !.write = status, !.at = place]
      <4>1. approvals' = approvals /\ runner' = [runner EXCEPT ![r] = left]
        BY <2>1, <2>3 DEF Settle
      <4>2. left.at = place
        BY <1>p
      <4> HIDE DEF left
      <4> QED
        BY <1>p, <4>1, <4>2
    <3> QED
      BY <1>p, <2>1, <3>1
  <2> QED
    BY <2>2, <2>3
<1>14. ASSUME NEW r \in Requests, Refuse(r)
       PROVE  RequestInv'
  BY <1>14, <1>p DEF Refuse, Go
<1>15. ASSUME NEW r \in Requests, MarkExecuted(r)
       PROVE  RequestInv'
  BY <1>15, <1>p DEF MarkExecuted, Go
<1>16. ASSUME NEW s \in Steps, LateEffect(s)
       PROVE  RequestInv'
  BY <1>16, <1>p DEF LateEffect, TakeEffect
<1>17. CASE UNCHANGED actionVars
  BY <1>17, <1>p DEF actionVars
<1> QED
  BY <1>1, <1>2, <1>3, <1>4, <1>5, <1>6, <1>7, <1>8, <1>9, <1>10, <1>11, <1>12, <1>13, <1>14,
      <1>15, <1>16, <1>17 DEF ActionNext, Call, RequestStep

LEMMA PlacesStay ==
  ASSUME PlacesInv, [ActionNext]_actionVars
  PROVE  PlacesInv'
BY StoreTypesStay, EffectTypesStay, RunnerTypesStay, TurnInvStays, RequestInvStays
DEF PlacesInv, ActionTypeOK

-----------------------------------------------------------------------------
(* Nothing risky happens without one approval *)

\* In memory an action is decided once, and an action that was not confirmed was not approved.
DecidedOnce ==
  store = "memory" =>
    /\ Cardinality(approvals) <= 1
    /\ record \in {"none", "pending", "cancelled"} => approvals = {}

RiskIsApproved ==
  \A s \in 1 .. Len(plan) : RequiresApproval(plan[s]) /\ effects[s] + late[s] > 0 => approvals # {}

LEMMA DecidedOnceStays ==
  ASSUME PlacesInv, DecidedOnce, [ActionNext]_actionVars
  PROVE  DecidedOnce'
<1> USE AgentActionsAssumption DEF PlacesInv, ActionTypeOK, storeVars, effectVars, historyVars, At, DecidedOnce
<1>p. /\ \A r : Cardinality({r}) = 1 /\ {} \union {r} = {r}
      /\ store' = store /\ plan' = plan /\ approvals \subseteq Requests
  BY FS_Singleton, PlanStays, AgentActionsAssumption DEF EffectTypes, Requests
<1>1. CASE TurnStep
  BY <1>1, <1>p DEF TurnStep, TurnInv
<1>2. CASE TurnEnd
  BY <1>2, <1>p DEF TurnEnd
<1>3. CASE PassDeadline
  BY <1>3, <1>p DEF PassDeadline
<1>4. CASE Evict
  BY <1>4, <1>p DEF Evict
<1>5. CASE Crash
  BY <1>5, <1>p DEF Crash
<1>6. ASSUME NEW r \in Runners, AnswerOk(r)
      PROVE  DecidedOnce'
  BY <1>6, <1>p DEF AnswerOk
<1>7. ASSUME NEW r \in Runners, AnswerNo(r)
      PROVE  DecidedOnce'
  BY <1>7, <1>p DEF AnswerNo
<1>8. ASSUME NEW r \in Runners, CallFails(r)
      PROVE  DecidedOnce'
  BY <1>8, <1>p DEF CallFails
<1>9. ASSUME NEW r \in Runners, LoseAnswer(r)
      PROVE  DecidedOnce'
  BY <1>9, <1>p DEF LoseAnswer
<1>10. ASSUME NEW r \in Runners, TokenRefused(r)
       PROVE  DecidedOnce'
  BY <1>10, <1>p DEF TokenRefused
<1>11. ASSUME NEW r \in Requests, DecideInMemory(r)
       PROVE  DecidedOnce'
  <2> DEFINE status == Verdict(r)
  <2>1. /\ Settle(r, status) /\ record' = status
        /\ age = "fresh" => record = "pending" /\ status \in {"confirmed", "cancelled"}
        /\ age # "fresh" => status = "expired"
    BY <1>11 DEF DecideInMemory, Acceptable, Verdict
  <2>2. approvals' = (IF status = "confirmed" THEN approvals \union {r} ELSE approvals)
    BY <2>1 DEF Settle
  <2>3. store = "memory" /\ age = "fresh" => approvals = {}
    BY <2>1
  <2>4. store = "memory"
    BY <1>11 DEF DecideInMemory
  <2> HIDE DEF status
  <2>5. CASE age # "fresh"
    BY <1>p, <2>1, <2>2, <2>4, <2>5
  <2>6. CASE age = "fresh" /\ status = "confirmed"
    <3>1. approvals' = {r}
      BY <2>2, <2>3, <2>4, <2>6
    <3>2. Cardinality(approvals') = 1
      BY <1>p, <3>1
    <3> QED
      BY <2>1, <2>6, <3>2
  <2>7. CASE age = "fresh" /\ status = "cancelled"
    BY <1>p, <2>1, <2>2, <2>3, <2>4, <2>7
  <2> QED
    BY <2>1, <2>5, <2>6, <2>7
<1>12. ASSUME NEW r \in Requests, ReadRedis(r)
       PROVE  DecidedOnce'
  BY <1>12, <1>p DEF ReadRedis
<1>13. ASSUME NEW r \in Requests, WriteRedis(r)
       PROVE  DecidedOnce'
  BY <1>13, <1>p DEF WriteRedis, Settle, RequestInv
<1>14. ASSUME NEW r \in Requests, Refuse(r)
       PROVE  DecidedOnce'
  BY <1>14, <1>p DEF Refuse
<1>15. ASSUME NEW r \in Requests, MarkExecuted(r)
       PROVE  DecidedOnce'
  BY <1>15, <1>p DEF MarkExecuted, Missing
<1>16. ASSUME NEW s \in Steps, LateEffect(s)
       PROVE  DecidedOnce'
  BY <1>16, <1>p DEF LateEffect
<1>17. CASE UNCHANGED actionVars
  BY <1>17, <1>p DEF actionVars
<1> QED
  BY <1>1, <1>2, <1>3, <1>4, <1>5, <1>6, <1>7, <1>8, <1>9, <1>10, <1>11, <1>12, <1>13, <1>14,
      <1>15, <1>16, <1>17 DEF ActionNext, Call, RequestStep

LEMMA RiskIsApprovedStays ==
  ASSUME PlacesInv, RiskIsApproved, [ActionNext]_actionVars
  PROVE  RiskIsApproved'
<1> USE AgentActionsAssumption DEF PlacesInv, ActionTypeOK, storeVars, effectVars, historyVars, At, RiskIsApproved
<1>p. /\ store' = store /\ plan' = plan /\ \A s \in 1 .. Len(plan) : s \in Steps
      /\ \A r \in Runners : At(r, "call") /\ r # Chat => approvals # {}
      /\ At(Chat, "call") => ~RequiresApproval(plan[runner[Chat].step])
      /\ \A s \in Steps : effects[s] \in Nat /\ late[s] \in Nat
      /\ effects \in [Steps -> Nat] /\ late \in [Steps -> Nat]
  BY PlanFacts, PlanStays DEF EffectTypes, TurnInv, RequestInv, Runners
<1>1. CASE TurnStep
  BY <1>1, <1>p DEF TurnStep
<1>2. CASE TurnEnd
  BY <1>2, <1>p DEF TurnEnd
<1>3. CASE PassDeadline
  BY <1>3, <1>p DEF PassDeadline
<1>4. CASE Evict
  BY <1>4, <1>p DEF Evict
<1>5. CASE Crash
  <2> DEFINE inCall(s) == Cardinality({r \in Runners : InCall(r, s)})
  <2>1. /\ late' = [s \in Steps |-> late[s] + inCall(s)] /\ effects' = effects /\ approvals' = approvals
    BY <1>5 DEF Crash
  <2>2. \A s \in Steps : inCall(s) \in Nat
    BY RunnersFinite
  <2>3. ASSUME NEW s \in 1 .. Len(plan), RequiresApproval(plan[s]), inCall(s) > 0
        PROVE  approvals # {}
    <3>1. {r \in Runners : InCall(r, s)} # {}
      BY <2>3, FS_EmptySet
    <3> QED
      BY <1>p, <2>3, <3>1 DEF InCall
  <2> HIDE DEF inCall
  <2>4. ASSUME NEW s \in 1 .. Len(plan), RequiresApproval(plan[s]), effects'[s] + late'[s] > 0
        PROVE  approvals # {}
    <3>1. s \in Steps /\ effects'[s] = effects[s] /\ late'[s] = late[s] + inCall(s)
      BY <1>p, <2>1
    <3>2. effects[s] + late[s] > 0 \/ inCall(s) > 0
      BY <1>p, <2>2, <2>4, <3>1
    <3> QED
      BY <2>3, <2>4, <3>2
  <2> QED
    BY <1>p, <2>1, <2>4
<1>6. ASSUME NEW r \in Runners, AnswerOk(r)
      PROVE  RiskIsApproved'
  BY <1>6, <1>p DEF AnswerOk, TakeEffect
<1>7. ASSUME NEW r \in Runners, AnswerNo(r)
      PROVE  RiskIsApproved'
  BY <1>7, <1>p DEF AnswerNo
<1>8. ASSUME NEW r \in Runners, CallFails(r)
      PROVE  RiskIsApproved'
  BY <1>8, <1>p DEF CallFails
<1>9. ASSUME NEW r \in Runners, LoseAnswer(r)
      PROVE  RiskIsApproved'
  BY <1>9, <1>p DEF LoseAnswer
<1>10. ASSUME NEW r \in Runners, TokenRefused(r)
       PROVE  RiskIsApproved'
  BY <1>10, <1>p DEF TokenRefused
<1>11. ASSUME NEW r \in Requests, DecideInMemory(r)
       PROVE  RiskIsApproved'
  BY <1>11, <1>p DEF DecideInMemory, Settle, Verdict
<1>12. ASSUME NEW r \in Requests, ReadRedis(r)
       PROVE  RiskIsApproved'
  BY <1>12, <1>p DEF ReadRedis
<1>13. ASSUME NEW r \in Requests, WriteRedis(r)
       PROVE  RiskIsApproved'
  BY <1>13, <1>p DEF WriteRedis, Settle
<1>14. ASSUME NEW r \in Requests, Refuse(r)
       PROVE  RiskIsApproved'
  BY <1>14, <1>p DEF Refuse
<1>15. ASSUME NEW r \in Requests, MarkExecuted(r)
       PROVE  RiskIsApproved'
  BY <1>15, <1>p DEF MarkExecuted
<1>16. ASSUME NEW s \in Steps, LateEffect(s)
       PROVE  RiskIsApproved'
  BY <1>16, <1>p DEF LateEffect, TakeEffect
<1>17. CASE UNCHANGED actionVars
  BY <1>17, <1>p DEF actionVars
<1> QED
  BY <1>1, <1>2, <1>3, <1>4, <1>5, <1>6, <1>7, <1>8, <1>9, <1>10, <1>11, <1>12, <1>13, <1>14,
      <1>15, <1>16, <1>17 DEF ActionNext, Call, RequestStep

-----------------------------------------------------------------------------
(* The steps of a plan take effect in their order, as often as they are run *)

\* Facts about a step of the system that the lemmas below share.
LEMMA ActionFacts ==
  ASSUME PlacesInv, [ActionNext]_actionVars
  PROVE  /\ plan' = plan /\ Len(plan) \in 0 .. 3 /\ 1 .. Len(plan) \subseteq Steps
         /\ runner \in [Runners -> RunnerRecords] /\ Runners = Requests \union {Chat}
         /\ Chat \notin Requests /\ approvals \subseteq Requests
         /\ \A r \in Runners : runner[r].step \in 0 .. Len(plan) + 1
         /\ \A r \in Runners : At(r, "call") => runner[r].step \in 1 .. Len(plan) /\ (r = Chat \/ r \in approvals)
         /\ effects \in [Steps -> Nat] /\ late \in [Steps -> Nat] /\ lost \in [Steps -> Nat]
BY PlanFacts, PlanStays, AgentActionsAssumption
DEF PlacesInv, ActionTypeOK, RunnerTypes, RunnerRecords, EffectTypes, StoreTypes, TurnInv, RequestInv,
    Runners, Requests

\* Who has a step behind it, whatever has become of the call.
Passed(r, s) == runner[r].step > s \/ (runner[r].step = s /\ ~At(r, "step") /\ ~At(r, "call"))

\* The turn and the approved requests go forward only, and end where they are.
Forward(r) ==
  /\ runner[r].step <= runner'[r].step
  /\ runner[r].at \notin {"step", "call"} =>
       runner'[r].step = runner[r].step /\ runner'[r].at \notin {"step", "call"}
  /\ runner[r].at = "stopped" => runner'[r].at = "stopped"

LEMMA ForwardOnly ==
  ASSUME PlacesInv, [ActionNext]_actionVars, NEW q \in approvals \union {Chat}
  PROVE  approvals \subseteq approvals' /\ (pausedAt # 0 => pausedAt' = pausedAt) /\ Forward(q)
<1> USE AgentActionsAssumption DEF PlacesInv, ActionTypeOK, storeVars, effectVars, historyVars, At, RunnerRecords, Forward
<1> DEFINE Goal == approvals \subseteq approvals' /\ (pausedAt # 0 => pausedAt' = pausedAt) /\ Forward(q)
<1>p. /\ runner \in [Runners -> RunnerRecords] /\ Chat \in Runners /\ Chat \notin Requests
      /\ approvals \subseteq Requests /\ Requests \subseteq Runners /\ approvals \union {Chat} \subseteq Runners
      /\ \A r \in Runners : runner[r].step \in 0 .. Len(plan) + 1
      /\ Len(plan) \in 0 .. 3
      /\ q \in Runners /\ runner[q].step <= runner[q].step /\ runner[q].step <= runner[q].step + 1
      /\ q \in Requests => q \in approvals
  BY ActionFacts
<1>s. ASSUME NEW r \in Runners, At(r, "call"), AfterAnswer(r)
      PROVE  Forward(q)
  <2> DEFINE next == runner[r].step + 1
  <2>1. CASE r = Chat
    <3>1. runner' = [runner EXCEPT ![r] = [runner[r] EXCEPT !.at = "step", !.step = next]]
      BY <1>s, <2>1 DEF AfterAnswer
    <3> QED
      BY <1>p, <1>s, <3>1
  <2>2. CASE r # Chat /\ next > Len(plan)
    <3>1. runner' = [runner EXCEPT ![r] = [runner[r] EXCEPT !.at = "mark"]]
      BY <1>s, <2>2 DEF AfterAnswer, Go
    <3> QED
      BY <1>p, <1>s, <3>1
  <2>3. CASE r # Chat /\ ~(next > Len(plan))
    <3>1. runner' = [runner EXCEPT ![r] = [runner[r] EXCEPT !.at = "call", !.step = next, !.tries = 1]]
      BY <1>s, <2>3 DEF AfterAnswer, Dispatch
    <3> QED
      BY <1>p, <1>s, <3>1
  <2> QED
    BY <2>1, <2>2, <2>3
<1>1. CASE TurnStep
  BY <1>1, <1>p DEF TurnStep, Go, Dispatch, TurnInv
<1>2. CASE TurnEnd
  BY <1>2, <1>p DEF TurnEnd, Go
<1>3. CASE PassDeadline
  BY <1>3, <1>p DEF PassDeadline
<1>4. CASE Evict
  BY <1>4, <1>p DEF Evict
<1>5. CASE Crash
  BY <1>5, <1>p DEF Crash
<1>6. ASSUME NEW r \in Runners, AnswerOk(r)
      PROVE  Goal
  BY <1>6, <1>s DEF AnswerOk
<1>7. ASSUME NEW r \in Runners, AnswerNo(r)
      PROVE  Goal
  BY <1>7, <1>s DEF AnswerNo
<1>8. ASSUME NEW r \in Runners, CallFails(r)
      PROVE  Goal
  BY <1>8, <1>p DEF CallFails, AfterFailure, Go
<1>9. ASSUME NEW r \in Runners, LoseAnswer(r)
      PROVE  Goal
  <2>1. UNCHANGED <<approvals, pausedAt>>
    BY <1>9 DEF LoseAnswer
  <2>2. CASE CanRetry(r)
    BY <1>9, <1>p, <2>1, <2>2 DEF LoseAnswer
  <2>3. CASE ~CanRetry(r)
    BY <1>9, <1>p, <2>1, <2>3 DEF LoseAnswer, AfterFailure, Go
  <2> QED
    BY <2>2, <2>3
<1>10. ASSUME NEW r \in Runners, TokenRefused(r)
       PROVE  Goal
  BY <1>10, <1>p DEF TokenRefused, Go
<1>11. ASSUME NEW r \in Requests, DecideInMemory(r)
       PROVE  Goal
  BY <1>11, <1>p DEF DecideInMemory, Settle, RequestInv
<1>12. ASSUME NEW r \in Requests, ReadRedis(r)
       PROVE  Goal
  BY <1>12, <1>p DEF ReadRedis, RequestInv
<1>13. ASSUME NEW r \in Requests, WriteRedis(r)
       PROVE  Goal
  BY <1>13, <1>p DEF WriteRedis, Settle, RequestInv
<1>14. ASSUME NEW r \in Requests, Refuse(r)
       PROVE  Goal
  BY <1>14, <1>p DEF Refuse, Go, RequestInv
<1>15. ASSUME NEW r \in Requests, MarkExecuted(r)
       PROVE  Goal
  BY <1>15, <1>p DEF MarkExecuted, Go
<1>16. ASSUME NEW s \in Steps, LateEffect(s)
       PROVE  Goal
  BY <1>16, <1>p DEF LateEffect
<1>17. CASE UNCHANGED actionVars
  BY <1>17, <1>p DEF actionVars
<1>18. Goal
  BY <1>1, <1>2, <1>3, <1>4, <1>5, <1>6, <1>7, <1>8, <1>9, <1>10, <1>11, <1>12, <1>13, <1>14,
      <1>15, <1>16, <1>17 DEF ActionNext, Call, RequestStep, actionVars
<1> QED
  BY <1>18

\* A call under way is of the turn or of an approved request; only an answer adds an effect that
\* is not paid for by a lost answer.
EffectPaid(s) ==
  effects'[s] + late'[s] + lost[s] <= effects[s] + late[s] + lost'[s]
EffectOfAnswer(s) ==
  /\ effects'[s] = effects[s] + 1 /\ late'[s] = late[s] /\ lost'[s] = lost[s]
  /\ \E r \in approvals \union {Chat} : AnswerOk(r) /\ runner[r].step = s
EffectReached(s) ==
  effects'[s] + late'[s] > 0 =>
    effects[s] + late[s] > 0 \/ \E r \in approvals \union {Chat} : runner[r].step = s

LEMMA EffectsOfStep ==
  ASSUME PlacesInv, [ActionNext]_actionVars, NEW s \in Steps
  PROVE  EffectReached(s) /\ (EffectPaid(s) \/ EffectOfAnswer(s))
<1> USE DEF storeVars, effectVars, historyVars
<1> DEFINE Goal == EffectReached(s) /\ (EffectPaid(s) \/ EffectOfAnswer(s))
<1>p. /\ effects \in [Steps -> Nat] /\ late \in [Steps -> Nat] /\ lost \in [Steps -> Nat]
      /\ effects[s] \in Nat /\ late[s] \in Nat /\ lost[s] \in Nat
      /\ \A r \in Runners : At(r, "call") => runner[r].step \in Steps /\ r \in approvals \union {Chat}
  BY ActionFacts
<1>q. effects'[s] = effects[s] /\ late'[s] = late[s] /\ lost'[s] = lost[s] => Goal
  BY <1>p DEF EffectReached, EffectPaid
<1>1. CASE \/ TurnStep \/ TurnEnd \/ PassDeadline \/ Evict \/ UNCHANGED actionVars
           \/ \E r \in Runners : AnswerNo(r) \/ CallFails(r) \/ TokenRefused(r)
           \/ \E r \in Requests : RequestStep(r)
  <2>1. effects' = effects /\ late' = late /\ lost' = lost
    BY <1>1 DEF TurnStep, TurnEnd, PassDeadline, Evict, actionVars, AnswerNo, CallFails, TokenRefused, RequestStep,
                DecideInMemory, ReadRedis, WriteRedis, Refuse, MarkExecuted
  <2> QED
    BY <1>q, <2>1
<1>2. CASE Crash
  <2> DEFINE inCall(t) == Cardinality({r \in Runners : InCall(r, t)})
  <2>1. effects' = effects /\ lost' = [t \in Steps |-> lost[t] + inCall(t)] /\ late' = [t \in Steps |-> late[t] + inCall(t)]
    BY <1>2 DEF Crash
  <2>2. inCall(s) \in Nat
    BY RunnersFinite
  <2>3. ASSUME inCall(s) > 0
        PROVE  \E r \in approvals \union {Chat} : runner[r].step = s
    <3>1. {r \in Runners : InCall(r, s)} # {}
      BY <2>3, FS_EmptySet
    <3> QED
      BY <1>p, <3>1 DEF InCall
  <2> HIDE DEF inCall
  <2>4. effects'[s] = effects[s] /\ lost'[s] = lost[s] + inCall(s) /\ late'[s] = late[s] + inCall(s)
    BY <2>1
  <2> QED
    BY <1>p, <2>2, <2>3, <2>4 DEF EffectReached, EffectPaid
<1>3. ASSUME NEW r \in Runners, AnswerOk(r)
      PROVE  Goal
  <2>1. /\ effects' = [effects EXCEPT ![runner[r].step] = effects[runner[r].step] + 1] /\ late' = late /\ lost' = lost
        /\ runner[r].step \in Steps /\ r \in approvals \union {Chat}
    BY <1>3, <1>p DEF AnswerOk, TakeEffect
  <2>2. CASE runner[r].step = s
    BY <1>3, <1>p, <2>1, <2>2 DEF EffectReached, EffectOfAnswer
  <2>3. CASE runner[r].step # s
    BY <1>q, <2>1, <2>3
  <2> QED
    BY <2>2, <2>3
<1>4. ASSUME NEW r \in Runners, LoseAnswer(r)
      PROVE  Goal
  <2>1. /\ late' = [late EXCEPT ![runner[r].step] = late[runner[r].step] + 1]
        /\ lost' = [lost EXCEPT ![runner[r].step] = lost[runner[r].step] + 1] /\ effects' = effects
        /\ runner[r].step \in Steps /\ r \in approvals \union {Chat}
    BY <1>4, <1>p DEF LoseAnswer
  <2>2. CASE runner[r].step = s
    BY <1>p, <2>1, <2>2 DEF EffectReached, EffectPaid
  <2>3. CASE runner[r].step # s
    BY <1>q, <2>1, <2>3
  <2> QED
    BY <2>2, <2>3
<1>5. ASSUME NEW t \in Steps, LateEffect(t)
      PROVE  Goal
  <2>1. /\ late' = [late EXCEPT ![t] = late[t] - 1] /\ late[t] > 0 /\ lost' = lost
        /\ effects' = [effects EXCEPT ![t] = effects[t] + 1]
    BY <1>5, <1>p DEF LateEffect, TakeEffect
  <2>2. CASE t = s
    BY <1>p, <2>1, <2>2 DEF EffectReached, EffectPaid
  <2>3. CASE t # s
    BY <1>q, <2>1, <2>3
  <2> QED
    BY <2>2, <2>3
<1> QED
  BY <1>1, <1>2, <1>3, <1>4, <1>5 DEF ActionNext, Call

\* How often a step was run, by the turn up to its pause and by each approved request after it.
Passers(s) == {r \in approvals : Passed(r, s)}
RunsSoFar(s) ==
  IF pausedAt # 0 /\ s >= pausedAt THEN Cardinality(Passers(s)) ELSE IF Passed(Chat, s) THEN 1 ELSE 0

EffectsAreRuns == \A s \in Steps : effects[s] + late[s] <= lost[s] + RunsSoFar(s)

LEMMA PassedStays ==
  ASSUME PlacesInv, [ActionNext]_actionVars, NEW s \in Steps
  PROVE  /\ Passed(Chat, s) => Passed(Chat, s)'
         /\ Passers(s) \subseteq Passers(s)' /\ Cardinality(Passers(s)) <= Cardinality(Passers(s)')
         /\ IsFiniteSet(Passers(s)') /\ Cardinality(Passers(s)) \in Nat /\ Cardinality(Passers(s)') \in Nat
<1>1. ASSUME NEW r \in approvals \union {Chat}, Passed(r, s)
      PROVE  Passed(r, s)' /\ (r # Chat => r \in approvals')
  <2>1. runner[r].step \in Int /\ runner'[r].step \in Int /\ s \in Int
    BY ActionFacts, PlacesStay DEF Steps, PlacesInv, ActionTypeOK, RunnerTypes, RunnerRecords
  <2>2. Forward(r) /\ approvals \subseteq approvals'
    BY ForwardOnly
  <2> QED
    BY <1>1, <2>1, <2>2 DEF Passed, Forward, At
<1>2. Passers(s) \subseteq Passers(s)'
  BY <1>1, ActionFacts DEF Passers
<1>3. approvals' \subseteq Runners
  BY PlacesStay DEF PlacesInv, ActionTypeOK, EffectTypes, Runners, Requests
<1>4. IsFiniteSet(Passers(s)')
  BY <1>3, RunnersFinite, FS_Subset DEF Passers
<1> QED
  BY <1>1, <1>2, <1>4, FS_Subset, FS_CardinalityType

\* Only the turn pauses, at the step it has come to.
LEMMA PauseIsTurn ==
  ASSUME [ActionNext]_actionVars, pausedAt' # pausedAt
  PROVE  At(Chat, "step") /\ pausedAt' = runner[Chat].step
BY DEF ActionNext, Call, RequestStep, actionVars, storeVars, TurnStep, TurnEnd, PassDeadline, Evict, Crash,
       AnswerOk, AnswerNo, CallFails, LoseAnswer, TokenRefused, DecideInMemory, ReadRedis, WriteRedis,
       Refuse, MarkExecuted, LateEffect

LEMMA RunsGrow ==
  ASSUME PlacesInv, [ActionNext]_actionVars, NEW s \in Steps
  PROVE  RunsSoFar(s) <= RunsSoFar(s)' /\ RunsSoFar(s) \in Nat /\ RunsSoFar(s)' \in Nat
<1>1. RunsSoFar(s) \in Nat /\ RunsSoFar(s)' \in Nat
  BY PassedStays DEF RunsSoFar
<1>2. CASE pausedAt' = pausedAt
  BY <1>2, PassedStays DEF RunsSoFar
<1>3. CASE pausedAt' # pausedAt
  <2>1. At(Chat, "step") /\ pausedAt' = runner[Chat].step /\ pausedAt = 0
    BY <1>3, PauseIsTurn DEF PlacesInv, TurnInv
  <2>2. s \in Int /\ runner[Chat].step \in Int
    BY ActionFacts DEF Steps
  <2>3. Passed(Chat, s) => ~(pausedAt' # 0 /\ s >= pausedAt')
    BY <2>1, <2>2 DEF Passed, At
  <2> QED
    BY <1>1, <2>1, <2>3, PassedStays DEF RunsSoFar
<1> QED
  BY <1>1, <1>2, <1>3

\* An answer is the run of a step that its caller did not have behind it.
LEMMA AnswerIsRun ==
  ASSUME PlacesInv, [ActionNext]_actionVars, NEW r \in approvals \union {Chat}, AnswerOk(r),
         NEW s \in Steps, runner[r].step = s
  PROVE  RunsSoFar(s) + 1 <= RunsSoFar(s)'
<1>1. /\ At(r, "call") /\ s \in Int /\ pausedAt' = pausedAt
      /\ r \in Runners /\ runner \in [Runners -> RunnerRecords] /\ AfterAnswer(r) /\ approvals' = approvals
  <2>1. At(r, "call") /\ AfterAnswer(r) /\ UNCHANGED <<pausedAt, approvals>>
    BY DEF AnswerOk, storeVars
  <2>2. r \in Runners
    BY ActionFacts
  <2> QED
    BY <2>1, <2>2, ActionFacts DEF Steps
<1>2. ~Passed(r, s) /\ Passed(r, s)'
  <2>1. ~Passed(r, s)
    BY <1>1 DEF Passed, At
  <2>2. CASE r = Chat
    <3>1. runner' = [runner EXCEPT ![r] = [runner[r] EXCEPT !.at = "step", !.step = s + 1]]
      BY <1>1, <2>2 DEF AfterAnswer
    <3>2. runner'[r].step = s + 1
      BY <1>1, <3>1 DEF RunnerRecords
    <3> QED
      BY <1>1, <2>1, <3>2 DEF Passed
  <2>3. CASE r # Chat /\ s + 1 > Len(plan)
    <3>1. runner' = [runner EXCEPT ![r] = [runner[r] EXCEPT !.at = "mark"]]
      BY <1>1, <2>3 DEF AfterAnswer, Go
    <3>2. runner'[r].step = s /\ runner'[r].at = "mark"
      BY <1>1, <3>1 DEF RunnerRecords
    <3> QED
      BY <1>1, <2>1, <3>2 DEF Passed, At
  <2>4. CASE r # Chat /\ ~(s + 1 > Len(plan))
    <3>1. runner' = [runner EXCEPT ![r] = [runner[r] EXCEPT !.at = "call", !.step = s + 1, !.tries = 1]]
      BY <1>1, <2>4 DEF AfterAnswer, Dispatch
    <3>2. runner'[r].step = s + 1
      BY <1>1, <3>1 DEF RunnerRecords
    <3> QED
      BY <1>1, <2>1, <3>2 DEF Passed
  <2> QED
    BY <2>2, <2>3, <2>4
<1>3. CASE r = Chat
  <2>1. pausedAt = 0
    BY <1>1, <1>3 DEF PlacesInv, TurnInv
  <2> QED
    BY <1>1, <1>2, <1>3, <2>1 DEF RunsSoFar
<1>4. CASE r # Chat
  <2>1. r \in approvals /\ pausedAt # 0 /\ s >= pausedAt
    BY <1>1, <1>4, AgentActionsAssumption DEF PlacesInv, TurnInv, RequestInv, At, Requests, ActionTypeOK, EffectTypes
  <2>2. r \notin Passers(s) /\ r \in Passers(s)' /\ Passers(s) \union {r} \subseteq Passers(s)'
    BY <1>1, <1>2, <2>1, PassedStays DEF Passers
  <2>3. IsFiniteSet(Passers(s)') /\ Cardinality(Passers(s)) \in Nat /\ Cardinality(Passers(s)') \in Nat
    BY PassedStays
  <2>4. IsFiniteSet(Passers(s))
    BY <2>2, <2>3, FS_Subset
  <2>5. Cardinality(Passers(s) \union {r}) = Cardinality(Passers(s)) + 1
    BY <2>2, <2>4, FS_AddElement
  <2>6. Cardinality(Passers(s) \union {r}) <= Cardinality(Passers(s)')
    BY <2>2, <2>3, FS_Subset
  <2> QED
    BY <1>1, <2>1, <2>3, <2>5, <2>6 DEF RunsSoFar
<1> QED
  BY <1>3, <1>4

LEMMA EffectsAreRunsStay ==
  ASSUME PlacesInv, EffectsAreRuns, [ActionNext]_actionVars
  PROVE  EffectsAreRuns'
<1> SUFFICES ASSUME NEW s \in Steps
             PROVE  effects'[s] + late'[s] <= lost'[s] + RunsSoFar(s)'
  BY DEF EffectsAreRuns
<1>1. /\ effects[s] \in Nat /\ late[s] \in Nat /\ lost[s] \in Nat
      /\ effects'[s] \in Nat /\ late'[s] \in Nat /\ lost'[s] \in Nat
  BY PlacesStay DEF PlacesInv, ActionTypeOK, EffectTypes
<1>2. effects[s] + late[s] <= lost[s] + RunsSoFar(s)
  BY DEF EffectsAreRuns
<1>3. CASE EffectPaid(s)
  BY <1>1, <1>2, <1>3, RunsGrow DEF EffectPaid
<1>4. CASE EffectOfAnswer(s)
  <2>1. PICK r \in approvals \union {Chat} : AnswerOk(r) /\ runner[r].step = s
    BY <1>4 DEF EffectOfAnswer
  <2>2. RunsSoFar(s) + 1 <= RunsSoFar(s)'
    BY <2>1, AnswerIsRun
  <2> QED
    BY <1>1, <1>2, <1>4, <2>2, RunsGrow DEF EffectOfAnswer
<1> QED
  BY <1>3, <1>4, EffectsOfStep

-----------------------------------------------------------------------------
(* Nothing after a failure *)

\* A step has an effect only when the turn or an approved request has come to it.
StepReached ==
  \A s \in Steps : effects[s] + late[s] > 0 => \E r \in approvals \union {Chat} : s <= runner[r].step

\* A failed step is where the turn, or the request that ran it, has ended.
FailedIsLast ==
  \A s \in failed :
    \/ pausedAt = 0 /\ runner[Chat].step = s /\ At(Chat, "stopped")
    \/ \E r \in approvals : runner[r].step = s /\ ~At(r, "call")

LEMMA StepsAreNumbers ==
  ASSUME PlacesInv, [ActionNext]_actionVars, NEW r \in approvals \union {Chat}
  PROVE  runner[r].step \in Int /\ runner'[r].step \in Int
<1>1. r \in Runners /\ runner[r].step \in Int
  BY ActionFacts
<1>2. runner' \in [Runners -> RunnerRecords']
  BY PlacesStay DEF PlacesInv, ActionTypeOK, RunnerTypes
<1>3. runner'[r] \in RunnerRecords'
  BY <1>1, <1>2
<1> QED
  BY <1>1, <1>3 DEF RunnerRecords

LEMMA StepReachedStays ==
  ASSUME PlacesInv, StepReached, [ActionNext]_actionVars
  PROVE  StepReached'
<1> SUFFICES ASSUME NEW s \in Steps, effects'[s] + late'[s] > 0
             PROVE  \E r \in approvals' \union {Chat} : s <= runner'[r].step
  BY DEF StepReached
<1>1. PICK r \in approvals \union {Chat} : s <= runner[r].step
  <2>1. EffectReached(s)
    BY EffectsOfStep
  <2>2. s <= s
    BY DEF Steps
  <2> QED
    BY <2>1, <2>2 DEF EffectReached, StepReached
<1>2. Forward(r) /\ r \in approvals' \union {Chat}
  BY ForwardOnly
<1>3. runner[r].step \in Int /\ runner'[r].step \in Int /\ s \in Int
  BY StepsAreNumbers DEF Steps
<1> QED
  BY <1>1, <1>2, <1>3 DEF Forward

\* A step fails where its caller then ends.
LEMMA FailureOfStep ==
  ASSUME PlacesInv, [ActionNext]_actionVars
  PROVE  \/ failed' = failed
         \/ \E r \in approvals \union {Chat} :
              /\ At(r, "call") /\ AfterFailure(r) /\ failed' = failed \union {runner[r].step}
              /\ pausedAt' = pausedAt /\ approvals' = approvals
<1>1. CASE \E r \in Runners : CallFails(r) \/ LoseAnswer(r)
  <2>1. PICK r \in Runners : CallFails(r) \/ LoseAnswer(r)
    BY <1>1
  <2>2. At(r, "call") /\ r \in approvals \union {Chat}
    BY <2>1, ActionFacts DEF CallFails, LoseAnswer
  <2> QED
    BY <2>1, <2>2 DEF CallFails, LoseAnswer, storeVars
<1>2. CASE ~\E r \in Runners : CallFails(r) \/ LoseAnswer(r)
  BY <1>2 DEF ActionNext, Call, RequestStep, actionVars, historyVars,
       TurnStep, TurnEnd, PassDeadline, Evict, Crash, AnswerOk, AnswerNo,
       TokenRefused, DecideInMemory, ReadRedis, WriteRedis, Refuse, MarkExecuted, LateEffect
<1> QED
  BY <1>1, <1>2

LEMMA FailedIsLastStays ==
  ASSUME PlacesInv, FailedIsLast, [ActionNext]_actionVars
  PROVE  FailedIsLast'
<1> SUFFICES ASSUME NEW s \in failed'
             PROVE  (\/ pausedAt = 0 /\ runner[Chat].step = s /\ At(Chat, "stopped")
                     \/ \E r \in approvals : runner[r].step = s /\ ~At(r, "call"))'
  BY DEF FailedIsLast
<1>1. CASE s \in failed
  <2>1. CASE pausedAt = 0 /\ runner[Chat].step = s /\ At(Chat, "stopped")
    <3>1. pausedAt' = pausedAt
      BY <2>1, PauseIsTurn DEF At
    <3>2. Forward(Chat)
      BY ForwardOnly
    <3> QED
      BY <2>1, <3>1, <3>2 DEF Forward, At
  <2>2. ASSUME NEW r \in approvals, runner[r].step = s, ~At(r, "call")
        PROVE  \E q \in approvals' : runner'[q].step = s /\ ~At(q, "call")'
    <3>1. ~At(r, "step")
      BY ActionFacts DEF PlacesInv, RequestInv
    <3>2. Forward(r) /\ r \in approvals'
      BY ForwardOnly
    <3> QED
      BY <2>2, <3>1, <3>2 DEF Forward, At
  <2> QED
    BY <1>1, <2>1, <2>2 DEF FailedIsLast
<1>2. CASE s \notin failed
  <2>1. PICK r \in approvals \union {Chat} :
          /\ At(r, "call") /\ AfterFailure(r) /\ failed' = failed \union {runner[r].step}
          /\ pausedAt' = pausedAt /\ approvals' = approvals
    BY <1>2, FailureOfStep
  <2>2. s = runner[r].step /\ r \in Runners /\ runner \in [Runners -> RunnerRecords]
    BY <1>2, <2>1, ActionFacts
  <2>3. runner'[r].step = s /\ runner'[r].at = IF r = Chat THEN "stopped" ELSE "mark"
    BY <2>1, <2>2 DEF AfterFailure, Go, RunnerRecords
  <2>4. r = Chat => pausedAt = 0
    BY <2>1 DEF PlacesInv, TurnInv
  <2> QED
    BY <2>1, <2>3, <2>4 DEF At
<1> QED
  BY <1>1, <1>2

LEMMA NothingFollowsFailure ==
  ASSUME PlacesInv, StepReached, FailedIsLast
  PROVE  NothingAfterFailure
<1> SUFFICES ASSUME Cardinality(approvals) <= 1, NEW s \in failed, NEW t \in Steps, t > s, effects[t] + late[t] # 0
             PROVE  FALSE
  BY DEF NothingAfterFailure
<1>1. /\ effects[t] + late[t] > 0 /\ t \in Int /\ s \in Int /\ runner[Chat].step \in Int
      /\ approvals \subseteq Requests /\ \A r \in Runners : runner[r].step \in Int
  <2>1. /\ effects[t] \in Nat /\ late[t] \in Nat /\ failed \subseteq Steps /\ approvals \subseteq Confirms
        /\ \A r \in Runners : runner[r].step \in Int
    BY DEF PlacesInv, ActionTypeOK, EffectTypes, RunnerTypes, RunnerRecords
  <2> QED
    BY <2>1 DEF Steps, Runners, Requests
<1>2. PICK r \in approvals \union {Chat} : t <= runner[r].step
  BY <1>1 DEF StepReached
<1>3. CASE pausedAt = 0 /\ runner[Chat].step = s
  <2>1. approvals = {}
    BY <1>3 DEF PlacesInv, TurnInv
  <2> QED
    BY <1>1, <1>2, <1>3, <2>1
<1>4. CASE \E q \in approvals : runner[q].step = s
  <2>1. PICK q \in approvals : runner[q].step = s
    BY <1>4
  <2>2. approvals = {q}
    <3>1. IsFiniteSet(approvals)
      BY <1>1, RunnersFinite DEF Runners
    <3>2. Cardinality(approvals) # 0 /\ Cardinality(approvals) \in Nat
      BY <2>1, <3>1, FS_EmptySet, FS_CardinalityType
    <3>3. Cardinality(approvals) = 1
      BY <3>2
    <3>4. \A S : IsFiniteSet(S) /\ Cardinality(S) = 1 => \E x : S = {x}
      BY FS_Singleton
    <3> QED
      BY <2>1, <3>1, <3>3, <3>4
  <2>3. pausedAt # 0 /\ pausedAt <= s
    BY <1>1, <2>1 DEF PlacesInv, TurnInv, RequestInv
  <2>4. runner[Chat].step <= s
    BY <1>1, <2>3 DEF PlacesInv, TurnInv
  <2>5. runner[r].step <= s
    BY <1>2, <2>1, <2>2, <2>4, <1>1
  <2> QED
    BY <1>1, <1>2, <2>5 DEF Runners
<1> QED
  BY <1>3, <1>4 DEF FailedIsLast

-----------------------------------------------------------------------------
(* The campaign a plan starts *)

\* A turn that still aims at the session's campaign has created none, or was refused one.
SessionIsTarget ==
  target = "session" =>
    \A s \in 1 .. Len(plan) : s < runner[Chat].step /\ plan[s] = "create_campaign" => refusals

\* What moves the turn on, and what a start is aimed at.
LEMMA TargetOfStep ==
  ASSUME PlacesInv, [ActionNext]_actionVars
  PROVE  /\ refusals => refusals'
         /\ \/ target' = target /\ runner'[Chat].step = runner[Chat].step
            \/ /\ At(Chat, "call") /\ runner'[Chat].step = runner[Chat].step + 1
               /\ \/ target' = IF Tool(Chat) = "create_campaign" THEN "new" ELSE target
                  \/ target' = target /\ (Tool(Chat) = "create_campaign" => refusals')
         /\ "session" \in started' =>
              "session" \in started
              \/ (pausedAt \in Steps /\ plan[pausedAt] = "start_campaign" /\ target = "session")
<1> USE AgentActionsAssumption DEF storeVars, effectVars, historyVars, RunnerRecords
<1>p. /\ runner \in [Runners -> RunnerRecords] /\ Chat \in Runners /\ Chat \notin Requests
      /\ Requests \subseteq Runners
      /\ \A r \in Runners : At(r, "call") => runner[r].step \in Steps
  BY ActionFacts
<1>s. ASSUME NEW r \in Runners, At(r, "call"), AfterAnswer(r)
      PROVE  /\ r = Chat => runner'[Chat].step = runner[Chat].step + 1
             /\ r # Chat => runner'[Chat] = runner[Chat]
  <2>1. CASE r = Chat
    <3>1. runner' = [runner EXCEPT ![r] = [runner[r] EXCEPT !.at = "step", !.step = runner[r].step + 1]]
      BY <1>s, <2>1 DEF AfterAnswer
    <3> QED
      BY <1>p, <2>1, <3>1
  <2>2. CASE r # Chat
    BY <1>p, <1>s, <2>2 DEF AfterAnswer, Go, Dispatch
  <2> QED
    BY <2>1, <2>2
<1>1. CASE \/ TurnStep \/ TurnEnd \/ PassDeadline \/ Evict \/ Crash \/ UNCHANGED actionVars
           \/ \E r \in Runners : CallFails(r) \/ LoseAnswer(r) \/ TokenRefused(r)
           \/ \E r \in Requests : RequestStep(r)
  <2>1. target' = target /\ refusals' = refusals /\ started' = started
    BY <1>1 DEF TurnStep, TurnEnd, PassDeadline, Evict, Crash, actionVars, CallFails, LoseAnswer, TokenRefused,
                RequestStep, DecideInMemory, ReadRedis, WriteRedis, Refuse, MarkExecuted
  <2>2. runner'[Chat].step = runner[Chat].step
    <3>1. CASE TurnStep
      BY <1>p, <3>1 DEF TurnStep, Go, Dispatch
    <3>2. CASE TurnEnd
      BY <1>p, <3>2 DEF TurnEnd, Go
    <3>3. CASE PassDeadline \/ Evict \/ UNCHANGED actionVars
      BY <3>3 DEF PassDeadline, Evict, actionVars
    <3>4. CASE Crash
      BY <1>p, <3>4 DEF Crash
    <3>5. ASSUME NEW r \in Runners, CallFails(r) \/ LoseAnswer(r) \/ TokenRefused(r)
          PROVE  runner'[Chat].step = runner[Chat].step
      BY <1>p, <3>5 DEF CallFails, LoseAnswer, TokenRefused, AfterFailure, Go
    <3>6. ASSUME NEW r \in Requests, RequestStep(r)
          PROVE  runner'[Chat].step = runner[Chat].step
      BY <1>p, <3>6 DEF RequestStep, DecideInMemory, ReadRedis, WriteRedis, Refuse, MarkExecuted, Settle, Go
    <3> QED
      BY <1>1, <3>1, <3>2, <3>3, <3>4, <3>5, <3>6
  <2> QED
    BY <2>1, <2>2
<1>2. ASSUME NEW r \in Runners, AnswerOk(r)
      PROVE  /\ refusals' = refusals
             /\ "session" \in started' =>
                  "session" \in started
                  \/ (pausedAt \in Steps /\ plan[pausedAt] = "start_campaign" /\ target = "session")
             /\ target' = IF r = Chat /\ Tool(r) = "create_campaign" THEN "new" ELSE target
             /\ r = Chat => At(Chat, "call") /\ runner'[Chat].step = runner[Chat].step + 1
             /\ r # Chat => runner'[Chat] = runner[Chat]
  BY <1>2, <1>p, <1>s DEF AnswerOk, TakeEffect, CaptureCreated
<1>3. ASSUME NEW r \in Runners, AnswerNo(r)
      PROVE  /\ refusals => refusals'
             /\ started' = started /\ target' = target
             /\ r = Chat => At(Chat, "call") /\ runner'[Chat].step = runner[Chat].step + 1
             /\ r # Chat => runner'[Chat] = runner[Chat]
             /\ Tool(r) = "create_campaign" => refusals'
  <2>1. At(r, "call") /\ AfterAnswer(r) /\ started' = started /\ target' = target
    BY <1>3 DEF AnswerNo
  <2>2. refusals' = (refusals \/ Tool(r) = "create_campaign")
    BY <1>3 DEF AnswerNo
  <2>3. (refusals => refusals') /\ (Tool(r) = "create_campaign" => refusals')
    BY <2>2, Zenon
  <2> QED
    BY <1>p, <1>s, <2>1, <2>3
<1>4. ASSUME NEW s \in Steps, LateEffect(s)
      PROVE  /\ refusals' = refusals /\ target' = target /\ runner' = runner
             /\ "session" \in started' =>
                  "session" \in started
                  \/ (pausedAt \in Steps /\ plan[pausedAt] = "start_campaign" /\ target = "session")
  BY <1>4 DEF LateEffect, TakeEffect
<1> QED
  BY <1>1, <1>2, <1>3, <1>4 DEF ActionNext, Call

LEMMA SessionIsTargetStays ==
  ASSUME PlacesInv, SessionIsTarget, [ActionNext]_actionVars
  PROVE  SessionIsTarget'
<1> SUFFICES ASSUME target' = "session", NEW s \in 1 .. Len(plan'), s < runner'[Chat].step, plan'[s] = "create_campaign"
             PROVE  refusals'
  BY DEF SessionIsTarget
<1>1. plan' = plan /\ s \in 1 .. Len(plan) /\ s \in Int /\ runner[Chat].step \in Int
  BY ActionFacts
<1>2. CASE s < runner[Chat].step /\ target = "session"
  BY <1>1, <1>2, TargetOfStep DEF SessionIsTarget
<1>3. CASE ~(s < runner[Chat].step) /\ target = "session"
  <2>1. /\ \/ target' = IF Tool(Chat) = "create_campaign" THEN "new" ELSE target
           \/ Tool(Chat) = "create_campaign" => refusals'
        /\ runner'[Chat].step = runner[Chat].step + 1
    BY <1>3, TargetOfStep
  <2>2. s = runner[Chat].step
    BY <1>1, <1>3, <2>1
  <2> QED
    BY <1>1, <2>1, <2>2 DEF Tool
<1> QED
  BY <1>2, <1>3, TargetOfStep

LEMMA StartsStay ==
  ASSUME PlacesInv, SessionIsTarget, StartsWhatItCreated, [ActionNext]_actionVars
  PROVE  StartsWhatItCreated'
<1> SUFFICES ASSUME "session" \in started', NEW s \in 1 .. pausedAt', plan'[s] = "create_campaign"
             PROVE  refusals'
  BY DEF StartsWhatItCreated
<1>1. plan' = plan
  BY ActionFacts
<1>2. pausedAt # 0
  BY TargetOfStep DEF PlacesInv, TurnInv, Steps
<1>3. /\ pausedAt' = pausedAt /\ s \in 1 .. pausedAt
      /\ runner[Chat].step = pausedAt /\ pausedAt \in 1 .. Len(plan) /\ Len(plan) \in 0 .. 3
  BY <1>2, ForwardOnly, ActionFacts DEF PlacesInv, TurnInv
<1>4. CASE "session" \in started
  BY <1>1, <1>3, <1>4, TargetOfStep DEF StartsWhatItCreated
<1>5. CASE plan[pausedAt] = "start_campaign" /\ target = "session"
  <2>1. s # pausedAt
    BY <1>1, <1>5
  <2>2. s \in 1 .. Len(plan) /\ s < runner[Chat].step
    BY <1>3, <2>1
  <2> QED
    BY <1>1, <1>5, <2>2, TargetOfStep DEF SessionIsTarget
<1> QED
  BY <1>4, <1>5, TargetOfStep

-----------------------------------------------------------------------------
(* The theorems *)

ActionInv ==
  /\ PlacesInv /\ DecidedOnce /\ RiskIsApproved
  /\ EffectsAreRuns /\ StepReached /\ FailedIsLast
  /\ SessionIsTarget /\ StartsWhatItCreated

LEMMA ActionInvHolds == ActionSpec => []ActionInv
<1>1. ASSUME ActionInit
      PROVE  ActionInv
  <2>1. PlacesInv /\ Len(plan) \in 0 .. 3 /\ 1 .. Len(plan) \subseteq Steps
    BY <1>1, PlacesInit, PlanFacts DEF PlacesInv, ActionTypeOK
  <2>2. /\ effects = [s \in Steps |-> 0] /\ late = [s \in Steps |-> 0] /\ lost = [s \in Steps |-> 0]
        /\ approvals = {} /\ failed = {} /\ started = {} /\ pausedAt = 0 /\ runner[Chat].step = 1
    BY <1>1 DEF ActionInit, Runners
  <2>3. \A s \in Steps : effects[s] + late[s] = 0 /\ lost[s] = 0
    BY <2>2
  <2>4. DecidedOnce
    BY <2>2, FS_EmptySet DEF DecidedOnce
  <2>5. RiskIsApproved /\ StepReached
    BY <2>1, <2>3 DEF RiskIsApproved, StepReached
  <2>6. EffectsAreRuns
    <3>1. \A s \in Steps : RunsSoFar(s) \in {0, 1}
      BY <2>2 DEF RunsSoFar
    <3> QED
      BY <2>3, <3>1 DEF EffectsAreRuns
  <2>7. FailedIsLast /\ SessionIsTarget /\ StartsWhatItCreated
    BY <2>1, <2>2 DEF FailedIsLast, SessionIsTarget, StartsWhatItCreated
  <2> QED
    BY <2>1, <2>4, <2>5, <2>6, <2>7 DEF ActionInv
<1>2. ActionInv /\ [ActionNext]_actionVars => ActionInv'
  BY PlacesStay, DecidedOnceStays, RiskIsApprovedStays, EffectsAreRunsStay, StepReachedStays,
     FailedIsLastStays, SessionIsTargetStays, StartsStay DEF ActionInv
<1> QED
  BY <1>1, <1>2, PTL DEF ActionSpec

\* The variables of a plan's run keep their types: a request is at a place and a step the
\* code has, and has made at most MaxAttempts calls for it.
THEOREM ActionsTypeCorrect == ActionSpec => []ActionTypeOK
BY ActionInvHolds, PTL DEF ActionInv, PlacesInv

\* Whatever requests race to confirm or cancel an action that the process keeps in memory,
\* one approval at most is acted upon; and with either store no risky step reaches the
\* backend without an approval (confirm of pendingAction.service.ts).
THEOREM ApprovalIsAskedFor == ActionSpec => []ApprovalHolds
<1>1. ActionInv => ApprovalHolds
  BY DEF ActionInv, ApprovalHolds, ApprovedOnce, RiskNeedsApproval, DecidedOnce, RiskIsApproved
<1> QED
  BY <1>1, ActionInvHolds, PTL

\* A step takes effect as often as it is run and answers of it were lost; nothing is done
\* after a step that failed; and a plan that created a campaign starts that one
\* (planExecution.service.ts, mcpToolCaller.service.ts).
THEOREM PlanStepsInOrder == ActionSpec => []PlanStepsHold
<1>1. ASSUME ActionInv
      PROVE  RepeatsAreLostAnswers
  <2>1. ASSUME NEW s \in Steps
        PROVE  effects[s] + late[s] <= Runs(s) + lost[s]
    <3>1. /\ effects[s] \in Nat /\ late[s] \in Nat /\ lost[s] \in Nat
          /\ approvals \subseteq Runners
      BY <1>1 DEF ActionInv, PlacesInv, ActionTypeOK, EffectTypes, Runners, Requests
    <3>2. effects[s] + late[s] <= lost[s] + RunsSoFar(s)
      BY <1>1 DEF ActionInv, EffectsAreRuns
    <3>3. /\ Passers(s) \subseteq approvals /\ IsFiniteSet(approvals)
          /\ Cardinality(approvals) \in Nat
      BY <3>1, RunnersFinite DEF Passers
    <3>4. Cardinality(Passers(s)) <= Cardinality(approvals) /\ Cardinality(Passers(s)) \in Nat
      BY <3>3, FS_Subset, FS_CardinalityType
    <3>5. RunsSoFar(s) <= Runs(s) /\ RunsSoFar(s) \in Nat /\ Runs(s) \in Nat
      BY <3>3, <3>4 DEF RunsSoFar, Runs
    <3> QED
      BY <3>1, <3>2, <3>5
  <2> QED
    BY <2>1 DEF RepeatsAreLostAnswers
<1>2. ActionInv => PlanStepsHold
  BY <1>1, NothingFollowsFailure DEF ActionInv, PlanStepsHold
<1> QED
  BY <1>2, ActionInvHolds, PTL

-----------------------------------------------------------------------------
(* What a snapshot of the wizard says of its campaign *)

Later == {"tone", "custom_prompt", "generate", "review", "approve"}
Told == {"createRefused", "answerLost"}

\* The count is that of the active campaign, and is done before the later steps.
CountIsSound(s) ==
  /\ s.step \in Before \union {"recipient_source"} => s.count = "unknown"
  /\ s.count = "some" => s.active \in counted
  /\ s.step \in Later => s.active \in counted
  /\ s.choosing => s.step = "confirm_create" /\ "smtpChosen" \in troubles

\* After the creation the active campaign is the new one, as far as its answer told.
IsNew(s) == s.active = Old => troubles \intersect Told # {}
CampaignIsNew(s) == s.step \in After => IsNew(s)

\* The emails are written before they are reviewed.
HasEmails(s) == s.active \in written \/ "writingFailed" \in troubles
EmailsAreWritten(s) == s.step \in {"review", "approve"} => HasEmails(s)

\* A turn's copy is a sound snapshot, except for what its tool is still to do.
TurnIsSound(u) ==
  /\ u.at = "tool" <=> u.tool # "none"
  /\ u.at # "idle" =>
       /\ CountIsSound(u.copy)
       /\ u.tool # "create_campaign" => CampaignIsNew(u.copy)
       /\ u.tool # "generate_personalized_emails" => EmailsAreWritten(u.copy)
  /\ u.tool = "create_campaign" => u.copy.step \in {"recipient_source", "confirm_create"}
  /\ u.tool = "generate_personalized_emails" => u.copy.step = "review"
  /\ u.tool \notin {"none", "create_campaign"} => u.copy.active # NoCampaign
  /\ u.tool = "get_recipient_count" => u.copy.step = "check_count"
  /\ u.tool = "start_campaign" => u.copy.active \in counted /\ IsNew(u.copy) /\ HasEmails(u.copy)

SnapshotsInv ==
  /\ CountIsSound(session) /\ CampaignIsNew(session) /\ EmailsAreWritten(session)
  /\ \A t \in Turns : TurnIsSound(turn[t])

Meddled == {"smtpChosen", "answerLost", "saveLost", "overlap"}

\* Where nothing has meddled, one turn at most is under way, and before the creation nothing is
\* created.
CreationInv ==
  troubles \intersect Meddled = {} =>
    /\ \A t, u \in Turns : turn[t].at # "idle" /\ turn[u].at # "idle" => t = u
    /\ (\A t \in Turns : turn[t].at = "idle") /\ session.step \in Before => created = earlier
    /\ \A t \in Turns : turn[t].at # "idle" =>
         /\ Copy(t).step \in Before => created = earlier
         /\ turn[t].tool = "create_campaign" => Copy(t).step \notin Before

WizardInv ==
  /\ WizardTypeOK /\ SnapshotsInv /\ CreationInv
  /\ AskedIsCounted /\ OldLaunchNeedsRefusedCreate /\ AskedIsWritten

-----------------------------------------------------------------------------
(* Snapshots and answers *)

TurnRecords == [at : {"idle", "tool", "save"}, copy : Snapshots, tool : WizardTools]

\* What is known of campaigns and troubles is only added to.
Grows == counted \subseteq counted' /\ written \subseteq written' /\ troubles \subseteq troubles'

LEMMA SoundStays ==
  ASSUME Grows
  PROVE  /\ \A s : CountIsSound(s) => CountIsSound(s)'
         /\ \A s : CampaignIsNew(s) => CampaignIsNew(s)'
         /\ \A s : EmailsAreWritten(s) => EmailsAreWritten(s)'
         /\ \A u : TurnIsSound(u) => TurnIsSound(u)'
<1>1. ASSUME NEW s
      PROVE  /\ CountIsSound(s) => CountIsSound(s)'
             /\ IsNew(s) => IsNew(s)'
             /\ HasEmails(s) => HasEmails(s)'
             /\ CampaignIsNew(s) => CampaignIsNew(s)'
             /\ EmailsAreWritten(s) => EmailsAreWritten(s)'
  BY DEF Grows, CountIsSound, CampaignIsNew, EmailsAreWritten, IsNew, HasEmails
<1>2. ASSUME NEW u, TurnIsSound(u)
      PROVE  TurnIsSound(u)'
  <2>1. u.copy.active \in counted => u.copy.active \in counted'
    BY DEF Grows
  <2> QED
    BY <1>1, <1>2, <2>1 DEF TurnIsSound
<1> QED
  BY <1>1, <1>2

\* One turn moves; the session and the other turns stay.
LEMMA TurnMoves ==
  ASSUME WizardTypeOK, SnapshotsInv, Grows, session' = session, NEW t \in Turns,
         NEW u \in TurnRecords, turn' = [turn EXCEPT ![t] = u], TurnIsSound(u)'
  PROVE  SnapshotsInv' /\ turn' \in [Turns -> TurnRecords]
<1>1. turn \in [Turns -> TurnRecords]
  BY DEF WizardTypeOK, TurnRecords
<1>2. turn'[t] = u /\ \A o \in Turns \ {t} : turn'[o] = turn[o]
  BY <1>1
<1>3. ASSUME NEW o \in Turns
      PROVE  TurnIsSound(turn[o])'
  <2>1. PICK v : v = turn'[o] /\ TurnIsSound(v)'
    BY <1>2, SoundStays DEF SnapshotsInv
  <2> QED
    BY <2>1 DEF TurnIsSound, CountIsSound, CampaignIsNew, EmailsAreWritten, IsNew, HasEmails
<1>4. (CountIsSound(session) /\ CampaignIsNew(session) /\ EmailsAreWritten(session))'
  BY SoundStays DEF SnapshotsInv, CountIsSound, CampaignIsNew, EmailsAreWritten, IsNew, HasEmails, Grows
<1> QED
  BY <1>1, <1>3, <1>4 DEF SnapshotsInv

\* A turn is done with its tool.
LEMMA TurnToSave ==
  ASSUME WizardTypeOK, SnapshotsInv, Grows, session' = session, NEW t \in Turns,
         NEW s \in Snapshots, ToSave(t, s),
         CountIsSound(s)', CampaignIsNew(s)', EmailsAreWritten(s)'
  PROVE  SnapshotsInv' /\ turn' \in [Turns -> TurnRecords]
<1> DEFINE u == [at |-> "save", copy |-> s, tool |-> "none"]
<1>1. u \in TurnRecords /\ turn' = [turn EXCEPT ![t] = u]
  BY DEF TurnRecords, WizardTools, ToSave
<1>2. u.at = "save" /\ u.copy = s /\ u.tool = "none"
  OBVIOUS
<1> HIDE DEF u
<1>3. TurnIsSound(u)'
  BY <1>2 DEF TurnIsSound
<1> QED
  BY <1>1, <1>3, TurnMoves

\* What the campaign agent may answer, step by step.
LEMMA AnswerFacts ==
  ASSUME NEW s \in Snapshots, s.step # "off", NEW m \in {"yes", "edit", "text"}, NEW a \in WizardAnswers(s, m)
  PROVE  /\ a.step \in WizardSteps /\ a.tool \in WizardTools
         /\ a.step \in Before => s.step \in Before /\ a.tool = "none"
         /\ a.step = "recipient_source" =>
              \/ s.step = "confirm_create" /\ a.tool = "create_campaign"
              \/ s.step = "recipient_source"
         /\ a.step \in Later =>
              s.step \in Later \/ (s.step = "check_count" /\ s.count = "some" /\ s.active # NoCampaign)
         /\ a.step \in After => s.step \in After \/ a.tool = "create_campaign"
         /\ a.step \in {"review", "approve"} =>
              s.step \in {"review", "approve"} \/ a.tool = "generate_personalized_emails"
         /\ a.tool = "create_campaign" => a.step = "recipient_source"
         /\ a.tool = "generate_personalized_emails" => a.step = "review"
         /\ a.tool = "get_recipient_count" => a.step = "check_count"
         /\ a.tool = "start_campaign" => s.step = "approve"
         /\ a.tool \notin {"none", "create_campaign"} => s.active # NoCampaign
<1>d. /\ DOMAIN Collects = {"campaign_name", "campaign_subject", "template_selection", "tone"}
      /\ DOMAIN Calls = {"recipient_source", "upload_recipients", "custom_prompt", "generate", "review"}
  BY DEF Collects, Calls
<1>1. CASE s.step \in DOMAIN Collects
  <2>1. a = To(Collects[s.step], "none") \/ a = To(s.step, "none")
    BY <1>d, <1>1 DEF WizardAnswers
  <2>2. \/ s.step = "campaign_name" /\ Collects[s.step] = "campaign_subject"
        \/ s.step = "campaign_subject" /\ Collects[s.step] = "template_selection"
        \/ s.step = "template_selection" /\ Collects[s.step] = "campaign_body"
        \/ s.step = "tone" /\ Collects[s.step] = "custom_prompt"
    BY <1>1 DEF Collects
  <2> QED
    BY <2>1, <2>2 DEF To, WizardTools, Before, After, Later, WizardSteps
<1>2. CASE s.step = "campaign_body"
  <2>1. a = To(IF m = "yes" THEN "confirm_create" ELSE "campaign_body", "none")
    BY <1>d, <1>2 DEF WizardAnswers
  <2> QED
    BY <1>2, <2>1 DEF To, WizardTools, Before, After, Later, WizardSteps
<1>3. CASE s.step = "confirm_create"
  <2>1. a = Summary(m)
    BY <1>d, <1>3 DEF WizardAnswers
  <2> QED
    BY <1>3, <2>1 DEF Summary, To, WizardTools, Before, After, Later, WizardSteps
<1>4. CASE s.step = "check_count"
  <2>1. a = CheckCount(s)
    BY <1>d, <1>4 DEF WizardAnswers
  <2> QED
    BY <1>4, <2>1 DEF CheckCount, To, WizardTools, Before, After, Later, WizardSteps
<1>5. CASE s.step \in DOMAIN Calls
  <2>1. a = CallTool(s)
    BY <1>d, <1>5 DEF WizardAnswers
  <2>2. \/ s.step = "recipient_source" /\ Calls[s.step] = To("check_count", "get_recipient_count")
        \/ s.step = "upload_recipients" /\ Calls[s.step] = To("check_count", "get_recipient_count")
        \/ s.step = "custom_prompt" /\ Calls[s.step] = To("generate", "save_ai_prompt")
        \/ s.step = "generate" /\ Calls[s.step] = To("review", "generate_personalized_emails")
        \/ s.step = "review" /\ Calls[s.step] = To("approve", "get_personalized_emails")
    BY <1>5 DEF Calls
  <2>3. CASE s.active = NoCampaign
    BY <2>1, <2>2, <2>3 DEF CallTool, Waits, To, WizardTools, Before, After, Later, WizardSteps
  <2>4. CASE s.active # NoCampaign
    BY <2>1, <2>2, <2>4 DEF CallTool, To, WizardTools, Before, After, Later, WizardSteps
  <2> QED
    BY <2>3, <2>4
<1>6. CASE s.step = "approve"
  <2>1. a = Launch(s, m)
    BY <1>d, <1>6 DEF WizardAnswers
  <2> QED
    BY <1>6, <2>1 DEF Launch, To, WizardTools, Before, After, Later, WizardSteps
<1>7. s.step \in Before \union After
  BY DEF Snapshots, WizardSteps
<1> QED
  BY <1>1, <1>2, <1>3, <1>4, <1>5, <1>6, <1>7, <1>d DEF Before, After

-----------------------------------------------------------------------------
(* The steps of a turn *)

LEMMA TurnFacts ==
  ASSUME WizardTypeOK, SnapshotsInv, NEW t \in Turns
  PROVE  /\ turn[t] \in TurnRecords /\ Copy(t) \in Snapshots /\ TurnIsSound(turn[t])
         /\ turn \in [Turns -> TurnRecords]
BY DEF WizardTypeOK, TurnRecords, SnapshotsInv, Copy

\* The changes of a snapshot keep it one.
LEMMA SnapshotFacts ==
  ASSUME NEW s \in Snapshots
  PROVE  /\ s.step \in WizardSteps /\ s.count \in {"unknown", "zero", "some"}
         /\ s.active \in Campaigns \union {Old, NoCampaign} /\ s.choosing \in BOOLEAN
         /\ \A step \in WizardSteps : LET n == [s EXCEPT !.step = step] IN
              n \in Snapshots /\ n.step = step /\ n.count = s.count /\ n.active = s.active
              /\ n.choosing = s.choosing
         /\ \A b \in BOOLEAN : LET n == [s EXCEPT !.choosing = b] IN
              n \in Snapshots /\ n.step = s.step /\ n.count = s.count /\ n.active = s.active
              /\ n.choosing = b
         /\ \A k \in {"unknown", "zero", "some"} : LET n == [s EXCEPT !.count = k] IN
              n \in Snapshots /\ n.step = s.step /\ n.count = k /\ n.active = s.active
              /\ n.choosing = s.choosing
BY DEF Snapshots

LEMMA CreateStep ==
  ASSUME WizardInv, NEW t \in Turns, CreateCampaign(t)
  PROVE  SnapshotsInv' /\ turn' \in [Turns -> TurnRecords]
<1> DEFINE s == Copy(t)
<1>1. /\ s \in Snapshots /\ CountIsSound(s) /\ s.step \in {"recipient_source", "confirm_create"}
      /\ EmailsAreWritten(s) /\ WizardTypeOK /\ SnapshotsInv
      /\ session' = session /\ counted' = counted /\ written' = written
  BY TurnFacts DEF WizardInv, TurnIsSound, CreateCampaign, InTool, Copy
<1>2. troubles \subseteq troubles'
  BY DEF CreateCampaign, CreateFails, Trouble
<1>3. Grows
  BY <1>1, <1>2 DEF Grows
<1>4. CASE \E c \in Campaigns : ToSave(t, AfterCreate(t, c))
  <2>1. PICK c \in Campaigns : ToSave(t, AfterCreate(t, c))
    BY <1>4
  <2>2. PICK n : n = AfterCreate(t, c)
    OBVIOUS
  <2>3. n \in Snapshots /\ n.step = s.step /\ n.count = s.count /\ n.active = c /\ n.choosing = FALSE
    BY <1>1, <2>2 DEF AfterCreate, Snapshots
  <2>4. n.count = "unknown"
    BY <1>1, <2>3 DEF CountIsSound, Before
  <2>5. CountIsSound(n)' /\ CampaignIsNew(n)' /\ EmailsAreWritten(n)'
    BY <1>1, <2>3, <2>4, AgentWizardAssumption
    DEF CountIsSound, CampaignIsNew, EmailsAreWritten, IsNew, Later
  <2> QED
    BY <1>1, <1>3, <2>1, <2>2, <2>3, <2>5, TurnToSave
<1>5. CASE CreateFails(t)
  <2>1. CASE ToSave(t, s) /\ troubles' \intersect Told # {}
    <3>1. PICK n : n = s
      OBVIOUS
    <3>2. CountIsSound(n)' /\ CampaignIsNew(n)' /\ EmailsAreWritten(n)'
      BY <1>1, <1>3, <2>1, <3>1, SoundStays DEF CampaignIsNew, IsNew
    <3> QED
      BY <1>1, <1>3, <2>1, <3>1, <3>2, TurnToSave
  <2>2. CASE s.step = "recipient_source" /\ ToSave(t, NeedsSmtpChoice(s)) /\ "smtpChosen" \in troubles'
    <3>1. PICK n : n = NeedsSmtpChoice(s)
      OBVIOUS
    <3>2. n \in Snapshots /\ n.step = "confirm_create" /\ n.count = s.count /\ n.active = s.active
      BY <1>1, <2>2, <3>1 DEF NeedsSmtpChoice, Snapshots, WizardSteps, Before
    <3>3. n.count = "unknown"
      BY <1>1, <3>2 DEF CountIsSound, Before
    <3>4. CountIsSound(n)' /\ CampaignIsNew(n)' /\ EmailsAreWritten(n)'
      BY <1>1, <2>2, <3>2, <3>3
      DEF CountIsSound, CampaignIsNew, EmailsAreWritten, IsNew, Later, After
    <3> QED
      BY <1>1, <1>3, <2>2, <3>1, <3>2, <3>4, TurnToSave
  <2> QED
    BY <1>5, <2>1, <2>2 DEF CreateFails, Trouble, Told
<1> QED
  BY <1>4, <1>5 DEF CreateCampaign

LEMMA CountStep ==
  ASSUME WizardInv, NEW t \in Turns, CountRecipients(t)
  PROVE  SnapshotsInv' /\ turn' \in [Turns -> TurnRecords]
<1> DEFINE s == Copy(t)
<1>1. /\ s \in Snapshots /\ CountIsSound(s) /\ s.step = "check_count"
      /\ CampaignIsNew(s) /\ EmailsAreWritten(s) /\ WizardTypeOK /\ SnapshotsInv
      /\ session' = session /\ troubles' = troubles /\ written' = written
  BY TurnFacts DEF WizardInv, TurnIsSound, CountRecipients, InTool, Copy
<1>2. counted \subseteq counted'
  BY DEF CountRecipients
<1>3. Grows
  BY <1>1, <1>2 DEF Grows
<1>4. PICK n : /\ n \in Snapshots /\ ToSave(t, n) /\ n.step = s.step /\ n.active = s.active
               /\ n.choosing = s.choosing
               /\ n.count = "some" => n.active \in counted'
  <2>1. \A k \in {"some", "zero"} : LET n == [s EXCEPT !.count = k] IN
          /\ n \in Snapshots /\ n.step = s.step /\ n.active = s.active /\ n.choosing = s.choosing
          /\ n.count = k
    BY <1>1 DEF Snapshots
  <2>2. CASE ToSave(t, s)
    BY <1>1, <1>2, <2>2 DEF CountIsSound
  <2>3. CASE s.active \in filled /\ ToSave(t, [s EXCEPT !.count = "some"]) /\ s.active \in counted'
    BY <2>1, <2>3
  <2>4. CASE ToSave(t, [s EXCEPT !.count = "zero"])
    BY <2>1, <2>4
  <2> QED
    BY <2>2, <2>3, <2>4 DEF CountRecipients
<1>5. CountIsSound(n)' /\ CampaignIsNew(n)' /\ EmailsAreWritten(n)'
  BY <1>1, <1>2, <1>4 DEF CountIsSound, CampaignIsNew, EmailsAreWritten, IsNew, Later, Before
<1> QED
  BY <1>1, <1>3, <1>4, <1>5, TurnToSave

LEMMA WriteStep ==
  ASSUME WizardInv, NEW t \in Turns, Write(t)
  PROVE  SnapshotsInv' /\ turn' \in [Turns -> TurnRecords]
<1>1. PICK s : s = Copy(t)
  OBVIOUS
<1>2. /\ s \in Snapshots /\ CountIsSound(s) /\ CampaignIsNew(s) /\ WizardTypeOK /\ SnapshotsInv
      /\ turn[t].tool # "generate_personalized_emails" => EmailsAreWritten(s)
      /\ session' = session /\ counted' = counted /\ ToSave(t, s)
  BY <1>1, TurnFacts DEF WizardInv, TurnIsSound, Write, Copy
<1>3. written \subseteq written' /\ troubles \subseteq troubles'
  BY DEF Write, Trouble
<1>4. Grows
  BY <1>2, <1>3 DEF Grows
<1>5. turn[t].tool = "generate_personalized_emails" => s.active \in written' \/ "writingFailed" \in troubles'
  BY <1>1 DEF Write, Trouble
<1>6. CountIsSound(s)' /\ CampaignIsNew(s)' /\ EmailsAreWritten(s)'
  BY <1>2, <1>4, <1>5, SoundStays DEF EmailsAreWritten, HasEmails
<1> QED
  BY <1>2, <1>4, <1>6, TurnToSave

LEMMA AskStep ==
  ASSUME WizardInv, NEW t \in Turns, AskToStart(t)
  PROVE  SnapshotsInv' /\ turn' \in [Turns -> TurnRecords]
<1>1. PICK s : s = Copy(t)
  OBVIOUS
<1>2. /\ s \in Snapshots /\ CountIsSound(s) /\ CampaignIsNew(s) /\ EmailsAreWritten(s)
      /\ WizardTypeOK /\ SnapshotsInv /\ session' = session /\ ToSave(t, s)
  BY <1>1, TurnFacts DEF WizardInv, TurnIsSound, AskToStart, Copy, InTool
<1>3. Grows
  BY DEF Grows, AskToStart
<1>4. CountIsSound(s)' /\ CampaignIsNew(s)' /\ EmailsAreWritten(s)'
  BY <1>2, <1>3, SoundStays
<1> QED
  BY <1>2, <1>3, <1>4, TurnToSave

LEMMA IdleIsSound == Idle \in TurnRecords /\ Idle.at = "idle" /\ Idle.tool = "none"
BY DEF Idle, TurnRecords, Snapshots, WizardSteps, WizardTools

LEMMA SaveStep ==
  ASSUME WizardInv, NEW t \in Turns, Save(t)
  PROVE  SnapshotsInv' /\ turn' \in [Turns -> TurnRecords] /\ session' \in Snapshots
<1>1. PICK s : s = Copy(t)
  OBVIOUS
<1>2. /\ s \in Snapshots /\ CountIsSound(s) /\ CampaignIsNew(s) /\ EmailsAreWritten(s)
      /\ turn \in [Turns -> TurnRecords] /\ session \in Snapshots
      /\ CountIsSound(session) /\ CampaignIsNew(session) /\ EmailsAreWritten(session)
      /\ \A o \in Turns : TurnIsSound(turn[o])
  BY <1>1, TurnFacts DEF WizardInv, TurnIsSound, Save, Copy, WizardTypeOK, SnapshotsInv
<1>3. Grows
  BY DEF Grows, Save, Trouble
<1>4. PICK n : n = session' /\ n \in Snapshots /\ CountIsSound(n) /\ CampaignIsNew(n) /\ EmailsAreWritten(n)
  BY <1>1, <1>2 DEF Save
<1>5. (CountIsSound(session) /\ CampaignIsNew(session) /\ EmailsAreWritten(session))'
  <2>1. CountIsSound(n)' /\ CampaignIsNew(n)' /\ EmailsAreWritten(n)'
    BY <1>3, <1>4, SoundStays
  <2> QED
    BY <1>4, <2>1 DEF CountIsSound, CampaignIsNew, EmailsAreWritten, IsNew, HasEmails
<1>6. turn'[t] = Idle /\ (\A o \in Turns \ {t} : turn'[o] = turn[o]) /\ turn' \in [Turns -> TurnRecords]
  <2>1. turn' = [turn EXCEPT ![t] = Idle]
    BY DEF Save
  <2> QED
    BY <1>2, <2>1, IdleIsSound
<1>7. ASSUME NEW o \in Turns
      PROVE  TurnIsSound(turn[o])'
  <2>1. CASE o = t
    BY <1>6, <2>1, IdleIsSound DEF TurnIsSound
  <2>2. CASE o # t
    <3>1. PICK v : v = turn'[o] /\ TurnIsSound(v)'
      BY <1>2, <1>3, <1>6, <2>2, SoundStays
    <3> QED
      BY <3>1 DEF TurnIsSound, CountIsSound, CampaignIsNew, EmailsAreWritten, IsNew, HasEmails
  <2> QED
    BY <2>1, <2>2
<1> QED
  BY <1>4, <1>5, <1>6, <1>7 DEF SnapshotsInv

\* A message is answered with a sound copy of the session.
LEMMA ReceiveMoves ==
  ASSUME WizardInv, NEW t \in Turns, NEW m \in Messages, Receive(t, m)
  PROVE  \E n \in Snapshots, tool \in WizardTools :
           /\ Respond(t, n, tool)
           /\ CountIsSound(n)
           /\ tool # "create_campaign" => CampaignIsNew(n)
           /\ tool # "generate_personalized_emails" => EmailsAreWritten(n)
           /\ tool = "create_campaign" => n.step \in {"recipient_source", "confirm_create"}
           /\ tool = "generate_personalized_emails" => n.step = "review"
           /\ tool \notin {"none", "create_campaign"} => n.active # NoCampaign
           /\ tool = "get_recipient_count" => n.step = "check_count"
           /\ tool = "start_campaign" => n.active \in counted /\ IsNew(n) /\ HasEmails(n)
           /\ \/ session.choosing
              \/ Opens(session, m) /\ n.step = "campaign_name"
              \/ /\ ~Opens(session, m)
                 /\ n.step \in Before => session.step \in Before
                 /\ tool = "create_campaign" => n.step \notin Before
<1>1. /\ session \in Snapshots /\ CountIsSound(session) /\ CampaignIsNew(session) /\ EmailsAreWritten(session)
  BY DEF WizardInv, WizardTypeOK, SnapshotsInv
<1>2. CASE session.choosing
  <2>1. PICK a \in SmtpAnswers(session, m) :
          Respond(t, [session EXCEPT !.choosing = m \notin {"cancel", "yes"}], a.tool)
    BY <1>2 DEF Receive
  <2>2. a.tool \in {"create_campaign", "none"}
    BY DEF SmtpAnswers, To
  <2>3. PICK n : n = [session EXCEPT !.choosing = m \notin {"cancel", "yes"}]
    OBVIOUS
  <2>4. /\ n \in Snapshots /\ n.step = session.step /\ n.count = session.count /\ n.active = session.active
        /\ n.choosing \in BOOLEAN /\ session.step = "confirm_create" /\ "smtpChosen" \in troubles
    BY <1>1, <1>2, <2>3 DEF Snapshots, CountIsSound
  <2>5. CountIsSound(n) /\ CampaignIsNew(n) /\ EmailsAreWritten(n)
    BY <1>1, <2>4 DEF CountIsSound, CampaignIsNew, EmailsAreWritten, After
  <2> QED
    BY <1>2, <2>1, <2>2, <2>3, <2>4, <2>5 DEF WizardTools
<1>3. CASE ~session.choosing /\ Opens(session, m)
  <2>1. PICK n : n = Opened(session)
    OBVIOUS
  <2>2. Respond(t, n, "none")
    BY <1>3, <2>1 DEF Receive
  <2>3. n \in Snapshots /\ n.step = "campaign_name" /\ n.count = "unknown" /\ ~n.choosing
    BY <1>1, <1>3, <2>1 DEF Opened, Snapshots, WizardSteps, Before
  <2>4. CountIsSound(n) /\ CampaignIsNew(n) /\ EmailsAreWritten(n)
    BY <2>3 DEF CountIsSound, CampaignIsNew, EmailsAreWritten, After, Later
  <2> QED
    BY <1>3, <2>2, <2>3, <2>4 DEF WizardTools
<1>4. CASE ~session.choosing /\ ~Opens(session, m) /\ m = "cancel"
  <2>1. PICK n : n = [session EXCEPT !.step = "off"]
    OBVIOUS
  <2>2. Respond(t, n, "none")
    BY <1>4, <2>1 DEF Receive, To
  <2>3. n \in Snapshots /\ n.step = "off" /\ n.count = session.count /\ n.active = session.active /\ ~n.choosing
    BY <1>1, <1>4, <2>1 DEF Snapshots, WizardSteps
  <2>4. CountIsSound(n) /\ CampaignIsNew(n) /\ EmailsAreWritten(n)
    BY <1>1, <2>3 DEF CountIsSound, CampaignIsNew, EmailsAreWritten, After, Later, Before
  <2> QED
    BY <1>4, <2>2, <2>3, <2>4 DEF WizardTools, Before
<1>5. CASE ~session.choosing /\ ~Opens(session, m) /\ m # "cancel"
  <2>1. session.step # "off" /\ m \in {"yes", "edit", "text"}
    BY <1>5 DEF Receive, Messages
  <2>2. PICK a \in WizardAnswers(session, m) : Respond(t, [session EXCEPT !.step = a.step], a.tool)
    BY <1>5 DEF Receive
  <2>3. PICK n, tool : n = [session EXCEPT !.step = a.step] /\ tool = a.tool
    OBVIOUS
  <2>4. PICK step : step = a.step
    OBVIOUS
  <2>5. /\ step \in WizardSteps /\ tool \in WizardTools
        /\ step \in Before => session.step \in Before /\ tool = "none"
        /\ step = "recipient_source" =>
             \/ session.step = "confirm_create" /\ tool = "create_campaign"
             \/ session.step = "recipient_source"
        /\ step \in Later => session.step \in Later
             \/ (session.step = "check_count" /\ session.count = "some" /\ session.active # NoCampaign)
        /\ step \in After => session.step \in After \/ tool = "create_campaign"
        /\ step \in {"review", "approve"} =>
             session.step \in {"review", "approve"} \/ tool = "generate_personalized_emails"
        /\ tool = "create_campaign" => step = "recipient_source"
        /\ tool = "generate_personalized_emails" => step = "review"
        /\ tool = "get_recipient_count" => step = "check_count"
        /\ tool = "start_campaign" => session.step = "approve"
        /\ tool \notin {"none", "create_campaign"} => session.active # NoCampaign
    BY <1>1, <2>1, <2>2, <2>3, <2>4, AnswerFacts
  <2>6. /\ n \in Snapshots /\ n.step = step /\ n.count = session.count /\ n.active = session.active
        /\ ~n.choosing
    BY <1>1, <1>5, <2>3, <2>4, <2>5 DEF Snapshots
  <2>7. CountIsSound(n)
    BY <1>1, <2>5, <2>6 DEF CountIsSound, Before
  <2>8. tool # "create_campaign" => CampaignIsNew(n)
    BY <1>1, <2>5, <2>6 DEF CampaignIsNew, IsNew
  <2>9. tool # "generate_personalized_emails" => EmailsAreWritten(n)
    BY <1>1, <2>5, <2>6 DEF EmailsAreWritten, HasEmails
  <2>10. tool = "start_campaign" => n.active \in counted /\ IsNew(n) /\ HasEmails(n)
    BY <1>1, <2>5, <2>6 DEF CountIsSound, Later, CampaignIsNew, After, EmailsAreWritten, IsNew, HasEmails
  <2>11. tool = "create_campaign" => n.step \notin Before
    BY <2>5, <2>6 DEF Before
  <2> QED
    BY <1>5, <2>2, <2>3, <2>5, <2>6, <2>7, <2>8, <2>9, <2>10, <2>11
<1> QED
  BY <1>2, <1>3, <1>4, <1>5

LEMMA ReceiveStep ==
  ASSUME WizardInv, NEW t \in Turns, NEW m \in Messages, Receive(t, m)
  PROVE  SnapshotsInv' /\ turn' \in [Turns -> TurnRecords]
<1>1. PICK n \in Snapshots, tool \in WizardTools :
        /\ Respond(t, n, tool)
        /\ CountIsSound(n)
        /\ tool # "create_campaign" => CampaignIsNew(n)
        /\ tool # "generate_personalized_emails" => EmailsAreWritten(n)
        /\ tool = "create_campaign" => n.step \in {"recipient_source", "confirm_create"}
        /\ tool = "generate_personalized_emails" => n.step = "review"
        /\ tool \notin {"none", "create_campaign"} => n.active # NoCampaign
        /\ tool = "get_recipient_count" => n.step = "check_count"
        /\ tool = "start_campaign" => n.active \in counted /\ IsNew(n) /\ HasEmails(n)
  BY ReceiveMoves
<1>2. PICK u : u = [at |-> IF tool = "none" THEN "save" ELSE "tool", copy |-> n, tool |-> tool]
  OBVIOUS
<1>3. /\ u \in TurnRecords /\ turn' = [turn EXCEPT ![t] = u]
      /\ u.copy = n /\ u.tool = tool /\ u.at # "idle" /\ (u.at = "tool" <=> tool # "none")
  BY <1>1, <1>2 DEF TurnRecords, Respond
<1>4. Grows /\ session' = session
  BY DEF Grows, Receive
<1>5. TurnIsSound(u)
  BY <1>1, <1>3 DEF TurnIsSound
<1>6. TurnIsSound(u)'
  BY <1>4, <1>5, SoundStays
<1> QED
  BY <1>3, <1>4, <1>6, TurnMoves DEF WizardInv

-----------------------------------------------------------------------------
(* The invariant and the theorem *)

LEMMA RestUnchanged ==
  ASSUME WizardInv, \/ UNCHANGED wizardVars \/ \E c \in Campaigns \union {Old} : UploadRecipients(c)
  PROVE  WizardInv'
<1>1. UNCHANGED <<session, turn, created, written, asked, counted, earlier, troubles>>
  BY DEF wizardVars, UploadRecipients
<1>2. filled' \in SUBSET (Campaigns \union {Old})
  BY DEF WizardInv, WizardTypeOK, wizardVars, UploadRecipients
<1>3. WizardTypeOK'
  BY <1>1, <1>2 DEF WizardInv, WizardTypeOK
<1>4. SnapshotsInv'
  BY <1>1 DEF WizardInv, SnapshotsInv, TurnIsSound, CountIsSound, CampaignIsNew, EmailsAreWritten, IsNew,
              HasEmails
<1>5. CreationInv'
  BY <1>1 DEF WizardInv, CreationInv, Copy
<1> QED
  BY <1>1, <1>3, <1>4, <1>5 DEF WizardInv, AskedIsCounted, OldLaunchNeedsRefusedCreate, AskedIsWritten

WizardStep(t) ==
  \/ \E m \in Messages : Receive(t, m)
  \/ CreateCampaign(t) \/ CountRecipients(t) \/ Write(t) \/ AskToStart(t) \/ Save(t)

LEMMA SnapshotsStay ==
  ASSUME WizardInv, NEW t \in Turns, WizardStep(t)
  PROVE  SnapshotsInv' /\ turn' \in [Turns -> TurnRecords] /\ session' \in Snapshots
<1>1. session' = session => session' \in Snapshots
  BY DEF WizardInv, WizardTypeOK
<1> QED
  BY <1>1, ReceiveStep, CreateStep, CountStep, WriteStep, AskStep, SaveStep
  DEF WizardStep, Receive, CreateCampaign, CountRecipients, Write, AskToStart

LEMMA TypesStay ==
  ASSUME WizardInv, NEW t \in Turns, WizardStep(t)
  PROVE  WizardTypeOK'
<1> USE DEF WizardInv, WizardTypeOK
<1>1. turn' \in [Turns -> [at : {"idle", "tool", "save"}, copy : Snapshots, tool : WizardTools]] /\ session' \in Snapshots
  BY SnapshotsStay DEF TurnRecords
<1>2. turn[t].tool \notin {"none", "create_campaign"} => Copy(t).active \in Campaigns \union {Old}
  BY TurnFacts, SnapshotFacts DEF TurnIsSound, Copy
<1>3. \A kind \in Troubles : Trouble(kind) => troubles' \in SUBSET Troubles
  BY DEF Trouble
<1>4. {"createRefused", "smtpChosen", "answerLost", "saveLost", "overlap", "writingFailed"} \subseteq Troubles
  BY DEF Troubles
<1>5. ASSUME NEW m \in Messages, Receive(t, m)
      PROVE  WizardTypeOK'
  BY <1>1, <1>4, <1>5 DEF Receive
<1>6. CASE CreateCampaign(t)
  <2>1. UNCHANGED <<filled, written, asked, counted, earlier>> /\ created \subseteq created' /\ created' \subseteq Campaigns
    BY <1>6 DEF CreateCampaign, CreateFails
  <2>2. troubles' \in SUBSET Troubles
    BY <1>3, <1>4, <1>6 DEF CreateCampaign, CreateFails
  <2> QED
    BY <1>1, <2>1, <2>2
<1>7. CASE CountRecipients(t)
  BY <1>1, <1>2, <1>7 DEF CountRecipients, InTool
<1>8. CASE Write(t)
  <2>1. troubles' \in SUBSET Troubles
    BY <1>3, <1>4, <1>8 DEF Write
  <2> QED
    BY <1>1, <1>2, <1>8, <2>1 DEF Write
<1>9. CASE AskToStart(t)
  BY <1>1, <1>2, <1>9 DEF AskToStart, InTool
<1>10. CASE Save(t)
  <2>1. troubles' \in SUBSET Troubles
    BY <1>3, <1>4, <1>10 DEF Save
  <2> QED
    BY <1>1, <1>10, <2>1 DEF Save
<1> QED
  BY <1>5, <1>6, <1>7, <1>8, <1>9, <1>10 DEF WizardStep

\* A launch is asked for only by a turn whose tool is start_campaign.
LEMMA AskedStays ==
  ASSUME WizardInv, NEW t \in Turns, WizardStep(t)
  PROVE  (AskedIsCounted /\ OldLaunchNeedsRefusedCreate /\ AskedIsWritten)'
<1>1. Grows
  BY DEF Grows, WizardStep, Receive, CreateCampaign, CreateFails, CountRecipients, Write, AskToStart, Save, Trouble
<1>2. AskedIsCounted /\ OldLaunchNeedsRefusedCreate /\ AskedIsWritten
  BY DEF WizardInv
<1>3. CASE AskToStart(t)
  <2>1. Copy(t).active \in counted /\ IsNew(Copy(t)) /\ HasEmails(Copy(t))
    BY <1>3, TurnFacts DEF WizardInv, TurnIsSound, AskToStart, InTool, Copy
  <2>2. asked' = asked \union {Copy(t).active}
    BY <1>3 DEF AskToStart
  <2> QED
    BY <1>1, <1>2, <2>1, <2>2
    DEF Grows, IsNew, HasEmails, Told, AskedIsCounted, OldLaunchNeedsRefusedCreate, AskedIsWritten
<1>4. CASE ~AskToStart(t)
  <2>1. asked' = asked
    BY <1>4 DEF WizardStep, Receive, CreateCampaign, CountRecipients, Write, Save
  <2> QED
    BY <1>1, <1>2, <2>1 DEF Grows, AskedIsCounted, OldLaunchNeedsRefusedCreate, AskedIsWritten
<1> QED
  BY <1>3, <1>4

LEMMA CreationStays ==
  ASSUME WizardInv, NEW t \in Turns, WizardStep(t)
  PROVE  CreationInv'
<1> SUFFICES ASSUME troubles' \intersect Meddled = {}
             PROVE  CreationInv'
  BY DEF CreationInv
<1>1. Grows
  BY DEF Grows, WizardStep, Receive, CreateCampaign, CreateFails, CountRecipients, Write, AskToStart, Save, Trouble
<1>2. /\ \A o, u \in Turns : turn[o].at # "idle" /\ turn[u].at # "idle" => o = u
      /\ (\A o \in Turns : turn[o].at = "idle") /\ session.step \in Before => created = earlier
      /\ \A o \in Turns : turn[o].at # "idle" =>
           /\ Copy(o).step \in Before => created = earlier
           /\ turn[o].tool = "create_campaign" => Copy(o).step \notin Before
  BY <1>1 DEF WizardInv, CreationInv, Grows
<1>3. /\ turn \in [Turns -> TurnRecords] /\ turn' \in [Turns -> TurnRecords] /\ session \in Snapshots
      /\ ~session.choosing
  <2>1. CountIsSound(session)
    BY DEF WizardInv, SnapshotsInv
  <2> QED
    BY <1>1, <2>1, TurnFacts, SnapshotsStay DEF WizardInv, WizardTypeOK, CountIsSound, Meddled, Grows
\* The other turns are at rest, and this one ends with a copy that is no news.
<1>s. ASSUME \A o \in Turns \ {t} : turn'[o].at = "idle",
             turn'[t].at # "idle",
             turn'[t].copy.step \in Before => created' = earlier',
             turn'[t].tool = "create_campaign" => turn'[t].copy.step \notin Before
      PROVE  CreationInv'
  BY <1>s DEF CreationInv, Copy
<1>4. ASSUME NEW m \in Messages, Receive(t, m)
      PROVE  CreationInv'
  <2>1. \A o \in Turns : turn[o].at = "idle"
    BY <1>4 DEF Receive, Meddled
  <2>2. PICK n \in Snapshots, tool \in WizardTools :
          /\ Respond(t, n, tool)
          /\ \/ Opens(session, m) /\ n.step = "campaign_name"
             \/ /\ ~Opens(session, m)
                /\ n.step \in Before => session.step \in Before
          /\ tool = "create_campaign" => n.step \in {"recipient_source", "confirm_create"}
          /\ tool = "create_campaign" => n.step \notin Before
    BY <1>3, <1>4, ReceiveMoves DEF Before
  <2>3. /\ turn'[t].at # "idle" /\ turn'[t].copy = n /\ turn'[t].tool = tool
        /\ \A o \in Turns \ {t} : turn'[o] = turn[o]
    BY <1>3, <2>2 DEF Respond
  <2>4. created' = created /\ earlier' = IF Opens(session, m) THEN created ELSE earlier
    BY <1>4 DEF Receive
  <2>5. n.step \in Before => created' = earlier'
    BY <1>2, <2>1, <2>2, <2>4
  <2> QED
    BY <1>s, <2>1, <2>2, <2>3, <2>5
\* A tool was called: the others are at rest, and the turn goes to its end.
<1>5. ASSUME turn[t].at = "tool", NEW n, ToSave(t, n), n.step \in Before => created' = earlier'
      PROVE  CreationInv'
  <2>1. /\ turn'[t].at = "save" /\ turn'[t].copy = n /\ turn'[t].tool = "none"
        /\ \A o \in Turns \ {t} : turn'[o] = turn[o]
    BY <1>3, <1>5 DEF ToSave
  <2>2. \A o \in Turns \ {t} : turn[o].at = "idle"
    BY <1>2, <1>5
  <2> QED
    BY <1>5, <1>s, <2>1, <2>2
<1>6. CASE CreateCampaign(t)
  <2>1. turn[t].at = "tool" /\ Copy(t).step \notin Before
    BY <1>2, <1>6 DEF CreateCampaign, InTool
  <2>2. CASE \E c \in Campaigns : ToSave(t, AfterCreate(t, c))
    <3>1. PICK c \in Campaigns : ToSave(t, AfterCreate(t, c))
      BY <2>2
    <3>2. AfterCreate(t, c).step = Copy(t).step
      BY TurnFacts DEF WizardInv, AfterCreate, Snapshots
    <3> QED
      BY <1>5, <2>1, <3>1, <3>2
  <2>3. CASE ToSave(t, Copy(t))
    BY <1>5, <2>1, <2>3
  <2>4. CASE "smtpChosen" \in troubles'
    BY <2>4 DEF Meddled
  <2> QED
    BY <1>6, <2>2, <2>3, <2>4 DEF CreateCampaign, CreateFails, Trouble
<1>7. CASE CountRecipients(t)
  <2>1. turn[t].at = "tool" /\ Copy(t).step = "check_count"
    BY <1>7, TurnFacts DEF WizardInv, CountRecipients, InTool, TurnIsSound, Copy
  <2>2. \A k : [Copy(t) EXCEPT !.count = k].step = Copy(t).step
    BY TurnFacts DEF WizardInv, Snapshots
  <2>3. PICK k : ToSave(t, Copy(t)) \/ ToSave(t, [Copy(t) EXCEPT !.count = k])
    BY <1>7 DEF CountRecipients
  <2>4. CASE ToSave(t, Copy(t))
    BY <1>5, <2>1, <2>4 DEF Before
  <2>5. CASE ToSave(t, [Copy(t) EXCEPT !.count = k])
    BY <1>5, <2>1, <2>2, <2>5 DEF Before
  <2> QED
    BY <2>3, <2>4, <2>5
<1>8. CASE Write(t) \/ AskToStart(t)
  <2>1. turn[t].at = "tool" /\ ToSave(t, Copy(t)) /\ created' = created /\ earlier' = earlier
    BY <1>8 DEF Write, AskToStart, InTool
  <2> QED
    BY <1>2, <1>5, <2>1
<1>9. CASE Save(t)
  <2>1. session' = Copy(t) /\ turn' = [turn EXCEPT ![t] = Idle] /\ created' = created /\ earlier' = earlier
    BY <1>9 DEF Save, Trouble, Meddled
  <2>2. turn'[t].at = "idle" /\ \A o \in Turns \ {t} : turn'[o].at = "idle"
    BY <1>2, <1>3, <1>9, <2>1, IdleIsSound DEF Save
  <2> QED
    BY <1>2, <1>9, <2>1, <2>2 DEF CreationInv, Save
<1> QED
  BY <1>4, <1>6, <1>7, <1>8, <1>9 DEF WizardStep

LEMMA WizardInvHolds == WizardSpec => []WizardInv
<1>1. WizardInit => WizardInv
  <2> SUFFICES ASSUME WizardInit PROVE WizardInv
    OBVIOUS
  <2>1. session \in Snapshots /\ session.step = "off" /\ session.count = "unknown" /\ session.choosing = FALSE
    <3>1. PICK c \in {Old, NoCampaign} :
            session = [step |-> "off", count |-> "unknown", active |-> c, choosing |-> FALSE]
      BY DEF WizardInit
    <3> QED
      BY <3>1 DEF Snapshots, WizardSteps
  <2>2. turn = [t \in Turns |-> Idle] /\ \A t \in Turns : turn[t] = Idle
    BY DEF WizardInit
  <2>3. WizardTypeOK
    BY <2>1, <2>2, IdleIsSound DEF WizardInit, WizardTypeOK, TurnRecords
  <2>4. SnapshotsInv
    BY <2>1, <2>2, IdleIsSound
    DEF SnapshotsInv, TurnIsSound, CountIsSound, CampaignIsNew, EmailsAreWritten, Before, After, Later
  <2>5. CreationInv
    BY <2>1, <2>2, IdleIsSound DEF CreationInv, Before, WizardInit
  <2>6. AskedIsCounted /\ OldLaunchNeedsRefusedCreate /\ AskedIsWritten
    BY DEF WizardInit, AskedIsCounted, OldLaunchNeedsRefusedCreate, AskedIsWritten
  <2> QED
    BY <2>3, <2>4, <2>5, <2>6 DEF WizardInv
<1>2. WizardInv /\ [WizardNext]_wizardVars => WizardInv'
  BY RestUnchanged, SnapshotsStay, TypesStay, AskedStays, CreationStays DEF WizardNext, WizardStep, WizardInv
<1> QED
  BY <1>1, <1>2, PTL DEF WizardSpec

\* The variables of a wizard session keep their types: every stored snapshot and every copy of a
\* turn is one the code can have, with a step that exists.
THEOREM WizardTypeCorrect == WizardSpec => []WizardTypeOK
BY WizardInvHolds, PTL DEF WizardInv

\* However many turns of a session overlap and whatever tools fail, the launch is asked for only
\* of a campaign that is counted and written, not of the old one unless its replacement was
\* refused, and the wizard does not say that nothing is created when something is
\* (handleAiWizardContinuation of CampaignAgent.ts, saveMemory).
THEOREM WizardStaysInStep == WizardSpec => []WizardInStep
<1>1. WizardInv => WizardInStep
  BY DEF WizardInv, WizardInStep, CreationInv, NotYetCreated, Meddled
<1> QED
  BY <1>1, WizardInvHolds, PTL

-----------------------------------------------------------------------------
(* The two conversations side by side *)

LEMMA StepsOfOneConversation ==
  [Next]_vars => [ActionNext]_actionVars /\ [WizardNext]_wizardVars
<1>1. CASE UNCHANGED vars
  BY <1>1 DEF vars
<1>2. CASE ActionNext /\ UNCHANGED wizardVars
  BY <1>2
<1>3. CASE WizardNext /\ UNCHANGED actionVars
  BY <1>3
<1> QED
  BY <1>1, <1>2, <1>3 DEF Next, Plan

\* A plan's run and a wizard's turns share no state: a behaviour of both is one of each, whether
\* the processes finish what they have begun or not.
THEOREM EachConversationRuns == Spec => ActionSpec /\ WizardSpec
<1>1. Init => ActionInit /\ WizardInit
  BY DEF Init
<1> QED
  BY <1>1, StepsOfOneConversation, PTL DEF Spec, ActionSpec, WizardSpec

\* The variables of both conversations have their types in every state of the two side by side.
THEOREM ConversationsTypeCorrect == Spec => []TypeOK
<1>1. ActionTypeOK /\ WizardTypeOK => TypeOK
  BY DEF TypeOK
<1> QED
  BY <1>1, EachConversationRuns, ActionsTypeCorrect, WizardTypeCorrect, PTL

\* Side by side the conversations keep what each of them promises: risky steps are approved, the
\* steps of a plan come in their order, and the wizard is in step with the system.
THEOREM ConversationsKeepTheirPromises ==
  Spec => [](ApprovalHolds /\ PlanStepsHold /\ WizardInStep)
BY EachConversationRuns, ApprovalIsAskedFor, PlanStepsInOrder, WizardStaysInStep, PTL
=============================================================================
