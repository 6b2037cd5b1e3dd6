------------------------------ MODULE CrmBoard ------------------------------
(***************************************************************************)
(* The CRM board of one user: pipelines, their stages and rules, and the   *)
(* leads on them, edited by requests that overlap, while the rule engine   *)
(* moves leads and new leads come in.  A request is one transaction: it    *)
(* reads and checks, may lock rows by what it writes, and shows its writes *)
(* when it commits.  Names, colours and the order of stages are left out.  *)
(***************************************************************************)
EXTENDS Integers, FiniteSets

CONSTANTS
  Actors,       \* requests and events that may be under way at a time
  Leads,        \* leads of the user
  MaxPipelines, \* bound on pipelines
  MaxStages,    \* bound on stages
  MaxRules,     \* bound on rules
  MaxAsked      \* bound on requests and events

ASSUME BoardAssumption ==
  /\ {MaxPipelines, MaxStages, MaxRules, MaxAsked} \subseteq Nat
  /\ MaxPipelines >= 2 /\ MaxStages >= 3

PipelineIds == 1 .. MaxPipelines
StageIds == 1 .. MaxStages
RuleIds == 1 .. MaxRules
None == 0

VARIABLES
  default,  \* crm_pipelines: [pipeline -> is_default], of those that exist
  stageOf,  \* crm_pipeline_stages: the pipeline of a stage, or None
  rule,     \* crm_rules: [state, on, from, to, active]
  card,     \* crm_contacts: [known, pipeline, stage]
  flight,      \* requests and events under way
  ids,      \* the last ids given: [pipelines, stages]
  begun,
  late,     \* history: leads put where there is no stage, or where a deletion was under way
  unsure,   \* history: rules written while a stage they name was being deleted, or after it was
  overlap   \* history: two changes of the pipelines were under way at a time

boardVars == <<default, stageOf, rule, card, flight, ids, begun, late, unsure, overlap>>

Pipelines == DOMAIN default
BoardStages == {s \in StageIds : stageOf[s] # None}
StagesOf(p) == {s \in BoardStages : stageOf[s] = p}
There == {r \in RuleIds : rule[r].state = "there"}

Rule(on, from, to, active) == [state |-> "there", on |-> on, from |-> from, to |-> to, active |-> active]
NoRule == [state |-> "free", on |-> None, from |-> None, to |-> None, active |-> FALSE]
Idle == [op |-> "none", at |-> "idle", what |-> None, target |-> None, new |-> NoRule,
         leads |-> {}, rules |-> {}, pipes |-> {}, seen |-> {}]
Operations == {"none", "deleteStage", "deletePipeline", "makeDefault", "createPipeline", "writeRule",
               "move", "newLead", "event"}

\* Types, and what the foreign keys promise: a lead's stage is a stage of its pipeline, a rule
\* starts from a stage of its pipeline.
BoardTypeOK ==
  /\ Pipelines \subseteq PipelineIds /\ default \in [Pipelines -> BOOLEAN]
  /\ stageOf \in [StageIds -> Pipelines \union {None}]
  /\ \A r \in There : rule[r].on \in Pipelines /\ rule[r].from \in StagesOf(rule[r].on) \union {None}
  /\ \A l \in Leads : card[l].pipeline \in Pipelines \union {None}
  /\ \A l \in Leads : card[l].stage \in StagesOf(card[l].pipeline) \union {None}
  /\ \A a \in Actors : /\ flight[a].op \in Operations /\ flight[a].leads \subseteq Leads
                       /\ flight[a].at \in {"idle", "checked", "cleared", "waits"}
                       /\ flight[a].rules \subseteq RuleIds /\ flight[a].pipes \subseteq PipelineIds
  /\ ids.pipelines \in 0 .. MaxPipelines /\ ids.stages \in 0 .. MaxStages
  /\ late \subseteq Leads /\ unsure \subseteq RuleIds /\ overlap \in BOOLEAN /\ begun \in 0 .. MaxAsked

\* A new user, or one with two pipelines, a rule, and leads on the first.
BoardInit ==
  /\ \/ /\ default = [p \in {} |-> FALSE] /\ stageOf = [s \in StageIds |-> None]
        /\ rule = [r \in RuleIds |-> NoRule]
        /\ card = [l \in Leads |-> [known |-> FALSE, pipeline |-> None, stage |-> None]]
     \/ /\ default = [p \in {1, 2} |-> p = 1]
        /\ stageOf = [s \in StageIds |-> CASE s \in {1, 2} -> 1 [] s = 3 -> 2 [] OTHER -> None]
        /\ \E from \in {None, 1} :
             rule = [r \in RuleIds |-> IF r = 1 THEN Rule(1, from, 2, TRUE) ELSE NoRule]
        /\ card \in [Leads -> {[known |-> FALSE, pipeline |-> None, stage |-> None]}
                               \union {[known |-> TRUE, pipeline |-> 1, stage |-> s] : s \in {1, 2}}]
  /\ ids = [pipelines |-> Cardinality(DOMAIN default), stages |-> Cardinality(BoardStages)]
  /\ flight = [a \in Actors |-> Idle] /\ begun = 0
  /\ late = {} /\ unsure = {} /\ overlap = FALSE

-----------------------------------------------------------------------------
(* Locks and requests *)

Others(a) == Actors \ {a}
LeadFree(a, l) == \A b \in Others(a) : l \notin flight[b].leads
RuleFree(a, r) == \A b \in Others(a) : r \notin flight[b].rules
PipelineFree(a, p) == \A b \in Others(a) : p \notin flight[b].pipes

\* No other transaction has moved leads to stage s and not committed.
StageFree(a, s) == \A b \in Others(a) : flight[b].at = "cleared" /\ flight[b].leads # {} => flight[b].target # s

\* Stage s is being deleted, by itself or with its pipeline.
Leaving(a, s) ==
  \E b \in Others(a) : \/ flight[b].op = "deleteStage" /\ flight[b].what = s
                       \/ flight[b].op = "deletePipeline" /\ flight[b].what = stageOf[s]

\* Requests that change which pipelines there are, or which is the default.
OnPipelines(q) ==
  \/ q.op \in {"deletePipeline", "makeDefault", "createPipeline"}
  \/ q.op = "newLead" /\ q.target = None /\ q.seen = {}

MayAsk(a) == flight[a] = Idle /\ begun < MaxAsked

BeginRequest(a, q) ==
  /\ begun' = begun + 1 /\ flight' = [flight EXCEPT ![a] = q]
  /\ overlap' = (overlap \/ (OnPipelines(q) /\ \E b \in Others(a) : OnPipelines(flight[b])))
  /\ UNCHANGED <<default, stageOf, rule, card, ids, late, unsure>>

Advance(a, q) ==
  /\ flight' = [flight EXCEPT ![a] = q]
  /\ UNCHANGED <<default, stageOf, rule, card, ids, begun, late, unsure, overlap>>

Abort(a) == Advance(a, Idle)
Committing(a) == flight' = [flight EXCEPT ![a] = Idle] /\ UNCHANGED <<begun, overlap>>

\* What history notes of leads that come to stage s.
Arrived(a, ls, s) == IF s = None \/ Leaving(a, s) THEN late \union ls ELSE late \ ls

RequestFor(op, what, target) == [Idle EXCEPT !.op = op, !.at = "checked", !.what = what, !.target = target]
At(a, op, place) == flight[a].op = op /\ flight[a].at = place

-----------------------------------------------------------------------------
(* Deleting stages and pipelines *)

LeadsIn(s) == {l \in Leads : card[l].known /\ card[l].stage = s}
LeadsOn(p) == {l \in Leads : card[l].known /\ card[l].pipeline = p}

\* deleteStage up to the count of the leads: with leads it needs another stage of the pipeline.
AskDeleteStage(a, s, t) ==
  /\ MayAsk(a) /\ s \in BoardStages
  /\ IF LeadsIn(s) = {} THEN t = None ELSE t \in StagesOf(stageOf[s]) \ {s}
  /\ BeginRequest(a, RequestFor("deleteStage", s, t))

\* Mutant of Naming: only the actions of a rule are looked at.
NamingInActions(s) == {r \in There : rule[r].to = s}

\* Rules that start from or move to stage s.
Naming(s) == {r \in There : s \in {rule[r].from, rule[r].to}}

\* Its UPDATEs: the leads are moved, if any were counted, and the rules are turned off.
ClearStage(a) ==
  LET q == flight[a]
      moving == IF q.target = None THEN {} ELSE LeadsIn(q.what) IN
  /\ At(a, "deleteStage", "checked")
  /\ \A l \in moving : LeadFree(a, l)
  /\ \A r \in Naming(q.what) : RuleFree(a, r)
  /\ IF moving # {} /\ q.target \notin BoardStages THEN Abort(a)
     ELSE Advance(a, [q EXCEPT !.at = "cleared", !.leads = moving, !.rules = Naming(q.what)])

\* Its DELETE, which takes the stage from other leads and the rules that start there with it, and
\* the commit.
DropStage(a) ==
  LET q == flight[a]
      s == q.what
      strays == LeadsIn(s) \ q.leads
      lost == {r \in There \ q.rules : rule[r].from = s} IN
  /\ At(a, "deleteStage", "cleared") /\ StageFree(a, s)
  /\ (\A l \in strays : LeadFree(a, l)) /\ (\A r \in lost : RuleFree(a, r))
  /\ Committing(a)
  /\ stageOf' = [stageOf EXCEPT ![s] = None]
  /\ card' = [l \in Leads |-> IF l \in q.leads THEN [card[l] EXCEPT !.stage = q.target]
                              ELSE IF l \in strays THEN [card[l] EXCEPT !.stage = None] ELSE card[l]]
  /\ rule' = [r \in RuleIds |->
                IF r \in q.rules
                  THEN [rule[r] EXCEPT !.active = FALSE, !.from = IF @ = s THEN None ELSE @]
                ELSE IF r \in lost THEN [rule[r] EXCEPT !.state = "lost"] ELSE rule[r]]
  /\ late' = Arrived(a, q.leads, q.target)
  /\ UNCHANGED <<default, ids, unsure>>

\* deletePipeline up to the count of the leads: never the default, and with leads it needs a stage
\* of another pipeline.
AskDeletePipeline(a, p, t) ==
  /\ MayAsk(a) /\ p \in Pipelines /\ ~default[p]
  /\ IF LeadsOn(p) = {} THEN t = None ELSE t \in BoardStages \ StagesOf(p)
  /\ BeginRequest(a, [RequestFor("deletePipeline", p, t) EXCEPT !.seen = IF t = None THEN {} ELSE {stageOf[t]}])

ClearPipeline(a) ==
  LET q == flight[a]
      moving == IF q.target = None THEN {} ELSE LeadsOn(q.what) IN
  /\ At(a, "deletePipeline", "checked")
  /\ \A l \in moving : LeadFree(a, l)
  /\ IF moving # {} /\ q.target \notin BoardStages THEN Abort(a)
     ELSE Advance(a, [q EXCEPT !.at = "cleared", !.leads = moving])

\* The pipeline goes with its stages and rules.
DropPipeline(a) ==
  LET q == flight[a]
      p == q.what
      strays == LeadsOn(p) \ q.leads
      rules == {r \in There : rule[r].on = p} IN
  /\ At(a, "deletePipeline", "cleared") /\ PipelineFree(a, p)
  /\ \A s \in StagesOf(p) : StageFree(a, s)
  /\ (\A l \in strays : LeadFree(a, l)) /\ (\A r \in rules : RuleFree(a, r))
  /\ Committing(a)
  /\ default' = [x \in Pipelines \ {p} |-> default[x]]
  /\ stageOf' = [s \in StageIds |-> IF stageOf[s] = p THEN None ELSE stageOf[s]]
  /\ rule' = [r \in RuleIds |-> IF r \in rules THEN [NoRule EXCEPT !.state = "deleted"] ELSE rule[r]]
  /\ card' = [l \in Leads |->
                IF l \in q.leads THEN [card[l] EXCEPT !.pipeline = stageOf[q.target], !.stage = q.target]
                ELSE IF l \in strays THEN [card[l] EXCEPT !.pipeline = None, !.stage = None] ELSE card[l]]
  /\ late' = Arrived(a, q.leads, q.target)
  /\ UNCHANGED <<ids, unsure>>

\* Two deletions that wait for the stage the other has moved leads to: PostgreSQL ends one of them.
InTheWay(a, b) ==
  /\ flight[a].at = "cleared" /\ flight[b].at = "cleared" /\ flight[b].leads # {}
  /\ \/ flight[a].op = "deleteStage" /\ flight[b].target = flight[a].what
     \/ flight[a].op = "deletePipeline" /\ flight[b].target \in StagesOf(flight[a].what)
Deadlock(a) == (\E b \in Others(a) : InTheWay(a, b) /\ InTheWay(b, a)) /\ Abort(a)

-----------------------------------------------------------------------------
(* Creating pipelines and stages, and choosing the default *)

NextPipeline == {ids.pipelines + 1} \intersect PipelineIds
NextStage == {ids.stages + 1} \intersect StageIds
Given(p, s) == ids' = [pipelines |-> IF p = None THEN ids.pipelines ELSE p,
                       stages |-> IF s = None THEN ids.stages ELSE s]
With(p, new, isDefault) == [x \in Pipelines \union {p} |-> IF x = p THEN isDefault ELSE new[x]]

\* createPipeline counts the pipelines before it takes its lock: the first one is the default.
AskCreatePipeline(a, makeDefault) ==
  /\ MayAsk(a)
  /\ BeginRequest(a, [RequestFor("createPipeline", None, None) EXCEPT
              !.what = IF makeDefault \/ Pipelines = {} THEN 1 ELSE 0])

TakeDefault(a) ==
  /\ At(a, "createPipeline", "checked")
  /\ \A b \in Others(a) : ~At(b, "createPipeline", "cleared")
  /\ flight[a].what = 1 => \A p \in Pipelines : PipelineFree(a, p)
  /\ Advance(a, [flight[a] EXCEPT !.at = "cleared", !.pipes = IF flight[a].what = 1 THEN Pipelines ELSE {}])

InsertPipeline(a) ==
  /\ At(a, "createPipeline", "cleared") /\ Committing(a)
  /\ \E p \in NextPipeline :
       /\ default' = With(p, [x \in Pipelines |-> default[x] /\ x \notin flight[a].pipes], flight[a].what = 1)
       /\ \E s \in NextStage \union {None} :
            /\ stageOf' = IF s = None THEN stageOf ELSE [stageOf EXCEPT ![s] = p]
            /\ Given(p, s)
  /\ UNCHANGED <<rule, card, late, unsure>>

CreateStage(a, p) ==
  /\ MayAsk(a) /\ p \in Pipelines /\ PipelineFree(a, p)
  /\ begun' = begun + 1
  /\ \E s \in NextStage : stageOf' = [stageOf EXCEPT ![s] = p] /\ Given(None, s)
  /\ UNCHANGED <<default, rule, card, flight, late, unsure, overlap>>

\* updatePipeline with isDefault.
AskDefault(a, p) == MayAsk(a) /\ p \in Pipelines /\ BeginRequest(a, RequestFor("makeDefault", p, None))

\* Its UPDATE of all pipelines, which waits for rows that others hold: it does not see a pipeline
\* whose transaction commits meanwhile.
SetDefault(a) ==
  LET free == \A p \in Pipelines : PipelineFree(a, p)
      seen == IF flight[a].at = "waits" THEN flight[a].seen ELSE Pipelines IN
  /\ flight[a].op = "makeDefault" /\ flight[a].at \in {"checked", "waits"}
  /\ \/ /\ flight[a].at = "checked" /\ ~free
        /\ Advance(a, [flight[a] EXCEPT !.at = "waits", !.seen = Pipelines])
     \/ /\ free /\ Committing(a)
        /\ default' = [p \in Pipelines |-> IF p \in seen THEN p = flight[a].what ELSE default[p]]
        /\ UNCHANGED <<stageOf, rule, card, ids, late, unsure>>

-----------------------------------------------------------------------------
(* Rules *)

\* Mutant of Valid: the stages of a rule may be of any pipeline.
ValidAnywhere(r) == {r.from, r.to} \subseteq BoardStages \union {None}

\* validateRuleInput: the stages of a rule are stages of its pipeline.
Valid(r) == {r.from, r.to} \subseteq StagesOf(r.on) \union {None}

AskCreateRule(a) ==
  /\ MayAsk(a)
  /\ \E p \in Pipelines, from, to \in BoardStages \union {None}, active \in BOOLEAN :
       LET new == Rule(p, from, to, active) IN
       Valid(new) /\ BeginRequest(a, [RequestFor("writeRule", None, None) EXCEPT !.new = new])

\* updateRule reads the rule and fills in what the request leaves out.
AskUpdateRule(a, r) ==
  /\ MayAsk(a) /\ r \in There
  /\ \E s \in BoardStages \union {None} :
       \E new \in {[rule[r] EXCEPT !.from = s], [rule[r] EXCEPT !.to = s], [rule[r] EXCEPT !.active = ~@]} :
         Valid(new) /\ BeginRequest(a, [RequestFor("writeRule", r, None) EXCEPT !.new = new])

\* The foreign keys are those of the pipeline and of the stage the rule starts from.
Unsure(a, new) ==
  \E s \in {new.from, new.to} \ {None} : s \notin BoardStages \/ Leaving(a, s)

WriteRule(a) ==
  LET q == flight[a]
      new == q.new
      rows == IF q.what = None THEN {r \in RuleIds : rule[r].state = "free"} ELSE {q.what}
      kept == q.what # None /\ rule[q.what].from = new.from IN
  /\ At(a, "writeRule", "checked")
  /\ q.what # None => RuleFree(a, q.what)
  /\ q.what = None => PipelineFree(a, new.on)
  /\ IF \/ q.what # None /\ q.what \notin There
        \/ new.on \notin Pipelines
        \/ new.from \notin BoardStages \union {None} /\ ~kept
       THEN Abort(a)
       ELSE \E r \in rows :
              /\ \A x \in rows : r <= x
              /\ rule' = [rule EXCEPT ![r] = new]
              /\ unsure' = IF Unsure(a, new) THEN unsure \union {r} ELSE unsure \ {r}
              /\ Committing(a)
              /\ UNCHANGED <<default, stageOf, card, ids, late>>

DeleteRule(a, r) ==
  /\ MayAsk(a) /\ r \in There /\ RuleFree(a, r)
  /\ begun' = begun + 1 /\ rule' = [rule EXCEPT ![r] = [NoRule EXCEPT !.state = "deleted"]]
  /\ UNCHANGED <<default, stageOf, card, flight, ids, late, unsure, overlap>>

-----------------------------------------------------------------------------
(* Leads *)

\* bulkUpdateContacts reads the stage, moveContactsManually moves the lead.
AskMove(a, l, s) ==
  /\ MayAsk(a) /\ card[l].known /\ s \in BoardStages
  /\ BeginRequest(a, [RequestFor("move", s, s) EXCEPT !.seen = {l}])

MoveLead(a) ==
  LET s == flight[a].what IN
  /\ At(a, "move", "checked")
  /\ \E l \in flight[a].seen :
       /\ LeadFree(a, l)
       /\ IF card[l].stage = s \/ s \notin BoardStages THEN Abort(a)
          ELSE /\ card[l].pipeline # stageOf[s] => PipelineFree(a, stageOf[s])
               /\ card' = [card EXCEPT ![l].pipeline = stageOf[s], ![l].stage = s]
               /\ late' = Arrived(a, {l}, s)
               /\ Committing(a) /\ UNCHANGED <<default, stageOf, rule, ids, unsure>>

\* A campaign's recipient becomes a lead, in the pipeline of the campaign or the default one: one
\* lead at a time.  A user without pipelines gets the default one.
AskNewLead(a, l, p, s) ==
  /\ MayAsk(a) /\ ~card[l].known /\ \A b \in Others(a) : flight[b].op # "newLead"
  /\ IF Pipelines = {} THEN p = None /\ s = None
     ELSE p \in Pipelines /\ IF StagesOf(p) = {} THEN s = None ELSE s \in StagesOf(p)
  /\ BeginRequest(a, [RequestFor("newLead", p, s) EXCEPT !.seen = IF p = None THEN {} ELSE {p}, !.leads = {l}])

InsertLead(a) ==
  LET q == flight[a]
      l == CHOOSE x \in q.leads : TRUE
      placed(p, s) == card' = [card EXCEPT ![l] = [known |-> TRUE, pipeline |-> p, stage |-> s]] IN
  /\ At(a, "newLead", "checked")
  /\ \/ /\ q.what = None /\ Committing(a)
        /\ \E p \in NextPipeline, s \in NextStage :
             /\ default' = With(p, default, TRUE) /\ stageOf' = [stageOf EXCEPT ![s] = p]
             /\ Given(p, s)
             /\ placed(p, s) /\ late' = late \ {l}
        /\ UNCHANGED <<rule, unsure>>
     \/ /\ q.what # None /\ PipelineFree(a, q.what)
        /\ IF q.what \notin Pipelines \/ q.target \notin BoardStages \union {None} THEN Abort(a)
           ELSE /\ placed(q.what, q.target) /\ late' = Arrived(a, {l}, q.target)
                /\ Committing(a) /\ UNCHANGED <<default, stageOf, rule, ids, unsure>>

\* handleCrmEvent: the lead and its pipeline are locked and the stages are read.
AskEvent(a, l) ==
  LET p == card[l].pipeline IN
  /\ MayAsk(a) /\ card[l].known /\ p # None /\ LeadFree(a, l) /\ PipelineFree(a, p)
  /\ BeginRequest(a, [RequestFor("event", p, None) EXCEPT !.leads = {l}, !.pipes = {p}, !.seen = StagesOf(p)])

Fires(r, q, l) ==
  /\ r \in There /\ rule[r].active /\ rule[r].on = q.what
  /\ rule[r].from \in {None, card[l].stage} /\ rule[r].to \in q.seen \ {card[l].stage}

\* A rule moves the lead, or none does.  A stage that is gone fails the whole event.
RunRules(a) ==
  LET q == flight[a] IN
  /\ At(a, "event", "checked")
  /\ \E l \in q.leads :
       \/ (\A r \in RuleIds : ~Fires(r, q, l)) /\ Abort(a)
       \/ \E r \in RuleIds :
            /\ Fires(r, q, l)
            /\ IF rule[r].to \notin BoardStages THEN Abort(a)
               ELSE /\ card' = [card EXCEPT ![l].stage = rule[r].to]
                    /\ late' = Arrived(a, {l}, rule[r].to)
                    /\ Committing(a) /\ UNCHANGED <<default, stageOf, rule, ids, unsure>>

-----------------------------------------------------------------------------

Open(a) ==
  \/ \E s \in StageIds, t \in StageIds \union {None} : AskDeleteStage(a, s, t)
  \/ \E p \in PipelineIds, t \in StageIds \union {None} : AskDeletePipeline(a, p, t)
  \/ \E makeDefault \in BOOLEAN : AskCreatePipeline(a, makeDefault)
  \/ \E p \in PipelineIds : CreateStage(a, p) \/ AskDefault(a, p)
  \/ AskCreateRule(a)
  \/ \E r \in RuleIds : AskUpdateRule(a, r) \/ DeleteRule(a, r)
  \/ \E l \in Leads, s \in StageIds : AskMove(a, l, s)
  \/ \E l \in Leads, p \in PipelineIds \union {None}, s \in StageIds \union {None} : AskNewLead(a, l, p, s)
  \/ \E l \in Leads : AskEvent(a, l)

Work(a) ==
  \/ ClearStage(a) \/ DropStage(a) \/ ClearPipeline(a) \/ DropPipeline(a) \/ Deadlock(a)
  \/ TakeDefault(a) \/ InsertPipeline(a) \/ SetDefault(a) \/ WriteRule(a)
  \/ MoveLead(a) \/ InsertLead(a) \/ RunRules(a)

BoardNext == \E a \in Actors : Open(a) \/ Work(a)
BoardSpec == BoardInit /\ [][BoardNext]_boardVars

-----------------------------------------------------------------------------
(* Properties *)

\* A lead is without a stage only if it came where there was none, or to a stage or pipeline that
\* was being deleted.
StraysAreLate == \A l \in Leads : card[l].known /\ card[l].stage = None => l \in late

\* A rule that is on names no deleted stage, and no rule goes with the stage it starts from, unless
\* it was written while the stage was being deleted or by a request that had read it before.
StaleRulesAreOff ==
  \A r \in RuleIds \ unsure :
    /\ rule[r].state # "lost"
    /\ r \in There /\ rule[r].active => rule[r].to \in BoardStages \union {None}

\* Defaults of the user.
Defaults == {p \in Pipelines : default[p]}

\* There is one default pipeline, unless two changes of the pipelines overlapped.
DefaultIsOne == ~overlap /\ Pipelines # {} => Cardinality(Defaults) = 1

\* Deletions leave the board in order, except for what came in their middle.
BoardInOrder == StraysAreLate /\ StaleRulesAreOff /\ DefaultIsOne

-----------------------------------------------------------------------------
(* Statements that the code does not keep *)

\* crmPipelineController.ts at deleteStage: leads in the stage must be moved to another stage of the
\* same pipeline first.  A lead on a pipeline with stages has one.
LeadsAreMoved ==
  \A l \in Leads : card[l].known /\ card[l].stage = None => StagesOf(card[l].pipeline) = {}

\* The same comment: rules that start from or move to a deleted stage are turned off (not deleted).
RulesAreTurnedOff ==
  \A r \in RuleIds : /\ rule[r].state # "lost"
                     /\ r \in There /\ rule[r].active => rule[r].to \in BoardStages \union {None}

\* CRM.md: one default pipeline per user.
OneDefault == Cardinality(Defaults) <= 1
=============================================================================
