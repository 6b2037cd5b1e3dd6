------------------------------ MODULE Crm_proofs ------------------------------
(***************************************************************************)
(* What is proved of the CRM, for every value of the constants: the types  *)
(* of the board, and that deletions leave it in order but for what comes   *)
(* in their middle (BoardInOrder); the types of a lead, and that rules and *)
(* workers keep its mails within their limits (MailsWithinLimits).         *)
(***************************************************************************)
EXTENDS CrmBoard, CrmLead, FiniteSetTheorems, WellFoundedInduction, TLAPS

-----------------------------------------------------------------------------
(* What holds of the board, and of each request under way *)

RuleRecords == [state : {"free", "there", "deleted", "lost"}, on : 0 .. MaxPipelines,
                from : 0 .. MaxStages, to : 0 .. MaxStages, active : BOOLEAN]
Cards == [known : BOOLEAN, pipeline : 0 .. MaxPipelines, stage : 0 .. MaxStages]
Requests == [op : Operations, at : {"idle", "checked", "cleared", "waits"},
             what : 0 .. MaxPipelines + MaxStages + MaxRules, target : 0 .. MaxStages, new : RuleRecords,
             leads : SUBSET Leads, rules : SUBSET RuleIds, pipes : SUBSET PipelineIds,
             seen : SUBSET (Nat \union Leads)]

\* Ids are given once.
IdsInv ==
  /\ ids \in [pipelines : 0 .. MaxPipelines, stages : 0 .. MaxStages]
  /\ \A p \in Pipelines : p <= ids.pipelines
  /\ \A s \in BoardStages : s <= ids.stages

\* A lead that is not on the board yet has no place.
CardsInv ==
  /\ card \in [Leads -> Cards]
  /\ \A l \in Leads : ~card[l].known => card[l].pipeline = None /\ card[l].stage = None

\* A stage that a rule names is one of its pipeline, or gone.
RulesInv ==
  /\ rule \in [RuleIds -> RuleRecords]
  /\ \A r \in There : /\ rule[r].to <= ids.stages
                      /\ rule[r].to \in BoardStages => stageOf[rule[r].to] = rule[r].on

\* Leads that are in the stage to be deleted, and not moved, came in the middle; so did its rules.
StageDeletion(q) ==
  q.op = "deleteStage" =>
    /\ q.at \in {"checked", "cleared"} /\ q.what \in 1 .. ids.stages /\ q.target \in 0 .. ids.stages
    /\ q.target # q.what
    /\ {q.target, q.what} \subseteq BoardStages => stageOf[q.target] = stageOf[q.what]
    /\ q.at = "checked" \/ q.target = None => q.leads = {}
    /\ q.leads # {} => q.target \in BoardStages
    /\ \A l \in q.leads : card[l].known /\ card[l].pipeline = stageOf[q.target]
    /\ q.at = "cleared" \/ q.target = None => LeadsIn(q.what) \ q.leads \subseteq late
    /\ q.at = "cleared" => Naming(q.what) \subseteq q.rules \union unsure

PipelineDeletion(q) ==
  q.op = "deletePipeline" =>
    /\ q.at \in {"checked", "cleared"} /\ q.what \in 1 .. ids.pipelines /\ q.target \in 0 .. ids.stages
    /\ q.target \in BoardStages => stageOf[q.target] # q.what
    /\ q.at = "checked" \/ q.target = None => q.leads = {}
    /\ q.leads # {} => q.target \in BoardStages
    /\ \A l \in q.leads : card[l].known
    /\ q.at = "cleared" \/ q.target = None => LeadsOn(q.what) \ q.leads \subseteq late

RuleWriting(q) ==
  q.op = "writeRule" =>
    /\ q.new.state = "there" /\ q.new.on \in 1 .. ids.pipelines /\ q.leads = {}
    /\ \A s \in {q.new.from, q.new.to} : s <= ids.stages /\ (s \in BoardStages => stageOf[s] = q.new.on)
    /\ q.what # None => /\ q.what \in RuleIds /\ rule[q.what].state # "free"
                        /\ q.what \in There => rule[q.what].on = q.new.on

LeadMove(q) ==
  q.op = "move" => q.leads = {} /\ q.what \in 1 .. ids.stages /\ \E l \in Leads : q.seen = {l} /\ card[l].known

LeadArrival(q) ==
  q.op = "newLead" =>
    /\ \E l \in Leads : q.leads = {l} /\ ~card[l].known
    /\ q.what \in 0 .. ids.pipelines /\ q.target \in 0 .. ids.stages
    /\ q.target \in BoardStages => stageOf[q.target] = q.what
    /\ q.seen = {} <=> q.what = None
    /\ q.what = None => q.target = None

LeadEvent(q) ==
  q.op = "event" =>
    /\ \E l \in Leads : q.leads = {l} /\ card[l].known /\ card[l].pipeline = q.what
    /\ q.what \in Pipelines /\ q.pipes = {q.what}
    /\ \A s \in q.seen : s \in 1 .. ids.stages /\ (s \in BoardStages => stageOf[s] = q.what)

PipelineChange(q) ==
  /\ q.op = "createPipeline" => q.leads = {} /\ q.what \in {0, 1} /\ (q.what = 0 => q.pipes = {})
  /\ q.op = "makeDefault" => q.leads = {} /\ q.what \in 1 .. ids.pipelines
  /\ q.op = "none" => q.leads = {}

Sound(q) ==
  /\ StageDeletion(q) /\ PipelineDeletion(q) /\ RuleWriting(q) /\ LeadMove(q) /\ LeadArrival(q) /\ LeadEvent(q)
  /\ PipelineChange(q)

RequestsInv ==
  /\ flight \in [Actors -> Requests]
  /\ \A a \in Actors : Sound(flight[a])
  /\ \A a, b \in Actors : a # b => flight[a].leads \intersect flight[b].leads = {}

\* While changes of the pipelines do not overlap there is one default, and each change finds the
\* pipelines as it has read them.
Undisturbed(q) ==
  /\ q.op = "deletePipeline" => q.what \in Pipelines /\ ~default[q.what]
  /\ q.op = "createPipeline" => /\ q.what = 0 => Pipelines # {}
                                /\ q.what = 1 /\ q.at = "cleared" => q.pipes = Pipelines
  /\ q.op = "makeDefault" => q.what \in Pipelines /\ (q.at = "waits" => q.seen = Pipelines)
  /\ q.op = "newLead" /\ OnPipelines(q) => Pipelines = {}

OneIsDefault == Pipelines # {} => \E p \in Pipelines : \A x \in Pipelines : default[x] <=> x = p

DefaultsInv ==
  \/ overlap
  \/ /\ OneIsDefault
     /\ \A a \in Actors : Undisturbed(flight[a])
     /\ \A a, b \in Actors : a # b => ~(OnPipelines(flight[a]) /\ OnPipelines(flight[b]))

BoardInv ==
  /\ BoardTypeOK /\ IdsInv /\ CardsInv /\ RulesInv /\ RequestsInv /\ DefaultsInv
  /\ StraysAreLate /\ StaleRulesAreOff

-----------------------------------------------------------------------------
(* Requests that only wait, ask, or give up *)

\* A step of a that touches nothing but its own request, which becomes q.
OnlyAsks(a, q) ==
  /\ flight' = [flight EXCEPT ![a] = q]
  /\ UNCHANGED <<default, stageOf, rule, card, ids, late, unsure>>
  /\ begun' \in 0 .. MaxAsked /\ overlap' \in BOOLEAN /\ (overlap => overlap')
  /\ \A l \in q.leads : LeadFree(a, l)
  /\ \/ overlap'
     \/ Undisturbed(q) /\ (OnPipelines(q) => \A b \in Others(a) : ~OnPipelines(flight[b]))

LEMMA IdleIsSound ==
  /\ Idle \in Requests /\ Sound(Idle) /\ Undisturbed(Idle) /\ ~OnPipelines(Idle)
  /\ Idle.leads = {} /\ Idle.op = "none" /\ Idle.at = "idle"
<1>1. NoRule \in RuleRecords
  BY BoardAssumption DEF NoRule, RuleRecords, None
<1>2. Idle \in Requests
  BY <1>1, BoardAssumption DEF Idle, Requests, Operations, None
<1>3. Sound(Idle)
  BY DEF Idle, Sound, StageDeletion, PipelineDeletion, RuleWriting, LeadMove, LeadArrival, LeadEvent,
         PipelineChange
<1>4. Undisturbed(Idle) /\ ~OnPipelines(Idle)
  BY DEF Idle, Undisturbed, OnPipelines
<1> QED
  BY <1>2, <1>3, <1>4 DEF Idle

\* What a request is made of.
LEMMA RequestShape ==
  ASSUME NEW q \in Requests
  PROVE  /\ q.op \in Operations /\ q.at \in {"idle", "checked", "cleared", "waits"}
         /\ q.what \in Nat /\ q.target \in 0 .. MaxStages /\ q.new \in RuleRecords
         /\ q.leads \subseteq Leads /\ q.rules \subseteq RuleIds /\ q.pipes \subseteq PipelineIds
  BY BoardAssumption DEF Requests

LEMMA QuietRequests ==
  ASSUME BoardInv, NEW a \in Actors, NEW q \in Requests, Sound(q), OnlyAsks(a, q)
  PROVE  RequestsInv'
<1>1. flight' \in [Actors -> Requests]
  BY DEF BoardInv, RequestsInv, OnlyAsks
<1>2. ASSUME NEW b \in Actors
      PROVE  Sound(flight[b])'
  <2>1. PICK w : w = flight'[b]
    OBVIOUS
  <2>2. Sound(w)
    BY <2>1 DEF BoardInv, RequestsInv, OnlyAsks
  <2>3. Sound(w)'
    BY <2>2 DEF OnlyAsks, Sound, StageDeletion, PipelineDeletion, RuleWriting, LeadMove, LeadArrival, LeadEvent,
         PipelineChange, BoardStages, LeadsIn, LeadsOn, Naming, There, Pipelines
  <2> QED
    BY <2>1, <2>3
<1>3. ASSUME NEW b \in Actors, NEW c \in Actors, b # c
      PROVE  flight'[b].leads \intersect flight'[c].leads = {}
  <2>1. \A d \in Actors : flight'[d] = IF d = a THEN q ELSE flight[d]
    BY DEF BoardInv, RequestsInv, OnlyAsks
  <2>2. \A d \in Actors : d # a => q.leads \intersect flight[d].leads = {}
    BY DEF OnlyAsks, LeadFree, Others
  <2> QED
    BY <1>3, <2>1, <2>2 DEF BoardInv, RequestsInv
<1> QED
  BY <1>1, <1>2, <1>3 DEF RequestsInv

LEMMA QuietDefaults ==
  ASSUME BoardInv, NEW a \in Actors, NEW q \in Requests, OnlyAsks(a, q)
  PROVE  DefaultsInv'
<1>1. CASE overlap'
  BY <1>1 DEF DefaultsInv
<1>2. CASE ~overlap'
  <2>1. /\ OneIsDefault /\ \A b \in Actors : Undisturbed(flight[b])
        /\ \A b, c \in Actors : b # c => ~(OnPipelines(flight[b]) /\ OnPipelines(flight[c]))
    BY <1>2 DEF BoardInv, DefaultsInv, OnlyAsks
  <2>2. \A d \in Actors : flight'[d] = IF d = a THEN q ELSE flight[d]
    BY DEF BoardInv, RequestsInv, OnlyAsks
  <2>3. OneIsDefault'
    BY <2>1 DEF OneIsDefault, OnlyAsks, Pipelines
  <2>4. ASSUME NEW b \in Actors
        PROVE  Undisturbed(flight[b])'
    <3>1. PICK w : w = flight'[b]
      OBVIOUS
    <3>2. Undisturbed(w)
      BY <1>2, <2>1, <2>2, <3>1 DEF OnlyAsks
    <3>3. Undisturbed(w)'
      BY <3>2 DEF Undisturbed, OnlyAsks, Pipelines, OnPipelines
    <3> QED
      BY <3>1, <3>3
  <2>5. ASSUME NEW b \in Actors, NEW c \in Actors, b # c
        PROVE  ~(OnPipelines(flight'[b]) /\ OnPipelines(flight'[c]))
    BY <1>2, <2>1, <2>2, <2>5 DEF OnlyAsks, Others
  <2> QED
    BY <2>3, <2>4, <2>5 DEF DefaultsInv
<1> QED
  BY <1>1, <1>2

LEMMA LeavesTheBoard ==
  ASSUME BoardInv, NEW a \in Actors, NEW q \in Requests, Sound(q), OnlyAsks(a, q)
  PROVE  BoardInv'
<1>1. RequestsInv' /\ DefaultsInv'
  BY QuietRequests, QuietDefaults
<1>2. BoardTypeOK'
  <2>1. \A b \in Actors : flight'[b] \in Requests
    BY <1>1 DEF RequestsInv
  <2>2. \A b \in Actors :
          /\ flight'[b].op \in Operations /\ flight'[b].leads \subseteq Leads
          /\ flight'[b].at \in {"idle", "checked", "cleared", "waits"}
          /\ flight'[b].rules \subseteq RuleIds /\ flight'[b].pipes \subseteq PipelineIds
    BY <2>1 DEF Requests
  <2> HIDE DEF Operations
  <2> QED
    BY <2>2 DEF BoardInv, BoardTypeOK, OnlyAsks, Pipelines, There, StagesOf, BoardStages
<1>3. IdsInv' /\ CardsInv' /\ RulesInv'
  BY DEF BoardInv, IdsInv, CardsInv, RulesInv, OnlyAsks, Pipelines, There, BoardStages
<1>4. StraysAreLate' /\ StaleRulesAreOff'
  BY DEF BoardInv, StraysAreLate, StaleRulesAreOff, OnlyAsks, There, BoardStages
<1> QED
  BY <1>1, <1>2, <1>3, <1>4 DEF BoardInv

-----------------------------------------------------------------------------
(* A request ends with its commit *)

Ends(a) == flight' = [flight EXCEPT ![a] = Idle]

LEMMA FlightTypes ==
  ASSUME NEW f \in [Actors -> Requests]
  PROVE  \A b \in Actors : /\ f[b].op \in Operations /\ f[b].leads \subseteq Leads
                           /\ f[b].at \in {"idle", "checked", "cleared", "waits"}
                           /\ f[b].rules \subseteq RuleIds /\ f[b].pipes \subseteq PipelineIds
<1> HIDE DEF Operations
<1> QED
  BY DEF Requests

LEMMA CommitRequests ==
  ASSUME BoardInv, NEW a \in Actors, Ends(a), \A b \in Others(a) : Sound(flight[b])'
  PROVE  RequestsInv'
<1>1. \A d \in Actors : flight'[d] = IF d = a THEN Idle ELSE flight[d]
  BY DEF BoardInv, RequestsInv, Ends
<1>2. flight' \in [Actors -> Requests]
  BY IdleIsSound DEF BoardInv, RequestsInv, Ends
<1>3. Sound(Idle)'
  BY DEF Idle, Sound, StageDeletion, PipelineDeletion, RuleWriting, LeadMove, LeadArrival, LeadEvent,
         PipelineChange
<1>4. \A b \in Actors : Sound(flight[b])'
  BY <1>1, <1>3 DEF Others
<1>5. \A b, c \in Actors : b # c => flight'[b].leads \intersect flight'[c].leads = {}
  BY <1>1, IdleIsSound DEF BoardInv, RequestsInv
<1> QED
  BY <1>2, <1>4, <1>5 DEF RequestsInv

\* A commit that leaves the pipelines alone.
LEMMA SameDefaults ==
  ASSUME BoardInv, NEW a \in Actors, Ends(a), UNCHANGED <<default, overlap>>
  PROVE  DefaultsInv'
<1>1. CASE overlap
  BY <1>1 DEF DefaultsInv
<1>2. CASE ~overlap
  <2>1. /\ OneIsDefault /\ \A b \in Actors : Undisturbed(flight[b])
        /\ \A b, c \in Actors : b # c => ~(OnPipelines(flight[b]) /\ OnPipelines(flight[c]))
    BY <1>2 DEF BoardInv, DefaultsInv
  <2>2. \A d \in Actors : flight'[d] = IF d = a THEN Idle ELSE flight[d]
    BY DEF BoardInv, RequestsInv, Ends
  <2>3. OneIsDefault'
    BY <2>1 DEF OneIsDefault, Pipelines
  <2>4. ASSUME NEW b \in Actors
        PROVE  Undisturbed(flight[b])'
    <3>1. PICK w : w = flight'[b]
      OBVIOUS
    <3>2. Undisturbed(w)
      BY <2>1, <2>2, <3>1, IdleIsSound
    <3>3. Undisturbed(w)'
      BY <3>2 DEF Undisturbed, Pipelines, OnPipelines
    <3> QED
      BY <3>1, <3>3
  <2>5. ASSUME NEW b \in Actors, NEW c \in Actors, b # c
        PROVE  ~(OnPipelines(flight'[b]) /\ OnPipelines(flight'[c]))
    BY <2>1, <2>2, <2>5, IdleIsSound
  <2> QED
    BY <2>3, <2>4, <2>5 DEF DefaultsInv
<1> QED
  BY <1>1, <1>2

\* A commit that changes the pipelines: no other change is under way, or changes have overlapped.
LEMMA NewDefaults ==
  ASSUME BoardInv, NEW a \in Actors, Ends(a), overlap' = overlap, OnPipelines(flight[a]),
         overlap \/ OneIsDefault'
  PROVE  DefaultsInv'
<1>1. CASE overlap
  BY <1>1 DEF DefaultsInv
<1>2. CASE ~overlap
  <2>1. \A b \in Others(a) : ~OnPipelines(flight[b])
    BY <1>2 DEF BoardInv, DefaultsInv, Others
  <2>2. \A d \in Actors : flight'[d] = IF d = a THEN Idle ELSE flight[d]
    BY DEF BoardInv, RequestsInv, Ends
  <2>3. \A d \in Actors : ~OnPipelines(flight'[d])
    BY <2>1, <2>2, IdleIsSound DEF Others
  <2>4. ASSUME NEW b \in Actors
        PROVE  Undisturbed(flight[b])'
    <3>1. PICK w : w = flight'[b]
      OBVIOUS
    <3>2. ~OnPipelines(w)
      BY <2>3, <3>1
    <3>3. Undisturbed(w)'
      BY <3>2 DEF Undisturbed, OnPipelines
    <3> QED
      BY <3>1, <3>3
  <2> QED
    BY <1>2, <2>3, <2>4 DEF DefaultsInv
<1> QED
  BY <1>1, <1>2

-----------------------------------------------------------------------------
(* A lead comes to a place *)

\* The commit of a that puts lead l on pipeline p, at stage s or at none.
Placing(a, l, p, s) ==
  /\ LeadFree(a, l) /\ p \in Pipelines /\ s \in StagesOf(p) \union {None}
  /\ card' \in [Leads -> Cards] /\ \A m \in Leads \ {l} : card'[m] = card[m]
  /\ card'[l].known /\ card'[l].pipeline = p /\ card'[l].stage = s
  /\ late' = Arrived(a, {l}, s)
  /\ Ends(a) /\ UNCHANGED <<default, stageOf, rule, ids, unsure, begun, overlap>>

LEMMA PlacingTypes ==
  ASSUME BoardInv, NEW a \in Actors, NEW l \in Leads, NEW p, NEW s, Placing(a, l, p, s)
  PROVE  BoardTypeOK' /\ CardsInv'
<1>1. flight' \in [Actors -> Requests]
  BY IdleIsSound DEF BoardInv, RequestsInv, Ends, Placing
<1>3. CardsInv'
  BY DEF BoardInv, CardsInv, Placing
<1>4. \A m \in Leads : card'[m].pipeline = (IF m = l THEN p ELSE card[m].pipeline)
                    /\ card'[m].stage = (IF m = l THEN s ELSE card[m].stage)
  BY DEF BoardInv, CardsInv, Placing
<1>5. BoardTypeOK'
  BY <1>1, <1>4, FlightTypes DEF BoardInv, BoardTypeOK, Placing, Pipelines, There, StagesOf, BoardStages, Arrived
<1> QED
  BY <1>3, <1>5

LEMMA PlacingSound ==
  ASSUME BoardInv, NEW a \in Actors, NEW l \in Leads, NEW p, NEW s, Placing(a, l, p, s),
         NEW b \in Others(a), NEW q, q = flight[b]
  PROVE  Sound(q)'
<1>1. /\ Sound(q) /\ l \notin q.leads /\ b \in Actors
  BY DEF BoardInv, RequestsInv, Placing, LeadFree, Others
<1>2. /\ \A m \in Leads : m # l => card'[m] = card[m]
      /\ card'[l].known /\ card'[l].pipeline = p /\ card'[l].stage = s
  BY DEF BoardInv, CardsInv, Placing
<1>u. /\ BoardStages' = BoardStages /\ Pipelines' = Pipelines /\ stageOf' = stageOf /\ rule' = rule
      /\ ids' = ids /\ unsure' = unsure /\ There' = There
  BY DEF Placing, BoardStages, Pipelines, There
<1>3. StageDeletion(q)'
  <2> SUFFICES ASSUME q.op = "deleteStage"
               PROVE  StageDeletion(q)'
    BY DEF StageDeletion
  <2>1. StageDeletion(q)
    BY <1>1 DEF Sound
  <2>2. \A m \in LeadsIn(q.what)' : m \in LeadsIn(q.what) \/ (m = l /\ s = q.what)
    BY <1>2 DEF LeadsIn
  <2>3. l \in LeadsIn(q.what)' => l \in late'
    <3>1. l \in LeadsIn(q.what)' => s = q.what
      BY <1>2 DEF LeadsIn
    <3>2. s = q.what => Leaving(a, s)
      BY DEF Leaving
    <3> QED
      BY <3>1, <3>2 DEF Placing, Arrived
  <2>4. late \ {l} \subseteq late'
    BY DEF Placing, Arrived
  <2>5. q.at = "cleared" \/ q.target = None => (LeadsIn(q.what) \ q.leads \subseteq late)'
    BY <2>1, <2>2, <2>3, <2>4 DEF StageDeletion
  <2>6. \A m \in q.leads : m \in Leads /\ card'[m] = card[m]
    BY <1>1, <1>2, RequestShape DEF BoardInv, RequestsInv
  <2> QED
    BY <1>u, <2>1, <2>5, <2>6 DEF StageDeletion, Naming
<1>4. PipelineDeletion(q)'
  <2> SUFFICES ASSUME q.op = "deletePipeline"
               PROVE  PipelineDeletion(q)'
    BY DEF PipelineDeletion
  <2>1. PipelineDeletion(q)
    BY <1>1 DEF Sound
  <2>2. \A m \in LeadsOn(q.what)' : m \in LeadsOn(q.what) \/ (m = l /\ p = q.what)
    BY <1>2 DEF LeadsOn
  <2>3. l \in LeadsOn(q.what)' => l \in late'
    <3>1. l \in LeadsOn(q.what)' => p = q.what
      BY <1>2 DEF LeadsOn
    <3>2. p = q.what => s = None \/ Leaving(a, s)
      BY DEF Leaving, Placing, StagesOf
    <3> QED
      BY <3>1, <3>2 DEF Placing, Arrived
  <2>4. late \ {l} \subseteq late'
    BY DEF Placing, Arrived
  <2>5. q.at = "cleared" \/ q.target = None => (LeadsOn(q.what) \ q.leads \subseteq late)'
    BY <2>1, <2>2, <2>3, <2>4 DEF PipelineDeletion
  <2>6. \A m \in q.leads : m \in Leads /\ card'[m] = card[m]
    BY <1>1, <1>2, RequestShape DEF BoardInv, RequestsInv
  <2> QED
    BY <1>u, <2>1, <2>5, <2>6 DEF PipelineDeletion
<1>5. LeadMove(q)' /\ LeadArrival(q)' /\ LeadEvent(q)'
  BY <1>1, <1>2, <1>u DEF Sound, LeadMove, LeadArrival, LeadEvent
<1>6. RuleWriting(q)' /\ PipelineChange(q)'
  BY <1>1, <1>u DEF Sound, RuleWriting, PipelineChange
<1> QED
  BY <1>3, <1>4, <1>5, <1>6 DEF Sound

LEMMA PlacingStep ==
  ASSUME BoardInv, NEW a \in Actors, NEW l \in Leads, NEW p, NEW s, Placing(a, l, p, s)
  PROVE  BoardInv'
<1>1. BoardTypeOK' /\ CardsInv'
  BY PlacingTypes
<1>2. ASSUME NEW b \in Others(a)
      PROVE  Sound(flight[b])'
  <2>1. PICK q : q = flight[b]
    OBVIOUS
  <2>2. Sound(q)'
    BY <2>1, PlacingSound
  <2>3. flight'[b] = flight[b]
    BY DEF BoardInv, RequestsInv, Placing, Ends, Others
  <2> QED
    BY <2>1, <2>2, <2>3
<1>3. RequestsInv'
  BY <1>2, CommitRequests DEF Placing
<1>4. DefaultsInv'
  BY SameDefaults DEF Placing
<1>5. IdsInv' /\ RulesInv' /\ StaleRulesAreOff'
  BY DEF BoardInv, IdsInv, RulesInv, StaleRulesAreOff, Placing, Pipelines, There, BoardStages
<1>6. StraysAreLate'
  <2>1. /\ \A m \in Leads : m # l => card'[m] = card[m]
        /\ card'[l].stage = s
    BY DEF BoardInv, CardsInv, Placing
  <2> QED
    BY <2>1 DEF BoardInv, StraysAreLate, Placing, Arrived
<1> QED
  BY <1>1, <1>3, <1>4, <1>5, <1>6 DEF BoardInv

-----------------------------------------------------------------------------
(* A new pipeline or a new stage *)

\* The commit of a that gives pipeline p and stage s, and puts the leads L there.
Growing(a, p, s, L) ==
  /\ p \in Pipelines \union NextPipeline /\ s \in NextStage \union {None}
  /\ Pipelines' = Pipelines \union {p} /\ default' \in [Pipelines' -> BOOLEAN]
  /\ stageOf' = IF s = None THEN stageOf ELSE [stageOf EXCEPT ![s] = p]
  /\ ids' = [pipelines |-> IF p \in Pipelines THEN ids.pipelines ELSE p,
             stages |-> IF s = None THEN ids.stages ELSE s]
  /\ L \subseteq Leads /\ (\A l \in L : LeadFree(a, l))
  /\ L # {} => s # None /\ p \in NextPipeline
  /\ card' \in [Leads -> Cards] /\ \A m \in Leads \ L : card'[m] = card[m]
  /\ \A m \in L : card'[m].known /\ card'[m].pipeline = p /\ card'[m].stage = s
  /\ late' = late \ L
  /\ Ends(a) /\ UNCHANGED <<rule, unsure, overlap>> /\ begun' \in 0 .. MaxAsked

\* What was there stays where it was.
LEMMA GrowingFacts ==
  ASSUME BoardInv, NEW a \in Actors, NEW p, NEW s, NEW L, Growing(a, p, s, L)
  PROVE  /\ p \in PipelineIds /\ s \in 0 .. MaxStages
         /\ ids'.pipelines \in ids.pipelines .. MaxPipelines /\ ids'.stages \in ids.stages .. MaxStages
         /\ ids.pipelines \in Nat /\ ids.stages \in Nat
         /\ stageOf' \in [StageIds -> Pipelines' \union {None}]
         /\ \A x \in 0 .. ids.stages : (x \in BoardStages' <=> x \in BoardStages)
                                   /\ (x \in StageIds => stageOf'[x] = stageOf[x])
         /\ BoardStages \subseteq 0 .. ids.stages
         /\ \A x \in BoardStages' : x \in BoardStages \/ (x = s /\ s > ids.stages /\ stageOf'[s] = p)
         /\ p <= ids'.pipelines /\ s <= ids'.stages
         /\ s # None => s \in BoardStages' /\ stageOf'[s] = p /\ s > ids.stages
         /\ ids' \in [pipelines : 0 .. MaxPipelines, stages : 0 .. MaxStages]
<1>1. /\ ids.pipelines \in 0 .. MaxPipelines /\ ids.stages \in 0 .. MaxStages
      /\ \A x \in Pipelines : x <= ids.pipelines /\ x \in PipelineIds
      /\ \A x \in BoardStages : x <= ids.stages /\ x \in StageIds
      /\ stageOf \in [StageIds -> Pipelines \union {None}]
  BY DEF BoardInv, IdsInv, BoardTypeOK, BoardStages
<1>2. /\ p \in PipelineIds /\ (p \notin Pipelines => p = ids.pipelines + 1)
      /\ s # None => s \in StageIds /\ s = ids.stages + 1
  BY <1>1 DEF Growing, NextPipeline, NextStage
<1>3. /\ ids'.pipelines = (IF p \in Pipelines THEN ids.pipelines ELSE p)
      /\ ids'.stages = (IF s = None THEN ids.stages ELSE s)
  BY DEF Growing
<1>4. /\ \A x \in StageIds : stageOf'[x] = IF s # None /\ x = s THEN p ELSE stageOf[x]
      /\ stageOf' \in [StageIds -> Pipelines' \union {None}]
  BY <1>1, <1>2 DEF Growing
<1>n. MaxPipelines \in Nat /\ MaxStages \in Nat
  BY BoardAssumption
<1>5. p # None /\ p <= ids'.pipelines /\ s <= ids'.stages /\ s \in 0 .. MaxStages
  BY <1>1, <1>2, <1>3, <1>n DEF None, PipelineIds, StageIds
<1>6. /\ \A x \in 0 .. ids.stages : (x \in BoardStages' <=> x \in BoardStages)
                                /\ (x \in StageIds => stageOf'[x] = stageOf[x])
      /\ \A x \in BoardStages' : x \in BoardStages \/ (x = s /\ s > ids.stages /\ stageOf'[s] = p)
      /\ s # None => s \in BoardStages' /\ stageOf'[s] = p /\ s > ids.stages
  BY <1>1, <1>2, <1>4, <1>5, <1>n DEF BoardStages, None
<1>7. /\ ids'.pipelines \in ids.pipelines .. MaxPipelines /\ ids'.stages \in ids.stages .. MaxStages
      /\ BoardStages \subseteq 0 .. ids.stages
  BY <1>1, <1>2, <1>3, <1>n DEF PipelineIds, StageIds
<1>8. ids' \in [pipelines : 0 .. MaxPipelines, stages : 0 .. MaxStages]
  BY <1>1, <1>2, <1>n DEF Growing, PipelineIds, StageIds
<1> QED
  BY <1>1, <1>2, <1>4, <1>5, <1>6, <1>7, <1>8

LEMMA GrowingTypes ==
  ASSUME BoardInv, NEW a \in Actors, NEW p, NEW s, NEW L, Growing(a, p, s, L)
  PROVE  BoardTypeOK' /\ CardsInv' /\ IdsInv'
<1>f. /\ p \in PipelineIds /\ s \in 0 .. MaxStages
      /\ stageOf' \in [StageIds -> Pipelines' \union {None}]
      /\ \A x \in BoardStages : x \in BoardStages' /\ stageOf'[x] = stageOf[x]
      /\ \A x \in BoardStages' : x \in BoardStages \/ (x = s /\ s > ids.stages /\ stageOf'[s] = p)
      /\ s # None => s \in BoardStages' /\ stageOf'[s] = p
      /\ ids.pipelines <= ids'.pipelines /\ ids.stages <= ids'.stages
      /\ ids.pipelines \in Nat /\ ids.stages \in Nat /\ ids'.pipelines \in Nat /\ ids'.stages \in Nat
      /\ p <= ids'.pipelines /\ s <= ids'.stages
      /\ ids' \in [pipelines : 0 .. MaxPipelines, stages : 0 .. MaxStages]
  <2>1. BoardStages \subseteq StageIds
    BY DEF BoardStages
  <2> QED
    BY <2>1, GrowingFacts
<1>1. flight' \in [Actors -> Requests]
  BY IdleIsSound DEF BoardInv, RequestsInv, Ends, Growing
<1>2. CardsInv'
  BY DEF BoardInv, CardsInv, Growing
<1>3. \A m \in Leads : card'[m].pipeline = (IF m \in L THEN p ELSE card[m].pipeline)
                    /\ card'[m].stage = (IF m \in L THEN s ELSE card[m].stage)
  BY DEF Growing
<1>4. \A x : \A y \in StagesOf(x) : y \in StagesOf(x)'
  BY <1>f DEF StagesOf
<1>5. s # None => s \in StagesOf(p)'
  BY <1>f DEF StagesOf
<1>6. \A r \in There' : rule'[r].on \in Pipelines' /\ rule'[r].from \in StagesOf(rule[r].on)' \union {None}
  BY <1>4 DEF BoardInv, BoardTypeOK, Growing, There
<1>7. \A m \in Leads : /\ card'[m].pipeline \in Pipelines' \union {None}
                     /\ card'[m].stage \in StagesOf(card[m].pipeline)' \union {None}
  <2> SUFFICES ASSUME NEW m \in Leads
               PROVE  /\ card'[m].pipeline \in Pipelines' \union {None}
                      /\ card'[m].stage \in StagesOf(card[m].pipeline)' \union {None}
    OBVIOUS
  <2>1. PICK x : x = card'[m].pipeline
    OBVIOUS
  <2>2. card'[m].stage \in StagesOf(x)' \union {None}
    BY <1>3, <1>4, <1>5, <2>1 DEF BoardInv, BoardTypeOK
  <2> QED
    BY <1>3, <2>1, <2>2 DEF BoardInv, BoardTypeOK, Growing
<1>8. BoardTypeOK'
  <2>1. Pipelines' \subseteq PipelineIds /\ default' \in [Pipelines' -> BOOLEAN]
    BY <1>f DEF BoardInv, BoardTypeOK, Growing
  <2>2. /\ late' \subseteq Leads /\ unsure' \subseteq RuleIds /\ overlap' \in BOOLEAN /\ begun' \in 0 .. MaxAsked
    BY DEF BoardInv, BoardTypeOK, Growing
  <2>3. ids'.pipelines \in 0 .. MaxPipelines /\ ids'.stages \in 0 .. MaxStages
    BY <1>f
  <2> QED
    BY <1>1, <1>6, <1>7, <1>f, <2>1, <2>2, <2>3, FlightTypes DEF BoardTypeOK
<1>9. IdsInv'
  <2>1. \A x \in Pipelines' : x <= ids'.pipelines
    BY <1>f DEF BoardInv, IdsInv, BoardTypeOK, Growing, PipelineIds
  <2>2. \A x \in BoardStages' : x <= ids'.stages
    BY <1>f DEF BoardInv, IdsInv, BoardStages, StageIds
  <2> QED
    BY <1>f, <2>1, <2>2 DEF IdsInv
<1> QED
  BY <1>2, <1>8, <1>9

LEMMA WiderInterval ==
  ASSUME NEW m \in Nat, NEW n \in Nat, m <= n
  PROVE  0 .. m \subseteq 0 .. n /\ 1 .. m \subseteq 1 .. n
OBVIOUS

LEMMA GrowingSound ==
  ASSUME BoardInv, NEW a \in Actors, NEW p, NEW s, NEW L, Growing(a, p, s, L),
         NEW b \in Others(a), NEW q, q = flight[b]
  PROVE  Sound(q)'
<1>f. /\ ids'.pipelines \in ids.pipelines .. MaxPipelines /\ ids'.stages \in ids.stages .. MaxStages
      /\ ids.pipelines \in Nat /\ ids.stages \in Nat
      /\ \A x \in 0 .. ids.stages : (x \in BoardStages' <=> x \in BoardStages)
                                /\ (x \in StageIds => stageOf'[x] = stageOf[x])
      /\ s # None => s > ids.stages
      /\ p \in PipelineIds
  BY GrowingFacts
<1>b. /\ BoardStages' \subseteq StageIds /\ BoardStages \subseteq StageIds
  BY DEF BoardStages
<1>1. Sound(q) /\ L \intersect q.leads = {} /\ b \in Actors /\ q \in Requests
  BY DEF BoardInv, RequestsInv, Growing, LeadFree, Others
<1>2. /\ \A m \in Leads \ L : card'[m] = card[m]
      /\ \A m \in L : m \in Leads /\ card'[m].known /\ card'[m].pipeline = p /\ card'[m].stage = s /\ s # None
      /\ late' = late \ L
      /\ Pipelines' = Pipelines \union {p}
      /\ L # {} => p = ids.pipelines + 1
  BY DEF Growing, NextPipeline
<1>u. rule' = rule /\ unsure' = unsure /\ There' = There
  BY DEF Growing, There
<1>i. /\ ids.pipelines <= ids'.pipelines /\ ids.stages <= ids'.stages
      /\ ids'.pipelines \in Nat /\ ids'.stages \in Nat
      /\ \A x \in 0 .. ids.stages : x \in BoardStages' => stageOf'[x] = stageOf[x]
  BY <1>f, <1>b
<1>w. /\ 0 .. ids.pipelines \subseteq 0 .. ids'.pipelines /\ 1 .. ids.pipelines \subseteq 1 .. ids'.pipelines
      /\ 0 .. ids.stages \subseteq 0 .. ids'.stages /\ 1 .. ids.stages \subseteq 1 .. ids'.stages
  BY <1>f, <1>i, WiderInterval
<1>3. StageDeletion(q)'
  <2> SUFFICES ASSUME q.op = "deleteStage"
               PROVE  StageDeletion(q)'
    BY DEF StageDeletion
  <2>1. /\ StageDeletion(q) /\ q.what \in 1 .. ids.stages /\ q.target \in 0 .. ids.stages
    BY <1>1 DEF Sound, StageDeletion
  <2>2. LeadsIn(q.what)' \subseteq LeadsIn(q.what) \ L
    BY <1>2, <1>f, <2>1 DEF LeadsIn
  <2>3. \A m \in q.leads : m \in Leads /\ card'[m] = card[m]
    BY <1>1, <1>2, RequestShape
  <2>4. q.what \in 1 .. ids'.stages /\ q.target \in 0 .. ids'.stages
    BY <1>w, <2>1
  <2>5. /\ {q.target, q.what} \subseteq BoardStages' => (stageOf[q.target] = stageOf[q.what])'
        /\ q.leads # {} => q.target \in BoardStages' /\ stageOf'[q.target] = stageOf[q.target]
    BY <1>f, <1>i, <2>1 DEF StageDeletion
  <2> QED
    BY <1>2, <1>u, <2>1, <2>2, <2>3, <2>4, <2>5 DEF StageDeletion, Naming
<1>4. PipelineDeletion(q)'
  <2> SUFFICES ASSUME q.op = "deletePipeline"
               PROVE  PipelineDeletion(q)'
    BY DEF PipelineDeletion
  <2>1. /\ PipelineDeletion(q) /\ q.what \in 1 .. ids.pipelines /\ q.target \in 0 .. ids.stages
    BY <1>1 DEF Sound, PipelineDeletion
  <2>2. LeadsOn(q.what)' \subseteq LeadsOn(q.what) \ L
    BY <1>2, <1>f, <2>1 DEF LeadsOn
  <2>3. \A m \in q.leads : m \in Leads /\ card'[m] = card[m]
    BY <1>1, <1>2, RequestShape
  <2>4. q.what \in 1 .. ids'.pipelines /\ q.target \in 0 .. ids'.stages
    BY <1>w, <2>1
  <2>5. /\ q.target \in BoardStages' => stageOf'[q.target] # q.what
        /\ q.leads # {} => q.target \in BoardStages'
    BY <1>f, <1>i, <2>1 DEF PipelineDeletion
  <2> QED
    BY <1>2, <2>1, <2>2, <2>3, <2>4, <2>5 DEF PipelineDeletion
<1>5. LeadMove(q)'
  <2> SUFFICES ASSUME q.op = "move"
               PROVE  LeadMove(q)'
    BY DEF LeadMove
  <2>1. LeadMove(q)
    BY <1>1 DEF Sound
  <2> QED
    BY <1>2, <1>w, <2>1 DEF LeadMove
<1>6. LeadArrival(q)'
  <2> SUFFICES ASSUME q.op = "newLead"
               PROVE  LeadArrival(q)'
    BY DEF LeadArrival
  <2>1. LeadArrival(q)
    BY <1>1 DEF Sound
  <2>2. \A m \in q.leads : m \in Leads /\ card'[m] = card[m]
    BY <1>1, <1>2, RequestShape
  <2>3. q.what \in 0 .. ids'.pipelines /\ q.target \in 0 .. ids'.stages
    BY <1>w, <2>1 DEF LeadArrival
  <2>4. q.target \in BoardStages' => stageOf'[q.target] = q.what
    BY <1>f, <1>i, <2>1 DEF LeadArrival
  <2> QED
    BY <2>1, <2>2, <2>3, <2>4 DEF LeadArrival
<1>7. LeadEvent(q)'
  <2> SUFFICES ASSUME q.op = "event"
               PROVE  LeadEvent(q)'
    BY DEF LeadEvent
  <2>1. LeadEvent(q)
    BY <1>1 DEF Sound
  <2>2. \A m \in q.leads : m \in Leads /\ card'[m] = card[m]
    BY <1>1, <1>2, RequestShape
  <2>3. q.what \in Pipelines' /\ q.pipes = {q.what}
    BY <1>2, <2>1 DEF LeadEvent
  <2>4. \A x \in q.seen : x \in 1 .. ids'.stages /\ (x \in BoardStages' => stageOf'[x] = q.what)
    BY <1>f, <1>i, <2>1 DEF LeadEvent
  <2> QED
    BY <2>1, <2>2, <2>3, <2>4 DEF LeadEvent
<1>8. RuleWriting(q)'
  <2> SUFFICES ASSUME q.op = "writeRule"
               PROVE  RuleWriting(q)'
    BY DEF RuleWriting
  <2>1. /\ RuleWriting(q) /\ q.new \in RuleRecords
    BY <1>1, RequestShape DEF Sound
  <2>2. \A x \in {q.new.from, q.new.to} : x <= ids'.stages /\ (x \in BoardStages' => stageOf'[x] = q.new.on)
    <3>1. \A x \in {q.new.from, q.new.to} : x \in 0 .. ids.stages /\ (x \in BoardStages => stageOf[x] = q.new.on)
      BY <1>f, <2>1 DEF RuleWriting, RuleRecords
    <3> QED
      BY <1>f, <1>i, <3>1
  <2>3. q.new.on \in 1 .. ids'.pipelines
    BY <1>w, <2>1 DEF RuleWriting
  <2> QED
    BY <1>u, <2>1, <2>2, <2>3 DEF RuleWriting
<1>9. PipelineChange(q)'
  BY <1>1, <1>w DEF Sound, PipelineChange
<1> QED
  BY <1>3, <1>4, <1>5, <1>6, <1>7, <1>8, <1>9 DEF Sound

LEMMA GrowingStep ==
  ASSUME BoardInv, NEW a \in Actors, NEW p, NEW s, NEW L, Growing(a, p, s, L), DefaultsInv'
  PROVE  BoardInv'
<1>1. BoardTypeOK' /\ CardsInv' /\ IdsInv'
  BY GrowingTypes
<1>2. ASSUME NEW b \in Others(a)
      PROVE  Sound(flight[b])'
  <2>1. PICK q : q = flight[b]
    OBVIOUS
  <2>2. Sound(q)'
    BY <2>1, GrowingSound
  <2>3. flight'[b] = flight[b]
    BY DEF BoardInv, RequestsInv, Growing, Ends, Others
  <2> QED
    BY <2>1, <2>2, <2>3
<1>e. Ends(a)
  BY DEF Growing
<1>3. RequestsInv'
  BY <1>2, <1>e, CommitRequests
<1>f. /\ \A x \in 0 .. ids.stages : (x \in BoardStages' <=> x \in BoardStages)
                                /\ (x \in StageIds => stageOf'[x] = stageOf[x])
      /\ ids.stages \in Nat /\ ids'.stages \in ids.stages .. MaxStages
  BY GrowingFacts
<1>r. rule' = rule /\ unsure' = unsure /\ There' = There
  BY DEF Growing, There
<1>b. BoardStages' \subseteq StageIds /\ BoardStages \subseteq StageIds
  BY DEF BoardStages
<1>i. \A x \in 0 .. ids.stages : x <= ids'.stages
  <2>1. ids'.stages \in Nat /\ ids.stages <= ids'.stages
    BY <1>f
  <2> QED
    BY <1>f, <2>1, WiderInterval
<1>t. ASSUME NEW r \in There
      PROVE  /\ rule[r].to <= ids'.stages
             /\ rule[r].to \in BoardStages' => stageOf'[rule[r].to] = rule[r].on
             /\ rule[r].to \in BoardStages => rule[r].to \in BoardStages'
  <2>1. PICK x \in 0 .. ids.stages : x = rule[r].to
    BY <1>f DEF BoardInv, RulesInv, RuleRecords, There
  <2>2. x \in BoardStages => stageOf[x] = rule[r].on
    BY <2>1 DEF BoardInv, RulesInv
  <2>3. /\ x <= ids'.stages
        /\ x \in BoardStages' => stageOf'[x] = rule[r].on
        /\ x \in BoardStages => x \in BoardStages'
    BY <1>f, <1>b, <1>i, <2>2
  <2> QED
    BY <2>1, <2>3
<1>4. RulesInv'
  BY <1>r, <1>t DEF BoardInv, RulesInv
<1>5. StaleRulesAreOff'
  BY <1>r, <1>t DEF BoardInv, StaleRulesAreOff
<1>6. StraysAreLate'
  <2>1. /\ \A m \in Leads \ L : card'[m] = card[m]
        /\ \A m \in L : card'[m].stage # None
        /\ late' = late \ L
    BY DEF Growing
  <2> QED
    BY <2>1 DEF BoardInv, StraysAreLate
<1> QED
  BY <1>1, <1>3, <1>4, <1>5, <1>6 DEF BoardInv

-----------------------------------------------------------------------------
(* A rule is written or deleted *)

\* The commit of a that makes rule r the record new.
Ruling(a, r, new) ==
  /\ r \in RuleIds /\ new \in RuleRecords /\ new.state \in {"there", "deleted"}
  /\ rule' = [rule EXCEPT ![r] = new]
  /\ unsure \ {r} \subseteq unsure' /\ unsure' \subseteq RuleIds
  /\ new.state = "there" =>
       /\ new.on \in Pipelines /\ new.from \in StagesOf(new.on) \union {None}
       /\ new.to <= ids.stages /\ (new.to \in BoardStages => stageOf[new.to] = new.on)
       /\ r \in unsure' \/ ~Unsure(a, new)
       /\ \A b \in Others(a) : flight[b].op = "writeRule" /\ flight[b].what = r => flight[b].new.on = new.on
  /\ Ends(a) /\ UNCHANGED <<default, stageOf, card, ids, late, overlap>> /\ begun' \in 0 .. MaxAsked

LEMMA GoneRule ==
  [NoRule EXCEPT !.state = "deleted"] \in RuleRecords /\ [NoRule EXCEPT !.state = "deleted"].state = "deleted"
<1>1. NoRule \in RuleRecords
  BY BoardAssumption DEF NoRule, RuleRecords, None
<1> QED
  BY <1>1 DEF RuleRecords

LEMMA RulingSound ==
  ASSUME BoardInv, NEW a \in Actors, NEW r, NEW new, Ruling(a, r, new), NEW b \in Others(a), NEW q, q = flight[b]
  PROVE  Sound(q)'
<1>1. Sound(q) /\ q \in Requests /\ b \in Actors
  BY DEF BoardInv, RequestsInv, Others
<1>2. /\ \A x \in RuleIds : rule'[x] = IF x = r THEN new ELSE rule[x]
      /\ There' \ {r} = There \ {r} /\ r \in RuleIds /\ There \subseteq RuleIds /\ There' \subseteq RuleIds
      /\ r \in There' => new.state = "there"
  BY DEF BoardInv, RulesInv, Ruling, There
<1>3. /\ BoardStages' = BoardStages /\ Pipelines' = Pipelines /\ stageOf' = stageOf
      /\ ids' = ids /\ late' = late /\ card' = card
      /\ \A x : LeadsIn(x)' = LeadsIn(x) /\ LeadsOn(x)' = LeadsOn(x)
  BY DEF Ruling, BoardStages, Pipelines, LeadsIn, LeadsOn
<1>4. StageDeletion(q)'
  <2> SUFFICES ASSUME q.op = "deleteStage"
               PROVE  StageDeletion(q)'
    BY DEF StageDeletion
  <2>1. StageDeletion(q)
    BY <1>1 DEF Sound
  <2>2. ASSUME q.at = "cleared", NEW x \in Naming(q.what)'
        PROVE  x \in q.rules \union unsure'
    <3>1. CASE x # r
      <4>1. x \in Naming(q.what)
        BY <1>2, <2>2, <3>1 DEF Naming
      <4> QED
        BY <2>1, <2>2, <3>1, <4>1 DEF StageDeletion, Ruling
    <3>2. CASE x = r
      <4>1. new.state = "there" /\ q.what \in {new.from, new.to}
        BY <1>2, <2>2, <3>2 DEF Naming
      <4>2. q.what # None /\ Leaving(a, q.what)
        BY <2>1 DEF StageDeletion, Leaving, None
      <4>3. Unsure(a, new)
        BY <4>1, <4>2 DEF Unsure
      <4> QED
        BY <3>2, <4>1, <4>3 DEF Ruling
    <3> QED
      BY <3>1, <3>2
  <2> QED
    BY <1>3, <2>1, <2>2 DEF StageDeletion
<1>5. PipelineDeletion(q)' /\ LeadMove(q)' /\ LeadArrival(q)' /\ LeadEvent(q)' /\ PipelineChange(q)'
  BY <1>1, <1>3 DEF Sound, PipelineDeletion, LeadMove, LeadArrival, LeadEvent, PipelineChange
<1>6. RuleWriting(q)'
  <2> SUFFICES ASSUME q.op = "writeRule"
               PROVE  RuleWriting(q)'
    BY DEF RuleWriting
  <2>1. RuleWriting(q)
    BY <1>1 DEF Sound
  <2>2. q.what # None => /\ q.what \in RuleIds /\ rule'[q.what].state # "free"
                         /\ q.what \in There' => rule'[q.what].on = q.new.on
    BY <1>2, <2>1 DEF RuleWriting, Ruling
  <2> QED
    BY <1>3, <2>1, <2>2 DEF RuleWriting
<1> QED
  BY <1>4, <1>5, <1>6 DEF Sound

LEMMA RulingStep ==
  ASSUME BoardInv, NEW a \in Actors, NEW r, NEW new, Ruling(a, r, new)
  PROVE  BoardInv'
<1>e. Ends(a) /\ UNCHANGED <<default, overlap>>
  BY DEF Ruling
<1>1. ASSUME NEW b \in Others(a)
      PROVE  Sound(flight[b])'
  <2>1. PICK q : q = flight[b]
    OBVIOUS
  <2>2. Sound(q)'
    BY <2>1, RulingSound
  <2>3. flight'[b] = flight[b]
    BY <1>e DEF BoardInv, RequestsInv, Ends, Others
  <2> QED
    BY <2>1, <2>2, <2>3
<1>2. RequestsInv' /\ DefaultsInv'
  BY <1>1, <1>e, CommitRequests, SameDefaults
<1>3. /\ \A x \in RuleIds : rule'[x] = IF x = r THEN new ELSE rule[x]
      /\ \A x \in There' : x \in RuleIds /\ rule'[x].state = "there" /\ (x # r => x \in There)
      /\ BoardStages' = BoardStages /\ Pipelines' = Pipelines /\ stageOf' = stageOf /\ ids' = ids
      /\ \A x : StagesOf(x)' = StagesOf(x)
  BY DEF BoardInv, RulesInv, Ruling, There, BoardStages, Pipelines, StagesOf
<1>4. BoardTypeOK'
  <2>1. \A x \in There' : rule'[x].on \in Pipelines /\ rule'[x].from \in StagesOf(rule'[x].on) \union {None}
    BY <1>3 DEF BoardInv, BoardTypeOK, Ruling
  <2>2. flight' \in [Actors -> Requests]
    BY <1>2 DEF RequestsInv
  <2> QED
    BY <1>3, <2>1, <2>2, FlightTypes DEF BoardInv, BoardTypeOK, Ruling
<1>5. IdsInv' /\ CardsInv' /\ StraysAreLate'
  BY <1>3 DEF BoardInv, IdsInv, CardsInv, StraysAreLate, Ruling
<1>6. RulesInv'
  BY <1>3 DEF BoardInv, RulesInv, Ruling
<1>7. StaleRulesAreOff'
  <2> SUFFICES ASSUME NEW x \in RuleIds \ unsure'
               PROVE  /\ rule'[x].state # "lost"
                      /\ x \in There' /\ rule'[x].active => rule'[x].to \in BoardStages \union {None}
    BY <1>3 DEF StaleRulesAreOff
  <2>1. CASE x # r
    BY <1>3, <2>1 DEF BoardInv, StaleRulesAreOff, Ruling, There
  <2>2. CASE x = r
    <3>1. ~Unsure(a, new) \/ new.state # "there"
      BY <2>2 DEF Ruling
    <3>2. rule'[x].state = "there" => new.to \in BoardStages \union {None}
      BY <1>3, <2>2, <3>1 DEF Unsure
    <3> QED
      BY <1>3, <2>2, <3>2 DEF Ruling, There
  <2> QED
    BY <2>1, <2>2
<1> QED
  BY <1>2, <1>4, <1>5, <1>6, <1>7 DEF BoardInv

-----------------------------------------------------------------------------
(* A stage is deleted *)

\* DropStage(a) of stage s, with the leads L moved to stage t and the rules R turned off.
StageGoes(a, s, t, L, R) ==
  /\ flight[a].op = "deleteStage" /\ flight[a].at = "cleared"
  /\ flight[a].what = s /\ flight[a].target = t /\ flight[a].leads = L /\ flight[a].rules = R
  /\ StageFree(a, s) /\ \A l \in LeadsIn(s) \ L : LeadFree(a, l)
  /\ stageOf' = [stageOf EXCEPT ![s] = None]
  /\ card' = [l \in Leads |-> IF l \in L THEN [card[l] EXCEPT !.stage = t]
                              ELSE IF l \in LeadsIn(s) \ L THEN [card[l] EXCEPT !.stage = None] ELSE card[l]]
  /\ rule' = [r \in RuleIds |->
                IF r \in R THEN [rule[r] EXCEPT !.active = FALSE, !.from = IF @ = s THEN None ELSE @]
                ELSE IF r \in {x \in There \ R : rule[x].from = s} THEN [rule[r] EXCEPT !.state = "lost"]
                ELSE rule[r]]
  /\ late' = Arrived(a, L, t)
  /\ Ends(a) /\ UNCHANGED <<default, ids, unsure, begun, overlap>>

LEMMA StageGoesFrom ==
  ASSUME NEW a \in Actors, DropStage(a)
  PROVE  \E s, t, L, R : StageGoes(a, s, t, L, R)
<1>1. StageGoes(a, flight[a].what, flight[a].target, flight[a].leads, flight[a].rules)
  BY DEF DropStage, StageGoes, Committing, Ends, At
<1> QED
  BY <1>1

LEMMA StageGoesFacts ==
  ASSUME BoardInv, NEW a \in Actors, NEW s, NEW t, NEW L, NEW R, StageGoes(a, s, t, L, R)
  PROVE  /\ s \in StageIds /\ s # None /\ t # s /\ L \subseteq Leads
         /\ L # {} => t \in BoardStages /\ t # None
         /\ \A l \in L : card[l].known /\ card[l].pipeline = stageOf[t]
         /\ LeadsIn(s) \ L \subseteq late /\ Naming(s) \subseteq R \union unsure
         /\ BoardStages' = BoardStages \ {s} /\ BoardStages' \subseteq StageIds
         /\ \A x \in StageIds : x # s => stageOf'[x] = stageOf[x]
         /\ stageOf' \in [StageIds -> Pipelines \union {None}]
<1>1. /\ flight[a] \in Requests /\ StageDeletion(flight[a]) /\ stageOf \in [StageIds -> Pipelines \union {None}]
      /\ ids.stages \in 0 .. MaxStages
  BY DEF BoardInv, RequestsInv, Sound, BoardTypeOK, IdsInv
<1>n. MaxStages \in Nat
  BY BoardAssumption
<1>2. /\ s \in 1 .. ids.stages /\ t # s /\ L \subseteq Leads /\ (L # {} => t \in BoardStages)
      /\ \A l \in L : card[l].known /\ card[l].pipeline = stageOf[t]
      /\ LeadsIn(s) \ L \subseteq late /\ Naming(s) \subseteq R \union unsure
  BY <1>1, RequestShape DEF StageGoes, StageDeletion
<1>3. s \in StageIds /\ s # None
  BY <1>1, <1>2, <1>n DEF StageIds, None
<1>4. t \in BoardStages => t # None
  BY <1>n DEF BoardStages, StageIds, None
<1>5. /\ \A x \in StageIds : stageOf'[x] = IF x = s THEN None ELSE stageOf[x]
      /\ stageOf' \in [StageIds -> Pipelines \union {None}]
  BY <1>1, <1>3 DEF StageGoes
<1> QED
  BY <1>2, <1>3, <1>4, <1>5 DEF BoardStages

LEMMA StageGoesCards ==
  ASSUME BoardInv, NEW a \in Actors, NEW s, NEW t, NEW L, NEW R, StageGoes(a, s, t, L, R)
  PROVE  /\ card' \in [Leads -> Cards]
         /\ \A m \in Leads :
              /\ card'[m].known = card[m].known /\ card'[m].pipeline = card[m].pipeline
              /\ m \in L => card'[m].stage = t
              /\ m \notin L => card'[m].stage = IF card[m].stage = s THEN None ELSE card[m].stage
<1>1. /\ card \in [Leads -> Cards] /\ s # None
      /\ \A m \in Leads : ~card[m].known => card[m].stage = None
  BY StageGoesFacts DEF BoardInv, CardsInv
<1>2. t \in 0 .. MaxStages
  BY RequestShape DEF BoardInv, RequestsInv, StageGoes
<1>3. None \in 0 .. MaxStages
  BY BoardAssumption DEF None
<1>4. ASSUME NEW m \in Leads
      PROVE  /\ card'[m] \in Cards
             /\ card'[m].known = card[m].known /\ card'[m].pipeline = card[m].pipeline
             /\ m \in L => card'[m].stage = t
             /\ m \notin L => card'[m].stage = IF card[m].stage = s THEN None ELSE card[m].stage
  <2>1. card[m] \in Cards
    BY <1>1
  <2>2. card'[m] = IF m \in L THEN [card[m] EXCEPT !.stage = t]
                   ELSE IF m \in LeadsIn(s) \ L THEN [card[m] EXCEPT !.stage = None] ELSE card[m]
    BY DEF StageGoes
  <2>3. CASE m \in L
    BY <1>2, <2>1, <2>2, <2>3 DEF Cards
  <2>4. CASE m \notin L /\ m \in LeadsIn(s)
    BY <1>3, <2>1, <2>2, <2>4 DEF Cards, LeadsIn
  <2>5. CASE m \notin L /\ m \notin LeadsIn(s)
    BY <1>1, <2>1, <2>2, <2>5 DEF LeadsIn
  <2> QED
    BY <2>3, <2>4, <2>5
<1> QED
  BY <1>4 DEF StageGoes

LEMMA StageGoesRules ==
  ASSUME BoardInv, NEW a \in Actors, NEW s, NEW t, NEW L, NEW R, StageGoes(a, s, t, L, R)
  PROVE  /\ rule' \in [RuleIds -> RuleRecords]
         /\ \A r \in RuleIds :
              /\ rule'[r].on = rule[r].on /\ rule'[r].to = rule[r].to
              /\ rule'[r].state \in {rule[r].state, "lost"}
              /\ rule'[r].state = "lost" => rule[r].state = "lost" \/ (r \in There \ R /\ rule[r].from = s)
              /\ r \in There' =>
                   /\ rule'[r].from = IF rule[r].from = s THEN None ELSE rule[r].from
                   /\ rule'[r].active => r \notin R /\ rule[r].active
<1>1. rule \in [RuleIds -> RuleRecords]
  BY DEF BoardInv, RulesInv
<1>2. None \in 0 .. MaxStages
  BY BoardAssumption DEF None
<1>3. ASSUME NEW r \in RuleIds
      PROVE  /\ rule'[r] \in RuleRecords
             /\ rule'[r].on = rule[r].on /\ rule'[r].to = rule[r].to
             /\ rule'[r].state \in {rule[r].state, "lost"}
             /\ rule'[r].state = "lost" => rule[r].state = "lost" \/ (r \in There \ R /\ rule[r].from = s)
             /\ rule'[r].state = "there" =>
                  /\ rule'[r].from = IF rule[r].from = s THEN None ELSE rule[r].from
                  /\ rule'[r].active => r \notin R /\ rule[r].active
  <2>1. rule[r] \in RuleRecords
    BY <1>1
  <2>2. rule'[r] = IF r \in R THEN [rule[r] EXCEPT !.active = FALSE, !.from = IF @ = s THEN None ELSE @]
                   ELSE IF r \in {x \in There \ R : rule[x].from = s} THEN [rule[r] EXCEPT !.state = "lost"]
                   ELSE rule[r]
    BY DEF StageGoes
  <2>3. CASE r \in R
    <3>1. PICK f : f = IF rule[r].from = s THEN None ELSE rule[r].from
      OBVIOUS
    <3>2. f \in 0 .. MaxStages
      BY <1>2, <2>1, <3>1 DEF RuleRecords
    <3>3. rule'[r] = [rule[r] EXCEPT !.active = FALSE, !.from = f]
      BY <2>2, <2>3, <3>1
    <3> QED
      BY <2>1, <2>3, <3>1, <3>2, <3>3 DEF RuleRecords
  <2>4. CASE r \notin R /\ r \in There /\ rule[r].from = s
    BY <2>1, <2>2, <2>4 DEF RuleRecords
  <2>5. CASE r \notin R /\ ~(r \in There /\ rule[r].from = s)
    BY <2>1, <2>2, <2>5 DEF There
  <2> QED
    BY <2>3, <2>4, <2>5
<1> QED
  BY <1>3 DEF StageGoes, There

\* The leads that a puts at stage t are late for every request that is deleting it.
LEMMA ArrivalIsLate ==
  ASSUME NEW a \in Actors, NEW L, NEW t, late' = Arrived(a, L, t)
  PROVE  /\ late \ L \subseteq late' /\ late' \subseteq late \union L
         /\ t = None \/ Leaving(a, t) => L \subseteq late'
BY DEF Arrived

LEMMA StageGoesSound ==
  ASSUME BoardInv, NEW a \in Actors, NEW s, NEW t, NEW L, NEW R, StageGoes(a, s, t, L, R),
         NEW b \in Others(a), NEW q, q = flight[b]
  PROVE  Sound(q)'
<1>1. /\ Sound(q) /\ q \in Requests /\ b \in Actors /\ L \intersect q.leads = {}
      /\ q.leads \subseteq Leads
  <2>1. b \in Actors /\ b # a
    BY DEF Others
  <2> QED
    BY <2>1, RequestShape DEF BoardInv, RequestsInv, StageGoes
<1>2. /\ s \in StageIds /\ s # None /\ t # s /\ L \subseteq Leads
      /\ L # {} => t \in BoardStages /\ t # None
      /\ \A l \in L : card[l].known /\ card[l].pipeline = stageOf[t]
      /\ BoardStages' = BoardStages \ {s} /\ BoardStages' \subseteq StageIds
      /\ \A x \in BoardStages' : stageOf'[x] = stageOf[x]
  <2>1. \A x \in BoardStages \ {s} : x \in StageIds /\ x # s
    BY DEF BoardStages
  <2> QED
    BY <2>1, StageGoesFacts
<1>3. \A m \in Leads :
        /\ card'[m].known = card[m].known /\ card'[m].pipeline = card[m].pipeline
        /\ m \in L => card'[m].stage = t
        /\ m \notin L => card'[m].stage = IF card[m].stage = s THEN None ELSE card[m].stage
  BY StageGoesCards
<1>4. /\ \A r \in RuleIds : /\ rule'[r].on = rule[r].on /\ rule'[r].to = rule[r].to
                            /\ rule'[r].state \in {rule[r].state, "lost"}
                            /\ r \in There' => rule'[r].from = IF rule[r].from = s THEN None ELSE rule[r].from
      /\ There' \subseteq There
  BY StageGoesRules DEF There
<1>5. /\ late \ L \subseteq late' /\ (Leaving(a, t) => L \subseteq late')
      /\ ids' = ids /\ unsure' = unsure /\ Pipelines' = Pipelines
  <2>1. late' = Arrived(a, L, t) /\ ids' = ids /\ unsure' = unsure /\ default' = default
    BY DEF StageGoes
  <2> QED
    BY <2>1, ArrivalIsLate DEF Pipelines
<1>6. q.leads # {} /\ q.at = "cleared" => q.target # s
  BY DEF StageGoes, StageFree
<1>7. StageDeletion(q)'
  <2> SUFFICES ASSUME q.op = "deleteStage"
               PROVE  StageDeletion(q)'
    BY DEF StageDeletion
  <2>1. StageDeletion(q) /\ q.what # None
    BY <1>1 DEF Sound, StageDeletion, None
  <2>2. q.what = t => Leaving(a, t)
    BY DEF Leaving
  <2>3. ASSUME q.at = "cleared" \/ q.target = None, NEW m \in LeadsIn(q.what)', m \notin q.leads
        PROVE  m \in late'
    <3>1. m \in Leads /\ card'[m].known /\ card'[m].stage = q.what
      BY <2>3 DEF LeadsIn
    <3>2. CASE m \in L
      BY <1>3, <1>5, <2>2, <3>1, <3>2
    <3>3. CASE m \notin L
      <4>1. m \in LeadsIn(q.what)
        BY <1>3, <2>1, <3>1, <3>3 DEF LeadsIn
      <4> QED
        BY <1>5, <2>1, <2>3, <3>3, <4>1 DEF StageDeletion
    <3> QED
      BY <3>2, <3>3
  <2>4. Naming(q.what)' \subseteq Naming(q.what)
    BY <1>4, <2>1 DEF Naming, There
  <2>5. q.leads # {} => q.target \in BoardStages' /\ stageOf'[q.target] = stageOf[q.target]
    BY <1>2, <1>6, <2>1 DEF StageDeletion
  <2>6. \A l \in q.leads : card'[l].known /\ card'[l].pipeline = stageOf'[q.target]
    BY <1>1, <1>3, <2>1, <2>5 DEF StageDeletion
  <2>7. {q.target, q.what} \subseteq BoardStages' => stageOf'[q.target] = stageOf'[q.what]
    BY <1>2, <2>1 DEF StageDeletion
  <2> QED
    BY <1>5, <2>1, <2>3, <2>4, <2>5, <2>6, <2>7 DEF StageDeletion
<1>8. PipelineDeletion(q)'
  <2> SUFFICES ASSUME q.op = "deletePipeline"
               PROVE  PipelineDeletion(q)'
    BY DEF PipelineDeletion
  <2>1. PipelineDeletion(q)
    BY <1>1 DEF Sound
  <2>2. q.what = stageOf[t] => Leaving(a, t)
    BY DEF Leaving
  <2>3. ASSUME q.at = "cleared" \/ q.target = None, NEW m \in LeadsOn(q.what)', m \notin q.leads
        PROVE  m \in late'
    <3>1. m \in Leads /\ card'[m].known /\ card'[m].pipeline = q.what
      BY <2>3 DEF LeadsOn
    <3>2. m \in LeadsOn(q.what)
      BY <1>3, <3>1 DEF LeadsOn
    <3>3. CASE m \in L
      BY <1>2, <1>3, <1>5, <2>2, <3>1, <3>3
    <3>4. CASE m \notin L
      BY <1>5, <2>1, <2>3, <3>2, <3>4 DEF PipelineDeletion
    <3> QED
      BY <3>3, <3>4
  <2>4. q.leads # {} => q.target \in BoardStages'
    BY <1>2, <1>6, <2>1 DEF PipelineDeletion
  <2>5. q.target \in BoardStages' => stageOf'[q.target] # q.what
    BY <1>2, <2>1 DEF PipelineDeletion
  <2> QED
    BY <1>1, <1>3, <1>5, <2>1, <2>3, <2>4, <2>5 DEF PipelineDeletion
<1>9. RuleWriting(q)'
  <2> SUFFICES ASSUME q.op = "writeRule"
               PROVE  RuleWriting(q)'
    BY DEF RuleWriting
  <2>1. RuleWriting(q)
    BY <1>1 DEF Sound
  <2> QED
    BY <1>2, <1>4, <1>5, <2>1 DEF RuleWriting
<1>10. LeadMove(q)' /\ PipelineChange(q)'
  BY <1>1, <1>3, <1>5 DEF Sound, LeadMove, PipelineChange
<1>11. LeadArrival(q)'
  <2> SUFFICES ASSUME q.op = "newLead"
               PROVE  LeadArrival(q)'
    BY DEF LeadArrival
  <2> QED
    BY <1>1, <1>2, <1>3, <1>5 DEF Sound, LeadArrival
<1>12. LeadEvent(q)'
  <2> SUFFICES ASSUME q.op = "event"
               PROVE  LeadEvent(q)'
    BY DEF LeadEvent
  <2> QED
    BY <1>1, <1>2, <1>3, <1>5 DEF Sound, LeadEvent
<1> QED
  BY <1>7, <1>8, <1>9, <1>10, <1>11, <1>12 DEF Sound

LEMMA StageGoesStep ==
  ASSUME BoardInv, NEW a \in Actors, NEW s, NEW t, NEW L, NEW R, StageGoes(a, s, t, L, R)
  PROVE  BoardInv'
<1>e. Ends(a) /\ UNCHANGED <<default, overlap, ids, unsure, begun>> /\ late' = Arrived(a, L, t)
  BY DEF StageGoes
<1>1. ASSUME NEW b \in Others(a)
      PROVE  Sound(flight[b])'
  <2>1. PICK q : q = flight[b]
    OBVIOUS
  <2>2. Sound(q)'
    BY <2>1, StageGoesSound
  <2>3. flight'[b] = flight[b]
    BY <1>e DEF BoardInv, RequestsInv, Ends, Others
  <2> QED
    BY <2>1, <2>2, <2>3
<1>2. RequestsInv' /\ DefaultsInv'
  BY <1>1, <1>e, CommitRequests, SameDefaults
<1>3. /\ s \in StageIds /\ s # None /\ t # s /\ L \subseteq Leads
      /\ L # {} => t \in BoardStages /\ t # None
      /\ \A l \in L : card[l].known /\ card[l].pipeline = stageOf[t]
      /\ LeadsIn(s) \ L \subseteq late /\ Naming(s) \subseteq R \union unsure
      /\ BoardStages' = BoardStages \ {s} /\ BoardStages' \subseteq StageIds
      /\ \A x \in StageIds : x # s => stageOf'[x] = stageOf[x]
      /\ stageOf' \in [StageIds -> Pipelines \union {None}]
  BY StageGoesFacts
<1>4. /\ card' \in [Leads -> Cards]
      /\ \A m \in Leads :
           /\ card'[m].known = card[m].known /\ card'[m].pipeline = card[m].pipeline
           /\ m \in L => card'[m].stage = t
           /\ m \notin L => card'[m].stage = IF card[m].stage = s THEN None ELSE card[m].stage
  BY StageGoesCards
<1>5. /\ rule' \in [RuleIds -> RuleRecords]
      /\ \A r \in RuleIds :
           /\ rule'[r].on = rule[r].on /\ rule'[r].to = rule[r].to
           /\ rule'[r].state \in {rule[r].state, "lost"}
           /\ rule'[r].state = "lost" => rule[r].state = "lost" \/ (r \in There \ R /\ rule[r].from = s)
           /\ r \in There' =>
                /\ rule'[r].from = IF rule[r].from = s THEN None ELSE rule[r].from
                /\ rule'[r].active => r \notin R /\ rule[r].active
  BY StageGoesRules
<1>6. \A x : StagesOf(x)' = StagesOf(x) \ {s}
  BY <1>3 DEF StagesOf
<1>t. There' \subseteq There /\ There \subseteq RuleIds
  BY <1>5 DEF There
<1>7. late \ L \subseteq late' /\ late' \subseteq late \union L
  BY <1>e, ArrivalIsLate
<1>8. BoardTypeOK'
  <2>1. \A r \in There' : rule'[r].on \in Pipelines' /\ rule'[r].from \in StagesOf(rule[r].on)' \union {None}
    <3> SUFFICES ASSUME NEW r \in There'
                 PROVE  rule'[r].on \in Pipelines' /\ rule'[r].from \in StagesOf(rule[r].on)' \union {None}
      OBVIOUS
    <3>1. PICK p : p = rule'[r].on
      OBVIOUS
    <3>2. r \in There /\ r \in RuleIds /\ p = rule[r].on
      BY <1>5, <1>t, <3>1
    <3>3. rule'[r].from \in StagesOf(p)' \union {None}
      BY <1>5, <1>6, <3>2 DEF BoardInv, BoardTypeOK
    <3>4. p \in Pipelines'
      BY <1>e, <3>2 DEF BoardInv, BoardTypeOK, Pipelines
    <3> QED
      BY <3>1, <3>3, <3>4
  <2>2. \A m \in Leads : /\ card'[m].pipeline \in Pipelines' \union {None}
                       /\ card'[m].stage \in StagesOf(card[m].pipeline)' \union {None}
    <3> SUFFICES ASSUME NEW m \in Leads
                 PROVE  /\ card'[m].pipeline \in Pipelines' \union {None}
                        /\ card'[m].stage \in StagesOf(card[m].pipeline)' \union {None}
      OBVIOUS
    <3>1. PICK p : p = card'[m].pipeline
      OBVIOUS
    <3>2. p = card[m].pipeline
      BY <1>4, <3>1
    <3>3. card'[m].stage \in StagesOf(p)' \union {None}
      <4>1. CASE m \in L
        BY <1>3, <1>4, <1>6, <3>2, <4>1 DEF StagesOf
      <4>2. CASE m \notin L
        BY <1>4, <1>6, <3>2, <4>2 DEF BoardInv, BoardTypeOK
      <4> QED
        BY <4>1, <4>2
    <3>4. p \in Pipelines' \union {None}
      BY <1>e, <3>2 DEF BoardInv, BoardTypeOK, Pipelines
    <3> QED
      BY <3>1, <3>3, <3>4
  <2>3. flight' \in [Actors -> Requests]
    BY <1>2 DEF RequestsInv
  <2> QED
    BY <1>3, <1>e, <1>7, <2>1, <2>2, <2>3, FlightTypes DEF BoardInv, BoardTypeOK, Pipelines
<1>9. IdsInv' /\ CardsInv'
  <2>1. IdsInv'
    BY <1>3, <1>e DEF BoardInv, IdsInv, Pipelines
  <2>2. \A l \in Leads : ~card'[l].known => card'[l].pipeline = None /\ card'[l].stage = None
    BY <1>3, <1>4 DEF BoardInv, CardsInv
  <2> QED
    BY <1>4, <2>1, <2>2 DEF CardsInv
<1>10. RulesInv'
  <2>1. \A r \in There' : /\ rule'[r].to <= ids'.stages
                          /\ rule'[r].to \in BoardStages' => stageOf'[rule'[r].to] = rule'[r].on
    BY <1>3, <1>5, <1>t, <1>e DEF BoardInv, RulesInv
  <2> QED
    BY <1>5, <2>1 DEF RulesInv
<1>11. StraysAreLate'
  <2> SUFFICES ASSUME NEW m \in Leads, card'[m].known, card'[m].stage = None
               PROVE  m \in late'
    BY DEF StraysAreLate
  <2>1. m \notin L
    BY <1>3, <1>4
  <2>2. m \in LeadsIn(s) \/ card[m].stage = None
    BY <1>4, <2>1 DEF LeadsIn
  <2> QED
    BY <1>3, <1>4, <1>7, <2>1, <2>2 DEF BoardInv, StraysAreLate
<1>12. StaleRulesAreOff'
  <2> SUFFICES ASSUME NEW r \in RuleIds \ unsure
               PROVE  /\ rule'[r].state # "lost"
                      /\ r \in There' /\ rule'[r].active => rule'[r].to \in BoardStages' \union {None}
    BY <1>e DEF StaleRulesAreOff
  <2>1. /\ rule[r].state # "lost"
        /\ r \in There /\ rule[r].active => rule[r].to \in BoardStages \union {None}
    BY DEF BoardInv, StaleRulesAreOff
  <2>2. rule'[r].state # "lost"
    BY <1>3, <1>5, <2>1 DEF Naming
  <2>3. r \in There' /\ rule'[r].active => rule[r].to # s
    BY <1>3, <1>5, <1>t DEF Naming
  <2> QED
    BY <1>3, <1>5, <1>t, <2>1, <2>2, <2>3
<1> QED
  BY <1>2, <1>8, <1>9, <1>10, <1>11, <1>12 DEF BoardInv

-----------------------------------------------------------------------------
(* A pipeline is deleted *)

\* DropPipeline(a) of pipeline p, with the leads L moved to stage t.
PipelineGoes(a, p, t, L) ==
  /\ flight[a].op = "deletePipeline" /\ flight[a].at = "cleared"
  /\ flight[a].what = p /\ flight[a].target = t /\ flight[a].leads = L
  /\ PipelineFree(a, p) /\ (\A s \in StagesOf(p) : StageFree(a, s)) /\ \A l \in LeadsOn(p) \ L : LeadFree(a, l)
  /\ default' = [x \in Pipelines \ {p} |-> default[x]]
  /\ stageOf' = [s \in StageIds |-> IF stageOf[s] = p THEN None ELSE stageOf[s]]
  /\ rule' = [r \in RuleIds |-> IF r \in {x \in There : rule[x].on = p}
                                THEN [NoRule EXCEPT !.state = "deleted"] ELSE rule[r]]
  /\ card' = [l \in Leads |->
                IF l \in L THEN [card[l] EXCEPT !.pipeline = stageOf[t], !.stage = t]
                ELSE IF l \in LeadsOn(p) \ L THEN [card[l] EXCEPT !.pipeline = None, !.stage = None] ELSE card[l]]
  /\ late' = Arrived(a, L, t)
  /\ Ends(a) /\ UNCHANGED <<ids, unsure, begun, overlap>>

LEMMA PipelineGoesFrom ==
  ASSUME NEW a \in Actors, DropPipeline(a)
  PROVE  \E p, t, L : PipelineGoes(a, p, t, L)
<1>1. PipelineGoes(a, flight[a].what, flight[a].target, flight[a].leads)
  BY DEF DropPipeline, PipelineGoes, Committing, Ends, At
<1> QED
  BY <1>1

LEMMA PipelineGoesFacts ==
  ASSUME BoardInv, NEW a \in Actors, NEW p, NEW t, NEW L, PipelineGoes(a, p, t, L)
  PROVE  /\ p # None /\ L \subseteq Leads
         /\ L # {} => t \in BoardStages /\ t # None /\ stageOf[t] \in Pipelines \ {p}
         /\ \A l \in L : card[l].known
         /\ LeadsOn(p) \ L \subseteq late
         /\ \A x \in StageIds : stageOf'[x] = IF stageOf[x] = p THEN None ELSE stageOf[x]
         /\ BoardStages' = {x \in BoardStages : stageOf[x] # p} /\ BoardStages \subseteq StageIds
         /\ Pipelines' = Pipelines \ {p}
         /\ stageOf' \in [StageIds -> Pipelines' \union {None}]
<1>1. /\ flight[a] \in Requests /\ PipelineDeletion(flight[a]) /\ stageOf \in [StageIds -> Pipelines \union {None}]
      /\ ids.pipelines \in 0 .. MaxPipelines
  BY DEF BoardInv, RequestsInv, Sound, BoardTypeOK, IdsInv
<1>n. MaxStages \in Nat /\ MaxPipelines \in Nat
  BY BoardAssumption
<1>2. /\ p \in 1 .. ids.pipelines /\ L \subseteq Leads /\ (L # {} => t \in BoardStages)
      /\ t \in BoardStages => stageOf[t] # p
      /\ \A l \in L : card[l].known
      /\ LeadsOn(p) \ L \subseteq late
  BY <1>1, RequestShape DEF PipelineGoes, PipelineDeletion
<1>3. p # None
  BY <1>1, <1>2, <1>n DEF None
<1>4. t \in BoardStages => t # None /\ stageOf[t] \in Pipelines
  BY <1>1, <1>n DEF BoardStages, StageIds, None
<1>5. /\ \A x \in StageIds : stageOf'[x] = IF stageOf[x] = p THEN None ELSE stageOf[x]
      /\ Pipelines' = Pipelines \ {p}
  BY DEF PipelineGoes, Pipelines
<1>6. stageOf' \in [StageIds -> Pipelines' \union {None}]
  BY <1>1, <1>5 DEF PipelineGoes
<1>7. BoardStages' = {x \in BoardStages : stageOf[x] # p} /\ BoardStages \subseteq StageIds
  BY <1>3, <1>5 DEF BoardStages
<1> QED
  BY <1>2, <1>3, <1>4, <1>5, <1>6, <1>7

LEMMA PipelineGoesCards ==
  ASSUME BoardInv, NEW a \in Actors, NEW p, NEW t, NEW L, PipelineGoes(a, p, t, L)
  PROVE  /\ card' \in [Leads -> Cards]
         /\ \A m \in Leads :
              /\ card'[m].known = card[m].known
              /\ m \in L => card'[m].pipeline = stageOf[t] /\ card'[m].stage = t
              /\ m \notin L => /\ card'[m].pipeline = IF card[m].pipeline = p THEN None ELSE card[m].pipeline
                               /\ card'[m].stage = IF card[m].pipeline = p THEN None ELSE card[m].stage
<1>1. /\ card \in [Leads -> Cards] /\ p # None
      /\ \A m \in Leads : ~card[m].known => card[m].pipeline = None
  BY PipelineGoesFacts DEF BoardInv, CardsInv
<1>n. MaxStages \in Nat /\ MaxPipelines \in Nat
  BY BoardAssumption
<1>2. t \in 0 .. MaxStages
  BY RequestShape DEF BoardInv, RequestsInv, PipelineGoes
<1>3. None \in 0 .. MaxStages /\ None \in 0 .. MaxPipelines
  BY <1>n DEF None
<1>4. L # {} => stageOf[t] \in 0 .. MaxPipelines
  <2>1. Pipelines \subseteq 0 .. MaxPipelines
    BY <1>n DEF BoardInv, BoardTypeOK, PipelineIds
  <2>2. L # {} => stageOf[t] \in Pipelines
    BY PipelineGoesFacts
  <2> QED
    BY <2>1, <2>2
<1>5. ASSUME NEW m \in Leads
      PROVE  /\ card'[m] \in Cards
             /\ card'[m].known = card[m].known
             /\ m \in L => card'[m].pipeline = stageOf[t] /\ card'[m].stage = t
             /\ m \notin L => /\ card'[m].pipeline = IF card[m].pipeline = p THEN None ELSE card[m].pipeline
                              /\ card'[m].stage = IF card[m].pipeline = p THEN None ELSE card[m].stage
  <2>1. card[m] \in Cards
    BY <1>1
  <2>2. card'[m] = IF m \in L THEN [card[m] EXCEPT !.pipeline = stageOf[t], !.stage = t]
                   ELSE IF m \in LeadsOn(p) \ L THEN [card[m] EXCEPT !.pipeline = None, !.stage = None] ELSE card[m]
    BY DEF PipelineGoes
  <2>3. CASE m \in L
    BY <1>2, <1>4, <2>1, <2>2, <2>3 DEF Cards
  <2>4. CASE m \notin L /\ m \in LeadsOn(p)
    BY <1>3, <2>1, <2>2, <2>4 DEF Cards, LeadsOn
  <2>5. CASE m \notin L /\ m \notin LeadsOn(p)
    BY <1>1, <2>1, <2>2, <2>5 DEF LeadsOn
  <2> QED
    BY <2>3, <2>4, <2>5
<1> QED
  BY <1>5 DEF PipelineGoes

LEMMA PipelineGoesRules ==
  ASSUME BoardInv, NEW a \in Actors, NEW p, NEW t, NEW L, PipelineGoes(a, p, t, L)
  PROVE  /\ rule' \in [RuleIds -> RuleRecords]
         /\ \A r \in There' : r \in There /\ rule'[r] = rule[r] /\ rule[r].on # p
         /\ \A r \in RuleIds : rule'[r].state \in {"lost", "free"} => rule'[r] = rule[r]
<1>1. rule \in [RuleIds -> RuleRecords]
  BY DEF BoardInv, RulesInv
<1>2. [NoRule EXCEPT !.state = "deleted"] \in RuleRecords /\ [NoRule EXCEPT !.state = "deleted"].state = "deleted"
  BY GoneRule
<1>3. PICK gone : gone = [NoRule EXCEPT !.state = "deleted"]
  OBVIOUS
<1>4. ASSUME NEW r \in RuleIds
      PROVE  /\ rule'[r] \in RuleRecords
             /\ rule'[r].state = "there" => r \in There /\ rule'[r] = rule[r] /\ rule[r].on # p
             /\ rule'[r].state \in {"lost", "free"} => rule'[r] = rule[r]
  <2>1. rule[r] \in RuleRecords
    BY <1>1
  <2>2. rule'[r] = IF r \in {x \in There : rule[x].on = p} THEN gone ELSE rule[r]
    BY <1>3 DEF PipelineGoes
  <2>3. gone \in RuleRecords /\ gone.state = "deleted"
    BY <1>2, <1>3
  <2>4. CASE r \in There /\ rule[r].on = p
    BY <2>2, <2>3, <2>4
  <2>5. CASE ~(r \in There /\ rule[r].on = p)
    BY <2>1, <2>2, <2>5 DEF There
  <2> QED
    BY <2>4, <2>5
<1> QED
  BY <1>4 DEF PipelineGoes, There

LEMMA PipelineGoesDefaults ==
  ASSUME BoardInv, NEW a \in Actors, NEW p, NEW t, NEW L, PipelineGoes(a, p, t, L)
  PROVE  DefaultsInv'
<1>1. Ends(a) /\ overlap' = overlap /\ OnPipelines(flight[a])
  BY DEF PipelineGoes, OnPipelines
<1>2. ASSUME ~overlap, Pipelines' # {}
      PROVE  \E x \in Pipelines' : \A y \in Pipelines' : default'[y] <=> y = x
  <2>1. OneIsDefault /\ Undisturbed(flight[a])
    BY <1>2 DEF BoardInv, DefaultsInv
  <2>2. ~default[p] /\ p \in Pipelines
    BY <2>1 DEF Undisturbed, PipelineGoes
  <2>3. PICK x \in Pipelines : \A y \in Pipelines : default[y] <=> y = x
    BY <2>1, <2>2 DEF OneIsDefault
  <2>4. /\ Pipelines' = Pipelines \ {p} /\ \A y \in Pipelines' : default'[y] = default[y]
    BY DEF PipelineGoes, Pipelines
  <2> QED
    BY <2>2, <2>3, <2>4
<1>3. overlap \/ OneIsDefault'
  BY <1>2 DEF OneIsDefault
<1> QED
  BY <1>1, <1>3, NewDefaults

LEMMA PipelineGoesSound ==
  ASSUME BoardInv, NEW a \in Actors, NEW p, NEW t, NEW L, PipelineGoes(a, p, t, L),
         NEW b \in Others(a), NEW q, q = flight[b]
  PROVE  Sound(q)'
<1>1. /\ Sound(q) /\ q \in Requests /\ b \in Actors /\ L \intersect q.leads = {} /\ q.leads \subseteq Leads
      /\ LeadsOn(p) \intersect q.leads = {} /\ p \notin q.pipes
  <2>1. b \in Actors /\ b # a
    BY DEF Others
  <2>2. Sound(q) /\ q \in Requests /\ L \intersect q.leads = {} /\ q.leads \subseteq Leads
    BY <2>1, RequestShape DEF BoardInv, RequestsInv, PipelineGoes
  <2>3. (LeadsOn(p) \ L) \intersect q.leads = {} /\ p \notin q.pipes
    BY DEF PipelineGoes, LeadFree, PipelineFree
  <2> QED
    BY <2>1, <2>2, <2>3
<1>2. /\ p # None /\ L \subseteq Leads
      /\ L # {} => t \in BoardStages /\ t # None
      /\ \A l \in L : card[l].known
      /\ Pipelines' = Pipelines \ {p} /\ BoardStages' \subseteq BoardStages
      /\ \A x \in BoardStages' : stageOf'[x] = stageOf[x]
      /\ \A x \in BoardStages \ StagesOf(p) : x \in BoardStages' /\ stageOf'[x] = stageOf[x]
  <2>1. /\ p # None /\ L \subseteq Leads
        /\ L # {} => t \in BoardStages /\ t # None
        /\ \A l \in L : card[l].known
        /\ Pipelines' = Pipelines \ {p}
        /\ \A x \in StageIds : stageOf'[x] = IF stageOf[x] = p THEN None ELSE stageOf[x]
        /\ BoardStages' = {x \in BoardStages : stageOf[x] # p} /\ BoardStages \subseteq StageIds
    BY PipelineGoesFacts
  <2> QED
    BY <2>1 DEF StagesOf
<1>3. /\ \A m \in Leads :
           /\ card'[m].known = card[m].known
           /\ m \in L => card'[m].pipeline = stageOf[t] /\ card'[m].stage = t
           /\ m \notin L => /\ card'[m].pipeline = IF card[m].pipeline = p THEN None ELSE card[m].pipeline
                            /\ card'[m].stage = IF card[m].pipeline = p THEN None ELSE card[m].stage
  BY PipelineGoesCards
<1>4. /\ \A r \in There' : r \in There /\ rule'[r] = rule[r]
      /\ \A r \in RuleIds : rule'[r].state = "free" => rule'[r] = rule[r]
  BY PipelineGoesRules
<1>5. /\ late \ L \subseteq late' /\ (Leaving(a, t) => L \subseteq late')
      /\ ids' = ids /\ unsure' = unsure
  <2>1. late' = Arrived(a, L, t) /\ ids' = ids /\ unsure' = unsure
    BY DEF PipelineGoes
  <2> QED
    BY <2>1, ArrivalIsLate
<1>6. q.leads # {} /\ q.at = "cleared" => q.target \notin StagesOf(p)
  BY DEF PipelineGoes, StageFree
<1>k. \A m \in q.leads : card'[m].known = card[m].known /\ card'[m].pipeline = card[m].pipeline
  <2>1. ASSUME NEW m \in q.leads, card[m].known
        PROVE  card[m].pipeline # p
    BY <1>1, <2>1 DEF LeadsOn
  <2>2. \A m \in q.leads : ~card[m].known => card[m].pipeline = None
    BY <1>1 DEF BoardInv, CardsInv
  <2> QED
    BY <1>1, <1>2, <1>3, <2>1, <2>2
<1>7. StageDeletion(q)'
  <2> SUFFICES ASSUME q.op = "deleteStage"
               PROVE  StageDeletion(q)'
    BY DEF StageDeletion
  <2>1. StageDeletion(q) /\ q.what # None
    BY <1>1 DEF Sound, StageDeletion, None
  <2>2. q.what = t => Leaving(a, t)
    BY DEF Leaving
  <2>3. ASSUME q.at = "cleared" \/ q.target = None, NEW m \in LeadsIn(q.what)', m \notin q.leads
        PROVE  m \in late'
    <3>1. m \in Leads /\ card'[m].known /\ card'[m].stage = q.what
      BY <2>3 DEF LeadsIn
    <3>2. CASE m \in L
      BY <1>3, <1>5, <2>2, <3>1, <3>2
    <3>3. CASE m \notin L
      <4>1. m \in LeadsIn(q.what)
        BY <1>3, <2>1, <3>1, <3>3 DEF LeadsIn
      <4> QED
        BY <1>5, <2>1, <2>3, <3>3, <4>1 DEF StageDeletion
    <3> QED
      BY <3>2, <3>3
  <2>4. Naming(q.what)' \subseteq Naming(q.what)
    BY <1>4 DEF Naming
  <2>5. q.leads # {} => q.target \in BoardStages' /\ stageOf'[q.target] = stageOf[q.target]
    BY <1>2, <1>6, <2>1 DEF StageDeletion
  <2>6. \A l \in q.leads : card'[l].known /\ card'[l].pipeline = stageOf'[q.target]
    BY <1>k, <2>1, <2>5 DEF StageDeletion
  <2>7. {q.target, q.what} \subseteq BoardStages' => stageOf'[q.target] = stageOf'[q.what]
    BY <1>2, <2>1 DEF StageDeletion
  <2> QED
    BY <1>5, <2>1, <2>3, <2>4, <2>5, <2>6, <2>7 DEF StageDeletion
<1>8. PipelineDeletion(q)'
  <2> SUFFICES ASSUME q.op = "deletePipeline"
               PROVE  PipelineDeletion(q)'
    BY DEF PipelineDeletion
  <2>1. PipelineDeletion(q) /\ q.what # None
    BY <1>1 DEF Sound, PipelineDeletion, None
  <2>2. q.what = stageOf[t] => Leaving(a, t)
    BY DEF Leaving
  <2>3. ASSUME q.at = "cleared" \/ q.target = None, NEW m \in LeadsOn(q.what)', m \notin q.leads
        PROVE  m \in late'
    <3>1. m \in Leads /\ card'[m].known /\ card'[m].pipeline = q.what
      BY <2>3 DEF LeadsOn
    <3>3. CASE m \in L
      BY <1>3, <1>5, <2>2, <3>1, <3>3
    <3>4. CASE m \notin L
      <4>1. m \in LeadsOn(q.what)
        BY <1>3, <2>1, <3>1, <3>4 DEF LeadsOn
      <4> QED
        BY <1>5, <2>1, <2>3, <3>4, <4>1 DEF PipelineDeletion
    <3> QED
      BY <3>3, <3>4
  <2>4. q.leads # {} => q.target \in BoardStages'
    BY <1>2, <1>6, <2>1 DEF PipelineDeletion
  <2>5. q.target \in BoardStages' => stageOf'[q.target] # q.what
    BY <1>2, <2>1 DEF PipelineDeletion
  <2> QED
    BY <1>k, <1>5, <2>1, <2>3, <2>4, <2>5 DEF PipelineDeletion
<1>9. RuleWriting(q)'
  <2> SUFFICES ASSUME q.op = "writeRule"
               PROVE  RuleWriting(q)'
    BY DEF RuleWriting
  <2>1. RuleWriting(q)
    BY <1>1 DEF Sound
  <2> QED
    BY <1>2, <1>4, <1>5, <2>1 DEF RuleWriting
<1>10. LeadMove(q)' /\ PipelineChange(q)'
  BY <1>1, <1>3, <1>5 DEF Sound, LeadMove, PipelineChange
<1>11. LeadArrival(q)'
  <2> SUFFICES ASSUME q.op = "newLead"
               PROVE  LeadArrival(q)'
    BY DEF LeadArrival
  <2> QED
    BY <1>1, <1>2, <1>k, <1>5 DEF Sound, LeadArrival
<1>12. LeadEvent(q)'
  <2> SUFFICES ASSUME q.op = "event"
               PROVE  LeadEvent(q)'
    BY DEF LeadEvent
  <2> QED
    BY <1>1, <1>2, <1>k, <1>5 DEF Sound, LeadEvent
<1> QED
  BY <1>7, <1>8, <1>9, <1>10, <1>11, <1>12 DEF Sound

LEMMA PipelineGoesStep ==
  ASSUME BoardInv, NEW a \in Actors, NEW p, NEW t, NEW L, PipelineGoes(a, p, t, L)
  PROVE  BoardInv'
<1>e. /\ Ends(a) /\ UNCHANGED <<overlap, ids, unsure, begun>> /\ late' = Arrived(a, L, t)
      /\ default' = [x \in Pipelines \ {p} |-> default[x]]
  BY DEF PipelineGoes
<1>1. ASSUME NEW b \in Others(a)
      PROVE  Sound(flight[b])'
  <2>1. PICK q : q = flight[b]
    OBVIOUS
  <2>2. Sound(q)'
    BY <2>1, PipelineGoesSound
  <2>3. flight'[b] = flight[b]
    BY <1>e DEF BoardInv, RequestsInv, Ends, Others
  <2> QED
    BY <2>1, <2>2, <2>3
<1>2. RequestsInv' /\ DefaultsInv'
  BY <1>1, <1>e, CommitRequests, PipelineGoesDefaults
<1>3. /\ p # None /\ L \subseteq Leads
      /\ L # {} => t \in BoardStages /\ t # None /\ stageOf[t] \in Pipelines \ {p}
      /\ \A l \in L : card[l].known
      /\ LeadsOn(p) \ L \subseteq late
      /\ \A x \in StageIds : stageOf'[x] = IF stageOf[x] = p THEN None ELSE stageOf[x]
      /\ BoardStages' = {x \in BoardStages : stageOf[x] # p} /\ BoardStages \subseteq StageIds
      /\ Pipelines' = Pipelines \ {p}
      /\ stageOf' \in [StageIds -> Pipelines' \union {None}]
  BY PipelineGoesFacts
<1>4. /\ card' \in [Leads -> Cards]
      /\ \A m \in Leads :
           /\ card'[m].known = card[m].known
           /\ m \in L => card'[m].pipeline = stageOf[t] /\ card'[m].stage = t
           /\ m \notin L => /\ card'[m].pipeline = IF card[m].pipeline = p THEN None ELSE card[m].pipeline
                            /\ card'[m].stage = IF card[m].pipeline = p THEN None ELSE card[m].stage
  BY PipelineGoesCards
<1>5. /\ rule' \in [RuleIds -> RuleRecords]
      /\ \A r \in There' : r \in There /\ rule'[r] = rule[r] /\ rule[r].on # p
      /\ \A r \in RuleIds : rule'[r].state = "lost" => rule'[r] = rule[r]
  BY PipelineGoesRules
<1>6. /\ \A x : x # p => StagesOf(x)' = StagesOf(x)
      /\ \A x \in BoardStages' : stageOf'[x] = stageOf[x]
  BY <1>3 DEF StagesOf
<1>7. late \ L \subseteq late' /\ late' \subseteq late \union L
  BY <1>e, ArrivalIsLate
<1>8. BoardTypeOK'
  <2>1. \A r \in There' : rule'[r].on \in Pipelines' /\ rule'[r].from \in StagesOf(rule[r].on)' \union {None}
    <3> SUFFICES ASSUME NEW r \in There'
                 PROVE  rule'[r].on \in Pipelines' /\ rule'[r].from \in StagesOf(rule[r].on)' \union {None}
      OBVIOUS
    <3>1. PICK x : x = rule'[r].on
      OBVIOUS
    <3>2. r \in There /\ x = rule[r].on /\ x # p /\ x \in Pipelines
      BY <1>5, <3>1 DEF BoardInv, BoardTypeOK
    <3>3. rule'[r].from \in StagesOf(x)' \union {None}
      BY <1>5, <1>6, <3>2 DEF BoardInv, BoardTypeOK
    <3> QED
      BY <1>3, <3>1, <3>2, <3>3
  <2>2. \A m \in Leads : /\ card'[m].pipeline \in Pipelines' \union {None}
                       /\ card'[m].stage \in StagesOf(card[m].pipeline)' \union {None}
    <3> SUFFICES ASSUME NEW m \in Leads
                 PROVE  /\ card'[m].pipeline \in Pipelines' \union {None}
                        /\ card'[m].stage \in StagesOf(card[m].pipeline)' \union {None}
      OBVIOUS
    <3>1. PICK x : x = card'[m].pipeline
      OBVIOUS
    <3>2. CASE m \in L
      <4>1. x = stageOf[t] /\ card'[m].stage = t /\ x # p /\ x \in Pipelines /\ t \in StagesOf(x)
        BY <1>3, <1>4, <3>1, <3>2 DEF StagesOf
      <4> QED
        BY <1>3, <1>6, <3>1, <4>1
    <3>3. CASE m \notin L /\ card[m].pipeline = p
      BY <1>4, <3>1, <3>3
    <3>4. CASE m \notin L /\ card[m].pipeline # p
      <4>1. x = card[m].pipeline /\ card'[m].stage = card[m].stage
        BY <1>4, <3>1, <3>4
      <4>2. card[m].pipeline \in Pipelines \union {None} /\ card[m].stage \in StagesOf(x) \union {None}
        BY <4>1 DEF BoardInv, BoardTypeOK
      <4>3. card'[m].stage \in StagesOf(x)' \union {None}
        BY <1>6, <3>4, <4>1, <4>2
      <4> QED
        BY <1>3, <3>1, <3>4, <4>1, <4>2, <4>3
    <3> QED
      BY <3>2, <3>3, <3>4
  <2>3. flight' \in [Actors -> Requests]
    BY <1>2 DEF RequestsInv
  <2>4. Pipelines' \subseteq PipelineIds /\ default' \in [Pipelines' -> BOOLEAN]
    BY <1>3, <1>e DEF BoardInv, BoardTypeOK
  <2> QED
    BY <1>3, <1>e, <1>7, <2>1, <2>2, <2>3, <2>4, FlightTypes DEF BoardInv, BoardTypeOK
<1>9. IdsInv' /\ CardsInv'
  <2>1. IdsInv'
    BY <1>3, <1>e DEF BoardInv, IdsInv
  <2>2. \A l \in Leads : ~card'[l].known => card'[l].pipeline = None /\ card'[l].stage = None
    BY <1>3, <1>4 DEF BoardInv, CardsInv
  <2> QED
    BY <1>4, <2>1, <2>2 DEF CardsInv
<1>10. RulesInv'
  <2>1. \A r \in There' : /\ rule'[r].to <= ids'.stages
                          /\ rule'[r].to \in BoardStages' => stageOf'[rule'[r].to] = rule'[r].on
    BY <1>3, <1>5, <1>6, <1>e DEF BoardInv, RulesInv
  <2> QED
    BY <1>5, <2>1 DEF RulesInv
<1>11. StraysAreLate'
  <2> SUFFICES ASSUME NEW m \in Leads, card'[m].known, card'[m].stage = None
               PROVE  m \in late'
    BY DEF StraysAreLate
  <2>1. m \notin L
    BY <1>3, <1>4
  <2>2. m \in LeadsOn(p) \/ card[m].stage = None
    BY <1>4, <2>1 DEF LeadsOn
  <2> QED
    BY <1>3, <1>4, <1>7, <2>1, <2>2 DEF BoardInv, StraysAreLate
<1>12. StaleRulesAreOff'
  <2> SUFFICES ASSUME NEW r \in RuleIds \ unsure
               PROVE  /\ rule'[r].state # "lost"
                      /\ r \in There' /\ rule'[r].active => rule'[r].to \in BoardStages' \union {None}
    BY <1>e DEF StaleRulesAreOff
  <2>1. /\ rule[r].state # "lost"
        /\ r \in There /\ rule[r].active => rule[r].to \in BoardStages \union {None}
    BY DEF BoardInv, StaleRulesAreOff
  <2>2. rule'[r].state # "lost"
    BY <1>5, <2>1
  <2>3. r \in There' /\ rule[r].to \in BoardStages => stageOf[rule[r].to] # p
    BY <1>5 DEF BoardInv, RulesInv
  <2> QED
    BY <1>3, <1>5, <2>1, <2>2, <2>3
<1> QED
  BY <1>2, <1>8, <1>9, <1>10, <1>11, <1>12 DEF BoardInv

-----------------------------------------------------------------------------
(* The actions: requests are asked *)

\* A request is made of RequestFor with some of its parts filled in.
LEMMA RequestForShape ==
  ASSUME NEW op \in Operations, NEW what \in 0 .. MaxPipelines + MaxStages + MaxRules, NEW target \in 0 .. MaxStages
  PROVE  /\ RequestFor(op, what, target) \in Requests
         /\ RequestFor(op, what, target).op = op /\ RequestFor(op, what, target).at = "checked"
         /\ RequestFor(op, what, target).what = what /\ RequestFor(op, what, target).target = target
         /\ RequestFor(op, what, target).leads = {} /\ RequestFor(op, what, target).rules = {}
         /\ RequestFor(op, what, target).pipes = {} /\ RequestFor(op, what, target).seen = {}
<1> HIDE DEF Operations
<1>1. Idle \in Requests /\ Idle.leads = {} /\ Idle.rules = {} /\ Idle.pipes = {} /\ Idle.seen = {}
  BY IdleIsSound DEF Idle
<1> HIDE DEF Idle
<1> QED
  BY <1>1 DEF RequestFor, Requests


LEMMA AskStep ==
  ASSUME BoardInv, NEW a \in Actors, NEW q \in Requests, MayAsk(a), BeginRequest(a, q), Sound(q), Undisturbed(q),
         \A l \in q.leads : LeadFree(a, l)
  PROVE  BoardInv'
<1>1. begun' \in 0 .. MaxAsked
  BY BoardAssumption DEF MayAsk, BeginRequest, BoardInv, BoardTypeOK
<1>2. overlap' \in BOOLEAN /\ (overlap => overlap')
  BY DEF BeginRequest, BoardInv, BoardTypeOK
<1>3. OnlyAsks(a, q)
  BY <1>1, <1>2 DEF OnlyAsks, BeginRequest
<1> QED
  BY <1>3, LeavesTheBoard

LEMMA AskDeleteStageStays ==
  ASSUME BoardInv, NEW a \in Actors, NEW s \in StageIds, NEW t \in StageIds \union {None}, AskDeleteStage(a, s, t)
  PROVE  BoardInv'
<1>n. MaxStages \in Nat /\ MaxPipelines \in Nat /\ MaxRules \in Nat
  BY BoardAssumption
<1>1. PICK q : q = RequestFor("deleteStage", s, t)
  OBVIOUS
<1>2. /\ q \in Requests /\ q.op = "deleteStage" /\ q.at = "checked" /\ q.what = s /\ q.target = t /\ q.leads = {}
  <2>1. /\ "deleteStage" \in Operations /\ s \in 0 .. MaxPipelines + MaxStages + MaxRules /\ t \in 0 .. MaxStages
    BY <1>n DEF Operations, StageIds, None
  <2> QED
    BY <1>1, <2>1, RequestForShape
<1>3. Sound(q)
  <2>1. s \in BoardStages /\ s <= ids.stages /\ ids.stages \in Nat /\ s # None
    BY <1>n DEF AskDeleteStage, BoardInv, IdsInv, StageIds, None
  <2>2. t \in 0 .. ids.stages /\ t # s /\ (t \in BoardStages => stageOf[t] = stageOf[s])
    BY <1>n, <2>1 DEF AskDeleteStage, BoardInv, IdsInv, StagesOf, BoardStages, StageIds, None
  <2>3. t = None => LeadsIn(s) = {}
    BY <1>n DEF AskDeleteStage, StagesOf, BoardStages, StageIds, None
  <2>4. StageDeletion(q)
    BY <1>2, <1>n, <2>1, <2>2, <2>3 DEF StageDeletion, StageIds
  <2> QED
    BY <1>2, <2>4 DEF Sound, PipelineDeletion, RuleWriting, LeadMove, LeadArrival, LeadEvent, PipelineChange
<1>4. Undisturbed(q)
  BY <1>2 DEF Undisturbed
<1> QED
  BY <1>1, <1>2, <1>3, <1>4, AskStep DEF AskDeleteStage

LEMMA AskDeletePipelineStays ==
  ASSUME BoardInv, NEW a \in Actors, NEW p \in PipelineIds, NEW t \in StageIds \union {None}, AskDeletePipeline(a, p, t)
  PROVE  BoardInv'
<1>n. MaxStages \in Nat /\ MaxPipelines \in Nat /\ MaxRules \in Nat
  BY BoardAssumption
<1>0. PICK r, seen : r = RequestFor("deletePipeline", p, t) /\ seen = (IF t = None THEN {} ELSE {stageOf[t]})
  OBVIOUS
<1>1. PICK q : q = [r EXCEPT !.seen = seen]
  OBVIOUS
<1>2. /\ q \in Requests /\ q.op = "deletePipeline" /\ q.at = "checked" /\ q.what = p /\ q.target = t /\ q.leads = {}
  <2>1. /\ "deletePipeline" \in Operations /\ p \in 0 .. MaxPipelines + MaxStages + MaxRules /\ t \in 0 .. MaxStages
    BY <1>n DEF Operations, StageIds, PipelineIds, None
  <2>2. /\ r \in Requests /\ r.op = "deletePipeline" /\ r.at = "checked" /\ r.what = p /\ r.target = t /\ r.leads = {}
    BY <1>0, <2>1, RequestForShape
  <2>3. seen \subseteq Nat \union Leads
    <3>1. Pipelines \subseteq Nat /\ None \in Nat /\ stageOf \in [StageIds -> Pipelines \union {None}]
      BY <1>n DEF BoardInv, BoardTypeOK, PipelineIds, None
    <3> QED
      BY <1>0, <3>1
  <2> QED
    BY <1>1, <2>2, <2>3 DEF Requests
<1>3. Sound(q)
  <2>1. p \in Pipelines /\ ids.pipelines \in Nat /\ ids.stages \in Nat /\ p \in 1 .. ids.pipelines
    BY <1>n DEF AskDeletePipeline, BoardInv, IdsInv, PipelineIds
  <2>2. t \in 0 .. ids.stages /\ (t \in BoardStages => stageOf[t] # p)
    BY <1>n, <2>1 DEF AskDeletePipeline, BoardInv, IdsInv, StagesOf, BoardStages, StageIds, None
  <2>3. t = None => LeadsOn(p) = {}
    BY <1>n DEF AskDeletePipeline, BoardStages, StageIds, None
  <2>4. PipelineDeletion(q)
    BY <1>2, <2>1, <2>2, <2>3 DEF PipelineDeletion
  <2> QED
    BY <1>2, <2>4 DEF Sound, StageDeletion, RuleWriting, LeadMove, LeadArrival, LeadEvent, PipelineChange
<1>4. Undisturbed(q)
  BY <1>2 DEF Undisturbed, AskDeletePipeline
<1> QED
  BY <1>0, <1>1, <1>2, <1>3, <1>4, AskStep DEF AskDeletePipeline

LEMMA AskCreatePipelineStays ==
  ASSUME BoardInv, NEW a \in Actors, NEW makeDefault \in BOOLEAN, AskCreatePipeline(a, makeDefault)
  PROVE  BoardInv'
<1>n. MaxStages \in Nat /\ MaxPipelines \in Nat /\ MaxRules \in Nat /\ MaxPipelines >= 2
  BY BoardAssumption
<1>0. PICK r, what : r = RequestFor("createPipeline", None, None) /\ what = (IF makeDefault \/ Pipelines = {} THEN 1 ELSE 0)
  OBVIOUS
<1>1. PICK q : q = [r EXCEPT !.what = what]
  OBVIOUS
<1>2. /\ q \in Requests /\ q.op = "createPipeline" /\ q.at = "checked" /\ q.what = what /\ q.leads = {} /\ q.pipes = {}
  <2>1. /\ "createPipeline" \in Operations /\ None \in 0 .. MaxPipelines + MaxStages + MaxRules /\ None \in 0 .. MaxStages
    BY <1>n DEF Operations, None
  <2>2. /\ r \in Requests /\ r.op = "createPipeline" /\ r.at = "checked" /\ r.leads = {} /\ r.pipes = {}
    BY <1>0, <2>1, RequestForShape
  <2>3. what \in 0 .. MaxPipelines + MaxStages + MaxRules
    BY <1>0, <1>n
  <2> QED
    BY <1>1, <2>2, <2>3 DEF Requests
<1>3. Sound(q)
  BY <1>0, <1>2 DEF Sound, StageDeletion, PipelineDeletion, RuleWriting, LeadMove, LeadArrival, LeadEvent, PipelineChange
<1>4. Undisturbed(q)
  BY <1>0, <1>2 DEF Undisturbed
<1> QED
  BY <1>0, <1>1, <1>2, <1>3, <1>4, AskStep DEF AskCreatePipeline

LEMMA AskDefaultStays ==
  ASSUME BoardInv, NEW a \in Actors, NEW p \in PipelineIds, AskDefault(a, p)
  PROVE  BoardInv'
<1>n. MaxStages \in Nat /\ MaxPipelines \in Nat /\ MaxRules \in Nat
  BY BoardAssumption
<1>1. PICK q : q = RequestFor("makeDefault", p, None)
  OBVIOUS
<1>2. /\ q \in Requests /\ q.op = "makeDefault" /\ q.at = "checked" /\ q.what = p /\ q.leads = {}
  <2>1. /\ "makeDefault" \in Operations /\ p \in 0 .. MaxPipelines + MaxStages + MaxRules /\ None \in 0 .. MaxStages
    BY <1>n DEF Operations, PipelineIds, None
  <2> QED
    BY <1>1, <2>1, RequestForShape
<1>3. Sound(q)
  <2>1. p \in 1 .. ids.pipelines
    BY <1>n DEF AskDefault, BoardInv, IdsInv, PipelineIds
  <2> QED
    BY <1>2, <2>1 DEF Sound, StageDeletion, PipelineDeletion, RuleWriting, LeadMove, LeadArrival, LeadEvent, PipelineChange
<1>4. Undisturbed(q)
  BY <1>2 DEF Undisturbed, AskDefault
<1> QED
  BY <1>1, <1>2, <1>3, <1>4, AskStep DEF AskDefault

LEMMA AskMoveStays ==
  ASSUME BoardInv, NEW a \in Actors, NEW l \in Leads, NEW s \in StageIds, AskMove(a, l, s)
  PROVE  BoardInv'
<1>n. MaxStages \in Nat /\ MaxPipelines \in Nat /\ MaxRules \in Nat
  BY BoardAssumption
<1>0. PICK r : r = RequestFor("move", s, s)
  OBVIOUS
<1>1. PICK q : q = [r EXCEPT !.seen = {l}]
  OBVIOUS
<1>2. /\ q \in Requests /\ q.op = "move" /\ q.at = "checked" /\ q.what = s /\ q.leads = {} /\ q.seen = {l}
  <2>1. /\ "move" \in Operations /\ s \in 0 .. MaxPipelines + MaxStages + MaxRules /\ s \in 0 .. MaxStages
    BY <1>n DEF Operations, StageIds, None
  <2>2. /\ r \in Requests /\ r.op = "move" /\ r.at = "checked" /\ r.what = s /\ r.leads = {}
    BY <1>0, <2>1, RequestForShape
  <2> QED
    BY <1>1, <2>2 DEF Requests
<1>3. Sound(q)
  <2>1. s \in 1 .. ids.stages /\ card[l].known
    BY <1>n DEF AskMove, BoardInv, IdsInv, StageIds
  <2> QED
    BY <1>2, <2>1 DEF Sound, StageDeletion, PipelineDeletion, RuleWriting, LeadMove, LeadArrival, LeadEvent, PipelineChange
<1>4. Undisturbed(q)
  BY <1>2 DEF Undisturbed
<1> QED
  BY <1>0, <1>1, <1>2, <1>3, <1>4, AskStep DEF AskMove

LEMMA AskEventStays ==
  ASSUME BoardInv, NEW a \in Actors, NEW l \in Leads, AskEvent(a, l)
  PROVE  BoardInv'
<1>n. MaxStages \in Nat /\ MaxPipelines \in Nat /\ MaxRules \in Nat
  BY BoardAssumption
<1>p. PICK p : p = card[l].pipeline
  OBVIOUS
<1>q. p \in Pipelines /\ p \in PipelineIds
  BY <1>p DEF AskEvent, BoardInv, BoardTypeOK
<1>0. PICK r, seen : r = RequestFor("event", p, None) /\ seen = StagesOf(p)
  OBVIOUS
<1>1. PICK q : q = [r EXCEPT !.leads = {l}, !.pipes = {p}, !.seen = seen]
  OBVIOUS
<1>2. /\ q \in Requests /\ q.op = "event" /\ q.at = "checked" /\ q.what = p /\ q.leads = {l} /\ q.pipes = {p} /\ q.seen = seen
  <2>1. /\ "event" \in Operations /\ p \in 0 .. MaxPipelines + MaxStages + MaxRules /\ None \in 0 .. MaxStages
    BY <1>n, <1>q DEF Operations, PipelineIds, None
  <2>2. /\ r \in Requests /\ r.op = "event" /\ r.at = "checked" /\ r.what = p
    BY <1>0, <2>1, RequestForShape
  <2>3. seen \subseteq Nat
    BY <1>0, <1>n DEF StagesOf, BoardStages, StageIds
  <2> QED
    BY <1>1, <1>q, <2>2, <2>3 DEF Requests
<1>3. Sound(q)
  <2>1. \A s \in seen : s \in 1 .. ids.stages /\ (s \in BoardStages => stageOf[s] = p)
    BY <1>0, <1>n DEF StagesOf, BoardStages, BoardInv, IdsInv, StageIds
  <2>2. LeadEvent(q)
    BY <1>2, <1>p, <1>q, <2>1 DEF LeadEvent, AskEvent
  <2> QED
    BY <1>2, <2>2 DEF Sound, StageDeletion, PipelineDeletion, RuleWriting, LeadMove, LeadArrival, PipelineChange
<1>4. Undisturbed(q) /\ \A x \in q.leads : LeadFree(a, x)
  BY <1>2 DEF Undisturbed, AskEvent
<1>5. MayAsk(a) /\ BeginRequest(a, q)
  BY <1>p, <1>0, <1>1 DEF AskEvent
<1> QED
  BY <1>2, <1>3, <1>4, <1>5, AskStep

LEMMA AskNewLeadStays ==
  ASSUME BoardInv, NEW a \in Actors, NEW l \in Leads, NEW p \in PipelineIds \union {None},
         NEW s \in StageIds \union {None}, AskNewLead(a, l, p, s)
  PROVE  BoardInv'
<1>n. MaxStages \in Nat /\ MaxPipelines \in Nat /\ MaxRules \in Nat
  BY BoardAssumption
<1>0. PICK r, seen : r = RequestFor("newLead", p, s) /\ seen = (IF p = None THEN {} ELSE {p})
  OBVIOUS
<1>1. PICK q : q = [r EXCEPT !.seen = seen, !.leads = {l}]
  OBVIOUS
<1>2. /\ q \in Requests /\ q.op = "newLead" /\ q.at = "checked" /\ q.what = p /\ q.target = s
      /\ q.leads = {l} /\ q.seen = seen
  <2>1. /\ "newLead" \in Operations /\ p \in 0 .. MaxPipelines + MaxStages + MaxRules /\ s \in 0 .. MaxStages
    BY <1>n DEF Operations, StageIds, PipelineIds, None
  <2>2. /\ r \in Requests /\ r.op = "newLead" /\ r.at = "checked" /\ r.what = p /\ r.target = s
    BY <1>0, <2>1, RequestForShape
  <2>3. seen \subseteq Nat
    BY <1>0, <1>n DEF PipelineIds, None
  <2> QED
    BY <1>1, <2>2, <2>3 DEF Requests
<1>a. /\ ~card[l].known
      /\ Pipelines = {} => p = None /\ s = None
      /\ Pipelines # {} => /\ p \in Pipelines
                           /\ s = None \/ s \in StagesOf(p)
      /\ \A b \in Others(a) : flight[b].op # "newLead"
  BY DEF AskNewLead
<1>i. /\ ids.pipelines \in Nat /\ ids.stages \in Nat /\ None \notin Pipelines
      /\ \A x \in Pipelines : x \in 1 .. ids.pipelines
      /\ \A x \in BoardStages : x \in 1 .. ids.stages
  BY <1>n DEF BoardInv, BoardTypeOK, IdsInv, BoardStages, StageIds, PipelineIds, None
<1>3. Sound(q)
  <2>1. p \in 0 .. ids.pipelines /\ s \in 0 .. ids.stages
    BY <1>a, <1>i DEF StagesOf, None
  <2>2. s \in BoardStages => stageOf[s] = p
    BY <1>a, <1>i DEF StagesOf, BoardStages, StageIds, None
  <2>3. (seen = {} <=> p = None) /\ (p = None => s = None)
    BY <1>0, <1>a, <1>i
  <2>4. LeadArrival(q)
    BY <1>2, <1>a, <2>1, <2>2, <2>3 DEF LeadArrival
  <2> QED
    BY <1>2, <2>4 DEF Sound, StageDeletion, PipelineDeletion, RuleWriting, LeadMove, LeadEvent, PipelineChange
<1>4. Undisturbed(q)
  <2>1. seen = {} => Pipelines = {}
    BY <1>0, <1>a, <1>i
  <2> QED
    BY <1>2, <2>1 DEF Undisturbed, OnPipelines
<1>5. ASSUME NEW b \in Others(a)
      PROVE  l \notin flight[b].leads
  <2>1. PICK w : w = flight[b]
    OBVIOUS
  <2>2. Sound(w) /\ w.op \in Operations /\ w.op # "newLead"
    BY <1>a, <2>1, RequestShape DEF BoardInv, RequestsInv, Others
  <2>3. l \notin w.leads
    BY <1>a, <2>2 DEF Sound, StageDeletion, PipelineDeletion, RuleWriting, LeadMove, LeadEvent, PipelineChange, Operations
  <2> QED
    BY <2>1, <2>3
<1>6. \A x \in q.leads : LeadFree(a, x)
  BY <1>2, <1>5 DEF LeadFree
<1>7. MayAsk(a) /\ BeginRequest(a, q)
  BY <1>0, <1>1 DEF AskNewLead
<1> QED
  BY <1>2, <1>3, <1>4, <1>6, <1>7, AskStep

\* A request to write a rule, new or read before.
LEMMA AskRuleStep ==
  ASSUME BoardInv, NEW a \in Actors, NEW r \in RuleIds \union {None}, NEW new \in RuleRecords, MayAsk(a),
         Valid(new), new.state = "there", new.on \in Pipelines,
         r # None => r \in There /\ rule[r].on = new.on,
         BeginRequest(a, [RequestFor("writeRule", r, None) EXCEPT !.new = new])
  PROVE  BoardInv'
<1>n. MaxStages \in Nat /\ MaxPipelines \in Nat /\ MaxRules \in Nat
  BY BoardAssumption
<1>0. PICK z : z = RequestFor("writeRule", r, None)
  OBVIOUS
<1>1. PICK q : q = [z EXCEPT !.new = new]
  OBVIOUS
<1>2. /\ q \in Requests /\ q.op = "writeRule" /\ q.at = "checked" /\ q.what = r /\ q.new = new /\ q.leads = {}
  <2>1. /\ "writeRule" \in Operations /\ r \in 0 .. MaxPipelines + MaxStages + MaxRules /\ None \in 0 .. MaxStages
    BY <1>n DEF Operations, RuleIds, None
  <2>2. /\ z \in Requests /\ z.op = "writeRule" /\ z.at = "checked" /\ z.what = r /\ z.leads = {}
    BY <1>0, <2>1, RequestForShape
  <2> QED
    BY <1>1, <2>2 DEF Requests
<1>i. /\ ids.pipelines \in Nat /\ ids.stages \in Nat
      /\ \A x \in Pipelines : x \in 1 .. ids.pipelines
      /\ \A x \in BoardStages : x \in 1 .. ids.stages /\ x # None
  BY <1>n DEF BoardInv, BoardTypeOK, IdsInv, BoardStages, StageIds, PipelineIds, None
<1>3. Sound(q)
  <2>1. new.on \in 1 .. ids.pipelines
    BY <1>i
  <2>2. \A s \in {new.from, new.to} : s <= ids.stages /\ (s \in BoardStages => stageOf[s] = new.on)
    <3>1. \A s \in {new.from, new.to} : s \in StagesOf(new.on) \/ s = None
      BY DEF Valid
    <3> QED
      BY <1>i, <3>1 DEF StagesOf, None
  <2>3. r # None => r \in RuleIds /\ rule[r].state # "free"
    BY DEF There
  <2>4. RuleWriting(q)
    BY <1>2, <2>1, <2>2, <2>3 DEF RuleWriting
  <2> QED
    BY <1>2, <2>4 DEF Sound, StageDeletion, PipelineDeletion, LeadMove, LeadArrival, LeadEvent, PipelineChange
<1>4. Undisturbed(q) /\ \A x \in q.leads : LeadFree(a, x)
  BY <1>2 DEF Undisturbed
<1> QED
  BY <1>0, <1>1, <1>2, <1>3, <1>4, AskStep

LEMMA AskCreateRuleStays ==
  ASSUME BoardInv, NEW a \in Actors, AskCreateRule(a)
  PROVE  BoardInv'
<1>n. MaxStages \in Nat /\ MaxPipelines \in Nat
  BY BoardAssumption
<1>1. PICK p \in Pipelines, from \in BoardStages \union {None}, to \in BoardStages \union {None}, active \in BOOLEAN :
        /\ Valid(Rule(p, from, to, active))
        /\ BeginRequest(a, [RequestFor("writeRule", None, None) EXCEPT !.new = Rule(p, from, to, active)])
  BY DEF AskCreateRule
<1>2. PICK new : new = Rule(p, from, to, active)
  OBVIOUS
<1>3. p \in 0 .. MaxPipelines /\ from \in 0 .. MaxStages /\ to \in 0 .. MaxStages
  BY <1>n DEF BoardInv, BoardTypeOK, PipelineIds, BoardStages, StageIds, None
<1>4. new \in RuleRecords /\ new.state = "there" /\ new.on = p
  BY <1>2, <1>3 DEF Rule, RuleRecords
<1>5. MayAsk(a) /\ Valid(new) /\ BeginRequest(a, [RequestFor("writeRule", None, None) EXCEPT !.new = new])
  BY <1>1, <1>2 DEF AskCreateRule
<1> QED
  BY <1>4, <1>5, AskRuleStep

LEMMA AskUpdateRuleStays ==
  ASSUME BoardInv, NEW a \in Actors, NEW r \in RuleIds, AskUpdateRule(a, r)
  PROVE  BoardInv'
<1>n. MaxStages \in Nat /\ MaxPipelines \in Nat
  BY BoardAssumption
<1>1. PICK s \in BoardStages \union {None} :
        \E new \in {[rule[r] EXCEPT !.from = s], [rule[r] EXCEPT !.to = s], [rule[r] EXCEPT !.active = ~@]} :
          Valid(new) /\ BeginRequest(a, [RequestFor("writeRule", r, None) EXCEPT !.new = new])
  BY DEF AskUpdateRule
<1>2. PICK new \in {[rule[r] EXCEPT !.from = s], [rule[r] EXCEPT !.to = s], [rule[r] EXCEPT !.active = ~@]} :
        Valid(new) /\ BeginRequest(a, [RequestFor("writeRule", r, None) EXCEPT !.new = new])
  BY <1>1
<1>3. r \in There /\ MayAsk(a) /\ rule[r] \in RuleRecords /\ rule[r].on \in Pipelines
  BY DEF AskUpdateRule, BoardInv, RulesInv, BoardTypeOK
<1>4. s \in 0 .. MaxStages
  BY <1>n DEF BoardStages, StageIds, None
<1>5. new \in RuleRecords /\ new.state = "there" /\ new.on = rule[r].on
  <2>1. rule[r].state = "there"
    BY <1>3 DEF There
  <2>2. CASE new = [rule[r] EXCEPT !.from = s]
    BY <1>3, <1>4, <2>1, <2>2 DEF RuleRecords
  <2>3. CASE new = [rule[r] EXCEPT !.to = s]
    BY <1>3, <1>4, <2>1, <2>3 DEF RuleRecords
  <2>4. CASE new = [rule[r] EXCEPT !.active = ~@]
    <3>1. PICK on \in BOOLEAN : on = ~rule[r].active
      BY <1>3 DEF RuleRecords
    <3>2. new = [rule[r] EXCEPT !.active = on]
      BY <2>4, <3>1
    <3> QED
      BY <1>3, <2>1, <3>2 DEF RuleRecords
  <2> QED
    BY <1>2, <2>2, <2>3, <2>4
<1> QED
  BY <1>2, <1>3, <1>5, AskRuleStep

LEMMA CreateStageStays ==
  ASSUME BoardInv, NEW a \in Actors, NEW p \in PipelineIds, CreateStage(a, p)
  PROVE  BoardInv'
<1>n. MaxPipelines \in Nat /\ MaxAsked \in Nat
  BY BoardAssumption
<1>1. PICK s \in NextStage : stageOf' = [stageOf EXCEPT ![s] = p] /\ Given(None, s)
  BY DEF CreateStage
<1>2. /\ p \in Pipelines /\ flight[a] = Idle /\ begun < MaxAsked /\ begun' = begun + 1
      /\ UNCHANGED <<default, rule, card, flight, late, unsure, overlap>>
  BY DEF CreateStage, MayAsk
<1>3. s # None /\ s \in StageIds
  <2>1. ids.stages \in Nat
    BY BoardAssumption DEF BoardInv, IdsInv
  <2> QED
    BY <2>1 DEF NextStage, None
<1>4. Ends(a)
  BY <1>2 DEF Ends, BoardInv, RequestsInv
<1>5. Growing(a, p, s, {})
  <2>1. Pipelines' = Pipelines /\ Pipelines \union {p} = Pipelines /\ default' \in [Pipelines' -> BOOLEAN]
    BY <1>2 DEF Pipelines, BoardInv, BoardTypeOK
  <2>2. ids' = [pipelines |-> ids.pipelines, stages |-> s]
    BY <1>1, <1>3 DEF Given, None
  <2>3. begun' \in 0 .. MaxAsked
    BY <1>2, <1>n DEF BoardInv, BoardTypeOK
  <2>4. card' \in [Leads -> Cards] /\ \A m \in Leads : card'[m] = card[m]
    BY <1>2 DEF BoardInv, CardsInv
  <2> QED
    BY <1>1, <1>2, <1>3, <1>4, <2>1, <2>2, <2>3, <2>4 DEF Growing
<1>6. DefaultsInv'
  BY <1>2, <1>4, SameDefaults
<1> QED
  BY <1>5, <1>6, GrowingStep

LEMMA DeleteRuleStays ==
  ASSUME BoardInv, NEW a \in Actors, NEW r \in RuleIds, DeleteRule(a, r)
  PROVE  BoardInv'
<1>1. PICK new : new = [NoRule EXCEPT !.state = "deleted"]
  OBVIOUS
<1>2. new \in RuleRecords /\ new.state = "deleted"
  BY <1>1, GoneRule
<1>3. /\ flight[a] = Idle /\ rule' = [rule EXCEPT ![r] = new]
      /\ UNCHANGED <<default, stageOf, card, flight, ids, late, unsure, overlap>>
  BY <1>1 DEF DeleteRule, MayAsk
<1>4. Ends(a)
  BY <1>3 DEF Ends, BoardInv, RequestsInv
<1>5. begun' \in 0 .. MaxAsked /\ unsure' \subseteq RuleIds
  BY BoardAssumption DEF DeleteRule, MayAsk, BoardInv, BoardTypeOK
<1>6. Ruling(a, r, new)
  BY <1>2, <1>3, <1>4, <1>5 DEF Ruling
<1> QED
  BY <1>6, RulingStep

-----------------------------------------------------------------------------
(* The actions: requests go on *)

LEMMA AdvanceStep ==
  ASSUME BoardInv, NEW a \in Actors, NEW q \in Requests, Advance(a, q), Sound(q),
         \A l \in q.leads : LeadFree(a, l), overlap \/ Undisturbed(q), OnPipelines(q) => OnPipelines(flight[a])
  PROVE  BoardInv'
<1>1. overlap \/ (OnPipelines(q) => \A b \in Others(a) : ~OnPipelines(flight[b]))
  BY DEF BoardInv, DefaultsInv, Others
<1>2. overlap' = overlap /\ overlap \in BOOLEAN /\ begun' \in 0 .. MaxAsked
  BY DEF Advance, BoardInv, BoardTypeOK
<1>3. OnlyAsks(a, q)
  BY <1>1, <1>2 DEF OnlyAsks, Advance
<1> QED
  BY <1>3, LeavesTheBoard

LEMMA AbortStep ==
  ASSUME BoardInv, NEW a \in Actors, Abort(a)
  PROVE  BoardInv'
<1>1. PICK q : q = Idle
  OBVIOUS
<1>2. /\ q \in Requests /\ Sound(q) /\ Undisturbed(q) /\ ~OnPipelines(q) /\ q.leads = {}
  BY <1>1, IdleIsSound
<1>3. Advance(a, q)
  BY <1>1 DEF Abort
<1> QED
  BY <1>2, <1>3, AdvanceStep

LEMMA ClearStageStays ==
  ASSUME BoardInv, NEW a \in Actors, ClearStage(a)
  PROVE  BoardInv'
<1>0. PICK q, moving, rules : /\ q = flight[a] /\ moving = (IF q.target = None THEN {} ELSE LeadsIn(q.what))
                              /\ rules = Naming(q.what)
  OBVIOUS
<1>1. /\ q.op = "deleteStage" /\ q.at = "checked" /\ \A l \in moving : LeadFree(a, l)
      /\ \/ Abort(a)
         \/ /\ moving = {} \/ q.target \in BoardStages
            /\ Advance(a, [q EXCEPT !.at = "cleared", !.leads = moving, !.rules = rules])
  BY <1>0 DEF ClearStage, At
<1>2. CASE Abort(a)
  BY <1>2, AbortStep
<1>3. CASE /\ moving = {} \/ q.target \in BoardStages
           /\ Advance(a, [q EXCEPT !.at = "cleared", !.leads = moving, !.rules = rules])
  <2>1. PICK w : w = [q EXCEPT !.at = "cleared", !.leads = moving, !.rules = rules]
    OBVIOUS
  <2>2. q \in Requests /\ StageDeletion(q)
    BY <1>0 DEF BoardInv, RequestsInv, Sound
  <2>3. moving \subseteq Leads /\ rules \subseteq RuleIds
    BY <1>0 DEF LeadsIn, Naming, There
  <2>4. /\ w \in Requests /\ w.op = "deleteStage" /\ w.at = "cleared" /\ w.leads = moving /\ w.rules = rules
        /\ w.what = q.what /\ w.target = q.target
    BY <1>1, <2>1, <2>2, <2>3 DEF Requests
  <2>5. \A l \in moving : card[l].known /\ q.what \in StagesOf(card[l].pipeline)
    <3>1. q.what # None
      BY <1>1, <2>2 DEF StageDeletion, None
    <3>2. \A l \in moving : l \in Leads /\ card[l].known /\ card[l].stage = q.what
      BY <1>0 DEF LeadsIn
    <3> QED
      BY <3>1, <3>2 DEF BoardInv, BoardTypeOK
  <2>6. \A l \in moving : card[l].known /\ card[l].pipeline = stageOf[q.target]
    BY <1>1, <1>3, <2>2, <2>5 DEF StageDeletion, StagesOf
  <2>7. StageDeletion(w)
    BY <1>0, <1>1, <1>3, <2>2, <2>4, <2>6 DEF StageDeletion
  <2>8. Sound(w)
    BY <2>4, <2>7 DEF Sound, PipelineDeletion, RuleWriting, LeadMove, LeadArrival, LeadEvent, PipelineChange
  <2>9. Undisturbed(w) /\ ~OnPipelines(w)
    BY <2>4 DEF Undisturbed, OnPipelines
  <2>10. Advance(a, w) /\ \A l \in w.leads : LeadFree(a, l)
    BY <1>1, <1>3, <2>1, <2>4
  <2> QED
    BY <2>4, <2>8, <2>9, <2>10, AdvanceStep
<1> QED
  BY <1>1, <1>2, <1>3

LEMMA ClearPipelineStays ==
  ASSUME BoardInv, NEW a \in Actors, ClearPipeline(a)
  PROVE  BoardInv'
<1>0. PICK q, moving : q = flight[a] /\ moving = (IF q.target = None THEN {} ELSE LeadsOn(q.what))
  OBVIOUS
<1>1. /\ q.op = "deletePipeline" /\ q.at = "checked" /\ \A l \in moving : LeadFree(a, l)
      /\ \/ Abort(a)
         \/ /\ moving = {} \/ q.target \in BoardStages
            /\ Advance(a, [q EXCEPT !.at = "cleared", !.leads = moving])
  BY <1>0 DEF ClearPipeline, At
<1>2. CASE Abort(a)
  BY <1>2, AbortStep
<1>3. CASE /\ moving = {} \/ q.target \in BoardStages
           /\ Advance(a, [q EXCEPT !.at = "cleared", !.leads = moving])
  <2>1. PICK w : w = [q EXCEPT !.at = "cleared", !.leads = moving]
    OBVIOUS
  <2>2. q \in Requests /\ PipelineDeletion(q) /\ (overlap \/ Undisturbed(q))
    BY <1>0 DEF BoardInv, RequestsInv, DefaultsInv, Sound
  <2>3. moving \subseteq Leads
    BY <1>0 DEF LeadsOn
  <2>4. /\ w \in Requests /\ w.op = "deletePipeline" /\ w.at = "cleared" /\ w.leads = moving
        /\ w.what = q.what /\ w.target = q.target
    BY <1>1, <2>1, <2>2, <2>3 DEF Requests
  <2>5. \A l \in moving : card[l].known
    BY <1>0 DEF LeadsOn
  <2>6. PipelineDeletion(w)
    BY <1>0, <1>1, <1>3, <2>2, <2>4, <2>5 DEF PipelineDeletion
  <2>7. Sound(w)
    BY <2>4, <2>6 DEF Sound, StageDeletion, RuleWriting, LeadMove, LeadArrival, LeadEvent, PipelineChange
  <2>8. (overlap \/ Undisturbed(w)) /\ OnPipelines(flight[a])
    BY <1>0, <1>1, <2>2, <2>4 DEF Undisturbed, OnPipelines
  <2>9. Advance(a, w) /\ \A l \in w.leads : LeadFree(a, l)
    BY <1>1, <1>3, <2>1, <2>4
  <2> QED
    BY <2>4, <2>7, <2>8, <2>9, AdvanceStep
<1> QED
  BY <1>1, <1>2, <1>3

LEMMA TakeDefaultStays ==
  ASSUME BoardInv, NEW a \in Actors, TakeDefault(a)
  PROVE  BoardInv'
<1>1. PICK q, pipes : q = flight[a] /\ pipes = (IF q.what = 1 THEN Pipelines ELSE {})
  OBVIOUS
<1>2. PICK w : w = [q EXCEPT !.at = "cleared", !.pipes = pipes]
  OBVIOUS
<1>3. q.op = "createPipeline" /\ Advance(a, w)
  BY <1>1, <1>2 DEF TakeDefault, At
<1>4. /\ q \in Requests /\ q.leads = {} /\ q.what \in {0, 1} /\ (overlap \/ Undisturbed(q))
  BY <1>1, <1>3 DEF BoardInv, RequestsInv, DefaultsInv, Sound, PipelineChange
<1>5. pipes \subseteq PipelineIds
  BY <1>1 DEF BoardInv, BoardTypeOK
<1>6. /\ w \in Requests /\ w.op = "createPipeline" /\ w.at = "cleared" /\ w.leads = {} /\ w.what = q.what
      /\ w.pipes = pipes
  BY <1>2, <1>3, <1>4, <1>5 DEF Requests
<1>7. Sound(w)
  BY <1>1, <1>4, <1>6 DEF Sound, StageDeletion, PipelineDeletion, RuleWriting, LeadMove, LeadArrival, LeadEvent,
                          PipelineChange
<1>8. (overlap \/ Undisturbed(w)) /\ OnPipelines(flight[a])
  BY <1>1, <1>3, <1>4, <1>6 DEF Undisturbed, OnPipelines
<1>9. \A l \in w.leads : LeadFree(a, l)
  BY <1>6
<1> QED
  BY <1>3, <1>6, <1>7, <1>8, <1>9, AdvanceStep

LEMMA InsertPipelineStays ==
  ASSUME BoardInv, NEW a \in Actors, InsertPipeline(a)
  PROVE  BoardInv'
<1>0. PICK q : q = flight[a]
  OBVIOUS
<1>1. PICK p \in NextPipeline, s \in NextStage \union {None} :
        /\ default' = With(p, [x \in Pipelines |-> default[x] /\ x \notin q.pipes], q.what = 1)
        /\ stageOf' = IF s = None THEN stageOf ELSE [stageOf EXCEPT ![s] = p]
        /\ Given(p, s)
  BY <1>0 DEF InsertPipeline
<1>2. /\ q.op = "createPipeline" /\ q.at = "cleared" /\ Ends(a)
      /\ UNCHANGED <<rule, card, late, unsure, begun, overlap>>
  BY <1>0 DEF InsertPipeline, At, Committing, Ends
<1>3. p # None /\ p \notin Pipelines
  <2>1. ids.pipelines \in Nat /\ \A x \in Pipelines : x <= ids.pipelines
    BY BoardAssumption DEF BoardInv, IdsInv
  <2>2. p = ids.pipelines + 1
    BY DEF NextPipeline
  <2> QED
    BY <2>1, <2>2 DEF None
<1>4. /\ Pipelines' = Pipelines \union {p} /\ default' \in [Pipelines' -> BOOLEAN]
      /\ default'[p] = (q.what = 1) /\ \A x \in Pipelines : default'[x] = (default[x] /\ x \notin q.pipes)
  <2>1. default \in [Pipelines -> BOOLEAN]
    BY DEF BoardInv, BoardTypeOK
  <2>2. default' = [x \in Pipelines \union {p} |->
                      IF x = p THEN q.what = 1 ELSE [y \in Pipelines |-> default[y] /\ y \notin q.pipes][x]]
    BY <1>1 DEF With
  <2>3. Pipelines' = Pipelines \union {p}
    BY <2>2 DEF Pipelines
  <2>4. \A x \in Pipelines \union {p} :
          default'[x] = IF x = p THEN q.what = 1 ELSE (default[x] /\ x \notin q.pipes)
    BY <2>2
  <2>5. \A x \in Pipelines \union {p} : default'[x] \in BOOLEAN
    BY <2>4
  <2> QED
    BY <1>3, <2>2, <2>3, <2>4, <2>5
<1>5. Growing(a, p, s, {})
  <2>1. ids' = [pipelines |-> p, stages |-> IF s = None THEN ids.stages ELSE s]
    BY <1>1, <1>3 DEF Given
  <2>2. begun' \in 0 .. MaxAsked
    BY <1>2 DEF BoardInv, BoardTypeOK
  <2>3. card' \in [Leads -> Cards] /\ \A m \in Leads : card'[m] = card[m]
    BY <1>2 DEF BoardInv, CardsInv
  <2> QED
    BY <1>1, <1>2, <1>3, <1>4, <2>1, <2>2, <2>3 DEF Growing
<1>6. overlap \/ OneIsDefault'
  <2> SUFFICES ASSUME ~overlap
               PROVE  OneIsDefault'
    OBVIOUS
  <2>1. OneIsDefault /\ Undisturbed(q)
    BY <1>0 DEF BoardInv, DefaultsInv
  <2>2. q.what \in {0, 1} /\ (q.what = 0 => q.pipes = {} /\ Pipelines # {}) /\ (q.what = 1 => q.pipes = Pipelines)
    BY <1>0, <1>2, <2>1 DEF BoardInv, RequestsInv, Sound, PipelineChange, Undisturbed
  <2>3. CASE q.what = 1
    <3>1. \A y \in Pipelines' : default'[y] <=> y = p
      BY <1>3, <1>4, <2>2, <2>3
    <3> QED
      BY <1>4, <3>1 DEF OneIsDefault
  <2>4. CASE q.what = 0
    <3>1. PICK x \in Pipelines : \A y \in Pipelines : default[y] <=> y = x
      BY <2>1, <2>2, <2>4 DEF OneIsDefault
    <3>2. \A y \in Pipelines' : default'[y] <=> y = x
      BY <1>3, <1>4, <2>2, <2>4, <3>1
    <3> QED
      BY <1>4, <3>1, <3>2 DEF OneIsDefault
  <2> QED
    BY <2>2, <2>3, <2>4
<1>7. DefaultsInv'
  BY <1>0, <1>2, <1>6, NewDefaults DEF OnPipelines
<1> QED
  BY <1>5, <1>7, GrowingStep

LEMMA SetDefaultStays ==
  ASSUME BoardInv, NEW a \in Actors, SetDefault(a)
  PROVE  BoardInv'
<1>0. PICK q, seen : q = flight[a] /\ seen = (IF q.at = "waits" THEN q.seen ELSE Pipelines)
  OBVIOUS
<1>1. /\ q.op = "makeDefault"
      /\ \/ q.at = "checked" /\ Advance(a, [q EXCEPT !.at = "waits", !.seen = Pipelines])
         \/ /\ Ends(a) /\ UNCHANGED <<begun, overlap, stageOf, rule, card, ids, late, unsure>>
            /\ default' = [p \in Pipelines |-> IF p \in seen THEN p = q.what ELSE default[p]]
  BY <1>0 DEF SetDefault, Committing, Ends
<1>2. q \in Requests /\ Sound(q) /\ (overlap \/ Undisturbed(q))
  BY <1>0 DEF BoardInv, RequestsInv, DefaultsInv
<1>3. CASE q.at = "checked" /\ Advance(a, [q EXCEPT !.at = "waits", !.seen = Pipelines])
  <2>1. PICK now : now = Pipelines
    OBVIOUS
  <2>2. PICK w : w = [q EXCEPT !.at = "waits", !.seen = now]
    OBVIOUS
  <2>3. now \subseteq Nat
    BY <2>1, BoardAssumption DEF BoardInv, BoardTypeOK, PipelineIds
  <2>4. /\ w \in Requests /\ w.op = "makeDefault" /\ w.at = "waits" /\ w.what = q.what /\ w.leads = q.leads
        /\ w.seen = now
    BY <1>1, <1>2, <2>2, <2>3 DEF Requests
  <2>5. Sound(w)
    BY <1>1, <1>2, <2>4 DEF Sound, StageDeletion, PipelineDeletion, RuleWriting, LeadMove, LeadArrival, LeadEvent,
                            PipelineChange
  <2>6. (overlap \/ Undisturbed(w)) /\ OnPipelines(flight[a])
    BY <1>0, <1>1, <1>2, <2>1, <2>4 DEF Undisturbed, OnPipelines
  <2>7. w.leads = {}
    BY <1>1, <1>2, <2>4 DEF Sound, PipelineChange
  <2>8. Advance(a, w)
    BY <1>3, <2>1, <2>2
  <2> QED
    BY <2>4, <2>5, <2>6, <2>7, <2>8, AdvanceStep
<1>4. CASE /\ Ends(a) /\ UNCHANGED <<begun, overlap, stageOf, rule, card, ids, late, unsure>>
           /\ default' = [p \in Pipelines |-> IF p \in seen THEN p = q.what ELSE default[p]]
  <2>1. /\ Pipelines' = Pipelines /\ default' \in [Pipelines' -> BOOLEAN]
        /\ \A p \in Pipelines : default'[p] = IF p \in seen THEN p = q.what ELSE default[p]
    <3>1. \A p \in Pipelines : (IF p \in seen THEN p = q.what ELSE default[p]) \in BOOLEAN
      BY DEF BoardInv, BoardTypeOK
    <3> QED
      BY <1>4, <3>1 DEF Pipelines
  <2>2. overlap \/ OneIsDefault'
    <3> SUFFICES ASSUME ~overlap
                 PROVE  OneIsDefault'
      OBVIOUS
    <3>1. seen = Pipelines /\ q.what \in Pipelines
      BY <1>0, <1>1, <1>2 DEF Undisturbed
    <3> QED
      BY <2>1, <3>1 DEF OneIsDefault
  <2>3. DefaultsInv'
    BY <1>0, <1>1, <1>4, <2>2, NewDefaults DEF OnPipelines
  <2>4. ASSUME NEW b \in Others(a)
        PROVE  Sound(flight[b])'
    <3>1. PICK w : w = flight[b]
      OBVIOUS
    <3>2. Sound(w)
      BY <3>1 DEF BoardInv, RequestsInv, Others
    <3>3. Sound(w)'
      BY <1>4, <2>1, <3>2 DEF Sound, StageDeletion, PipelineDeletion, RuleWriting, LeadMove, LeadArrival, LeadEvent,
           PipelineChange, BoardStages, LeadsIn, LeadsOn, Naming, There
    <3>4. flight'[b] = flight[b]
      BY <1>4 DEF BoardInv, RequestsInv, Ends, Others
    <3> QED
      BY <3>1, <3>3, <3>4
  <2>5. RequestsInv'
    BY <1>4, <2>4, CommitRequests
  <2>6. BoardTypeOK'
    <3>1. flight' \in [Actors -> Requests]
      BY <2>5 DEF RequestsInv
    <3> QED
      BY <1>4, <2>1, <3>1, FlightTypes DEF BoardInv, BoardTypeOK, There, StagesOf, BoardStages
  <2>7. IdsInv' /\ CardsInv' /\ RulesInv' /\ StraysAreLate' /\ StaleRulesAreOff'
    BY <1>4, <2>1 DEF BoardInv, IdsInv, CardsInv, RulesInv, StraysAreLate, StaleRulesAreOff, There, BoardStages
  <2> QED
    BY <2>3, <2>5, <2>6, <2>7 DEF BoardInv
<1> QED
  BY <1>1, <1>3, <1>4

LEMMA WriteRuleStays ==
  ASSUME BoardInv, NEW a \in Actors, WriteRule(a)
  PROVE  BoardInv'
<1>0. PICK q, new : q = flight[a] /\ new = q.new
  OBVIOUS
<1>1. /\ q.op = "writeRule"
      /\ \/ Abort(a)
         \/ /\ q.what # None => q.what \in There
            /\ new.on \in Pipelines
            /\ new.from \in BoardStages \union {None} \/ (q.what # None /\ rule[q.what].from = new.from)
            /\ \E r \in IF q.what = None THEN {x \in RuleIds : rule[x].state = "free"} ELSE {q.what} :
                 /\ rule' = [rule EXCEPT ![r] = new]
                 /\ unsure' = IF Unsure(a, new) THEN unsure \union {r} ELSE unsure \ {r}
            /\ Ends(a) /\ UNCHANGED <<begun, overlap, default, stageOf, card, ids, late>>
  BY <1>0 DEF WriteRule, At, Committing, Ends
<1>2. CASE Abort(a)
  BY <1>2, AbortStep
<1>3. ASSUME /\ q.what # None => q.what \in There
             /\ new.on \in Pipelines
             /\ new.from \in BoardStages \union {None} \/ (q.what # None /\ rule[q.what].from = new.from)
             /\ Ends(a) /\ UNCHANGED <<begun, overlap, default, stageOf, card, ids, late>>,
             NEW r \in IF q.what = None THEN {x \in RuleIds : rule[x].state = "free"} ELSE {q.what},
             rule' = [rule EXCEPT ![r] = new],
             unsure' = IF Unsure(a, new) THEN unsure \union {r} ELSE unsure \ {r}
      PROVE  BoardInv'
  <2>1. RuleWriting(q) /\ new \in RuleRecords
    BY <1>0, RequestShape DEF BoardInv, RequestsInv, Sound
  <2>2. /\ new.state = "there" /\ new.to <= ids.stages
        /\ \A s \in {new.from, new.to} : s \in BoardStages => stageOf[s] = new.on
        /\ q.what # None => rule[q.what].on = new.on
    BY <1>0, <1>1, <1>3, <2>1 DEF RuleWriting
  <2>3. r \in RuleIds /\ (q.what = None => rule[r].state = "free") /\ (q.what # None => r = q.what)
    BY <1>3 DEF There
  <2>4. new.from \in StagesOf(new.on) \union {None}
    <3>1. CASE new.from \in BoardStages \union {None}
      BY <2>2, <3>1 DEF StagesOf
    <3>2. CASE q.what # None /\ rule[q.what].from = new.from
      BY <1>3, <2>2, <3>2 DEF BoardInv, BoardTypeOK
    <3> QED
      BY <1>3, <3>1, <3>2
  <2>5. ASSUME NEW b \in Others(a), flight[b].op = "writeRule", flight[b].what = r
        PROVE  flight[b].new.on = new.on
    <3>1. PICK w : w = flight[b]
      OBVIOUS
    <3>2. RuleWriting(w)
      BY <3>1 DEF BoardInv, RequestsInv, Sound, Others
    <3>3. r # None
      BY <2>3, BoardAssumption DEF RuleIds, None
    <3>4. rule[r].state # "free" /\ (r \in There => rule[r].on = w.new.on)
      BY <2>5, <3>1, <3>2, <3>3 DEF RuleWriting
    <3>5. q.what # None
      BY <2>3, <3>4
    <3> QED
      BY <1>3, <2>2, <2>3, <3>1, <3>4, <3>5
  <2>6. begun' \in 0 .. MaxAsked /\ unsure' \subseteq RuleIds /\ unsure \ {r} \subseteq unsure'
    BY <1>3, <2>3 DEF BoardInv, BoardTypeOK
  <2>7. r \in unsure' \/ ~Unsure(a, new)
    BY <1>3
  <2>8. Ruling(a, r, new)
    BY <1>3, <2>1, <2>2, <2>3, <2>4, <2>5, <2>6, <2>7 DEF Ruling
  <2> QED
    BY <2>8, RulingStep
<1> QED
  BY <1>1, <1>2, <1>3

LEMMA MoveLeadStays ==
  ASSUME BoardInv, NEW a \in Actors, MoveLead(a)
  PROVE  BoardInv'
<1>0. PICK q : q = flight[a]
  OBVIOUS
<1>1. PICK s : s = q.what
  OBVIOUS
<1>2. /\ q.op = "move"
      /\ \E l \in q.seen :
           /\ LeadFree(a, l)
           /\ \/ Abort(a)
              \/ /\ s \in BoardStages
                 /\ card' = [card EXCEPT ![l].pipeline = stageOf[s], ![l].stage = s]
                 /\ late' = Arrived(a, {l}, s)
                 /\ Ends(a) /\ UNCHANGED <<begun, overlap, default, stageOf, rule, ids, unsure>>
  BY <1>0, <1>1 DEF MoveLead, At, Committing, Ends
<1>3. CASE Abort(a)
  BY <1>3, AbortStep
<1>4. ASSUME NEW l \in q.seen, LeadFree(a, l), s \in BoardStages,
             card' = [card EXCEPT ![l].pipeline = stageOf[s], ![l].stage = s],
             late' = Arrived(a, {l}, s),
             Ends(a), UNCHANGED <<begun, overlap, default, stageOf, rule, ids, unsure>>
      PROVE  BoardInv'
  <2>1. l \in Leads /\ card[l].known
    BY <1>0, <1>2 DEF BoardInv, RequestsInv, Sound, LeadMove
  <2>2. PICK p : p = stageOf[s]
    OBVIOUS
  <2>3. p \in Pipelines /\ s \in StagesOf(p)
    BY <1>4, <2>2 DEF StagesOf, BoardStages, BoardInv, BoardTypeOK
  <2>4. p \in 0 .. MaxPipelines /\ s \in 0 .. MaxStages
    BY <1>4, <2>3, BoardAssumption DEF BoardInv, BoardTypeOK, PipelineIds, BoardStages, StageIds
  <2>5. /\ card' \in [Leads -> Cards] /\ \A m \in Leads \ {l} : card'[m] = card[m]
        /\ card'[l].known /\ card'[l].pipeline = p /\ card'[l].stage = s
    <3>1. card \in [Leads -> Cards]
      BY DEF BoardInv, CardsInv
    <3>2. PICK to : to = [card[l] EXCEPT !.pipeline = p, !.stage = s]
      OBVIOUS
    <3>3. card' = [card EXCEPT ![l] = to]
      BY <1>4, <2>1, <2>2, <3>1, <3>2
    <3>4. to \in Cards /\ to.known /\ to.pipeline = p /\ to.stage = s
      BY <2>1, <2>4, <3>1, <3>2 DEF Cards
    <3> QED
      BY <2>1, <3>1, <3>3, <3>4
  <2>6. Placing(a, l, p, s)
    BY <1>4, <2>3, <2>5 DEF Placing
  <2> QED
    BY <2>1, <2>6, PlacingStep
<1> QED
  BY <1>2, <1>3, <1>4

LEMMA RunRulesStays ==
  ASSUME BoardInv, NEW a \in Actors, RunRules(a)
  PROVE  BoardInv'
<1>0. PICK q : q = flight[a]
  OBVIOUS
<1>1. /\ q.op = "event"
      /\ \/ Abort(a)
         \/ \E l \in q.leads, r \in RuleIds :
              /\ Fires(r, q, l) /\ rule[r].to \in BoardStages
              /\ card' = [card EXCEPT ![l].stage = rule[r].to]
              /\ late' = Arrived(a, {l}, rule[r].to)
              /\ Ends(a) /\ UNCHANGED <<begun, overlap, default, stageOf, rule, ids, unsure>>
  BY <1>0 DEF RunRules, At, Committing, Ends
<1>2. CASE Abort(a)
  BY <1>2, AbortStep
<1>3. ASSUME NEW l \in q.leads, NEW r \in RuleIds, Fires(r, q, l), rule[r].to \in BoardStages,
             card' = [card EXCEPT ![l].stage = rule[r].to],
             late' = Arrived(a, {l}, rule[r].to),
             Ends(a), UNCHANGED <<begun, overlap, default, stageOf, rule, ids, unsure>>
      PROVE  BoardInv'
  <2>1. PICK s, p : s = rule[r].to /\ p = q.what
    OBVIOUS
  <2>2. LeadEvent(q)
    BY <1>0 DEF BoardInv, RequestsInv, Sound
  <2>3. /\ l \in Leads /\ card[l].known /\ card[l].pipeline = p /\ p \in Pipelines /\ s \in StagesOf(p)
    BY <1>1, <1>3, <2>1, <2>2 DEF LeadEvent, Fires, StagesOf
  <2>4. s \in 0 .. MaxStages
    BY <2>3, BoardAssumption DEF StagesOf, BoardStages, StageIds
  <2>5. /\ card' \in [Leads -> Cards] /\ \A m \in Leads \ {l} : card'[m] = card[m]
        /\ card'[l].known /\ card'[l].pipeline = p /\ card'[l].stage = s
    <3>1. card \in [Leads -> Cards]
      BY DEF BoardInv, CardsInv
    <3>2. PICK to : to = [card[l] EXCEPT !.stage = s]
      OBVIOUS
    <3>3. card' = [card EXCEPT ![l] = to]
      BY <1>3, <2>1, <2>3, <3>1, <3>2
    <3>4. to \in Cards /\ to.known /\ to.pipeline = p /\ to.stage = s
      BY <2>3, <2>4, <3>1, <3>2 DEF Cards
    <3> QED
      BY <2>3, <3>1, <3>3, <3>4
  <2>6. LeadFree(a, l)
    BY <1>0 DEF BoardInv, RequestsInv, LeadFree, Others
  <2>7. Placing(a, l, p, s)
    BY <1>3, <2>1, <2>3, <2>5, <2>6 DEF Placing
  <2> QED
    BY <2>3, <2>7, PlacingStep
<1> QED
  BY <1>1, <1>2, <1>3

LEMMA InsertLeadStays ==
  ASSUME BoardInv, NEW a \in Actors, InsertLead(a)
  PROVE  BoardInv'
<1>0. PICK q : q = flight[a]
  OBVIOUS
<1>1. PICK l : l = CHOOSE x \in q.leads : TRUE
  OBVIOUS
<1>2. /\ q.op = "newLead"
      /\ \/ /\ q.what = None /\ Ends(a) /\ UNCHANGED <<rule, unsure, begun, overlap>>
            /\ \E p \in NextPipeline, s \in NextStage :
                 /\ default' = With(p, default, TRUE) /\ stageOf' = [stageOf EXCEPT ![s] = p]
                 /\ Given(p, s) /\ late' = late \ {l}
                 /\ card' = [card EXCEPT ![l] = [known |-> TRUE, pipeline |-> p, stage |-> s]]
         \/ Abort(a)
         \/ /\ q.what \in Pipelines /\ q.target \in BoardStages \union {None}
            /\ card' = [card EXCEPT ![l] = [known |-> TRUE, pipeline |-> q.what, stage |-> q.target]]
            /\ late' = Arrived(a, {l}, q.target)
            /\ Ends(a) /\ UNCHANGED <<begun, overlap, default, stageOf, rule, ids, unsure>>
  BY <1>0, <1>1 DEF InsertLead, At, Committing, Ends
<1>3. /\ LeadArrival(q) /\ q \in Requests /\ (overlap \/ Undisturbed(q))
      /\ card \in [Leads -> Cards]
  BY <1>0 DEF BoardInv, RequestsInv, Sound, DefaultsInv, CardsInv
<1>4. q.leads = {l} /\ l \in Leads
  BY <1>1, <1>2, <1>3 DEF LeadArrival
<1>5. LeadFree(a, l)
  BY <1>0, <1>4 DEF BoardInv, RequestsInv, LeadFree, Others
<1>n. MaxPipelines \in Nat /\ MaxStages \in Nat
  BY BoardAssumption
<1>6. CASE Abort(a)
  BY <1>6, AbortStep
<1>7. ASSUME q.what = None, Ends(a), UNCHANGED <<rule, unsure, begun, overlap>>,
             NEW p \in NextPipeline, NEW s \in NextStage,
             default' = With(p, default, TRUE), stageOf' = [stageOf EXCEPT ![s] = p],
             Given(p, s), late' = late \ {l},
             card' = [card EXCEPT ![l] = [known |-> TRUE, pipeline |-> p, stage |-> s]]
      PROVE  BoardInv'
  <2>1. /\ p # None /\ p \notin Pipelines /\ s # None /\ p \in 0 .. MaxPipelines /\ s \in 0 .. MaxStages
    <3>1. /\ ids.pipelines \in Nat /\ ids.stages \in Nat /\ \A x \in Pipelines : x <= ids.pipelines
      BY <1>n DEF BoardInv, IdsInv
    <3>2. /\ p = ids.pipelines + 1 /\ s = ids.stages + 1 /\ p \in PipelineIds /\ s \in StageIds
      BY DEF NextPipeline, NextStage
    <3> QED
      BY <1>n, <3>1, <3>2 DEF None, PipelineIds, StageIds
  <2>2. /\ Pipelines' = Pipelines \union {p} /\ default' \in [Pipelines' -> BOOLEAN]
        /\ default'[p] = TRUE
    <3>1. default' = [x \in Pipelines \union {p} |-> IF x = p THEN TRUE ELSE default[x]]
      BY <1>7 DEF With
    <3>2. Pipelines' = Pipelines \union {p}
      BY <3>1 DEF Pipelines
    <3>3. \A x \in Pipelines \union {p} : (IF x = p THEN TRUE ELSE default[x]) \in BOOLEAN
      BY DEF BoardInv, BoardTypeOK
    <3> QED
      BY <3>1, <3>2, <3>3
  <2>3. /\ card' \in [Leads -> Cards] /\ \A m \in Leads \ {l} : card'[m] = card[m]
        /\ card'[l].known /\ card'[l].pipeline = p /\ card'[l].stage = s
    <3>1. [known |-> TRUE, pipeline |-> p, stage |-> s] \in Cards
      BY <2>1 DEF Cards
    <3> QED
      BY <1>3, <1>4, <1>7, <3>1
  <2>4. ids' = [pipelines |-> p, stages |-> s]
    BY <1>7, <2>1 DEF Given
  <2>5. begun' \in 0 .. MaxAsked
    BY <1>7 DEF BoardInv, BoardTypeOK
  <2>6. Growing(a, p, s, {l})
    BY <1>4, <1>5, <1>7, <2>1, <2>2, <2>3, <2>4, <2>5 DEF Growing
  <2>7. OnPipelines(q)
    BY <1>2, <1>3, <1>7 DEF LeadArrival, OnPipelines
  <2>8. overlap \/ OneIsDefault'
    <3>1. overlap \/ Pipelines = {}
      BY <1>2, <1>3, <2>7 DEF Undisturbed
    <3> QED
      BY <2>2, <3>1 DEF OneIsDefault
  <2>9. DefaultsInv'
    BY <1>0, <1>7, <2>7, <2>8, NewDefaults
  <2> QED
    BY <2>6, <2>9, GrowingStep
<1>8. CASE /\ q.what \in Pipelines /\ q.target \in BoardStages \union {None}
           /\ card' = [card EXCEPT ![l] = [known |-> TRUE, pipeline |-> q.what, stage |-> q.target]]
           /\ late' = Arrived(a, {l}, q.target)
           /\ Ends(a) /\ UNCHANGED <<begun, overlap, default, stageOf, rule, ids, unsure>>
  <2>1. PICK p, s : p = q.what /\ s = q.target
    OBVIOUS
  <2>2. p \in Pipelines /\ s \in StagesOf(p) \union {None}
    BY <1>2, <1>3, <1>8, <2>1 DEF LeadArrival, StagesOf
  <2>3. p \in 0 .. MaxPipelines /\ s \in 0 .. MaxStages
    BY <1>3, <1>n, <2>1, <2>2, RequestShape DEF BoardInv, BoardTypeOK, PipelineIds
  <2>4. /\ card' \in [Leads -> Cards] /\ \A m \in Leads \ {l} : card'[m] = card[m]
        /\ card'[l].known /\ card'[l].pipeline = p /\ card'[l].stage = s
    <3>1. [known |-> TRUE, pipeline |-> p, stage |-> s] \in Cards
      BY <2>3 DEF Cards
    <3> QED
      BY <1>3, <1>4, <1>8, <2>1, <3>1
  <2>5. Placing(a, l, p, s)
    BY <1>5, <1>8, <2>1, <2>2, <2>4 DEF Placing
  <2> QED
    BY <1>4, <2>5, PlacingStep
<1> QED
  BY <1>2, <1>6, <1>7, <1>8

-----------------------------------------------------------------------------
(* The theorems *)

LEMMA BoardStarts == BoardInit => BoardInv
<1> SUFFICES ASSUME BoardInit
             PROVE  BoardInv
  OBVIOUS
<1>n. /\ MaxPipelines \in Nat /\ MaxStages \in Nat /\ MaxRules \in Nat /\ MaxAsked \in Nat
      /\ MaxPipelines >= 2 /\ MaxStages >= 3
  BY BoardAssumption
<1>c. Cardinality({}) = 0 /\ Cardinality({1, 2}) = 2 /\ Cardinality({1, 2, 3}) = 3
  <2>1. 1 .. 2 = {1, 2} /\ 1 .. 3 = {1, 2, 3}
    OBVIOUS
  <2>2. Cardinality(1 .. 2) = 2
    <3>1. 1 \in Int /\ 2 \in Int
      OBVIOUS
    <3>2. Cardinality(1 .. 2) = IF 1 > 2 THEN 0 ELSE 2 - 1 + 1
      BY <3>1, FS_Interval
    <3> QED
      BY <3>2
  <2>3. Cardinality(1 .. 3) = 3
    <3>1. 1 \in Int /\ 3 \in Int
      OBVIOUS
    <3>2. Cardinality(1 .. 3) = IF 1 > 3 THEN 0 ELSE 3 - 1 + 1
      BY <3>1, FS_Interval
    <3> QED
      BY <3>2
  <2> QED
    BY <2>1, <2>2, <2>3, FS_EmptySet
<1>1. flight = [a \in Actors |-> Idle] /\ begun = 0 /\ late = {} /\ unsure = {} /\ overlap = FALSE
  BY DEF BoardInit
<1>2. RequestsInv
  BY <1>1, IdleIsSound DEF RequestsInv
<1>3. \A b \in Actors : Undisturbed(flight[b]) /\ ~OnPipelines(flight[b])
  BY <1>1, IdleIsSound
<1>4. [known |-> FALSE, pipeline |-> None, stage |-> None] \in Cards
  BY <1>n DEF Cards, None
<1>5. NoRule \in RuleRecords /\ NoRule.state = "free"
  BY <1>n DEF NoRule, RuleRecords, None
<1>6. CASE /\ default = [p \in {} |-> FALSE] /\ stageOf = [s \in StageIds |-> None]
           /\ rule = [r \in RuleIds |-> NoRule]
           /\ card = [l \in Leads |-> [known |-> FALSE, pipeline |-> None, stage |-> None]]
           /\ ids = [pipelines |-> Cardinality(DOMAIN default), stages |-> Cardinality(BoardStages)]
  <2>1. Pipelines = {} /\ BoardStages = {} /\ There = {}
    BY <1>5, <1>6 DEF Pipelines, BoardStages, There
  <2>2. ids = [pipelines |-> 0, stages |-> 0]
    BY <1>6, <1>c, <2>1 DEF Pipelines
  <2>3. IdsInv
    BY <1>n, <2>1, <2>2 DEF IdsInv
  <2>4. CardsInv /\ RulesInv
    BY <1>4, <1>5, <1>6, <2>1 DEF CardsInv, RulesInv
  <2>5. BoardTypeOK
    <3>1. default \in [Pipelines -> BOOLEAN] /\ stageOf \in [StageIds -> Pipelines \union {None}]
      BY <1>6, <2>1
    <3>2. ids.pipelines \in 0 .. MaxPipelines /\ ids.stages \in 0 .. MaxStages /\ begun \in 0 .. MaxAsked
      BY <1>1, <1>n, <2>2
    <3>3. flight \in [Actors -> Requests]
      BY <1>2 DEF RequestsInv
    <3> QED
      BY <1>1, <1>6, <2>1, <3>1, <3>2, <3>3, FlightTypes DEF BoardTypeOK
  <2>6. DefaultsInv
    BY <1>3, <2>1 DEF DefaultsInv, OneIsDefault
  <2>7. StraysAreLate /\ StaleRulesAreOff
    BY <1>5, <1>6, <2>1 DEF StraysAreLate, StaleRulesAreOff
  <2> QED
    BY <1>2, <2>3, <2>4, <2>5, <2>6, <2>7 DEF BoardInv
<1>7. ASSUME default = [p \in {1, 2} |-> p = 1],
             stageOf = [s \in StageIds |-> CASE s \in {1, 2} -> 1 [] s = 3 -> 2 [] OTHER -> None],
             NEW from \in {None, 1},
             rule = [r \in RuleIds |-> IF r = 1 THEN Rule(1, from, 2, TRUE) ELSE NoRule],
             card \in [Leads -> {[known |-> FALSE, pipeline |-> None, stage |-> None]}
                                \union {[known |-> TRUE, pipeline |-> 1, stage |-> s] : s \in {1, 2}}],
             ids = [pipelines |-> Cardinality(DOMAIN default), stages |-> Cardinality(BoardStages)]
      PROVE  BoardInv
  <2>1. Pipelines = {1, 2} /\ \A p \in Pipelines : default[p] <=> p = 1
    BY <1>7 DEF Pipelines
  <2>2. \A s \in StageIds : stageOf[s] = IF s \in {1, 2} THEN 1 ELSE IF s = 3 THEN 2 ELSE None
    BY <1>7
  <2>3. BoardStages = {1, 2, 3} /\ StagesOf(1) = {1, 2}
    <3>1. {1, 2, 3} \subseteq StageIds
      BY <1>n DEF StageIds
    <3>2. BoardStages = {1, 2, 3}
      BY <2>2, <3>1 DEF BoardStages, None
    <3> QED
      BY <2>2, <3>1, <3>2 DEF StagesOf
  <2>4. ids = [pipelines |-> 2, stages |-> 3]
    BY <1>7, <1>c, <2>1, <2>3 DEF Pipelines
  <2>5. IdsInv
    BY <1>n, <2>1, <2>3, <2>4 DEF IdsInv
  <2>6. /\ Rule(1, from, 2, TRUE) \in RuleRecords
        /\ Rule(1, from, 2, TRUE).state = "there" /\ Rule(1, from, 2, TRUE).on = 1
        /\ Rule(1, from, 2, TRUE).from = from /\ Rule(1, from, 2, TRUE).to = 2
    BY <1>n DEF Rule, RuleRecords, None
  <2>7. /\ rule \in [RuleIds -> RuleRecords]
        /\ \A r \in RuleIds : rule[r].state # "lost"
        /\ \A r \in There : rule[r].on = 1 /\ rule[r].from = from /\ rule[r].to = 2
    BY <1>5, <1>7, <2>6 DEF There
  <2>8. RulesInv
    <3>1. 2 \in StageIds /\ stageOf[2] = 1
      BY <1>n, <2>2 DEF StageIds
    <3> QED
      BY <2>4, <2>7, <3>1 DEF RulesInv
  <2>9. /\ card \in [Leads -> Cards]
        /\ \A l \in Leads : /\ ~card[l].known => card[l].pipeline = None /\ card[l].stage = None
                            /\ card[l].known => card[l].pipeline = 1 /\ card[l].stage \in {1, 2}
    <3>1. \A s \in {1, 2} : [known |-> TRUE, pipeline |-> 1, stage |-> s] \in Cards
      BY <1>n DEF Cards
    <3>2. ASSUME NEW l \in Leads
          PROVE  /\ card[l] \in Cards
                 /\ ~card[l].known => card[l].pipeline = None /\ card[l].stage = None
                 /\ card[l].known => card[l].pipeline = 1 /\ card[l].stage \in {1, 2}
      <4>1. \/ card[l] = [known |-> FALSE, pipeline |-> None, stage |-> None]
            \/ \E s \in {1, 2} : card[l] = [known |-> TRUE, pipeline |-> 1, stage |-> s]
        BY <1>7
      <4>2. CASE card[l] = [known |-> FALSE, pipeline |-> None, stage |-> None]
        BY <1>4, <4>2
      <4>3. ASSUME NEW s \in {1, 2}, card[l] = [known |-> TRUE, pipeline |-> 1, stage |-> s]
            PROVE  card[l] \in Cards /\ card[l].known /\ card[l].pipeline = 1 /\ card[l].stage = s
        <5>1. PICK c : c = [known |-> TRUE, pipeline |-> 1, stage |-> s]
          OBVIOUS
        <5>2. c \in Cards
          BY <3>1, <5>1
        <5>3. c.known /\ c.pipeline = 1 /\ c.stage = s
          BY <5>1
        <5> QED
          BY <4>3, <5>1, <5>2, <5>3
      <4> QED
        BY <4>1, <4>2, <4>3
    <3> QED
      BY <1>7, <3>2
  <2>10. CardsInv
    BY <2>9 DEF CardsInv
  <2>11. BoardTypeOK
    <3>1. Pipelines \subseteq PipelineIds /\ default \in [Pipelines -> BOOLEAN]
      BY <1>7, <1>n, <2>1 DEF PipelineIds
    <3>2. stageOf \in [StageIds -> Pipelines \union {None}]
      BY <1>7, <2>1, <2>2
    <3>3. \A r \in There : rule[r].on \in Pipelines /\ rule[r].from \in StagesOf(rule[r].on) \union {None}
      <4> SUFFICES ASSUME NEW r \in There
                   PROVE  rule[r].on \in Pipelines /\ rule[r].from \in StagesOf(rule[r].on) \union {None}
        OBVIOUS
      <4>1. rule[r].on = 1 /\ rule[r].from \in {None, 1}
        BY <1>7, <2>7
      <4> QED
        BY <2>1, <2>3, <4>1
    <3>4. /\ \A l \in Leads : card[l].pipeline \in Pipelines \union {None}
          /\ \A l \in Leads : card[l].stage \in StagesOf(card[l].pipeline) \union {None}
      BY <2>1, <2>3, <2>9
    <3>5. ids.pipelines \in 0 .. MaxPipelines /\ ids.stages \in 0 .. MaxStages /\ begun \in 0 .. MaxAsked
      BY <1>1, <1>n, <2>4
    <3>6. flight \in [Actors -> Requests]
      BY <1>2 DEF RequestsInv
    <3> QED
      BY <1>1, <3>1, <3>2, <3>3, <3>4, <3>5, <3>6, FlightTypes DEF BoardTypeOK
  <2>12. DefaultsInv
    <3>1. OneIsDefault
      BY <2>1 DEF OneIsDefault
    <3> QED
      BY <1>3, <3>1 DEF DefaultsInv
  <2>13. StraysAreLate /\ StaleRulesAreOff
    BY <2>3, <2>7, <2>9 DEF StraysAreLate, StaleRulesAreOff, None
  <2> QED
    BY <1>2, <2>5, <2>8, <2>10, <2>11, <2>12, <2>13 DEF BoardInv
<1> QED
  BY <1>6, <1>7 DEF BoardInit

LEMMA BoardStays ==
  ASSUME BoardInv, [BoardNext]_boardVars
  PROVE  BoardInv'
<1>1. CASE UNCHANGED boardVars
  <2>1. UNCHANGED <<default, stageOf, rule, card, flight, ids, begun, late, unsure, overlap>>
    BY <1>1 DEF boardVars
  <2> QED
    BY <2>1 DEF BoardInv, BoardTypeOK, IdsInv, CardsInv, RulesInv, RequestsInv, DefaultsInv, StraysAreLate,
         StaleRulesAreOff, OneIsDefault, Undisturbed, Sound, StageDeletion, PipelineDeletion, RuleWriting,
         LeadMove, LeadArrival, LeadEvent, PipelineChange, Pipelines, BoardStages, StagesOf, There, LeadsIn,
         LeadsOn, Naming
<1>2. ASSUME NEW a \in Actors, Open(a)
      PROVE  BoardInv'
  BY <1>2, AskDeleteStageStays, AskDeletePipelineStays, AskCreatePipelineStays, CreateStageStays, AskDefaultStays,
     AskCreateRuleStays, AskUpdateRuleStays, DeleteRuleStays, AskMoveStays, AskNewLeadStays, AskEventStays
  DEF Open
<1>3. ASSUME NEW a \in Actors, Work(a)
      PROVE  BoardInv'
  <2>1. CASE DropStage(a)
    <3>1. PICK s, t, L, R : StageGoes(a, s, t, L, R)
      BY <2>1, StageGoesFrom
    <3> QED
      BY <3>1, StageGoesStep
  <2>2. CASE DropPipeline(a)
    <3>1. PICK p, t, L : PipelineGoes(a, p, t, L)
      BY <2>2, PipelineGoesFrom
    <3> QED
      BY <3>1, PipelineGoesStep
  <2>3. CASE Deadlock(a)
    BY <2>3, AbortStep DEF Deadlock
  <2> QED
    BY <1>3, <2>1, <2>2, <2>3, ClearStageStays, ClearPipelineStays, TakeDefaultStays, InsertPipelineStays,
       SetDefaultStays, WriteRuleStays, MoveLeadStays, InsertLeadStays, RunRulesStays
    DEF Work
<1> QED
  BY <1>1, <1>2, <1>3 DEF BoardNext

LEMMA BoardHolds == BoardSpec => []BoardInv
  BY BoardStarts, BoardStays, PTL DEF BoardSpec

\* The foreign keys hold: a lead's stage is of its pipeline, a rule starts from a stage of its own
\* (validateRuleInput, moveContactsManually, the cascades of deleteStage and deletePipeline).
THEOREM BoardTypeCorrect == BoardSpec => []BoardTypeOK
<1>1. BoardInv => BoardTypeOK
  BY DEF BoardInv
<1> QED
  BY <1>1, BoardHolds, PTL

\* Deletions leave the board in order but for what comes in their middle, and there is one default
\* pipeline unless two changes of the pipelines overlap (deleteStage, deletePipeline, createPipeline
\* and updatePipeline of crmPipelineController.ts).
THEOREM BoardStaysInOrder == BoardSpec => []BoardInOrder
<1>1. BoardInv => BoardInOrder
  <2> SUFFICES ASSUME BoardInv
               PROVE  BoardInOrder
    OBVIOUS
  <2>1. ASSUME ~overlap, Pipelines # {}
        PROVE  Cardinality(Defaults) = 1
    <3>1. PICK p \in Pipelines : \A x \in Pipelines : default[x] <=> x = p
      BY <2>1 DEF BoardInv, DefaultsInv, OneIsDefault
    <3>2. Defaults = {p}
      BY <3>1 DEF Defaults
    <3> QED
      BY <3>2, FS_Singleton
  <2> QED
    BY <2>1 DEF BoardInv, BoardInOrder, DefaultIsOne
<1> QED
  BY <1>1, BoardHolds, PTL

-----------------------------------------------------------------------------
(* The lead: what its follow-ups and the workers that have them in hand come to *)

LeadRecords == [stage : Stages, stopped : BOOLEAN, visit : Nat]
RowRecords == [rule : DOMAIN RuleBook, visit : Nat, answered : BOOLEAN,
               status : {"pending", "sending", "sent", "failed", "cancelled"}]

\* Rows that are still to be sent, and workers with one in hand: before the mail, or after it.
Active(rows) == {f \in DOMAIN rows : rows[f].status \in {"pending", "sending"}}
Trying == {w \in CrmWorkers : worker[w].at \in {"check", "send"}}
AtARow == {w \in CrmWorkers : worker[w].at # "idle"}
Senders == {w \in CrmWorkers : worker[w].at = "send"}

\* Rows that a worker may come to take: pending, or left in "sending" by a crash.
StillToSend(rows) ==
  {f \in DOMAIN rows : rows[f].status = "pending" \/ (rows[f].status = "sending" /\ ~CheckedOut(f))}

\* The mails, numbered for each row.
MailsOut == {m \in (1 .. MaxPlanned) \X Nat : m[2] \in 1 .. mailed[m[1]]}

\* Mails that went out or may still go out.
Chances(rows) == Cardinality(MailsOut) + Cardinality(Trying) + Cardinality(StillToSend(rows))
InHand(rows) == Cardinality(AtARow) + Cardinality(StillToSend(rows))

RowsTyped(l, rows) ==
  /\ l \in LeadRecords /\ l.visit >= 1
  /\ rows \in Seq(RowRecords) /\ Len(rows) <= MaxPlanned
  /\ \A f \in DOMAIN rows : rows[f].visit \in 1 .. l.visit

\* What is mailed, or in the hands of a worker, is a row; a row that is sent was mailed.
RowsKnown(rows) ==
  /\ \A w \in AtARow : worker[w].row \in DOMAIN rows
  /\ \A w \in CrmWorkers : worker[w].at = "record" => mailed[worker[w].row] > 0
  /\ \A f \in 1 .. MaxPlanned : mailed[f] > 0 => f \in DOMAIN rows
  /\ \A f \in DOMAIN rows : rows[f].status = "sent" => mailed[f] > 0

\* A row that counts makes for one mail, and a mishap for one more; rows that count are
\* limited, and of those that are still to be sent there is one.
RowsBudget(rows) ==
  /\ Chances(rows) <= Cardinality(Counted(rows)) + slips
  /\ Chances(rows) <= PerLead + slips
  /\ InHand(rows) <= Cardinality(Active(rows)) + slips
  /\ InHand(rows) <= 1 + slips

\* Of a rule and a visit one row counts.
RowsOnce(rows) ==
  slips = 0 => \A f, g \in Counted(rows) : rows[f].rule = rows[g].rule /\ rows[f].visit = rows[g].visit => f = g

RowsOK(l, rows) == RowsTyped(l, rows) /\ RowsKnown(rows) /\ RowsBudget(rows) /\ RowsOnce(rows)

\* Of the mails to a lead that wants no more, the last are in the hands of workers already.
SilenceInv ==
  IF lead.stopped \/ suppressed THEN unwanted + Cardinality(Senders) <= 1 + slips ELSE unwanted = 0

WorkersInv ==
  /\ LeadTypeOK
  /\ \A w \in CrmWorkers : worker[w].at = "idle" <=> worker[w].row = 0
  /\ IsFiniteSet(AtARow) /\ IsFiniteSet(MailsOut)

\* What the rules make of the lead and its rows, in any order, is in order.
States == [lead : LeadRecords, rows : Seq(RowRecords), moves : Nat, done : SUBSET DOMAIN RuleBook, over : BOOLEAN]
InOrder == {u \in States : RowsOK(u.lead, u.rows) /\ (lead.stopped => u.lead.stopped)}

LeadInv == WorkersInv /\ RowsOK(lead, planned) /\ SilenceInv

-----------------------------------------------------------------------------
(* Numbers *)

LEMMA FirstExists ==
  ASSUME NEW S \in SUBSET Nat, S # {}
  PROVE  \E r \in S : \A q \in S : r <= q
<1>1. \E x \in S : \A y \in S : ~ (<<y, x>> \in OpToRel(<, Nat))
  <2>1. IsWellFoundedOn(OpToRel(<, Nat), Nat)
    BY NatLessThanWellFounded
  <2> QED
    BY <2>1, WFMin
<1>2. \A x, y \in Nat : y < x => <<y, x>> \in OpToRel(<, Nat)
  BY DEF OpToRel
<1>3. PICK x \in S : \A y \in S : ~ (<<y, x>> \in OpToRel(<, Nat))
  BY <1>1
<1>4. \A y \in S : ~(y < x)
  BY <1>2, <1>3
<1> QED
  BY <1>4

\* What holds at 0 and goes on to the next number holds of all.
LEMMA UpTo ==
  ASSUME NEW n \in Nat, NEW S \in SUBSET (0 .. n), 0 \in S, \A i \in 1 .. n : i - 1 \in S => i \in S
  PROVE  S = 0 .. n
<1> SUFFICES ASSUME S # 0 .. n
             PROVE  FALSE
  OBVIOUS
<1> DEFINE T == (0 .. n) \ S
<1>1. T \in SUBSET Nat
  OBVIOUS
<1>2. T # {}
  OBVIOUS
<1>3. PICK r \in T : \A q \in T : r <= q
  <2> HIDE DEF T
  <2> QED
    BY <1>1, <1>2, FirstExists
<1>4. r \in 1 .. n /\ r - 1 \in 0 .. n /\ r \notin S
  BY <1>3
<1>5. r - 1 \in T
  BY <1>4
<1> QED
  BY <1>3, <1>4, <1>5

-----------------------------------------------------------------------------
(* The passes of an event *)

\* The functions that go through the rules and the passes exist.
LEMMA RulesRunIs ==
  ASSUME NEW s, NEW matching, NEW event
  PROVE  RulesRun(s, matching, event) =
           [r \in 0 .. Len(RuleBook) |->
              IF r = 0 THEN s
              ELSE IF Applies(s, r, matching, event)
                THEN RunRule(RulesRun(s, matching, event)[r - 1], r, s.lead.stage, event)
              ELSE RulesRun(s, matching, event)[r - 1]]
<1> DEFINE N == Len(RuleBook)
           Step(x, r) == IF Applies(s, r, matching, event) THEN RunRule(x, r, s.lead.stage, event) ELSE x
           Run(n, f) == f = [r \in 0 .. n |-> IF r = 0 THEN s ELSE Step(f[r - 1], r)]
           Runs == {n \in 0 .. N : \E f : Run(n, f)}
<1> HIDE DEF Step
<1>n. N \in Nat
  BY CrmLeadAssumption
<1>1. 0 \in Runs
  <2>1. Run(0, [r \in 0 .. 0 |-> s])
    OBVIOUS
  <2>2. \E f : Run(0, f)
    <3> HIDE DEF Run
    <3> QED
      BY <2>1
  <2> QED
    BY <1>n, <2>2
<1>2. ASSUME NEW n \in 1 .. N, n - 1 \in Runs
      PROVE  n \in Runs
  <2>1. PICK e : Run(n - 1, e)
    BY <1>2
  <2> DEFINE g == [r \in 0 .. n |-> IF r = n THEN Step(e[n - 1], n) ELSE e[r]]
  <2>2. \A r \in 0 .. n : g[r] = IF r = 0 THEN s ELSE Step(g[r - 1], r)
    <3> SUFFICES ASSUME NEW r \in 0 .. n
                 PROVE  g[r] = IF r = 0 THEN s ELSE Step(g[r - 1], r)
      OBVIOUS
    <3>1. CASE r = n
      <4>1. g[n - 1] = e[n - 1] /\ g[n] = Step(e[n - 1], n)
        BY <1>n
      <4> QED
        BY <1>n, <3>1, <4>1
    <3>2. CASE r # n /\ r # 0
      <4>1. r \in 0 .. n - 1 /\ r - 1 \in 0 .. n /\ r - 1 # n /\ r - 1 \in 0 .. n - 1
        BY <1>n, <3>2
      <4>2. e[r] = Step(e[r - 1], r)
        BY <2>1, <3>2, <4>1
      <4>3. g[r] = e[r] /\ g[r - 1] = e[r - 1]
        BY <3>2, <4>1
      <4> QED
        BY <3>2, <4>2, <4>3
    <3>3. CASE r # n /\ r = 0
      <4>1. e[0] = s
        BY <1>n, <2>1
      <4> QED
        BY <3>3, <4>1
    <3> QED
      BY <3>1, <3>2, <3>3
  <2>3. Run(n, g)
    BY <2>2
  <2>4. \E f : Run(n, f)
    <3> HIDE DEF Run, g
    <3> QED
      BY <2>3
  <2> QED
    BY <1>n, <2>4
<1>3. Runs = 0 .. N
  <2> HIDE DEF Runs
  <2>1. Runs \in SUBSET (0 .. N)
    BY DEF Runs
  <2> QED
    BY <1>n, <1>1, <1>2, <2>1, UpTo
<1>4. \E f : Run(N, f)
  BY <1>n, <1>3
<1>5. Run(N, CHOOSE f : Run(N, f))
  BY <1>4
<1>6. RulesRun(s, matching, event) = CHOOSE f : Run(N, f)
  BY DEF RulesRun, Step
<1> QED
  BY <1>5, <1>6 DEF Step

LEMMA PassesIs ==
  ASSUME NEW s, NEW matching, NEW event
  PROVE  Passes(s, matching, event) =
           [n \in 0 .. MaxMoves + 1 |->
              IF n = 0 THEN s ELSE RunPass(Passes(s, matching, event)[n - 1], matching, event)]
<1> DEFINE N == MaxMoves + 1
           Step(x, r) == RunPass(x, matching, event)
           Run(n, f) == f = [r \in 0 .. n |-> IF r = 0 THEN s ELSE Step(f[r - 1], r)]
           Runs == {n \in 0 .. N : \E f : Run(n, f)}
<1> HIDE DEF Step
<1>n. N \in Nat
  BY CrmLeadAssumption
<1>1. 0 \in Runs
  <2>1. Run(0, [r \in 0 .. 0 |-> s])
    OBVIOUS
  <2>2. \E f : Run(0, f)
    <3> HIDE DEF Run
    <3> QED
      BY <2>1
  <2> QED
    BY <1>n, <2>2
<1>2. ASSUME NEW n \in 1 .. N, n - 1 \in Runs
      PROVE  n \in Runs
  <2>1. PICK e : Run(n - 1, e)
    BY <1>2
  <2> DEFINE g == [r \in 0 .. n |-> IF r = n THEN Step(e[n - 1], n) ELSE e[r]]
  <2>2. \A r \in 0 .. n : g[r] = IF r = 0 THEN s ELSE Step(g[r - 1], r)
    <3> SUFFICES ASSUME NEW r \in 0 .. n
                 PROVE  g[r] = IF r = 0 THEN s ELSE Step(g[r - 1], r)
      OBVIOUS
    <3>1. CASE r = n
      <4>1. g[n - 1] = e[n - 1] /\ g[n] = Step(e[n - 1], n)
        BY <1>n
      <4> QED
        BY <1>n, <3>1, <4>1
    <3>2. CASE r # n /\ r # 0
      <4>1. r \in 0 .. n - 1 /\ r - 1 \in 0 .. n /\ r - 1 # n /\ r - 1 \in 0 .. n - 1
        BY <1>n, <3>2
      <4>2. e[r] = Step(e[r - 1], r)
        BY <2>1, <3>2, <4>1
      <4>3. g[r] = e[r] /\ g[r - 1] = e[r - 1]
        BY <3>2, <4>1
      <4> QED
        BY <3>2, <4>2, <4>3
    <3>3. CASE r # n /\ r = 0
      <4>1. e[0] = s
        BY <1>n, <2>1
      <4> QED
        BY <3>3, <4>1
    <3> QED
      BY <3>1, <3>2, <3>3
  <2>3. Run(n, g)
    BY <2>2
  <2>4. \E f : Run(n, f)
    <3> HIDE DEF Run, g
    <3> QED
      BY <2>3
  <2> QED
    BY <1>n, <2>4
<1>3. Runs = 0 .. N
  <2> HIDE DEF Runs
  <2>1. Runs \in SUBSET (0 .. N)
    BY DEF Runs
  <2> QED
    BY <1>n, <1>1, <1>2, <2>1, UpTo
<1>4. \E f : Run(N, f)
  BY <1>n, <1>3
<1>5. Run(N, CHOOSE f : Run(N, f))
  BY <1>4
<1>6. Passes(s, matching, event) = CHOOSE f : Run(N, f)
  BY DEF Passes, Step
<1> QED
  BY <1>5, <1>6 DEF Step

\* What every rule keeps, a pass keeps; what every pass keeps, the passes of an event keep.
LEMMA RulesRunKeeps ==
  ASSUME NEW K, NEW s \in K, NEW matching, NEW event,
         \A x \in K : \A r \in DOMAIN RuleBook : RunRule(x, r, s.lead.stage, event) \in K
  PROVE  RulesRun(s, matching, event)[Len(RuleBook)] \in K
<1> DEFINE N == Len(RuleBook)
           F == RulesRun(s, matching, event)
           S == {n \in 0 .. N : F[n] \in K}
<1>n. N \in Nat /\ DOMAIN RuleBook = 1 .. N
  BY CrmLeadAssumption
<1>1. \A n \in 0 .. N : F[n] = IF n = 0 THEN s
                               ELSE IF Applies(s, n, matching, event) THEN RunRule(F[n - 1], n, s.lead.stage, event)
                               ELSE F[n - 1]
  BY RulesRunIs
<1> HIDE DEF F
<1>2. 0 \in S
  BY <1>n, <1>1
<1>3. \A i \in 1 .. N : i - 1 \in S => i \in S
  BY <1>n, <1>1
<1>4. S = 0 .. N
  <2>1. S \in SUBSET (0 .. N)
    OBVIOUS
  <2> HIDE DEF S
  <2> QED
    BY <1>n, <1>2, <1>3, <2>1, UpTo
<1> QED
  BY <1>n, <1>4 DEF F

LEMMA PassesKeep ==
  ASSUME NEW K, NEW s \in K, NEW matching, NEW event,
         \A x \in K : RunPass(x, matching, event) \in K
  PROVE  Passes(s, matching, event)[MaxMoves + 1] \in K
<1> DEFINE N == MaxMoves + 1
           F == Passes(s, matching, event)
           S == {n \in 0 .. N : F[n] \in K}
<1>n. N \in Nat
  BY CrmLeadAssumption
<1>1. \A n \in 0 .. N : F[n] = IF n = 0 THEN s ELSE RunPass(F[n - 1], matching, event)
  <2>1. F = [n \in 0 .. N |-> IF n = 0 THEN s ELSE RunPass(F[n - 1], matching, event)]
    BY PassesIs
  <2> HIDE DEF F, N
  <2> QED
    BY <2>1
<1> HIDE DEF F
<1>2. 0 \in S
  BY <1>n, <1>1
<1>3. \A i \in 1 .. N : i - 1 \in S => i \in S
  BY <1>n, <1>1
<1>4. S = 0 .. N
  <2>1. S \in SUBSET (0 .. N)
    OBVIOUS
  <2> HIDE DEF S
  <2> QED
    BY <1>n, <1>2, <1>3, <2>1, UpTo
<1> QED
  BY <1>n, <1>4 DEF F

-----------------------------------------------------------------------------
(* Counting *)

LEMMA OneMore ==
  ASSUME NEW S, IsFiniteSet(S), NEW x, NEW T, T \subseteq S \union {x}
  PROVE  IsFiniteSet(T) /\ Cardinality(T) \in Nat /\ Cardinality(S) \in Nat /\ Cardinality(T) <= Cardinality(S) + 1
<1>1. IsFiniteSet(S \union {x}) /\ Cardinality(S \union {x}) \in Nat /\ Cardinality(S) \in Nat
      /\ Cardinality(S \union {x}) <= Cardinality(S) + 1
  BY FS_AddElement, FS_CardinalityType
<1>2. IsFiniteSet(T) /\ Cardinality(T) <= Cardinality(S \union {x})
  BY <1>1, FS_Subset
<1> QED
  BY <1>1, <1>2, FS_CardinalityType

LEMMA OneLess ==
  ASSUME NEW S, IsFiniteSet(S), NEW x \in S, NEW T, T \subseteq S \ {x}
  PROVE  IsFiniteSet(T) /\ Cardinality(T) \in Nat /\ Cardinality(S) \in Nat /\ Cardinality(T) <= Cardinality(S) - 1
<1>1. IsFiniteSet(S \ {x}) /\ Cardinality(S \ {x}) = Cardinality(S) - 1
  BY FS_RemoveElement
<1>2. IsFiniteSet(T) /\ Cardinality(T) <= Cardinality(S \ {x})
  BY <1>1, FS_Subset
<1> QED
  BY <1>1, <1>2, FS_CardinalityType

LEMMA NoMore ==
  ASSUME NEW S, IsFiniteSet(S), NEW T, T \subseteq S
  PROVE  IsFiniteSet(T) /\ Cardinality(T) \in Nat /\ Cardinality(S) \in Nat /\ Cardinality(T) <= Cardinality(S)
BY FS_Subset, FS_CardinalityType

\* What is taken from both of two sets does not change which is larger.
LEMMA BothLess ==
  ASSUME NEW S, IsFiniteSet(S), NEW X, X \subseteq S
  PROVE  /\ IsFiniteSet(S \ X) /\ Cardinality(S \ X) \in Nat /\ Cardinality(X) \in Nat /\ Cardinality(S) \in Nat
         /\ Cardinality(S \ X) = Cardinality(S) - Cardinality(X)
<1>1. S \intersect X = X
  OBVIOUS
<1>2. IsFiniteSet(S \ X) /\ Cardinality(S \ X) = Cardinality(S) - Cardinality(S \intersect X)
  BY FS_Difference
<1>3. IsFiniteSet(X)
  BY FS_Subset
<1> QED
  BY <1>1, <1>2, <1>3, FS_CardinalityType

LEMMA ImageOf ==
  ASSUME NEW S, IsFiniteSet(S), NEW f, DOMAIN f = S, NEW T, T = {f[x] : x \in S}
  PROVE  IsFiniteSet(T) /\ Cardinality(T) \in Nat /\ Cardinality(T) <= Cardinality(S)
<1>1. PICK g \in [S -> T] : \A x \in S : g[x] = f[x]
  <2>1. [x \in S |-> f[x]] \in [S -> T]
    OBVIOUS
  <2> QED
    BY <2>1
<1>2. g \in Surjection(S, T)
  BY <1>1 DEF Surjection
<1> QED
  BY <1>2, FS_Surjection, FS_CardinalityType

-----------------------------------------------------------------------------
(* Rows that are cancelled, and rows that are planned *)

LEMMA Typed ==
  ASSUME NEW l, NEW rows, RowsTyped(l, rows)
  PROVE  /\ l \in LeadRecords /\ l.visit \in Nat /\ l.visit >= 1 /\ l.stage \in Stages /\ l.stopped \in BOOLEAN
         /\ rows \in Seq(RowRecords) /\ Len(rows) \in Nat /\ DOMAIN rows = 1 .. Len(rows) /\ Len(rows) <= MaxPlanned
         /\ \A f \in DOMAIN rows : /\ rows[f] \in RowRecords /\ rows[f].visit \in 1 .. l.visit
                                   /\ rows[f].status \in {"pending", "sending", "sent", "failed", "cancelled"}
         /\ IsFiniteSet(DOMAIN rows)
<1>1. /\ l \in LeadRecords /\ l.visit \in Nat /\ l.visit >= 1 /\ l.stage \in Stages /\ l.stopped \in BOOLEAN
      /\ rows \in Seq(RowRecords) /\ Len(rows) <= MaxPlanned
      /\ \A f \in DOMAIN rows : rows[f].visit \in 1 .. l.visit
  BY DEF RowsTyped, LeadRecords
<1>2. Len(rows) \in Nat /\ DOMAIN rows = 1 .. Len(rows) /\ \A f \in DOMAIN rows : rows[f] \in RowRecords
  BY <1>1
<1>3. \A f \in DOMAIN rows : rows[f].status \in {"pending", "sending", "sent", "failed", "cancelled"}
  BY <1>2 DEF RowRecords
<1>4. IsFiniteSet(1 .. Len(rows))
  BY <1>2, FS_Interval
<1> QED
  BY <1>1, <1>2, <1>3, <1>4

\* Sets of rows are finite.
LEMMA RowSets ==
  ASSUME NEW l, NEW rows, RowsTyped(l, rows)
  PROVE  /\ IsFiniteSet(StillToSend(rows)) /\ IsFiniteSet(Counted(rows)) /\ IsFiniteSet(Active(rows))
         /\ Cardinality(StillToSend(rows)) \in Nat /\ Cardinality(Counted(rows)) \in Nat /\ Cardinality(Active(rows)) \in Nat
<1>1. IsFiniteSet(DOMAIN rows)
  BY Typed
<1>2. StillToSend(rows) \subseteq DOMAIN rows /\ Counted(rows) \subseteq DOMAIN rows /\ Active(rows) \subseteq DOMAIN rows
  BY DEF StillToSend, Counted, Active
<1> QED
  BY <1>1, <1>2, NoMore

LEMMA WorkerSets ==
  ASSUME WorkersInv
  PROVE  /\ IsFiniteSet(AtARow) /\ IsFiniteSet(Trying) /\ IsFiniteSet(Senders) /\ IsFiniteSet(MailsOut)
         /\ Cardinality(AtARow) \in Nat /\ Cardinality(Trying) \in Nat /\ Cardinality(Senders) \in Nat
         /\ Cardinality(MailsOut) \in Nat /\ slips \in Nat /\ Cardinality(Senders) <= Cardinality(AtARow)
<1>1. Trying \subseteq AtARow /\ Senders \subseteq AtARow
  BY DEF Trying, AtARow, Senders
<1>2. IsFiniteSet(AtARow) /\ IsFiniteSet(MailsOut) /\ slips \in Nat
  BY CrmLeadAssumption DEF WorkersInv, LeadTypeOK
<1> QED
  BY <1>1, <1>2, NoMore, FS_CardinalityType

LEMMA CancelIs ==
  ASSUME NEW rows \in Seq(RowRecords)
  PROVE  /\ CancelPending(rows) \in Seq(RowRecords) /\ Len(CancelPending(rows)) = Len(rows)
         /\ DOMAIN CancelPending(rows) = DOMAIN rows
         /\ \A f \in DOMAIN rows :
              /\ CancelPending(rows)[f].rule = rows[f].rule /\ CancelPending(rows)[f].visit = rows[f].visit
              /\ CancelPending(rows)[f].status = IF rows[f].status = "pending" THEN "cancelled" ELSE rows[f].status
<1>1. Len(rows) \in Nat /\ DOMAIN rows = 1 .. Len(rows) /\ \A f \in DOMAIN rows : rows[f] \in RowRecords
  OBVIOUS
<1>2. ASSUME NEW f \in DOMAIN rows
      PROVE  /\ CancelPending(rows)[f] \in RowRecords
             /\ CancelPending(rows)[f].rule = rows[f].rule /\ CancelPending(rows)[f].visit = rows[f].visit
             /\ CancelPending(rows)[f].status = IF rows[f].status = "pending" THEN "cancelled" ELSE rows[f].status
  <2>1. CASE rows[f].status = "pending"
    <3>1. CancelPending(rows)[f] = [rows[f] EXCEPT !.status = "cancelled"]
      BY <2>1 DEF CancelPending
    <3>2. rows[f] \in RowRecords
      BY <1>1
    <3> QED
      BY <2>1, <3>1, <3>2 DEF RowRecords
  <2>2. CASE rows[f].status # "pending"
    <3>1. CancelPending(rows)[f] = rows[f]
      BY <2>2 DEF CancelPending
    <3> QED
      BY <1>1, <2>2, <3>1
  <2> QED
    BY <2>1, <2>2
<1>3. CancelPending(rows) = [f \in 1 .. Len(rows) |-> CancelPending(rows)[f]]
  BY <1>1 DEF CancelPending
<1>4. CancelPending(rows) \in Seq(RowRecords) /\ Len(CancelPending(rows)) = Len(rows)
      /\ DOMAIN CancelPending(rows) = DOMAIN rows
  BY <1>1, <1>2, <1>3
<1> QED
  BY <1>2, <1>4

\* A new stage, visit or stop leaves the rows in order.
LEMMA OtherLead ==
  ASSUME NEW l, NEW rows, RowsOK(l, rows), NEW m \in LeadRecords, l.visit <= m.visit
  PROVE  RowsOK(m, rows)
<1>1. RowsTyped(l, rows)
  BY DEF RowsOK
<1>2. m.visit \in Nat
  BY DEF LeadRecords
<1>3. /\ l.visit \in Nat /\ l.visit >= 1 /\ rows \in Seq(RowRecords) /\ Len(rows) <= MaxPlanned
      /\ \A f \in DOMAIN rows : rows[f].visit \in 1 .. l.visit
  BY <1>1, Typed
<1>4. \A f \in DOMAIN rows : rows[f].visit \in 1 .. m.visit
  BY <1>2, <1>3
<1>5. RowsTyped(m, rows)
  BY <1>2, <1>3, <1>4 DEF RowsTyped
<1> QED
  BY <1>5 DEF RowsOK

\* Rows that are cancelled count no more and wait no more.
LEMMA CancelKeeps ==
  ASSUME WorkersInv, NEW l, NEW rows, RowsOK(l, rows)
  PROVE  RowsOK(l, CancelPending(rows))
<1>1. RowsTyped(l, rows) /\ RowsKnown(rows) /\ RowsBudget(rows) /\ RowsOnce(rows)
  BY DEF RowsOK
<1>2. /\ rows \in Seq(RowRecords) /\ Len(rows) <= MaxPlanned /\ l \in LeadRecords /\ l.visit >= 1
      /\ \A f \in DOMAIN rows : rows[f].visit \in 1 .. l.visit
  BY <1>1, Typed
<1> DEFINE new == CancelPending(rows)
           P == {f \in DOMAIN rows : rows[f].status = "pending"}
<1>3. /\ new \in Seq(RowRecords) /\ Len(new) = Len(rows) /\ DOMAIN new = DOMAIN rows
      /\ \A f \in DOMAIN rows :
           /\ new[f].rule = rows[f].rule /\ new[f].visit = rows[f].visit
           /\ new[f].status = IF rows[f].status = "pending" THEN "cancelled" ELSE rows[f].status
  BY <1>2, CancelIs
<1> HIDE DEF new
<1>4. RowsTyped(l, new)
  BY <1>2, <1>3 DEF RowsTyped
<1>5. RowsKnown(new)
  <2>1. \A f \in DOMAIN new : new[f].status = "sent" => rows[f].status = "sent"
    BY <1>3
  <2> QED
    BY <1>1, <1>3, <2>1 DEF RowsKnown
<1>6. StillToSend(new) = StillToSend(rows) \ P /\ P \subseteq StillToSend(rows)
  BY <1>3 DEF StillToSend
<1>7. Counted(new) = Counted(rows) \ P /\ P \subseteq Counted(rows)
  BY <1>3 DEF Counted
<1>8. Active(new) = Active(rows) \ P /\ P \subseteq Active(rows)
  BY <1>3 DEF Active
<1>9. RowsBudget(new)
  <2> HIDE DEF P
  <2>1. /\ IsFiniteSet(StillToSend(rows)) /\ IsFiniteSet(Counted(rows)) /\ IsFiniteSet(Active(rows))
    BY <1>1, RowSets
  <2>2. /\ Cardinality(StillToSend(new)) = Cardinality(StillToSend(rows)) - Cardinality(P)
        /\ Cardinality(StillToSend(new)) \in Nat /\ Cardinality(StillToSend(rows)) \in Nat /\ Cardinality(P) \in Nat
    BY <1>6, <2>1, BothLess
  <2>3. /\ Cardinality(Counted(new)) = Cardinality(Counted(rows)) - Cardinality(P)
        /\ Cardinality(Counted(new)) \in Nat /\ Cardinality(Counted(rows)) \in Nat
    BY <1>7, <2>1, BothLess
  <2>4. /\ Cardinality(Active(new)) = Cardinality(Active(rows)) - Cardinality(P)
        /\ Cardinality(Active(new)) \in Nat /\ Cardinality(Active(rows)) \in Nat
    BY <1>8, <2>1, BothLess
  <2>5. slips \in Nat /\ PerLead \in Nat
    BY WorkerSets, CrmLeadAssumption
  <2>6. Cardinality(MailsOut) \in Nat /\ Cardinality(Trying) \in Nat /\ Cardinality(AtARow) \in Nat
    BY WorkerSets
  <2> QED
    BY <1>1, <2>2, <2>3, <2>4, <2>5, <2>6 DEF RowsBudget, Chances, InHand
<1>10. RowsOnce(new)
  <2>1. \A f \in Counted(new) : f \in Counted(rows) /\ new[f].rule = rows[f].rule /\ new[f].visit = rows[f].visit
    BY <1>3, <1>7 DEF Counted
  <2> QED
    BY <1>1, <2>1 DEF RowsOnce
<1> QED
  BY <1>4, <1>5, <1>9, <1>10 DEF RowsOK, new

\* A row that the rules may plan fits the limits.
LEMMA PlanKeeps ==
  ASSUME WorkersInv, NEW l, NEW rows, RowsOK(l, rows), NEW r \in DOMAIN RuleBook, NEW row \in RowRecords,
         row.rule = r, row.visit = l.visit, row.status = "pending",
         \A f \in Counted(rows) : ~(rows[f].rule = r /\ rows[f].visit = l.visit),
         Cardinality(Counted(rows)) < PerLead, Len(rows) < MaxPlanned, Active(rows) = {}
  PROVE  RowsOK(l, Append(rows, row))
<1>1. RowsTyped(l, rows) /\ RowsKnown(rows) /\ RowsBudget(rows) /\ RowsOnce(rows)
  BY DEF RowsOK
<1>2. /\ rows \in Seq(RowRecords) /\ Len(rows) \in Nat /\ DOMAIN rows = 1 .. Len(rows)
      /\ l \in LeadRecords /\ l.visit >= 1 /\ l.visit \in Nat
      /\ \A f \in DOMAIN rows : rows[f].visit \in 1 .. l.visit
  BY <1>1, Typed
<1>m. MaxPlanned \in Nat /\ PerLead \in Nat
  BY CrmLeadAssumption
<1> DEFINE new == Append(rows, row)
           n == Len(rows) + 1
<1>3. /\ new \in Seq(RowRecords) /\ Len(new) = n /\ DOMAIN new = DOMAIN rows \union {n} /\ n \notin DOMAIN rows
      /\ new[n] = row /\ \A f \in DOMAIN rows : new[f] = rows[f]
      /\ n \in 1 .. MaxPlanned
  BY <1>2, <1>m
<1> HIDE DEF new, n
<1>4. RowsTyped(l, new)
  <2>1. \A f \in DOMAIN new : new[f].visit \in 1 .. l.visit
    BY <1>2, <1>3
  <2>2. Len(new) <= MaxPlanned
    BY <1>3, <1>m
  <2> QED
    BY <1>2, <1>3, <2>1, <2>2 DEF RowsTyped
<1>5. RowsKnown(new)
  <2>1. \A f \in DOMAIN new : new[f].status = "sent" => f \in DOMAIN rows /\ rows[f].status = "sent"
    BY <1>3
  <2> QED
    BY <1>1, <1>3, <2>1 DEF RowsKnown
<1>6. StillToSend(new) \subseteq StillToSend(rows) \union {n}
  BY <1>3 DEF StillToSend
<1>7. Counted(new) = Counted(rows) \union {n} /\ n \notin Counted(rows)
  BY <1>3 DEF Counted
<1>8. Active(new) = {n}
  <2>1. n \in Active(new)
    BY <1>3 DEF Active
  <2>2. \A f \in Active(new) : f = n
    BY <1>3 DEF Active
  <2> QED
    BY <2>1, <2>2
<1>9. RowsBudget(new)
  <2>1. /\ IsFiniteSet(StillToSend(rows)) /\ IsFiniteSet(Counted(rows))
    BY <1>1, RowSets
  <2>2. /\ Cardinality(StillToSend(new)) <= Cardinality(StillToSend(rows)) + 1
        /\ Cardinality(StillToSend(new)) \in Nat /\ Cardinality(StillToSend(rows)) \in Nat
    BY <1>6, <2>1, OneMore
  <2>3. Cardinality(Counted(new)) = Cardinality(Counted(rows)) + 1 /\ Cardinality(Counted(rows)) \in Nat
    BY <1>7, <2>1, FS_AddElement, FS_CardinalityType
  <2>4. Cardinality(Active(new)) = 1 /\ Cardinality(Active(rows)) = 0
    BY <1>8, FS_Singleton, FS_EmptySet
  <2>5. slips \in Nat /\ Cardinality(MailsOut) \in Nat /\ Cardinality(Trying) \in Nat /\ Cardinality(AtARow) \in Nat
    BY WorkerSets
  <2>6. /\ Chances(new) <= Chances(rows) + 1 /\ Chances(new) \in Nat /\ Chances(rows) \in Nat
        /\ InHand(new) <= InHand(rows) + 1 /\ InHand(new) \in Nat /\ InHand(rows) \in Nat
    BY <2>2, <2>5 DEF Chances, InHand
  <2>7. /\ Chances(rows) <= Cardinality(Counted(rows)) + slips /\ Chances(rows) <= PerLead + slips
        /\ InHand(rows) <= Cardinality(Active(rows)) + slips
    BY <1>1 DEF RowsBudget
  <2>8. Chances(new) <= Cardinality(Counted(new)) + slips /\ Chances(new) <= PerLead + slips
    BY <1>1, <1>m, <2>3, <2>5, <2>6, <2>7
  <2>9. InHand(new) <= Cardinality(Active(new)) + slips /\ InHand(new) <= 1 + slips
    BY <2>4, <2>5, <2>6, <2>7
  <2> QED
    BY <2>8, <2>9 DEF RowsBudget
<1>10. RowsOnce(new)
  <2> SUFFICES ASSUME slips = 0, NEW f \in Counted(new), NEW g \in Counted(new),
                      new[f].rule = new[g].rule, new[f].visit = new[g].visit
               PROVE  f = g
    BY DEF RowsOnce
  <2>0. Counted(rows) \subseteq DOMAIN rows
    BY DEF Counted
  <2>1. CASE f \in Counted(rows) /\ g \in Counted(rows)
    BY <1>1, <1>3, <2>0, <2>1 DEF RowsOnce
  <2>2. CASE f \in Counted(rows) /\ g = n
    BY <1>3, <2>0, <2>2
  <2>3. CASE f = n /\ g \in Counted(rows)
    BY <1>3, <2>0, <2>3
  <2> QED
    BY <1>7, <2>1, <2>2, <2>3
<1> QED
  BY <1>4, <1>5, <1>9, <1>10 DEF RowsOK, new

-----------------------------------------------------------------------------
(* The rules *)

LEMMA InOrderIs ==
  ASSUME NEW u
  PROVE  u \in InOrder <=>
           /\ u \in States /\ u.lead \in LeadRecords /\ u.rows \in Seq(RowRecords) /\ u.moves \in Nat
           /\ u.done \subseteq DOMAIN RuleBook /\ u.over \in BOOLEAN
           /\ RowsOK(u.lead, u.rows) /\ (lead.stopped => u.lead.stopped)
BY DEF InOrder, States

\* A record with the parts of a state.
LEMMA StateOf ==
  ASSUME NEW l \in LeadRecords, NEW rows \in Seq(RowRecords), NEW m \in Nat, NEW d \in SUBSET DOMAIN RuleBook,
         NEW o \in BOOLEAN, RowsOK(l, rows), lead.stopped => l.stopped
  PROVE  [lead |-> l, rows |-> rows, moves |-> m, done |-> d, over |-> o] \in InOrder
BY DEF InOrder, States

LEMMA StopKeeps ==
  ASSUME WorkersInv, NEW u \in InOrder
  PROVE  Stopped(u) \in InOrder
<1>1. /\ u \in States /\ u.lead \in LeadRecords /\ u.rows \in Seq(RowRecords) /\ u.moves \in Nat
      /\ u.done \subseteq DOMAIN RuleBook /\ u.over \in BOOLEAN /\ RowsOK(u.lead, u.rows)
  BY InOrderIs
<1>2. PICK l \in LeadRecords : l = [u.lead EXCEPT !.stopped = TRUE]
  BY <1>1 DEF LeadRecords
<1>3. l.visit = u.lead.visit /\ l.stopped /\ u.lead.visit \in Nat
  BY <1>1, <1>2 DEF LeadRecords
<1>4. RowsOK(u.lead, CancelPending(u.rows)) /\ CancelPending(u.rows) \in Seq(RowRecords)
  BY <1>1, CancelKeeps, CancelIs
<1>5. RowsOK(l, CancelPending(u.rows))
  BY <1>3, <1>4, OtherLead
<1>6. Stopped(u) = [lead |-> l, rows |-> CancelPending(u.rows), moves |-> u.moves, done |-> u.done, over |-> u.over]
  <2>1. Stopped(u) = [u EXCEPT !.lead = l, !.rows = CancelPending(u.rows)]
    BY <1>1, <1>2 DEF Stopped, States
  <2> QED
    BY <1>1, <2>1 DEF States
<1> QED
  BY <1>1, <1>3, <1>4, <1>5, <1>6, StateOf

LEMMA MoveKeeps ==
  ASSUME WorkersInv, NEW u \in InOrder, NEW to \in Stages
  PROVE  MovedTo(u, to) \in InOrder
<1>1. /\ u \in States /\ u.lead \in LeadRecords /\ u.rows \in Seq(RowRecords) /\ u.moves \in Nat
      /\ u.done \subseteq DOMAIN RuleBook /\ u.over \in BOOLEAN /\ RowsOK(u.lead, u.rows)
      /\ (lead.stopped => u.lead.stopped)
  BY InOrderIs
<1>2. PICK l \in LeadRecords : l = [u.lead EXCEPT !.stage = to, !.visit = NextVisit(@)]
  <2>1. u.lead.visit \in Nat
    BY <1>1 DEF LeadRecords
  <2>2. NextVisit(u.lead.visit) \in Nat
    BY <2>1 DEF NextVisit
  <2>3. [u.lead EXCEPT !.stage = to, !.visit = NextVisit(@)] \in LeadRecords
    BY <1>1, <2>2 DEF LeadRecords
  <2> QED
    BY <2>3
<1>3. l.visit = u.lead.visit + 1 /\ l.stopped = u.lead.stopped /\ u.lead.visit \in Nat
  BY <1>1, <1>2 DEF LeadRecords, NextVisit
<1>4. PICK rows \in Seq(RowRecords) : rows = (IF Pipeline[to].stops THEN CancelPending(u.rows) ELSE u.rows)
  BY <1>1, CancelIs
<1>5. RowsOK(u.lead, rows)
  BY <1>1, <1>4, CancelKeeps
<1>6. RowsOK(l, rows)
  BY <1>3, <1>5, OtherLead
<1>7. MovedTo(u, to) = [lead |-> l, rows |-> rows, moves |-> u.moves + 1, done |-> u.done, over |-> u.over]
  <2>1. MovedTo(u, to) = [u EXCEPT !.lead = l, !.moves = u.moves + 1, !.rows = rows]
    BY <1>1, <1>2, <1>4 DEF MovedTo, States
  <2> QED
    BY <1>1, <2>1 DEF States
<1>8. u.moves + 1 \in Nat /\ u.done \in SUBSET DOMAIN RuleBook
  BY <1>1
<1> QED
  BY <1>1, <1>3, <1>6, <1>7, <1>8, StateOf

LEMMA ScheduleKeeps ==
  ASSUME WorkersInv, NEW u \in InOrder, NEW r \in DOMAIN RuleBook
  PROVE  Schedule(u, r) \in InOrder
<1>1. /\ u \in States /\ u.lead \in LeadRecords /\ u.rows \in Seq(RowRecords) /\ u.moves \in Nat
      /\ u.done \subseteq DOMAIN RuleBook /\ u.over \in BOOLEAN /\ RowsOK(u.lead, u.rows)
      /\ (lead.stopped => u.lead.stopped)
  BY InOrderIs
<1> DEFINE Free == /\ ~u.lead.stopped /\ Allows(u, r) /\ Len(u.rows) < MaxPlanned
                   /\ \A f \in DOMAIN u.rows : u.rows[f].status \notin {"pending", "sending"}
<1>2. CASE ~Free
  <2>1. Schedule(u, r) = u
    BY <1>2 DEF Schedule
  <2> QED
    BY <2>1
<1>3. CASE Free
  <2>1. PICK row : row = [rule |-> r, visit |-> u.lead.visit, status |-> "pending", answered |-> FALSE]
    OBVIOUS
  <2>2. row \in RowRecords /\ row.rule = r /\ row.visit = u.lead.visit /\ row.status = "pending"
    BY <1>1, <2>1 DEF RowRecords, LeadRecords
  <2>3. Schedule(u, r) = [u EXCEPT !.rows = Append(u.rows, row)]
    BY <1>3, <2>1 DEF Schedule
  <2>4. Active(u.rows) = {}
    BY <1>3 DEF Active
  <2>5. /\ \A f \in Counted(u.rows) : ~(u.rows[f].rule = r /\ u.rows[f].visit = u.lead.visit)
        /\ Cardinality(Counted(u.rows)) < PerLead /\ Len(u.rows) < MaxPlanned
    BY <1>3 DEF Allows
  <2>6. RowsOK(u.lead, Append(u.rows, row))
    BY <1>1, <2>2, <2>4, <2>5, PlanKeeps
  <2>7. Append(u.rows, row) \in Seq(RowRecords)
    BY <1>1, <2>2
  <2>8. Schedule(u, r) = [lead |-> u.lead, rows |-> Append(u.rows, row), moves |-> u.moves, done |-> u.done,
                          over |-> u.over]
    BY <1>1, <2>3 DEF States
  <2> QED
    BY <1>1, <2>6, <2>7, <2>8, StateOf
<1> QED
  BY <1>2, <1>3

LEMMA RuleKeeps ==
  ASSUME WorkersInv, NEW u \in InOrder, NEW r \in DOMAIN RuleBook, NEW from, NEW event
  PROVE  RunRule(u, r, from, event) \in InOrder
<1> DEFINE book == RuleBook[r]
           moves == /\ book.to # 0 /\ event # "reply_labeled" /\ u.lead.stage = from /\ u.moves < MaxMoves
                    /\ CanAutoMove(from, book.to, book.forward)
           s1 == IF moves THEN MovedTo(u, book.to) ELSE u
           s2 == IF book.stops THEN Stopped(s1) ELSE s1
           s3 == IF book.plans THEN Schedule(s2, r) ELSE s2
<1>1. book.to \in Stages \union {0}
  <2>1. RuleBook[r] \in [on : Triggers, from : Stages \union {0}, to : Stages \union {0},
                        forward : BOOLEAN, plans : BOOLEAN, stops : BOOLEAN]
    <3> DEFINE R == [on : Triggers, from : Stages \union {0}, to : Stages \union {0},
                     forward : BOOLEAN, plans : BOOLEAN, stops : BOOLEAN]
    <3>1. RuleBook \in Seq(R)
      BY CrmLeadAssumption
    <3> HIDE DEF R
    <3>2. RuleBook[r] \in R
      BY <3>1
    <3> QED
      BY <3>2 DEF R
  <2> QED
    BY <2>1
<1>2. s1 \in InOrder
  BY <1>1, MoveKeeps
<1> HIDE DEF s1
<1>3. s2 \in InOrder
  BY <1>2, StopKeeps
<1> HIDE DEF s2
<1>4. s3 \in InOrder
  BY <1>3, ScheduleKeeps
<1>5. RunRule(u, r, from, event) = [s3 EXCEPT !.done = @ \union {r}]
  BY DEF RunRule, s1, s2
<1> HIDE DEF s3
<1>6. /\ s3 \in States /\ s3.lead \in LeadRecords /\ s3.rows \in Seq(RowRecords) /\ s3.moves \in Nat
      /\ s3.done \subseteq DOMAIN RuleBook /\ s3.over \in BOOLEAN
      /\ RowsOK(s3.lead, s3.rows) /\ (lead.stopped => s3.lead.stopped)
  BY <1>4, InOrderIs
<1>7. [s3 EXCEPT !.done = @ \union {r}] =
        [lead |-> s3.lead, rows |-> s3.rows, moves |-> s3.moves, done |-> s3.done \union {r}, over |-> s3.over]
  <2>1. PICK d \in SUBSET DOMAIN RuleBook : d = s3.done \union {r}
    BY <1>6
  <2>2. [s3 EXCEPT !.done = d] =
          [lead |-> s3.lead, rows |-> s3.rows, moves |-> s3.moves, done |-> d, over |-> s3.over]
    BY <1>6 DEF States
  <2> QED
    BY <2>1, <2>2
<1>8. s3.done \union {r} \in SUBSET DOMAIN RuleBook
  BY <1>6
<1>9. [lead |-> s3.lead, rows |-> s3.rows, moves |-> s3.moves, done |-> s3.done \union {r}, over |-> s3.over] \in InOrder
  BY <1>6, <1>8, StateOf
<1> QED
  BY <1>5, <1>7, <1>9

LEMMA PassKeeps ==
  ASSUME WorkersInv, NEW u \in InOrder, NEW matching, NEW event
  PROVE  RunPass(u, matching, event) \in InOrder
<1>1. \A x \in InOrder : \A r \in DOMAIN RuleBook : RunRule(x, r, u.lead.stage, event) \in InOrder
  BY RuleKeeps
<1>2. PICK t : t = RulesRun(u, matching, event)[Len(RuleBook)]
  OBVIOUS
<1>3. t \in InOrder
  BY <1>1, <1>2, RulesRunKeeps
<1>4. /\ t \in States /\ t.lead \in LeadRecords /\ t.rows \in Seq(RowRecords) /\ t.moves \in Nat
      /\ t.done \subseteq DOMAIN RuleBook /\ RowsOK(t.lead, t.rows) /\ (lead.stopped => t.lead.stopped)
  BY <1>3, InOrderIs
<1>5. PICK o \in BOOLEAN : o = (t.lead.stage = u.lead.stage \/ t.moves >= MaxMoves)
  OBVIOUS
<1>6. RunPass(u, matching, event) = IF u.over THEN u ELSE [t EXCEPT !.over = o]
  BY <1>2, <1>5 DEF RunPass
<1>7. [t EXCEPT !.over = o] = [lead |-> t.lead, rows |-> t.rows, moves |-> t.moves, done |-> t.done, over |-> o]
  BY <1>4 DEF States
<1>8. [lead |-> t.lead, rows |-> t.rows, moves |-> t.moves, done |-> t.done, over |-> o] \in InOrder
  BY <1>4, StateOf
<1> QED
  BY <1>6, <1>7, <1>8

\* The rules of an event leave the lead and its rows in order.
LEMMA EventKeeps ==
  ASSUME LeadInv, NEW event, NEW matching
  PROVE  AfterEvent(event, matching) \in InOrder
<1>1. WorkersInv /\ RowsOK(lead, planned) /\ lead \in LeadRecords /\ planned \in Seq(RowRecords)
  BY Typed DEF LeadInv, RowsOK
<1>2. PICK s0 : s0 = [lead |-> lead, rows |-> planned, moves |-> 0, done |-> {}, over |-> FALSE]
  OBVIOUS
<1>3. s0 \in InOrder
  BY <1>1, <1>2, StateOf
<1>4. PICK s1 : s1 = Applied(s0, event)
  OBVIOUS
<1>5. s1 \in InOrder
  <2>1. CASE event \in {"bounced", "unsubscribed"}
    <3>1. s1 = Stopped(s0)
      BY <1>4, <2>1 DEF Applied
    <3> QED
      BY <1>1, <1>3, <3>1, StopKeeps
  <2>2. CASE event = "reply_received"
    <3>1. s1 = [s0 EXCEPT !.rows = CancelPending(@)]
      BY <1>4, <2>2 DEF Applied
    <3>2. s1 = [lead |-> lead, rows |-> CancelPending(planned), moves |-> 0, done |-> {}, over |-> FALSE]
      BY <1>2, <3>1
    <3>3. RowsOK(lead, CancelPending(planned)) /\ CancelPending(planned) \in Seq(RowRecords)
      BY <1>1, CancelKeeps, CancelIs
    <3> QED
      BY <1>1, <3>2, <3>3, StateOf
  <2>3. CASE event \notin {"bounced", "unsubscribed", "reply_received"}
    <3>1. s1 = s0
      BY <1>4, <2>3 DEF Applied
    <3> QED
      BY <1>3, <3>1
  <2> QED
    BY <2>1, <2>2, <2>3
<1>6. PICK s2 : s2 = Passes(s1, matching, event)[MaxMoves + 1]
  OBVIOUS
<1>7. s2 \in InOrder
  <2>1. \A x \in InOrder : RunPass(x, matching, event) \in InOrder
    BY <1>1, PassKeeps
  <2> QED
    BY <1>5, <1>6, <2>1, PassesKeep
<1>8. MoveBounced(s2) \in InOrder
  <2> DEFINE lost == {to \in Stages : Pipeline[to].type = "lost"}
             to == CHOOSE x \in lost : \A y \in lost : x <= y
  <2>1. MoveBounced(s2) = IF s2.moves = 0 /\ lost # {} /\ Pipeline[s2.lead.stage].type # "lost"
                            THEN IF CanAutoMove(s2.lead.stage, to, FALSE) THEN MovedTo(s2, to) ELSE s2
                            ELSE s2
    BY DEF MoveBounced
  <2>2. lost # {} => to \in Stages
    <3>1. lost \in SUBSET Nat /\ lost \subseteq Stages
      BY CrmLeadAssumption DEF Stages
    <3> HIDE DEF lost
    <3>2. lost # {} => \E x \in lost : \A y \in lost : x <= y
      BY <3>1, FirstExists
    <3> QED
      BY <3>1, <3>2
  <2> HIDE DEF to, lost
  <2> QED
    BY <1>1, <1>7, <2>1, <2>2, MoveKeeps
<1>9. AfterEvent(event, matching) = IF event = "bounced" THEN MoveBounced(s2) ELSE s2
  BY <1>2, <1>4, <1>6 DEF AfterEvent
<1> QED
  BY <1>7, <1>8, <1>9

-----------------------------------------------------------------------------
(* Steps of the lead and its owner *)

\* The types of lead and rows as LeadTypeOK states them.
LEMMA TypedRows ==
  ASSUME NEW l, NEW rows, RowsTyped(l, rows)
  PROVE  /\ l \in [stage : Stages, stopped : BOOLEAN, visit : Nat] /\ Len(rows) <= MaxPlanned
         /\ \A f \in DOMAIN rows :
              rows[f] \in [rule : DOMAIN RuleBook, visit : 1 .. l.visit, answered : BOOLEAN,
                           status : {"pending", "sending", "sent", "failed", "cancelled"}]
<1>1. /\ l \in LeadRecords /\ Len(rows) <= MaxPlanned
      /\ \A f \in DOMAIN rows : rows[f] \in RowRecords /\ rows[f].visit \in 1 .. l.visit
  BY Typed
<1>2. ASSUME NEW f \in DOMAIN rows
      PROVE  rows[f] \in [rule : DOMAIN RuleBook, visit : 1 .. l.visit, answered : BOOLEAN,
                          status : {"pending", "sending", "sent", "failed", "cancelled"}]
  <2>1. PICK row \in RowRecords : row = rows[f]
    BY <1>1
  <2>2. row.visit \in 1 .. l.visit
    BY <1>1, <2>1
  <2>3. row \in [rule : DOMAIN RuleBook, visit : 1 .. l.visit, answered : BOOLEAN,
                 status : {"pending", "sending", "sent", "failed", "cancelled"}]
    BY <2>2 DEF RowRecords
  <2> QED
    BY <2>1, <2>3
<1> QED
  BY <1>1, <1>2 DEF LeadRecords

\* A lead and rows that are in order, with the same workers, are the next state's.
LEMMA SameHands ==
  ASSUME UNCHANGED <<worker, mailed, slips>>, RowsOK(lead', planned')
  PROVE  RowsOK(lead, planned)'
<1>1. AtARow' = AtARow /\ Trying' = Trying /\ MailsOut' = MailsOut
  BY DEF AtARow, Trying, MailsOut
<1>2. /\ StillToSend(planned)' = StillToSend(planned') /\ Counted(planned)' = Counted(planned')
      /\ Active(planned)' = Active(planned')
  BY DEF StillToSend, Counted, Active, CheckedOut
<1>3. RowsTyped(lead, planned)'
  BY DEF RowsOK, RowsTyped
<1>4. RowsKnown(planned)'
  BY <1>1 DEF RowsOK, RowsKnown
<1>5. RowsBudget(planned)'
  BY <1>1, <1>2 DEF RowsOK, RowsBudget, Chances, InHand
<1>6. RowsOnce(planned)'
  BY <1>2 DEF RowsOK, RowsOnce
<1> QED
  BY <1>3, <1>4, <1>5, <1>6 DEF RowsOK

\* A lead that begins to want no more has as many mails on their way as there are workers.
LEMMA Silence ==
  ASSUME LeadInv, UNCHANGED <<worker, slips, unwanted>>, lead'.stopped \in BOOLEAN,
         lead.stopped => lead'.stopped, suppressed => suppressed', suppressed' \in BOOLEAN
  PROVE  SilenceInv'
<1>1. /\ Cardinality(Senders) \in Nat /\ Cardinality(AtARow) \in Nat /\ slips \in Nat
      /\ Cardinality(Senders) <= Cardinality(AtARow)
  BY WorkerSets DEF LeadInv
<1>2. InHand(planned) <= 1 + slips /\ Cardinality(StillToSend(planned)) \in Nat
  BY RowSets DEF LeadInv, RowsOK, RowsBudget
<1>3. Cardinality(Senders) <= 1 + slips
  BY <1>1, <1>2 DEF InHand
<1>4. Senders' = Senders
  BY DEF Senders
<1>5. CASE lead.stopped \/ suppressed
  BY <1>4, <1>5 DEF LeadInv, SilenceInv
<1>6. CASE ~(lead.stopped \/ suppressed)
  <2>1. unwanted = 0
    BY <1>6 DEF LeadInv, SilenceInv
  <2> QED
    BY <1>1, <1>3, <1>4, <2>1 DEF SilenceInv
<1> QED
  BY <1>5, <1>6

LEMMA TypeParts ==
  ASSUME LeadInv
  PROVE  /\ suppressed \in BOOLEAN /\ queue \subseteq Triggers
         /\ worker \in [CrmWorkers -> [at : {"idle", "check", "send", "record"}, row : 0 .. MaxPlanned]]
         /\ news \in 0 .. MaxNews /\ slips \in 0 .. MaxMishaps /\ slips \in Nat /\ moved \in BOOLEAN
         /\ mailed \in [1 .. MaxPlanned -> Nat] /\ unwanted \in Nat /\ MaxPlanned \in Nat /\ PerLead \in Nat
         /\ RowsTyped(lead, planned) /\ RowsKnown(planned) /\ RowsBudget(planned) /\ RowsOnce(planned)
BY CrmLeadAssumption DEF LeadInv, WorkersInv, LeadTypeOK, RowsOK

\* A step that leaves the workers alone, and the rows in order.
LEMMA QuietLead ==
  ASSUME LeadInv, UNCHANGED <<worker, mailed, slips, unwanted>>, RowsOK(lead', planned'),
         lead.stopped => lead'.stopped, suppressed => suppressed', suppressed' \in BOOLEAN,
         queue' \subseteq Triggers, news' \in 0 .. MaxNews, moved' \in BOOLEAN
  PROVE  LeadInv'
<1>1. RowsOK(lead, planned)'
  BY SameHands
<1>2. RowsTyped(lead', planned')
  BY DEF RowsOK
<1>3. /\ lead' \in [stage : Stages, stopped : BOOLEAN, visit : Nat] /\ Len(planned') <= MaxPlanned
      /\ \A f \in DOMAIN planned' :
           planned'[f] \in [rule : DOMAIN RuleBook, visit : 1 .. lead'.visit, answered : BOOLEAN,
                            status : {"pending", "sending", "sent", "failed", "cancelled"}]
  BY <1>2, TypedRows
<1>4. LeadTypeOK'
  BY <1>3, TypeParts DEF LeadTypeOK
<1>5. lead'.stopped \in BOOLEAN
  BY <1>2, Typed
<1>6. SilenceInv'
  BY <1>5, Silence
<1>7. AtARow' = AtARow /\ MailsOut' = MailsOut
  BY DEF AtARow, MailsOut
<1>8. \A w \in CrmWorkers : worker'[w].at = "idle" <=> worker'[w].row = 0
  BY DEF LeadInv, WorkersInv
<1>9. IsFiniteSet(AtARow') /\ IsFiniteSet(MailsOut')
  BY <1>7 DEF LeadInv, WorkersInv
<1> QED
  BY <1>1, <1>4, <1>6, <1>8, <1>9 DEF LeadInv, WorkersInv

LEMMA HandleStays ==
  ASSUME LeadInv, NEW event, HandleEvent(event), queue' \subseteq Triggers, news' \in 0 .. MaxNews
  PROVE  LeadInv'
<1>1. PICK s : s \in InOrder /\ lead' = s.lead /\ planned' = s.rows
  BY EventKeeps DEF HandleEvent
<1>2. RowsOK(lead', planned') /\ (lead.stopped => lead'.stopped)
  BY <1>1, InOrderIs
<1>3. UNCHANGED <<suppressed, worker, slips, moved, mailed, unwanted>>
  BY DEF HandleEvent
<1>4. suppressed \in BOOLEAN /\ moved \in BOOLEAN
  BY TypeParts
<1> QED
  BY <1>2, <1>3, <1>4, QuietLead

LEMMA HandleQueuedStays ==
  ASSUME LeadInv, NEW event, HandleQueued(event)
  PROVE  LeadInv'
<1>1. queue' \subseteq Triggers /\ news' \in 0 .. MaxNews /\ HandleEvent(event)
  BY TypeParts DEF HandleQueued
<1> QED
  BY <1>1, HandleStays

LEMMA NewsCount ==
  ASSUME LeadInv, News
  PROVE  news' \in 0 .. MaxNews
BY CrmLeadAssumption, TypeParts DEF News

LEMMA TickStays ==
  ASSUME LeadInv, Tick
  PROVE  LeadInv'
<1>1. queue' \subseteq Triggers /\ HandleEvent("time_tick") /\ News
  BY TypeParts DEF Tick
<1> QED
  BY <1>1, NewsCount, HandleStays

LEMMA LeavesStays ==
  ASSUME LeadInv, NEW event \in {"bounced", "unsubscribed"}, Leaves(event)
  PROVE  LeadInv'
<1>1. queue' \subseteq Triggers /\ News /\ suppressed' = TRUE
      /\ UNCHANGED <<lead, planned, worker, slips, moved, mailed, unwanted>>
  BY TypeParts DEF Leaves, Triggers
<1>2. RowsOK(lead', planned') /\ moved' \in BOOLEAN
  BY <1>1, TypeParts DEF LeadInv
<1> QED
  BY <1>1, <1>2, NewsCount, QuietLead

\* A reply changes nothing that is counted.
LEMMA ReplyStays ==
  ASSUME LeadInv, ReplyArrives
  PROVE  LeadInv'
<1>1. /\ queue' \subseteq Triggers /\ News
      /\ planned' = [f \in DOMAIN planned |-> [planned[f] EXCEPT !.answered = TRUE]]
      /\ UNCHANGED <<lead, suppressed, worker, slips, moved, mailed, unwanted>>
  BY TypeParts DEF ReplyArrives, Triggers
<1>2. /\ planned \in Seq(RowRecords) /\ Len(planned) \in Nat /\ DOMAIN planned = 1 .. Len(planned)
      /\ lead \in LeadRecords /\ lead.visit >= 1 /\ Len(planned) <= MaxPlanned
      /\ \A f \in DOMAIN planned : planned[f] \in RowRecords /\ planned[f].visit \in 1 .. lead.visit
  BY TypeParts, Typed
<1>3. DOMAIN planned' = DOMAIN planned
  BY <1>1
<1>4. ASSUME NEW f \in DOMAIN planned
      PROVE  /\ planned'[f] \in RowRecords /\ planned'[f].rule = planned[f].rule
             /\ planned'[f].visit = planned[f].visit /\ planned'[f].status = planned[f].status
  <2>1. planned'[f] = [planned[f] EXCEPT !.answered = TRUE] /\ planned[f] \in RowRecords
    BY <1>1, <1>2
  <2> QED
    BY <2>1 DEF RowRecords
<1>5. planned' \in Seq(RowRecords) /\ Len(planned') = Len(planned)
  <2>1. planned' = [f \in 1 .. Len(planned) |-> planned'[f]]
    BY <1>1, <1>2
  <2> QED
    BY <1>2, <1>3, <1>4, <2>1
<1>6. RowsTyped(lead, planned')
  <2>1. \A f \in DOMAIN planned' : planned'[f].visit \in 1 .. lead.visit
    BY <1>2, <1>3, <1>4
  <2> QED
    BY <1>2, <1>5, <2>1 DEF RowsTyped
<1>7. RowsKnown(planned')
  BY <1>3, <1>4, TypeParts DEF RowsKnown
<1>8. /\ StillToSend(planned') = StillToSend(planned) /\ Counted(planned') = Counted(planned)
      /\ Active(planned') = Active(planned)
  BY <1>3, <1>4 DEF StillToSend, Counted, Active
<1>9. RowsBudget(planned')
  BY <1>8, TypeParts DEF RowsBudget, Chances, InHand
<1>10. RowsOnce(planned')
  <2>1. Counted(planned) \subseteq DOMAIN planned
    BY DEF Counted
  <2> QED
    BY <1>4, <1>8, <2>1, TypeParts DEF RowsOnce
<1>11. RowsOK(lead', planned') /\ moved' \in BOOLEAN /\ suppressed' \in BOOLEAN
  BY <1>1, <1>6, <1>7, <1>9, <1>10, TypeParts DEF RowsOK
<1> QED
  BY <1>1, <1>11, NewsCount, QuietLead

LEMMA MoveByHandStays ==
  ASSUME LeadInv, NEW to \in Stages, MoveByHand(to)
  PROVE  LeadInv'
<1>1. /\ moved' = TRUE /\ lead' = [lead EXCEPT !.stage = to, !.visit = @ + 1]
      /\ planned' = (IF Pipeline[to].stops THEN CancelPending(planned) ELSE planned)
      /\ UNCHANGED <<suppressed, queue, worker, news, slips, mailed, unwanted>>
  BY DEF MoveByHand
<1>2. lead \in LeadRecords /\ lead.visit \in Nat
  BY TypeParts, Typed
<1>3. PICK l \in LeadRecords : l = lead' /\ lead.visit <= l.visit /\ l.stopped = lead.stopped
  <2>1. lead.visit + 1 \in Nat /\ lead.visit <= lead.visit + 1
    BY <1>2
  <2>2. lead' \in LeadRecords /\ lead'.visit = lead.visit + 1 /\ lead'.stopped = lead.stopped
    BY <1>1, <1>2, <2>1 DEF LeadRecords
  <2> QED
    BY <2>1, <2>2
<1>4. RowsOK(lead, planned')
  BY <1>1, CancelKeeps DEF LeadInv
<1>5. RowsOK(l, planned')
  BY <1>3, <1>4, OtherLead
<1>6. queue \subseteq Triggers /\ news \in 0 .. MaxNews /\ suppressed \in BOOLEAN
  BY TypeParts
<1> QED
  BY <1>1, <1>3, <1>5, <1>6, QuietLead

LEMMA RowsInBounds ==
  ASSUME LeadInv
  PROVE  DOMAIN planned \subseteq 1 .. MaxPlanned /\ 0 \notin DOMAIN planned
<1>1. DOMAIN planned = 1 .. Len(planned) /\ Len(planned) \in Nat /\ Len(planned) <= MaxPlanned /\ MaxPlanned \in Nat
  BY TypeParts, Typed
<1> QED
  BY <1>1

LEMMA Numbers ==
  ASSUME LeadInv
  PROVE  /\ Cardinality(AtARow) \in Nat /\ Cardinality(Trying) \in Nat /\ Cardinality(Senders) \in Nat
         /\ Cardinality(MailsOut) \in Nat /\ Cardinality(StillToSend(planned)) \in Nat
         /\ Cardinality(Counted(planned)) \in Nat /\ Cardinality(Active(planned)) \in Nat
         /\ Chances(planned) \in Nat /\ InHand(planned) \in Nat /\ slips \in Nat /\ PerLead \in Nat
<1>1. WorkersInv
  BY DEF LeadInv
<1>2. /\ Cardinality(AtARow) \in Nat /\ Cardinality(Trying) \in Nat /\ Cardinality(Senders) \in Nat
      /\ Cardinality(MailsOut) \in Nat /\ slips \in Nat
  BY <1>1, WorkerSets
<1>3. RowsTyped(lead, planned) /\ PerLead \in Nat
  BY TypeParts
<1>4. /\ Cardinality(StillToSend(planned)) \in Nat /\ Cardinality(Counted(planned)) \in Nat
      /\ Cardinality(Active(planned)) \in Nat
  BY <1>3, RowSets
<1> QED
  BY <1>2, <1>3, <1>4 DEF Chances, InHand

-----------------------------------------------------------------------------
(* What a row may still come to *)

\* Every row that counts has a mail, a worker or a place in the queue to itself.
LEMMA Share ==
  ASSUME LeadInv, NEW f \in Nat, NEW M \in SUBSET MailsOut, \A m \in M : m[1] = f,
         NEW T \in SUBSET Trying, \A w \in T : worker[w].row = f
  PROVE  /\ Cardinality(M) \in Nat /\ Cardinality(T) \in Nat /\ Cardinality(Counted(planned) \ {f}) \in Nat
         /\ Cardinality(M) + Cardinality(T) + Cardinality(Counted(planned) \ {f}) <= Chances(planned)
<1> DEFINE C == Counted(planned) \ {f}
           A == {m[1] : m \in MailsOut \ M}
           B == {worker[w].row : w \in Trying \ T}
           W == StillToSend(planned)
<1>1. IsFiniteSet(MailsOut) /\ IsFiniteSet(Trying) /\ IsFiniteSet(W)
  BY WorkerSets, RowSets DEF LeadInv, RowsOK
<1>2. /\ Cardinality(MailsOut \ M) = Cardinality(MailsOut) - Cardinality(M) /\ IsFiniteSet(MailsOut \ M)
      /\ Cardinality(MailsOut \ M) \in Nat /\ Cardinality(M) \in Nat /\ Cardinality(MailsOut) \in Nat
  BY <1>1, BothLess
<1>3. /\ Cardinality(Trying \ T) = Cardinality(Trying) - Cardinality(T) /\ IsFiniteSet(Trying \ T)
      /\ Cardinality(Trying \ T) \in Nat /\ Cardinality(T) \in Nat /\ Cardinality(Trying) \in Nat
  BY <1>1, BothLess
<1>4. /\ IsFiniteSet(A) /\ Cardinality(A) <= Cardinality(MailsOut \ M) /\ Cardinality(A) \in Nat
  <2>1. PICK h : h = [m \in MailsOut \ M |-> m[1]]
    OBVIOUS
  <2>2. DOMAIN h = MailsOut \ M /\ A = {h[m] : m \in MailsOut \ M}
    BY <2>1
  <2> HIDE DEF A
  <2> QED
    BY <1>2, <2>2, ImageOf
<1>5. /\ IsFiniteSet(B) /\ Cardinality(B) <= Cardinality(Trying \ T) /\ Cardinality(B) \in Nat
  <2>1. PICK h : h = [w \in Trying \ T |-> worker[w].row]
    OBVIOUS
  <2>2. DOMAIN h = Trying \ T /\ B = {h[w] : w \in Trying \ T}
    BY <2>1
  <2> HIDE DEF B
  <2> QED
    BY <1>3, <2>2, ImageOf
<1>6. C \subseteq (A \union B) \union W
  <2> SUFFICES ASSUME NEW g \in C
               PROVE  g \in A \/ g \in B \/ g \in W
    OBVIOUS
  <2>1. /\ g \in DOMAIN planned /\ g # f /\ g \in 1 .. MaxPlanned /\ g # 0
        /\ planned[g].status \in {"pending", "sending", "sent"}
    <3>1. /\ DOMAIN planned = 1 .. Len(planned) /\ Len(planned) \in Nat /\ Len(planned) <= MaxPlanned
          /\ \A i \in DOMAIN planned : planned[i].status \in {"pending", "sending", "sent", "failed", "cancelled"}
      BY TypeParts, Typed
    <3>2. MaxPlanned \in Nat
      BY TypeParts
    <3> QED
      BY <3>1, <3>2 DEF Counted
  <2>2. mailed[g] > 0 => g \in A
    <3> SUFFICES ASSUME mailed[g] > 0
                 PROVE  g \in A
      OBVIOUS
    <3>1. mailed[g] \in Nat
      BY <2>1, TypeParts
    <3>2. <<g, 1>> \in MailsOut
      BY <2>1, <3>1 DEF MailsOut
    <3>3. <<g, 1>> \notin M
      BY <2>1
    <3>4. \E m \in MailsOut \ M : m[1] = g
      BY <3>2, <3>3
    <3> QED
      BY <3>4
  <2>3. CASE planned[g].status = "sent"
    BY <2>1, <2>2, <2>3, TypeParts DEF RowsKnown
  <2>4. CASE planned[g].status = "pending"
    BY <2>1, <2>4 DEF StillToSend
  <2>5. CASE planned[g].status = "sending" /\ ~CheckedOut(g)
    BY <2>1, <2>5 DEF StillToSend
  <2>6. CASE planned[g].status = "sending" /\ CheckedOut(g)
    <3>1. PICK w \in CrmWorkers : worker[w].row = g
      BY <2>6 DEF CheckedOut
    <3>2. worker[w].at \in {"idle", "check", "send", "record"} /\ worker[w].at # "idle"
      BY <2>1, <3>1, TypeParts DEF LeadInv, WorkersInv
    <3>3. CASE worker[w].at = "record"
      BY <2>2, <3>1, <3>3, TypeParts DEF RowsKnown
    <3>4. CASE worker[w].at \in {"check", "send"}
      <4>1. w \in Trying \ T
        BY <2>1, <3>1, <3>4 DEF Trying
      <4> QED
        BY <3>1, <4>1
    <3> QED
      BY <3>2, <3>3, <3>4
  <2> QED
    BY <2>1, <2>3, <2>4, <2>5, <2>6
<1> HIDE DEF A, B, W, C
<1>7. /\ IsFiniteSet(A \union B) /\ Cardinality(A \union B) \in Nat
      /\ Cardinality(A \union B) <= Cardinality(A) + Cardinality(B)
  <2>1. /\ IsFiniteSet(A \union B)
        /\ Cardinality(A \union B) = Cardinality(A) + Cardinality(B) - Cardinality(A \intersect B)
    BY <1>4, <1>5, FS_Union
  <2>2. IsFiniteSet(A \intersect B) /\ Cardinality(A \intersect B) \in Nat
    BY <1>4, NoMore
  <2> QED
    BY <1>4, <1>5, <2>1, <2>2, FS_CardinalityType
<1>8. /\ IsFiniteSet((A \union B) \union W) /\ Cardinality((A \union B) \union W) \in Nat /\ Cardinality(W) \in Nat
      /\ Cardinality((A \union B) \union W) <= Cardinality(A \union B) + Cardinality(W)
  <2>1. /\ IsFiniteSet((A \union B) \union W)
        /\ Cardinality((A \union B) \union W)
             = Cardinality(A \union B) + Cardinality(W) - Cardinality((A \union B) \intersect W)
    BY <1>1, <1>7, FS_Union
  <2>2. IsFiniteSet((A \union B) \intersect W) /\ Cardinality((A \union B) \intersect W) \in Nat
    BY <1>7, NoMore
  <2> QED
    BY <1>1, <1>7, <2>1, <2>2, FS_CardinalityType
<1>9. Cardinality(C) \in Nat /\ Cardinality(C) <= Cardinality((A \union B) \union W)
  BY <1>6, <1>8, NoMore
<1>10. Chances(planned) = Cardinality(MailsOut) + Cardinality(Trying) + Cardinality(W)
  BY DEF Chances, W
<1>11. /\ Cardinality(M) \in Nat /\ Cardinality(T) \in Nat /\ Cardinality(C) \in Nat
       /\ Cardinality(M) + Cardinality(T) + Cardinality(C) <= Chances(planned)
  BY <1>2, <1>3, <1>4, <1>5, <1>7, <1>8, <1>9, <1>10
<1> QED
  BY <1>11 DEF C

\* As long as there was no mishap, what is mailed or tried counts; a mishap makes for one mail more.
LEMMA TriedCounts ==
  ASSUME LeadInv, slips = 0, NEW w \in Trying
  PROVE  worker[w].row \in Counted(planned)
<1> SUFFICES ASSUME worker[w].row \notin Counted(planned)
             PROVE  FALSE
  OBVIOUS
<1>1. worker[w].row \in Nat
  BY TypeParts DEF Trying
<1>2. /\ Cardinality({}) + Cardinality({w}) + Cardinality(Counted(planned) \ {worker[w].row}) <= Chances(planned)
      /\ Cardinality(Counted(planned) \ {worker[w].row}) \in Nat
  <2>1. /\ {} \in SUBSET MailsOut /\ {w} \in SUBSET Trying
        /\ \A m \in {} : m[1] = worker[w].row
        /\ \A v \in {w} : worker[v].row = worker[w].row
    OBVIOUS
  <2> DEFINE none == {}
             alone == {w}
  <2>2. /\ none \in SUBSET MailsOut /\ (\A m \in none : m[1] = worker[w].row)
        /\ alone \in SUBSET Trying /\ (\A v \in alone : worker[v].row = worker[w].row)
    BY <2>1
  <2>3. /\ Cardinality(none) + Cardinality(alone) + Cardinality(Counted(planned) \ {worker[w].row})
             <= Chances(planned)
        /\ Cardinality(Counted(planned) \ {worker[w].row}) \in Nat
    <3> HIDE DEF none, alone
    <3> QED
      BY <1>1, <2>2, Share
  <2> QED
    BY <2>3
<1>3. Cardinality({}) = 0 /\ Cardinality({w}) = 1
  BY FS_EmptySet, FS_Singleton
<1>4. PICK n \in Nat : n = Cardinality(Counted(planned)) /\ n = Cardinality(Counted(planned) \ {worker[w].row})
  <2>1. Counted(planned) \ {worker[w].row} = Counted(planned)
    OBVIOUS
  <2> QED
    BY <1>2, <2>1
<1>5. Chances(planned) <= n
  BY <1>4, TypeParts DEF RowsBudget
<1>6. Chances(planned) \in Nat
  BY WorkerSets, RowSets DEF LeadInv, RowsOK, Chances
<1> QED
  BY <1>2, <1>3, <1>4, <1>5, <1>6

LEMMA MailedCounts ==
  ASSUME LeadInv, NEW f \in 1 .. MaxPlanned
  PROVE  mailed[f] \in Nat /\ mailed[f] <= 1 + slips /\ (slips = 0 /\ mailed[f] > 0 => f \in Counted(planned))
<1>0. mailed[f] \in Nat /\ slips \in Nat /\ f \in Nat
  BY TypeParts
<1> DEFINE M == {m \in MailsOut : m[1] = f}
           C == Counted(planned)
<1>1. /\ Cardinality(M) + Cardinality({}) + Cardinality(C \ {f}) <= Chances(planned)
      /\ Cardinality(M) \in Nat /\ Cardinality(C \ {f}) \in Nat
  <2>1. M \in SUBSET MailsOut /\ \A m \in M : m[1] = f
    OBVIOUS
  <2>2. PICK T \in SUBSET Trying : T = {}
    OBVIOUS
  <2> HIDE DEF M
  <2>3. /\ Cardinality(M) + Cardinality(T) + Cardinality(C \ {f}) <= Chances(planned)
        /\ Cardinality(M) \in Nat /\ Cardinality(C \ {f}) \in Nat
    <3>1. \A w \in T : worker[w].row = f
      BY <2>2
    <3> QED
      BY <1>0, <2>1, <3>1, Share
  <2> QED
    BY <2>2, <2>3
<1>2. mailed[f] <= Cardinality(M)
  <2>1. IsFiniteSet(M)
    BY WorkerSets, NoMore DEF LeadInv
  <2>2. 1 .. mailed[f] \subseteq {m[2] : m \in M}
    <3> SUFFICES ASSUME NEW i \in 1 .. mailed[f]
                 PROVE  \E m \in M : m[2] = i
      OBVIOUS
    <3>1. <<f, i>> \in MailsOut
      BY <1>0 DEF MailsOut
    <3>2. <<f, i>> \in M
      BY <3>1
    <3> QED
      BY <3>2
  <2> DEFINE I == {m[2] : m \in M}
  <2>3. IsFiniteSet(I) /\ Cardinality(I) <= Cardinality(M)
    <3>1. PICK h : h = [m \in M |-> m[2]]
      OBVIOUS
    <3>2. DOMAIN h = M /\ I = {h[m] : m \in M}
      BY <3>1
    <3> HIDE DEF I, M
    <3> QED
      BY <2>1, <3>2, ImageOf
  <2> HIDE DEF M, I
  <2>4. 1 .. mailed[f] \subseteq I
    BY <2>2 DEF I
  <2>5. Cardinality(1 .. mailed[f]) <= Cardinality(I) /\ Cardinality(I) \in Nat
    BY <2>3, <2>4, NoMore
  <2>6. Cardinality(1 .. mailed[f]) = mailed[f]
    <3>1. 1 \in Int /\ mailed[f] \in Int
      BY <1>0
    <3>2. Cardinality(1 .. mailed[f]) = IF 1 > mailed[f] THEN 0 ELSE mailed[f] - 1 + 1
      BY <3>1, FS_Interval
    <3> QED
      BY <1>0, <3>2
  <2> QED
    BY <1>0, <1>1, <2>3, <2>5, <2>6
<1> HIDE DEF M
<1>3. Cardinality({}) = 0
  BY FS_EmptySet
<1>4. Chances(planned) <= Cardinality(C) + slips /\ Chances(planned) \in Nat
  BY TypeParts, WorkerSets, RowSets DEF LeadInv, RowsOK, RowsBudget, Chances
<1>5. IsFiniteSet(C) /\ Cardinality(C) \in Nat
  BY TypeParts, RowSets
<1>6. Cardinality(C \ {f}) = IF f \in C THEN Cardinality(C) - 1 ELSE Cardinality(C)
  BY <1>5, FS_RemoveElement
<1> QED
  BY <1>0, <1>1, <1>2, <1>3, <1>4, <1>5, <1>6

-----------------------------------------------------------------------------
(* Steps of the workers *)

RowStatuses == {"pending", "sending", "sent", "failed", "cancelled"}
Places == {"idle", "check", "send", "record"}

LEMMA SetStatusIs ==
  ASSUME LeadInv, NEW f \in DOMAIN planned, NEW st \in RowStatuses, SetStatus(f, st)
  PROVE  /\ RowsTyped(lead, planned') /\ DOMAIN planned' = DOMAIN planned /\ planned'[f].status = st
         /\ \A g \in DOMAIN planned : /\ planned'[g].rule = planned[g].rule /\ planned'[g].visit = planned[g].visit
                                      /\ g # f => planned'[g] = planned[g]
<1>1. /\ planned \in Seq(RowRecords) /\ Len(planned) \in Nat /\ DOMAIN planned = 1 .. Len(planned)
      /\ lead \in LeadRecords /\ lead.visit >= 1 /\ Len(planned) <= MaxPlanned
      /\ \A g \in DOMAIN planned : planned[g] \in RowRecords /\ planned[g].visit \in 1 .. lead.visit
  BY TypeParts, Typed
<1>2. PICK row : row = [planned[f] EXCEPT !.status = st]
  OBVIOUS
<1>3. row \in RowRecords /\ row.status = st /\ row.rule = planned[f].rule /\ row.visit = planned[f].visit
  <2>1. planned[f] \in RowRecords
    BY <1>1
  <2> QED
    BY <1>2, <2>1 DEF RowRecords, RowStatuses
<1>4. planned' = [planned EXCEPT ![f] = row]
  BY <1>2 DEF SetStatus
<1>5. /\ DOMAIN planned' = DOMAIN planned /\ planned'[f] = row
      /\ \A g \in DOMAIN planned : g # f => planned'[g] = planned[g]
  BY <1>4
<1>6. planned' \in Seq(RowRecords) /\ Len(planned') = Len(planned)
  BY <1>1, <1>3, <1>4
<1>7. \A g \in DOMAIN planned : planned'[g].rule = planned[g].rule /\ planned'[g].visit = planned[g].visit
  BY <1>3, <1>5
<1>8. \A g \in DOMAIN planned' : planned'[g].visit \in 1 .. lead.visit
  BY <1>1, <1>5, <1>7
<1>9. RowsTyped(lead, planned')
  BY <1>1, <1>6, <1>8 DEF RowsTyped
<1> QED
  BY <1>3, <1>5, <1>7, <1>9

LEMMA GoToIs ==
  ASSUME LeadInv, NEW w \in CrmWorkers, NEW place \in Places, NEW f \in 0 .. MaxPlanned, GoTo(w, place, f)
  PROVE  /\ worker' \in [CrmWorkers -> [at : Places, row : 0 .. MaxPlanned]]
         /\ worker'[w].at = place /\ worker'[w].row = f
         /\ \A v \in CrmWorkers : v # w => worker'[v] = worker[v]
<1>1. worker \in [CrmWorkers -> [at : Places, row : 0 .. MaxPlanned]]
  BY TypeParts DEF Places
<1>2. PICK h : h = [at |-> place, row |-> f]
  OBVIOUS
<1>3. h \in [at : Places, row : 0 .. MaxPlanned] /\ h.at = place /\ h.row = f
  BY <1>2
<1>4. worker' = [worker EXCEPT ![w] = h]
  BY <1>2 DEF GoTo
<1> QED
  BY <1>1, <1>3, <1>4

\* A worker in hand of a row has one, and a row is no 0.
LEMMA InHandIs ==
  ASSUME LeadInv, NEW w \in CrmWorkers, worker[w].at # "idle"
  PROVE  /\ worker[w].row \in DOMAIN planned /\ worker[w].row # 0 /\ worker[w].row \in 1 .. MaxPlanned
         /\ w \in AtARow /\ CheckedOut(worker[w].row)
         /\ worker[w].at \in {"check", "send"} => w \in Trying
<1>1. w \in AtARow /\ worker[w].row # 0
  BY DEF LeadInv, WorkersInv, AtARow
<1>2. worker[w].row \in DOMAIN planned
  BY <1>1, TypeParts DEF RowsKnown
<1>3. DOMAIN planned \subseteq 1 .. MaxPlanned
  BY RowsInBounds
<1> QED
  BY <1>1, <1>2, <1>3 DEF CheckedOut, Trying

\* Who goes, and who stays.
LEMMA HandsOf ==
  ASSUME LeadInv, NEW w \in CrmWorkers, NEW place \in Places, NEW f \in 0 .. MaxPlanned, GoTo(w, place, f)
  PROVE  /\ AtARow' = IF place = "idle" THEN AtARow \ {w} ELSE AtARow \union {w}
         /\ Trying' = IF place \in {"check", "send"} THEN Trying \union {w} ELSE Trying \ {w}
         /\ Senders' = IF place = "send" THEN Senders \union {w} ELSE Senders \ {w}
         /\ \A g \in 1 .. MaxPlanned : g # worker[w].row /\ g # f => (CheckedOut(g)' <=> CheckedOut(g))
         /\ f # 0 => CheckedOut(f)'
<1>1. /\ worker'[w].at = place /\ worker'[w].row = f /\ \A v \in CrmWorkers : v # w => worker'[v] = worker[v]
  BY GoToIs
<1>2. AtARow' = IF place = "idle" THEN AtARow \ {w} ELSE AtARow \union {w}
  BY <1>1 DEF AtARow
<1>3. Trying' = IF place \in {"check", "send"} THEN Trying \union {w} ELSE Trying \ {w}
  BY <1>1 DEF Trying
<1>4. Senders' = IF place = "send" THEN Senders \union {w} ELSE Senders \ {w}
  BY <1>1 DEF Senders
<1>5. ASSUME NEW g \in 1 .. MaxPlanned, g # worker[w].row, g # f
      PROVE  CheckedOut(g)' <=> CheckedOut(g)
  BY <1>1, <1>5 DEF CheckedOut
<1>6. CheckedOut(f)'
  BY <1>1 DEF CheckedOut
<1> QED
  BY <1>2, <1>3, <1>4, <1>5, <1>6

\* A step of a worker that keeps what is counted keeps everything.
LEMMA WorkerStep ==
  ASSUME LeadInv, UNCHANGED <<lead, suppressed, news, moved>>, queue' \subseteq Triggers,
         RowsTyped(lead, planned'), RowsKnown(planned)', RowsBudget(planned)', RowsOnce(planned)', SilenceInv',
         worker' \in [CrmWorkers -> [at : Places, row : 0 .. MaxPlanned]],
         \A w \in CrmWorkers : worker'[w].at = "idle" <=> worker'[w].row = 0,
         slips' \in 0 .. MaxMishaps, mailed' \in [1 .. MaxPlanned -> Nat], unwanted' \in Nat,
         IsFiniteSet(AtARow'), IsFiniteSet(MailsOut')
  PROVE  LeadInv'
<1>1. /\ lead' \in [stage : Stages, stopped : BOOLEAN, visit : Nat] /\ Len(planned') <= MaxPlanned
      /\ \A f \in DOMAIN planned' :
           planned'[f] \in [rule : DOMAIN RuleBook, visit : 1 .. lead'.visit, answered : BOOLEAN,
                            status : {"pending", "sending", "sent", "failed", "cancelled"}]
  BY TypedRows
<1>2. LeadTypeOK'
  BY <1>1, TypeParts DEF LeadTypeOK, Places
<1>3. RowsTyped(lead, planned)'
  BY DEF RowsTyped
<1> QED
  BY <1>2, <1>3 DEF LeadInv, WorkersInv, RowsOK

LEMMA SlipCount ==
  ASSUME LeadInv, Slip
  PROVE  slips' = slips + 1 /\ slips' \in 0 .. MaxMishaps
BY CrmLeadAssumption, TypeParts DEF Slip

\* As long as there is no mishap, the rows that count are the ones that counted.
LEMMA OnceStays ==
  ASSUME LeadInv, slips <= slips', slips' \in Nat,
         slips' = 0 => Counted(planned)' \subseteq Counted(planned),
         \A g \in DOMAIN planned : planned'[g].rule = planned[g].rule /\ planned'[g].visit = planned[g].visit
  PROVE  RowsOnce(planned)'
<1>1. slips \in Nat /\ RowsOnce(planned) /\ Counted(planned) \subseteq DOMAIN planned
  BY TypeParts DEF Counted
<1> SUFFICES ASSUME slips' = 0, NEW f \in Counted(planned)', NEW g \in Counted(planned)',
                    planned'[f].rule = planned'[g].rule, planned'[f].visit = planned'[g].visit
             PROVE  f = g
  BY DEF RowsOnce
<1>2. slips = 0 /\ f \in Counted(planned) /\ g \in Counted(planned)
  BY <1>1
<1> QED
  BY <1>1, <1>2 DEF RowsOnce

LEMMA CountedFrom ==
  ASSUME LeadInv, NEW f \in DOMAIN planned, NEW st \in RowStatuses, SetStatus(f, st)
  PROVE  /\ Counted(planned)' = IF st \in {"cancelled", "failed"} THEN Counted(planned) \ {f}
                                ELSE Counted(planned) \union {f}
         /\ Cardinality(Counted(planned)) \in Nat /\ Cardinality(Counted(planned)') \in Nat
         /\ Cardinality(Counted(planned)) <= Cardinality(Counted(planned)') + 1
         /\ st \in {"pending", "sending", "sent"} => Cardinality(Counted(planned)) <= Cardinality(Counted(planned)')
         /\ Cardinality(Active(planned)) \in Nat /\ Cardinality(Active(planned)') \in Nat
         /\ Cardinality(Active(planned)) <= Cardinality(Active(planned)') + 1
         /\ st \in {"pending", "sending"} => Cardinality(Active(planned)) <= Cardinality(Active(planned)')
<1>1. /\ DOMAIN planned' = DOMAIN planned /\ planned'[f].status = st
      /\ \A g \in DOMAIN planned : g # f => planned'[g] = planned[g]
  BY SetStatusIs
<1> DEFINE C == Counted(planned)
           D == Counted(planned)'
           A == Active(planned)
           B == Active(planned)'
<1>2. D = IF st \in {"cancelled", "failed"} THEN C \ {f} ELSE C \union {f}
  BY <1>1 DEF Counted, RowStatuses
<1>3. B = IF st \in {"pending", "sending"} THEN A \union {f} ELSE A \ {f}
  BY <1>1 DEF Active
<1>4. IsFiniteSet(C) /\ IsFiniteSet(A)
  BY TypeParts, RowSets
<1> HIDE DEF A, B, C, D
<1>5. IsFiniteSet(D)
  BY <1>2, <1>4, FS_AddElement, FS_RemoveElement
<1>6. IsFiniteSet(B)
  BY <1>3, <1>4, FS_AddElement, FS_RemoveElement
<1>7. C \subseteq D \union {f} /\ (st \in {"pending", "sending", "sent"} => C \subseteq D)
  BY <1>2
<1>8. A \subseteq B \union {f} /\ (st \in {"pending", "sending"} => A \subseteq B)
  BY <1>3
<1>9. /\ Cardinality(C) \in Nat /\ Cardinality(D) \in Nat /\ Cardinality(C) <= Cardinality(D) + 1
      /\ st \in {"pending", "sending", "sent"} => Cardinality(C) <= Cardinality(D)
  BY <1>5, <1>7, OneMore, NoMore
<1>10. /\ Cardinality(A) \in Nat /\ Cardinality(B) \in Nat /\ Cardinality(A) <= Cardinality(B) + 1
       /\ st \in {"pending", "sending"} => Cardinality(A) <= Cardinality(B)
  BY <1>6, <1>8, OneMore, NoMore
<1> QED
  BY <1>2, <1>9, <1>10 DEF A, B, C, D

LEMMA WaitingFrom ==
  ASSUME LeadInv, NEW f \in DOMAIN planned, NEW st \in RowStatuses, SetStatus(f, st),
         \A g \in 1 .. MaxPlanned : g # f => (CheckedOut(g)' <=> CheckedOut(g))
  PROVE  /\ StillToSend(planned)' \subseteq StillToSend(planned) \union {f}
         /\ st \in {"sent", "failed", "cancelled"} \/ (st = "sending" /\ CheckedOut(f)')
              => StillToSend(planned)' \subseteq StillToSend(planned) \ {f}
<1>1. /\ DOMAIN planned' = DOMAIN planned /\ planned'[f].status = st
      /\ \A g \in DOMAIN planned : g # f => planned'[g] = planned[g]
  BY SetStatusIs
<1>2. DOMAIN planned \subseteq 1 .. MaxPlanned
  BY RowsInBounds
<1>3. \A g \in DOMAIN planned : g # f => (g \in StillToSend(planned)' <=> g \in StillToSend(planned))
  BY <1>1, <1>2 DEF StillToSend
<1>4. StillToSend(planned)' \subseteq DOMAIN planned
  BY <1>1 DEF StillToSend
<1>5. st \in {"sent", "failed", "cancelled"} \/ (st = "sending" /\ CheckedOut(f)') => f \notin StillToSend(planned)'
  BY <1>1 DEF StillToSend
<1> QED
  BY <1>3, <1>4, <1>5

LEMMA BudgetStays ==
  ASSUME LeadInv, NEW d \in {0, 1}, slips' = slips + d,
         Chances(planned)' \in Int, InHand(planned)' \in Int,
         Cardinality(Counted(planned)') \in Nat, Cardinality(Active(planned)') \in Nat,
         Chances(planned)' <= Chances(planned) + d, InHand(planned)' <= InHand(planned) + d,
         Chances(planned)' + Cardinality(Counted(planned)) <= Chances(planned) + Cardinality(Counted(planned)') + d,
         InHand(planned)' + Cardinality(Active(planned)) <= InHand(planned) + Cardinality(Active(planned)') + d
  PROVE  RowsBudget(planned)'
<1>1. /\ Chances(planned) \in Nat /\ InHand(planned) \in Nat /\ slips \in Nat /\ PerLead \in Nat
      /\ Cardinality(Counted(planned)) \in Nat /\ Cardinality(Active(planned)) \in Nat
  BY Numbers
<1>2. RowsBudget(planned)
  BY TypeParts
<1>3. PICK c \in Nat : c = Cardinality(Counted(planned))
  BY <1>1
<1>4. PICK a \in Nat : a = Cardinality(Active(planned))
  BY <1>1
<1>5. PICK c2 \in Nat : c2 = Cardinality(Counted(planned)')
  OBVIOUS
<1>6. PICK a2 \in Nat : a2 = Cardinality(Active(planned)')
  OBVIOUS
<1>7. PICK x \in Nat : x = Chances(planned)
  BY <1>1
<1>8. PICK y \in Nat : y = InHand(planned)
  BY <1>1
<1>9. PICK x2 \in Int : x2 = Chances(planned)'
  OBVIOUS
<1>10. PICK y2 \in Int : y2 = InHand(planned)'
  OBVIOUS
<1>11. x <= c + slips /\ x <= PerLead + slips /\ y <= a + slips /\ y <= 1 + slips
  BY <1>2, <1>3, <1>4, <1>7, <1>8 DEF RowsBudget
<1>12. x2 <= x + d /\ y2 <= y + d /\ x2 + c <= x + c2 + d /\ y2 + a <= y + a2 + d
  BY <1>3, <1>4, <1>5, <1>6, <1>7, <1>8, <1>9, <1>10
<1>13. x2 <= c2 + slips' /\ x2 <= PerLead + slips' /\ y2 <= a2 + slips' /\ y2 <= 1 + slips'
  BY <1>1, <1>11, <1>12
<1> QED
  BY <1>5, <1>6, <1>9, <1>10, <1>13 DEF RowsBudget

LEMMA SilenceStays ==
  ASSUME LeadInv, UNCHANGED <<lead, suppressed, unwanted>>, slips <= slips', slips' \in Nat,
         Cardinality(Senders') \in Nat, Cardinality(Senders') <= Cardinality(Senders)
  PROVE  SilenceInv'
<1>1. slips \in Nat /\ Cardinality(Senders) \in Nat /\ unwanted \in Nat
  BY TypeParts, Numbers
<1>2. CASE lead.stopped \/ suppressed
  <2>1. unwanted + Cardinality(Senders) <= 1 + slips
    BY <1>2 DEF LeadInv, SilenceInv
  <2>2. unwanted' + Cardinality(Senders') <= 1 + slips'
    BY <1>1, <2>1
  <2>3. (lead.stopped \/ suppressed)'
    BY <1>2
  <2> QED
    BY <2>2, <2>3 DEF SilenceInv
<1>3. CASE ~(lead.stopped \/ suppressed)
  <2>1. unwanted = 0
    BY <1>3 DEF LeadInv, SilenceInv
  <2>2. ~(lead.stopped \/ suppressed)'
    BY <1>3
  <2> QED
    BY <2>1, <2>2 DEF SilenceInv
<1> QED
  BY <1>2, <1>3

LEMMA KnownHands ==
  ASSUME LeadInv
  PROVE  /\ AtARow \subseteq CrmWorkers /\ \A v \in AtARow : worker[v].row \in DOMAIN planned
         /\ \A v \in CrmWorkers : worker[v].at = "record" => mailed[worker[v].row] > 0
         /\ \A f \in 1 .. MaxPlanned : mailed[f] > 0 => f \in DOMAIN planned
         /\ \A f \in DOMAIN planned : planned[f].status = "sent" => mailed[f] > 0
BY TypeParts DEF RowsKnown, AtARow

\* A row in hand goes back, although a worker may still have it.
LEMMA RecoverStays ==
  ASSUME LeadInv, NEW w \in CrmWorkers, NEW f \in DOMAIN planned, RecoverFollowUp(w, f)
  PROVE  LeadInv'
<1>1. /\ SetStatus(f, "pending") /\ planned[f].status = "sending" /\ (IF CheckedOut(f) THEN Slip ELSE UNCHANGED slips)
      /\ UNCHANGED <<lead, suppressed, queue, worker, news, moved, mailed, unwanted>>
  BY DEF RecoverFollowUp
<1>2. "pending" \in RowStatuses
  BY DEF RowStatuses
<1>3. AtARow' = AtARow /\ Trying' = Trying /\ Senders' = Senders /\ MailsOut' = MailsOut
  BY <1>1 DEF AtARow, Trying, Senders, MailsOut
<1>4. \A g \in 1 .. MaxPlanned : g # f => (CheckedOut(g)' <=> CheckedOut(g))
  BY <1>1 DEF CheckedOut
<1>5. PICK d \in {0, 1} : slips' = slips + d /\ slips' \in 0 .. MaxMishaps /\ (~CheckedOut(f) => d = 0) /\ (CheckedOut(f) => d = 1)
  BY <1>1, SlipCount, TypeParts
<1>6. /\ RowsTyped(lead, planned') /\ DOMAIN planned' = DOMAIN planned /\ planned'[f].status = "pending"
      /\ \A g \in DOMAIN planned : /\ planned'[g].rule = planned[g].rule /\ planned'[g].visit = planned[g].visit
                                   /\ g # f => planned'[g] = planned[g]
  BY <1>1, <1>2, SetStatusIs
<1>7. /\ Cardinality(StillToSend(planned)') \in Nat
      /\ Cardinality(StillToSend(planned)') <= Cardinality(StillToSend(planned)) + d
  <2>1. StillToSend(planned)' \subseteq StillToSend(planned) \union {f}
    BY <1>1, <1>2, <1>4, WaitingFrom
  <2>2. ~CheckedOut(f) => f \in StillToSend(planned)
    BY <1>1 DEF StillToSend
  <2>3. IsFiniteSet(StillToSend(planned))
    BY TypeParts, RowSets
  <2>4. CASE CheckedOut(f)
    BY <1>5, <2>1, <2>3, <2>4, OneMore
  <2>5. CASE ~CheckedOut(f)
    <3>1. StillToSend(planned)' \subseteq StillToSend(planned)
      BY <2>1, <2>2, <2>5
    <3>2. /\ Cardinality(StillToSend(planned)') \in Nat
          /\ Cardinality(StillToSend(planned)') <= Cardinality(StillToSend(planned))
      BY <2>3, <3>1, NoMore
    <3> QED
      BY <1>5, <2>5, <3>2, Numbers
  <2> QED
    BY <2>4, <2>5
<1>8. /\ Counted(planned)' = Counted(planned) \union {f}
      /\ Cardinality(Counted(planned)') \in Nat /\ Cardinality(Counted(planned)) <= Cardinality(Counted(planned)')
      /\ Cardinality(Active(planned)') \in Nat /\ Cardinality(Active(planned)) <= Cardinality(Active(planned)')
  BY <1>1, <1>2, CountedFrom
<1>9. RowsBudget(planned)'
  <2>1. /\ Chances(planned)' = Cardinality(MailsOut) + Cardinality(Trying) + Cardinality(StillToSend(planned)')
        /\ InHand(planned)' = Cardinality(AtARow) + Cardinality(StillToSend(planned)')
        /\ Chances(planned) = Cardinality(MailsOut) + Cardinality(Trying) + Cardinality(StillToSend(planned))
        /\ InHand(planned) = Cardinality(AtARow) + Cardinality(StillToSend(planned))
    BY <1>3 DEF Chances, InHand
  <2> QED
    BY <1>5, <1>7, <1>8, <2>1, Numbers, BudgetStays
<1>10. RowsOnce(planned)'
  <2>1. Counted(planned)' \subseteq Counted(planned)
    BY <1>1, <1>8 DEF Counted
  <2>2. slips <= slips' /\ slips' \in Nat
    BY <1>5, TypeParts
  <2> QED
    BY <1>6, <2>1, <2>2, OnceStays
<1>11. RowsKnown(planned)'
  <2>1. \A g \in DOMAIN planned' : planned'[g].status = "sent" => planned[g].status = "sent"
    BY <1>6
  <2> QED
    BY <1>1, <1>3, <1>6, <2>1, TypeParts DEF RowsKnown
<1>12. SilenceInv'
  <2>1. slips <= slips' /\ slips' \in Nat
    BY <1>5, TypeParts
  <2>2. Cardinality(Senders') \in Nat /\ Cardinality(Senders') <= Cardinality(Senders)
    BY <1>3, Numbers
  <2> QED
    BY <1>1, <2>1, <2>2, SilenceStays
<1>13. /\ worker' \in [CrmWorkers -> [at : Places, row : 0 .. MaxPlanned]]
       /\ \A v \in CrmWorkers : worker'[v].at = "idle" <=> worker'[v].row = 0
       /\ mailed' \in [1 .. MaxPlanned -> Nat] /\ unwanted' \in Nat /\ IsFiniteSet(AtARow') /\ IsFiniteSet(MailsOut')
       /\ queue' \subseteq Triggers
  BY <1>1, <1>3, TypeParts DEF LeadInv, WorkersInv, Places
<1> QED
  BY <1>1, <1>5, <1>6, <1>9, <1>10, <1>11, <1>12, <1>13, WorkerStep

\* A waiting row is taken.
LEMMA ClaimStays ==
  ASSUME LeadInv, NEW w \in CrmWorkers, NEW f \in DOMAIN planned, ClaimFollowUp(w, f)
  PROVE  LeadInv'
<1>1. /\ worker[w].at = "idle" /\ planned[f].status = "pending" /\ SetStatus(f, "sending") /\ GoTo(w, "check", f)
      /\ UNCHANGED <<lead, suppressed, queue, news, slips, moved, mailed, unwanted>>
  BY DEF ClaimFollowUp, MayClaim
<1>2. "sending" \in RowStatuses /\ "check" \in Places /\ f \in 1 .. MaxPlanned /\ f \in 0 .. MaxPlanned /\ f # 0
  BY RowsInBounds, TypeParts DEF RowStatuses, Places
<1>3. /\ worker' \in [CrmWorkers -> [at : Places, row : 0 .. MaxPlanned]]
      /\ worker'[w].at = "check" /\ worker'[w].row = f
      /\ \A v \in CrmWorkers : v # w => worker'[v] = worker[v]
  BY <1>1, <1>2, GoToIs
<1>4. worker[w].row = 0 /\ w \notin AtARow
  BY <1>1 DEF LeadInv, WorkersInv, AtARow
<1>5. /\ AtARow' = AtARow \union {w} /\ Trying' = Trying \union {w} /\ Senders' = Senders \ {w}
      /\ \A g \in 1 .. MaxPlanned : g # f => (CheckedOut(g)' <=> CheckedOut(g))
      /\ CheckedOut(f)'
  BY <1>1, <1>2, <1>4, HandsOf
<1>6. /\ RowsTyped(lead, planned') /\ DOMAIN planned' = DOMAIN planned /\ planned'[f].status = "sending"
      /\ \A g \in DOMAIN planned : /\ planned'[g].rule = planned[g].rule /\ planned'[g].visit = planned[g].visit
                                   /\ g # f => planned'[g] = planned[g]
  BY <1>1, <1>2, SetStatusIs
<1>7. /\ Cardinality(StillToSend(planned)') \in Nat
      /\ Cardinality(StillToSend(planned)') <= Cardinality(StillToSend(planned)) - 1
  <2>1. StillToSend(planned)' \subseteq StillToSend(planned) \ {f}
    BY <1>1, <1>2, <1>5, WaitingFrom
  <2>2. f \in StillToSend(planned) /\ IsFiniteSet(StillToSend(planned))
    BY <1>1, TypeParts, RowSets DEF StillToSend
  <2> QED
    BY <2>1, <2>2, OneLess
<1>8. /\ Counted(planned)' = Counted(planned) \union {f}
      /\ Cardinality(Counted(planned)') \in Nat /\ Cardinality(Counted(planned)) <= Cardinality(Counted(planned)')
      /\ Cardinality(Active(planned)') \in Nat /\ Cardinality(Active(planned)) <= Cardinality(Active(planned)')
  BY <1>1, <1>2, CountedFrom
<1>a. /\ IsFiniteSet(AtARow') /\ Cardinality(AtARow') \in Nat /\ Cardinality(AtARow') <= Cardinality(AtARow) + 1
      /\ Cardinality(Trying') \in Nat /\ Cardinality(Trying') <= Cardinality(Trying) + 1
      /\ Cardinality(Senders') \in Nat /\ Cardinality(Senders') <= Cardinality(Senders)
  <2>1. IsFiniteSet(AtARow) /\ IsFiniteSet(Trying) /\ IsFiniteSet(Senders)
    BY WorkerSets DEF LeadInv
  <2>2. AtARow' \subseteq AtARow \union {w} /\ Trying' \subseteq Trying \union {w} /\ Senders' \subseteq Senders
    BY <1>5
  <2> QED
    BY <2>1, <2>2, OneMore, NoMore
<1>b. MailsOut' = MailsOut
  BY <1>1 DEF MailsOut
<1>9. RowsBudget(planned)'
  <2>1. /\ Chances(planned)' = Cardinality(MailsOut) + Cardinality(Trying') + Cardinality(StillToSend(planned)')
        /\ InHand(planned)' = Cardinality(AtARow') + Cardinality(StillToSend(planned)')
        /\ Chances(planned) = Cardinality(MailsOut) + Cardinality(Trying) + Cardinality(StillToSend(planned))
        /\ InHand(planned) = Cardinality(AtARow) + Cardinality(StillToSend(planned))
    BY <1>b DEF Chances, InHand
  <2>2. slips' = slips + 0
    BY <1>1, TypeParts
  <2> QED
    BY <1>7, <1>8, <1>a, <2>1, <2>2, Numbers, BudgetStays
<1>10. RowsOnce(planned)'
  <2>1. Counted(planned)' \subseteq Counted(planned)
    BY <1>1, <1>8 DEF Counted
  <2>2. slips <= slips' /\ slips' \in Nat
    BY <1>1, TypeParts
  <2> QED
    BY <1>6, <2>1, <2>2, OnceStays
<1>11. RowsKnown(planned)'
  <2>1. \A g \in DOMAIN planned' : planned'[g].status = "sent" => planned[g].status = "sent"
    BY <1>6
  <2>2. \A v \in AtARow' : worker'[v].row \in DOMAIN planned
    BY <1>3, <1>5, KnownHands
  <2>3. \A v \in CrmWorkers : worker'[v].at = "record" => mailed[worker'[v].row] > 0
    BY <1>3, KnownHands
  <2> QED
    BY <1>1, <1>6, <2>1, <2>2, <2>3, KnownHands DEF RowsKnown
<1>12. SilenceInv'
  <2>1. slips <= slips' /\ slips' \in Nat
    BY <1>1, TypeParts
  <2> QED
    BY <1>1, <1>a, <2>1, SilenceStays
<1>13. /\ \A v \in CrmWorkers : worker'[v].at = "idle" <=> worker'[v].row = 0
       /\ mailed' \in [1 .. MaxPlanned -> Nat] /\ unwanted' \in Nat /\ IsFiniteSet(MailsOut')
       /\ queue' \subseteq Triggers /\ slips' \in 0 .. MaxMishaps
  BY <1>1, <1>2, <1>3, <1>b, TypeParts DEF LeadInv, WorkersInv
<1> QED
  BY <1>1, <1>3, <1>6, <1>9, <1>10, <1>11, <1>12, <1>13, <1>a, WorkerStep

\* A row that is let go before its mail, for good or for another time.
LetGo(w, st) == SetStatus(worker[w].row, st) /\ Leave(w)

LEMMA LetGoStays ==
  ASSUME LeadInv, NEW w \in CrmWorkers, worker[w].at \in {"check", "send"},
         NEW st \in {"cancelled", "failed", "pending"}, LetGo(w, st),
         UNCHANGED <<lead, suppressed, queue, news, slips, moved, mailed, unwanted>>
  PROVE  LeadInv'
<1>f. PICK f : f = worker[w].row
  OBVIOUS
<1>1. /\ f \in DOMAIN planned /\ f # 0 /\ f \in 1 .. MaxPlanned /\ w \in AtARow /\ w \in Trying
  BY <1>f, InHandIs
<1>2. /\ st \in RowStatuses /\ SetStatus(f, st) /\ GoTo(w, "idle", 0) /\ "idle" \in Places /\ 0 \in 0 .. MaxPlanned
  BY <1>f, TypeParts DEF RowStatuses, Places, LetGo, Leave
<1>3. /\ worker' \in [CrmWorkers -> [at : Places, row : 0 .. MaxPlanned]]
      /\ worker'[w].at = "idle" /\ worker'[w].row = 0
      /\ \A v \in CrmWorkers : v # w => worker'[v] = worker[v]
  BY <1>2, GoToIs
<1>5. /\ AtARow' = AtARow \ {w} /\ Trying' = Trying \ {w} /\ Senders' = Senders \ {w}
      /\ \A g \in 1 .. MaxPlanned : g # f => (CheckedOut(g)' <=> CheckedOut(g))
  BY <1>2, <1>f, HandsOf
<1>6. /\ RowsTyped(lead, planned') /\ DOMAIN planned' = DOMAIN planned /\ planned'[f].status = st
      /\ \A g \in DOMAIN planned : /\ planned'[g].rule = planned[g].rule /\ planned'[g].visit = planned[g].visit
                                   /\ g # f => planned'[g] = planned[g]
  BY <1>1, <1>2, SetStatusIs
<1>7. /\ Cardinality(StillToSend(planned)') \in Nat
      /\ Cardinality(StillToSend(planned)') <= Cardinality(StillToSend(planned)) + 1
      /\ st # "pending" => Cardinality(StillToSend(planned)') <= Cardinality(StillToSend(planned))
  <2>1. /\ StillToSend(planned)' \subseteq StillToSend(planned) \union {f}
        /\ st # "pending" => StillToSend(planned)' \subseteq StillToSend(planned) \ {f}
    BY <1>1, <1>2, <1>5, WaitingFrom
  <2>2. IsFiniteSet(StillToSend(planned))
    BY TypeParts, RowSets
  <2>3. /\ Cardinality(StillToSend(planned)') \in Nat
        /\ Cardinality(StillToSend(planned)') <= Cardinality(StillToSend(planned)) + 1
    BY <2>1, <2>2, OneMore
  <2>4. ASSUME st # "pending"
        PROVE  Cardinality(StillToSend(planned)') <= Cardinality(StillToSend(planned))
    <3>1. StillToSend(planned)' \subseteq StillToSend(planned)
      BY <2>1, <2>4
    <3> QED
      BY <2>2, <3>1, NoMore
  <2> QED
    BY <2>3, <2>4
<1>8. /\ Counted(planned)' = IF st \in {"cancelled", "failed"} THEN Counted(planned) \ {f}
                             ELSE Counted(planned) \union {f}
      /\ Cardinality(Counted(planned)') \in Nat /\ Cardinality(Active(planned)') \in Nat
      /\ Cardinality(Counted(planned)) <= Cardinality(Counted(planned)') + 1
      /\ Cardinality(Active(planned)) <= Cardinality(Active(planned)') + 1
      /\ st = "pending" => /\ Cardinality(Counted(planned)) <= Cardinality(Counted(planned)')
                           /\ Cardinality(Active(planned)) <= Cardinality(Active(planned)')
  BY <1>1, <1>2, CountedFrom
<1>a. /\ IsFiniteSet(AtARow') /\ Cardinality(AtARow') \in Nat /\ Cardinality(AtARow') <= Cardinality(AtARow) - 1
      /\ Cardinality(Trying') \in Nat /\ Cardinality(Trying') <= Cardinality(Trying) - 1
      /\ Cardinality(Senders') \in Nat /\ Cardinality(Senders') <= Cardinality(Senders)
  <2>1. IsFiniteSet(AtARow) /\ IsFiniteSet(Trying) /\ IsFiniteSet(Senders)
    BY WorkerSets DEF LeadInv
  <2>2. AtARow' \subseteq AtARow \ {w} /\ Trying' \subseteq Trying \ {w} /\ Senders' \subseteq Senders
    BY <1>5
  <2> QED
    BY <1>1, <2>1, <2>2, OneLess, NoMore
<1>b. MailsOut' = MailsOut
  BY DEF MailsOut
<1>9. RowsBudget(planned)'
  <2>1. /\ Chances(planned)' = Cardinality(MailsOut) + Cardinality(Trying') + Cardinality(StillToSend(planned)')
        /\ InHand(planned)' = Cardinality(AtARow') + Cardinality(StillToSend(planned)')
        /\ Chances(planned) = Cardinality(MailsOut) + Cardinality(Trying) + Cardinality(StillToSend(planned))
        /\ InHand(planned) = Cardinality(AtARow) + Cardinality(StillToSend(planned))
    BY <1>b DEF Chances, InHand
  <2>2. slips' = slips + 0
    BY TypeParts
  <2>3. /\ Chances(planned)' <= Chances(planned) /\ InHand(planned)' <= InHand(planned)
        /\ Chances(planned)' \in Int /\ InHand(planned)' \in Int
    BY <1>7, <1>a, <2>1, Numbers
  <2>4. /\ Chances(planned)' + Cardinality(Counted(planned)) <= Chances(planned) + Cardinality(Counted(planned)')
        /\ InHand(planned)' + Cardinality(Active(planned)) <= InHand(planned) + Cardinality(Active(planned)')
    <3>1. CASE st = "pending"
      BY <1>7, <1>8, <1>a, <2>1, <3>1, Numbers
    <3>2. CASE st # "pending"
      BY <1>7, <1>8, <1>a, <2>1, <3>2, Numbers
    <3> QED
      BY <3>1, <3>2
  <2> QED
    BY <1>8, <2>2, <2>3, <2>4, Numbers, BudgetStays
<1>10. RowsOnce(planned)'
  <2>1. slips' = 0 => f \in Counted(planned)
    BY <1>1, <1>f, TriedCounts
  <2>2. slips' = 0 => Counted(planned)' \subseteq Counted(planned)
    BY <1>8, <2>1
  <2>3. slips <= slips' /\ slips' \in Nat
    BY TypeParts
  <2> QED
    BY <1>6, <2>2, <2>3, OnceStays
<1>11. RowsKnown(planned)'
  <2>1. \A g \in DOMAIN planned' : planned'[g].status = "sent" => planned[g].status = "sent"
    BY <1>6
  <2>2. \A v \in AtARow' : worker'[v].row \in DOMAIN planned
    BY <1>3, <1>5, KnownHands
  <2>3. \A v \in CrmWorkers : worker'[v].at = "record" => mailed[worker'[v].row] > 0
    BY <1>3, KnownHands
  <2> QED
    BY <1>6, <2>1, <2>2, <2>3, KnownHands DEF RowsKnown
<1>12. SilenceInv'
  <2>1. slips <= slips' /\ slips' \in Nat
    BY TypeParts
  <2> QED
    BY <1>a, <2>1, SilenceStays
<1>13. /\ \A v \in CrmWorkers : worker'[v].at = "idle" <=> worker'[v].row = 0
       /\ mailed' \in [1 .. MaxPlanned -> Nat] /\ unwanted' \in Nat /\ IsFiniteSet(MailsOut')
       /\ queue' \subseteq Triggers /\ slips' \in 0 .. MaxMishaps
  BY <1>3, <1>b, TypeParts DEF LeadInv, WorkersInv
<1> QED
  BY <1>3, <1>6, <1>9, <1>10, <1>11, <1>12, <1>13, <1>a, WorkerStep

\* A step of a worker that leaves the rows alone.
LEMMA RowsStay ==
  ASSUME LeadInv, UNCHANGED planned
  PROVE  /\ RowsTyped(lead, planned') /\ Counted(planned)' = Counted(planned) /\ Active(planned)' = Active(planned)
BY TypeParts DEF Counted, Active

\* The checks let a row pass to the mail only if the lead wants it.
LEMMA PassCheckStays ==
  ASSUME LeadInv, NEW w \in CrmWorkers, worker[w].at = "check", ~Blocked(worker[w].row), GoTo(w, "send", worker[w].row),
         UNCHANGED <<planned, lead, suppressed, queue, news, slips, moved, mailed, unwanted>>
  PROVE  LeadInv'
<1>f. PICK f : f = worker[w].row
  OBVIOUS
<1>1. /\ f \in DOMAIN planned /\ f # 0 /\ f \in 1 .. MaxPlanned /\ w \in AtARow /\ w \in Trying /\ CheckedOut(f)
  BY <1>f, InHandIs
<1>2. "send" \in Places /\ f \in 0 .. MaxPlanned /\ GoTo(w, "send", f)
  BY <1>1, <1>f, TypeParts DEF Places
<1>3. /\ worker' \in [CrmWorkers -> [at : Places, row : 0 .. MaxPlanned]]
      /\ worker'[w].at = "send" /\ worker'[w].row = f
      /\ \A v \in CrmWorkers : v # w => worker'[v] = worker[v]
  BY <1>2, GoToIs
<1>5. /\ AtARow' = AtARow /\ Trying' = Trying /\ MailsOut' = MailsOut
      /\ \A g \in 1 .. MaxPlanned : CheckedOut(g)' <=> CheckedOut(g)
  <2>1. /\ AtARow' = AtARow \union {w} /\ Trying' = Trying \union {w} /\ CheckedOut(f)'
        /\ \A g \in 1 .. MaxPlanned : g # f => (CheckedOut(g)' <=> CheckedOut(g))
    BY <1>1, <1>2, <1>f, HandsOf
  <2>2. MailsOut' = MailsOut
    BY DEF MailsOut
  <2> QED
    BY <1>1, <2>1, <2>2
<1>6. RowsTyped(lead, planned') /\ Counted(planned)' = Counted(planned) /\ Active(planned)' = Active(planned)
  BY RowsStay
<1>7. StillToSend(planned)' = StillToSend(planned)
  <2>1. DOMAIN planned \subseteq 1 .. MaxPlanned
    BY RowsInBounds
  <2> QED
    BY <1>5, <2>1 DEF StillToSend
<1>9. RowsBudget(planned)'
  BY <1>5, <1>6, <1>7, TypeParts DEF RowsBudget, Chances, InHand
<1>10. RowsOnce(planned)'
  BY <1>6, TypeParts DEF RowsOnce
<1>11. RowsKnown(planned)'
  <2>1. \A v \in AtARow' : worker'[v].row \in DOMAIN planned
    BY <1>1, <1>3, <1>5, KnownHands
  <2>2. \A v \in CrmWorkers : worker'[v].at = "record" => mailed[worker'[v].row] > 0
    BY <1>3, KnownHands
  <2> QED
    BY <2>1, <2>2, KnownHands DEF RowsKnown
<1>12. SilenceInv'
  <2>1. ~lead.stopped /\ ~suppressed
    BY DEF Blocked
  <2> QED
    BY <2>1 DEF LeadInv, SilenceInv
<1>13. /\ \A v \in CrmWorkers : worker'[v].at = "idle" <=> worker'[v].row = 0
       /\ mailed' \in [1 .. MaxPlanned -> Nat] /\ unwanted' \in Nat /\ IsFiniteSet(MailsOut') /\ IsFiniteSet(AtARow')
       /\ queue' \subseteq Triggers /\ slips' \in 0 .. MaxMishaps
  BY <1>1, <1>3, <1>5, TypeParts DEF LeadInv, WorkersInv
<1> QED
  BY <1>3, <1>6, <1>9, <1>10, <1>11, <1>12, <1>13, WorkerStep

LEMMA CheckStays ==
  ASSUME LeadInv, NEW w \in CrmWorkers, CheckFollowUp(w)
  PROVE  LeadInv'
<1>1. /\ worker[w].at = "check" /\ worker[w].at \in {"check", "send"}
      /\ UNCHANGED <<lead, suppressed, queue, news, slips, moved, mailed, unwanted>>
      /\ \/ \E st \in {"cancelled", "failed", "pending"} : LetGo(w, st)
         \/ ~Blocked(worker[w].row) /\ GoTo(w, "send", worker[w].row) /\ UNCHANGED planned
  BY DEF CheckFollowUp, LetGo
<1>2. CASE \E st \in {"cancelled", "failed", "pending"} : LetGo(w, st)
  BY <1>1, <1>2, LetGoStays
<1>3. CASE ~Blocked(worker[w].row) /\ GoTo(w, "send", worker[w].row) /\ UNCHANGED planned
  BY <1>1, <1>3, PassCheckStays
<1> QED
  BY <1>1, <1>2, <1>3

\* A mail goes out.
LEMMA MailStays ==
  ASSUME LeadInv, NEW w \in CrmWorkers, worker[w].at = "send",
         mailed' = [mailed EXCEPT ![worker[w].row] = @ + 1],
         unwanted' = (IF lead.stopped \/ suppressed THEN unwanted + 1 ELSE unwanted),
         GoTo(w, "record", worker[w].row),
         UNCHANGED <<planned, lead, suppressed, queue, news, slips, moved>>
  PROVE  LeadInv'
<1>f. PICK f : f = worker[w].row
  OBVIOUS
<1>1. /\ f \in DOMAIN planned /\ f # 0 /\ f \in 1 .. MaxPlanned /\ w \in AtARow /\ w \in Trying /\ CheckedOut(f)
  BY <1>f, InHandIs
<1>2. "record" \in Places /\ f \in 0 .. MaxPlanned /\ GoTo(w, "record", f)
  BY <1>1, <1>f, TypeParts DEF Places
<1>3. /\ worker' \in [CrmWorkers -> [at : Places, row : 0 .. MaxPlanned]]
      /\ worker'[w].at = "record" /\ worker'[w].row = f
      /\ \A v \in CrmWorkers : v # w => worker'[v] = worker[v]
  BY <1>2, GoToIs
<1>4. PICK n \in Nat : n = mailed[f]
  BY <1>1, TypeParts
<1>5. /\ mailed' \in [1 .. MaxPlanned -> Nat] /\ mailed'[f] = n + 1
      /\ \A g \in 1 .. MaxPlanned : g # f => mailed'[g] = mailed[g]
  <2>1. mailed' = [mailed EXCEPT ![f] = n + 1]
    BY <1>f, <1>4
  <2>2. mailed \in [1 .. MaxPlanned -> Nat] /\ n + 1 \in Nat
    BY <1>4, TypeParts
  <2> QED
    BY <1>1, <2>1, <2>2
<1>6. /\ AtARow' = AtARow /\ Trying' = Trying \ {w} /\ Senders' = Senders \ {w} /\ w \in Senders
      /\ \A g \in 1 .. MaxPlanned : CheckedOut(g)' <=> CheckedOut(g)
  <2>1. /\ AtARow' = AtARow \union {w} /\ Trying' = Trying \ {w} /\ Senders' = Senders \ {w} /\ CheckedOut(f)'
        /\ \A g \in 1 .. MaxPlanned : g # f => (CheckedOut(g)' <=> CheckedOut(g))
    BY <1>1, <1>2, <1>f, HandsOf
  <2> QED
    BY <1>1, <2>1 DEF Senders
<1>7. MailsOut' \subseteq MailsOut \union {<<f, n + 1>>}
  <2> SUFFICES ASSUME NEW m \in MailsOut'
               PROVE  m \in MailsOut \/ m = <<f, n + 1>>
    OBVIOUS
  <2>1. m \in (1 .. MaxPlanned) \X Nat /\ m[2] \in 1 .. mailed'[m[1]]
    BY DEF MailsOut
  <2>2. PICK g \in 1 .. MaxPlanned, i \in Nat : m = <<g, i>>
    BY <2>1
  <2>3. i \in 1 .. mailed'[g]
    BY <2>1, <2>2
  <2>4. CASE g # f
    BY <1>5, <2>2, <2>3, <2>4 DEF MailsOut
  <2>5. CASE g = f
    <3>1. i \in 1 .. n \/ i = n + 1
      BY <1>5, <2>3, <2>5
    <3>2. i \in 1 .. n => m \in MailsOut
      BY <1>4, <2>2, <2>5 DEF MailsOut
    <3> QED
      BY <2>2, <2>5, <3>1, <3>2
  <2> QED
    BY <2>4, <2>5
<1>8. /\ IsFiniteSet(MailsOut') /\ Cardinality(MailsOut') \in Nat /\ Cardinality(MailsOut') <= Cardinality(MailsOut) + 1
      /\ Cardinality(Trying') \in Nat /\ Cardinality(Trying') <= Cardinality(Trying) - 1
      /\ Cardinality(Senders') \in Nat /\ Cardinality(Senders') <= Cardinality(Senders) - 1
  <2>1. IsFiniteSet(MailsOut) /\ IsFiniteSet(Trying) /\ IsFiniteSet(Senders)
    BY WorkerSets DEF LeadInv
  <2>2. Trying' \subseteq Trying \ {w} /\ Senders' \subseteq Senders \ {w}
    BY <1>6
  <2> QED
    BY <1>1, <1>6, <1>7, <2>1, <2>2, OneMore, OneLess
<1>a. RowsTyped(lead, planned') /\ Counted(planned)' = Counted(planned) /\ Active(planned)' = Active(planned)
  BY RowsStay
<1>b. StillToSend(planned)' = StillToSend(planned)
  <2>1. DOMAIN planned \subseteq 1 .. MaxPlanned
    BY RowsInBounds
  <2> QED
    BY <1>6, <2>1 DEF StillToSend
<1>9. RowsBudget(planned)'
  <2>1. /\ Chances(planned)' = Cardinality(MailsOut') + Cardinality(Trying') + Cardinality(StillToSend(planned))
        /\ InHand(planned)' = Cardinality(AtARow) + Cardinality(StillToSend(planned))
        /\ Chances(planned) = Cardinality(MailsOut) + Cardinality(Trying) + Cardinality(StillToSend(planned))
        /\ InHand(planned) = Cardinality(AtARow) + Cardinality(StillToSend(planned))
    BY <1>6, <1>b DEF Chances, InHand
  <2>2. slips' = slips + 0
    BY TypeParts
  <2> QED
    BY <1>8, <1>a, <2>1, <2>2, Numbers, BudgetStays
<1>10. RowsOnce(planned)'
  BY <1>a, TypeParts DEF RowsOnce
<1>11. RowsKnown(planned)'
  <2>1. \A v \in AtARow' : worker'[v].row \in DOMAIN planned
    BY <1>1, <1>3, <1>6, KnownHands
  <2>2. \A g \in 1 .. MaxPlanned : mailed[g] > 0 => mailed'[g] > 0
    BY <1>4, <1>5
  <2>3. \A v \in CrmWorkers : worker'[v].at = "record" => mailed'[worker'[v].row] > 0
    <3> SUFFICES ASSUME NEW v \in CrmWorkers, worker'[v].at = "record"
                 PROVE  mailed'[worker'[v].row] > 0
      OBVIOUS
    <3>1. CASE v = w
      BY <1>3, <1>5, <3>1
    <3>2. CASE v # w
      <4>1. worker'[v] = worker[v] /\ worker[v].at # "idle" /\ mailed[worker[v].row] > 0
        BY <1>3, <3>2, KnownHands
      <4>2. worker[v].row \in 1 .. MaxPlanned
        BY <4>1, InHandIs
      <4> QED
        BY <2>2, <4>1, <4>2
    <3> QED
      BY <3>1, <3>2
  <2>4. \A g \in 1 .. MaxPlanned : mailed'[g] > 0 => g \in DOMAIN planned
    BY <1>1, <1>5, KnownHands
  <2>5. \A g \in DOMAIN planned : planned[g].status = "sent" => mailed'[g] > 0
    BY <2>2, KnownHands, RowsInBounds
  <2> QED
    BY <2>1, <2>3, <2>4, <2>5 DEF RowsKnown
<1>12. SilenceInv'
  <2>1. slips \in Nat /\ unwanted \in Nat /\ Cardinality(Senders) \in Nat
    BY TypeParts, Numbers
  <2>2. CASE lead.stopped \/ suppressed
    <3>1. unwanted + Cardinality(Senders) <= 1 + slips /\ unwanted' = unwanted + 1
      BY <2>2 DEF LeadInv, SilenceInv
    <3>2. unwanted' + Cardinality(Senders') <= 1 + slips'
      BY <1>8, <2>1, <3>1
    <3>3. (lead.stopped \/ suppressed)'
      BY <2>2
    <3> QED
      BY <3>2, <3>3 DEF SilenceInv
  <2>3. CASE ~(lead.stopped \/ suppressed)
    <3>1. unwanted = 0 /\ unwanted' = unwanted
      BY <2>3 DEF LeadInv, SilenceInv
    <3>2. ~(lead.stopped \/ suppressed)'
      BY <2>3
    <3> QED
      BY <3>1, <3>2 DEF SilenceInv
  <2> QED
    BY <2>2, <2>3
<1>13. /\ \A v \in CrmWorkers : worker'[v].at = "idle" <=> worker'[v].row = 0
       /\ unwanted' \in Nat /\ IsFiniteSet(AtARow')
       /\ queue' \subseteq Triggers /\ slips' \in 0 .. MaxMishaps
  <2>1. \A v \in CrmWorkers : worker'[v].at = "idle" <=> worker'[v].row = 0
    BY <1>1, <1>3 DEF LeadInv, WorkersInv
  <2>2. unwanted' \in Nat
    <3>1. unwanted \in Nat /\ unwanted + 1 \in Nat
      BY TypeParts
    <3> QED
      BY <3>1
  <2>3. IsFiniteSet(AtARow')
    BY <1>6 DEF LeadInv, WorkersInv
  <2> QED
    BY <2>1, <2>2, <2>3, TypeParts
<1> QED
  BY <1>3, <1>5, <1>8, <1>a, <1>9, <1>10, <1>11, <1>12, <1>13, WorkerStep

LEMMA SendStays ==
  ASSUME LeadInv, NEW w \in CrmWorkers, SendFollowUp(w)
  PROVE  LeadInv'
<1>1. worker[w].at = "send" /\ UNCHANGED <<lead, suppressed, queue, news, slips, moved>>
  BY DEF SendFollowUp
<1>2. \/ /\ mailed' = [mailed EXCEPT ![worker[w].row] = @ + 1]
         /\ unwanted' = IF lead.stopped \/ suppressed THEN unwanted + 1 ELSE unwanted
         /\ GoTo(w, "record", worker[w].row) /\ UNCHANGED planned
      \/ LetGo(w, "failed") /\ UNCHANGED <<mailed, unwanted>>
  BY DEF SendFollowUp, LetGo
<1>3. CASE LetGo(w, "failed") /\ UNCHANGED <<mailed, unwanted>>
  <2>1. worker[w].at \in {"check", "send"} /\ "failed" \in {"cancelled", "failed", "pending"}
    BY <1>1
  <2> QED
    BY <1>1, <1>3, <2>1, LetGoStays
<1>4. CASE /\ mailed' = [mailed EXCEPT ![worker[w].row] = @ + 1]
           /\ unwanted' = IF lead.stopped \/ suppressed THEN unwanted + 1 ELSE unwanted
           /\ GoTo(w, "record", worker[w].row) /\ UNCHANGED planned
  BY <1>1, <1>4, MailStays
<1> QED
  BY <1>2, <1>3, <1>4

\* The mail is entered, or its row is lost.
LEMMA RecordStays ==
  ASSUME LeadInv, NEW w \in CrmWorkers, RecordFollowUp(w)
  PROVE  LeadInv'
<1>f. PICK f : f = worker[w].row
  OBVIOUS
<1>0. worker[w].at = "record" /\ UNCHANGED <<lead, suppressed, news, moved, mailed, unwanted>>
  BY DEF RecordFollowUp
<1>1. /\ f \in DOMAIN planned /\ f # 0 /\ f \in 1 .. MaxPlanned /\ w \in AtARow /\ w \notin Trying /\ w \notin Senders
      /\ mailed[f] > 0
  BY <1>0, <1>f, InHandIs, KnownHands DEF Trying, Senders
<1>2. PICK st \in {"sent", "failed"}, d \in {0, 1} :
        /\ SetStatus(f, st) /\ slips' = slips + d /\ slips' \in 0 .. MaxMishaps /\ (st = "failed" <=> d = 1)
  <2>1. CASE SetStatus(f, "sent") /\ UNCHANGED slips
    <3>1. slips' = slips + 0
      BY <2>1, TypeParts
    <3> QED
      BY <2>1, <3>1, TypeParts
  <2>2. CASE SetStatus(f, "failed") /\ Slip
    BY <2>2, SlipCount
  <2> QED
    BY <1>f, <2>1, <2>2 DEF RecordFollowUp
<1>e. GoTo(w, "idle", 0) /\ "idle" \in Places /\ 0 \in 0 .. MaxPlanned /\ st \in RowStatuses /\ queue' \subseteq Triggers
  <2>1. "follow_up_sent" \in Triggers
    BY DEF Triggers
  <2> QED
    BY <2>1, TypeParts DEF RecordFollowUp, Leave, Places, RowStatuses
<1>3. /\ worker' \in [CrmWorkers -> [at : Places, row : 0 .. MaxPlanned]]
      /\ worker'[w].at = "idle" /\ worker'[w].row = 0
      /\ \A v \in CrmWorkers : v # w => worker'[v] = worker[v]
  BY <1>e, GoToIs
<1>5. /\ AtARow' = AtARow \ {w} /\ Trying' = Trying /\ Senders' = Senders /\ MailsOut' = MailsOut
      /\ \A g \in 1 .. MaxPlanned : g # f => (CheckedOut(g)' <=> CheckedOut(g))
  <2>1. /\ AtARow' = AtARow \ {w} /\ Trying' = Trying \ {w} /\ Senders' = Senders \ {w}
        /\ \A g \in 1 .. MaxPlanned : g # f => (CheckedOut(g)' <=> CheckedOut(g))
    BY <1>e, <1>f, HandsOf
  <2>2. MailsOut' = MailsOut
    BY <1>0 DEF MailsOut
  <2> QED
    BY <1>1, <2>1, <2>2
<1>6. /\ RowsTyped(lead, planned') /\ DOMAIN planned' = DOMAIN planned /\ planned'[f].status = st
      /\ \A g \in DOMAIN planned : /\ planned'[g].rule = planned[g].rule /\ planned'[g].visit = planned[g].visit
                                   /\ g # f => planned'[g] = planned[g]
  BY <1>1, <1>2, <1>e, SetStatusIs
<1>7. /\ Cardinality(StillToSend(planned)') \in Nat
      /\ Cardinality(StillToSend(planned)') <= Cardinality(StillToSend(planned))
  <2>1. StillToSend(planned)' \subseteq StillToSend(planned) \ {f}
    BY <1>1, <1>2, <1>5, <1>e, WaitingFrom
  <2>2. IsFiniteSet(StillToSend(planned))
    BY TypeParts, RowSets
  <2>3. StillToSend(planned)' \subseteq StillToSend(planned)
    BY <2>1
  <2> QED
    BY <2>2, <2>3, NoMore
<1>8. /\ Counted(planned)' = IF st = "failed" THEN Counted(planned) \ {f} ELSE Counted(planned) \union {f}
      /\ Cardinality(Counted(planned)') \in Nat /\ Cardinality(Active(planned)') \in Nat
      /\ Cardinality(Counted(planned)) <= Cardinality(Counted(planned)') + 1
      /\ Cardinality(Active(planned)) <= Cardinality(Active(planned)') + 1
      /\ st = "sent" => Cardinality(Counted(planned)) <= Cardinality(Counted(planned)')
  BY <1>1, <1>2, <1>e, CountedFrom
<1>a. IsFiniteSet(AtARow') /\ Cardinality(AtARow') \in Nat /\ Cardinality(AtARow') <= Cardinality(AtARow) - 1
  <2>1. IsFiniteSet(AtARow)
    BY WorkerSets DEF LeadInv
  <2>2. AtARow' \subseteq AtARow \ {w}
    BY <1>5
  <2> QED
    BY <1>1, <2>1, <2>2, OneLess
<1>9. RowsBudget(planned)'
  <2>1. /\ Chances(planned)' = Cardinality(MailsOut) + Cardinality(Trying) + Cardinality(StillToSend(planned)')
        /\ InHand(planned)' = Cardinality(AtARow') + Cardinality(StillToSend(planned)')
        /\ Chances(planned) = Cardinality(MailsOut) + Cardinality(Trying) + Cardinality(StillToSend(planned))
        /\ InHand(planned) = Cardinality(AtARow) + Cardinality(StillToSend(planned))
    BY <1>5 DEF Chances, InHand
  <2>2. Cardinality(Counted(planned)) <= Cardinality(Counted(planned)') + d
    BY <1>2, <1>8, Numbers
  <2>3. /\ Chances(planned)' <= Chances(planned) + d /\ InHand(planned)' <= InHand(planned) + d
        /\ Chances(planned)' \in Int /\ InHand(planned)' \in Int
        /\ Chances(planned)' + Cardinality(Counted(planned)) <= Chances(planned) + Cardinality(Counted(planned)') + d
        /\ InHand(planned)' + Cardinality(Active(planned)) <= InHand(planned) + Cardinality(Active(planned)') + d
    BY <1>7, <1>8, <1>a, <2>1, <2>2, Numbers
  <2> QED
    BY <1>2, <1>8, <2>3, BudgetStays
<1>10. RowsOnce(planned)'
  <2>1. slips <= slips' /\ slips' \in Nat /\ (slips' = 0 => slips = 0 /\ st = "sent")
    BY <1>2, TypeParts
  <2>2. slips' = 0 => f \in Counted(planned)
    BY <1>1, <2>1, MailedCounts
  <2>3. slips' = 0 => Counted(planned)' \subseteq Counted(planned)
    BY <1>8, <2>1, <2>2
  <2> QED
    BY <1>6, <2>1, <2>3, OnceStays
<1>11. RowsKnown(planned)'
  <2>1. \A g \in DOMAIN planned' : planned'[g].status = "sent" => mailed[g] > 0
    BY <1>1, <1>6, KnownHands
  <2>2. \A v \in AtARow' : worker'[v].row \in DOMAIN planned
    BY <1>3, <1>5, KnownHands
  <2>3. \A v \in CrmWorkers : worker'[v].at = "record" => mailed[worker'[v].row] > 0
    BY <1>3, KnownHands
  <2> QED
    BY <1>0, <1>6, <2>1, <2>2, <2>3, KnownHands DEF RowsKnown
<1>12. SilenceInv'
  <2>1. slips <= slips' /\ slips' \in Nat
    BY <1>2, TypeParts
  <2>2. Cardinality(Senders') \in Nat /\ Cardinality(Senders') <= Cardinality(Senders)
    BY <1>5, Numbers
  <2> QED
    BY <1>0, <2>1, <2>2, SilenceStays
<1>13. /\ \A v \in CrmWorkers : worker'[v].at = "idle" <=> worker'[v].row = 0
       /\ mailed' \in [1 .. MaxPlanned -> Nat] /\ unwanted' \in Nat /\ IsFiniteSet(MailsOut')
  BY <1>0, <1>3, <1>5, TypeParts DEF LeadInv, WorkersInv
<1> QED
  BY <1>0, <1>2, <1>e, <1>3, <1>6, <1>9, <1>10, <1>11, <1>12, <1>13, <1>a, WorkerStep

\* A worker that stops leaves a row that another may come to take.
LEMMA CrashWorkerStays ==
  ASSUME LeadInv, NEW w \in CrmWorkers, CrashWorker(w)
  PROVE  LeadInv'
<1>0. /\ slips' = slips + 1 /\ slips' \in 0 .. MaxMishaps /\ slips \in Nat /\ slips' \in Nat /\ slips' # 0
      /\ queue' \subseteq Triggers /\ GoTo(w, "idle", 0) /\ "idle" \in Places /\ 0 \in 0 .. MaxPlanned
      /\ UNCHANGED <<lead, planned, suppressed, news, moved, mailed, unwanted>>
  BY SlipCount, TypeParts DEF CrashWorker, Leave, Places
<1>f. PICK f : f = worker[w].row
  OBVIOUS
<1>3. /\ worker' \in [CrmWorkers -> [at : Places, row : 0 .. MaxPlanned]]
      /\ worker'[w].at = "idle" /\ worker'[w].row = 0
      /\ \A v \in CrmWorkers : v # w => worker'[v] = worker[v]
  BY <1>0, GoToIs
<1>5. /\ AtARow' = AtARow \ {w} /\ Trying' = Trying \ {w} /\ Senders' = Senders \ {w} /\ MailsOut' = MailsOut
      /\ \A g \in 1 .. MaxPlanned : g # f => (CheckedOut(g)' <=> CheckedOut(g))
  <2>1. \A g \in 1 .. MaxPlanned : g # 0
    BY TypeParts
  <2>2. MailsOut' = MailsOut
    BY <1>0 DEF MailsOut
  <2> QED
    BY <1>0, <1>f, <2>1, <2>2, HandsOf
<1>6. RowsTyped(lead, planned') /\ Counted(planned)' = Counted(planned) /\ Active(planned)' = Active(planned)
  BY <1>0, RowsStay
<1>7. StillToSend(planned)' \subseteq StillToSend(planned) \union {f}
  <2>1. DOMAIN planned \subseteq 1 .. MaxPlanned
    BY RowsInBounds
  <2> QED
    BY <1>0, <1>5, <2>1 DEF StillToSend
<1>a. /\ IsFiniteSet(AtARow') /\ Cardinality(AtARow') \in Nat /\ Cardinality(AtARow') <= Cardinality(AtARow)
      /\ Cardinality(Trying') \in Nat /\ Cardinality(Trying') <= Cardinality(Trying)
      /\ Cardinality(Senders') \in Nat /\ Cardinality(Senders') <= Cardinality(Senders)
      /\ Cardinality(StillToSend(planned)') \in Nat
      /\ Cardinality(StillToSend(planned)') <= Cardinality(StillToSend(planned)) + 1
  <2>1. IsFiniteSet(AtARow) /\ IsFiniteSet(Trying) /\ IsFiniteSet(Senders)
    BY WorkerSets DEF LeadInv
  <2>2. AtARow' \subseteq AtARow /\ Trying' \subseteq Trying /\ Senders' \subseteq Senders
    BY <1>5
  <2>3. IsFiniteSet(StillToSend(planned))
    BY TypeParts, RowSets
  <2>4. /\ Cardinality(StillToSend(planned)') \in Nat
        /\ Cardinality(StillToSend(planned)') <= Cardinality(StillToSend(planned)) + 1
    BY <1>7, <2>3, OneMore
  <2> QED
    BY <2>1, <2>2, <2>4, NoMore
<1>9. RowsBudget(planned)'
  <2>1. /\ Chances(planned)' = Cardinality(MailsOut) + Cardinality(Trying') + Cardinality(StillToSend(planned)')
        /\ InHand(planned)' = Cardinality(AtARow') + Cardinality(StillToSend(planned)')
        /\ Chances(planned) = Cardinality(MailsOut) + Cardinality(Trying) + Cardinality(StillToSend(planned))
        /\ InHand(planned) = Cardinality(AtARow) + Cardinality(StillToSend(planned))
    BY <1>5 DEF Chances, InHand
  <2> QED
    BY <1>0, <1>6, <1>a, <2>1, Numbers, BudgetStays
<1>10. RowsOnce(planned)'
  BY <1>0 DEF RowsOnce
<1>11. RowsKnown(planned)'
  <2>2. \A v \in AtARow' : worker'[v].row \in DOMAIN planned
    BY <1>3, <1>5, KnownHands
  <2>3. \A v \in CrmWorkers : worker'[v].at = "record" => mailed[worker'[v].row] > 0
    BY <1>3, KnownHands
  <2> QED
    BY <1>0, <2>2, <2>3, KnownHands DEF RowsKnown
<1>12. SilenceInv'
  <2>1. slips <= slips'
    BY <1>0
  <2> QED
    BY <1>0, <1>a, <2>1, SilenceStays
<1>13. /\ \A v \in CrmWorkers : worker'[v].at = "idle" <=> worker'[v].row = 0
       /\ mailed' \in [1 .. MaxPlanned -> Nat] /\ unwanted' \in Nat /\ IsFiniteSet(MailsOut')
  BY <1>0, <1>3, <1>5, TypeParts DEF LeadInv, WorkersInv
<1> QED
  BY <1>0, <1>3, <1>6, <1>9, <1>10, <1>11, <1>12, <1>13, <1>a, WorkerStep

-----------------------------------------------------------------------------
(* The theorems *)

LEMMA LeadStarts == LeadInit => LeadInv
<1> SUFFICES ASSUME LeadInit
             PROVE  LeadInv
  OBVIOUS
<1>1. /\ lead = [stage |-> 1, stopped |-> FALSE, visit |-> 1] /\ planned = <<>> /\ suppressed = FALSE /\ queue = {}
      /\ news = 0 /\ slips = 0 /\ moved = FALSE /\ unwanted = 0
      /\ worker = [w \in CrmWorkers |-> AtRest] /\ mailed = [f \in 1 .. MaxPlanned |-> 0]
  BY DEF LeadInit
<1>2. MaxMoves \in Nat /\ PerLead \in Nat /\ MaxPlanned \in Nat /\ MaxNews \in Nat /\ MaxMishaps \in Nat
  BY CrmLeadAssumption
<1>3. 1 \in Stages
  <2>1. Pipeline \in Seq([type : {"normal", "won", "lost"}, manual : BOOLEAN, stops : BOOLEAN])
    BY CrmLeadAssumption
  <2>2. Len(Pipeline) \in Nat /\ Stages = 1 .. Len(Pipeline)
    BY <2>1 DEF Stages
  <2>3. Stages # {}
    BY CrmLeadAssumption
  <2> QED
    BY <2>2, <2>3
<1>4. /\ \A w \in CrmWorkers : worker[w].at = "idle" /\ worker[w].row = 0
      /\ worker \in [CrmWorkers -> [at : {"idle", "check", "send", "record"}, row : 0 .. MaxPlanned]]
  BY <1>1, <1>2 DEF AtRest
<1>5. mailed \in [1 .. MaxPlanned -> Nat] /\ \A f \in 1 .. MaxPlanned : mailed[f] = 0
  BY <1>1
<1>6. /\ lead \in LeadRecords /\ lead \in [stage : Stages, stopped : BOOLEAN, visit : Nat]
      /\ lead.visit = 1 /\ lead.stopped = FALSE
  BY <1>1, <1>3 DEF LeadRecords
<1>7. planned \in Seq(RowRecords) /\ Len(planned) = 0 /\ DOMAIN planned = {}
  BY <1>1
<1>8. AtARow = {} /\ Trying = {} /\ Senders = {}
  BY <1>4 DEF AtARow, Trying, Senders
<1>9. MailsOut = {}
  <2> SUFFICES ASSUME NEW m \in MailsOut
               PROVE  FALSE
    OBVIOUS
  <2>1. m \in (1 .. MaxPlanned) \X Nat /\ m[2] \in 1 .. mailed[m[1]]
    BY DEF MailsOut
  <2>2. m[1] \in 1 .. MaxPlanned
    BY <2>1
  <2>3. m[2] \in 1 .. 0
    BY <1>5, <2>1, <2>2
  <2> QED
    BY <2>3
<1>10. StillToSend(planned) = {} /\ Counted(planned) = {} /\ Active(planned) = {}
  BY <1>7 DEF StillToSend, Counted, Active
<1>11. IsFiniteSet({}) /\ Cardinality({}) = 0
  BY FS_EmptySet
<1>12. LeadTypeOK
  <2>1. queue \subseteq Triggers /\ suppressed \in BOOLEAN /\ moved \in BOOLEAN /\ unwanted \in Nat
    BY <1>1
  <2>2. news \in 0 .. MaxNews /\ slips \in 0 .. MaxMishaps /\ Len(planned) <= MaxPlanned
    BY <1>1, <1>2, <1>7
  <2> QED
    BY <1>4, <1>5, <1>6, <1>7, <2>1, <2>2 DEF LeadTypeOK
<1>13. RowsTyped(lead, planned)
  BY <1>2, <1>6, <1>7 DEF RowsTyped
<1>14. RowsKnown(planned)
  <2>1. \A w \in CrmWorkers : worker[w].at # "record"
    BY <1>4
  <2>2. \A f \in 1 .. MaxPlanned : ~(mailed[f] > 0)
    BY <1>5
  <2> QED
    BY <1>7, <1>8, <2>1, <2>2 DEF RowsKnown
<1>15. RowsBudget(planned)
  <2>1. /\ Cardinality(MailsOut) = 0 /\ Cardinality(Trying) = 0 /\ Cardinality(AtARow) = 0 /\ Cardinality(StillToSend(planned)) = 0
        /\ Cardinality(Counted(planned)) = 0 /\ Cardinality(Active(planned)) = 0
    BY <1>8, <1>9, <1>10, <1>11
  <2>2. Chances(planned) = 0 /\ InHand(planned) = 0
    BY <2>1 DEF Chances, InHand
  <2> QED
    BY <1>1, <1>2, <2>1, <2>2 DEF RowsBudget
<1>16. RowsOnce(planned)
  BY <1>10 DEF RowsOnce
<1>17. SilenceInv
  BY <1>1 DEF SilenceInv
<1> QED
  BY <1>4, <1>8, <1>9, <1>11, <1>12, <1>13, <1>14, <1>15, <1>16, <1>17 DEF LeadInv, WorkersInv, RowsOK

LEMMA LeadStays ==
  ASSUME LeadInv, [LeadNext]_leadVars
  PROVE  LeadInv'
<1>1. ASSUME NEW e \in Triggers, HandleQueued(e)
      PROVE  LeadInv'
  BY <1>1, HandleQueuedStays
<1>2. CASE Tick
  BY <1>2, TickStays
<1>3. CASE ReplyArrives
  BY <1>3, ReplyStays
<1>4. CASE Leaves("bounced") \/ Leaves("unsubscribed")
  BY <1>4, LeavesStays
<1>5. ASSUME NEW to \in Stages, MoveByHand(to)
      PROVE  LeadInv'
  BY <1>5, MoveByHandStays
<1>6. ASSUME NEW w \in CrmWorkers, NEW f \in DOMAIN planned, RecoverFollowUp(w, f)
      PROVE  LeadInv'
  BY <1>6, RecoverStays
<1>7. ASSUME NEW w \in CrmWorkers, NEW f \in DOMAIN planned, ClaimFollowUp(w, f)
      PROVE  LeadInv'
  BY <1>7, ClaimStays
<1>8. ASSUME NEW w \in CrmWorkers, CheckFollowUp(w)
      PROVE  LeadInv'
  BY <1>8, CheckStays
<1>9. ASSUME NEW w \in CrmWorkers, SendFollowUp(w)
      PROVE  LeadInv'
  BY <1>9, SendStays
<1>10. ASSUME NEW w \in CrmWorkers, RecordFollowUp(w)
       PROVE  LeadInv'
  BY <1>10, RecordStays
<1>11. ASSUME NEW w \in CrmWorkers, CrashWorker(w)
       PROVE  LeadInv'
  BY <1>11, CrashWorkerStays
<1>12. CASE UNCHANGED leadVars
  <2>1. UNCHANGED <<lead, planned, suppressed, queue, worker, news, slips, moved, mailed, unwanted>>
    BY <1>12 DEF leadVars
  <2>2. RowsOK(lead', planned')
    BY <2>1 DEF LeadInv
  <2> QED
    BY <2>1, <2>2, TypeParts, QuietLead
<1> QED
  BY <1>1, <1>2, <1>3, <1>4, <1>5, <1>6, <1>7, <1>8, <1>9, <1>10, <1>11, <1>12 DEF LeadNext

LEMMA LeadHolds == LeadSpec => []LeadInv
<1>1. LeadInit => LeadInv
  BY LeadStarts
<1>2. LeadInv /\ [LeadNext]_leadVars => LeadInv'
  BY LeadStays
<1> QED
  BY <1>1, <1>2, PTL DEF LeadSpec

\* The lead, its planned follow-ups, the queue and the workers keep their types, whatever rules
\* and pipeline the owner has set up: runRulesForEvent writes stages of the pipeline only, and a
\* planned follow-up always names a rule and a visit the lead has had.
THEOREM LeadTypeCorrect == LeadSpec => []LeadTypeOK
<1>1. LeadInv => LeadTypeOK
  BY DEF LeadInv, WorkersInv
<1> QED
  BY <1>1, LeadHolds, PTL

\* For any pipeline, rule book, number of CRM workers and limits: a planned follow-up is mailed
\* once, the rules mail a lead no more often than MAX_RULE_FOLLOW_UPS_PER_LEAD and once for each
\* rule and visit, and after a stop at most one mail follows, each but for one more mail per mishap.
THEOREM MailsStayWithinLimits == LeadSpec => []MailsWithinLimits
<1>1. ASSUME LeadInv
      PROVE  MailsWithinLimits
  <2>1. DOMAIN mailed = 1 .. MaxPlanned /\ slips \in Nat /\ PerLead \in Nat /\ unwanted \in Nat
    BY <1>1, TypeParts
  <2>2. \A f \in 1 .. MaxPlanned : mailed[f] \in Nat /\ mailed[f] <= 1 + slips
    BY <1>1, MailedCounts
  <2>3. WithinLeadLimit
    <3> DEFINE S == {f \in DOMAIN mailed : mailed[f] > 0}
               g == [m \in MailsOut |-> m[1]]
               T == {g[m] : m \in MailsOut}
    <3>1. IsFiniteSet(MailsOut) /\ Chances(planned) <= PerLead + slips /\ Cardinality(MailsOut) <= Chances(planned)
      <4>1. IsFiniteSet(MailsOut)
        BY <1>1 DEF LeadInv, WorkersInv
      <4>2. Chances(planned) <= PerLead + slips
        BY <1>1, TypeParts DEF RowsBudget
      <4>3. Cardinality(MailsOut) <= Chances(planned)
        BY <1>1, Numbers DEF Chances
      <4> QED
        BY <4>1, <4>2, <4>3
    <3>2. IsFiniteSet(T) /\ Cardinality(T) \in Nat /\ Cardinality(T) <= Cardinality(MailsOut)
      <4>1. DOMAIN g = MailsOut /\ T = {g[m] : m \in MailsOut}
        OBVIOUS
      <4> HIDE DEF g, T
      <4> QED
        BY <3>1, <4>1, ImageOf
    <3>3. S \subseteq T
      <4> SUFFICES ASSUME NEW f \in S
                   PROVE  f \in T
        OBVIOUS
      <4>1. f \in 1 .. MaxPlanned /\ mailed[f] \in Nat /\ mailed[f] > 0
        BY <2>1, <2>2
      <4>2. <<f, 1>> \in MailsOut
        BY <4>1 DEF MailsOut
      <4>3. g[<<f, 1>>] = f
        BY <4>2
      <4> QED
        BY <4>2, <4>3
    <3>4. Cardinality(S) \in Nat /\ Cardinality(S) <= Cardinality(T)
      <4> HIDE DEF S, T
      <4> QED
        BY <3>2, <3>3, NoMore
    <3>5. Cardinality(S) <= PerLead + slips
      <4> HIDE DEF S, T
      <4> QED
        BY <1>1, <2>1, <3>1, <3>2, <3>4, Numbers
    <3> QED
      BY <3>5 DEF WithinLeadLimit
  <2>4. OnceAVisit
    <3> SUFFICES ASSUME slips = 0, NEW f \in DOMAIN planned, NEW h \in DOMAIN planned,
                        mailed[f] > 0, mailed[h] > 0,
                        planned[f].rule = planned[h].rule, planned[f].visit = planned[h].visit
                 PROVE  f = h
      BY DEF OnceAVisit
    <3>1. f \in 1 .. MaxPlanned /\ h \in 1 .. MaxPlanned
      BY <1>1, RowsInBounds
    <3>2. f \in Counted(planned) /\ h \in Counted(planned)
      BY <1>1, <3>1, MailedCounts
    <3> QED
      BY <1>1, <3>2, TypeParts DEF RowsOnce
  <2>5. SilentAfterStop
    <3>1. CASE lead.stopped \/ suppressed
      <4>1. unwanted + Cardinality(Senders) <= 1 + slips
        BY <1>1, <3>1 DEF LeadInv, SilenceInv
      <4> QED
        BY <1>1, <2>1, <4>1, Numbers DEF SilentAfterStop
    <3>2. CASE ~(lead.stopped \/ suppressed)
      <4>1. unwanted = 0
        BY <1>1, <3>2 DEF LeadInv, SilenceInv
      <4> QED
        BY <2>1, <4>1 DEF SilentAfterStop
    <3> QED
      BY <3>1, <3>2
  <2>6. MailedOnce
    BY <2>1, <2>2 DEF MailedOnce
  <2> QED
    BY <2>3, <2>4, <2>5, <2>6 DEF MailsWithinLimits
<1> QED
  BY <1>1, LeadHolds, PTL
=============================================================================
