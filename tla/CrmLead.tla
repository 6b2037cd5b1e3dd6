------------------------------- MODULE CrmLead -------------------------------
(***************************************************************************)
(* One lead of the CRM: the events that run the pipeline's rules on it, in *)
(* one transaction each, the moves between stages, the follow-ups that     *)
(* rules plan, and the CRM workers that send them.  At most one follow-up  *)
(* of a lead waits at a time; when it is due is left open.                 *)
(***************************************************************************)
EXTENDS Integers, Sequences, FiniteSets

CONSTANTS
  Pipeline,    \* stages in order of position: [type, manual, stops]
  RuleBook,    \* active rules, highest priority first: [on, from, to, forward, plans, stops]
  CrmWorkers,  \* processes that run the loop of crmWorker.ts
  MaxMoves,    \* MAX_MOVES_PER_EVENT
  PerLead,     \* MAX_RULE_FOLLOW_UPS_PER_LEAD
  MaxPlanned,  \* bound on crm_scheduled_follow_ups
  MaxNews,     \* bound on replies, bounces and ticks
  MaxMishaps   \* bound on crashes and failed calls

Stages == DOMAIN Pipeline
Triggers == {"follow_up_sent", "reply_received", "reply_labeled", "bounced", "unsubscribed", "time_tick"}

ASSUME CrmLeadAssumption ==
  /\ Pipeline \in Seq([type : {"normal", "won", "lost"}, manual : BOOLEAN, stops : BOOLEAN])
  /\ RuleBook \in Seq([on : Triggers, from : Stages \union {0}, to : Stages \union {0},
                       forward : BOOLEAN, plans : BOOLEAN, stops : BOOLEAN])
  /\ Stages # {} /\ {MaxMoves, PerLead, MaxPlanned, MaxNews, MaxMishaps} \subseteq Nat

VARIABLES
  lead,        \* crm_contacts: stage, follow_ups_stopped, and which stage visit it is
  planned,     \* crm_scheduled_follow_ups of the lead
  suppressed,  \* the address is in suppression_list
  queue,       \* events in the background queues of the processes
  worker,      \* each CRM worker in processDueFollowUps
  news, slips, moved,
  mailed,      \* history: mails sent for each planned follow-up
  unwanted     \* history: mails to the lead after its follow-ups were stopped

leadVars == <<lead, planned, suppressed, queue, worker, news, slips, moved, mailed, unwanted>>

AtRest == [at |-> "idle", row |-> 0]

\* Types of the variables.
LeadTypeOK ==
  /\ lead \in [stage : Stages, stopped : BOOLEAN, visit : Nat]
  /\ Len(planned) <= MaxPlanned
  /\ \A f \in DOMAIN planned :
       planned[f] \in [rule : DOMAIN RuleBook, visit : 1 .. lead.visit, answered : BOOLEAN,
                       status : {"pending", "sending", "sent", "failed", "cancelled"}]
  /\ suppressed \in BOOLEAN /\ queue \subseteq Triggers
  /\ worker \in [CrmWorkers -> [at : {"idle", "check", "send", "record"}, row : 0 .. MaxPlanned]]
  /\ news \in 0 .. MaxNews /\ slips \in 0 .. MaxMishaps /\ moved \in BOOLEAN
  /\ mailed \in [1 .. MaxPlanned -> Nat] /\ unwanted \in Nat

LeadInit ==
  /\ lead = [stage |-> 1, stopped |-> FALSE, visit |-> 1]
  /\ planned = <<>> /\ suppressed = FALSE /\ queue = {} /\ worker = [w \in CrmWorkers |-> AtRest]
  /\ news = 0 /\ slips = 0 /\ moved = FALSE
  /\ mailed = [f \in 1 .. MaxPlanned |-> 0] /\ unwanted = 0

-----------------------------------------------------------------------------
(* The rule engine, on a record s of the lead and its follow-ups *)

Final(s) == Pipeline[s].type # "normal"

CanAutoMove(from, to, forward) ==
  /\ to # from
  /\ ~Pipeline[to].manual /\ ~Pipeline[from].manual /\ ~Final(from)
  /\ forward => Final(to) \/ to > from

\* cancelPendingFollowUps.
CancelPending(rows) ==
  [f \in DOMAIN rows |-> IF rows[f].status = "pending" THEN [rows[f] EXCEPT !.status = "cancelled"]
                         ELSE rows[f]]

Stopped(s) == [s EXCEPT !.lead.stopped = TRUE, !.rows = CancelPending(s.rows)]

NextVisit(visit) == visit + 1

\* moveContact.
MovedTo(s, to) ==
  [s EXCEPT !.lead.stage = to, !.lead.visit = NextVisit(@), !.moves = @ + 1,
            !.rows = IF Pipeline[to].stops THEN CancelPending(@) ELSE @]

Counted(rows) == {f \in DOMAIN rows : rows[f].status \notin {"cancelled", "failed"}}

\* Once for each rule and stage visit, and so many for the lead.
Allows(s, rule) ==
  /\ \A f \in Counted(s.rows) : ~(s.rows[f].rule = rule /\ s.rows[f].visit = s.lead.visit)
  /\ Cardinality(Counted(s.rows)) < PerLead

\* schedule_follow_up.
Schedule(s, rule) ==
  IF ~s.lead.stopped /\ Allows(s, rule) /\ Len(s.rows) < MaxPlanned
     /\ \A f \in DOMAIN s.rows : s.rows[f].status \notin {"pending", "sending"}
  THEN [s EXCEPT !.rows = Append(@, [rule |-> rule, visit |-> s.lead.visit, status |-> "pending",
                                     answered |-> FALSE])]
  ELSE s

\* A matching rule: its move, unless an earlier rule of the pass has moved the lead or the event
\* is a label, and its other actions in the stage the lead is then in.
RunRule(s, r, from, event) ==
  LET rule == RuleBook[r]
      moves == /\ rule.to # 0 /\ event # "reply_labeled" /\ s.lead.stage = from /\ s.moves < MaxMoves
               /\ CanAutoMove(from, rule.to, rule.forward)
      s1 == IF moves THEN MovedTo(s, rule.to) ELSE s
      s2 == IF rule.stops THEN Stopped(s1) ELSE s1
      s3 == IF rule.plans THEN Schedule(s2, r) ELSE s2 IN
  [s3 EXCEPT !.done = @ \union {r}]

\* Whether a rule runs in the pass that starts from s.
Applies(s, r, matching, event) ==
  /\ r \in matching \ s.done /\ RuleBook[r].on = event
  /\ RuleBook[r].from \in {0, s.lead.stage}

\* A pass over the rules, after each of them.
RulesRun(s, matching, event) ==
  LET after[r \in 0 .. Len(RuleBook)] ==
        IF r = 0 THEN s
        ELSE IF Applies(s, r, matching, event) THEN RunRule(after[r - 1], r, s.lead.stage, event)
        ELSE after[r - 1] IN
  after

\* One pass over the rules for the stage the lead is in; it is the last one if nothing moved.
RunPass(s, matching, event) ==
  LET t == RulesRun(s, matching, event)[Len(RuleBook)] IN
  IF s.over THEN s ELSE [t EXCEPT !.over = (t.lead.stage = s.lead.stage \/ t.moves >= MaxMoves)]

\* The passes of one event, after each of them.
Passes(s, matching, event) ==
  LET after[n \in 0 .. MaxMoves + 1] ==
        IF n = 0 THEN s ELSE RunPass(after[n - 1], matching, event) IN
  after

\* A bounced lead that no rule moved goes to the first lost stage.
MoveBounced(s) ==
  LET lost == {to \in Stages : Pipeline[to].type = "lost"} IN
  IF s.moves = 0 /\ lost # {} /\ Pipeline[s.lead.stage].type # "lost"
    THEN LET to == CHOOSE x \in lost : \A y \in lost : x <= y IN
         IF CanAutoMove(s.lead.stage, to, FALSE) THEN MovedTo(s, to) ELSE s
    ELSE s

\* applyEventToContact.
Applied(s, event) ==
  CASE event \in {"bounced", "unsubscribed"} -> Stopped(s)
    [] event = "reply_received" -> [s EXCEPT !.rows = CancelPending(@)]
    [] OTHER -> s

\* runRulesForEvent; which rules match an event is left open.
AfterEvent(event, matching) ==
  LET s0 == [lead |-> lead, rows |-> planned, moves |-> 0, done |-> {}, over |-> FALSE]
      s1 == Passes(Applied(s0, event), matching, event)[MaxMoves + 1] IN
  IF event = "bounced" THEN MoveBounced(s1) ELSE s1

HandleEvent(event) ==
  /\ \E matching \in SUBSET {r \in DOMAIN RuleBook : RuleBook[r].on = event} :
       LET s == AfterEvent(event, matching) IN lead' = s.lead /\ planned' = s.rows
  /\ UNCHANGED <<suppressed, worker, slips, moved, mailed, unwanted>>

News == news < MaxNews /\ news' = news + 1

HandleQueued(event) ==
  /\ event \in queue
  /\ queue' = queue \ {event}
  /\ HandleEvent(event)
  /\ UNCHANGED news

\* runTimeTickOnce.
Tick ==
  /\ ~Final(lead.stage) /\ News
  /\ HandleEvent("time_tick")
  /\ UNCHANGED queue

-----------------------------------------------------------------------------
(* The lead and its owner *)

\* A reply of a person is stored, and its events are left to the queue of the process.
ReplyArrives ==
  /\ News
  /\ planned' = [f \in DOMAIN planned |-> [planned[f] EXCEPT !.answered = TRUE]]
  /\ queue' = queue \union {"reply_received", "reply_labeled"}
  /\ UNCHANGED <<lead, suppressed, worker, slips, moved, mailed, unwanted>>

\* A bounce or a click on "unsubscribe".
Leaves(event) ==
  /\ News
  /\ suppressed' = TRUE
  /\ queue' = queue \union {event}
  /\ UNCHANGED <<lead, planned, worker, slips, moved, mailed, unwanted>>

\* moveContactsManually: the owner may move the lead anywhere.
MoveByHand(to) ==
  /\ ~moved /\ to # lead.stage
  /\ moved' = TRUE
  /\ lead' = [lead EXCEPT !.stage = to, !.visit = @ + 1]
  /\ planned' = IF Pipeline[to].stops THEN CancelPending(planned) ELSE planned
  /\ UNCHANGED <<suppressed, queue, worker, news, slips, mailed, unwanted>>

-----------------------------------------------------------------------------
(* processDueFollowUps *)

Slip == slips < MaxMishaps /\ slips' = slips + 1
SetStatus(f, status) == planned' = [planned EXCEPT ![f].status = status]
GoTo(w, place, f) == worker' = [worker EXCEPT ![w] = [at |-> place, row |-> f]]
Leave(w) == GoTo(w, "idle", 0)
CheckedOut(f) == \E w \in CrmWorkers : worker[w].row = f

\* The first statement of a pass: rows in hand whose due_at is more than 30 minutes old go back,
\* those of a worker that crashed and those of a worker that began late and is still at them.
RecoverFollowUp(w, f) ==
  /\ worker[w].at = "idle" /\ planned[f].status = "sending"
  /\ SetStatus(f, "pending")
  /\ IF CheckedOut(f) THEN Slip ELSE UNCHANGED slips
  /\ UNCHANGED <<lead, suppressed, queue, worker, news, moved, mailed, unwanted>>

\* Mutant of MayClaim: the status of the row is not looked at.
MayClaimInHand(f) == planned[f].status \in {"pending", "sending"}

MayClaim(f) == planned[f].status = "pending"

ClaimFollowUp(w, f) ==
  /\ worker[w].at = "idle" /\ MayClaim(f)
  /\ SetStatus(f, "sending")
  /\ GoTo(w, "check", f)
  /\ UNCHANGED <<lead, suppressed, queue, news, slips, moved, mailed, unwanted>>

\* Mutant of Blocked: only a stage can stop follow-ups.
BlockedByStage(f) == Pipeline[lead.stage].stops \/ planned[f].answered

\* isFollowUpBlockedForRecipient, the suppression list, and a reply since the row was made.
Blocked(f) == lead.stopped \/ Pipeline[lead.stage].stops \/ suppressed \/ planned[f].answered

\* The checks of a row in hand.  No template, or no SMTP profile, fails it; a daily limit puts it off.
CheckFollowUp(w) ==
  LET f == worker[w].row IN
  /\ worker[w].at = "check"
  /\ \/ Blocked(f) /\ SetStatus(f, "cancelled") /\ Leave(w)
     \/ ~Blocked(f) /\ SetStatus(f, "failed") /\ Leave(w)
     \/ ~Blocked(f) /\ SetStatus(f, "pending") /\ Leave(w)
     \/ ~Blocked(f) /\ GoTo(w, "send", f) /\ UNCHANGED planned
  /\ UNCHANGED <<lead, suppressed, queue, news, slips, moved, mailed, unwanted>>

\* sendFollowUpOutbound hands the mail to the SMTP server.
SendFollowUp(w) ==
  LET f == worker[w].row IN
  /\ worker[w].at = "send"
  /\ \/ /\ mailed' = [mailed EXCEPT ![f] = @ + 1]
        /\ unwanted' = IF lead.stopped \/ suppressed THEN unwanted + 1 ELSE unwanted
        /\ GoTo(w, "record", f) /\ UNCHANGED planned
     \/ SetStatus(f, "failed") /\ Leave(w) /\ UNCHANGED <<mailed, unwanted>>
  /\ UNCHANGED <<lead, suppressed, queue, news, slips, moved>>

\* The row of the mail, its event, and the end of the follow-up.
RecordFollowUp(w) ==
  /\ worker[w].at = "record"
  /\ \/ /\ SetStatus(worker[w].row, "sent") /\ queue' = queue \union {"follow_up_sent"}
        /\ UNCHANGED slips
     \/ Slip /\ SetStatus(worker[w].row, "failed") /\ UNCHANGED queue
  /\ Leave(w)
  /\ UNCHANGED <<lead, suppressed, news, moved, mailed, unwanted>>

\* A process stops: a row in hand stays "sending", and what its queue held is gone.
CrashWorker(w) ==
  /\ Slip
  /\ Leave(w)
  /\ queue' = {}
  /\ UNCHANGED <<lead, planned, suppressed, news, moved, mailed, unwanted>>

LeadNext ==
  \/ \E e \in Triggers : HandleQueued(e)
  \/ Tick \/ ReplyArrives \/ Leaves("bounced") \/ Leaves("unsubscribed")
  \/ \E to \in Stages : MoveByHand(to)
  \/ \E w \in CrmWorkers, f \in DOMAIN planned : RecoverFollowUp(w, f) \/ ClaimFollowUp(w, f)
  \/ \E w \in CrmWorkers : CheckFollowUp(w) \/ SendFollowUp(w) \/ RecordFollowUp(w) \/ CrashWorker(w)

LeadSpec == LeadInit /\ [][LeadNext]_leadVars

-----------------------------------------------------------------------------
(* Properties *)

\* A planned follow-up is mailed once, and again only after a crash, a row that was not written, or
\* a worker that began late.
MailedOnce == \A f \in DOMAIN mailed : mailed[f] <= 1 + slips

\* The rules send one lead no more follow-ups than its limit, whatever rules answer whatever events,
\* unless a mail went out and its row was lost.
WithinLeadLimit == Cardinality({f \in DOMAIN mailed : mailed[f] > 0}) <= PerLead + slips

\* A rule mails the lead once in one visit to a stage, though its own mails bring it up again.
OnceAVisit ==
  slips = 0 => \A f, g \in DOMAIN planned :
    /\ mailed[f] > 0 /\ mailed[g] > 0
    /\ planned[f].rule = planned[g].rule /\ planned[f].visit = planned[g].visit
    => f = g

\* After a bounce, an "unsubscribe" or a rule that stops follow-ups, the lead gets at most the mail
\* whose checks were done by then.
SilentAfterStop == unwanted <= 1 + slips

\* Rules, workers and events that come up again do not multiply the mails to a lead, and mails end
\* when the lead is to get no more.
MailsWithinLimits == MailedOnce /\ WithinLeadLimit /\ OnceAVisit /\ SilentAfterStop
=============================================================================
