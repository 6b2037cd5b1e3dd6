------------------------------- MODULE Replies -------------------------------
(***************************************************************************)
(* The replies of one lead: read from the mailbox by the IMAP worker and   *)
(* taken from the inbound webhook, stored, labelled in the background, by  *)
(* the user and by the CRM worker, and the "needs reply" state of the lead *)
(* with its reminder.  The index of a row stands for its received_at.      *)
(***************************************************************************)
EXTENDS Integers, Sequences, FiniteSets

CONSTANTS
  Mails,      \* replies of the lead in the mailbox
  Hooked,     \* replies the provider posts to the webhook, whether they are in the mailbox or not
  Labels,     \* what classifyReply may answer
  MaxRows,    \* bound on email_replies
  MaxFaults,  \* bound on restarts and failed calls
  MaxHands    \* bound on labels, snoozes and "Mark as done" of the user

Labellers == {"queue", "user", "relabel"}

ASSUME RepliesAssumption ==
  /\ Labels \subseteq {"wanted", "away", "gone"}
  /\ {MaxRows, MaxFaults, MaxHands} \subseteq Nat

VARIABLES
  mailbox,    \* each mail at the server; "flag" is handled by the poll and not yet \Seen
  posted,     \* mails the webhook got
  thread,     \* email_replies of the lead, in the order received
  jobs,       \* rows waiting in the background queue
  work,       \* labels on their way: by the queue, the user or the CRM worker
  contact,    \* the crm_contacts row
  answer,     \* an answer is stored and the lead not yet marked
  faults, hands,
  byHand,     \* history: rows the user has labelled while nobody else was at them
  reminded,   \* history: reminders for the waiting time that began with a row
  mishaps     \* history: "torn", a label saved or an answer stored and the rest not done;
              \* "again", a label replaced by another classification of the reply

replyVars == <<mailbox, posted, thread, jobs, work, contact, answer, faults, hands, byHand,
               reminded, mishaps>>
mailVars == <<mailbox, posted>>
userVars == <<answer, hands, byHand>>

Inbound == {r \in DOMAIN thread : ~thread[r].out}
Unlabelled == {r \in Inbound : thread[r].label = "none"}

\* Types of the variables.
ReplyTypeOK ==
  /\ mailbox \in [Mails -> {"none", "unseen", "flag", "seen"}]
  /\ posted \subseteq Hooked
  /\ thread \in Seq([mail : Mails \union Hooked, out : BOOLEAN, label : Labels \union {"none"},
                     source : {"none", "auto", "manual"}])
  /\ Len(thread) <= MaxRows
  /\ jobs \subseteq Inbound
  /\ work \subseteq [by : Labellers, at : {"classify", "contact"}, row : Inbound]
  /\ contact \in [last : Labels \union {"none"}, since : 0 .. MaxRows, notified : BOOLEAN, cleared : 0 .. MaxRows]
  /\ answer \in BOOLEAN
  /\ faults \in 0 .. MaxFaults /\ hands \in 0 .. MaxHands
  /\ byHand \subseteq Inbound /\ reminded \in [1 .. MaxRows -> Nat]
  /\ mishaps \subseteq {"torn", "again"}

ReplyInit ==
  /\ mailbox = [m \in Mails |-> "none"] /\ posted = {}
  /\ thread = <<>> /\ jobs = {} /\ work = {}
  /\ contact = [last |-> "none", since |-> 0, notified |-> FALSE, cleared |-> 0]
  /\ answer = FALSE /\ faults = 0 /\ hands = 0
  /\ byHand = {} /\ reminded = [r \in 1 .. MaxRows |-> 0] /\ mishaps = {}

Fault == faults < MaxFaults /\ faults' = faults + 1

-----------------------------------------------------------------------------
(* The mailbox and the webhook *)

Arrive(m) ==
  /\ mailbox[m] = "none"
  /\ mailbox' = [mailbox EXCEPT ![m] = "unseen"]
  /\ UNCHANGED <<posted, thread, jobs, work, contact, userVars, faults, reminded, mishaps>>

ToRead == {m \in Mails : mailbox[m] = "unseen"}

\* persistInboundEmailReply, with the labelling job it leaves behind.
Store(m) ==
  /\ Len(thread) < MaxRows
  /\ thread' = Append(thread, [mail |-> m, out |-> FALSE, label |-> "none", source |-> "none"])
  /\ jobs' = jobs \union {Len(thread) + 1}

\* pollImapForUser handles the messages of one poll side by side.
StoreMail(m) ==
  /\ m \in ToRead
  /\ mailbox' = [mailbox EXCEPT ![m] = "flag"]
  /\ \/ Store(m) /\ UNCHANGED faults
     \/ \* the error is logged, and the message is flagged all the same
        Fault /\ UNCHANGED <<thread, jobs>>
  /\ UNCHANGED <<posted, work, contact, userVars, reminded, mishaps>>

Flag(m) ==
  /\ mailbox[m] = "flag"
  /\ \/ mailbox' = [mailbox EXCEPT ![m] = "seen"] /\ UNCHANGED faults
     \/ Fault /\ mailbox' = [mailbox EXCEPT ![m] = "unseen"]
  /\ UNCHANGED <<posted, thread, jobs, work, contact, userVars, reminded, mishaps>>

\* inboundEmailHandler has answered 200 before it does anything.
Post(m) ==
  /\ m \in Hooked \ posted
  /\ posted' = posted \union {m}
  /\ \/ Store(m) /\ UNCHANGED faults
     \/ Fault /\ UNCHANGED <<thread, jobs>>
  /\ UNCHANGED <<mailbox, work, contact, userVars, reminded, mishaps>>

-----------------------------------------------------------------------------
(* Labels *)

Task(by, at, r) == [by |-> by, at |-> at, row |-> r]
Busy(by) == \E w \in work : w.by = by

\* labelInboundReply: a label given by hand is left alone, if it is there by now.
Begin(by, r) ==
  work' = IF thread[r].source = "manual" THEN work ELSE work \union {Task(by, "classify", r)}

\* The background queue: several jobs at a time, one for each reply.
BeginQueued(r) ==
  /\ r \in jobs
  /\ jobs' = jobs \ {r}
  /\ Begin("queue", r)
  /\ UNCHANGED <<mailVars, thread, contact, userVars, faults, reminded, mishaps>>

\* relabelUnlabeledReplies, in the CRM worker, one after the other.
BeginRelabel(r) ==
  /\ r \in Unlabelled /\ ~Busy("relabel")
  /\ Begin("relabel", r)
  /\ UNCHANGED <<mailVars, thread, jobs, contact, userVars, faults, reminded, mishaps>>

SaveLabel(w, label) ==
  /\ w.at = "classify"
  /\ thread' = [thread EXCEPT ![w.row].label = label, ![w.row].source = "auto"]
  /\ mishaps' = IF thread[w.row].label = "none" THEN mishaps ELSE mishaps \union {"again"}
  /\ work' = (work \ {w}) \union {Task(w.by, "contact", w.row)}
  /\ UNCHANGED <<mailVars, jobs, contact, userVars, faults, reminded>>

\* The classification fails: the label stays empty.
FailLabel(w) ==
  /\ w.at = "classify"
  /\ Fault
  /\ work' = work \ {w}
  /\ UNCHANGED <<mailVars, thread, jobs, contact, userVars, reminded, mishaps>>

Hand == hands < MaxHands /\ hands' = hands + 1

\* setManualReplyLabel.
LabelByHand(r, label) ==
  /\ r \in Inbound /\ ~Busy("user") /\ Hand
  /\ thread' = [thread EXCEPT ![r].label = label, ![r].source = "manual"]
  /\ byHand' = IF \E w \in work : w.row = r THEN byHand ELSE byHand \union {r}
  /\ work' = work \union {Task("user", "contact", r)}
  /\ UNCHANGED <<mailVars, jobs, contact, answer, faults, reminded, mishaps>>

-----------------------------------------------------------------------------
(* Needs reply *)

Least(S) == CHOOSE x \in S : \A y \in S : x <= y
Greatest(S) == CHOOSE x \in S : \A y \in S : x >= y

\* The last answer or "Mark as done".
AnsweredAt == Greatest({contact.cleared, 0} \union (DOMAIN thread \ Inbound))

\* Where the waiting time begins; 0 when the lead does not wait.
WaitsSince ==
  LET rows == {r \in Inbound : r > AnsweredAt}
      persons == {r \in rows : thread[r].label \notin {"away", "gone"}} IN
  IF persons = {} \/ thread[Greatest(rows)].label = "gone" THEN 0 ELSE Least(persons)

\* Mutant of Recomputed: every look at the waiting time begins it anew.
RecomputedAnew(since, old) == [contact EXCEPT !.since = since, !.notified = since # 0 /\ old]

\* The row changes only with the waiting time; `old' is for replies labelled late, without reminder.
Recomputed(since, old) ==
  IF contact.since = since THEN contact
  ELSE [contact EXCEPT !.since = since, !.notified = since # 0 /\ old]

\* Mutant of NewestLabelled: any reply sets the label of the lead.
NewestLabelledAny(r) == TRUE

NewestLabelled(r) == \A n \in Inbound : n > r => thread[n].label = "none"

Rechecks(by) == TRUE

\* updateContactFromReply and recomputeNeedsReply, which read the rows as they are by then.
UpdateContact(w) ==
  /\ w.at = "contact"
  /\ contact' = [(IF Rechecks(w.by) THEN Recomputed(WaitsSince, w.by = "relabel") ELSE contact)
                   EXCEPT !.last = IF NewestLabelled(w.row) THEN thread[w.row].label ELSE @]
  /\ work' = work \ {w}
  /\ UNCHANGED <<mailVars, thread, jobs, userVars, faults, reminded, mishaps>>

ClearedUpTo == Len(thread)

\* markReplied.
Cleared == [contact EXCEPT !.since = 0, !.notified = FALSE, !.cleared = ClearedUpTo]

\* sendReplyHandler: the mail, its row, and then markRepliedForRecipient, which never fails the
\* answer.  A row that cannot be stored is an error, and the mail has gone.
SendAnswer ==
  /\ ~answer /\ Inbound # {} /\ Len(thread) < MaxRows
  /\ answer' = TRUE
  /\ thread' = Append(thread, [mail |-> thread[1].mail, out |-> TRUE, label |-> "none",
                               source |-> "none"])
  /\ UNCHANGED <<mailVars, jobs, work, contact, faults, hands, byHand, reminded, mishaps>>

MarkReplied ==
  /\ answer
  /\ answer' = FALSE
  /\ \/ contact' = Cleared /\ UNCHANGED <<faults, mishaps>>
     \/ Fault /\ mishaps' = mishaps \union {"torn"} /\ UNCHANGED contact
  /\ UNCHANGED <<mailVars, thread, jobs, work, hands, byHand, reminded>>

MarkDone ==
  /\ Hand
  /\ contact' = Cleared
  /\ UNCHANGED <<mailVars, thread, jobs, work, answer, byHand, faults, reminded, mishaps>>

\* snoozed_until only puts off the next reminder, which has its time in any case.
Snooze ==
  /\ Hand
  /\ contact' = [contact EXCEPT !.notified = FALSE]
  /\ UNCHANGED <<mailVars, thread, jobs, work, answer, byHand, faults, reminded, mishaps>>

\* processNeedsReplyReminders, once the lead has waited long enough.
Remind ==
  /\ contact.since # 0 /\ ~contact.notified
  /\ contact' = [contact EXCEPT !.notified = TRUE]
  /\ reminded' = [reminded EXCEPT ![contact.since] = @ + 1]
  /\ UNCHANGED <<mailVars, thread, jobs, work, userVars, faults, mishaps>>

\* The processes stop: the poll, the queue and what was half done are gone.
Stop ==
  /\ Fault
  /\ mailbox' = [m \in Mails |-> IF mailbox[m] = "flag" THEN "unseen" ELSE mailbox[m]]
  /\ jobs' = {}
  /\ work' = {}
  /\ answer' = FALSE
  /\ mishaps' = IF answer \/ \E w \in work : w.at = "contact"
                   THEN mishaps \union {"torn"} ELSE mishaps
  /\ UNCHANGED <<posted, thread, contact, hands, byHand, reminded>>

ReplyNext ==
  \/ \E m \in Mails : Arrive(m) \/ StoreMail(m) \/ Flag(m)
  \/ \E m \in Hooked : Post(m)
  \/ \E r \in DOMAIN thread : \/ BeginQueued(r) \/ BeginRelabel(r)
                              \/ \E l \in Labels : LabelByHand(r, l)
  \/ \E w \in work : \/ FailLabel(w) \/ UpdateContact(w)
                     \/ \E l \in Labels : SaveLabel(w, l)
  \/ SendAnswer \/ MarkReplied \/ MarkDone \/ Snooze \/ Remind
  \/ Stop

ReplySpec == ReplyInit /\ [][ReplyNext]_replyVars

-----------------------------------------------------------------------------
(* Properties *)

Settled == Unlabelled = {} /\ work = {} /\ ~answer /\ "torn" \notin mishaps

\* In whatever order labels of several replies are saved and copied, by the queue, the user and the
\* worker for old replies, the lead ends with the label of its newest reply.
LabelOfNewest ==
  Settled /\ Inbound # {} => contact.last = thread[Greatest(Inbound)].label

\* Once every reply has its label the lead waits for an answer if and only if a person wrote after
\* the last answer, and since the right reply.
WaitsWhenItShould == Settled => contact.since = WaitsSince

\* A waiting time gives one reminder, and one more for each snooze or change by the user and each
\* later reply that ended it with a "gone", after which it may go on from the same reply; as long
\* as no reply is classified twice with different results.
OneReminder ==
  "again" \notin mishaps => \A r \in DOMAIN reminded :
    reminded[r] <= 1 + hands + Cardinality({q \in Inbound : q > r /\ thread[q].label = "gone"})

\* A reply is stored once for each way it comes in, and again only after a fault.
CopiesNeedFaults ==
  \A m \in Mails \union Hooked :
    Cardinality({r \in Inbound : thread[r].mail = m}) <=
      faults + (IF m \in posted THEN 1 ELSE 0) + (IF m \in Mails THEN 1 ELSE 0)

\* "Manual labels are never overwritten", unless a classification was under way when the user
\* gave the label.
ManualLabelStays == \A r \in byHand : thread[r].source = "manual"

\* The stored replies, the lead they belong to and the reminders of its owner agree, whoever
\* labels, answers or polls.
ContactFollowsReplies ==
  LabelOfNewest /\ WaitsWhenItShould /\ ManualLabelStays /\ CopiesNeedFaults /\ OneReminder
=============================================================================
