------------------------------- MODULE Billing -------------------------------
(***************************************************************************)
(* Paid registration for one e-mail address: the checkout request, the     *)
(* payment at Stripe, and the webhook that turns a paid checkout into an   *)
(* account with a subscription and follows the subscription afterwards.    *)
(* Stripe may deliver an event late, out of order, or again.               *)
(***************************************************************************)
EXTENDS Integers, Sequences

CONSTANTS
  Checkouts,   \* checkouts of the address; each one that is paid is a subscription at Stripe
  Hooks,       \* webhook requests the server handles at the same time
  NoCheckout,
  MaxEvents,   \* bound on events raised by Stripe
  MaxRepeats,  \* bound on deliveries of an event answered before
  MaxBreaks    \* bound on failed statements and restarts

ASSUME BillingAssumption ==
  {MaxEvents, MaxRepeats, MaxBreaks} \subseteq Nat /\ NoCheckout \notin Checkouts

VARIABLES
  checkout,   \* createCheckoutSession, and then the Stripe session
  pending,    \* pending_registrations
  account,    \* the users row
  sub,        \* the subscriptions row of the account
  stripe,     \* status of each subscription at Stripe
  events,     \* raised by Stripe, in order; the index is the event id
  recorded,   \* payment_events
  answered,   \* events answered with 200
  hook,       \* the handler of each request
  repeats, breaks,
  inOrder,    \* history: no event was begun before an earlier one of its subscription was recorded
  lapses      \* history: what a paid checkout met

billingVars == <<checkout, pending, account, sub, stripe, events, recorded, answered, hook, repeats,
                 breaks, inOrder, lapses>>
stripeVars == <<checkout, stripe, events>>

Statuses == {"active", "past_due", "canceled"}
Kinds == {"completed", "updated", "deleted"}
Waiting == [at |-> "idle", event |-> 0]
NoSub == [of |-> NoCheckout, status |-> "none"]

\* Types of the variables.
BillingTypeOK ==
  /\ checkout \in [Checkouts -> {"new", "checked", "created", "open", "paid", "refused"}]
  /\ pending \in [Checkouts -> {"none", "fresh", "expired"}]
  /\ account \in BOOLEAN
  /\ sub \in [of : Checkouts, status : Statuses] \union {NoSub}
  /\ stripe \in [Checkouts -> Statuses \union {"none"}]
  /\ events \in Seq([kind : Kinds, of : Checkouts, status : Statuses])
  /\ recorded \subseteq DOMAIN events /\ answered \subseteq DOMAIN events
  /\ hook \in [Hooks -> [at : {"idle", "lookup", "pending", "user", "insert", "upsert", "remove",
                               "apply", "record"},
                         event : 0 .. MaxEvents]]
  /\ repeats \in 0 .. MaxRepeats /\ breaks \in 0 .. MaxBreaks
  /\ inOrder \in BOOLEAN /\ lapses \subseteq {"failed", "expired"}

BillingInit ==
  /\ checkout = [c \in Checkouts |-> "new"] /\ pending = [c \in Checkouts |-> "none"]
  /\ account = FALSE /\ sub = NoSub
  /\ stripe = [c \in Checkouts |-> "none"] /\ events = <<>>
  /\ recorded = {} /\ answered = {} /\ hook = [h \in Hooks |-> Waiting]
  /\ repeats = 0 /\ breaks = 0 /\ inOrder = TRUE /\ lapses = {}

-----------------------------------------------------------------------------
(* createCheckoutSession *)

CheckEmail(c) ==
  /\ checkout[c] = "new"
  /\ checkout' = [checkout EXCEPT ![c] = IF account THEN "refused" ELSE "checked"]
  /\ UNCHANGED <<pending, account, sub, stripe, events, recorded, answered, hook, repeats, breaks,
                 inOrder, lapses>>

\* Expired registrations of the address are deleted; their checkouts at Stripe stay open.
CleanUpAndCreate(c) ==
  /\ checkout[c] = "checked"
  /\ checkout' = [checkout EXCEPT ![c] = "created"]
  /\ pending' = [o \in Checkouts |-> IF pending[o] = "expired" THEN "none" ELSE pending[o]]
  /\ lapses' = IF \E o \in Checkouts : pending[o] = "expired" THEN lapses \union {"expired"} ELSE lapses
  /\ UNCHANGED <<account, sub, stripe, events, recorded, answered, hook, repeats, breaks, inOrder>>

\* The row is stored and the address of the checkout is returned.
StorePending(c) ==
  /\ checkout[c] = "created"
  /\ checkout' = [checkout EXCEPT ![c] = "open"]
  /\ pending' = [pending EXCEPT ![c] = "fresh"]
  /\ UNCHANGED <<account, sub, stripe, events, recorded, answered, hook, repeats, breaks, inOrder, lapses>>

TwoHoursPass(c) ==
  /\ pending[c] = "fresh"
  /\ pending' = [pending EXCEPT ![c] = "expired"]
  /\ UNCHANGED <<checkout, account, sub, stripe, events, recorded, answered, hook, repeats, breaks,
                 inOrder, lapses>>

-----------------------------------------------------------------------------
(* Stripe *)

Raise(kind, c, status) ==
  /\ Len(events) < MaxEvents
  /\ events' = Append(events, [kind |-> kind, of |-> c, status |-> status])
  /\ stripe' = [stripe EXCEPT ![c] = status]
  /\ UNCHANGED <<pending, account, sub, recorded, answered, hook, repeats, breaks, inOrder, lapses>>

Pay(c) ==
  /\ checkout[c] = "open"
  /\ checkout' = [checkout EXCEPT ![c] = "paid"]
  /\ Raise("completed", c, "active")

SubscriptionChanges(c) ==
  /\ stripe[c] \in {"active", "past_due"}
  /\ UNCHANGED checkout
  /\ \/ \E status \in {"active", "past_due"} \ {stripe[c]} : Raise("updated", c, status)
     \/ Raise("deleted", c, "canceled")

-----------------------------------------------------------------------------
(* stripeWebhook *)

Earlier(id) == {d \in DOMAIN events : d < id /\ events[d].of = events[id].of}

\* Nothing earlier of the subscription is left to do, and nothing of it is being done.
OrderKept(id) ==
  id \in recorded \/ /\ Earlier(id) \subseteq recorded
                     /\ \A h \in Hooks : hook[h].at # "idle" => events[hook[h].event].of # events[id].of

\* Stripe delivers until it is answered, and now and then once more.
Request(h, id) ==
  /\ hook[h].at = "idle"
  /\ IF id \in answered THEN repeats < MaxRepeats /\ repeats' = repeats + 1 ELSE UNCHANGED repeats
  /\ id \in answered \/ \A o \in Hooks : hook[o].event # id
  /\ hook' = [hook EXCEPT ![h] = [at |-> "lookup", event |-> id]]
  /\ inOrder' = (inOrder /\ OrderKept(id))
  /\ UNCHANGED <<stripeVars, pending, account, sub, recorded, answered, breaks, lapses>>

Step(h, place) == hook' = [hook EXCEPT ![h].at = place]
Event(h) == events[hook[h].event]

Acknowledge(h) ==
  /\ hook' = [hook EXCEPT ![h] = Waiting]
  /\ answered' = answered \union {hook[h].event}

\* Mutant of Processed: an event delivered again is handled again.
ProcessedNever(id) == FALSE

Processed(id) == id \in recorded

Lookup(h) ==
  /\ hook[h].at = "lookup"
  /\ IF Processed(hook[h].event) THEN Acknowledge(h)
     ELSE Step(h, IF Event(h).kind = "completed" THEN "pending" ELSE "apply") /\ UNCHANGED answered
  /\ UNCHANGED <<stripeVars, pending, account, sub, recorded, repeats, breaks, inOrder, lapses>>

FindPending(h) ==
  /\ hook[h].at = "pending"
  /\ Step(h, IF pending[Event(h).of] = "none" THEN "record" ELSE "user")
  /\ UNCHANGED <<stripeVars, pending, account, sub, recorded, answered, repeats, breaks, inOrder, lapses>>

\* Mutant of AfterUser: the registration is deleted before the subscription is written.
AfterUserRemove(exists) == IF exists THEN "remove" ELSE "insert"

AfterUser(exists) == IF exists THEN "upsert" ELSE "insert"

FindUser(h) ==
  /\ hook[h].at = "user"
  /\ Step(h, AfterUser(account))
  /\ UNCHANGED <<stripeVars, pending, account, sub, recorded, answered, repeats, breaks, inOrder, lapses>>

\* A second account for the address is refused by the database; the error is answered with 200.
InsertUser(h) ==
  /\ hook[h].at = "insert"
  /\ account' = TRUE
  /\ IF account THEN Acknowledge(h) ELSE Step(h, "upsert") /\ UNCHANGED answered
  /\ UNCHANGED <<stripeVars, pending, sub, recorded, repeats, breaks, inOrder, lapses>>

UpsertSubscription(h) ==
  /\ hook[h].at = "upsert"
  /\ sub' = [of |-> Event(h).of, status |-> "active"]
  /\ Step(h, "remove")
  /\ UNCHANGED <<stripeVars, pending, account, recorded, answered, repeats, breaks, inOrder, lapses>>

RemovePending(h) ==
  /\ hook[h].at = "remove"
  /\ pending' = [pending EXCEPT ![Event(h).of] = "none"]
  /\ Step(h, "record")
  /\ UNCHANGED <<stripeVars, account, sub, recorded, answered, repeats, breaks, inOrder, lapses>>

\* Mutant of StatusOf: the status is taken from the event's name.
StatusOfKind(event) == IF event.kind = "deleted" THEN "deleted" ELSE event.status

\* Mutant of StatusOf: a subscription that is updated counts as active.
StatusOfActive(event) == IF event.kind = "deleted" THEN "canceled" ELSE "active"

StatusOf(event) == IF event.kind = "deleted" THEN "canceled" ELSE event.status

\* handleSubscriptionUpdated and handleSubscriptionDeleted: the row with that subscription, if any.
ApplyChange(h) ==
  /\ hook[h].at = "apply"
  /\ sub' = IF sub.of = Event(h).of THEN [sub EXCEPT !.status = StatusOf(Event(h))] ELSE sub
  /\ Step(h, "record")
  /\ UNCHANGED <<stripeVars, pending, account, recorded, answered, repeats, breaks, inOrder, lapses>>

\* A second row for the event is refused by the database; either way the answer is 200.
Record(h) ==
  /\ hook[h].at = "record"
  /\ recorded' = recorded \union {hook[h].event}
  /\ Acknowledge(h)
  /\ UNCHANGED <<stripeVars, pending, account, sub, repeats, breaks, inOrder, lapses>>

Break == breaks < MaxBreaks /\ breaks' = breaks + 1

\* A statement fails: before the lookup is done there is no answer, after it the error is logged
\* and answered with 200.
Fail(h) ==
  /\ hook[h].at # "idle" /\ Break
  /\ IF hook[h].at = "lookup"
       THEN hook' = [hook EXCEPT ![h] = Waiting] /\ UNCHANGED <<answered, lapses>>
       ELSE Acknowledge(h) /\ lapses' = lapses \union {"failed"}
  /\ UNCHANGED <<stripeVars, pending, account, sub, recorded, repeats, inOrder>>

\* The server restarts: the requests get no answer.
Restart ==
  /\ \E h \in Hooks : hook[h].at # "idle"
  /\ Break
  /\ hook' = [h \in Hooks |-> Waiting]
  /\ UNCHANGED <<stripeVars, pending, account, sub, recorded, answered, repeats, inOrder, lapses>>

Handle(h) ==
  \/ Lookup(h) \/ FindPending(h) \/ FindUser(h) \/ InsertUser(h) \/ UpsertSubscription(h)
  \/ RemovePending(h) \/ ApplyChange(h) \/ Record(h)

BillingNext ==
  \/ \E c \in Checkouts : \/ CheckEmail(c) \/ CleanUpAndCreate(c) \/ StorePending(c) \/ TwoHoursPass(c)
                          \/ Pay(c) \/ SubscriptionChanges(c)
  \/ \E h \in Hooks : Handle(h) \/ Fail(h) \/ \E id \in DOMAIN events : Request(h, id)
  \/ Restart

BillingSpec == BillingInit /\ [][BillingNext]_billingVars

-----------------------------------------------------------------------------
(* Properties *)

\* Events of a subscription handled one after the other leave its status at Stripe in the row,
\* once all are answered, though any comes again later, the server restarts in the middle of one,
\* or another subscription of the account gets events meanwhile.
LastWordStands ==
  /\ inOrder /\ lapses = {} /\ sub.of # NoCheckout /\ \A h \in Hooks : hook[h].at = "idle"
  /\ \A id \in DOMAIN events : events[id].of = sub.of => id \in answered
  => sub.status = stripe[sub.of]

\* Once Stripe has its answer for every payment there is an account, with a subscription, though
\* the server restarted in the middle of a handler and events came again or at the same time,
\* unless a statement failed or the registration was cleaned up.
PaidHasAccount ==
  /\ lapses = {} /\ \E c \in Checkouts : checkout[c] = "paid"
  /\ \A id \in DOMAIN events : events[id].kind = "completed" => id \in answered
  => account /\ sub # NoSub

\* What Stripe has told the server, in whatever order and however often, is what the server knows.
EventsCount == LastWordStands /\ PaidHasAccount
=============================================================================
