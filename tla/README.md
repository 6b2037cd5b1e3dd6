# A TLA+ verification of MailFlow

MailFlow is an e-mail campaign product: a React client, an Express/PostgreSQL
backend with a handful of worker processes, and an agent service that drives the
backend through tools. This directory models the parts of it whose correctness is
a matter of concurrency, time and failure, checks the models with TLC and proves
theorems about them with TLAPS. Paths below are relative to
`src/Email_Management-main/backend/src/` unless they start with `src/`.

## The system and its parts

| part | code | state it keeps | what makes it hard | what makes it correct |
|---|---|---|---|---|
| campaign tasks | `workers/emailWorker.ts` (`processCampaign`, `sendRecipient`) | `campaigns`, `recipients`, `email_send_log`; the claimed row in memory | a minutes-long delay between claim and send; every check is stale when used; crash after the hand-over | a row and an address get one message; no row is stranded; caps and send windows hold |
| poll loop | `workers/emailWorker.ts` (`poll` and eight scheduler functions) | none of its own: it selects, then writes | each write repeats none, or part, of the tests of the select | pauses end when they should and only then; completion never overtakes a send |
| campaign API | `controllers/campaignController.ts` | the same tables | reads, decides, then writes unconditionally; two requests, or a request and the worker, interleave | a user's pause holds; edits and deletes leave the tables consistent |
| schedules | `lib/dailySendQuota.ts`, `lib/dailySendWindow.ts`, `lib/weekdaySendSchedule.ts`, `lib/campaignPauseSchedule.ts`, `lib/localDateTime.ts` | pure functions of the clock and the row | midnight, time zones, overnight windows | the verdict agrees with the configured days, windows and limits |
| follow-up jobs | `workers/followUpJobWorker.ts`, `lib/sendFollowUp.ts`, `controllers/followUpJobController.ts` | `follow_up_jobs`, `email_replies`, a hold on the campaign | a stop races the final write; crash between SMTP and insert; quota shared with the campaign | a recipient is mailed once; a stop ends the mails; every job settles |
| lead engine: queue | `lib/leadgen/taskQueue.ts`, `workers/leadGenWorker.ts` | `scrape_tasks`; the leases in a worker's memory | any number of workers, lost heartbeats, late completions, retries, shutdown | a task's result counts once; a run ends, and stays ended |
| lead engine: scheduler | `lib/leadgen/scheduler.ts`, `controllers/leadGenController.ts` | `scrape_runs`, `search_schedules` | limits are read before rows are written, by several processes | limits of runs hold; a failing schedule is paused |
| lead engine: companies | `lib/leadgen/resolve.ts`, `workspace.ts`, `compliance.ts`, `taskHandlers.ts` | `companies` and the tables around it, `workspace_leads`, `do_not_collect` | transactions at READ COMMITTED under locks that depend on the data; merges beside the user | one record for a business; merges lose no lead and no rejection; what is erased stays erased |
| sessions | `lib/refreshTokens.ts`, `src/Email_Management-main/web/src/lib/api.ts` | `auth_refresh_tokens`; the cookie | tabs that refresh at the same time, lost answers, an UPDATE that does not see an open transaction | one good token for a login; an ended login has none; own tabs are never taken for a thief |
| billing | `controllers/paymentController.ts` | `pending_registrations`, `subscriptions`, `payment_events` | events repeated, concurrent or out of order | who has paid has an account; the row follows Stripe |
| inbound mail | `workers/imapWorker.ts`, `lib/imapService.ts`, `lib/crm/labelReply.ts`, `lib/crm/needsReply.ts` | `email_replies`, columns of `crm_contacts` | one mail comes in two ways, is labelled from three sides, the copy on the lead is recomputed meanwhile | the lead shows what its replies say; one reminder |
| CRM | `lib/crm/`, `workers/crmWorker.ts`, `controllers/crmPipelineController.ts` | `crm_contacts`, pipelines, stages, rules, `crm_scheduled_follow_ups`, an in-memory queue | events bring up rules that raise events; two workers on one row; the board is edited meanwhile | a lead gets no mail twice, beyond its limit or after a stop; no lead without a stage |
| agent service | `src/Email_agent/agent-service/src` | pending actions in memory or Redis; the session snapshot | confirmations race, calls time out and are repeated, turns overlap | nothing risky without one approval; the wizard does not run ahead of the system |
| MCP server, web client | `src/Email_agent/mailflow-mcp-server/src`, `src/Email_Management-main/web/src` | none that others rely on | - | - |

The campaign worker is one process: one poll loop and one asynchronous task per
active campaign, interleaved at every `await`; the follow-up jobs run inside the poll
loop and share its accounts, quota and campaign row. Lead workers, the CRM worker, the
IMAP worker and the API are processes of their own. All of them meet only in the
database: each reads a status, decides, and writes. The client and the agent service
call the API; the agent does so through the MCP server.

## The modules

| module | models | its state |
|---|---|---|
| `Delivery` | abstract: what a sender promises for every letter: a row of a campaign, or a step of a sequence for a recipient | `stage copies lost` |
| `CampaignStore` | the campaign tables, the clock, and the SQL statements used by several parts | `cstatus reason pausedAt pauseAt sched` (campaigns), `rstatus stamped` (recipients), `sendLog` (today's `email_send_log`), `dow open` (clock), and three history variables: `accepted`, `orphans`, `userPaused` |
| `CampaignTask` | `processCampaign`, `claimBatch`, the `pauseCampaignFor...` functions, `sendRecipient` | `pc[c]` the statement task c is about to run, `row[c]` its claimed recipient, `why first acct` its local variables |
| `CampaignPoll` | one pass of `poll`, function by function | `at` the statement, `todo` the selected candidates, `cur`/`verdict` the write decided on |
| `CampaignApi` | start, resume, pause, full and limited edit, reconciliation after an edit, delete, upload, removal of recipients, delivery reports | `req[c]` the request in flight with what it has read |
| `CampaignSystem` | their composition, crashes and restarts of the worker; the safety properties, the refinement of `Delivery` | `crashes` |
| `CampaignLiveness`, `CampaignDays` | fairness and liveness; the same under a clock that is slow against the poll loop | `passes` |
| `FollowUps` | `runFollowUpJob` statement by statement, claim, recovery and daily resume in the poll, and the requests create, cancel, stop and retry, beside the sends of the campaign; the refinement of `Delivery` | `jstatus waits older over` (`follow_up_jobs`), `retrying`, `run` (place and locals of the runner), `rows counted` (mails and log), `cstatus inHand left otherBusy` |
| `TaskLedger` | abstract: what the task queue promises to a run | `todo done dropped booked` |
| `LeadQueue` | `claimTasks`, `heartbeat`, `recoverStaleTasks`, `processTask` with `completeTask`/`failTask`, `releaseTasks`, `cancelRun`, cooldowns and switches of sources | `tstatus attempts waiting stale` (`scrape_tasks`), `jobs` (calls of `processTask`), `inFlight life release` (a worker) |
| `LeadRuns` | the scheduler: due schedules, `runSearchNow`, `startRun`, `finalizeRuns`, the nightly refresh, edits of a schedule | `rsched rdate` (`scrape_runs`), `nextRun paused fails` (`search_schedules`), `edit`, `asked` |
| `LeadEngine` | the guarantees of the two, the refinement of `TaskLedger`, fairness | - |
| `LeadCompanies` | `upsertCompanyFromBusiness`, `claimDomain`, `mergeCompanies`, `addLeadsForRun`, `applySiteFacts`, `setLeadStatus`, the exports, `eraseIdentifier` | `company ownerOf seen into standing doNot`, `task` (a handler and its transaction), `export` |
| `Sessions` | rotation with its transaction and grace period, reuse, logout, reset, login; `refreshSession` in the tabs | `issued family revoked replaced recent locked`, `tab`, `ender`, `login` |
| `Billing` | checkout, Stripe's events, `stripeWebhook` and its handlers, statement by statement | `checkout pending account sub`, `events recorded answered`, `hook` |
| `Replies` | storing a reply from the mailbox and the webhook, three labellers, the waiting time, reminders, answers | `mailbox posted thread`, `jobs work`, `contact`, `answer` |
| `CrmLead` | one lead: `runRulesForEvent`, its moves and planned follow-ups, `processDueFollowUps` in several workers | `lead planned suppressed queue worker` |
| `CrmBoard` | requests that delete stages and pipelines, create and choose pipelines, write rules, move leads; new leads; rule events | `default stageOf rule card`, `flight` (transactions under way) |
| `AgentActions` | `executePlanStepNode`, the two pending-action stores, `confirm`, `cancel`, `resumePlan`, `McpToolCallerService.call` | `plan record age pausedAt target`, `runner` (each request) |
| `AgentWizard` | the turns of the AI campaign wizard and the session snapshot they share | `session`, `turn`, `created filled written asked` |
| `CampaignSystem_proofs`, `CampaignSends_proofs`, `LeadEngine_proofs`, `FollowUps_proofs`, `LeadCompanies_proofs` (also of `MCShared`), `Services_proofs` (of `Sessions`, `Billing` and `Replies`, and of `MCServices`), `Crm_proofs` (of `CrmBoard` and `CrmLead`), `Agent_proofs` (of `AgentActions` and `AgentWizard`, and of `MCAgent`) | the theorems and their inductive invariants | - |
| `MC...` | instances for TLC | - |

`CampaignStore` ... `CampaignSystem` extend one another, as do `LeadQueue`, `LeadRuns` and
`LeadEngine`. The other modules share no state with one another; `MCServices` and `MCAgent`
check several of them side by side, `MCShared` checks `LeadCompanies` and `CrmBoard` beside the campaigns: a variable
`part` says which one a behaviour is about, and the others rest in their initial state.

Reading the models next to the code:

* An action is what happens between two `await`s that matter: one statement on
  the database, or one hand-over to the SMTP server or another service. The reads that make
  up one decision are taken together; a decision and its write are always two steps, so
  every decision can be stale when it is written, which is where the code is
  exposed. `Select`/`Choose`/`PauseCur` in the poll loop, `req[c]` in the API, `run` in
  `FollowUps`, `hook`, `task` and `turn` hold exactly what the code carries from the read to the write.
* A database transaction is one step where it takes its locks first and decides afterwards
  (`completeTask`, `addLeadsForRun`, the rotation's claim). Where a transaction decides on what
  another may change before it commits, it is split: `LeadCompanies` into statement groups with
  the rows it has written locked until the commit, `CrmBoard` into check, first write and commit,
  `Sessions` into claim and commit with a snapshot for the UPDATE that ends sessions.
* `SetPaused` and `SetRunning` are the UPDATEs by `id` alone: they test nothing,
  as in the code. The UPDATEs that do test a status (`ActivateWrite`,
  `AutoPauseWrite`, `Complete`, `ReleaseRows`) test it in the model.
* `SettleRow` is the pair of UPDATEs on a row and on the rows of the same address
  that are in `sending`. The two are one step: no other statement of the
  worker distinguishes the states in between, as the second one touches only rows
  in `sending` and a campaign has at most one in hand.
* Times are the facts the code derives from them. Campaigns: `pauseAt` and `sched` are
  absent, in the future or due; `pausedAt` names today or an earlier day; the
  weekday counts modulo `Week`; `open` says whether the time lies in the send
  windows; `Midnight` empties `sendLog`. Lead engine: `stale` and `waiting` name the tasks whose
  heartbeat is old or whose backoff is not over; two ticks of `now` are a day. Sessions: `recent`
  is the grace period. Billing: a registration is fresh or expired.
* A value written back later than it was read (`pause_at` in an edit or a start)
  may have become due in between: `Restored`.
* A crash takes a worker's memory and leaves the tables. The API process does not
  crash in the campaign model: a handler that dies between two writes is a prefix of its steps,
  and the next request on that campaign would have to wait for it; this loss is not covered.
* History variables (`accepted`, `orphans`, `userPaused`, `tally`, `mails`, `unrecorded`, `ended`,
  `excuses`, `raced`, `late`, ...) are read by properties only. They also name the exceptions: where
  the code keeps a promise only as long as something did not happen, the property says what.

Left out of single modules:

* `LeadQueue`: a handler is its result (follow-up tasks, leads, an error of a known kind); users share
  nothing but workers and sources, so there is one.
* `LeadCompanies`: one user; a phone number stands for the phone or the map spot by which records of
  one name match; people, e-mail addresses and the quotas of `addLeadsForRun` (which are in `LeadQueue`).
* `Replies`: the two statements that update the lead after a label are one step; `snoozed_until` is not
  kept; the SMTP call and the INSERT of an answer are one step.
* `CrmLead`: when a follow-up is due is left open; a lead has one waiting follow-up at a time.
* `CrmBoard`: names, colours, the order of stages, `updateStage`, stage history, tags, the rules a
  template brings, the move to a lost stage after a bounce; a template has at most one stage; an event
  moves its lead once.
* `AgentActions`: a plan is a sequence of at most three tools that stand for the safe, the creating and
  the risky ones.

## Bounds

Every bound is a constant: `MaxRequests`, `MaxCrashes`, `MaxStops`, `MaxFaults`, `MaxTokens`, `MaxEvents`,
`MaxAsked` and so on limit what the outside does; sets of actors have two members, since every race in
the code is one of two writers of a row (a third adds length, not a new kind of order). `Week` is the
number of days of the weekday counter. `Reportable` and `EditChoices` switch off what a run is not about. One
campaign with two rows shows everything one task can do to a row and its twin; two
campaigns with two accounts show the sharing of limits and the choice of the next account. A day
after which the counters restart and a weekday after which the week wraps come
with `Week` 1 or 2 because only "allowed today or not" is ever read. Two lead workers, one of which
stops or crashes, and `MaxAttempts` 2 let a lease be lost, recovered, given back and used
again; `MaxTicks` 2 spans two days; two failed runs pause a schedule. Three rows of
`auth_refresh_tokens` let one token be rotated twice, or a second login begin. Three Stripe events are a payment, a change and
a second one in either order. Three businesses that match by domain, by source id and by place
make every kind of match and every pair that merges. The board starts with two pipelines,
a rule and up to two leads, so that two requests are enough for every pair to overlap.
Every action of every module fires in a passing run.

## What the runs check

| run | instance | properties |
|---|---|---|
| Send | one campaign, two rows of one address, failing statements, a crash, delivery reports, 4 requests (1.0 M states) | `TypeOK`, `AtMostOneMail`, `AtMostOneMailPerAddress`, `SendingHasOwner`, `CompletedLeavesNothingInHand`, `DeliveryHolds` |
| Schedule | cap of one a day, a weekday of two, a window, a run duration (2.4 M) | `DailyCapKept` |
| Edit | a scheduled campaign with window and fixed pause time, edited twice (3.7 M) | `PauseHolds` |
| Shared | side by side: two campaigns with three rows, two shared accounts, a forced start; two discovery tasks over three businesses with three acts of the user or erasures; two overlapping requests on a board (586 k) | `AccountOvershootBounded`; `CompaniesTypeOK`, `MergesKeepLeads`, `NoTwinUnderOneLock`, `ErasedStaysErased`; `BoardTypeOK`, `BoardInOrder` |
| Live | two days' work under a cap of one (51 k) | `RowsSettle` |
| Days | a closed window and a slow clock (181 k) | `SchedulePauseEnds` |
| FollowUps | one job with a run duration, two recipients, a campaign beside it, an account that sends one mail a day, an open day of two, two requests, a fault (494 k) | `TypeOK`, `FollowUpsHold`, `LimitExceededByOne`, `JobSettles` |
| LeadQueue | one run, a discover task and those of two companies, two workers, a stop or crash, retries (38 k) | `LeaseUnique`, `ClosedRunIsSettled`, `LeadsWithinLimits`, `ClosedRunsStay`, `ImplementsLedger`, `RunEnds` |
| LeadRuns | two runs on demand or by schedule and the nightly one over two days, edits of the schedule (567 k) | `TypeOK`, `RunsWithinLimit`, `FailuresPause` |
| Services | side by side: two tabs and three tokens; two checkouts, three events and two requests; a mail that comes in both ways and two rows; a lead under five rules, two workers, three follow-ups (1.8 M) | `TypeOK`; `LoginsHold`; `EventsCount`; `ContactFollowsReplies`; `MailsWithinLimits` |
| Agent | side by side: two plans in both stores, two confirmations and a cancellation; two turns of the wizard (1.3 M) | `TypeOK`, `ApprovalHolds`, `PlanStepsHold`, `ConfirmedEnds`; `WizardInStep` |
| ResumedPlan | the same | `EachRiskIsAskedFor`, violated |

Several of these are conjunctions of named statements about one thing, each with its comment in the
module: `DeliveryHolds` (`ImplementsDelivery`, `SettledRowsStay`); `RowsSettle` (`ClaimedRowSettles`, `EveryRowSettled`); `FollowUpsHold` (`ImplementsDelivery`, and `NoExtraMails`: `RepeatNeedsLostRow`,
`OneMailAfterStop`); `LoginsHold` (`OneLiveToken`, `EndedStaysEnded`, `NoFalseReuse`, `SignedOutIsEnded`); `EventsCount`
(`LastWordStands`, `PaidHasAccount`); `ContactFollowsReplies` (`LabelOfNewest`, `WaitsWhenItShould`,
`ManualLabelStays`, `CopiesNeedFaults`, `OneReminder`); `MailsWithinLimits` (`MailedOnce`, `WithinLeadLimit`,
`OnceAVisit`, `SilentAfterStop`); `MergesKeepLeads` (`NoLeadStranded`, `RejectionHolds`); `BoardInOrder`
(`StraysAreLate`, `StaleRulesAreOff`, `DefaultIsOne`); `ApprovalHolds` (`ApprovedOnce`, `RiskNeedsApproval`); `PlanStepsHold`
(`RepeatsAreLostAnswers`, `NothingAfterFailure`, `StartsWhatItCreated`); `WizardInStep` (`AskedIsCounted`,
`OldLaunchNeedsRefusedCreate`, `AskedIsWritten`, `NotYetCreated`). Beside the definitions that a property is
about stand their mutants ("Mutant of ..."): plausible bugs that make TLC find the property violated.

What the runs show, in words:

* Campaigns. Pauses, resumes, edits, uploads, deletions, reports and
  failing statements can fall anywhere into a send, and still a row gets a second message only
  after a crash between the server's acceptance and the UPDATE of the row, and
  an address only when the first send left no `message_id` behind. No
  row is stranded in `sending` but by a crash. The campaign's own cap is exact although it is
  checked minutes before the send, because only its own task adds to its count; an
  account's cap is not, but its overshoot is smaller than the number of campaigns
  that share it. A pause by the user holds once the decisions taken before it have drained.
* Follow-up jobs. A recipient gets a second follow-up of the same step only if the `email_replies` row of
  the first was not written; a stop lets one mail through, the one in hand; a job and its
  campaign exceed the account's limit by one. Every job is settled, through quota pauses, blocked days and crashes.
* Lead queue. A task is settled once and its result booked exactly once, whoever loses a lease; two calls hold the
  same lease only while a worker puts its tasks back at shutdown; a closed run has no open task
  and stays as it was closed; limits of leads and runs hold although they are checked before rows are written; every run ends.
* Companies. A record is made beside one that would have matched only under another lock; a lead or a
  rejection is lost in a merge only if somebody else was at one of the two records; an erased domain
  comes back only by a task that had asked before, or by a redirect.
* Services. A login has one good token; it is lost to the user's own tabs only with a lost answer or one that came after the
  grace period. Stripe's events lead to its status when those of one subscription are handled in order, and a
  payment to an account unless a statement failed or the registration had been cleaned up. The
  lead's copy of label and waiting time follows its replies, and a waiting time gives one reminder unless the user or a "gone" begins it anew. Rules that bring up one another keep the limits of a lead.
* Board. A lead without a stage, a rule for a stage that is gone and a second default come only from
  requests that overlap a deletion or another change of the pipelines.
* Agent. In memory one approval is acted on; a step takes effect twice only for an answer that was lost; nothing
  follows a failed step; a plan starts the campaign it created.

### Fairness

Campaigns: `FairSpec` assumes weak fairness of every task, of every handler that has begun, of the
poll loop and of midnight: the event loop of Node runs every ready continuation, every
statement and every SMTP exchange returns or throws (pool and socket time-outs), and
`poll` re-schedules itself whatever happened in a pass. Nothing is
assumed of the user, of schedules or of windows. `SchedulePauseEnds` needs more:
the poll loop tests the window once in a pass, so under weak fairness alone the window
could close before every test. `CampaignDays` adds that a day or a
window outlasts one whole pass (`passes`), which holds with passes of two seconds;
it would not hold while a follow-up job keeps the loop busy for minutes.

Lead engine: weak fairness of a claim by some worker, of recovery, of the steps of a shutdown, of every handler
that has begun, of `finalizeRuns`, of the end of a backoff, and of the ageing of a heartbeat that no worker renews.
The loops of `leadGenWorker.ts` re-arm their timers in `finally`, handlers run under time-outs, a worker
that is down is started again by its supervisor. No worker in particular is assumed to go on.

Follow-up jobs: the runner goes on and the poll comes round on the days on which it has the time. Both are strong
fairness, as midnight and the campaign's holds disable them again and again: a day has time for some of the work, not
for all. Days pass, the time of a run passes, another campaign on the account ends, a mail under way is logged.
A restarted worker is the poll from its beginning.

Agent: a request once begun is run to its end by its process (`Call`, `TurnRuns`, `RequestRuns`); every
call of a tool has a time-out.

### The delivery

`Delivery` says what becomes of a letter, without campaigns, jobs, statuses or processes: it enters, waits, is taken, and either
let go of or mailed, which counts a copy; it is closed from any of these places, and letting go of a letter that was mailed and not closed
counts its copy as lost. Two components implement it.

For campaigns a letter is a recipient row, and `Stage` maps a row
of `CampaignSystem` to its place: "taken" as long as a task holds it before the hand-over, whatever pauses, reports and deletions
make of its status meanwhile; "mailed" between the acceptance and the UPDATE; otherwise as its status says, where a row left in `sending` waits like
one in `pending`. A claim is `Take`, the hand-over `Deliver`, an upload `Enter`; giving back, the pauses with a row in hand, a
refused message and a crash are `Release`; settling, reports and deletions are `Close`; everything else is a stutter.

For follow-ups a letter is a step of the sequence (a value of `prior_follow_up_count`) for one recipient. It waits while the recipient
has at most so many follow-ups, and is closed when there are more. The selection at the start of a run is `Take`, of all eligible
recipients at once; the mail is `Deliver`; the INSERT of the row, and a follow-up by the user, are `Close`. Whatever makes the runner drop recipients is
`Release`: a blocked lead, a failed mail, a stop it notices, a final status, a crash; a mail whose row was not written is lost with it.

From the delivery alone it follows (proved for the steps of a sequence, from no more than the delivery) that a letter has at most one copy more than it has lost, and nothing but lost ones
while it is not out (`OnceUnlessLost`).

### The ledger

`TaskLedger` says what a run may rely on, without leases, attempts or workers: tasks are added, each is settled once as done or dropped,
and its result is booked when it is settled as done, together with its follow-up tasks. `LeadEngine` maps `todo` to the tasks that are pending
or running, `done` and `dropped` to the final states, `booked` to `tally`, which counts the additions to
the stats of the run. Heartbeats, claims, recoveries with attempts left, releases and everything
about schedules are stutters; a completion under a valid lease is `Book`; a final failure, a cancellation and skipping
are `Drop`; starting a run is `Add`. `ImplementsLedger` is checked by TLC and proved.

## Statements the code does not keep

`ResumedPlan` ends in a counterexample: `planExecution.service.ts:54` runs all steps behind
the confirmed one, and line 11 of the file promises "subsequent safe steps".

`LeadCompanies` and `CrmBoard` end with six more statements, each of which TLC finds violated when it
takes the place of the properties of `Shared.cfg`:

| definition | statement | what happens |
|---|---|---|
| `RejectedNeverReturns` | "A rejected lead never comes back." (`src/Email_Management-main/docs/LEAD_ENGINE.md`:82) | a merge compares the statuses, the user rejects, the merge deletes the row (`resolve.ts:325`) |
| `NeverMadeTwice` | "two workers never create the same company twice" (`resolve.ts:186`) | the lock is the domain for one source and the name for another (`:237`) |
| `EveryCollectorAsks` | "`do_not_collect`, which every collector checks" (LEAD_ENGINE.md:91) | the target of a redirect is not asked for (`resolve.ts:477`) |
| `LeadsAreMoved` | leads in a stage must be moved first (`crmPipelineController.ts:396`) | a lead comes between the move and the deletion (`:441`) |
| `RulesAreTurnedOff` | rules of the stage are turned off, not deleted (`:397`) | a rule checked before is written after (`:441`) |
| `OneDefault` | "Default pipeline: one per user." (`docs/CRM.md:46`) | `createPipeline` and `ensureDefaultPipeline` take different locks |

Met while modelling, without a definition of their own:

* a manual pause never resumes by itself (SCENARIOS.md): a resume selected before the pause is written after it
  (`emailWorker.ts:882`); `PauseHolds` names this exception;
* the cap per account is not affected by sharing (SMTP_IN_USE_GAP.md): two campaigns pass the check with one message left;
* no sending on a wrong weekday (SCENARIOS.md): the delay passes midnight and the weekday is not read again;
* one SMTP account, one campaign at a time (`dailySendQuota.ts`): the activation by schedule does not ask;
* only draft, paused or scheduled campaigns can be edited (`campaignController.ts`): the UPDATE does not test the status the handler has read;
* the last day ends with "50 sent, complete" (SCENARIOS.md): the task pauses for the cap first, and nothing resumes or completes a pause without pending rows;
* resuming outside the window is an error (SCENARIOS.md, lines 33 and 78): `resumeCampaign` does not look at the window;
* an auto-pause is never resumed (lines 88 and 300): one for the run duration is, on a later day;
* only one row is ever in `sending` (RT-07, `emailWorker.ts:43`): a crash leaves more;
* "Manual labels are never overwritten" (`labelReply.ts:82`): a classification that had read the source before overwrites one; `ManualLabelStays` names the exception;
* the confirmation is atomic (`agent.controller.ts:184`): in Redis it is a read and a write, and `ApprovedOnce` holds for the store in memory only;
* a stopped follow-up job sends no more: it sends the mail in hand, and a job that `retryFollowUpJob` has read before the stop goes on;
* running tasks of a cancelled run "finish but add no follow-ups" (head of `taskQueue.ts`): a completion that has read the run before adds them; `ClosedRunsStay` names the exception;
* `addLeadsToCampaign` tests the status of the campaign before its transaction (`workspace.ts:280`).

SCENARIOS.md is `src/Email_Management-main/docs/CAMPAIGN_SCHEDULING_SCENARIOS.md`.

## What is proved

Every theorem is about `Spec` (or the component's own specification, `SessionSpec`, `BillingSpec`, `ReplySpec`,
`CompaniesSpec`, `BoardSpec`, `LeadSpec`, `ActionSpec`, `WizardSpec`) and holds for all values of the constants that satisfy the named
assumptions, `...Assumption` in each module. These say that bounds are natural numbers, that special values are no members of the
sets, and where something is counted that it is finite: `FiniteAssumption` (campaigns), `QueueAssumption` and `RunsAssumption`
(runs, companies), `AgentActionsAssumption` (requests; plans have at most `MAX_PLAN_STEPS` = 3 steps). `BoardAssumption` asks in
addition for room for one pipeline more than the first and for the three stages a pipeline is created with. Sets of rows, tasks,
workers, tabs, checkouts, leads, requests, turns and so on are arbitrary. The parts of every inductive invariant were checked by TLC before they were proved.

`CampaignSystem_proofs`:

* `TypeCorrect`: `Spec => []TypeOK`. The type of `accepted` after a hand-over needs the task
  to hold a row, so the induction carries `RowHeld`: from the claim to the end of a send
  the task holds a row, of its own campaign, and between two rows none.
* `NoSecondMail`: `Spec => []AtMostOneMail`. The property is not inductive: nothing in it says
  that the row about to be handed over has not been mailed. `MailInv` says, for every row: as long as its status
  lets it be claimed (or it is not uploaded yet), or a task holds it before the hand-over,
  no accepted message of it is unaccounted for; the one exception is a row between
  the acceptance and the UPDATE (or the catch block) that follows it. The step lemmas
  use that a task touches rows of its own campaign only (`TaskLocal`), that nobody but a task
  revives a settled row (`OthersAside`), and that a crash adds exactly the row in hand to `orphans`
  (`CrashMailed`).
* `NoStrandedRow`: `Spec => []SendingHasOwner`, with the same lemmas; the property itself is
  inductive relative to `RowHeld`.
* `Inductive`: the invariant behind both.

`CampaignSends_proofs` goes on from there:

* `InductiveRows`: `RowsInv` ties the status of a row to the place of the task that holds it: not settled before the
  UPDATE, settled and with its `message_id` after it, and only a failing statement leads from there to the catch block.
* `SettledStay` (an action property, one half of `DeliveryHolds`) and `CompletedIsEmpty` follow from it; for the second, what a task does in a
  campaign that is complete is bounded place by place (`Emptied`).
* `NoSecondMailToAddress`: `AddressInv` relates two rows of one address: one that was mailed has a `message_id`, is excused or is just
  being marked, and a row is at the server only while none of its twins is known as sent.
* `DailyCapHolds`: `Room` says that from the check of the cap to the log entry there is room for one more in the log.
* `OvershootBounded`: `Bounded` adds the sends that are under way to those that are logged; a task that
  comes to use an account has found quota on it (`PickReserves`), and one campaign holds one message, so that the sum stays below the
  limit plus the number of campaigns that share the account. Counted with the library's theorems on finite sets.
* `UserPauseHolds` (an action property): by the shape of each step that could resume a campaign.
* `RowsAreDelivered`: initial states map to initial states, and each action to a step of `Delivery` or a stutter. A step that is not one of the
  row's own task closes it, uploads it or leaves it where it is (`BesideStage`, `OthersDeliver`); a task's statements are sorted by what they do to
  the row in hand and to the others (`SettledStage`, `PlainBeside`, `PlainOwn`). That the hand-over leads to "mailed" needs `LostInv` (no more
  messages are lost than were accepted), that a refused message is put back needs `MailInv`.

`LeadEngine_proofs` (queue and scheduler):

* `TypeCorrect`: tokens stay within `MaxAttempts` only because a task that can be claimed has an attempt left
  (`AttemptsLeft`), which is part of the induction.
* `RunsCloseSettled`, `RunsStayClosed`: `Inv` adds that while a completion is in its transaction the task is still
  running and no other completion of it is (`OneCommit`: the row is locked), and that tasks exist only for runs that were
  started (`StartedTasks`). `TaskShape` and `RunShape` say once for every action how it may move tasks and runs; the
  theorems follow from the shapes: a step that opens a task belongs to a run with a running task, or to a start.
* `QueueImplementsLedger`: initial states map to initial states (`InitLedger`), and each action to a
  ledger step or a stutter (`StepLedger`).
* `RunsLimited`, `FailuresArePaused`, `LeadsStayWithinLimits`: counting arguments over finite sets (`UnionSize`).
* `LeasesUnique`: `LeaseInv` says that nobody holds a token that was not given out, that a lease has one holder, which for a
  worker that puts its tasks back is what it still has to put back (`Holds`), and that a worker has one call for a lease;
  a step either leaves no new holder (`FewerLeaseInv`) or is a claim or a release of a task.

`FollowUps_proofs`:

* `TypeCorrect`, with `RunHolds`: at which place the runner has a job, a recipient, a message without a row, a verdict. That a round has a
  first recipient (`LeastExists`) is the well-foundedness of the natural numbers.
* `OnlyAskedMails`: `Recorded` (one mail of a step has its row, and moves the recipient on) and `ToDoUnmailed`
  (who is still to do in a running job, although selected once, has no recorded mail of the step) exclude repetitions; `StopInv` says that
  the one mail after a stop has not gone out yet while the job is between its last look at its status and the message.
* `LimitHolds`: `LimitInv` counts what the job and the campaign have in hand.
* `StepsAreDelivered`: the jobs implement the delivery, by the same two invariants. That a recipient who is selected was waiting needs no more than the
  filter; that the row of a mail closes the letter needs that nobody still to do has fewer follow-ups than when selected (`ToDoUnmailed`).
  Every statement that writes neither a mail nor a row either leaves what is in hand or lets go of some of it (`Leaving`, `OthersDeliver`).
* `DeliveryMailsOnce`: the delivery of the steps implies `OnceUnlessLost`, whatever the jobs do. It is not inductive: a letter that is let go of
  while it is mailed has nothing but lost messages only if it had exactly one that was not lost (`LetterHolds`). `StepsMailedOnce` puts the two together.

`Agent_proofs`, on plans:

* `ActionsTypeCorrect`, with `TurnInv` and `RequestInv`: who may call tools, and from which step on.
* `ApprovalIsAskedFor`: in memory a request has at most one approval, and none while its record says otherwise
  (`DecidedOnce`); an effect of a risky step needs an approval (`RiskIsApproved`).
* `PlanStepsInOrder`: effects count runs and lost answers (`EffectsAreRuns`), no step beyond the furthest runner has any (`StepReached`), a failed step
  is the last one (`FailedIsLast`), and a target taken from the session is the campaign the plan created (`SessionIsTarget`).

and on the wizard:

* `WizardTypeCorrect`: every snapshot that is stored or copied is one the code can have.
* `WizardStaysInStep`: the stored snapshot and every turn's copy is sound for its step (`SnapshotsInv`: counted, new, written), except
  for what the tool of the turn is still to do; two overlapping turns both keep that, so that whichever is saved last leaves a sound snapshot.
  `CreationInv` says that without a meddling event turns do not overlap and nothing is created before its step.

`Services_proofs`, on sessions:

* `SessionsTypeCorrect`, with the numbering of tokens and families and what each request carries.
* `LoginsAreSound`: all four statements of `LoginsHold`. `Rotations` (the lock of a token is held by one rotation, and the token is good) gives
  `OneLiveToken`; `EndInv` and `RevokedInv` follow the UPDATE that waits for a lock; `FetchedInv` says that the token of an answer under way is used by nobody;
  `CookieInGrace` and `SentInGrace` keep, without a loss or a late answer, a spent token that some tab may still present within its grace period;
  `TabsTakeTurns` and `NoneSpentUnderLock` are for browsers with `navigator.locks`.

on billing and inbound mail:

* `BillingTypeCorrect`, `EventsCountHold`: `EventsInv` (a subscription begins with its completed checkout and is at Stripe as its last event says)
  and `HooksInv` (who handles which event) carry two arguments. `AccountInv`: as long as there is no subscription, an account has
  an event that Stripe delivers again and whose handler does not go to the INSERT, the only place where a second account is refused
  and answered with 200. `OrderInv`: when events are begun in order, what is recorded has no gap and a subscription
  one handler, so that the row has the status of an event (`Stands`) after which nothing is recorded, answered or about to be recorded.
* `ReplyTypeCorrect`, `ContactFollows`: all five statements of `ContactFollowsReplies`. `LabelInv`: the label of the newest labelled
  reply is on the lead or its copy is under way. `WaitInv`: when all is labelled, copied and answered, the waiting time is that
  of the rows, because whatever changes the rows leaves a look at them to do (`WorkInv`). `HandInv`: nobody is at a reply whose label counts as
  the user's. `CopiesInv` counts copies of a mail by the way each came. `ReminderInv` adds to the reminders of a row the one that is due
  and the one that the next look at the rows may bring: the lemmas `SinceAppended` and `SinceRelabelled` say of any two
  threads how a new row or a new label moves the start of the waiting time, so that only a step of the user or
  a later "gone" makes room for another reminder. That last clause takes three rows, more than the run has: the proof covers it.

`LeadCompanies_proofs`, from one invariant, `CompaniesInv`:

* `CompaniesTypeCorrect`; `IntoInv`: records are joined to older ones, so that `Root`, the record a company lives on in, exists
  (`RootExists`, by the least counterexample) and a merge moves just the followers of the lost record (`RootJoined`).
* `LeadsSurviveMerges`: who has a lost record in memory, or has a lead for it, was at it or had collected it when it was joined (`MergedInv`),
  and a rejection about to be overwritten is in a history (`ExportInv`). `JoinRejection` splits a merge by where the rejected lead is: when
  nobody disturbs it, the better status was chosen from what the leads still are (`JoinInv`), and rejected is the best.
* `OneRecordUnderOneLock`: two transactions have different locks (`LockInv`), and one that is to make a record found none, nor has one been written
  under its lock since (`TwinInv`). Preparing this proof showed that a merge counts as a write under the lock: it
  can give the older record, made under the same lock, the phone that would have matched. The businesses of the run do not reach that case.
* `ErasedDomainsStayErased`: what a task has to do was asked of `do_not_collect` (`ClearInv`).

`Crm_proofs`, of the board, from one invariant, `BoardInv`, with one lemma for each way a step changes the board (`LeavesTheBoard`,
`PlacingStep`, `GrowingStep`, `RulingStep`, `StageGoesStep`, `PipelineGoesStep`), to which the lemmas of the requests lead:

* `BoardTypeCorrect`: ids are given once (`IdsInv`), so that a deleted stage never comes back under a rule or a request that still names it.
* `BoardStaysInOrder`: each request carries what it relies on (`Sound`). `StageDeletion` and `PipelineDeletion`: once the leads have been
  moved, a lead that is there although the request did not move it is `late`, and a rule that names the stage although
  it was not turned off is `unsure`; a target to which leads were moved exists until the commit, because the moved leads
  are locked and its own deletion would have to move them. `RuleWriting` and `LeadMove`: what was checked is
  on the pipeline of the rule or gone. `LeadArrival`, `LeadEvent`: a lead is held by one request. `DefaultsInv`: as long as no two changes
  of the pipelines have overlapped there is one default, at most one such request is under way, and what it read is still so.

and of the lead, for any pipeline, any rules and any number of workers, from `LeadInv`:

* `LeadTypeCorrect`: rules and moves stay within the pipeline; a planned follow-up names a rule and a visit there has been.
* `MailsStayWithinLimits`: all four statements of `MailsWithinLimits`. None of them is inductive: what a worker may still send is not
  in them. `RowsBudget` counts it. `Chances` are the mails that went out, the workers on their way to one, and the rows that
  may still be taken, those a crash left in "sending" included; there are no more of them than rows that count (neither
  cancelled nor failed), and than the lead's limit, plus the mishaps. `InHand`, workers and rows that may be taken, stay
  within the rows that are pending or in "sending", of which there is at most one. Since a row that counts always has a chance, a second
  mail of a row would need a mishap (`MailedCounts`), and with `RowsOnce` (a rule plans one row in a visit) so would a second mail of a
  rule. `SilenceInv` adds to the mails after a stop the workers whose checks are done: whoever comes to check later turns back.
  What a rule does to the lead and its rows keeps all this (`RuleKeeps`), so a pass over the rules and the passes of an event do
  (`RulesRunKeeps`, `PassesKeep`): they are recursive functions over the rules and over the passes, which exist, and stay in a set that each step
  stays in, by the least counterexample (`UpTo`).

The compositions. Three instances run parts that share no state side by side. That a property of a part holds in the composition is a theorem
too: a step of the composition is a step of one part and a stutter of the others, so that its specification implies that of every part
(`EachServiceRuns`, `EachConversationRuns`, `EachPartRuns`), and what was proved of the parts follows for the whole:

* `ServicesTypeCorrect`, `ConversationsTypeCorrect`: `Spec => []TypeOK` of `MCServices` and of `MCAgent`.
* `ServicesKeepTheirPromises`, `ConversationsKeepTheirPromises`, `CompaniesKeepTheirPromises`: every safety property that the runs Services and Agent
  check, and those that the run Shared checks of companies.

Model-checked only: liveness under fairness (`RowsSettle`, `SchedulePauseEnds`, `JobSettles`, `RunEnds`, `ConfirmedEnds`), which is out of the
prover's reach. Every other property of a passing run is a theorem. No module uses a RECURSIVE operator.

## What is not modelled

* The web client's pages, the MCP server's tools (each checks its arguments and forwards one call), the formatting and wording
  of mails and answers, intent detection and the agent's read-only conversations: no state that other parts rely on. They are most
  of the code by size.
* Campaigns: deleting an SMTP profile, changing the settings of a campaign other than its times (limits, days,
  windows and accounts are constants), statistics, notifications, templates; failures of statements outside the try
  block of `sendRecipient` and in the poll loop, which end a pass early; the limit of 50 tasks (`p-queue`). The
  time zone of the database session is taken to be that of the schedule.
* Lead engine: the scraping itself, people and enrichment; several users.
* Sessions: registration, mailed codes, the upgrade of old cookies. Billing: plans, portal.
* CRM: tags, scores, forms, notifications, web tracking. Inbound mail: matching a reply to a recipient.
* Agent service: the enrichment, outreach and bulk conversations.

## Plan

Done: the campaign modules and the follow-up jobs with their abstract delivery and its two refinements; the lead engine with its abstract ledger and refinement;
companies; sessions, billing, inbound mail, CRM; plans and wizard of the agent; proofs of every safety property of the
campaigns, the follow-ups, the lead engine, companies, sessions, billing, inbound mail, the CRM, and the agent, and of their compositions. Left:

1. `SendSchedule`: windows, weekdays, limits and pause times as functions, against reference definitions.
2. The outreach and bulk conversations of the agent; people and enrichment of the lead engine; tags and forms of the CRM.
