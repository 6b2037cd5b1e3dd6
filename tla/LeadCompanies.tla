--------------------------- MODULE LeadCompanies ---------------------------
(***************************************************************************)
(* The master data of the lead engine and the lead list of one user: task  *)
(* handlers turn what the sources find into company records, each business *)
(* in a transaction of its own, join records that turn out to be one       *)
(* business, and only then add leads; the user answers leads meanwhile,    *)
(* and a domain may be erased at any time.  A statement sees what is       *)
(* committed when it runs, so a transaction is split where it decides on   *)
(* something that another one may change before it is written.             *)
(***************************************************************************)
EXTENDS Integers, Sequences, FiniteSets

CONSTANTS
  Handlers,      \* task handlers at work, of all worker processes
  Businesses,    \* what sources may find: [domain, profile, source, name, phone]
  Redirects,     \* domains that websites may redirect to
  NoKey,         \* a business without domain, profile, source id or phone
  MaxCompanies,  \* bound on companies
  MaxTasks,      \* bound on tasks
  MaxOutside     \* bound on status changes and exports by the user, and erased domains, together

Domains == ({b.domain : b \in Businesses} \ {NoKey}) \union Redirects
Profiles == {b.profile : b \in Businesses} \ {NoKey}
SourceIds == {b.source : b \in Businesses}
Phones == {b.phone : b \in Businesses} \ {NoKey}
Names == {b.name : b \in Businesses}

ASSUME CompaniesAssumption ==
  /\ Businesses # {} /\ NoKey \notin Redirects \union SourceIds \union Names
  /\ Domains \intersect Profiles = {}
  /\ MaxCompanies \in Nat \ {0} /\ {MaxTasks, MaxOutside} \subseteq Nat

CompanyIds == 1 .. MaxCompanies
Standings == {"new", "reviewed", "saved_to_crm", "in_campaign", "rejected"}

VARIABLES
  company,   \* companies: [state, name, phones]
  ownerOf,   \* company_domains and social_profiles: the company of a domain or profile, or 0
  seen,      \* observations of a source id, oldest first: the company, or 0 when it was deleted
  into,      \* entity_merges: the winner a company was merged into, or 0
  standing,  \* workspace_leads of the user
  doNot,     \* do_not_collect: domains
  task,      \* what each handler is doing
  export,    \* an export of a lead under way: [of, to]
  tasks, outside,
  refused,   \* history: companies whose last answer by the user was a rejection
  raced,     \* history: companies joined while somebody else was at them
  overruled, \* history: companies whose lead was rejected while it was exported
  madeBy     \* history: the lock under which a company was last written

handVars == <<export, outside, overruled>>
companyVars == <<company, ownerOf, seen, into, standing, doNot, task, tasks, refused, raced, madeBy, handVars>>

Unused == [state |-> "unused", name |-> NoKey, phones |-> {}]
NoTask == [at |-> "idle", todo |-> {}, ids |-> {}, cleared |-> {}, biz |-> NoKey, id |-> 0,
           win |-> 0, lose |-> 0, raise |-> "none", before |-> <<>>, wrote |-> {}]
NoExport == [of |-> 0, to |-> "none"]
Locks == Domains \union Names

Statuses == Standings \union {"none"}
Companies == [state : {"unused", "live", "merged", "erased"}, name : Names \union {NoKey}, phones : SUBSET Phones]
TaskStates ==
  [at : {"idle", "next", "claim", "merge", "join", "finish", "crawl"}, todo : SUBSET Businesses,
   ids : SUBSET CompanyIds, cleared : SUBSET Domains, biz : Businesses \union {NoKey},
   id : 0 .. MaxCompanies, win : 0 .. MaxCompanies, lose : 0 .. MaxCompanies, raise : Statuses,
   before : {<<>>} \union (Statuses \X Statuses), wrote : SUBSET CompanyIds]

\* Types of the variables; the older of two records is the one that is kept.
CompaniesTypeOK ==
  /\ company \in [CompanyIds -> Companies]
  /\ ownerOf \in [Domains \union Profiles -> 0 .. MaxCompanies]
  /\ seen \in [SourceIds -> Seq(0 .. MaxCompanies)]
  /\ into \in [CompanyIds -> 0 .. MaxCompanies]
  /\ standing \in [CompanyIds -> Statuses]
  /\ export \in [of : 0 .. MaxCompanies, to : {"none", "saved_to_crm", "in_campaign"}]
  /\ doNot \subseteq Domains /\ refused \union raced \union overruled \subseteq CompanyIds
  /\ task \in [Handlers -> TaskStates]
  /\ \A h \in Handlers : task[h].at \in {"merge", "join"} => task[h].win \in 1 .. task[h].lose - 1
  /\ madeBy \in [CompanyIds -> Locks \union {NoKey}]
  /\ tasks \in 0 .. MaxTasks /\ outside \in 0 .. MaxOutside

CompaniesInit ==
  /\ company = [c \in CompanyIds |-> Unused]
  /\ ownerOf = [k \in Domains \union Profiles |-> 0] /\ seen = [s \in SourceIds |-> <<>>]
  /\ into = [c \in CompanyIds |-> 0] /\ standing = [c \in CompanyIds |-> "none"]
  /\ doNot = {} /\ task = [h \in Handlers |-> NoTask] /\ tasks = 0
  /\ export = NoExport /\ outside = 0 /\ overruled = {}
  /\ refused = {} /\ raced = {} /\ madeBy = [c \in CompanyIds |-> NoKey]

-----------------------------------------------------------------------------
(* Matching *)

Present(c) == c # 0 /\ company[c].state = "live"

\* The live company that has a domain or a profile, or 0.
OwnerOf(key) == IF key # NoKey /\ Present(ownerOf[key]) THEN ownerOf[key] ELSE 0

\* The live company that was last seen under a source id, or 0.
SeenAs(s) ==
  LET alive == {i \in DOMAIN seen[s] : Present(seen[s][i])} IN
  IF alive = {} THEN 0 ELSE seen[s][CHOOSE i \in alive : \A j \in alive : j <= i]

\* Live companies of the same name and city with the same phone (or the same spot).
AtPlace(b) == {c \in CompanyIds : Present(c) /\ company[c].name = b.name /\ b.phone \in company[c].phones}

\* findCompanyMatch: the first key that finds a company decides.
Matches(b) ==
  LET found(by, c) == {[by |-> by, id |-> c]} IN
  CASE OwnerOf(b.domain) # 0 -> found("domain", OwnerOf(b.domain))
    [] OwnerOf(b.domain) = 0 /\ OwnerOf(b.profile) # 0 -> found("profile", OwnerOf(b.profile))
    [] OwnerOf(b.domain) = 0 /\ OwnerOf(b.profile) = 0 /\ SeenAs(b.source) # 0 ->
         found("source", SeenAs(b.source))
    [] OTHER -> IF AtPlace(b) = {} THEN found("nothing", 0)
                ELSE UNION {found("place", c) : c \in AtPlace(b)}

\* lockKey: the advisory lock of a business is its domain, else its name and city.
LockOf(b) == IF b.domain # NoKey THEN b.domain ELSE b.name

InTransaction(h) == task[h].at \in {"claim", "merge", "join", "finish"}

\* Mutant of LockFree: the transaction takes no lock.
LockFreeAlways(h, b) == TRUE

LockFree(h, b) == \A g \in Handlers \ {h} : InTransaction(g) => LockOf(task[g].biz) # LockOf(b)

\* Nobody else holds a row of company c that it has written and not committed.
RowsFree(h, c) == \A g \in Handlers \ {h} : c \notin task[g].wrote

\* Mutant of Pair: the record that was found first wins.
PairAsFound(a, b) == [win |-> a, lose |-> b]

\* The older record wins.
Pair(a, b) == IF a < b THEN [win |-> a, lose |-> b] ELSE [win |-> b, lose |-> a]
Joining(t, a, b) == [t EXCEPT !.at = "merge", !.win = Pair(a, b).win, !.lose = Pair(a, b).lose]

-----------------------------------------------------------------------------
(* A discover task *)

SetTask(h, t) == task' = [task EXCEPT ![h] = t]
StopTask(h) == SetTask(h, NoTask)

\* Mutant of Kept: do_not_collect is not asked.
KeptAll(found) == found

\* The source has answered, with each of its ids once; businesses on do_not_collect are dropped.
Kept(found) == {b \in found : b.domain \notin doNot}

Find(h, found) ==
  /\ task[h].at = "idle" /\ tasks < MaxTasks
  /\ \A b, c \in found : b.source = c.source => b = c
  /\ tasks' = tasks + 1
  /\ SetTask(h, [NoTask EXCEPT !.at = "next", !.todo = Kept(found), !.cleared = Domains \ doNot])
  /\ UNCHANGED <<company, ownerOf, seen, into, standing, doNot, refused, raced, madeBy, handVars>>

\* upsertCompanyFromBusiness: the lock, the match, and whether the source id tells of another record.
Resolve(h, b) ==
  /\ task[h].at = "next" /\ b \in task[h].todo /\ LockFree(h, b)
  /\ \E m \in Matches(b) :
       LET t == [task[h] EXCEPT !.at = "claim", !.biz = b, !.id = m.id]
           twin == SeenAs(b.source) IN
       SetTask(h, IF m.id # 0 /\ m.by # "source" /\ twin \notin {0, m.id}
                    THEN Joining(t, m.id, twin) ELSE t)
  /\ UNCHANGED <<company, ownerOf, seen, into, standing, doNot, tasks, refused, raced, madeBy, handVars>>

\* claimDomain, its read.  A record that this transaction has yet to make gives way to the owner.
ClaimWebsite(h) ==
  /\ task[h].at = "claim"
  /\ LET t == task[h]
         owner == OwnerOf(t.biz.domain) IN
     SetTask(h, IF owner \in {0, t.id} THEN [t EXCEPT !.at = "finish"]
                ELSE IF t.id = 0 THEN [t EXCEPT !.at = "finish", !.id = owner]
                ELSE Joining(t, owner, t.id))
  /\ UNCHANGED <<company, ownerOf, seen, into, standing, doNot, tasks, refused, raced, madeBy, handVars>>

Rank(status) ==
  CASE status = "rejected" -> 5 [] status = "in_campaign" -> 4 [] status = "saved_to_crm" -> 3
    [] status = "reviewed" -> 2 [] status = "new" -> 1 [] OTHER -> 0

\* mergeCompanies up to the first statement on workspace_leads: a user who has both leads keeps
\* the better status.  Only a row that is written is locked.
Raised(win, lose) ==
  IF standing[win] # "none" /\ Rank(standing[lose]) > Rank(standing[win]) THEN standing[lose] ELSE "none"

Merge(h) ==
  /\ task[h].at = "merge" /\ RowsFree(h, task[h].win)
  /\ LET t == task[h]
         raise == Raised(t.win, t.lose) IN
     SetTask(h, [t EXCEPT !.at = "join", !.raise = raise, !.before = <<standing[t.win], standing[t.lose]>>,
                          !.wrote = @ \union IF raise # "none" THEN {t.win} ELSE {}])
  /\ UNCHANGED <<company, ownerOf, seen, into, standing, doNot, tasks, refused, raced, madeBy, handVars>>

\* Mutant of Moved: the lead of a user who has only the loser is left with it.
MovedNot(win, lose, raise) ==
  IF standing[win] = "none" THEN standing
  ELSE [standing EXCEPT ![win] = IF raise # "none" THEN raise ELSE @, ![lose] = "none"]

\* The other statements of mergeCompanies: the second lead goes, a single one moves over, and so
\* does everything else that points at the loser.
Moved(win, lose, raise) ==
  LET kept == CASE raise # "none" -> raise
                [] raise = "none" /\ standing[win] = "none" -> standing[lose]
                [] OTHER -> standing[win] IN
  [standing EXCEPT ![win] = kept, ![lose] = "none"]

\* Handler g has the id of a company in memory: it is at it, or has a lead to add for it.
AtWork(g, c) == c \in {task[g].id, task[g].win, task[g].lose}
ToAdd(g, c) == c \in task[g].ids

Join(h) ==
  LET t == task[h]
      win == t.win
      lose == t.lose
      disturbed == \/ ~Present(win) \/ ~Present(lose) \/ t.before # <<standing[win], standing[lose]>>
                   \/ \E g \in Handlers \ {h} : AtWork(g, win) \/ AtWork(g, lose)
                   \/ \E g \in Handlers : ToAdd(g, lose)
                   \/ export.of \in {win, lose} IN
  /\ t.at = "join" /\ RowsFree(h, win) /\ RowsFree(h, lose)
  /\ IF company[win].state = "erased" THEN StopTask(h) /\ UNCHANGED <<company, ownerOf, seen, into, standing, raced, madeBy, export>>
     ELSE /\ standing' = Moved(win, lose, t.raise)
          /\ export' = IF export.of # lose THEN export
                       ELSE [export EXCEPT !.of = IF standing[win] = "none" THEN win ELSE 0]
          /\ ownerOf' = [k \in DOMAIN ownerOf |-> IF ownerOf[k] = lose THEN win ELSE ownerOf[k]]
          /\ seen' = [s \in SourceIds |->
                        [i \in DOMAIN seen[s] |-> IF seen[s][i] = lose THEN win ELSE seen[s][i]]]
          /\ company' = [company EXCEPT ![win].phones = @ \union company[lose].phones,
                                        ![lose].phones = {},
                                        ![lose].state = IF @ = "live" THEN "merged" ELSE @]
          /\ into' = IF company[lose].state = "live" THEN [into EXCEPT ![lose] = win] ELSE into
          /\ raced' = IF disturbed THEN raced \union {win, lose} ELSE raced
          /\ madeBy' = [madeBy EXCEPT ![win] = LockOf(t.biz)]
          /\ SetTask(h, [t EXCEPT !.at = "claim", !.id = win, !.raise = "none", !.before = <<>>,
                                  !.win = 0, !.lose = 0, !.wrote = @ \union {win, lose}])
  /\ UNCHANGED <<doNot, tasks, refused, outside, overruled>>

\* The record, made or found, takes what the business tells of it; the transaction commits.
Facts(c, b) ==
  /\ company' = [company EXCEPT ![c] =
       [state |-> IF @.state = "unused" THEN "live" ELSE @.state,
        name |-> IF @.state = "unused" THEN b.name ELSE @.name,
        phones |-> @.phones \union ({b.phone} \ {NoKey})]]
  /\ ownerOf' = [k \in DOMAIN ownerOf |->
       IF \/ k = b.domain /\ OwnerOf(k) = 0
          \/ k = b.profile /\ ownerOf[k] = 0 THEN c ELSE ownerOf[k]]
  /\ seen' = [seen EXCEPT ![b.source] =
       IF @ # <<>> /\ @[Len(@)] = c THEN @ ELSE Append(@, c)]
  /\ madeBy' = [madeBy EXCEPT ![c] = LockOf(b)]

Finish(h) ==
  LET t == task[h]
      unused == {c \in CompanyIds : company[c].state = "unused"}
      first == CHOOSE c \in unused : \A d \in unused : c <= d IN
  /\ t.at = "finish"
  /\ t.id # 0 => RowsFree(h, t.id)
  /\ IF t.id # 0 /\ company[t.id].state = "erased"
       THEN StopTask(h) /\ UNCHANGED <<company, ownerOf, seen, madeBy>>
       ELSE /\ t.id = 0 => unused # {}
            /\ LET c == IF t.id = 0 THEN first ELSE t.id IN
               /\ Facts(c, t.biz)
               /\ SetTask(h, [NoTask EXCEPT !.at = "next", !.todo = t.todo \ {t.biz},
                                            !.ids = t.ids \union {c}, !.cleared = t.cleared])
  /\ UNCHANGED <<into, standing, doNot, tasks, refused, raced, handVars>>

\* addLeadsForRun, within the limits of the run and the day.  A company that is gone fails the
\* whole transaction, and with it the task.
AddLeads(h) ==
  LET ids == task[h].ids IN
  /\ task[h].at = "next" /\ task[h].todo = {}
  /\ StopTask(h)
  /\ IF \E c \in ids : company[c].state = "erased" THEN UNCHANGED standing
     ELSE \E added \in SUBSET {c \in ids : standing[c] = "none"} :
            standing' = [c \in CompanyIds |-> IF c \in added THEN "new" ELSE standing[c]]
  /\ UNCHANGED <<company, ownerOf, seen, into, doNot, tasks, refused, raced, madeBy, handVars>>

-----------------------------------------------------------------------------
(* Websites, the user, and requests for erasure *)

\* A fetch_site task of a lead: the crawl, and the domain that the website redirects to.
Crawl(h, c) ==
  /\ task[h].at = "idle" /\ tasks < MaxTasks /\ standing[c] # "none" /\ Present(c)
  /\ \E d \in Domains : ownerOf[d] = c
  /\ tasks' = tasks + 1
  /\ SetTask(h, [NoTask EXCEPT !.at = "crawl", !.id = c, !.cleared = Domains \ doNot])
  /\ UNCHANGED <<company, ownerOf, seen, into, standing, doNot, refused, raced, madeBy, handVars>>

\* applySiteFacts: the target is added only if no company has it.
ApplySite(h, domain) ==
  LET c == task[h].id IN
  /\ task[h].at = "crawl" /\ RowsFree(h, c)
  /\ StopTask(h)
  /\ ownerOf' = IF ownerOf[domain] = 0 /\ company[c].state # "erased"
                  THEN [ownerOf EXCEPT ![domain] = c] ELSE ownerOf
  /\ UNCHANGED <<company, seen, into, standing, doNot, tasks, refused, raced, madeBy, handVars>>

\* The record that company c lives on in.
Root(c) ==
  LET root[d \in CompanyIds] == IF into[d] = 0 THEN d ELSE root[into[d]] IN root[c]

\* Nobody holds the row of a lead that it has written.
RowOfLeadFree(c) == \A h \in Handlers : c \notin task[h].wrote

\* setLeadStatus.
Review(c, status) ==
  /\ outside < MaxOutside /\ RowOfLeadFree(c)
  /\ standing[c] \notin {"none", status} /\ (standing[c] # "in_campaign" \/ status = "rejected")
  /\ outside' = outside + 1
  /\ standing' = [standing EXCEPT ![c] = status]
  /\ refused' = IF status = "rejected" THEN refused \union {c}
                ELSE {x \in refused : Root(x) # Root(c)}
  /\ overruled' = IF status = "rejected" /\ export.of = c THEN overruled \union {c} ELSE overruled
  /\ UNCHANGED <<company, ownerOf, seen, into, doNot, task, tasks, raced, madeBy, export>>

\* Mutant of MayExport: rejected leads are read too.
MayExportAny(c) == Present(c) /\ standing[c] # "none"

\* leadsWithEmail, which saveLeadsToCrm and addLeadsToCampaign call before their transaction.
MayExport(c) == Present(c) /\ standing[c] \notin {"none", "rejected"}

ReadLeads(c, to) ==
  /\ outside < MaxOutside /\ export = NoExport /\ MayExport(c)
  /\ outside' = outside + 1 /\ export' = [of |-> c, to |-> to]
  /\ UNCHANGED <<company, ownerOf, seen, into, standing, doNot, task, tasks, refused, raced, madeBy, overruled>>

\* Their transaction, which does not look at the status again.
WriteLeads ==
  LET c == export.of IN
  /\ export # NoExport /\ (c # 0 => RowOfLeadFree(c))
  /\ export' = NoExport
  /\ standing' = [x \in CompanyIds |->
                IF x = c /\ standing[c] \notin {"none", "in_campaign"} THEN export.to ELSE standing[x]]
  /\ UNCHANGED <<company, ownerOf, seen, into, doNot, task, tasks, refused, raced, madeBy, outside, overruled>>

\* eraseIdentifier of a domain: its company goes with everything that hangs on it.
Erase(domain) ==
  LET c == ownerOf[domain] IN
  /\ outside < MaxOutside /\ domain \notin doNot /\ RowOfLeadFree(c)
  /\ doNot' = doNot \union {domain} /\ outside' = outside + 1
  /\ export' = IF c # 0 /\ export.of = c THEN [export EXCEPT !.of = 0] ELSE export
  /\ IF c = 0 THEN UNCHANGED <<company, ownerOf, seen, standing, refused>>
     ELSE /\ company' = [company EXCEPT ![c].state = "erased", ![c].phones = {}]
          /\ ownerOf' = [k \in DOMAIN ownerOf |-> IF ownerOf[k] = c THEN 0 ELSE ownerOf[k]]
          /\ seen' = [s \in SourceIds |->
                        [i \in DOMAIN seen[s] |-> IF seen[s][i] = c THEN 0 ELSE seen[s][i]]]
          /\ standing' = [standing EXCEPT ![c] = "none"]
          /\ refused' = {x \in refused : Root(x) # c}
  /\ UNCHANGED <<into, task, tasks, raced, madeBy, overruled>>

CompaniesNext ==
  \/ \E h \in Handlers :
       \/ \E found \in SUBSET Businesses : found # {} /\ Find(h, found)
       \/ \E b \in task[h].todo : Resolve(h, b)
       \/ ClaimWebsite(h) \/ Merge(h) \/ Join(h) \/ Finish(h) \/ AddLeads(h)
       \/ \E c \in CompanyIds : Crawl(h, c)
       \/ \E d \in Redirects : ApplySite(h, d)
  \/ \E c \in CompanyIds, status \in {"new", "reviewed", "rejected"} : Review(c, status)
  \/ \E c \in CompanyIds, to \in {"saved_to_crm", "in_campaign"} : ReadLeads(c, to)
  \/ WriteLeads
  \/ \E d \in Domains : Erase(d)

CompaniesSpec == CompaniesInit /\ [][CompaniesNext]_companyVars

-----------------------------------------------------------------------------
(* Properties *)

\* Chain of records that company c was merged along.
Trail(c) == {d \in CompanyIds : Root(d) = Root(c) /\ d <= c}

\* A lead stays with a record that was merged away only if somebody else was at one of the two
\* records while they were joined, or a task had collected the lost one for its leads.
NoLeadStranded ==
  \A c \in CompanyIds : company[c].state = "merged" /\ standing[c] # "none" => c \in raced

\* A lead that the user has rejected stays rejected through merges and exports, except after such
\* a merge, or a rejection in the middle of an export.
RejectionHolds ==
  \A c \in refused :
    Present(Root(c)) /\ Trail(c) \intersect (raced \union overruled) = {} => standing[Root(c)] = "rejected"

\* Joining records loses no lead and no rejection, unless somebody else is at them meanwhile.
MergesKeepLeads == NoLeadStranded /\ RejectionHolds

\* No record is made while there is one that the business would have matched, written under the
\* same lock.
NoTwinUnderOneLock ==
  [][\A h \in Handlers :
       task[h].at = "finish" /\ task[h].id = 0 /\ task'[h].at = "next" =>
         \A c \in AtPlace(task[h].biz) : madeBy[c] # LockOf(task[h].biz)]_companyVars

\* An erased domain has a company again only by a task that asked do_not_collect before it was
\* erased, or by a redirect.
ErasedStaysErased ==
  [][\A d \in doNot :
       ownerOf[d] = 0 /\ ownerOf'[d] # 0 =>
         \E h \in Handlers : \/ task[h].at = "crawl" /\ d \in Redirects
                             \/ task[h].at = "finish" /\ d \in task[h].cleared]_companyVars

-----------------------------------------------------------------------------
(* Statements that the code does not keep *)

\* LEAD_ENGINE.md: a rejected lead never comes back.
RejectedNeverReturns == \A c \in refused : Present(Root(c)) => standing[Root(c)] # "new"

\* resolve.ts at lockKey: two workers never create the same company twice.
NeverMadeTwice ==
  [][\A h \in Handlers :
       task[h].at = "finish" /\ task[h].id = 0 /\ task'[h].at = "next" => AtPlace(task[h].biz) = {}]_companyVars

\* LEAD_ENGINE.md: every collector checks do_not_collect.  What a task that begins after an
\* erasure writes is never of the erased domain.
EveryCollectorAsks ==
  [][\A d \in doNot :
       ownerOf[d] = 0 /\ ownerOf'[d] # 0 =>
         \E h \in Handlers : task[h].at \in {"crawl", "finish"} /\ d \in task[h].cleared]_companyVars
=============================================================================
