------------------------ MODULE LeadCompanies_proofs ------------------------
(***************************************************************************)
(* Joining the records of a business, the locks under which records are    *)
(* made, and what becomes of an erased domain, proved for every number of  *)
(* handlers, records and tasks, and every set of businesses a source may   *)
(* find.                                                                   *)
(***************************************************************************)
EXTENDS MCShared, WellFoundedInduction, SequenceTheorems, NaturalsInduction, TLAPS

-----------------------------------------------------------------------------
(* What holds of records and of the handlers at them *)

Used(c) == company[c].state # "unused"

TaskInv ==
  \A h \in Handlers :
    /\ InTransaction(h) => task[h].biz \in task[h].todo
    /\ task[h].at \notin {"merge", "join"} => task[h].win = 0 /\ task[h].lose = 0
    /\ task[h].at = "crawl" => task[h].id # 0

\* What is known of a record is known of one that was made.
KnownInv ==
  \A c \in CompanyIds : ~Used(c) =>
    /\ standing[c] = "none" /\ into[c] = 0 /\ c \notin refused
    /\ \A h \in Handlers : ~ToAdd(h, c) /\ ~AtWork(h, c)
    /\ \A k \in Domains \union Profiles : ownerOf[k] # c
    /\ \A d \in CompanyIds : into[d] # c

\* Records are joined to older ones, and a live record to none.
IntoInv ==
  \A c \in CompanyIds : into[c] # 0 => into[c] < c /\ company[c].state \in {"merged", "erased"}

ErasedInv == \A c \in CompanyIds : company[c].state = "erased" => standing[c] = "none"

\* Who has a lost record in memory was at it, or had collected it, when it was joined.
MergedInv ==
  \A c \in CompanyIds :
    /\ company[c].state = "merged"
    /\ standing[c] # "none" \/ \E h \in Handlers : ToAdd(h, c) \/ AtWork(h, c)
    => c \in raced

\* The better status was chosen from what the leads were then.
Better(a, b) == IF a # "none" /\ Rank(b) > Rank(a) THEN b ELSE "none"
JoinInv ==
  \A h \in Handlers : task[h].at = "join" =>
    \E a, b \in Statuses : task[h].before = <<a, b>> /\ task[h].raise = Better(a, b)

ExportInv ==
  export.of # 0 /\ standing[export.of] = "rejected" => export.of \in raced \union overruled

LockInv ==
  \A g, h \in Handlers :
    g # h /\ InTransaction(g) /\ InTransaction(h) => LockOf(task[g].biz) # LockOf(task[h].biz)

\* A transaction that is to make a record found none, and others write under other locks.
TwinInv ==
  \A h \in Handlers : InTransaction(h) /\ task[h].id = 0 =>
    /\ task[h].at \in {"claim", "finish"}
    /\ \A c \in AtPlace(task[h].biz) : madeBy[c] # LockOf(task[h].biz)

\* What is to do was asked of do_not_collect.
ClearInv == \A h \in Handlers : \A b \in task[h].todo : b.domain \in task[h].cleared \union {NoKey}

CompaniesInv ==
  /\ CompaniesTypeOK /\ TaskInv /\ KnownInv /\ IntoInv /\ ErasedInv /\ MergedInv /\ JoinInv /\ ExportInv
  /\ LockInv /\ TwinInv /\ ClearInv /\ RejectionHolds

-----------------------------------------------------------------------------
(* Types *)

LEMMA LeastExists ==
  ASSUME NEW S \in SUBSET Nat, S # {}
  PROVE  \E r \in S : \A q \in S : r <= q
<1>1. \E x \in S : \A y \in S : ~ (<<y, x>> \in OpToRel(<, Nat))
  <2>1. IsWellFoundedOn(OpToRel(<, Nat), Nat)
    BY NatLessThanWellFounded
  <2> QED
    BY <2>1, WFMin
<1>2. \A x, y \in Nat : y < x => <<y, x>> \in OpToRel(<, Nat)
  BY DEF OpToRel
<1>3. PICK x \in S : \A y \in S : ~ (<<y, x>> \in OpToRel(<, Nat))
  BY <1>1
<1>4. \A y \in S : ~(y < x)
  BY <1>2, <1>3
<1> QED
  BY <1>4

LEMMA GreatestExists ==
  ASSUME NEW n \in Nat, NEW S \in SUBSET (0 .. n), S # {}
  PROVE  \E r \in S : \A q \in S : q <= r
<1>0. {n - s : s \in S} \in SUBSET Nat
  OBVIOUS
<1>1. PICK T \in SUBSET Nat : T = {n - s : s \in S}
  BY <1>0
<1>2. T # {}
  BY <1>1
<1>3. PICK t \in T : \A u \in T : t <= u
  BY <1>2, LeastExists
<1>4. PICK s \in S : t = n - s
  BY <1>1, <1>3
<1>5. ASSUME NEW q \in S PROVE q <= s
  <2>1. n - q \in T
    BY <1>1
  <2>2. n - s <= n - q
    BY <1>3, <1>4, <2>1
  <2>3. n \in Nat /\ q \in Nat /\ s \in Nat
    OBVIOUS
  <2> QED
    BY <2>2, <2>3
<1> QED
  BY <1>5

LEMMA KeyTypes ==
  /\ \A b \in Businesses :
       /\ b.domain \in Domains \union {NoKey} /\ b.profile \in Profiles \union {NoKey}
       /\ b.source \in SourceIds /\ b.name \in Names /\ b.phone \in Phones \union {NoKey}
       /\ LockOf(b) \in Locks
  /\ Redirects \subseteq Domains
  /\ \A d \in Domains : d \notin Profiles /\ d # NoKey
  /\ \A p \in Profiles : p # NoKey
  /\ MaxCompanies \in Nat /\ MaxTasks \in Nat /\ MaxOutside \in Nat /\ 0 \notin CompanyIds
  /\ \A c \in CompanyIds : c \in Nat /\ c \in 0 .. MaxCompanies
  /\ \A c \in 0 .. MaxCompanies : c # 0 => c \in CompanyIds
BY CompaniesAssumption DEF Domains, Profiles, SourceIds, Names, Phones, Locks, LockOf, CompanyIds

LEMMA OwnerIs ==
  ASSUME CompaniesTypeOK, NEW k \in Domains \union Profiles \union {NoKey}
  PROVE  OwnerOf(k) \in 0 .. MaxCompanies /\ (OwnerOf(k) # 0 => OwnerOf(k) \in CompanyIds /\ Present(OwnerOf(k)))
BY KeyTypes DEF CompaniesTypeOK, OwnerOf

LEMMA SeenIs ==
  ASSUME CompaniesTypeOK, NEW s \in SourceIds
  PROVE  SeenAs(s) \in 0 .. MaxCompanies /\ (SeenAs(s) # 0 => SeenAs(s) \in CompanyIds /\ Present(SeenAs(s)))
<1>1. PICK o \in Seq(0 .. MaxCompanies) : o = seen[s]
  BY DEF CompaniesTypeOK
<1>2. PICK alive : alive = {i \in DOMAIN o : Present(o[i])}
  OBVIOUS
<1>3. CASE alive = {}
  BY <1>1, <1>2, <1>3, KeyTypes DEF SeenAs
<1>4. CASE alive # {}
  <2>1. Len(o) \in Nat /\ DOMAIN o = 1 .. Len(o) /\ alive \in SUBSET (0 .. Len(o))
    BY <1>2
  <2>2. PICK i \in alive : i = CHOOSE k \in alive : \A j \in alive : j <= k
    BY <1>4, <2>1, GreatestExists
  <2>3. SeenAs(s) = o[i]
    BY <1>1, <1>2, <1>4, <2>2 DEF SeenAs
  <2>4. i \in 1 .. Len(o) /\ Present(o[i])
    BY <1>2, <2>1, <2>2
  <2>5. o[i] \in 0 .. MaxCompanies /\ o[i] # 0
    <3>1. o[i] \in 0 .. MaxCompanies
      BY <1>1, <2>4, ElementOfSeq
    <3>2. o[i] # 0
      BY <2>4, Zenon DEF Present
    <3> QED
      BY <3>1, <3>2
  <2> QED
    BY <2>3, <2>4, <2>5, KeyTypes
<1> QED
  BY <1>3, <1>4

\* A match is a live record, or nothing when no record of that name is at the place.
LEMMA MatchIs ==
  ASSUME CompaniesTypeOK, NEW b \in Businesses, NEW m \in Matches(b)
  PROVE  /\ m.id \in 0 .. MaxCompanies
         /\ m.id # 0 => m.id \in CompanyIds /\ Present(m.id)
         /\ m.id = 0 => AtPlace(b) = {}
<1>1. PICK d, p, s : d = OwnerOf(b.domain) /\ p = OwnerOf(b.profile) /\ s = SeenAs(b.source)
  OBVIOUS
<1>2. /\ d \in 0 .. MaxCompanies /\ (d # 0 => d \in CompanyIds /\ Present(d))
      /\ p \in 0 .. MaxCompanies /\ (p # 0 => p \in CompanyIds /\ Present(p))
      /\ s \in 0 .. MaxCompanies /\ (s # 0 => s \in CompanyIds /\ Present(s))
  BY <1>1, KeyTypes, OwnerIs, SeenIs
<1>3. AtPlace(b) \subseteq CompanyIds /\ \A c \in AtPlace(b) : Present(c)
  BY DEF AtPlace
<1>4. CASE d # 0
  BY <1>1, <1>2, <1>4, KeyTypes DEF Matches
<1>5. CASE d = 0 /\ p # 0
  BY <1>1, <1>2, <1>5, KeyTypes DEF Matches
<1>6. CASE d = 0 /\ p = 0 /\ s # 0
  BY <1>1, <1>2, <1>6, KeyTypes DEF Matches
<1>7. CASE d = 0 /\ p = 0 /\ s = 0
  <2>1. m \in IF AtPlace(b) = {} THEN {[by |-> "nothing", id |-> 0]}
                  ELSE UNION {{[by |-> "place", id |-> c]} : c \in AtPlace(b)}
    BY <1>1, <1>7 DEF Matches
  <2> QED
    BY <1>3, <2>1, KeyTypes
<1> QED
  BY <1>2, <1>4, <1>5, <1>6, <1>7

LEMMA TaskSet ==
  ASSUME CompaniesTypeOK, NEW h \in Handlers, NEW u \in TaskStates, SetTask(h, u)
  PROVE  /\ task' \in [Handlers -> TaskStates] /\ task'[h] = u
         /\ \A g \in Handlers : g # h => task'[g] = task[g]
BY DEF CompaniesTypeOK, SetTask

LEMMA NoTaskIs ==
  /\ NoTask \in TaskStates /\ NoTask.at = "idle" /\ NoTask.todo = {} /\ NoTask.ids = {} /\ NoTask.cleared = {}
  /\ NoTask.id = 0 /\ NoTask.win = 0 /\ NoTask.lose = 0 /\ NoTask.raise = "none" /\ NoTask.before = <<>>
  /\ NoTask.wrote = {}
BY KeyTypes DEF NoTask, TaskStates, Statuses

LEMMA JoiningIs ==
  ASSUME NEW t \in TaskStates, NEW a \in CompanyIds, NEW b \in CompanyIds, a # b
  PROVE  \E u \in TaskStates :
           /\ u = Joining(t, a, b)
           /\ u.at = "merge" /\ {u.win, u.lose} = {a, b} /\ u.win \in 1 .. u.lose - 1
           /\ u.todo = t.todo /\ u.ids = t.ids /\ u.cleared = t.cleared /\ u.biz = t.biz /\ u.id = t.id
           /\ u.raise = t.raise /\ u.before = t.before /\ u.wrote = t.wrote
<1>1. PICK w, l : w = Pair(a, b).win /\ l = Pair(a, b).lose
  OBVIOUS
<1>2. w \in CompanyIds /\ l \in CompanyIds /\ {w, l} = {a, b} /\ w \in 1 .. l - 1
  BY <1>1, KeyTypes DEF Pair, CompanyIds
<1>3. Joining(t, a, b) = [t EXCEPT !.at = "merge", !.win = w, !.lose = l]
  BY <1>1 DEF Joining
<1>4. PICK u : u = [t EXCEPT !.at = "merge", !.win = w, !.lose = l]
  OBVIOUS
<1>5. /\ u \in TaskStates /\ u.at = "merge" /\ u.win = w /\ u.lose = l
      /\ u.todo = t.todo /\ u.ids = t.ids /\ u.cleared = t.cleared /\ u.biz = t.biz /\ u.id = t.id
      /\ u.raise = t.raise /\ u.before = t.before /\ u.wrote = t.wrote
  BY <1>2, <1>4, KeyTypes DEF TaskStates
<1> QED
  BY <1>2, <1>3, <1>4, <1>5

-----------------------------------------------------------------------------
(* What each step of a handler does with its task *)

RestOfData == UNCHANGED <<company, ownerOf, seen, into, standing, refused, raced, madeBy, handVars>>

LEMMA FindFacts ==
  ASSUME CompaniesTypeOK, NEW h \in Handlers, NEW found \in SUBSET Businesses, Find(h, found)
  PROVE  /\ RestOfData /\ doNot' = doNot /\ tasks' \in 0 .. MaxTasks
         /\ \E u \in TaskStates :
              /\ SetTask(h, u) /\ u.at = "next" /\ u.todo \subseteq {b \in Businesses : b.domain \notin doNot}
              /\ u.cleared = Domains \ doNot /\ u.ids = {} /\ u.id = 0 /\ u.win = 0 /\ u.lose = 0
<1>1. PICK u : u = [NoTask EXCEPT !.at = "next", !.todo = Kept(found), !.cleared = Domains \ doNot]
  OBVIOUS
<1>2. Kept(found) \subseteq {b \in Businesses : b.domain \notin doNot}
  BY DEF Kept
<1>3. /\ u \in TaskStates /\ u.at = "next" /\ u.todo = Kept(found) /\ u.cleared = Domains \ doNot
      /\ u.ids = {} /\ u.id = 0 /\ u.win = 0 /\ u.lose = 0
  BY <1>1, <1>2, NoTaskIs DEF TaskStates
<1>4. /\ SetTask(h, u) /\ RestOfData /\ doNot' = doNot /\ tasks' \in 0 .. MaxTasks
  BY <1>1, KeyTypes DEF Find, RestOfData, CompaniesTypeOK
<1> QED
  BY <1>2, <1>3, <1>4

LEMMA ResolveFacts ==
  ASSUME CompaniesTypeOK, TaskInv, NEW h \in Handlers, NEW b \in task[h].todo, Resolve(h, b)
  PROVE  /\ RestOfData /\ UNCHANGED <<doNot, tasks>> /\ task[h].at = "next" /\ b \in Businesses
         /\ LockFree(h, b)
         /\ \E u \in TaskStates :
              /\ SetTask(h, u) /\ u.biz = b /\ u.todo = task[h].todo /\ u.ids = task[h].ids
              /\ u.cleared = task[h].cleared
              /\ u.id # 0 => u.id \in CompanyIds /\ Present(u.id)
              /\ u.id = 0 => AtPlace(b) = {}
              /\ \/ u.at = "claim" /\ u.win = 0 /\ u.lose = 0
                 \/ /\ u.at = "merge" /\ u.id # 0 /\ u.win \in CompanyIds /\ u.lose \in CompanyIds
                    /\ Present(u.win) /\ Present(u.lose) /\ u.win \in 1 .. u.lose - 1
<1>1. /\ task[h] \in TaskStates /\ b \in Businesses /\ task[h].at = "next" /\ task[h].win = 0 /\ task[h].lose = 0
      /\ LockFree(h, b) /\ RestOfData /\ UNCHANGED <<doNot, tasks>>
  BY DEF CompaniesTypeOK, TaskStates, Resolve, RestOfData, TaskInv
<1>2. PICK m \in Matches(b) :
        SetTask(h, IF m.id # 0 /\ m.by # "source" /\ SeenAs(b.source) \notin {0, m.id}
                     THEN Joining([task[h] EXCEPT !.at = "claim", !.biz = b, !.id = m.id], m.id, SeenAs(b.source))
                     ELSE [task[h] EXCEPT !.at = "claim", !.biz = b, !.id = m.id])
  BY DEF Resolve
<1>3. PICK t, w : t = [task[h] EXCEPT !.at = "claim", !.biz = b, !.id = m.id] /\ w = SeenAs(b.source)
  OBVIOUS
<1>4. /\ m.id \in 0 .. MaxCompanies /\ (m.id # 0 => m.id \in CompanyIds /\ Present(m.id))
      /\ m.id = 0 => AtPlace(b) = {}
  BY <1>1, MatchIs
<1>5. w # 0 => w \in CompanyIds /\ Present(w)
  BY <1>1, <1>3, KeyTypes, SeenIs
<1>6. /\ t \in TaskStates /\ t.at = "claim" /\ t.biz = b /\ t.id = m.id /\ t.todo = task[h].todo
      /\ t.ids = task[h].ids /\ t.cleared = task[h].cleared /\ t.win = 0 /\ t.lose = 0
  BY <1>1, <1>3, <1>4 DEF TaskStates
<1>7. CASE m.id # 0 /\ m.by # "source" /\ w \notin {0, m.id}
  <2>1. PICK u \in TaskStates :
           /\ u = Joining(t, m.id, w)
           /\ u.at = "merge" /\ {u.win, u.lose} = {m.id, w} /\ u.win \in 1 .. u.lose - 1
           /\ u.todo = t.todo /\ u.ids = t.ids /\ u.cleared = t.cleared /\ u.biz = t.biz /\ u.id = t.id
    <3>1. m.id \in CompanyIds /\ w \in CompanyIds /\ m.id # w
      BY <1>4, <1>5, <1>7
    <3> QED
      BY <1>6, <3>1, JoiningIs, Zenon
  <2>2. SetTask(h, u)
    BY <1>2, <1>3, <1>7, <2>1
  <2>3. u.win \in {m.id, w} /\ u.lose \in {m.id, w}
    BY <2>1
  <2> QED
    BY <1>1, <1>4, <1>5, <1>6, <1>7, <2>1, <2>2, <2>3
<1>8. CASE ~(m.id # 0 /\ m.by # "source" /\ w \notin {0, m.id})
  <2>1. SetTask(h, t)
    BY <1>2, <1>3, <1>8
  <2> QED
    BY <1>1, <1>4, <1>6, <2>1
<1> QED
  BY <1>7, <1>8

LEMMA ClaimFacts ==
  ASSUME CompaniesTypeOK, TaskInv, NEW h \in Handlers, ClaimWebsite(h)
  PROVE  /\ RestOfData /\ UNCHANGED <<doNot, tasks>> /\ task[h].at = "claim"
         /\ \E u \in TaskStates :
              /\ SetTask(h, u) /\ u.biz = task[h].biz /\ u.todo = task[h].todo /\ u.ids = task[h].ids
              /\ u.cleared = task[h].cleared
              /\ u.id = task[h].id \/ (task[h].id = 0 /\ u.id \in CompanyIds /\ Present(u.id))
              /\ \/ u.at = "finish" /\ u.win = 0 /\ u.lose = 0
                 \/ /\ u.at = "merge" /\ u.id # 0 /\ u.win \in CompanyIds /\ u.lose \in CompanyIds
                    /\ u.win = task[h].id \/ Present(u.win)
                    /\ u.lose = task[h].id \/ Present(u.lose)
                    /\ u.win \in 1 .. u.lose - 1
<1>1. /\ task[h] \in TaskStates /\ task[h].at = "claim" /\ task[h].win = 0 /\ task[h].lose = 0
      /\ task[h].biz \in Businesses /\ task[h].id \in 0 .. MaxCompanies
      /\ RestOfData /\ UNCHANGED <<doNot, tasks>>
  BY DEF CompaniesTypeOK, TaskStates, ClaimWebsite, RestOfData, TaskInv, InTransaction
<1>2. PICK t, o : t = task[h] /\ o = OwnerOf(task[h].biz.domain)
  OBVIOUS
<1>3. o # 0 => o \in CompanyIds /\ Present(o)
  BY <1>1, <1>2, KeyTypes, OwnerIs
<1>4. SetTask(h, IF o \in {0, t.id} THEN [t EXCEPT !.at = "finish"]
                 ELSE IF t.id = 0 THEN [t EXCEPT !.at = "finish", !.id = o] ELSE Joining(t, o, t.id))
  BY <1>2 DEF ClaimWebsite
<1>5. CASE o \in {0, t.id}
  <2>1. PICK u : u = [t EXCEPT !.at = "finish"]
    OBVIOUS
  <2>2. /\ u \in TaskStates /\ u.at = "finish" /\ u.biz = t.biz /\ u.todo = t.todo /\ u.ids = t.ids
        /\ u.cleared = t.cleared /\ u.id = t.id /\ u.win = 0 /\ u.lose = 0
    BY <1>1, <1>2, <2>1 DEF TaskStates
  <2>3. SetTask(h, u)
    BY <1>4, <1>5, <2>1
  <2> QED
    BY <1>1, <1>2, <2>2, <2>3
<1>6. CASE o \notin {0, t.id} /\ t.id = 0
  <2>1. PICK u : u = [t EXCEPT !.at = "finish", !.id = o]
    OBVIOUS
  <2>2. /\ u \in TaskStates /\ u.at = "finish" /\ u.biz = t.biz /\ u.todo = t.todo /\ u.ids = t.ids
        /\ u.cleared = t.cleared /\ u.id = o /\ u.win = 0 /\ u.lose = 0
    BY <1>1, <1>2, <1>3, <1>6, <2>1, KeyTypes DEF TaskStates
  <2>3. SetTask(h, u)
    BY <1>4, <1>6, <2>1
  <2> QED
    BY <1>1, <1>2, <1>3, <1>6, <2>2, <2>3
<1>7. CASE o \notin {0, t.id} /\ t.id # 0
  <2>1. PICK u \in TaskStates :
           /\ u = Joining(t, o, t.id)
           /\ u.at = "merge" /\ {u.win, u.lose} = {o, t.id} /\ u.win \in 1 .. u.lose - 1
           /\ u.todo = t.todo /\ u.ids = t.ids /\ u.cleared = t.cleared /\ u.biz = t.biz /\ u.id = t.id
    <3>1. o \in CompanyIds /\ t.id \in CompanyIds /\ o # t.id /\ t \in TaskStates
      BY <1>1, <1>2, <1>3, <1>7, KeyTypes
    <3> QED
      BY <3>1, JoiningIs, Zenon
  <2>2. SetTask(h, u)
    BY <1>4, <1>7, <2>1
  <2>3. u.win \in {o, t.id} /\ u.lose \in {o, t.id} /\ t.id \in CompanyIds
    BY <1>1, <1>2, <1>7, <2>1, KeyTypes
  <2> QED
    BY <1>1, <1>2, <1>3, <1>7, <2>1, <2>2, <2>3
<1> QED
  BY <1>5, <1>6, <1>7

LEMMA MergeFacts ==
  ASSUME CompaniesTypeOK, TaskInv, NEW h \in Handlers, Merge(h)
  PROVE  /\ RestOfData /\ UNCHANGED <<doNot, tasks>> /\ task[h].at = "merge"
         /\ \E u \in TaskStates :
              /\ SetTask(h, u) /\ u.at = "join" /\ u.biz = task[h].biz /\ u.todo = task[h].todo
              /\ u.ids = task[h].ids /\ u.cleared = task[h].cleared /\ u.id = task[h].id
              /\ u.win = task[h].win /\ u.lose = task[h].lose
              /\ u.before = <<standing[u.win], standing[u.lose]>>
              /\ u.raise = Better(standing[u.win], standing[u.lose])
<1>1. /\ task[h] \in TaskStates /\ task[h].at = "merge" /\ RestOfData /\ UNCHANGED <<doNot, tasks>>
      /\ task[h].win \in 1 .. task[h].lose - 1 /\ task[h].lose \in 0 .. MaxCompanies
  BY DEF CompaniesTypeOK, TaskStates, Merge, RestOfData
<1>2. PICK t, raise, before :
        /\ t = task[h] /\ raise = Raised(t.win, t.lose) /\ before = <<standing[t.win], standing[t.lose]>>
  OBVIOUS
<1>3. t.win \in CompanyIds /\ t.lose \in CompanyIds
  BY <1>1, <1>2, KeyTypes DEF CompanyIds
<1>4. /\ standing[t.win] \in Statuses /\ standing[t.lose] \in Statuses
      /\ raise = Better(standing[t.win], standing[t.lose])
  BY <1>2, <1>3 DEF CompaniesTypeOK, Raised, Better
<1>5. raise \in Statuses /\ before \in Statuses \X Statuses
  BY <1>2, <1>4 DEF Better, Statuses
<1>w. PICK wrote : wrote = t.wrote \union IF raise # "none" THEN {t.win} ELSE {}
  OBVIOUS
<1>v. wrote \in SUBSET CompanyIds
  BY <1>1, <1>2, <1>3, <1>w DEF TaskStates
<1>6. PICK u : u = [t EXCEPT !.at = "join", !.raise = raise, !.before = before, !.wrote = wrote]
  OBVIOUS
<1>7. /\ u \in TaskStates /\ u.at = "join" /\ u.biz = t.biz /\ u.todo = t.todo /\ u.ids = t.ids
      /\ u.cleared = t.cleared /\ u.id = t.id /\ u.win = t.win /\ u.lose = t.lose
      /\ u.before = before /\ u.raise = raise
  BY <1>1, <1>2, <1>3, <1>5, <1>6, <1>v DEF TaskStates
<1>8. SetTask(h, u)
  BY <1>2, <1>6, <1>w DEF Merge
<1> QED
  BY <1>1, <1>2, <1>4, <1>7, <1>8

Kept2(raise, a, b) == IF raise # "none" THEN raise ELSE IF a = "none" THEN b ELSE a

Disturbed(h, win, lose) ==
  \/ ~Present(win) \/ ~Present(lose) \/ task[h].before # <<standing[win], standing[lose]>>
  \/ \E g \in Handlers \ {h} : AtWork(g, win) \/ AtWork(g, lose)
  \/ \E g \in Handlers : ToAdd(g, lose)
  \/ export.of \in {win, lose}

\* A merge, seen from the records and the leads.
Joined(h, win, lose) ==
  /\ standing' \in [CompanyIds -> Statuses]
  /\ standing'[win] = Kept2(task[h].raise, standing[win], standing[lose]) /\ standing'[lose] = "none"
  /\ export' \in [of : 0 .. MaxCompanies, to : {"none", "saved_to_crm", "in_campaign"}]
  /\ export' = export \/ (export.of = lose /\ export'.of \in {win, 0})
  /\ ownerOf' \in [Domains \union Profiles -> 0 .. MaxCompanies]
  /\ \A k \in Domains \union Profiles : ownerOf'[k] = IF ownerOf[k] = lose THEN win ELSE ownerOf[k]
  /\ seen' \in [SourceIds -> Seq(0 .. MaxCompanies)]
  /\ company' \in [CompanyIds -> Companies]
  /\ company'[win].state = company[win].state
  /\ company'[lose].state = IF company[lose].state = "live" THEN "merged" ELSE company[lose].state
  /\ company'[lose].phones = {}
  /\ \A x \in CompanyIds : company'[x].name = company[x].name
  /\ \A x \in CompanyIds \ {win, lose} : company'[x] = company[x] /\ standing'[x] = standing[x]
  /\ into' = IF company[lose].state = "live" THEN [into EXCEPT ![lose] = win] ELSE into
  /\ raced' = IF Disturbed(h, win, lose) THEN raced \union {win, lose} ELSE raced
  /\ madeBy' = [madeBy EXCEPT ![win] = LockOf(task[h].biz)]

JoinedTask(h, u) ==
  /\ SetTask(h, u) /\ u.at = "claim" /\ u.biz = task[h].biz /\ u.todo = task[h].todo /\ u.ids = task[h].ids
  /\ u.cleared = task[h].cleared /\ u.id = task[h].win /\ u.win = 0 /\ u.lose = 0

LEMMA JoinFacts ==
  ASSUME CompaniesTypeOK, TaskInv, NEW h \in Handlers, Join(h)
  PROVE  /\ UNCHANGED <<doNot, tasks, refused, outside, overruled>> /\ task[h].at = "join"
         /\ task[h].win \in CompanyIds /\ task[h].lose \in CompanyIds /\ task[h].win < task[h].lose
         /\ \/ /\ SetTask(h, NoTask)
               /\ UNCHANGED <<company, ownerOf, seen, into, standing, raced, madeBy, export>>
            \/ /\ company[task[h].win].state # "erased" /\ Joined(h, task[h].win, task[h].lose)
               /\ \E u \in TaskStates : JoinedTask(h, u)
<1>1. /\ task[h] \in TaskStates /\ task[h].at = "join" /\ UNCHANGED <<doNot, tasks, refused, outside, overruled>>
      /\ task[h].win \in 1 .. task[h].lose - 1 /\ task[h].lose \in 0 .. MaxCompanies
  BY DEF CompaniesTypeOK, TaskStates, Join
<1>2. PICK t, win, lose : t = task[h] /\ win = t.win /\ lose = t.lose
  OBVIOUS
<1>3. win \in CompanyIds /\ lose \in CompanyIds /\ win < lose /\ win # lose
  BY <1>1, <1>2, KeyTypes DEF CompanyIds
<1>4. CASE company[win].state = "erased"
  BY <1>1, <1>2, <1>3, <1>4 DEF Join, StopTask
<1>5. CASE company[win].state # "erased"
  <2>a. standing' = Moved(win, lose, t.raise)
    BY <1>2, <1>5 DEF Join
  <2>b. export' = IF export.of # lose THEN export
                  ELSE [export EXCEPT !.of = IF standing[win] = "none" THEN win ELSE 0]
    BY <1>2, <1>5 DEF Join
  <2>c. ownerOf' = [k \in DOMAIN ownerOf |-> IF ownerOf[k] = lose THEN win ELSE ownerOf[k]]
    BY <1>2, <1>5 DEF Join
  <2>d. seen' = [s \in SourceIds |->
                   [i \in DOMAIN seen[s] |-> IF seen[s][i] = lose THEN win ELSE seen[s][i]]]
    BY <1>2, <1>5 DEF Join
  <2>e. company' = [company EXCEPT ![win].phones = @ \union company[lose].phones,
                                   ![lose].phones = {},
                                   ![lose].state = IF @ = "live" THEN "merged" ELSE @]
    BY <1>2, <1>5 DEF Join
  <2>f. /\ into' = IF company[lose].state = "live" THEN [into EXCEPT ![lose] = win] ELSE into
        /\ madeBy' = [madeBy EXCEPT ![win] = LockOf(t.biz)]
    BY <1>2, <1>5 DEF Join
  <2>g. raced' = IF Disturbed(h, win, lose) THEN raced \union {win, lose} ELSE raced
    BY <1>2, <1>5 DEF Join, Disturbed
  <2>i. SetTask(h, [t EXCEPT !.at = "claim", !.id = win, !.raise = "none", !.before = <<>>,
                             !.win = 0, !.lose = 0, !.wrote = @ \union {win, lose}])
    BY <1>2, <1>5 DEF Join
  <2>2. /\ standing' \in [CompanyIds -> Statuses]
        /\ standing'[win] = Kept2(t.raise, standing[win], standing[lose]) /\ standing'[lose] = "none"
        /\ \A x \in CompanyIds \ {win, lose} : standing'[x] = standing[x]
    <3>1. PICK kept : kept = Kept2(t.raise, standing[win], standing[lose])
      OBVIOUS
    <3>2. standing' = [standing EXCEPT ![win] = kept, ![lose] = "none"]
      BY <2>a, <3>1 DEF Moved, Kept2
    <3>3. standing \in [CompanyIds -> Statuses] /\ kept \in Statuses /\ "none" \in Statuses
      BY <1>1, <1>2, <1>3, <3>1 DEF Kept2, CompaniesTypeOK, TaskStates, Statuses
    <3> QED
      BY <1>3, <3>1, <3>2, <3>3
  <2>3. /\ export' \in [of : 0 .. MaxCompanies, to : {"none", "saved_to_crm", "in_campaign"}]
        /\ export' = export \/ (export.of = lose /\ export'.of \in {win, 0})
    <3>1. PICK to : to = export.to
      OBVIOUS
    <3>2. export = [of |-> export.of, to |-> to] /\ to \in {"none", "saved_to_crm", "in_campaign"}
      BY <3>1 DEF CompaniesTypeOK
    <3>3. CASE export.of # lose
      BY <2>b, <3>3 DEF CompaniesTypeOK
    <3>4. CASE export.of = lose
      <4>1. PICK of : of = IF standing[win] = "none" THEN win ELSE 0
        OBVIOUS
      <4>2. of \in {win, 0} /\ of \in 0 .. MaxCompanies
        BY <1>3, <4>1, KeyTypes
      <4>3. export' = [export EXCEPT !.of = of]
        BY <2>b, <3>4, <4>1
      <4>4. export' = [of |-> of, to |-> to]
        BY <3>2, <4>3
      <4> QED
        BY <3>2, <3>4, <4>2, <4>4
    <3> QED
      BY <3>3, <3>4
  <2>4. /\ ownerOf' \in [Domains \union Profiles -> 0 .. MaxCompanies]
        /\ \A k \in Domains \union Profiles : ownerOf'[k] = IF ownerOf[k] = lose THEN win ELSE ownerOf[k]
    BY <1>3, <2>c, KeyTypes DEF CompaniesTypeOK
  <2>5. seen' \in [SourceIds -> Seq(0 .. MaxCompanies)]
    <3>1. ASSUME NEW s \in SourceIds
          PROVE  [i \in DOMAIN seen[s] |-> IF seen[s][i] = lose THEN win ELSE seen[s][i]] \in Seq(0 .. MaxCompanies)
      <4>1. PICK o \in Seq(0 .. MaxCompanies) : o = seen[s]
        BY DEF CompaniesTypeOK
      <4>2. Len(o) \in Nat /\ DOMAIN o = 1 .. Len(o) /\ win \in 0 .. MaxCompanies
        BY <1>3, <4>1, KeyTypes
      <4>3. \A i \in 1 .. Len(o) : o[i] \in 0 .. MaxCompanies
        BY <4>1, ElementOfSeq
      <4>4. [i \in 1 .. Len(o) |-> IF o[i] = lose THEN win ELSE o[i]] \in Seq(0 .. MaxCompanies)
        BY <4>2, <4>3
      <4> QED
        BY <4>1, <4>2, <4>4
    <3> QED
      BY <2>d, <3>1
  <2>6. /\ company' \in [CompanyIds -> Companies]
        /\ company'[win].state = company[win].state
        /\ company'[lose].state = IF company[lose].state = "live" THEN "merged" ELSE company[lose].state
        /\ company'[lose].phones = {}
        /\ \A x \in CompanyIds : company'[x].name = company[x].name
        /\ \A x \in CompanyIds \ {win, lose} : company'[x] = company[x]
    <3>1. PICK p, s : /\ p = company[win].phones \union company[lose].phones
                      /\ s = IF company[lose].state = "live" THEN "merged" ELSE company[lose].state
      OBVIOUS
    <3>2. PICK a, b : /\ a = [company[win] EXCEPT !.phones = p]
                      /\ b = [company[lose] EXCEPT !.phones = {}, !.state = s]
      OBVIOUS
    <3>3. company \in [CompanyIds -> Companies] /\ company[win] \in Companies /\ company[lose] \in Companies
      BY <1>3 DEF CompaniesTypeOK
    <3>4. company' = [company EXCEPT ![win] = a, ![lose] = b]
      BY <1>3, <2>e, <3>1, <3>2, <3>3
    <3>5. /\ a \in Companies /\ a.state = company[win].state /\ a.name = company[win].name
          /\ b \in Companies /\ b.state = s /\ b.phones = {} /\ b.name = company[lose].name
      BY <3>1, <3>2, <3>3 DEF Companies
    <3>6. company' \in [CompanyIds -> Companies] /\ company'[win] = a /\ company'[lose] = b
          /\ \A x \in CompanyIds \ {win, lose} : company'[x] = company[x]
      BY <1>3, <3>3, <3>4, <3>5
    <3>7. \A x \in CompanyIds : company'[x].name = company[x].name
      BY <3>5, <3>6
    <3> QED
      BY <3>1, <3>5, <3>6, <3>7
  <2>7. Joined(h, win, lose)
    BY <1>2, <2>f, <2>g, <2>2, <2>3, <2>4, <2>5, <2>6 DEF Joined
  <2>8. \E u \in TaskStates : JoinedTask(h, u)
    <3>1. PICK wrote : wrote = t.wrote \union {win, lose}
      OBVIOUS
    <3>2. PICK u : u = [t EXCEPT !.at = "claim", !.id = win, !.raise = "none", !.before = <<>>,
                                 !.win = 0, !.lose = 0, !.wrote = wrote]
      OBVIOUS
    <3>3. wrote \in SUBSET CompanyIds /\ win \in 0 .. MaxCompanies /\ 0 \in 0 .. MaxCompanies /\ "none" \in Statuses
      BY <1>1, <1>2, <1>3, <3>1, KeyTypes DEF TaskStates, Statuses
    <3>4. /\ u \in TaskStates /\ u.at = "claim" /\ u.biz = t.biz /\ u.todo = t.todo /\ u.ids = t.ids
          /\ u.cleared = t.cleared /\ u.id = win /\ u.win = 0 /\ u.lose = 0
      BY <1>1, <1>2, <3>2, <3>3 DEF TaskStates
    <3>5. SetTask(h, u)
      BY <2>i, <3>1, <3>2
    <3> QED
      BY <1>2, <3>4, <3>5 DEF JoinedTask
  <2> QED
    BY <1>1, <1>2, <1>3, <1>5, <2>7, <2>8
<1> QED
  BY <1>4, <1>5

\* What a business tells of a record is written to it.
Recorded(c, b) ==
  /\ company' \in [CompanyIds -> Companies]
  /\ company'[c].state = IF company[c].state = "unused" THEN "live" ELSE company[c].state
  /\ \A x \in CompanyIds \ {c} : company'[x] = company[x]
  /\ ownerOf' \in [Domains \union Profiles -> 0 .. MaxCompanies]
  /\ \A k \in Domains \union Profiles : ownerOf'[k] = ownerOf[k] \/ (k \in {b.domain, b.profile} /\ ownerOf'[k] = c)
  /\ seen' \in [SourceIds -> Seq(0 .. MaxCompanies)]
  /\ madeBy' = [madeBy EXCEPT ![c] = LockOf(b)]

RecordedTask(h, c, u) ==
  /\ SetTask(h, u) /\ u.at = "next" /\ u.todo \subseteq task[h].todo /\ u.ids = task[h].ids \union {c}
  /\ u.cleared = task[h].cleared /\ u.id = 0 /\ u.win = 0 /\ u.lose = 0

LEMMA FactsAre ==
  ASSUME CompaniesTypeOK, NEW c \in CompanyIds, NEW b \in Businesses, Facts(c, b)
  PROVE  Recorded(c, b)
<1>1. /\ company' \in [CompanyIds -> Companies]
      /\ company'[c].state = IF company[c].state = "unused" THEN "live" ELSE company[c].state
      /\ \A x \in CompanyIds \ {c} : company'[x] = company[x]
  <2>1. PICK s, n, p : /\ s = IF company[c].state = "unused" THEN "live" ELSE company[c].state
                       /\ n = IF company[c].state = "unused" THEN b.name ELSE company[c].name
                       /\ p = company[c].phones \union ({b.phone} \ {NoKey})
    OBVIOUS
  <2>2. company \in [CompanyIds -> Companies] /\ company[c] \in Companies
    BY DEF CompaniesTypeOK
  <2>3. company' = [company EXCEPT ![c] = [state |-> s, name |-> n, phones |-> p]]
    BY <2>1, <2>2 DEF Facts
  <2>4. n \in Names \union {NoKey} /\ p \in SUBSET Phones
    BY <2>1, <2>2, KeyTypes DEF Companies
  <2>5. s \in {"unused", "live", "merged", "erased"}
    BY <2>1, <2>2 DEF Companies
  <2>6. [state |-> s, name |-> n, phones |-> p] \in Companies
    BY <2>4, <2>5 DEF Companies
  <2> QED
    BY <2>1, <2>2, <2>3, <2>6
<1>2. /\ ownerOf' \in [Domains \union Profiles -> 0 .. MaxCompanies]
      /\ \A k \in Domains \union Profiles : ownerOf'[k] = ownerOf[k] \/ (k \in {b.domain, b.profile} /\ ownerOf'[k] = c)
  <2>1. ownerOf' = [k \in Domains \union Profiles |->
                      IF \/ k = b.domain /\ OwnerOf(k) = 0
                         \/ k = b.profile /\ ownerOf[k] = 0 THEN c ELSE ownerOf[k]]
    BY DEF Facts, CompaniesTypeOK
  <2>2. \A k \in Domains \union Profiles : ownerOf[k] \in 0 .. MaxCompanies
    BY DEF CompaniesTypeOK
  <2> QED
    BY <2>1, <2>2, KeyTypes
<1>3. seen' \in [SourceIds -> Seq(0 .. MaxCompanies)]
  <2>1. PICK o \in Seq(0 .. MaxCompanies) : o = seen[b.source]
    BY KeyTypes DEF CompaniesTypeOK
  <2>2. PICK n : n = IF o # <<>> /\ o[Len(o)] = c THEN o ELSE Append(o, c)
    OBVIOUS
  <2>3. n \in Seq(0 .. MaxCompanies)
    <3>1. c \in 0 .. MaxCompanies
      BY KeyTypes
    <3>2. Append(o, c) \in Seq(0 .. MaxCompanies)
      BY <3>1, AppendProperties
    <3> QED
      BY <2>2, <3>2
  <2>4. seen' = [seen EXCEPT ![b.source] = n]
    BY <2>1, <2>2 DEF Facts
  <2> QED
    BY <2>3, <2>4 DEF CompaniesTypeOK
<1>4. madeBy' = [madeBy EXCEPT ![c] = LockOf(b)]
  BY DEF Facts
<1> QED
  BY <1>1, <1>2, <1>3, <1>4 DEF Recorded

LEMMA FinishFacts ==
  ASSUME CompaniesTypeOK, TaskInv, NEW h \in Handlers, Finish(h)
  PROVE  /\ UNCHANGED <<into, standing, doNot, tasks, refused, raced, handVars>>
         /\ task[h].at = "finish" /\ task[h].biz \in task[h].todo /\ task[h].biz \in Businesses
         /\ \/ SetTask(h, NoTask) /\ UNCHANGED <<company, ownerOf, seen, madeBy>>
            \/ \E c \in CompanyIds :
                 /\ \/ task[h].id = c /\ company[c].state # "erased"
                    \/ task[h].id = 0 /\ ~Used(c)
                 /\ Recorded(c, task[h].biz)
                 /\ \E u \in TaskStates : RecordedTask(h, c, u)
<1>1. /\ task[h] \in TaskStates /\ task[h].at = "finish" /\ task[h].biz \in task[h].todo /\ task[h].biz \in Businesses
      /\ UNCHANGED <<into, standing, doNot, tasks, refused, raced, handVars>>
  BY DEF CompaniesTypeOK, TaskStates, Finish, TaskInv, InTransaction
<1>2. PICK t, unused : t = task[h] /\ unused = {c \in CompanyIds : company[c].state = "unused"}
  OBVIOUS
<1>3. PICK oldest : oldest = CHOOSE c \in unused : \A d \in unused : c <= d
  OBVIOUS
<1>4. CASE t.id # 0 /\ company[t.id].state = "erased"
  BY <1>1, <1>2, <1>4 DEF Finish, StopTask
<1>5. CASE ~(t.id # 0 /\ company[t.id].state = "erased")
  <2>1. PICK c : c = IF t.id = 0 THEN oldest ELSE t.id
    OBVIOUS
  <2>2. /\ t.id = 0 => unused # {}
        /\ Facts(c, t.biz)
        /\ SetTask(h, [NoTask EXCEPT !.at = "next", !.todo = t.todo \ {t.biz},
                                     !.ids = t.ids \union {c}, !.cleared = t.cleared])
    BY <1>2, <1>3, <1>5, <2>1 DEF Finish
  <2>3. unused \in SUBSET Nat /\ unused \subseteq CompanyIds
    BY <1>2 DEF CompanyIds
  <2>4. t.id = 0 => oldest \in unused
    BY <1>3, <2>2, <2>3, LeastExists
  <2>5. c \in CompanyIds
    BY <1>1, <1>2, <2>1, <2>3, <2>4, KeyTypes DEF TaskStates
  <2>6. (t.id = c /\ company[c].state # "erased") \/ (t.id = 0 /\ ~Used(c))
    BY <1>2, <1>5, <2>1, <2>4 DEF Used
  <2>7. Recorded(c, t.biz)
    BY <1>1, <1>2, <2>2, <2>5, FactsAre
  <2>8. PICK rest, found, cleared : rest = t.todo \ {t.biz} /\ found = t.ids \union {c} /\ cleared = t.cleared
    OBVIOUS
  <2>9. rest \in SUBSET t.todo /\ rest \in SUBSET Businesses /\ found \in SUBSET CompanyIds /\ cleared \in SUBSET Domains
    BY <1>1, <1>2, <2>5, <2>8 DEF TaskStates
  <2>10. PICK u : u = [NoTask EXCEPT !.at = "next", !.todo = rest, !.ids = found, !.cleared = cleared]
    OBVIOUS
  <2>11. /\ u \in TaskStates /\ u.at = "next" /\ u.todo = rest /\ u.ids = found /\ u.cleared = cleared
         /\ u.id = 0 /\ u.win = 0 /\ u.lose = 0
    BY <2>9, <2>10, NoTaskIs DEF TaskStates
  <2>12. RecordedTask(h, c, u)
    BY <1>2, <2>2, <2>8, <2>9, <2>10, <2>11 DEF RecordedTask
  <2> QED
    BY <1>1, <1>2, <2>5, <2>6, <2>7, <2>11, <2>12
<1> QED
  BY <1>4, <1>5

LEMMA AddFacts ==
  ASSUME CompaniesTypeOK, NEW h \in Handlers, AddLeads(h)
  PROVE  /\ UNCHANGED <<company, ownerOf, seen, into, doNot, tasks, refused, raced, madeBy, handVars>>
         /\ SetTask(h, NoTask)
         /\ standing' \in [CompanyIds -> Statuses]
         /\ \A c \in CompanyIds :
              \/ standing'[c] = standing[c]
              \/ standing[c] = "none" /\ standing'[c] = "new" /\ ToAdd(h, c) /\ company[c].state # "erased"
<1>1. UNCHANGED <<company, ownerOf, seen, into, doNot, tasks, refused, raced, madeBy, handVars>> /\ SetTask(h, NoTask)
  BY DEF AddLeads, StopTask
<1>2. standing \in [CompanyIds -> Statuses] /\ "new" \in Statuses
  BY DEF CompaniesTypeOK, Statuses, Standings
<1>3. CASE \E c \in task[h].ids : company[c].state = "erased"
  BY <1>1, <1>2, <1>3 DEF AddLeads
<1>4. CASE ~\E c \in task[h].ids : company[c].state = "erased"
  <2>1. PICK added \in SUBSET {c \in task[h].ids : standing[c] = "none"} :
          standing' = [c \in CompanyIds |-> IF c \in added THEN "new" ELSE standing[c]]
    BY <1>4 DEF AddLeads
  <2>2. \A c \in added : standing[c] = "none" /\ ToAdd(h, c) /\ company[c].state # "erased"
    BY <1>4, <2>1 DEF ToAdd
  <2> QED
    BY <1>1, <1>2, <2>1, <2>2
<1> QED
  BY <1>3, <1>4

LEMMA CrawlFacts ==
  ASSUME CompaniesTypeOK, NEW h \in Handlers, NEW c \in CompanyIds, Crawl(h, c)
  PROVE  /\ RestOfData /\ doNot' = doNot /\ tasks' \in 0 .. MaxTasks /\ Present(c)
         /\ \E u \in TaskStates :
              /\ SetTask(h, u) /\ u.at = "crawl" /\ u.id = c /\ u.todo = {} /\ u.ids = {}
              /\ u.win = 0 /\ u.lose = 0
<1>1. PICK u : u = [NoTask EXCEPT !.at = "crawl", !.id = c, !.cleared = Domains \ doNot]
  OBVIOUS
<1>2. /\ u \in TaskStates /\ u.at = "crawl" /\ u.id = c /\ u.todo = {} /\ u.ids = {} /\ u.win = 0 /\ u.lose = 0
  BY <1>1, NoTaskIs, KeyTypes DEF TaskStates
<1>3. SetTask(h, u) /\ RestOfData /\ doNot' = doNot /\ tasks' \in 0 .. MaxTasks /\ Present(c)
  BY <1>1, KeyTypes DEF Crawl, RestOfData, CompaniesTypeOK
<1> QED
  BY <1>2, <1>3

LEMMA ApplyFacts ==
  ASSUME CompaniesTypeOK, TaskInv, NEW h \in Handlers, NEW d \in Redirects, ApplySite(h, d)
  PROVE  /\ UNCHANGED <<company, seen, into, standing, doNot, tasks, refused, raced, madeBy, handVars>>
         /\ SetTask(h, NoTask) /\ task[h].at = "crawl" /\ task[h].id \in CompanyIds
         /\ ownerOf' \in [Domains \union Profiles -> 0 .. MaxCompanies]
         /\ \A k \in Domains \union Profiles : ownerOf'[k] = ownerOf[k] \/ (k = d /\ ownerOf'[k] = task[h].id)
<1>1. /\ UNCHANGED <<company, seen, into, standing, doNot, tasks, refused, raced, madeBy, handVars>>
      /\ SetTask(h, NoTask) /\ task[h].at = "crawl"
      /\ ownerOf' = IF ownerOf[d] = 0 /\ company[task[h].id].state # "erased"
                      THEN [ownerOf EXCEPT ![d] = task[h].id] ELSE ownerOf
  BY DEF ApplySite, StopTask
<1>2. task[h].id \in CompanyIds /\ task[h].id \in 0 .. MaxCompanies
  BY <1>1, KeyTypes DEF TaskInv, CompaniesTypeOK, TaskStates
<1> QED
  BY <1>1, <1>2, KeyTypes DEF CompaniesTypeOK

-----------------------------------------------------------------------------
(* What the user and a request for erasure do *)

LEMMA ReviewFacts ==
  ASSUME CompaniesTypeOK, NEW c \in CompanyIds, NEW status \in {"new", "reviewed", "rejected"}, Review(c, status)
  PROVE  /\ UNCHANGED <<company, ownerOf, seen, into, doNot, task, tasks, raced, madeBy, export>>
         /\ outside' \in 0 .. MaxOutside /\ standing[c] # "none" /\ standing' = [standing EXCEPT ![c] = status]
         /\ standing' \in [CompanyIds -> Statuses]
         /\ refused' = IF status = "rejected" THEN refused \union {c} ELSE {x \in refused : Root(x) # Root(c)}
         /\ overruled' = IF status = "rejected" /\ export.of = c THEN overruled \union {c} ELSE overruled
<1>1. /\ UNCHANGED <<company, ownerOf, seen, into, doNot, task, tasks, raced, madeBy, export>>
      /\ standing[c] \notin {"none", status} /\ standing' = [standing EXCEPT ![c] = status]
      /\ refused' = IF status = "rejected" THEN refused \union {c} ELSE {x \in refused : Root(x) # Root(c)}
      /\ overruled' = IF status = "rejected" /\ export.of = c THEN overruled \union {c} ELSE overruled
  BY DEF Review
<1>2. outside' \in 0 .. MaxOutside
  BY KeyTypes DEF Review, CompaniesTypeOK
<1>3. standing \in [CompanyIds -> Statuses] /\ status \in Statuses
  BY DEF CompaniesTypeOK, Statuses, Standings
<1> QED
  BY <1>1, <1>2, <1>3

LEMMA ReadFacts ==
  ASSUME CompaniesTypeOK, NEW c \in CompanyIds, NEW to \in {"saved_to_crm", "in_campaign"}, ReadLeads(c, to)
  PROVE  /\ UNCHANGED <<company, ownerOf, seen, into, standing, doNot, task, tasks, refused, raced, madeBy, overruled>>
         /\ outside' \in 0 .. MaxOutside
         /\ export' \in [of : 0 .. MaxCompanies, to : {"none", "saved_to_crm", "in_campaign"}]
         /\ export'.of = c /\ standing[c] # "rejected"
<1>1. /\ UNCHANGED <<company, ownerOf, seen, into, standing, doNot, task, tasks, refused, raced, madeBy, overruled>>
      /\ standing[c] # "rejected" /\ export' = [of |-> c, to |-> to]
  BY DEF ReadLeads, MayExport
<1>2. outside' \in 0 .. MaxOutside
  BY KeyTypes DEF ReadLeads, CompaniesTypeOK
<1> QED
  BY <1>1, <1>2, KeyTypes

LEMMA WriteFacts ==
  ASSUME CompaniesTypeOK, WriteLeads
  PROVE  /\ UNCHANGED <<company, ownerOf, seen, into, doNot, task, tasks, refused, raced, madeBy, outside, overruled>>
         /\ export' \in [of : 0 .. MaxCompanies, to : {"none", "saved_to_crm", "in_campaign"}] /\ export'.of = 0
         /\ standing' \in [CompanyIds -> Statuses]
         /\ \A x \in CompanyIds :
              standing'[x] = standing[x] \/ (x = export.of /\ standing[x] # "none" /\ standing'[x] # "rejected")
<1>1. /\ UNCHANGED <<company, ownerOf, seen, into, doNot, task, tasks, refused, raced, madeBy, outside, overruled>>
      /\ export' = NoExport
      /\ standing' = [x \in CompanyIds |->
           IF x = export.of /\ standing[export.of] \notin {"none", "in_campaign"} THEN export.to ELSE standing[x]]
  BY DEF WriteLeads
<1>2. PICK to : to = export.to
  OBVIOUS
<1>3. /\ to \in {"none", "saved_to_crm", "in_campaign"} /\ to \in Statuses /\ to # "rejected"
      /\ standing \in [CompanyIds -> Statuses]
  BY <1>2 DEF CompaniesTypeOK, Statuses, Standings
<1>4. standing' \in [CompanyIds -> Statuses]
  BY <1>1, <1>2, <1>3
<1>5. \A x \in CompanyIds :
        standing'[x] = standing[x] \/ (x = export.of /\ standing[x] # "none" /\ standing'[x] # "rejected")
  BY <1>1, <1>2, <1>3
<1>6. export' \in [of : 0 .. MaxCompanies, to : {"none", "saved_to_crm", "in_campaign"}] /\ export'.of = 0
  BY <1>1, KeyTypes DEF NoExport
<1> QED
  BY <1>1, <1>4, <1>5, <1>6

Erased(c) ==
  /\ company' \in [CompanyIds -> Companies]
  /\ company'[c].state = "erased" /\ company'[c].phones = {}
  /\ \A x \in CompanyIds \ {c} : company'[x] = company[x] /\ standing'[x] = standing[x]
  /\ ownerOf' \in [Domains \union Profiles -> 0 .. MaxCompanies]
  /\ \A k \in Domains \union Profiles : ownerOf'[k] = IF ownerOf[k] = c THEN 0 ELSE ownerOf[k]
  /\ seen' \in [SourceIds -> Seq(0 .. MaxCompanies)]
  /\ standing' \in [CompanyIds -> Statuses] /\ standing'[c] = "none"
  /\ refused' = {x \in refused : Root(x) # c}

LEMMA EraseFacts ==
  ASSUME CompaniesTypeOK, NEW d \in Domains, Erase(d)
  PROVE  /\ UNCHANGED <<into, task, tasks, raced, madeBy, overruled>>
         /\ doNot' \subseteq Domains /\ doNot \subseteq doNot' /\ outside' \in 0 .. MaxOutside
         /\ export' \in [of : 0 .. MaxCompanies, to : {"none", "saved_to_crm", "in_campaign"}]
         /\ export' = export \/ export'.of = 0
         /\ \/ UNCHANGED <<company, ownerOf, seen, standing, refused>>
            \/ ownerOf[d] \in CompanyIds /\ Erased(ownerOf[d])
<1>1. PICK c : c = ownerOf[d]
  OBVIOUS
<1>2. c \in 0 .. MaxCompanies
  BY <1>1 DEF CompaniesTypeOK
<1>3. /\ UNCHANGED <<into, task, tasks, raced, madeBy, overruled>>
      /\ export' = IF c # 0 /\ export.of = c THEN [export EXCEPT !.of = 0] ELSE export
  BY <1>1 DEF Erase
<1>4. doNot' \subseteq Domains /\ doNot \subseteq doNot' /\ outside' \in 0 .. MaxOutside
  BY KeyTypes DEF Erase, CompaniesTypeOK
<1>5. /\ export' \in [of : 0 .. MaxCompanies, to : {"none", "saved_to_crm", "in_campaign"}]
      /\ export' = export \/ export'.of = 0
  <2>1. PICK to : to = export.to
    OBVIOUS
  <2>2. export = [of |-> export.of, to |-> to] /\ to \in {"none", "saved_to_crm", "in_campaign"}
    BY <2>1 DEF CompaniesTypeOK
  <2>3. CASE c # 0 /\ export.of = c
    <3>1. export' = [of |-> 0, to |-> to]
      BY <1>3, <2>2, <2>3
    <3> QED
      BY <2>2, <3>1, KeyTypes
  <2>4. CASE ~(c # 0 /\ export.of = c)
    BY <1>3, <2>4 DEF CompaniesTypeOK
  <2> QED
    BY <2>3, <2>4
<1>6. CASE c = 0
  BY <1>1, <1>3, <1>4, <1>5, <1>6 DEF Erase
<1>7. CASE c # 0
  <2>1. c \in CompanyIds
    BY <1>2, <1>7, KeyTypes
  <2>2. company' = [company EXCEPT ![c].state = "erased", ![c].phones = {}]
    BY <1>1, <1>7 DEF Erase
  <2>3. ownerOf' = [k \in DOMAIN ownerOf |-> IF ownerOf[k] = c THEN 0 ELSE ownerOf[k]]
    BY <1>1, <1>7 DEF Erase
  <2>4. seen' = [s \in SourceIds |-> [i \in DOMAIN seen[s] |-> IF seen[s][i] = c THEN 0 ELSE seen[s][i]]]
    BY <1>1, <1>7 DEF Erase
  <2>5. standing' = [standing EXCEPT ![c] = "none"] /\ refused' = {x \in refused : Root(x) # c}
    BY <1>1, <1>7 DEF Erase
  <2>6. seen' \in [SourceIds -> Seq(0 .. MaxCompanies)]
    <3>1. ASSUME NEW s \in SourceIds
          PROVE  [i \in DOMAIN seen[s] |-> IF seen[s][i] = c THEN 0 ELSE seen[s][i]] \in Seq(0 .. MaxCompanies)
      <4>1. PICK o \in Seq(0 .. MaxCompanies) : o = seen[s]
        BY DEF CompaniesTypeOK
      <4>2. Len(o) \in Nat /\ DOMAIN o = 1 .. Len(o) /\ 0 \in 0 .. MaxCompanies
        BY <4>1, KeyTypes
      <4>3. \A i \in 1 .. Len(o) : o[i] \in 0 .. MaxCompanies
        BY <4>1, ElementOfSeq
      <4>4. [i \in 1 .. Len(o) |-> IF o[i] = c THEN 0 ELSE o[i]] \in Seq(0 .. MaxCompanies)
        BY <4>2, <4>3
      <4> QED
        BY <4>1, <4>2, <4>4
    <3> QED
      BY <2>4, <3>1
  <2>7. /\ company' \in [CompanyIds -> Companies] /\ company'[c].state = "erased" /\ company'[c].phones = {}
        /\ \A x \in CompanyIds \ {c} : company'[x] = company[x]
    <3>1. PICK a : a = [company[c] EXCEPT !.state = "erased", !.phones = {}]
      OBVIOUS
    <3>2. company \in [CompanyIds -> Companies] /\ company[c] \in Companies
      BY <2>1 DEF CompaniesTypeOK
    <3>3. company' = [company EXCEPT ![c] = a]
      BY <2>1, <2>2, <3>1, <3>2
    <3>4. a \in Companies /\ a.state = "erased" /\ a.phones = {}
      BY <3>1, <3>2 DEF Companies
    <3> QED
      BY <2>1, <3>2, <3>3, <3>4
  <2>8. /\ standing' \in [CompanyIds -> Statuses] /\ standing'[c] = "none"
        /\ \A x \in CompanyIds \ {c} : standing'[x] = standing[x]
    BY <2>1, <2>5 DEF CompaniesTypeOK, Statuses
  <2>9. /\ ownerOf' \in [Domains \union Profiles -> 0 .. MaxCompanies]
        /\ \A k \in Domains \union Profiles : ownerOf'[k] = IF ownerOf[k] = c THEN 0 ELSE ownerOf[k]
    BY <2>3, KeyTypes DEF CompaniesTypeOK
  <2>10. Erased(c)
    BY <2>5, <2>6, <2>7, <2>8, <2>9 DEF Erased
  <2> QED
    BY <1>1, <1>3, <1>4, <1>5, <2>1, <2>10
<1> QED
  BY <1>6, <1>7

-----------------------------------------------------------------------------
(* Steps that change no record *)

AtWorkOf(t, c) == c \in t.ids \/ c \in {t.id, t.win, t.lose}

\* What the invariants say of a task by itself.
Ready(t) ==
  /\ t.at \in {"claim", "merge", "join", "finish"} => t.biz \in t.todo
  /\ t.at \in {"merge", "join"} => t.win \in 1 .. t.lose - 1
  /\ t.at \notin {"merge", "join"} => t.win = 0 /\ t.lose = 0
  /\ t.at = "crawl" => t.id # 0
  /\ t.at = "join" => \E a, b \in Statuses : t.before = <<a, b>> /\ t.raise = Better(a, b)
  /\ \A b \in t.todo : b.domain \in t.cleared \union {NoKey}

LEMMA NoTaskReady == Ready(NoTask)
BY NoTaskIs DEF Ready

LEMMA TasksStay ==
  ASSUME CompaniesTypeOK, TaskInv, JoinInv, ClearInv, NEW h \in Handlers, NEW u \in TaskStates, SetTask(h, u), Ready(u)
  PROVE  /\ TaskInv' /\ JoinInv' /\ ClearInv' /\ task' \in [Handlers -> TaskStates]
         /\ \A g \in Handlers : task'[g].at \in {"merge", "join"} => task'[g].win \in 1 .. task'[g].lose - 1
<1>1. /\ task' \in [Handlers -> TaskStates] /\ task'[h] = u /\ \A g \in Handlers : g # h => task'[g] = task[g]
  BY TaskSet
<1>2. TaskInv'
  BY <1>1 DEF TaskInv, Ready, InTransaction
<1>3. JoinInv'
  BY <1>1 DEF JoinInv, Ready
<1>4. ClearInv'
  BY <1>1 DEF ClearInv, Ready
<1>5. \A g \in Handlers : task'[g].at \in {"merge", "join"} => task'[g].win \in 1 .. task'[g].lose - 1
  BY <1>1 DEF CompaniesTypeOK, Ready
<1> QED
  BY <1>1, <1>2, <1>3, <1>4, <1>5

LEMMA LocksStay ==
  ASSUME CompaniesTypeOK, LockInv, NEW h \in Handlers, NEW u \in TaskStates, SetTask(h, u),
         u.at \in {"claim", "merge", "join", "finish"} =>
           LockFree(h, u.biz) \/ (InTransaction(h) /\ u.biz = task[h].biz)
  PROVE  LockInv'
<1>1. /\ task'[h] = u /\ \A g \in Handlers : g # h => task'[g] = task[g]
  BY TaskSet
<1>2. ASSUME u.at \in {"claim", "merge", "join", "finish"}, NEW g \in Handlers, g # h, InTransaction(g)
      PROVE  LockOf(task[g].biz) # LockOf(u.biz)
  BY <1>2 DEF LockInv, LockFree
<1> QED
  BY <1>1, <1>2 DEF LockInv, InTransaction

LEMMA TwinsStay ==
  ASSUME CompaniesTypeOK, TwinInv, NEW h \in Handlers, NEW u \in TaskStates, SetTask(h, u),
         company' = company, madeBy' = madeBy,
         u.at \in {"claim", "merge", "join", "finish"} /\ u.id = 0 =>
           /\ u.at \in {"claim", "finish"}
           /\ AtPlace(u.biz) = {} \/ (InTransaction(h) /\ task[h].id = 0 /\ u.biz = task[h].biz)
  PROVE  TwinInv'
<1>1. /\ task'[h] = u /\ \A g \in Handlers : g # h => task'[g] = task[g]
  BY TaskSet
<1>2. \A b : AtPlace(b)' = AtPlace(b)
  BY DEF AtPlace, Present
<1>3. ASSUME NEW g \in Handlers, InTransaction(g)', task'[g].id = 0
      PROVE  task'[g].at \in {"claim", "finish"} /\ \A c \in AtPlace(task'[g].biz) : madeBy[c] # LockOf(task'[g].biz)
  BY <1>1, <1>3 DEF TwinInv, InTransaction
<1> QED
  BY <1>2, <1>3 DEF TwinInv, AtPlace, Present

\* The records and the leads are left as they are, and a handler takes only live ones to itself.
LEMMA RecordsStay ==
  ASSUME CompaniesInv, NEW h \in Handlers, NEW u \in TaskStates, SetTask(h, u),
         UNCHANGED <<company, into, standing, refused, raced, overruled, export>>,
         \A c \in CompanyIds : AtWorkOf(u, c) => ToAdd(h, c) \/ AtWork(h, c) \/ Present(c)
  PROVE  /\ IntoInv' /\ ErasedInv' /\ MergedInv' /\ ExportInv' /\ RejectionHolds'
         /\ (\A k \in Domains \union Profiles : ownerOf'[k] = ownerOf[k] \/ Used(ownerOf'[k])) => KnownInv'
<1>1. /\ task'[h] = u /\ \A g \in Handlers : g # h => task'[g] = task[g]
  BY TaskSet DEF CompaniesInv
<1>2. \A c \in CompanyIds, g \in Handlers :
        (ToAdd(g, c) \/ AtWork(g, c))' => ToAdd(g, c) \/ AtWork(g, c) \/ Present(c)
  BY <1>1 DEF ToAdd, AtWork, AtWorkOf
<1>3. IntoInv'
  BY DEF CompaniesInv, IntoInv
<1>4. ErasedInv'
  BY DEF CompaniesInv, ErasedInv
<1>5. MergedInv'
  BY <1>2 DEF CompaniesInv, MergedInv, Present
<1>6. ExportInv'
  BY DEF CompaniesInv, ExportInv
<1>7. \A c : Root(c)' = Root(c) /\ Present(c)' = Present(c)
  BY DEF Root, Present
<1>8. \A c : Trail(c)' = Trail(c)
  BY <1>7 DEF Trail
<1>9. RejectionHolds'
  BY <1>7, <1>8 DEF CompaniesInv, RejectionHolds
<1>10. ASSUME \A k \in Domains \union Profiles : ownerOf'[k] = ownerOf[k] \/ Used(ownerOf'[k])
       PROVE  KnownInv'
  BY <1>2, <1>10 DEF CompaniesInv, KnownInv, Present, Used
<1> QED
  BY <1>3, <1>4, <1>5, <1>6, <1>9, <1>10

LEMMA QuietStep ==
  ASSUME CompaniesInv, NEW h \in Handlers, NEW u \in TaskStates, SetTask(h, u), Ready(u),
         RestOfData, doNot' = doNot, tasks' \in 0 .. MaxTasks,
         \A c \in CompanyIds : AtWorkOf(u, c) => ToAdd(h, c) \/ AtWork(h, c) \/ Present(c),
         u.at \in {"claim", "merge", "join", "finish"} =>
           LockFree(h, u.biz) \/ (InTransaction(h) /\ u.biz = task[h].biz),
         u.at \in {"claim", "merge", "join", "finish"} /\ u.id = 0 =>
           /\ u.at \in {"claim", "finish"}
           /\ AtPlace(u.biz) = {} \/ (InTransaction(h) /\ task[h].id = 0 /\ u.biz = task[h].biz)
  PROVE  CompaniesInv'
<1>1. /\ CompaniesTypeOK /\ TaskInv /\ JoinInv /\ ClearInv /\ LockInv /\ TwinInv
      /\ UNCHANGED <<company, ownerOf, seen, into, standing, refused, raced, overruled, export, madeBy, outside>>
  BY DEF CompaniesInv, RestOfData, handVars
<1>2. /\ TaskInv' /\ JoinInv' /\ ClearInv' /\ task' \in [Handlers -> TaskStates]
      /\ \A g \in Handlers : task'[g].at \in {"merge", "join"} => task'[g].win \in 1 .. task'[g].lose - 1
  BY <1>1, TasksStay
<1>3. CompaniesTypeOK'
  BY <1>1, <1>2 DEF CompaniesTypeOK
<1>4. LockInv'
  BY <1>1, LocksStay
<1>5. TwinInv'
  BY <1>1, TwinsStay
<1>6. /\ IntoInv' /\ ErasedInv' /\ MergedInv' /\ ExportInv' /\ RejectionHolds'
      /\ (\A k \in Domains \union Profiles : ownerOf'[k] = ownerOf[k] \/ Used(ownerOf'[k])) => KnownInv'
  BY <1>1, RecordsStay
<1>7. KnownInv'
  BY <1>1, <1>6
<1> QED
  BY <1>2, <1>3, <1>4, <1>5, <1>6, <1>7 DEF CompaniesInv

LEMMA StopStep ==
  ASSUME CompaniesInv, NEW h \in Handlers, SetTask(h, NoTask), RestOfData, doNot' = doNot, tasks' = tasks
  PROVE  CompaniesInv'
<1>1. \A c \in CompanyIds : ~AtWorkOf(NoTask, c)
  BY NoTaskIs, KeyTypes DEF AtWorkOf
<1>2. tasks' \in 0 .. MaxTasks
  BY DEF CompaniesInv, CompaniesTypeOK
<1> QED
  BY <1>1, <1>2, NoTaskIs, NoTaskReady, QuietStep

LEMMA FindStep ==
  ASSUME CompaniesInv, NEW h \in Handlers, NEW found \in SUBSET Businesses, Find(h, found)
  PROVE  CompaniesInv'
<1>1. CompaniesTypeOK
  BY DEF CompaniesInv
<1>2. RestOfData /\ doNot' = doNot /\ tasks' \in 0 .. MaxTasks
  BY <1>1, FindFacts
<1>3. PICK u \in TaskStates :
        /\ SetTask(h, u) /\ u.at = "next" /\ u.todo \subseteq {b \in Businesses : b.domain \notin doNot}
        /\ u.cleared = Domains \ doNot /\ u.ids = {} /\ u.id = 0 /\ u.win = 0 /\ u.lose = 0
  BY <1>1, FindFacts
<1>4. Ready(u)
  BY <1>3, KeyTypes DEF Ready
<1>5. \A c \in CompanyIds : ~AtWorkOf(u, c)
  BY <1>3, KeyTypes DEF AtWorkOf
<1> QED
  BY <1>2, <1>3, <1>4, <1>5, QuietStep

LEMMA ResolveStep ==
  ASSUME CompaniesInv, NEW h \in Handlers, NEW b \in task[h].todo, Resolve(h, b)
  PROVE  CompaniesInv'
<1>1. CompaniesTypeOK /\ TaskInv /\ ClearInv /\ tasks \in 0 .. MaxTasks
  BY DEF CompaniesInv, CompaniesTypeOK
<1>2. RestOfData /\ UNCHANGED <<doNot, tasks>> /\ task[h].at = "next" /\ LockFree(h, b)
  BY <1>1, ResolveFacts
<1>3. PICK u \in TaskStates :
        /\ SetTask(h, u) /\ u.biz = b /\ u.todo = task[h].todo /\ u.ids = task[h].ids
        /\ u.cleared = task[h].cleared
        /\ u.id # 0 => u.id \in CompanyIds /\ Present(u.id)
        /\ u.id = 0 => AtPlace(b) = {}
        /\ \/ u.at = "claim" /\ u.win = 0 /\ u.lose = 0
           \/ /\ u.at = "merge" /\ u.id # 0 /\ u.win \in CompanyIds /\ u.lose \in CompanyIds
              /\ Present(u.win) /\ Present(u.lose) /\ u.win \in 1 .. u.lose - 1
  BY <1>1, ResolveFacts
<1>4. Ready(u)
  BY <1>1, <1>3 DEF Ready, ClearInv
<1>5. \A c \in CompanyIds : AtWorkOf(u, c) => ToAdd(h, c) \/ Present(c)
  BY <1>3, KeyTypes DEF AtWorkOf, ToAdd
<1> QED
  BY <1>1, <1>2, <1>3, <1>4, <1>5, QuietStep

LEMMA ClaimStep ==
  ASSUME CompaniesInv, NEW h \in Handlers, ClaimWebsite(h)
  PROVE  CompaniesInv'
<1>1. CompaniesTypeOK /\ TaskInv /\ ClearInv /\ TwinInv /\ tasks \in 0 .. MaxTasks
  BY DEF CompaniesInv, CompaniesTypeOK
<1>2. RestOfData /\ UNCHANGED <<doNot, tasks>> /\ task[h].at = "claim"
  BY <1>1, ClaimFacts
<1>3. PICK u \in TaskStates :
        /\ SetTask(h, u) /\ u.biz = task[h].biz /\ u.todo = task[h].todo /\ u.ids = task[h].ids
        /\ u.cleared = task[h].cleared
        /\ u.id = task[h].id \/ (task[h].id = 0 /\ u.id \in CompanyIds /\ Present(u.id))
        /\ \/ u.at = "finish" /\ u.win = 0 /\ u.lose = 0
           \/ /\ u.at = "merge" /\ u.id # 0 /\ u.win \in CompanyIds /\ u.lose \in CompanyIds
              /\ u.win = task[h].id \/ Present(u.win)
              /\ u.lose = task[h].id \/ Present(u.lose)
              /\ u.win \in 1 .. u.lose - 1
  BY <1>1, ClaimFacts
<1>4. InTransaction(h)
  BY <1>2 DEF InTransaction
<1>5. Ready(u)
  BY <1>1, <1>3, <1>4 DEF Ready, ClearInv, TaskInv
<1>6. \A c \in CompanyIds : AtWorkOf(u, c) => ToAdd(h, c) \/ AtWork(h, c) \/ Present(c)
  BY <1>3, KeyTypes DEF AtWorkOf, ToAdd, AtWork
<1>7. u.id = 0 => task[h].id = 0 /\ u.at = "finish"
  BY <1>3, KeyTypes
<1> QED
  BY <1>1, <1>2, <1>3, <1>4, <1>5, <1>6, <1>7, QuietStep

LEMMA MergeStep ==
  ASSUME CompaniesInv, NEW h \in Handlers, Merge(h)
  PROVE  CompaniesInv'
<1>1. CompaniesTypeOK /\ TaskInv /\ ClearInv /\ TwinInv /\ tasks \in 0 .. MaxTasks
  BY DEF CompaniesInv, CompaniesTypeOK
<1>2. RestOfData /\ UNCHANGED <<doNot, tasks>> /\ task[h].at = "merge"
  BY <1>1, MergeFacts
<1>3. PICK u \in TaskStates :
        /\ SetTask(h, u) /\ u.at = "join" /\ u.biz = task[h].biz /\ u.todo = task[h].todo
        /\ u.ids = task[h].ids /\ u.cleared = task[h].cleared /\ u.id = task[h].id
        /\ u.win = task[h].win /\ u.lose = task[h].lose
        /\ u.before = <<standing[u.win], standing[u.lose]>>
        /\ u.raise = Better(standing[u.win], standing[u.lose])
  BY <1>1, MergeFacts
<1>4. InTransaction(h) /\ task[h].win \in 1 .. task[h].lose - 1 /\ task[h].lose \in 0 .. MaxCompanies
  BY <1>1, <1>2 DEF InTransaction, CompaniesTypeOK, TaskStates
<1>5. standing[u.win] \in Statuses /\ standing[u.lose] \in Statuses
  BY <1>1, <1>3, <1>4, KeyTypes DEF CompaniesTypeOK, CompanyIds
<1>6. Ready(u)
  <2>1. \E a, b \in Statuses : u.before = <<a, b>> /\ u.raise = Better(a, b)
    BY <1>3, <1>5
  <2> QED
    BY <1>1, <1>3, <1>4, <2>1 DEF Ready, ClearInv, TaskInv
<1>7. \A c \in CompanyIds : AtWorkOf(u, c) => ToAdd(h, c) \/ AtWork(h, c)
  BY <1>3 DEF AtWorkOf, ToAdd, AtWork
<1>8. task[h].id # 0
  BY <1>1, <1>2, <1>4 DEF TwinInv
<1> QED
  BY <1>1, <1>2, <1>3, <1>4, <1>6, <1>7, <1>8, QuietStep

LEMMA CrawlStep ==
  ASSUME CompaniesInv, NEW h \in Handlers, NEW c \in CompanyIds, Crawl(h, c)
  PROVE  CompaniesInv'
<1>1. CompaniesTypeOK
  BY DEF CompaniesInv
<1>2. RestOfData /\ doNot' = doNot /\ tasks' \in 0 .. MaxTasks /\ Present(c)
  BY <1>1, CrawlFacts
<1>3. PICK u \in TaskStates :
        SetTask(h, u) /\ u.at = "crawl" /\ u.id = c /\ u.todo = {} /\ u.ids = {} /\ u.win = 0 /\ u.lose = 0
  BY <1>1, CrawlFacts
<1>4. Ready(u)
  BY <1>3, KeyTypes DEF Ready
<1>5. \A x \in CompanyIds : AtWorkOf(u, x) => Present(x)
  BY <1>2, <1>3, KeyTypes DEF AtWorkOf
<1> QED
  BY <1>2, <1>3, <1>4, <1>5, QuietStep

-----------------------------------------------------------------------------
(* The record that a company lives on in *)

\* Each record points at an older one or at none.
Older(f) == f \in [CompanyIds -> 0 .. MaxCompanies] /\ \A c \in CompanyIds : f[c] # 0 => f[c] < c

RootBy(f) == CHOOSE r : r = [d \in CompanyIds |-> IF f[d] = 0 THEN d ELSE r[f[d]]]

LEMMA RootExists ==
  ASSUME NEW f, Older(f)
  PROVE  \E r : r = [d \in CompanyIds |-> IF f[d] = 0 THEN d ELSE r[f[d]]]
<1> DEFINE Upto(n) == \E r : r = [d \in 1 .. n |-> IF f[d] = 0 THEN d ELSE r[f[d]]]
<1>0. PICK bad : bad = {n \in 0 .. MaxCompanies : ~Upto(n)}
  OBVIOUS
<1>1. bad \in SUBSET Nat /\ bad = {n \in 0 .. MaxCompanies : ~Upto(n)}
  <2>1. bad \subseteq 0 .. MaxCompanies
    BY <1>0
  <2> QED
    BY <1>0, <2>1, KeyTypes
<1>2. CASE bad = {}
  <2>1. Upto(MaxCompanies)
    BY <1>1, <1>2, KeyTypes
  <2> QED
    BY <2>1 DEF CompanyIds
<1>3. CASE bad # {}
  <2>1. PICK n \in bad : \A m \in bad : n <= m
    BY <1>1, <1>3, LeastExists
  <2>2. n \in 0 .. MaxCompanies /\ ~Upto(n)
    BY <1>1, <2>1
  <2>3. n # 0
    <3>1. Upto(0)
      <4>1. 1 .. 0 = {}
        OBVIOUS
      <4>2. [d \in 1 .. 0 |-> 0] = [d \in 1 .. 0 |-> IF f[d] = 0 THEN d ELSE [e \in 1 .. 0 |-> 0][f[d]]]
        BY <4>1
      <4> QED
        BY <4>2
    <3> QED
      BY <2>2, <3>1
  <2>4. n \in CompanyIds /\ n - 1 \in 0 .. MaxCompanies
    BY <2>2, <2>3, KeyTypes DEF CompanyIds
  <2>5. Upto(n - 1)
    <3>1. ~(n <= n - 1)
      BY <2>4, KeyTypes
    <3>2. n - 1 \notin bad
      BY <2>1, <3>1
    <3> QED
      BY <1>1, <2>4, <3>2
  <2>6. PICK r : r = [d \in 1 .. n - 1 |-> IF f[d] = 0 THEN d ELSE r[f[d]]]
    BY <2>5
  <2>7. PICK s : s = [d \in 1 .. n |-> IF d = n THEN IF f[n] = 0 THEN n ELSE r[f[n]] ELSE r[d]]
    OBVIOUS
  <2>8. ASSUME NEW d \in 1 .. n PROVE s[d] = IF f[d] = 0 THEN d ELSE s[f[d]]
    <3>1. d \in CompanyIds /\ n \in Nat /\ d \in Nat
      BY <2>4, KeyTypes DEF CompanyIds
    <3>2. f[d] \in 0 .. MaxCompanies /\ (f[d] # 0 => f[d] < d)
      BY <3>1 DEF Older
    <3>3. f[d] # 0 => f[d] \in 1 .. n - 1 /\ f[d] # n /\ f[d] \in 1 .. n
      BY <3>1, <3>2, KeyTypes
    <3>4. f[d] # 0 => s[f[d]] = r[f[d]]
      BY <2>7, <3>3
    <3>5. CASE d = n
      BY <2>7, <3>4, <3>5
    <3>6. CASE d # n
      <4>1. d \in 1 .. n - 1
        BY <3>1, <3>6
      <4>2. s[d] = r[d] /\ r[d] = IF f[d] = 0 THEN d ELSE r[f[d]]
        BY <2>6, <2>7, <3>6, <4>1
      <4> QED
        BY <3>4, <4>2
    <3> QED
      BY <3>5, <3>6
  <2>9. s = [d \in 1 .. n |-> IF f[d] = 0 THEN d ELSE s[f[d]]]
    BY <2>7, <2>8
  <2> QED
    BY <2>2, <2>9
<1> QED
  BY <1>2, <1>3

LEMMA RootByIs ==
  ASSUME NEW f, Older(f)
  PROVE  \A c \in CompanyIds :
           /\ RootBy(f)[c] \in CompanyIds /\ RootBy(f)[c] <= c /\ f[RootBy(f)[c]] = 0
           /\ f[c] = 0 => RootBy(f)[c] = c
           /\ f[c] # 0 => f[c] \in CompanyIds /\ f[c] < c /\ RootBy(f)[c] = RootBy(f)[f[c]]
           /\ RootBy(f)[c] = c \/ \E d \in CompanyIds : f[d] = RootBy(f)[c]
<1>1. PICK r : r = RootBy(f) /\ r = [d \in CompanyIds |-> IF f[d] = 0 THEN d ELSE r[f[d]]]
  BY RootExists DEF RootBy
<1>2. ASSUME NEW c \in CompanyIds
      PROVE  /\ f[c] = 0 => r[c] = c
             /\ f[c] # 0 => f[c] \in CompanyIds /\ f[c] < c /\ r[c] = r[f[c]]
  <2>1. r[c] = IF f[c] = 0 THEN c ELSE r[f[c]]
    BY <1>1
  <2> QED
    BY <2>1, KeyTypes DEF Older
<1> DEFINE Fine(c) == /\ r[c] \in CompanyIds /\ r[c] <= c /\ f[r[c]] = 0
                      /\ r[c] = c \/ \E d \in CompanyIds : f[d] = r[c]
<1>3. PICK bad \in SUBSET Nat : bad = {c \in CompanyIds : ~Fine(c)}
  BY KeyTypes
<1>4. bad = {}
  <2>1. SUFFICES ASSUME bad # {} PROVE FALSE
    OBVIOUS
  <2>2. PICK c \in bad : \A m \in bad : c <= m
    BY <2>1, LeastExists
  <2>3. c \in CompanyIds /\ ~Fine(c) /\ c \in Nat
    BY <1>3, <2>2, KeyTypes
  <2>4. CASE f[c] = 0
    <3>1. r[c] = c
      BY <1>2, <2>3, <2>4
    <3> QED
      BY <2>3, <2>4, <3>1
  <2>5. CASE f[c] # 0
    <3>1. PICK e : e = f[c]
      OBVIOUS
    <3>2. e \in CompanyIds /\ e < c /\ r[c] = r[e]
      BY <1>2, <2>3, <2>5, <3>1
    <3>3. e \notin bad
      BY <2>2, <2>3, <3>2, KeyTypes
    <3>4. Fine(e)
      BY <1>3, <3>2, <3>3
    <3>5. r[e] \in Nat /\ e \in Nat
      BY <3>2, <3>4, KeyTypes
    <3>6. r[c] <= c
      BY <2>3, <3>2, <3>4, <3>5
    <3>7. \E d \in CompanyIds : f[d] = r[c]
      BY <2>3, <3>1, <3>2, <3>4
    <3> QED
      BY <2>3, <3>2, <3>4, <3>6, <3>7
  <2> QED
    BY <2>4, <2>5
<1>5. \A c \in CompanyIds : Fine(c)
  BY <1>3, <1>4
<1> QED
  BY <1>1, <1>2, <1>5

LEMMA RootIs ==
  ASSUME NEW c, c \in CompanyIds
  PROVE  Root(c) = RootBy(into)[c]
BY DEF Root, RootBy

\* Record l, which is its own root, is joined to an older one.
Points(f, g, l, w) == w < l /\ f[l] = 0 /\ g = [f EXCEPT ![l] = w]

\* Its followers go along.
LEMMA RootJoined ==
  ASSUME NEW f, NEW g, NEW l \in CompanyIds, NEW w \in CompanyIds, Older(f), Points(f, g, l, w)
  PROVE  /\ Older(g) /\ RootBy(f)[w] # l
         /\ \A c \in CompanyIds :
              RootBy(g)[c] = IF RootBy(f)[c] = l THEN RootBy(f)[w] ELSE RootBy(f)[c]
<1>0. w < l /\ f[l] = 0 /\ g = [f EXCEPT ![l] = w]
  BY DEF Points
<1>1. Older(g)
  BY <1>0, KeyTypes DEF Older
<1>2. PICK r, s : r = RootBy(f) /\ s = RootBy(g)
  OBVIOUS
<1>3. \A c \in CompanyIds :
        /\ r[c] \in CompanyIds /\ r[c] <= c
        /\ f[c] = 0 => r[c] = c
        /\ f[c] # 0 => f[c] \in CompanyIds /\ f[c] < c /\ r[c] = r[f[c]]
  BY <1>2, RootByIs
<1>4. \A c \in CompanyIds :
        /\ g[c] = 0 => s[c] = c
        /\ g[c] # 0 => g[c] \in CompanyIds /\ g[c] < c /\ s[c] = s[g[c]]
  BY <1>1, <1>2, RootByIs
<1>5. r[w] # l
  <2>1. r[w] <= w /\ r[w] \in Nat /\ w \in Nat /\ l \in Nat
    BY <1>3, KeyTypes
  <2> QED
    BY <1>0, <2>1
<1>6. \A c \in CompanyIds : g[c] = IF c = l THEN w ELSE f[c]
  BY <1>0 DEF Older
<1> DEFINE Fine(c) == s[c] = IF r[c] = l THEN r[w] ELSE r[c]
<1>7. PICK bad \in SUBSET Nat : bad = {c \in CompanyIds : ~Fine(c)}
  BY KeyTypes
<1>8. bad = {}
  <2>1. SUFFICES ASSUME bad # {} PROVE FALSE
    OBVIOUS
  <2>2. PICK c \in bad : \A m \in bad : c <= m
    BY <2>1, LeastExists
  <2>3. c \in CompanyIds /\ ~Fine(c) /\ c \in Nat
    BY <1>7, <2>2, KeyTypes
  <2>4. \A e \in CompanyIds : e < c => Fine(e)
    BY <1>7, <2>2, <2>3, KeyTypes
  <2>5. CASE c = l
    <3>1. Fine(w) /\ w # 0
      BY <1>0, <2>4, <2>5, KeyTypes
    <3>2. s[c] = s[w] /\ r[c] = l
      BY <1>0, <1>3, <1>4, <1>6, <2>3, <2>5, <3>1
    <3> QED
      BY <1>5, <2>3, <3>1, <3>2
  <2>6. CASE c # l /\ f[c] = 0
    BY <1>3, <1>4, <1>6, <2>3, <2>6
  <2>7. CASE c # l /\ f[c] # 0
    <3>1. PICK e : e = f[c]
      OBVIOUS
    <3>2. e \in CompanyIds /\ e < c /\ r[c] = r[e]
      BY <1>3, <2>3, <2>7, <3>1
    <3>3. s[c] = s[e]
      BY <1>4, <1>6, <2>3, <2>7, <3>1
    <3>4. Fine(e)
      BY <2>4, <3>2
    <3> QED
      BY <2>3, <3>2, <3>3, <3>4
  <2> QED
    BY <2>5, <2>6, <2>7
<1>9. \A c \in CompanyIds : Fine(c)
  BY <1>7, <1>8
<1> QED
  BY <1>1, <1>2, <1>5, <1>9

-----------------------------------------------------------------------------
(* Steps that change leads or the owners of domains *)

LEMMA OlderHolds ==
  ASSUME CompaniesTypeOK, IntoInv
  PROVE  Older(into)
BY DEF CompaniesTypeOK, IntoInv, Older

\* A rejection that holds before a step holds after it, if the records stay as they are and the lead
\* of the last one is changed only where a history tells of it.
LEMMA RejectionStays ==
  ASSUME CompaniesTypeOK, RejectionHolds, IntoInv, into' = into, raced' = raced, overruled \subseteq overruled',
         NEW x \in refused, x \in CompanyIds, Present(Root(x))' => Present(Root(x)),
         \/ standing'[Root(x)] = standing[Root(x)]
         \/ standing[Root(x)] = "none"
         \/ Root(x) \in raced \union overruled'
  PROVE  (Present(Root(x)) /\ Trail(x) \intersect (raced \union overruled) = {} => standing[Root(x)] = "rejected")'
<1>1. PICK r : r = Root(x)
  OBVIOUS
<1>2. \A c : Root(c)' = Root(c)
  BY DEF Root
<1>3. Trail(x)' = Trail(x)
  BY <1>2 DEF Trail
<1>4. Older(into)
  BY OlderHolds
<1>5. r \in CompanyIds /\ r <= x /\ into[r] = 0 /\ RootBy(into)[r] = r
  BY <1>1, <1>4, RootByIs, RootIs
<1>6. r \in Trail(x)
  BY <1>1, <1>5, RootIs DEF Trail
<1>7. SUFFICES ASSUME Present(Root(x))', (Trail(x) \intersect (raced \union overruled) = {})'
               PROVE  standing'[r] = "rejected"
  BY <1>1, <1>2
<1>8. Present(r) /\ Trail(x) \intersect (raced \union overruled) = {} /\ r \notin raced \union overruled'
  BY <1>1, <1>3, <1>6, <1>7
<1>9. standing[r] = "rejected"
  BY <1>1, <1>8 DEF RejectionHolds
<1> QED
  BY <1>1, <1>8, <1>9

LEMMA ApplyStep ==
  ASSUME CompaniesInv, NEW h \in Handlers, NEW d \in Redirects, ApplySite(h, d)
  PROVE  CompaniesInv'
<1>1. /\ CompaniesTypeOK /\ TaskInv /\ JoinInv /\ ClearInv /\ LockInv /\ TwinInv /\ KnownInv
      /\ tasks \in 0 .. MaxTasks
  BY DEF CompaniesInv, CompaniesTypeOK
<1>2. /\ UNCHANGED <<company, seen, into, standing, doNot, tasks, refused, raced, madeBy, export, outside, overruled>>
      /\ SetTask(h, NoTask) /\ task[h].at = "crawl" /\ task[h].id \in CompanyIds
      /\ ownerOf' \in [Domains \union Profiles -> 0 .. MaxCompanies]
      /\ \A k \in Domains \union Profiles : ownerOf'[k] = ownerOf[k] \/ (k = d /\ ownerOf'[k] = task[h].id)
  BY <1>1, ApplyFacts DEF handVars
<1>3. /\ TaskInv' /\ JoinInv' /\ ClearInv' /\ task' \in [Handlers -> TaskStates]
      /\ \A g \in Handlers : task'[g].at \in {"merge", "join"} => task'[g].win \in 1 .. task'[g].lose - 1
  BY <1>1, <1>2, NoTaskIs, NoTaskReady, TasksStay
<1>4. CompaniesTypeOK'
  BY <1>1, <1>2, <1>3 DEF CompaniesTypeOK
<1>5. LockInv' /\ TwinInv'
  BY <1>1, <1>2, NoTaskIs, LocksStay, TwinsStay
<1>6. \A c \in CompanyIds : ~AtWorkOf(NoTask, c)
  BY NoTaskIs, KeyTypes DEF AtWorkOf
<1>7. /\ IntoInv' /\ ErasedInv' /\ MergedInv' /\ ExportInv' /\ RejectionHolds'
      /\ (\A k \in Domains \union Profiles : ownerOf'[k] = ownerOf[k] \/ Used(ownerOf'[k])) => KnownInv'
  BY <1>2, <1>6, NoTaskIs, RecordsStay
<1>8. Used(task[h].id)
  BY <1>1, <1>2 DEF KnownInv, AtWork
<1> QED
  BY <1>2, <1>3, <1>4, <1>5, <1>7, <1>8 DEF CompaniesInv

LEMMA AddStep ==
  ASSUME CompaniesInv, NEW h \in Handlers, AddLeads(h)
  PROVE  CompaniesInv'
<1>1. /\ CompaniesTypeOK /\ TaskInv /\ JoinInv /\ ClearInv /\ LockInv /\ TwinInv /\ KnownInv
      /\ IntoInv /\ ErasedInv /\ MergedInv /\ ExportInv /\ RejectionHolds
  BY DEF CompaniesInv
<1>2. /\ UNCHANGED <<company, ownerOf, seen, into, doNot, tasks, refused, raced, madeBy, export, outside, overruled>>
      /\ SetTask(h, NoTask)
      /\ standing' \in [CompanyIds -> Statuses]
      /\ \A c \in CompanyIds :
           \/ standing'[c] = standing[c]
           \/ standing[c] = "none" /\ standing'[c] = "new" /\ ToAdd(h, c) /\ company[c].state # "erased"
  BY <1>1, AddFacts DEF handVars
<1>3. /\ TaskInv' /\ JoinInv' /\ ClearInv' /\ task' \in [Handlers -> TaskStates]
      /\ \A g \in Handlers : task'[g].at \in {"merge", "join"} => task'[g].win \in 1 .. task'[g].lose - 1
  BY <1>1, <1>2, NoTaskIs, NoTaskReady, TasksStay
<1>4. CompaniesTypeOK'
  BY <1>1, <1>2, <1>3 DEF CompaniesTypeOK
<1>5. LockInv' /\ TwinInv'
  BY <1>1, <1>2, NoTaskIs, LocksStay, TwinsStay
<1>6. task'[h] = NoTask /\ \A g \in Handlers : g # h => task'[g] = task[g]
  BY <1>1, <1>2, NoTaskIs, TaskSet
<1>7. \A c \in CompanyIds, g \in Handlers : (ToAdd(g, c) \/ AtWork(g, c))' => ToAdd(g, c) \/ AtWork(g, c)
  BY <1>6, NoTaskIs, KeyTypes DEF ToAdd, AtWork
<1>8. KnownInv'
  BY <1>1, <1>2, <1>7 DEF KnownInv, Used
<1>9. IntoInv' /\ ErasedInv'
  BY <1>1, <1>2 DEF IntoInv, ErasedInv
<1>10. MergedInv'
  BY <1>1, <1>2, <1>7 DEF MergedInv
<1>11. ExportInv'
  <2>1. export.of # 0 => export.of \in CompanyIds
    BY <1>1, KeyTypes DEF CompaniesTypeOK
  <2> QED
    BY <1>1, <1>2, <2>1 DEF ExportInv
<1>12. RejectionHolds'
  <2>1. ASSUME NEW x \in refused
        PROVE  (Present(Root(x)) /\ Trail(x) \intersect (raced \union overruled) = {} => standing[Root(x)] = "rejected")'
    <3>1. x \in CompanyIds /\ Older(into)
      BY <1>1, OlderHolds DEF CompaniesTypeOK
    <3>2. Root(x) \in CompanyIds
      BY <3>1, RootByIs, RootIs
    <3>3. Root(x)' = Root(x)
      BY <1>2 DEF Root
    <3>4. Present(Root(x))' => Present(Root(x))
      BY <1>2, <3>3 DEF Present
    <3>5. standing'[Root(x)] = standing[Root(x)] \/ standing[Root(x)] = "none"
      BY <1>2, <3>2
    <3> QED
      BY <1>1, <1>2, <3>1, <3>4, <3>5, RejectionStays
  <2> QED
    BY <1>2, <2>1 DEF RejectionHolds
<1> QED
  BY <1>3, <1>4, <1>5, <1>8, <1>9, <1>10, <1>11, <1>12 DEF CompaniesInv

LEMMA SameTasks ==
  ASSUME TaskInv, JoinInv, ClearInv, LockInv, task' = task
  PROVE  TaskInv' /\ JoinInv' /\ ClearInv' /\ LockInv'
<1>1. TaskInv'
  BY DEF TaskInv, InTransaction
<1>2. JoinInv'
  BY DEF JoinInv
<1>3. ClearInv'
  BY DEF ClearInv
<1>4. LockInv'
  BY DEF LockInv, InTransaction
<1> QED
  BY <1>1, <1>2, <1>3, <1>4

\* A step that changes the leads of records that have one, and an export.
LEMMA LeadsStep ==
  ASSUME CompaniesInv, UNCHANGED <<company, ownerOf, into, task, raced, madeBy>>,
         standing' \in [CompanyIds -> Statuses], CompaniesTypeOK',
         \A c \in CompanyIds : standing'[c] = standing[c] \/ standing[c] # "none",
         \A c \in refused' : c \in refused \/ standing[c] # "none"
  PROVE  /\ TaskInv' /\ KnownInv' /\ IntoInv' /\ ErasedInv' /\ MergedInv' /\ JoinInv' /\ LockInv' /\ TwinInv'
         /\ ClearInv'
<1>1. /\ TaskInv /\ JoinInv /\ ClearInv /\ LockInv /\ TwinInv /\ KnownInv /\ IntoInv /\ ErasedInv /\ MergedInv
  BY DEF CompaniesInv
<1>2. TaskInv' /\ JoinInv' /\ ClearInv' /\ LockInv'
  BY <1>1, SameTasks
<1>3. TwinInv'
  BY <1>1 DEF TwinInv, AtPlace, Present, InTransaction
<1>4. KnownInv'
  BY <1>1 DEF KnownInv, Used, ToAdd, AtWork
<1>5. IntoInv' /\ ErasedInv'
  BY <1>1 DEF IntoInv, ErasedInv
<1>6. MergedInv'
  BY <1>1 DEF MergedInv, ToAdd, AtWork
<1> QED
  BY <1>2, <1>3, <1>4, <1>5, <1>6

LEMMA ReviewStep ==
  ASSUME CompaniesInv, NEW c \in CompanyIds, NEW status \in {"new", "reviewed", "rejected"}, Review(c, status)
  PROVE  CompaniesInv'
<1>1. /\ CompaniesTypeOK /\ IntoInv /\ ErasedInv /\ MergedInv /\ ExportInv /\ RejectionHolds /\ KnownInv
  BY DEF CompaniesInv
<1>2. /\ UNCHANGED <<company, ownerOf, seen, into, doNot, task, tasks, raced, madeBy, export>>
      /\ outside' \in 0 .. MaxOutside /\ standing[c] # "none" /\ standing' = [standing EXCEPT ![c] = status]
      /\ standing' \in [CompanyIds -> Statuses]
      /\ refused' = IF status = "rejected" THEN refused \union {c} ELSE {x \in refused : Root(x) # Root(c)}
      /\ overruled' = IF status = "rejected" /\ export.of = c THEN overruled \union {c} ELSE overruled
  BY <1>1, ReviewFacts
<1>3. /\ standing'[c] = status /\ \A x \in CompanyIds : x # c => standing'[x] = standing[x]
  BY <1>1, <1>2 DEF CompaniesTypeOK
<1>4. refused' \subseteq refused \union {c} /\ overruled \subseteq overruled' /\ overruled' \subseteq overruled \union {c}
  BY <1>2
<1>5. CompaniesTypeOK'
  BY <1>1, <1>2, <1>4 DEF CompaniesTypeOK
<1>6. /\ TaskInv' /\ KnownInv' /\ IntoInv' /\ ErasedInv' /\ MergedInv' /\ JoinInv' /\ LockInv' /\ TwinInv'
      /\ ClearInv'
  BY <1>2, <1>3, <1>4, <1>5, LeadsStep
<1>7. ExportInv'
  <2>1. export.of # 0 => export.of \in CompanyIds
    BY <1>1, KeyTypes DEF CompaniesTypeOK
  <2> QED
    BY <1>1, <1>2, <1>3, <1>4, <2>1 DEF ExportInv
<1>8. RejectionHolds'
  <2>1. ASSUME NEW x \in refused'
        PROVE  (Present(Root(x)) /\ Trail(x) \intersect (raced \union overruled) = {} => standing[Root(x)] = "rejected")'
    <3>1. x \in CompanyIds /\ Older(into)
      BY <1>1, <1>4, OlderHolds DEF CompaniesTypeOK
    <3>2. PICK r : r = Root(x)
      OBVIOUS
    <3>3. r \in CompanyIds /\ into[r] = 0 /\ RootBy(into)[x] = r
      BY <3>1, <3>2, RootByIs, RootIs
    <3>4. \A d : Root(d)' = Root(d) /\ Present(d)' = Present(d)
      BY <1>2 DEF Root, Present
    <3>5. CASE x \in refused /\ r # c
      <4>1. standing'[r] = standing[r]
        BY <1>3, <3>3, <3>5
      <4>2. Present(Root(x))' = Present(Root(x))
        BY <1>2 DEF Root, Present
      <4> QED
        BY <1>1, <1>2, <1>4, <3>1, <3>2, <3>5, <4>1, <4>2, RejectionStays
    <3>6. CASE r = c
      <4>1. Root(c) = c
        BY <3>1, <3>3, <3>6, RootByIs, RootIs
      <4>2. status = "rejected"
        BY <1>2, <3>2, <3>6, <4>1
      <4> QED
        BY <1>3, <3>2, <3>4, <3>6, <4>2
    <3>7. CASE x \notin refused /\ r # c
      <4>1. x = c /\ into[c] # 0
        BY <1>4, <3>1, <3>3, <3>7, RootByIs
      <4>2. company[c].state = "merged"
        BY <1>1, <1>2, <4>1 DEF IntoInv, ErasedInv
      <4>3. c \in raced
        BY <1>1, <1>2, <4>2 DEF MergedInv
      <4>4. c \in Trail(c)'
        BY <3>1, KeyTypes DEF Trail
      <4> QED
        BY <1>2, <4>1, <4>3, <4>4
    <3> QED
      BY <3>5, <3>6, <3>7
  <2> QED
    BY <2>1 DEF RejectionHolds
<1> QED
  BY <1>5, <1>6, <1>7, <1>8 DEF CompaniesInv

LEMMA ReadStep ==
  ASSUME CompaniesInv, NEW c \in CompanyIds, NEW to \in {"saved_to_crm", "in_campaign"}, ReadLeads(c, to)
  PROVE  CompaniesInv'
<1>1. CompaniesTypeOK /\ RejectionHolds
  BY DEF CompaniesInv
<1>2. /\ UNCHANGED <<company, ownerOf, seen, into, standing, doNot, task, tasks, refused, raced, madeBy, overruled>>
      /\ outside' \in 0 .. MaxOutside
      /\ export' \in [of : 0 .. MaxCompanies, to : {"none", "saved_to_crm", "in_campaign"}]
      /\ export'.of = c /\ standing[c] # "rejected"
  BY <1>1, ReadFacts
<1>3. CompaniesTypeOK'
  BY <1>1, <1>2 DEF CompaniesTypeOK
<1>4. standing' \in [CompanyIds -> Statuses]
  BY <1>3 DEF CompaniesTypeOK
<1>5. /\ TaskInv' /\ KnownInv' /\ IntoInv' /\ ErasedInv' /\ MergedInv' /\ JoinInv' /\ LockInv' /\ TwinInv'
      /\ ClearInv'
  BY <1>2, <1>3, <1>4, LeadsStep
<1>6. ExportInv'
  BY <1>2 DEF ExportInv
<1>7. \A d : Root(d)' = Root(d) /\ Present(d)' = Present(d)
  BY <1>2 DEF Root, Present
<1>8. RejectionHolds'
  BY <1>1, <1>2, <1>7 DEF RejectionHolds, Trail
<1> QED
  BY <1>3, <1>5, <1>6, <1>8 DEF CompaniesInv

LEMMA WriteStep ==
  ASSUME CompaniesInv, WriteLeads
  PROVE  CompaniesInv'
<1>1. CompaniesTypeOK /\ RejectionHolds /\ ExportInv /\ IntoInv
  BY DEF CompaniesInv
<1>2. /\ UNCHANGED <<company, ownerOf, seen, into, doNot, task, tasks, refused, raced, madeBy, outside, overruled>>
      /\ export' \in [of : 0 .. MaxCompanies, to : {"none", "saved_to_crm", "in_campaign"}] /\ export'.of = 0
      /\ standing' \in [CompanyIds -> Statuses]
      /\ \A x \in CompanyIds :
           standing'[x] = standing[x] \/ (x = export.of /\ standing[x] # "none" /\ standing'[x] # "rejected")
  BY <1>1, WriteFacts
<1>3. CompaniesTypeOK'
  BY <1>1, <1>2 DEF CompaniesTypeOK
<1>4. /\ TaskInv' /\ KnownInv' /\ IntoInv' /\ ErasedInv' /\ MergedInv' /\ JoinInv' /\ LockInv' /\ TwinInv'
      /\ ClearInv'
  BY <1>2, <1>3, LeadsStep
<1>5. ExportInv'
  BY <1>2 DEF ExportInv
<1>6. RejectionHolds'
  <2>1. ASSUME NEW x \in refused
        PROVE  (Present(Root(x)) /\ Trail(x) \intersect (raced \union overruled) = {} => standing[Root(x)] = "rejected")'
    <3>1. x \in CompanyIds /\ Older(into)
      BY <1>1, OlderHolds DEF CompaniesTypeOK
    <3>2. PICK r : r = Root(x)
      OBVIOUS
    <3>3. r \in CompanyIds /\ into[r] = 0
      BY <3>1, <3>2, RootByIs, RootIs
    <3>4. Root(x)' = Root(x) /\ Present(Root(x))' = Present(Root(x)) /\ Trail(x)' = Trail(x)
      BY <1>2 DEF Root, Present, Trail
    <3>5. CASE standing'[r] = standing[r]
      BY <1>1, <1>2, <3>1, <3>2, <3>4, <3>5, RejectionStays
    <3>6. CASE r = export.of /\ standing[r] # "rejected"
      BY <1>1, <1>2, <3>2, <3>4, <3>6 DEF RejectionHolds
    <3>7. CASE r = export.of /\ standing[r] = "rejected"
      <4>1. r \in raced \union overruled'
        BY <1>1, <1>2, <3>3, <3>7, KeyTypes DEF ExportInv
      <4> QED
        BY <1>1, <1>2, <3>1, <3>2, <3>4, <4>1, RejectionStays
    <3> QED
      BY <1>2, <3>3, <3>5, <3>6, <3>7
  <2> QED
    BY <1>2, <2>1 DEF RejectionHolds
<1> QED
  BY <1>3, <1>4, <1>5, <1>6 DEF CompaniesInv

LEMMA EraseStep ==
  ASSUME CompaniesInv, NEW d \in Domains, Erase(d)
  PROVE  CompaniesInv'
<1>1. /\ CompaniesTypeOK /\ TaskInv /\ JoinInv /\ ClearInv /\ LockInv /\ TwinInv /\ KnownInv
      /\ IntoInv /\ ErasedInv /\ MergedInv /\ ExportInv /\ RejectionHolds
  BY DEF CompaniesInv
<1>2. /\ UNCHANGED <<into, task, tasks, raced, madeBy, overruled>>
      /\ doNot' \subseteq Domains /\ doNot \subseteq doNot' /\ outside' \in 0 .. MaxOutside
      /\ export' \in [of : 0 .. MaxCompanies, to : {"none", "saved_to_crm", "in_campaign"}]
      /\ export' = export \/ export'.of = 0
      /\ \/ UNCHANGED <<company, ownerOf, seen, standing, refused>>
         \/ ownerOf[d] \in CompanyIds /\ Erased(ownerOf[d])
  BY <1>1, EraseFacts
<1>3. TaskInv' /\ JoinInv' /\ ClearInv' /\ LockInv'
  BY <1>1, <1>2, SameTasks
<1>4. \A c : Root(c)' = Root(c)
  BY <1>2 DEF Root
<1>5. CASE UNCHANGED <<company, ownerOf, seen, standing, refused>>
  <2>1. CompaniesTypeOK'
    BY <1>1, <1>2, <1>5 DEF CompaniesTypeOK
  <2>2. KnownInv' /\ IntoInv' /\ ErasedInv'
    BY <1>1, <1>2, <1>5 DEF KnownInv, IntoInv, ErasedInv, Used, ToAdd, AtWork
  <2>3. MergedInv'
    BY <1>1, <1>2, <1>5 DEF MergedInv, ToAdd, AtWork
  <2>4. ExportInv'
    BY <1>1, <1>2, <1>5 DEF ExportInv
  <2>5. TwinInv'
    BY <1>1, <1>2, <1>5 DEF TwinInv, AtPlace, Present, InTransaction
  <2>6. \A c : Present(c)' = Present(c)
    BY <1>5 DEF Present
  <2>7. RejectionHolds'
    BY <1>1, <1>2, <1>4, <1>5, <2>6 DEF RejectionHolds, Trail
  <2> QED
    BY <1>3, <2>1, <2>2, <2>3, <2>4, <2>5, <2>7 DEF CompaniesInv
<1>6. CASE ownerOf[d] \in CompanyIds /\ Erased(ownerOf[d])
  <2>1. PICK e \in CompanyIds : Erased(e)
    BY <1>6
  <2>2. /\ company' \in [CompanyIds -> Companies]
        /\ company'[e].state = "erased" /\ company'[e].phones = {}
        /\ \A x \in CompanyIds \ {e} : company'[x] = company[x] /\ standing'[x] = standing[x]
        /\ ownerOf' \in [Domains \union Profiles -> 0 .. MaxCompanies]
        /\ \A k \in Domains \union Profiles : ownerOf'[k] = IF ownerOf[k] = e THEN 0 ELSE ownerOf[k]
        /\ seen' \in [SourceIds -> Seq(0 .. MaxCompanies)]
        /\ standing' \in [CompanyIds -> Statuses] /\ standing'[e] = "none"
        /\ refused' = {x \in refused : Root(x) # e}
    BY <2>1 DEF Erased
  <2>3. CompaniesTypeOK'
    BY <1>1, <1>2, <2>2 DEF CompaniesTypeOK
  <2>4. KnownInv'
    <3>1. ASSUME NEW c \in CompanyIds, ~Used(c)'
          PROVE  /\ c # e /\ ~Used(c)
                 /\ standing'[c] = "none" /\ into'[c] = 0 /\ c \notin refused'
                 /\ \A d2 \in CompanyIds : into'[d2] # c
                 /\ \A k \in Domains \union Profiles : ownerOf'[k] # c
      <4>1. c # e /\ ~Used(c)
        BY <2>2, <3>1 DEF Used
      <4>2. c # 0
        BY KeyTypes
      <4>3. /\ standing[c] = "none" /\ into[c] = 0 /\ c \notin refused
            /\ \A d2 \in CompanyIds : into[d2] # c
            /\ \A k \in Domains \union Profiles : ownerOf[k] # c
        BY <1>1, <4>1 DEF KnownInv
      <4>4. \A k \in Domains \union Profiles : ownerOf'[k] # c
        BY <2>2, <4>2, <4>3
      <4>5. standing'[c] = "none" /\ c \notin refused'
        BY <2>2, <4>1, <4>3
      <4> QED
        BY <1>2, <4>1, <4>3, <4>4, <4>5
    <3> QED
      BY <1>1, <1>2, <3>1 DEF KnownInv, ToAdd, AtWork, Used
  <2>5. IntoInv'
    BY <1>1, <1>2, <2>2 DEF IntoInv
  <2>6. ErasedInv'
    BY <1>1, <2>2 DEF ErasedInv
  <2>7. MergedInv'
    BY <1>1, <1>2, <2>2 DEF MergedInv, ToAdd, AtWork
  <2>8. ExportInv'
    <3>1. export.of # 0 => export.of \in CompanyIds
      BY <1>1, KeyTypes DEF CompaniesTypeOK
    <3> QED
      BY <1>1, <1>2, <2>2, <3>1 DEF ExportInv
  <2>9. TwinInv'
    <3>1. \A b, c : c \in AtPlace(b)' => c \in AtPlace(b)
      BY <2>2 DEF AtPlace, Present
    <3> QED
      BY <1>1, <1>2, <3>1 DEF TwinInv, InTransaction, AtPlace
  <2>10. RejectionHolds'
    <3>1. ASSUME NEW x \in refused'
          PROVE  (Present(Root(x)) /\ Trail(x) \intersect (raced \union overruled) = {} => standing[Root(x)] = "rejected")'
      <4>1. x \in refused /\ x \in CompanyIds /\ Root(x) # e /\ Older(into)
        BY <1>1, <2>2, OlderHolds DEF CompaniesTypeOK
      <4>2. PICK r : r = Root(x)
        OBVIOUS
      <4>3. r \in CompanyIds \ {e}
        BY <4>1, <4>2, RootByIs, RootIs
      <4>4. standing'[r] = standing[r] /\ company'[r] = company[r]
        BY <2>2, <4>3
      <4>5. Present(Root(x))' => Present(Root(x))
        BY <1>4, <4>2, <4>4 DEF Present
      <4> QED
        BY <1>1, <1>2, <4>1, <4>2, <4>4, <4>5, RejectionStays
    <3> QED
      BY <3>1 DEF RejectionHolds
  <2> QED
    BY <1>3, <2>3, <2>4, <2>5, <2>6, <2>7, <2>8, <2>9, <2>10 DEF CompaniesInv
<1> QED
  BY <1>2, <1>5, <1>6

LEMMA FinishStep ==
  ASSUME CompaniesInv, NEW h \in Handlers, Finish(h)
  PROVE  CompaniesInv'
<1>1. /\ CompaniesTypeOK /\ TaskInv /\ JoinInv /\ ClearInv /\ LockInv /\ TwinInv /\ KnownInv
      /\ IntoInv /\ ErasedInv /\ MergedInv /\ ExportInv /\ RejectionHolds
  BY DEF CompaniesInv
<1>2. PICK b : b = task[h].biz
  OBVIOUS
<1>3. /\ UNCHANGED <<into, standing, doNot, tasks, refused, raced, export, outside, overruled>>
      /\ task[h].at = "finish" /\ b \in Businesses
      /\ \/ SetTask(h, NoTask) /\ UNCHANGED <<company, ownerOf, seen, madeBy>>
         \/ \E c \in CompanyIds :
              /\ \/ task[h].id = c /\ company[c].state # "erased"
                 \/ task[h].id = 0 /\ ~Used(c)
              /\ Recorded(c, b)
              /\ \E u \in TaskStates : RecordedTask(h, c, u)
  BY <1>1, <1>2, FinishFacts DEF handVars
<1>4. CASE SetTask(h, NoTask) /\ UNCHANGED <<company, ownerOf, seen, madeBy>>
  BY <1>3, <1>4, StopStep DEF RestOfData, handVars
<1>5. CASE \E c \in CompanyIds :
             /\ \/ task[h].id = c /\ company[c].state # "erased"
                \/ task[h].id = 0 /\ ~Used(c)
             /\ Recorded(c, b)
             /\ \E u \in TaskStates : RecordedTask(h, c, u)
  <2>1. PICK c \in CompanyIds, u \in TaskStates :
          /\ \/ task[h].id = c /\ company[c].state # "erased"
             \/ task[h].id = 0 /\ ~Used(c)
          /\ Recorded(c, b) /\ RecordedTask(h, c, u)
    BY <1>5
  <2>2. /\ company' \in [CompanyIds -> Companies]
        /\ company'[c].state = IF company[c].state = "unused" THEN "live" ELSE company[c].state
        /\ \A x \in CompanyIds \ {c} : company'[x] = company[x]
        /\ ownerOf' \in [Domains \union Profiles -> 0 .. MaxCompanies]
        /\ \A k \in Domains \union Profiles : ownerOf'[k] = ownerOf[k] \/ ownerOf'[k] = c
        /\ seen' \in [SourceIds -> Seq(0 .. MaxCompanies)]
        /\ madeBy' = [madeBy EXCEPT ![c] = LockOf(b)]
    BY <2>1 DEF Recorded
  <2>3. /\ SetTask(h, u) /\ u.at = "next" /\ u.todo \subseteq task[h].todo /\ u.ids = task[h].ids \union {c}
        /\ u.cleared = task[h].cleared /\ u.id = 0 /\ u.win = 0 /\ u.lose = 0
    BY <2>1 DEF RecordedTask
  <2>4. /\ task'[h] = u /\ \A g \in Handlers : g # h => task'[g] = task[g]
    BY <1>1, <2>3, TaskSet
  <2>5. Ready(u)
    BY <1>1, <2>3 DEF Ready, ClearInv
  <2>6. /\ TaskInv' /\ JoinInv' /\ ClearInv' /\ task' \in [Handlers -> TaskStates]
        /\ \A g \in Handlers : task'[g].at \in {"merge", "join"} => task'[g].win \in 1 .. task'[g].lose - 1
    BY <1>1, <2>3, <2>5, TasksStay
  <2>7. madeBy' \in [CompanyIds -> Locks \union {NoKey}] /\ madeBy'[c] = LockOf(b)
        /\ \A x \in CompanyIds : x # c => madeBy'[x] = madeBy[x]
    BY <1>1, <1>3, <2>2, KeyTypes DEF CompaniesTypeOK
  <2>8. CompaniesTypeOK'
    BY <1>1, <1>3, <2>2, <2>6, <2>7 DEF CompaniesTypeOK
  <2>9. LockInv'
    BY <1>1, <2>3, LocksStay
  <2>10. \A x \in CompanyIds, g \in Handlers :
           (ToAdd(g, x) \/ AtWork(g, x))' => ToAdd(g, x) \/ AtWork(g, x) \/ x = c
    BY <2>3, <2>4, KeyTypes DEF ToAdd, AtWork
  <2>11. \A x \in CompanyIds : ~Used(x)' => ~Used(x) /\ x # c
    BY <2>2 DEF Used
  <2>12. KnownInv'
    <3>1. ASSUME NEW x \in CompanyIds, ~Used(x)'
          PROVE  /\ standing'[x] = "none" /\ into'[x] = 0 /\ x \notin refused'
                 /\ \A g \in Handlers : ~ToAdd(g, x)' /\ ~AtWork(g, x)'
                 /\ \A k \in Domains \union Profiles : ownerOf'[k] # x
                 /\ \A y \in CompanyIds : into'[y] # x
      BY <1>1, <1>3, <2>2, <2>10, <2>11, <3>1 DEF KnownInv
    <3> QED
      BY <3>1 DEF KnownInv
  <2>13. IntoInv'
    BY <1>1, <1>3, <2>2 DEF IntoInv, KnownInv, Used
  <2>14. ErasedInv'
    BY <1>1, <1>3, <2>2 DEF ErasedInv
  <2>15. MergedInv'
    <3>1. ASSUME NEW x \in CompanyIds, company'[x].state = "merged"
          PROVE  /\ company[x].state = "merged"
                 /\ \A g \in Handlers : (ToAdd(g, x) \/ AtWork(g, x))' => \E f \in Handlers : ToAdd(f, x) \/ AtWork(f, x)
      <4>1. company[x].state = "merged"
        BY <2>2, <3>1
      <4>2. x = c => AtWork(h, x)
        BY <2>1, <4>1 DEF AtWork, Used
      <4> QED
        BY <2>10, <4>1, <4>2
    <3> QED
      BY <1>1, <1>3, <3>1 DEF MergedInv
  <2>16. ExportInv'
    BY <1>1, <1>3 DEF ExportInv
  <2>17. TwinInv'
    <3>1. ASSUME NEW g \in Handlers, InTransaction(g)', task'[g].id = 0
          PROVE  /\ task'[g].at \in {"claim", "finish"}
                 /\ \A x \in AtPlace(task[g].biz)' : madeBy'[x] # LockOf(task'[g].biz)
      <4>1. g # h /\ task'[g] = task[g] /\ InTransaction(g) /\ task[g].id = 0
        BY <2>3, <2>4, <3>1 DEF InTransaction
      <4>2. PICK p : p = task[g].biz
        OBVIOUS
      <4>3. LockOf(p) # LockOf(b)
        BY <1>1, <1>2, <1>3, <4>1, <4>2 DEF LockInv, InTransaction
      <4>4. \A x \in AtPlace(p)' : x = c \/ x \in AtPlace(p)
        BY <2>2 DEF AtPlace, Present
      <4>5. task[g].at \in {"claim", "finish"} /\ \A x \in AtPlace(p) : madeBy[x] # LockOf(p)
        BY <1>1, <4>1, <4>2 DEF TwinInv
      <4>6. \A x \in AtPlace(p)' : madeBy'[x] # LockOf(p)
        BY <2>7, <4>3, <4>4, <4>5 DEF AtPlace
      <4>7. AtPlace(task[g].biz)' = AtPlace(p)'
        BY <4>1, <4>2 DEF AtPlace
      <4> QED
        BY <4>1, <4>2, <4>5, <4>6, <4>7
    <3> QED
      BY <3>1 DEF TwinInv
  <2>18. RejectionHolds'
    <3>1. ASSUME NEW x \in refused
          PROVE  (Present(Root(x)) /\ Trail(x) \intersect (raced \union overruled) = {} => standing[Root(x)] = "rejected")'
      <4>1. x \in CompanyIds /\ Older(into)
        BY <1>1, OlderHolds DEF CompaniesTypeOK
      <4>2. PICK r : r = Root(x)
        OBVIOUS
      <4>3. r \in CompanyIds /\ (r = x \/ \E y \in CompanyIds : into[y] = r)
        BY <4>1, <4>2, RootByIs, RootIs
      <4>4. Used(r)
        BY <1>1, <4>3 DEF KnownInv
      <4>5. company'[r].state = company[r].state
        BY <2>2, <4>3, <4>4 DEF Used
      <4>6. Root(x)' = Root(x)
        BY <1>3 DEF Root
      <4>7. Present(Root(x))' => Present(Root(x))
        BY <4>2, <4>5, <4>6 DEF Present
      <4> QED
        BY <1>1, <1>3, <4>1, <4>2, <4>7, RejectionStays
    <3> QED
      BY <1>3, <3>1 DEF RejectionHolds
  <2> QED
    BY <2>6, <2>8, <2>9, <2>12, <2>13, <2>14, <2>15, <2>16, <2>17, <2>18 DEF CompaniesInv
<1> QED
  BY <1>3, <1>4, <1>5

-----------------------------------------------------------------------------
(* A merge *)

\* A merge that nobody disturbs keeps the rejection of either lead.
LEMMA RejectionKept ==
  ASSUME NEW a \in Statuses, NEW b \in Statuses, a = "rejected" \/ b = "rejected"
  PROVE  Kept2(Better(a, b), a, b) = "rejected"
<1>1. CASE a = "rejected"
  <2>1. Rank(a) = 5 /\ Rank(b) \in {0, 1, 2, 3, 4, 5}
    BY <1>1 DEF Rank
  <2>2. ~(Rank(b) > Rank(a))
    BY <2>1
  <2> QED
    BY <1>1, <2>2 DEF Better, Kept2
<1>2. CASE a # "rejected" /\ b = "rejected"
  <2>1. Rank(b) = 5 /\ Rank(a) \in {0, 1, 2, 3, 4}
    BY <1>2 DEF Rank
  <2>2. Rank(b) > Rank(a)
    BY <2>1
  <2> QED
    BY <1>2, <2>2 DEF Better, Kept2
<1> QED
  BY <1>1, <1>2

\* The two records of a merge by handler h, before and after it.
LEMMA JoinRejection ==
  ASSUME CompaniesInv, NEW h \in Handlers, NEW w \in CompanyIds, NEW l \in CompanyIds, w < l,
         task[h].at = "join", Joined(h, w, l), refused' = refused, overruled' = overruled
  PROVE  RejectionHolds'
<1>1. /\ CompaniesTypeOK /\ RejectionHolds /\ IntoInv /\ JoinInv /\ Older(into)
      /\ w # l /\ into \in [CompanyIds -> 0 .. MaxCompanies] /\ refused \subseteq CompanyIds
  <2>1. CompaniesTypeOK /\ RejectionHolds /\ IntoInv /\ JoinInv
    BY DEF CompaniesInv
  <2>2. Older(into)
    BY <2>1, OlderHolds
  <2>3. into \in [CompanyIds -> 0 .. MaxCompanies] /\ refused \subseteq CompanyIds
    BY <2>1 DEF CompaniesTypeOK
  <2>4. w # l
    BY KeyTypes
  <2> QED
    BY <2>1, <2>2, <2>3, <2>4
<1>2. /\ standing'[w] = Kept2(task[h].raise, standing[w], standing[l]) /\ standing'[l] = "none"
      /\ company'[w].state = company[w].state
      /\ company'[l].state = IF company[l].state = "live" THEN "merged" ELSE company[l].state
      /\ \A x \in CompanyIds \ {w, l} : company'[x] = company[x] /\ standing'[x] = standing[x]
      /\ into' = IF company[l].state = "live" THEN [into EXCEPT ![l] = w] ELSE into
      /\ raced' = IF Disturbed(h, w, l) THEN raced \union {w, l} ELSE raced
  BY DEF Joined
<1>3. \A x \in CompanyIds : Root(x) \in CompanyIds /\ Root(x) <= x /\ into[Root(x)] = 0
                            /\ Root(x) = RootBy(into)[x] /\ (into[x] = 0 => Root(x) = x)
  BY <1>1, RootByIs, RootIs
<1>4. \A x \in CompanyIds : Root(x)' = RootBy(into')[x]
  BY DEF Root, RootBy
<1>5. PICK R, S : /\ R = [x \in CompanyIds |-> Root(x)] /\ S = [x \in CompanyIds |-> RootBy(into')[x]]
  OBVIOUS
<1>6. SUFFICES ASSUME NEW x \in refused, Present(Root(x))', (Trail(x) \intersect (raced \union overruled) = {})'
               PROVE  standing'[S[x]] = "rejected"
  BY <1>1, <1>4, <1>5 DEF RejectionHolds
<1>7. x \in CompanyIds
  BY <1>1
<1>8. /\ company'[S[x]].state = "live"
      /\ \A d \in CompanyIds : S[d] = S[x] /\ d <= x => d \notin raced' \union overruled
  BY <1>4, <1>5, <1>6, <1>7 DEF Trail, Present
<1>9. ASSUME Present(R[x]), \A d \in CompanyIds : R[d] = R[x] /\ d <= x => d \notin raced \union overruled
      PROVE  standing[R[x]] = "rejected"
  <2>1. Root(x) = R[x] /\ \A d \in CompanyIds : Root(d) = R[d]
    BY <1>5, <1>7
  <2>2. Trail(x) \intersect (raced \union overruled) = {}
    BY <1>9, <2>1 DEF Trail
  <2> QED
    BY <1>1, <1>9, <2>1, <2>2 DEF RejectionHolds
<1>10. CASE company[l].state # "live"
  <2>1. S = R /\ raced' = raced \union {w, l}
    BY <1>2, <1>3, <1>5, <1>10 DEF Disturbed, Present
  <2>2. R[x] \in CompanyIds /\ R[R[x]] = R[x] /\ R[x] <= x
    BY <1>3, <1>5, <1>7
  <2>3. R[x] # w /\ R[x] # l
    BY <1>8, <2>1, <2>2
  <2>4. Present(R[x])
    BY <1>2, <1>8, <2>1, <2>2, <2>3, KeyTypes DEF Present
  <2>5. \A d \in CompanyIds : R[d] = R[x] /\ d <= x => d \notin raced \union overruled
    BY <1>8, <2>1
  <2> QED
    BY <1>2, <1>9, <2>1, <2>2, <2>3, <2>4, <2>5
<1>11. CASE company[l].state = "live"
  <2>1. into[l] = 0 /\ into' = [into EXCEPT ![l] = w]
    BY <1>1, <1>2, <1>11 DEF IntoInv
  <2>2. /\ RootBy(into)[w] # l
        /\ \A c \in CompanyIds :
             RootBy(into')[c] = IF RootBy(into)[c] = l THEN RootBy(into)[w] ELSE RootBy(into)[c]
    <3>1. PICK f, g : f = into /\ g = into'
      OBVIOUS
    <3>2. Older(f) /\ Points(f, g, l, w)
      BY <1>1, <2>1, <3>1 DEF Points
    <3>3. /\ RootBy(f)[w] # l
          /\ \A c \in CompanyIds : RootBy(g)[c] = IF RootBy(f)[c] = l THEN RootBy(f)[w] ELSE RootBy(f)[c]
      BY <3>2, RootJoined
    <3> QED
      BY <3>1, <3>3
  <2>3. /\ R[w] # l /\ \A c \in CompanyIds : S[c] = IF R[c] = l THEN R[w] ELSE R[c]
    BY <1>3, <1>5, <2>2
  <2>4. \A c \in CompanyIds : R[c] \in CompanyIds /\ R[c] <= c /\ R[R[c]] = R[c]
    BY <1>3, <1>5
  <2>5. \A d \in CompanyIds : R[d] = R[x] => S[d] = S[x]
    BY <1>7, <2>3
  <2>6. \A d \in CompanyIds : R[d] = R[x] /\ d <= x => d \notin raced \union overruled
    BY <1>2, <1>8, <2>5
  <2>7. CASE R[x] \notin {w, l}
    <3>1. S[x] = R[x]
      BY <1>7, <2>3, <2>7
    <3>2. standing'[R[x]] = standing[R[x]] /\ company'[R[x]] = company[R[x]]
      BY <1>2, <1>7, <2>4, <2>7
    <3>3. Present(R[x])
      BY <1>7, <1>8, <2>4, <3>1, <3>2, KeyTypes DEF Present
    <3> QED
      BY <1>9, <2>6, <3>1, <3>2, <3>3
  <2>8. CASE R[x] = l
    <3>1. l <= x /\ S[l] = S[x]
      BY <1>7, <2>4, <2>5, <2>8
    <3>2. l \notin raced' /\ ~Disturbed(h, w, l)
      BY <1>2, <1>8, <3>1
    <3>3. Present(l) /\ Present(w) /\ task[h].before = <<standing[w], standing[l]>>
      BY <3>2 DEF Disturbed
    <3>4. into[w] = 0
      BY <1>1, <3>3 DEF IntoInv, Present
    <3>5. S[x] = w
      BY <1>3, <1>5, <1>7, <2>3, <2>8, <3>4
    <3>6. standing[l] = "rejected"
      BY <1>9, <2>6, <2>8, <3>3
    <3>7. standing'[w] = "rejected"
      <4>1. PICK a \in Statuses, b \in Statuses : task[h].before = <<a, b>> /\ task[h].raise = Better(a, b)
        BY <1>1 DEF JoinInv
      <4>2. a = standing[w] /\ b = standing[l]
        BY <3>3, <4>1
      <4> QED
        BY <1>2, <3>6, <4>1, <4>2, RejectionKept
    <3> QED
      BY <3>5, <3>7
  <2>9. CASE R[x] = w
    <3>1. w <= x /\ S[w] = S[x] /\ S[x] = w
      BY <1>1, <1>7, <2>3, <2>4, <2>5, <2>9
    <3>2. w \notin raced' /\ ~Disturbed(h, w, l)
      BY <1>2, <1>8, <3>1
    <3>3. Present(w) /\ task[h].before = <<standing[w], standing[l]>>
      BY <3>2 DEF Disturbed
    <3>4. standing[w] = "rejected"
      BY <1>9, <2>6, <2>9, <3>3
    <3>5. standing'[w] = "rejected"
      <4>1. PICK a \in Statuses, b \in Statuses : task[h].before = <<a, b>> /\ task[h].raise = Better(a, b)
        BY <1>1 DEF JoinInv
      <4>2. a = standing[w] /\ b = standing[l]
        BY <3>3, <4>1
      <4> QED
        BY <1>2, <3>4, <4>1, <4>2, RejectionKept
    <3> QED
      BY <3>1, <3>5
  <2> QED
    BY <2>7, <2>8, <2>9
<1> QED
  BY <1>10, <1>11

LEMMA JoinStep ==
  ASSUME CompaniesInv, NEW h \in Handlers, Join(h)
  PROVE  CompaniesInv'
<1>1. /\ CompaniesTypeOK /\ TaskInv /\ JoinInv /\ ClearInv /\ LockInv /\ TwinInv /\ KnownInv
      /\ IntoInv /\ ErasedInv /\ MergedInv /\ ExportInv /\ RejectionHolds
  BY DEF CompaniesInv
<1>2. PICK w, l, b : w = task[h].win /\ l = task[h].lose /\ b = task[h].biz
  OBVIOUS
<1>3. /\ UNCHANGED <<doNot, tasks, refused, outside, overruled>> /\ task[h].at = "join"
      /\ w \in CompanyIds /\ l \in CompanyIds /\ w < l
      /\ \/ /\ SetTask(h, NoTask)
            /\ UNCHANGED <<company, ownerOf, seen, into, standing, raced, madeBy, export>>
         \/ /\ company[w].state # "erased" /\ Joined(h, w, l)
            /\ \E u \in TaskStates : JoinedTask(h, u)
  BY <1>1, <1>2, JoinFacts
<1>4. CASE SetTask(h, NoTask) /\ UNCHANGED <<company, ownerOf, seen, into, standing, raced, madeBy, export>>
  BY <1>3, <1>4, StopStep DEF RestOfData, handVars
<1>5. CASE company[w].state # "erased" /\ Joined(h, w, l) /\ \E u \in TaskStates : JoinedTask(h, u)
  <2>1. PICK u \in TaskStates : JoinedTask(h, u)
    BY <1>5
  <2>2. /\ SetTask(h, u) /\ u.at = "claim" /\ u.biz = b /\ u.todo = task[h].todo /\ u.ids = task[h].ids
        /\ u.cleared = task[h].cleared /\ u.id = w /\ u.win = 0 /\ u.lose = 0
    BY <1>2, <2>1 DEF JoinedTask
  <2>3. /\ standing' \in [CompanyIds -> Statuses]
        /\ standing'[w] = Kept2(task[h].raise, standing[w], standing[l]) /\ standing'[l] = "none"
        /\ export' \in [of : 0 .. MaxCompanies, to : {"none", "saved_to_crm", "in_campaign"}]
        /\ export' = export \/ (export.of = l /\ export'.of \in {w, 0})
        /\ ownerOf' \in [Domains \union Profiles -> 0 .. MaxCompanies]
        /\ \A k \in Domains \union Profiles : ownerOf'[k] = IF ownerOf[k] = l THEN w ELSE ownerOf[k]
        /\ seen' \in [SourceIds -> Seq(0 .. MaxCompanies)]
    BY <1>5 DEF Joined
  <2>4. /\ company' \in [CompanyIds -> Companies]
        /\ company'[w].state = company[w].state
        /\ company'[l].state = IF company[l].state = "live" THEN "merged" ELSE company[l].state
        /\ company'[l].phones = {}
        /\ \A x \in CompanyIds \ {w, l} : company'[x] = company[x] /\ standing'[x] = standing[x]
        /\ into' = IF company[l].state = "live" THEN [into EXCEPT ![l] = w] ELSE into
        /\ raced' = IF Disturbed(h, w, l) THEN raced \union {w, l} ELSE raced
        /\ madeBy' = [madeBy EXCEPT ![w] = LockOf(b)]
    BY <1>2, <1>5 DEF Joined
  <2>5. /\ task'[h] = u /\ \A g \in Handlers : g # h => task'[g] = task[g]
    BY <1>1, <2>2, TaskSet
  <2>6. InTransaction(h) /\ b \in task[h].todo /\ b \in Businesses /\ w # l /\ w # 0 /\ l # 0
        /\ Used(w) /\ Used(l) /\ AtWork(h, w) /\ AtWork(h, l)
    <3>1. InTransaction(h) /\ AtWork(h, w) /\ AtWork(h, l)
      BY <1>2, <1>3 DEF InTransaction, AtWork
    <3>2. b \in task[h].todo /\ task[h] \in TaskStates
      BY <1>1, <1>2, <3>1 DEF TaskInv, CompaniesTypeOK
    <3>3. b \in Businesses
      BY <3>2 DEF TaskStates
    <3>4. Used(w) /\ Used(l)
      BY <1>1, <1>3, <3>1 DEF KnownInv
    <3>5. w # l /\ w # 0 /\ l # 0
      BY <1>3, KeyTypes
    <3> QED
      BY <3>1, <3>2, <3>3, <3>4, <3>5
  <2>7. Ready(u)
    BY <1>1, <2>2, <2>6 DEF Ready, ClearInv
  <2>8. /\ TaskInv' /\ JoinInv' /\ ClearInv' /\ task' \in [Handlers -> TaskStates]
        /\ \A g \in Handlers : task'[g].at \in {"merge", "join"} => task'[g].win \in 1 .. task'[g].lose - 1
    BY <1>1, <2>2, <2>7, TasksStay
  <2>9. /\ into' \in [CompanyIds -> 0 .. MaxCompanies]
        /\ \A x \in CompanyIds : into'[x] = into[x] \/ (x = l /\ into'[x] = w /\ company[l].state = "live")
    BY <1>1, <1>3, <2>4, KeyTypes DEF CompaniesTypeOK
  <2>10. raced' \subseteq raced \union {w, l} /\ raced \subseteq raced'
    BY <2>4
  <2>11. /\ madeBy' \in [CompanyIds -> Locks \union {NoKey}] /\ madeBy'[w] = LockOf(b)
         /\ \A x \in CompanyIds : x # w => madeBy'[x] = madeBy[x]
    BY <1>1, <1>3, <2>4, <2>6, KeyTypes DEF CompaniesTypeOK
  <2>12. CompaniesTypeOK'
    <3>1. refused' \union raced' \union overruled' \subseteq CompanyIds
      BY <1>1, <1>3, <2>10 DEF CompaniesTypeOK
    <3> QED
      BY <1>1, <1>3, <2>3, <2>4, <2>8, <2>9, <2>11, <3>1 DEF CompaniesTypeOK
  <2>13. LockInv'
    BY <1>1, <1>2, <2>2, <2>6, LocksStay
  <2>14. \A x \in CompanyIds, g \in Handlers :
           (ToAdd(g, x) \/ AtWork(g, x))' => ToAdd(g, x) \/ (AtWork(g, x) /\ (g # h \/ x = w))
    BY <2>2, <2>5, <2>6, KeyTypes DEF ToAdd, AtWork
  <2>15. KnownInv'
    <3>1. ASSUME NEW x \in CompanyIds, ~Used(x)'
          PROVE  /\ standing'[x] = "none" /\ into'[x] = 0 /\ x \notin refused'
                 /\ \A g \in Handlers : ~ToAdd(g, x)' /\ ~AtWork(g, x)'
                 /\ \A k \in Domains \union Profiles : ownerOf'[k] # x
                 /\ \A y \in CompanyIds : into'[y] # x
      <4>1. x # w /\ x # l /\ ~Used(x)
        BY <2>4, <2>6, <3>1 DEF Used
      <4>2. /\ standing[x] = "none" /\ into[x] = 0 /\ x \notin refused
            /\ \A g \in Handlers : ~ToAdd(g, x) /\ ~AtWork(g, x)
            /\ \A k \in Domains \union Profiles : ownerOf[k] # x
            /\ \A y \in CompanyIds : into[y] # x
        BY <1>1, <4>1 DEF KnownInv
      <4>3. standing'[x] = "none" /\ into'[x] = 0 /\ x \notin refused'
        BY <1>3, <2>4, <2>9, <4>1, <4>2
      <4>4. \A g \in Handlers : ~ToAdd(g, x)' /\ ~AtWork(g, x)'
        BY <2>14, <4>2
      <4>5. \A k \in Domains \union Profiles : ownerOf'[k] # x
        BY <2>3, <4>1, <4>2
      <4>6. \A y \in CompanyIds : into'[y] # x
        BY <2>9, <4>1, <4>2
      <4> QED
        BY <4>3, <4>4, <4>5, <4>6
    <3> QED
      BY <3>1 DEF KnownInv
  <2>16. IntoInv'
    BY <1>1, <1>3, <2>4, <2>6, <2>9 DEF IntoInv
  <2>17. ErasedInv'
    BY <1>1, <1>5, <2>3, <2>4 DEF ErasedInv
  <2>18. MergedInv'
    <3>1. ASSUME NEW x \in CompanyIds, company'[x].state = "merged",
                 standing'[x] # "none" \/ \E g \in Handlers : (ToAdd(g, x) \/ AtWork(g, x))'
          PROVE  x \in raced'
      <4>1. CASE x = w
        <5>1. company[w].state = "merged"
          BY <2>4, <3>1, <4>1
        <5> QED
          BY <1>1, <1>3, <2>6, <2>10, <4>1, <5>1 DEF MergedInv
      <4>2. CASE x = l /\ company[l].state # "live"
        BY <2>4, <4>2 DEF Disturbed, Present
      <4>3. CASE x = l /\ company[l].state = "live"
        <5>1. PICK g \in Handlers : ToAdd(g, l) \/ (AtWork(g, l) /\ g # h)
          BY <1>3, <2>3, <2>6, <2>14, <3>1, <4>3
        <5>2. Disturbed(h, w, l)
          BY <5>1 DEF Disturbed
        <5> QED
          BY <2>4, <4>3, <5>2
      <4>4. CASE x # w /\ x # l
        <5>1. company[x].state = "merged" /\ standing'[x] = standing[x]
          BY <2>4, <3>1, <4>4
        <5>2. standing[x] # "none" \/ \E g \in Handlers : ToAdd(g, x) \/ AtWork(g, x)
          BY <2>14, <3>1, <5>1
        <5> QED
          BY <1>1, <2>10, <5>1, <5>2 DEF MergedInv
      <4> QED
        BY <4>1, <4>2, <4>3, <4>4
    <3> QED
      BY <3>1 DEF MergedInv
  <2>19. ExportInv'
    <3>1. export.of # 0 => export.of \in CompanyIds
      BY <1>1, KeyTypes DEF CompaniesTypeOK
    <3>2. export.of \in {w, l} => w \in raced' /\ l \in raced'
      BY <2>4 DEF Disturbed
    <3>3. CASE export.of \in {w, l}
      BY <1>3, <2>3, <3>2, <3>3 DEF ExportInv
    <3>4. CASE export.of \notin {w, l}
      BY <1>1, <1>3, <2>3, <2>4, <2>10, <3>1, <3>4 DEF ExportInv
    <3> QED
      BY <3>3, <3>4
  <2>20. TwinInv'
    <3>1. ASSUME NEW g \in Handlers, InTransaction(g)', task'[g].id = 0
          PROVE  /\ task'[g].at \in {"claim", "finish"}
                 /\ \A x \in AtPlace(task[g].biz)' : madeBy'[x] # LockOf(task'[g].biz)
      <4>1. g # h /\ task'[g] = task[g] /\ InTransaction(g) /\ task[g].id = 0
        BY <2>2, <2>5, <2>6, <3>1 DEF InTransaction
      <4>2. PICK p : p = task[g].biz
        OBVIOUS
      <4>3. LockOf(p) # LockOf(b)
        BY <1>1, <1>2, <2>6, <4>1, <4>2 DEF LockInv
      <4>4. \A x \in AtPlace(p)' : x = w \/ x \in AtPlace(p)
        BY <2>4 DEF AtPlace, Present
      <4>5. task[g].at \in {"claim", "finish"} /\ \A x \in AtPlace(p) : madeBy[x] # LockOf(p)
        BY <1>1, <4>1, <4>2 DEF TwinInv
      <4>6. \A x \in AtPlace(p)' : madeBy'[x] # LockOf(p)
        BY <2>11, <4>3, <4>4, <4>5 DEF AtPlace
      <4>7. AtPlace(task[g].biz)' = AtPlace(p)'
        BY <4>1, <4>2 DEF AtPlace
      <4> QED
        BY <4>1, <4>2, <4>5, <4>6, <4>7
    <3> QED
      BY <3>1 DEF TwinInv
  <2>21. RejectionHolds'
    BY <1>3, <1>5, JoinRejection
  <2> QED
    BY <2>8, <2>12, <2>13, <2>15, <2>16, <2>17, <2>18, <2>19, <2>20, <2>21 DEF CompaniesInv
<1> QED
  BY <1>3, <1>4, <1>5

-----------------------------------------------------------------------------
(* Theorems *)

LEMMA CompaniesInitHolds ==
  CompaniesInit => CompaniesInv
<1>1. SUFFICES ASSUME CompaniesInit PROVE CompaniesInv
  OBVIOUS
<1>2. \A c \in CompanyIds : company[c] = Unused /\ into[c] = 0 /\ standing[c] = "none"
  BY <1>1 DEF CompaniesInit
<1>3. Unused \in Companies /\ Unused.state = "unused" /\ Unused.name = NoKey /\ Unused.phones = {}
  BY DEF Unused, Companies
<1>4. \A h \in Handlers : task[h] = NoTask
  BY <1>1 DEF CompaniesInit
<1>5. refused = {} /\ export = NoExport /\ NoExport.of = 0
  BY <1>1 DEF CompaniesInit, NoExport
<1>6. CompaniesTypeOK
  <2>1. company \in [CompanyIds -> Companies]
    BY <1>1, <1>3 DEF CompaniesInit
  <2>2. /\ ownerOf \in [Domains \union Profiles -> 0 .. MaxCompanies] /\ into \in [CompanyIds -> 0 .. MaxCompanies]
        /\ standing \in [CompanyIds -> Statuses]
    BY <1>1, KeyTypes DEF CompaniesInit, Statuses
  <2>3. seen \in [SourceIds -> Seq(0 .. MaxCompanies)]
    BY <1>1 DEF CompaniesInit
  <2>4. export \in [of : 0 .. MaxCompanies, to : {"none", "saved_to_crm", "in_campaign"}]
    BY <1>1, KeyTypes DEF CompaniesInit, NoExport
  <2>5. task \in [Handlers -> TaskStates]
    BY <1>1, NoTaskIs DEF CompaniesInit
  <2>6. /\ doNot \subseteq Domains /\ refused \union raced \union overruled \subseteq CompanyIds
        /\ madeBy \in [CompanyIds -> Locks \union {NoKey}]
        /\ tasks \in 0 .. MaxTasks /\ outside \in 0 .. MaxOutside
    BY <1>1, KeyTypes DEF CompaniesInit
  <2>7. \A h \in Handlers : task[h].at \notin {"merge", "join"}
    BY <1>4, NoTaskIs
  <2> QED
    BY <2>1, <2>2, <2>3, <2>4, <2>5, <2>6, <2>7 DEF CompaniesTypeOK
<1>7. TaskInv /\ JoinInv /\ ClearInv /\ LockInv /\ TwinInv
  BY <1>4, NoTaskIs DEF TaskInv, JoinInv, ClearInv, LockInv, TwinInv, InTransaction
<1>8. KnownInv
  <2>1. \A c \in CompanyIds, h \in Handlers : ~ToAdd(h, c) /\ ~AtWork(h, c)
    BY <1>4, NoTaskIs, KeyTypes DEF ToAdd, AtWork
  <2>2. \A k \in Domains \union Profiles : ownerOf[k] \notin CompanyIds
    BY <1>1, KeyTypes DEF CompaniesInit
  <2>3. \A d \in CompanyIds : into[d] \notin CompanyIds
    BY <1>2, KeyTypes
  <2> QED
    BY <1>2, <1>5, <2>1, <2>2, <2>3 DEF KnownInv
<1>9. IntoInv /\ ErasedInv /\ MergedInv
  BY <1>2, <1>3 DEF IntoInv, ErasedInv, MergedInv
<1>10. ExportInv /\ RejectionHolds
  BY <1>5 DEF ExportInv, RejectionHolds
<1> QED
  BY <1>6, <1>7, <1>8, <1>9, <1>10 DEF CompaniesInv

LEMMA CompaniesStepHolds ==
  CompaniesInv /\ [CompaniesNext]_companyVars => CompaniesInv'
<1>1. SUFFICES ASSUME CompaniesInv, [CompaniesNext]_companyVars PROVE CompaniesInv'
  OBVIOUS
<1>2. CASE UNCHANGED companyVars
  <2>1. UNCHANGED <<company, ownerOf, seen, into, standing, doNot, task, tasks, refused, raced, madeBy,
                    export, outside, overruled>>
    BY <1>2 DEF companyVars, handVars
  <2>2. /\ CompaniesTypeOK /\ TaskInv /\ JoinInv /\ ClearInv /\ LockInv /\ ExportInv /\ RejectionHolds
    BY <1>1 DEF CompaniesInv
  <2>3. TaskInv' /\ JoinInv' /\ ClearInv' /\ LockInv'
    BY <2>1, <2>2, SameTasks
  <2>4. CompaniesTypeOK'
    BY <2>1, <2>2 DEF CompaniesTypeOK
  <2>5. standing' \in [CompanyIds -> Statuses]
    BY <2>4 DEF CompaniesTypeOK
  <2>6. KnownInv' /\ IntoInv' /\ ErasedInv' /\ MergedInv' /\ TwinInv'
    BY <1>1, <2>1, <2>4, <2>5, LeadsStep
  <2>7. ExportInv'
    BY <2>1, <2>2 DEF ExportInv
  <2>8. \A d : Root(d)' = Root(d) /\ Present(d)' = Present(d)
    BY <2>1 DEF Root, Present
  <2>9. RejectionHolds'
    BY <2>1, <2>2, <2>8 DEF RejectionHolds, Trail
  <2> QED
    BY <2>3, <2>4, <2>6, <2>7, <2>9 DEF CompaniesInv
<1>3. ASSUME NEW h \in Handlers, NEW found \in SUBSET Businesses, Find(h, found) PROVE CompaniesInv'
  BY <1>1, <1>3, FindStep
<1>4. ASSUME NEW h \in Handlers, NEW b \in task[h].todo, Resolve(h, b) PROVE CompaniesInv'
  BY <1>1, <1>4, ResolveStep
<1>5. ASSUME NEW h \in Handlers, ClaimWebsite(h) \/ Merge(h) \/ Join(h) \/ Finish(h) \/ AddLeads(h)
      PROVE  CompaniesInv'
  BY <1>1, <1>5, ClaimStep, MergeStep, JoinStep, FinishStep, AddStep
<1>6. ASSUME NEW h \in Handlers, NEW c \in CompanyIds, Crawl(h, c) PROVE CompaniesInv'
  BY <1>1, <1>6, CrawlStep
<1>7. ASSUME NEW h \in Handlers, NEW d \in Redirects, ApplySite(h, d) PROVE CompaniesInv'
  BY <1>1, <1>7, ApplyStep
<1>8. ASSUME NEW c \in CompanyIds, NEW status \in {"new", "reviewed", "rejected"}, Review(c, status)
      PROVE  CompaniesInv'
  BY <1>1, <1>8, ReviewStep
<1>9. ASSUME NEW c \in CompanyIds, NEW to \in {"saved_to_crm", "in_campaign"}, ReadLeads(c, to)
      PROVE  CompaniesInv'
  BY <1>1, <1>9, ReadStep
<1>10. CASE WriteLeads
  BY <1>1, <1>10, WriteStep
<1>11. ASSUME NEW d \in Domains, Erase(d) PROVE CompaniesInv'
  BY <1>1, <1>11, EraseStep
<1> QED
  BY <1>1, <1>2, <1>3, <1>4, <1>5, <1>6, <1>7, <1>8, <1>9, <1>10, <1>11 DEF CompaniesNext

LEMMA CompaniesInvariant ==
  CompaniesSpec => []CompaniesInv
BY CompaniesInitHolds, CompaniesStepHolds, PTL DEF CompaniesSpec

\* The types of the lead list and of the master data hold whatever the handlers, the user and a
\* request for erasure do, and the older of two records is always the one that is kept.
THEOREM CompaniesTypeCorrect ==
  CompaniesSpec => []CompaniesTypeOK
<1>1. CompaniesInv => CompaniesTypeOK
  BY DEF CompaniesInv
<1> QED
  BY <1>1, CompaniesInvariant, PTL

\* mergeCompanies: joining two records loses no lead, and neither a merge nor an export loses a
\* rejection, unless somebody else is at the records meanwhile.
THEOREM LeadsSurviveMerges ==
  CompaniesSpec => []MergesKeepLeads
<1>1. CompaniesInv => MergesKeepLeads
  BY DEF CompaniesInv, MergesKeepLeads, MergedInv, NoLeadStranded
<1> QED
  BY <1>1, CompaniesInvariant, PTL

\* lockKey: a transaction that makes a record has overlooked none that was written under its lock.
THEOREM OneRecordUnderOneLock ==
  CompaniesSpec => NoTwinUnderOneLock
<1>1. CompaniesInv /\ [CompaniesNext]_companyVars =>
        [\A h \in Handlers :
           task[h].at = "finish" /\ task[h].id = 0 /\ task'[h].at = "next" =>
             \A c \in AtPlace(task[h].biz) : madeBy[c] # LockOf(task[h].biz)]_companyVars
  BY DEF CompaniesInv, TwinInv, InTransaction
<1> QED
  BY <1>1, CompaniesInvariant, PTL DEF CompaniesSpec, NoTwinUnderOneLock

LEMMA ErasedStep ==
  ASSUME CompaniesInv, CompaniesNext, NEW d \in doNot, ownerOf[d] = 0, ownerOf'[d] # 0
  PROVE  \E h \in Handlers : \/ task[h].at = "crawl" /\ d \in Redirects
                             \/ task[h].at = "finish" /\ d \in task[h].cleared
<1>1. CompaniesTypeOK /\ TaskInv /\ ClearInv
  BY DEF CompaniesInv
<1>2. d \in Domains /\ d \in Domains \union Profiles /\ d # NoKey
  BY <1>1, KeyTypes DEF CompaniesTypeOK
<1>3. ASSUME NEW h \in Handlers, NEW found \in SUBSET Businesses, Find(h, found) PROVE FALSE
  BY <1>3 DEF Find
<1>4. ASSUME NEW h \in Handlers, NEW b \in task[h].todo, Resolve(h, b) PROVE FALSE
  BY <1>4 DEF Resolve
<1>5. ASSUME NEW h \in Handlers, ClaimWebsite(h) \/ Merge(h) \/ AddLeads(h) PROVE FALSE
  BY <1>5 DEF ClaimWebsite, Merge, AddLeads
<1>6. ASSUME NEW h \in Handlers, Join(h) PROVE FALSE
  <2>1. PICK w, l : w = task[h].win /\ l = task[h].lose
    OBVIOUS
  <2>2. l \in CompanyIds /\ (ownerOf' = ownerOf \/ Joined(h, w, l))
    BY <1>1, <1>6, <2>1, JoinFacts
  <2>3. Joined(h, w, l) => ownerOf'[d] = IF ownerOf[d] = l THEN w ELSE ownerOf[d]
    BY <1>2 DEF Joined
  <2> QED
    BY <2>2, <2>3, KeyTypes
<1>7. ASSUME NEW h \in Handlers, Finish(h) PROVE task[h].at = "finish" /\ d \in task[h].cleared
  <2>1. PICK b : b = task[h].biz
    OBVIOUS
  <2>2. /\ task[h].at = "finish" /\ b \in task[h].todo /\ b \in Businesses
        /\ ownerOf' = ownerOf \/ \E c \in CompanyIds : Recorded(c, b)
    BY <1>1, <1>7, <2>1, FinishFacts
  <2>3. \E c \in CompanyIds : Recorded(c, b)
    BY <2>2
  <2>4. d \in {b.domain, b.profile}
    BY <1>2, <2>3 DEF Recorded
  <2>5. b.profile \in Profiles \union {NoKey}
    BY <2>2, KeyTypes
  <2>6. b.domain = d
    BY <1>2, <2>4, <2>5, KeyTypes
  <2> QED
    BY <1>1, <1>2, <2>2, <2>6 DEF ClearInv
<1>8. ASSUME NEW h \in Handlers, NEW c \in CompanyIds, Crawl(h, c) PROVE FALSE
  BY <1>8 DEF Crawl
<1>9. ASSUME NEW h \in Handlers, NEW r \in Redirects, ApplySite(h, r) PROVE task[h].at = "crawl" /\ d \in Redirects
  BY <1>1, <1>2, <1>9, ApplyFacts
<1>10. ASSUME NEW c \in CompanyIds, NEW status \in {"new", "reviewed", "rejected"}, Review(c, status) PROVE FALSE
  BY <1>10 DEF Review
<1>11. ASSUME NEW c \in CompanyIds, NEW to \in {"saved_to_crm", "in_campaign"}, ReadLeads(c, to) PROVE FALSE
  BY <1>11 DEF ReadLeads
<1>12. CASE WriteLeads
  BY <1>12 DEF WriteLeads
<1>13. ASSUME NEW e \in Domains, Erase(e) PROVE FALSE
  <2>1. ownerOf' = ownerOf \/ Erased(ownerOf[e])
    BY <1>1, <1>13, EraseFacts
  <2>2. Erased(ownerOf[e]) => ownerOf'[d] = IF ownerOf[d] = ownerOf[e] THEN 0 ELSE ownerOf[d]
    BY <1>2 DEF Erased
  <2> QED
    BY <2>1, <2>2
<1> QED
  BY <1>3, <1>4, <1>5, <1>6, <1>7, <1>8, <1>9, <1>10, <1>11, <1>12, <1>13 DEF CompaniesNext

\* do_not_collect: an erased domain has a company again only by a task that had asked before it
\* was erased, or by the redirect of a website.
THEOREM ErasedDomainsStayErased ==
  CompaniesSpec => ErasedStaysErased
<1>1. CompaniesInv /\ [CompaniesNext]_companyVars =>
        [\A d \in doNot :
           ownerOf[d] = 0 /\ ownerOf'[d] # 0 =>
             \E h \in Handlers : \/ task[h].at = "crawl" /\ d \in Redirects
                                 \/ task[h].at = "finish" /\ d \in task[h].cleared]_companyVars
  BY ErasedStep
<1> QED
  BY <1>1, CompaniesInvariant, PTL DEF CompaniesSpec, ErasedStaysErased

-----------------------------------------------------------------------------
(* Beside the campaigns and the board *)

LEMMA StepsOfOnePart ==
  [MCNext]_<<part, vars, companyVars, boardVars>> =>
    [Next]_vars /\ [CompaniesNext]_companyVars /\ [BoardNext]_boardVars
<1>1. CASE UNCHANGED <<part, vars, companyVars, boardVars>>
  BY <1>1
<1>2. CASE Next /\ UNCHANGED <<companyVars, boardVars>>
  BY <1>2
<1>3. CASE CompaniesNext /\ UNCHANGED <<vars, boardVars>>
  BY <1>3
<1>4. CASE BoardNext /\ UNCHANGED <<vars, companyVars>>
  BY <1>4
<1> QED
  BY <1>1, <1>2, <1>3, <1>4 DEF MCNext

\* The campaigns, the companies of the lead engine and the CRM board share no state: a behaviour
\* of all three is one of each, and what is proved of each alone holds of it beside the others.
THEOREM EachPartRuns == MCSpec => Spec /\ CompaniesSpec /\ BoardSpec
<1>1. MCInit => Init /\ CompaniesInit /\ BoardInit
  BY DEF MCInit
<1> QED
  BY <1>1, StepsOfOnePart, PTL DEF MCSpec, Spec, CompaniesSpec, BoardSpec

\* Beside the campaigns and the board the companies keep their types, no merge loses a lead, a
\* record made under a lock has no twin made under it, and an erased domain comes back in the
\* excused cases only.
THEOREM CompaniesKeepTheirPromises ==
  MCSpec => /\ [](CompaniesTypeOK /\ MergesKeepLeads)
            /\ NoTwinUnderOneLock /\ ErasedStaysErased
BY EachPartRuns, CompaniesTypeCorrect, LeadsSurviveMerges, OneRecordUnderOneLock,
   ErasedDomainsStayErased, PTL
=============================================================================
