---------------------------- MODULE Services_proofs ----------------------------
(***************************************************************************)
(* Sessions: a login has one refresh token as long as it is open and none  *)
(* after it was ended, and the tabs of its user are not signed out by one  *)
(* another, proved for every number of tabs, tokens and lost answers.      *)
(* Billing: what Stripe has told the server is what the server knows,      *)
(* proved for every number of checkouts, events, simultaneous webhook      *)
(* requests, repeated deliveries, failing statements and restarts: an      *)
(* account and a subscription for whoever paid, and the last status of a   *)
(* subscription. Inbound mail: the lead and its replies agree, for every   *)
(* number of mails, rows, faults and steps of the user, and every set of   *)
(* labels.                                                                 *)
(***************************************************************************)
EXTENDS MCServices, Crm_proofs, FiniteSetTheorems, WellFoundedInduction, SequenceTheorems, TLAPS

-----------------------------------------------------------------------------
(* Sessions: types, and which tokens exist *)

\* Tokens are numbered as they are issued, a family by its first one; what the browser, a
\* request or a waiting UPDATE holds has been issued.
Numbered ==
  /\ \A k \in 1 .. issued : family[k] <= k
  /\ ended \subseteq 1 .. issued
  /\ cookie # NoToken => cookie <= issued
  /\ ender.rows \subseteq 1 .. issued

Carries == \A t \in Tabs : IF InFlight(t) THEN tab[t].sent \in 1 .. issued ELSE tab[t].sent = NoToken

\* The answer of a rotation carries a token that was issued.
NewIssued == \A t \in Tabs : tab[t].at = "answer" /\ tab[t].answer = "ok" => tab[t].new \in 1 .. issued

TypeInv == SessionTypeOK /\ Numbered /\ Carries /\ NewIssued

LEMMA TypeInvInit == SessionInit => TypeInv
  BY SessionsAssumption DEF SessionInit, TypeInv, SessionTypeOK, TokenTypes, TabTypes, TabRecords, Numbered, Carries, NewIssued, Quiet, InFlight, Tokens, TabStates, Answers, Enders

LEMMA TokenTypesStay ==
  ASSUME TypeInv, [SessionNext]_sessionVars
  PROVE  TokenTypes'
<1> USE SessionsAssumption DEF TypeInv, SessionTypeOK, TokenTypes, Tokens, tokenVars
<1>1. CASE CheckPassword
  BY <1>1 DEF CheckPassword
<1>2. CASE CreateSession
  BY <1>2 DEF CreateSession
<1>3. CASE Logout
  BY <1>3 DEF Logout, End, Doomed, Families, OfFamily, Live
<1>4. CASE ResetPassword
  BY <1>4 DEF ResetPassword, End, Doomed, Families, OfFamily, Live
<1>5. CASE EndWaiting
  BY <1>5 DEF EndWaiting, Numbered
<1>6. ASSUME NEW t \in Tabs, Refresh(t)
      PROVE  TokenTypes'
  BY <1>6 DEF Refresh, MayRefresh
<1>7. ASSUME NEW t \in Tabs, ReadToken(t)
      PROVE  TokenTypes'
  BY <1>7 DEF ReadToken, Goto, Reply, InGrace
<1>8. ASSUME NEW t \in Tabs, Claim(t)
      PROVE  TokenTypes'
  BY <1>8 DEF Claim, Goto, Reply, Claimable, TabTypes, TabRecords, InFlight, Carries
<1>9. ASSUME NEW t \in Tabs, Commit(t)
      PROVE  TokenTypes'
  BY <1>9 DEF Commit, Retire, TabTypes, TabRecords, InFlight, Carries
<1>10. ASSUME NEW t \in Tabs, Deliver(t)
       PROVE  TokenTypes'
  BY <1>10 DEF Deliver, Goto, TabTypes, TabRecords, InFlight, Carries
<1>11. ASSUME NEW t \in Tabs, TryAgain(t)
       PROVE  TokenTypes'
  BY <1>11 DEF TryAgain
<1>12. ASSUME NEW t \in Tabs, LoseReply(t)
       PROVE  TokenTypes'
  BY <1>12 DEF LoseReply
<1>13. ASSUME NEW t \in Tabs, Reload(t)
       PROVE  TokenTypes'
  BY <1>13 DEF Reload
<1>14. ASSUME NEW t \in Tabs, EndReused(t)
       PROVE  TokenTypes'
  BY <1>14 DEF EndReused, End, Doomed, Families, OfFamily, Live, Reply
<1>15. ASSUME NEW k \in Tokens, GraceOver(k)
       PROVE  TokenTypes'
  BY <1>15 DEF GraceOver
<1>16. CASE UNCHANGED sessionVars
  BY <1>16 DEF sessionVars
<1> QED
  BY <1>1, <1>2, <1>3, <1>4, <1>5, <1>6, <1>7, <1>8, <1>9, <1>10, <1>11, <1>12, <1>13, <1>14,
      <1>15, <1>16 DEF SessionNext

\* Where a tab can go.
LEMMA TabMoves ==
  ASSUME TabTypes, NEW t \in Tabs
  PROVE  /\ Quiet \in TabRecords /\ [Quiet EXCEPT !.at = "out"] \in TabRecords
         /\ \A k \in Tokens : /\ [Quiet EXCEPT !.at = "sent", !.sent = k] \in TabRecords
                             /\ [Quiet EXCEPT !.at = "sent", !.attempt = 1, !.sent = k] \in TabRecords
         /\ \A q \in TabRecords : [tab EXCEPT ![t] = q] \in [Tabs -> TabRecords]
         /\ \A place \in TabStates : Goto(t, place) => TabTypes'
         /\ \A what \in Answers : Reply(t, what) => TabTypes'
<1>1. /\ {"idle", "sent", "claim", "commit", "reuse", "answer", "pause", "out"} \subseteq TabStates
      /\ {"none", "ok", "race", "ended"} \subseteq Answers
  BY DEF TabStates, Answers
<1>2. Quiet \in TabRecords /\ [Quiet EXCEPT !.at = "out"] \in TabRecords
  BY <1>1 DEF Quiet, TabRecords
<1>3. ASSUME NEW k \in Tokens
      PROVE  /\ [Quiet EXCEPT !.at = "sent", !.sent = k] \in TabRecords
             /\ [Quiet EXCEPT !.at = "sent", !.attempt = 1, !.sent = k] \in TabRecords
  <2>1. 1 \in 0 .. 1 /\ "sent" \in TabStates
    BY <1>1
  <2> QED
    BY <1>2, <2>1 DEF TabRecords
<1>4. \A q \in TabRecords : [tab EXCEPT ![t] = q] \in [Tabs -> TabRecords]
  BY DEF TabTypes
<1>5. ASSUME NEW place \in TabStates, Goto(t, place)
      PROVE  TabTypes'
  <2>1. [tab[t] EXCEPT !.at = place] \in TabRecords
    BY DEF TabTypes, TabRecords
  <2>2. tab' = [tab EXCEPT ![t] = [tab[t] EXCEPT !.at = place]]
    BY <1>5 DEF Goto
  <2> QED
    BY <1>4, <2>1, <2>2 DEF TabTypes
<1>6. ASSUME NEW what \in Answers, Reply(t, what)
      PROVE  TabTypes'
  <2>1. [tab[t] EXCEPT !.at = "answer", !.answer = what] \in TabRecords
    BY <1>1 DEF TabTypes, TabRecords
  <2>2. tab' = [tab EXCEPT ![t] = [tab[t] EXCEPT !.at = "answer", !.answer = what]]
    BY <1>6 DEF Reply
  <2> QED
    BY <1>4, <2>1, <2>2 DEF TabTypes
<1> QED
  BY <1>2, <1>3, <1>4, <1>5, <1>6

LEMMA TabTypesStay ==
  ASSUME TypeInv, [SessionNext]_sessionVars
  PROVE  TabTypes'
<1> USE SessionsAssumption DEF TypeInv, SessionTypeOK
<1>p. /\ {"idle", "sent", "claim", "commit", "reuse", "answer", "pause", "out"} \subseteq TabStates
      /\ {"none", "ok", "race", "ended"} \subseteq Answers
  BY DEF TabStates, Answers
<1>q. ASSUME NEW t \in Tabs, NEW q \in TabRecords, tab' = [tab EXCEPT ![t] = q] PROVE TabTypes'
  BY <1>q, TabMoves DEF TabTypes
<1>1. CASE CheckPassword
  BY <1>1 DEF CheckPassword, TabTypes
<1>2. CASE CreateSession
  BY <1>2 DEF CreateSession, TabTypes
<1>3. CASE Logout
  BY <1>3 DEF Logout, End, Doomed, Families, OfFamily, Live, TabTypes
<1>4. CASE ResetPassword
  BY <1>4 DEF ResetPassword, End, Doomed, Families, OfFamily, Live, TabTypes
<1>5. CASE EndWaiting
  BY <1>5 DEF EndWaiting, TabTypes
<1>6. ASSUME NEW t \in Tabs, Refresh(t)
      PROVE  TabTypes'
  <2>1. cookie \in Tokens
    BY <1>6 DEF Refresh, TokenTypes
  <2> QED
    BY <1>6, <1>q, <2>1, TabMoves DEF Refresh
<1>7. ASSUME NEW t \in Tabs, ReadToken(t)
      PROVE  TabTypes'
  BY <1>7, <1>p, TabMoves DEF ReadToken
<1>8. ASSUME NEW t \in Tabs, Claim(t)
      PROVE  TabTypes'
  BY <1>8, <1>p, TabMoves DEF Claim
<1>9. ASSUME NEW t \in Tabs, Commit(t)
      PROVE  TabTypes'
  <2>1. issued + 1 \in Tokens /\ tab[t] \in TabRecords
    BY <1>9 DEF Commit, TokenTypes, TabTypes, Tokens
  <2>2. [tab[t] EXCEPT !.at = "answer", !.answer = "ok", !.new = issued + 1] \in TabRecords
    BY <1>p, <2>1 DEF TabRecords
  <2>3. tab' = [tab EXCEPT ![t] = [tab[t] EXCEPT !.at = "answer", !.answer = "ok", !.new = issued + 1]]
    BY <1>9 DEF Commit
  <2> QED
    BY <1>q, <2>2, <2>3
<1>10. ASSUME NEW t \in Tabs, Deliver(t)
       PROVE  TabTypes'
  BY <1>10, <1>p, <1>q, TabMoves DEF Deliver
<1>11. ASSUME NEW t \in Tabs, TryAgain(t)
       PROVE  TabTypes'
  <2>1. CASE cookie = NoToken
    BY <1>11, <1>q, <2>1, TabMoves DEF TryAgain
  <2>2. CASE cookie # NoToken
    <3>1. cookie \in Tokens
      BY <2>2 DEF TokenTypes
    <3> QED
      BY <1>11, <1>q, <2>2, <3>1, TabMoves DEF TryAgain
  <2> QED
    BY <2>1, <2>2
<1>12. ASSUME NEW t \in Tabs, LoseReply(t)
       PROVE  TabTypes'
  BY <1>12, <1>q, TabMoves DEF LoseReply
<1>13. ASSUME NEW t \in Tabs, Reload(t)
       PROVE  TabTypes'
  BY <1>13, <1>q, TabMoves DEF Reload
<1>14. ASSUME NEW t \in Tabs, EndReused(t)
       PROVE  TabTypes'
  BY <1>14, <1>p, TabMoves DEF EndReused
<1>15. ASSUME NEW k \in Tokens, GraceOver(k)
       PROVE  TabTypes'
  BY <1>15 DEF GraceOver, TabTypes
<1>16. CASE UNCHANGED sessionVars
  BY <1>16 DEF sessionVars, TabTypes
<1> QED
  BY <1>1, <1>2, <1>3, <1>4, <1>5, <1>6, <1>7, <1>8, <1>9, <1>10, <1>11, <1>12, <1>13, <1>14,
      <1>15, <1>16 DEF SessionNext

\* The UPDATE of an end finds tokens that were issued.
LEMMA EndFinds ==
  ASSUME TypeInv, NEW kind, NEW token, kind = "reset" \/ token \in 1 .. issued, End(kind, token)
  PROVE  /\ issued' = issued /\ family' = family
         /\ ended' \subseteq 1 .. issued /\ ender'.rows \subseteq 1 .. issued
<1> USE SessionsAssumption DEF TypeInv, SessionTypeOK, TokenTypes, Numbered, Tokens
<1>1. Families(1 .. issued) \subseteq 1 .. issued
  BY DEF Families
<1>2. kind # "reset" => family[token] \in 1 .. issued
  OBVIOUS
<1>3. Doomed(kind, token) \subseteq 1 .. issued
  BY DEF Doomed, Live
<1>4. ender' = ender \/ ender'.rows = Doomed(kind, token)
  BY DEF End
<1>5. ended' = ended \union (IF kind = "reset" THEN Families(1 .. issued) ELSE {family[token]})
  BY DEF End
<1> QED
  BY <1>1, <1>2, <1>3, <1>4, <1>5 DEF End

LEMMA NumberedStays ==
  ASSUME TypeInv, [SessionNext]_sessionVars
  PROVE  Numbered'
<1> USE SessionsAssumption DEF TypeInv, SessionTypeOK, TokenTypes, Numbered, Tokens, tokenVars
<1>1. CASE CheckPassword
  BY <1>1 DEF CheckPassword
<1>2. CASE CreateSession
  <2>1. \A k \in 1 .. issued' : family'[k] <= k
    BY <1>2 DEF CreateSession
  <2>2. ended' \subseteq ended \union {issued + 1} /\ issued' = issued + 1 /\ issued' \in Nat
    BY <1>2 DEF CreateSession
  <2>3. ended' \subseteq 1 .. issued'
    BY <2>2
  <2>4. cookie' = issued' /\ ender'.rows \subseteq 1 .. issued'
    BY <1>2 DEF CreateSession
  <2> QED
    BY <2>1, <2>2, <2>3, <2>4
<1>3. CASE Logout
  <2>1. cookie \in 1 .. issued
    BY <1>3 DEF Logout
  <2> QED
    BY <1>3, <2>1, EndFinds DEF Logout
<1>4. CASE ResetPassword
  BY <1>4, EndFinds DEF ResetPassword
<1>5. CASE EndWaiting
  <2>1. ender'.rows = {} /\ UNCHANGED <<issued, family, ended, cookie>>
    BY <1>5 DEF EndWaiting
  <2> QED
    BY <2>1
<1>6. ASSUME NEW t \in Tabs, Refresh(t)
      PROVE  Numbered'
  BY <1>6 DEF Refresh, MayRefresh
<1>7. ASSUME NEW t \in Tabs, ReadToken(t)
      PROVE  Numbered'
  BY <1>7 DEF ReadToken, Goto, Reply, InGrace
<1>8. ASSUME NEW t \in Tabs, Claim(t)
      PROVE  Numbered'
  BY <1>8 DEF Claim, Goto, Reply, Claimable
<1>9. ASSUME NEW t \in Tabs, Commit(t)
      PROVE  Numbered'
  BY <1>9 DEF Commit, Retire, Carries, InFlight
<1>10. ASSUME NEW t \in Tabs, Deliver(t)
       PROVE  Numbered'
  <2>1. cookie' = cookie \/ cookie' = NoToken \/ (cookie' = tab[t].new /\ tab[t].at = "answer" /\ tab[t].answer = "ok")
    BY <1>10 DEF Deliver
  <2> QED
    BY <1>10, <2>1 DEF Deliver, NewIssued
<1>11. ASSUME NEW t \in Tabs, TryAgain(t)
       PROVE  Numbered'
  BY <1>11 DEF TryAgain
<1>12. ASSUME NEW t \in Tabs, LoseReply(t)
       PROVE  Numbered'
  BY <1>12 DEF LoseReply
<1>13. ASSUME NEW t \in Tabs, Reload(t)
       PROVE  Numbered'
  BY <1>13 DEF Reload
<1>14. ASSUME NEW t \in Tabs, EndReused(t)
       PROVE  Numbered'
  <2>1. tab[t].sent \in 1 .. issued
    BY <1>14 DEF EndReused, Carries, InFlight
  <2> QED
    BY <1>14, <2>1, EndFinds DEF EndReused
<1>15. ASSUME NEW k \in Tokens, GraceOver(k)
       PROVE  Numbered'
  BY <1>15 DEF GraceOver
<1>16. CASE UNCHANGED sessionVars
  BY <1>16 DEF sessionVars
<1> QED
  BY <1>1, <1>2, <1>3, <1>4, <1>5, <1>6, <1>7, <1>8, <1>9, <1>10, <1>11, <1>12, <1>13, <1>14,
      <1>15, <1>16 DEF SessionNext

LEMMA AgainSent ==
  \A k : LET q == [Quiet EXCEPT !.at = "sent", !.attempt = 1, !.sent = k] IN
    q.at = "sent" /\ q.sent = k /\ q.answer = "none"
  BY DEF Quiet

LEMMA CarriesStay ==
  ASSUME TypeInv, [SessionNext]_sessionVars
  PROVE  Carries'
<1> USE SessionsAssumption DEF TypeInv, SessionTypeOK, TabTypes, TabRecords, Carries, tokenVars, InFlight
<1>1. CASE CheckPassword
  BY <1>1 DEF CheckPassword
<1>2. CASE CreateSession
  BY <1>2 DEF CreateSession, TokenTypes
<1>3. CASE Logout
  BY <1>3 DEF Logout, End
<1>4. CASE ResetPassword
  BY <1>4 DEF ResetPassword, End
<1>5. CASE EndWaiting
  BY <1>5 DEF EndWaiting
<1>6. ASSUME NEW t \in Tabs, Refresh(t)
      PROVE  Carries'
  BY <1>6 DEF Refresh, MayRefresh, Quiet, TokenTypes, Numbered, Tokens
<1>7. ASSUME NEW t \in Tabs, ReadToken(t)
      PROVE  Carries'
  BY <1>7 DEF ReadToken, Goto, Reply, InGrace
<1>8. ASSUME NEW t \in Tabs, Claim(t)
      PROVE  Carries'
  BY <1>8 DEF Claim, Goto, Reply, Claimable
<1>9. ASSUME NEW t \in Tabs, Commit(t)
      PROVE  Carries'
  BY <1>9 DEF Commit, Retire, TokenTypes
<1>10. ASSUME NEW t \in Tabs, Deliver(t)
       PROVE  Carries'
  BY <1>10 DEF Deliver, Goto, Quiet
<1>11. ASSUME NEW t \in Tabs, TryAgain(t)
       PROVE  Carries'
  <2>1. CASE cookie = NoToken
    BY <1>11, <2>1 DEF TryAgain, Quiet
  <2>2. CASE cookie # NoToken
    <3>1. cookie \in 1 .. issued
      BY <2>2 DEF TokenTypes, Numbered, Tokens
    <3>2. tab' = [tab EXCEPT ![t] = [Quiet EXCEPT !.at = "sent", !.attempt = 1, !.sent = cookie]]
      BY <1>11, <2>2 DEF TryAgain
    <3>3. issued' = issued
      BY <1>11 DEF TryAgain
    <3> QED
      BY <3>1, <3>2, <3>3, AgainSent
  <2> QED
    BY <2>1, <2>2
<1>12. ASSUME NEW t \in Tabs, LoseReply(t)
       PROVE  Carries'
  BY <1>12 DEF LoseReply, Quiet
<1>13. ASSUME NEW t \in Tabs, Reload(t)
       PROVE  Carries'
  BY <1>13 DEF Reload, Quiet
<1>14. ASSUME NEW t \in Tabs, EndReused(t)
       PROVE  Carries'
  BY <1>14 DEF EndReused, End, Reply
<1>15. ASSUME NEW k \in Tokens, GraceOver(k)
       PROVE  Carries'
  BY <1>15 DEF GraceOver
<1>16. CASE UNCHANGED sessionVars
  BY <1>16 DEF sessionVars
<1> QED
  BY <1>1, <1>2, <1>3, <1>4, <1>5, <1>6, <1>7, <1>8, <1>9, <1>10, <1>11, <1>12, <1>13, <1>14,
      <1>15, <1>16 DEF SessionNext

LEMMA NewIssuedStays ==
  ASSUME TypeInv, [SessionNext]_sessionVars
  PROVE  NewIssued'
<1> USE SessionsAssumption DEF TypeInv, SessionTypeOK, TabTypes, TabRecords, NewIssued, tokenVars
<1>1. CASE CheckPassword
  BY <1>1 DEF CheckPassword
<1>2. CASE CreateSession
  BY <1>2 DEF CreateSession, TokenTypes
<1>3. CASE Logout
  BY <1>3 DEF Logout, End
<1>4. CASE ResetPassword
  BY <1>4 DEF ResetPassword, End
<1>5. CASE EndWaiting
  BY <1>5 DEF EndWaiting
<1>6. ASSUME NEW t \in Tabs, Refresh(t)
      PROVE  NewIssued'
  BY <1>6 DEF Refresh, MayRefresh, Quiet
<1>7. ASSUME NEW t \in Tabs, ReadToken(t)
      PROVE  NewIssued'
  BY <1>7 DEF ReadToken, Goto, Reply, InGrace
<1>8. ASSUME NEW t \in Tabs, Claim(t)
      PROVE  NewIssued'
  BY <1>8 DEF Claim, Goto, Reply, Claimable
<1>9. ASSUME NEW t \in Tabs, Commit(t)
      PROVE  NewIssued'
  BY <1>9 DEF Commit, Retire, TokenTypes
<1>10. ASSUME NEW t \in Tabs, Deliver(t)
       PROVE  NewIssued'
  BY <1>10 DEF Deliver, Goto, Quiet
<1>11. ASSUME NEW t \in Tabs, TryAgain(t)
       PROVE  NewIssued'
  <2>1. CASE cookie = NoToken
    BY <1>11, <2>1 DEF TryAgain, Quiet
  <2>2. CASE cookie # NoToken
    <3>1. cookie \in 1 .. issued
      BY <2>2 DEF TokenTypes, Numbered, Tokens
    <3>2. tab' = [tab EXCEPT ![t] = [Quiet EXCEPT !.at = "sent", !.attempt = 1, !.sent = cookie]]
      BY <1>11, <2>2 DEF TryAgain
    <3>3. issued' = issued
      BY <1>11 DEF TryAgain
    <3> QED
      BY <3>1, <3>2, <3>3, AgainSent
  <2> QED
    BY <2>1, <2>2
<1>12. ASSUME NEW t \in Tabs, LoseReply(t)
       PROVE  NewIssued'
  BY <1>12 DEF LoseReply, Quiet
<1>13. ASSUME NEW t \in Tabs, Reload(t)
       PROVE  NewIssued'
  BY <1>13 DEF Reload, Quiet
<1>14. ASSUME NEW t \in Tabs, EndReused(t)
       PROVE  NewIssued'
  BY <1>14 DEF EndReused, End, Reply
<1>15. ASSUME NEW k \in Tokens, GraceOver(k)
       PROVE  NewIssued'
  BY <1>15 DEF GraceOver
<1>16. CASE UNCHANGED sessionVars
  BY <1>16 DEF sessionVars
<1> QED
  BY <1>1, <1>2, <1>3, <1>4, <1>5, <1>6, <1>7, <1>8, <1>9, <1>10, <1>11, <1>12, <1>13, <1>14,
      <1>15, <1>16 DEF SessionNext
\* Losses and excuses only grow.
LEMMA OtherTypesStay ==
  ASSUME TypeInv, [SessionNext]_sessionVars
  PROVE  /\ ender' \in [kind : Enders \union {"none"}, rows : SUBSET Tokens]
         /\ login' \in {"none", "checked", "overtaken"}
         /\ losses' \in 0 .. MaxLosses /\ ended' \in SUBSET Tokens
         /\ excuses' \in SUBSET {"rotation", "login", "lost", "late"}
         /\ excuses \subseteq excuses' /\ losses <= losses' /\ hasLocks' = hasLocks
<1> USE SessionsAssumption DEF TypeInv, SessionTypeOK, TokenTypes, tokenVars
<1>1. ended' \in SUBSET Tokens
  <2>1. ended' \subseteq 1 .. issued' /\ issued' \in 0 .. MaxTokens
    BY NumberedStays, TokenTypesStay DEF Numbered
  <2> QED
    BY <2>1 DEF Tokens
<1>e. ASSUME NEW kind \in Enders, NEW token, End(kind, token)
      PROVE  /\ ender' \in [kind : Enders \union {"none"}, rows : SUBSET Tokens]
             /\ login' \in {"none", "checked", "overtaken"} /\ hasLocks' = hasLocks
             /\ excuses' \in SUBSET {"rotation", "login", "lost", "late"} /\ excuses \subseteq excuses'
  <2>1. Doomed(kind, token) \subseteq Tokens
    BY DEF Doomed, Live, Tokens
  <2>2. ender' = ender \/ ender' = [kind |-> kind, rows |-> Doomed(kind, token)]
    BY <1>e DEF End
  <2>3. login' = login \/ login' = "overtaken"
    BY <1>e DEF End
  <2>4. excuses' = excuses \/ excuses' = excuses \union {"rotation"}
    BY <1>e DEF End
  <2> QED
    BY <1>e, <2>1, <2>2, <2>3, <2>4 DEF End
<1>2. CASE \/ CheckPassword \/ CreateSession
           \/ \E t \in Tabs : Refresh(t) \/ ReadToken(t) \/ Claim(t) \/ Commit(t) \/ Deliver(t) \/ TryAgain(t) \/ Reload(t)
  <2>1. /\ UNCHANGED <<ender, losses, hasLocks>> /\ login' \in {login, "checked", "none"}
        /\ excuses' \in {excuses, excuses \union {"login"}}
    BY <1>2 DEF CheckPassword, CreateSession, Refresh, ReadToken, Claim, Commit, Deliver, TryAgain, Reload
  <2> QED
    BY <1>1, <2>1
<1>3. CASE Logout
  <2>1. "logout" \in Enders
    BY DEF Enders
  <2> QED
    BY <1>1, <1>3, <1>e, <2>1 DEF Logout
<1>4. CASE ResetPassword
  <2>1. "reset" \in Enders
    BY DEF Enders
  <2> QED
    BY <1>1, <1>4, <1>e, <2>1 DEF ResetPassword
<1>5. ASSUME NEW t \in Tabs, EndReused(t)
      PROVE  /\ ender' \in [kind : Enders \union {"none"}, rows : SUBSET Tokens]
             /\ login' \in {"none", "checked", "overtaken"} /\ losses' = losses /\ hasLocks' = hasLocks
             /\ excuses' \in SUBSET {"rotation", "login", "lost", "late"} /\ excuses \subseteq excuses'
  <2>1. "reuse" \in Enders
    BY DEF Enders
  <2> QED
    BY <1>5, <1>e, <2>1 DEF EndReused
<1>6. CASE EndWaiting
  BY <1>1, <1>6 DEF EndWaiting
<1>7. ASSUME NEW t \in Tabs, LoseReply(t)
      PROVE  /\ UNCHANGED <<ender, login, hasLocks>> /\ losses' = losses + 1 /\ losses < MaxLosses
             /\ excuses' \in {excuses, excuses \union {"lost"}}
  BY <1>7 DEF LoseReply
<1>8. ASSUME NEW k \in Tokens, GraceOver(k)
      PROVE  /\ UNCHANGED <<ender, login, hasLocks>>
             /\ losses' = losses \/ (losses' = losses + 1 /\ losses < MaxLosses)
             /\ excuses' \in {excuses, excuses \union {"late"}}
  BY <1>8 DEF GraceOver
<1>9. CASE UNCHANGED sessionVars
  BY <1>1, <1>9 DEF sessionVars
<1>10. losses \in 0 .. MaxLosses /\ MaxLosses \in Nat
  OBVIOUS
<1>11. losses' = losses \/ (losses' = losses + 1 /\ losses < MaxLosses)
  <2>1. CASE \E t \in Tabs : EndReused(t) \/ LoseReply(t)
    BY <1>5, <1>7, <2>1
  <2>2. CASE Logout \/ ResetPassword \/ EndWaiting
    BY <2>2 DEF Logout, ResetPassword, EndWaiting
  <2>3. CASE \E k \in Tokens : GraceOver(k)
    BY <1>8, <2>3
  <2>4. CASE \/ CheckPassword \/ CreateSession
             \/ \E t \in Tabs : Refresh(t) \/ ReadToken(t) \/ Claim(t) \/ Commit(t) \/ Deliver(t) \/ TryAgain(t) \/ Reload(t)
    BY <2>4 DEF CheckPassword, CreateSession, Refresh, ReadToken, Claim, Commit, Deliver, TryAgain, Reload
  <2> QED
    BY <1>9, <2>1, <2>2, <2>3, <2>4 DEF SessionNext, sessionVars
<1>12. losses' \in 0 .. MaxLosses /\ losses <= losses'
  BY <1>10, <1>11
<1>13. /\ ender' \in [kind : Enders \union {"none"}, rows : SUBSET Tokens]
       /\ login' \in {"none", "checked", "overtaken"} /\ hasLocks' = hasLocks
  <2>1. CASE (\E t \in Tabs : LoseReply(t)) \/ (\E k \in Tokens : GraceOver(k))
    BY <1>7, <1>8, <2>1
  <2>2. CASE Logout \/ ResetPassword \/ EndWaiting \/ \E t \in Tabs : EndReused(t)
    BY <1>3, <1>4, <1>5, <1>6, <2>2
  <2> QED
    BY <1>2, <1>9, <2>1, <2>2 DEF SessionNext
<1>14. excuses' \in SUBSET {"rotation", "login", "lost", "late"} /\ excuses \subseteq excuses'
  <2>1. CASE (\E t \in Tabs : LoseReply(t)) \/ (\E k \in Tokens : GraceOver(k))
    BY <1>7, <1>8, <2>1
  <2>2. CASE Logout \/ ResetPassword \/ EndWaiting \/ \E t \in Tabs : EndReused(t)
    BY <1>3, <1>4, <1>5, <1>6, <2>2
  <2> QED
    BY <1>2, <1>9, <2>1, <2>2 DEF SessionNext
<1> QED
  BY <1>1, <1>12, <1>13, <1>14

LEMMA TypeInvStay ==
  ASSUME TypeInv, [SessionNext]_sessionVars
  PROVE  TypeInv'
BY TokenTypesStay, TabTypesStay, NumberedStays, CarriesStay, NewIssuedStays, OtherTypesStay
DEF TypeInv, SessionTypeOK

-----------------------------------------------------------------------------
(* One token of a login is good *)

\* A rotation holds the lock of a token that is good, one rotation of a token at a time.
Rotations ==
  /\ locked \intersect revoked = {}
  /\ \A t \in Tabs : tab[t].at = "commit" => tab[t].sent \in locked
  /\ \A t, u \in Tabs :
       tab[t].at = "commit" /\ tab[u].at = "commit" /\ tab[t].sent = tab[u].sent => t = u

\* Nobody revokes a token whose row is locked but its rotation.
LEMMA LocksRespected ==
  ASSUME TypeInv, Rotations, NEW kind, NEW token, End(kind, token) \/ EndWaiting
  PROVE  locked' = locked /\ locked \intersect revoked' = {}
BY DEF End, EndWaiting, Rotations

LEMMA RotationsStay ==
  ASSUME TypeInv, Rotations, [SessionNext]_sessionVars
  PROVE  Rotations'
<1> USE SessionsAssumption DEF TypeInv, SessionTypeOK, TabTypes, TabRecords, tokenVars, Rotations
<1>1. CASE CheckPassword
  BY <1>1 DEF CheckPassword
<1>2. CASE CreateSession
  BY <1>2 DEF CreateSession, TokenTypes
<1>3. CASE Logout
  <2>1. locked' = locked /\ locked \intersect revoked' = {}
    BY <1>3, LocksRespected DEF Logout
  <2> QED
    BY <1>3, <2>1 DEF Logout
<1>4. CASE ResetPassword
  <2>1. locked' = locked /\ locked \intersect revoked' = {}
    BY <1>4, LocksRespected DEF ResetPassword
  <2> QED
    BY <1>4, <2>1 DEF ResetPassword
<1>5. CASE EndWaiting
  <2>1. locked' = locked /\ locked \intersect revoked' = {}
    BY <1>5, LocksRespected DEF EndWaiting
  <2> QED
    BY <1>5, <2>1 DEF EndWaiting
<1>6. ASSUME NEW t \in Tabs, Refresh(t)
      PROVE  Rotations'
  BY <1>6 DEF Refresh, MayRefresh, Quiet
<1>7. ASSUME NEW t \in Tabs, ReadToken(t)
      PROVE  Rotations'
  BY <1>7 DEF ReadToken, Goto, Reply, InGrace
<1>8. ASSUME NEW t \in Tabs, Claim(t)
      PROVE  Rotations'
  BY <1>8 DEF Claim, Goto, Reply, Claimable
<1>9. ASSUME NEW t \in Tabs, Commit(t)
      PROVE  Rotations'
  BY <1>9 DEF Commit, Retire, TokenTypes, Retire, Carries, InFlight
<1>10. ASSUME NEW t \in Tabs, Deliver(t)
       PROVE  Rotations'
  BY <1>10 DEF Deliver, Goto, Quiet
<1>11. ASSUME NEW t \in Tabs, TryAgain(t)
       PROVE  Rotations'
  <2>1. CASE cookie = NoToken
    BY <1>11, <2>1 DEF TryAgain, Quiet
  <2>2. CASE cookie # NoToken
    <3>1. tab' = [tab EXCEPT ![t] = [Quiet EXCEPT !.at = "sent", !.attempt = 1, !.sent = cookie]]
      BY <1>11, <2>2 DEF TryAgain
    <3>2. UNCHANGED <<locked, revoked>>
      BY <1>11 DEF TryAgain
    <3> QED
      BY <3>1, <3>2, AgainSent
  <2> QED
    BY <2>1, <2>2
<1>12. ASSUME NEW t \in Tabs, LoseReply(t)
       PROVE  Rotations'
  BY <1>12 DEF LoseReply, Quiet
<1>13. ASSUME NEW t \in Tabs, Reload(t)
       PROVE  Rotations'
  BY <1>13 DEF Reload, Quiet
<1>14. ASSUME NEW t \in Tabs, EndReused(t)
       PROVE  Rotations'
  <2>1. locked' = locked /\ locked \intersect revoked' = {}
    BY <1>14, LocksRespected DEF EndReused
  <2> QED
    BY <1>14, <2>1 DEF EndReused, Reply
<1>15. ASSUME NEW k \in Tokens, GraceOver(k)
       PROVE  Rotations'
  BY <1>15 DEF GraceOver
<1>16. CASE UNCHANGED sessionVars
  BY <1>16 DEF sessionVars
<1> QED
  BY <1>1, <1>2, <1>3, <1>4, <1>5, <1>6, <1>7, <1>8, <1>9, <1>10, <1>11, <1>12, <1>13, <1>14,
      <1>15, <1>16 DEF SessionNext

LEMMA OneLiveTokenStays ==
  ASSUME TypeInv, Rotations, OneLiveToken, [SessionNext]_sessionVars
  PROVE  OneLiveToken'
<1> USE SessionsAssumption DEF TypeInv, SessionTypeOK, TokenTypes, Numbered, Tokens, tokenVars, OneLiveToken, Live
<1>1. CASE CheckPassword
  BY <1>1 DEF CheckPassword
<1>2. CASE CreateSession
  <2>1. Live' = Live \union {issued + 1}
    BY <1>2 DEF CreateSession
  <2>2. family' = [family EXCEPT ![issued + 1] = issued + 1] /\ issued \in Nat
    BY <1>2 DEF CreateSession
  <2>3. \A k \in Live : k \in 1 .. issued /\ family[k] \in 1 .. issued
    OBVIOUS
  <2>4. issued + 1 \in Tokens
    BY <1>2 DEF CreateSession
  <2>5. \A k \in Live : family'[k] = family[k] /\ family'[k] # issued + 1
    BY <2>2, <2>3
  <2>6. family'[issued + 1] = issued + 1
    BY <2>2, <2>4
  <2> HIDE DEF Live
  <2> QED
    BY <2>1, <2>5, <2>6
<1>3. CASE Logout
  BY <1>3 DEF Logout, End, Doomed, Families, OfFamily, Live, Numbered
<1>4. CASE ResetPassword
  BY <1>4 DEF ResetPassword, End, Doomed, Families, OfFamily, Live
<1>5. CASE EndWaiting
  BY <1>5 DEF EndWaiting
<1>6. ASSUME NEW t \in Tabs, Refresh(t)
      PROVE  OneLiveToken'
  BY <1>6 DEF Refresh, MayRefresh
<1>7. ASSUME NEW t \in Tabs, ReadToken(t)
      PROVE  OneLiveToken'
  BY <1>7 DEF ReadToken, InGrace
<1>8. ASSUME NEW t \in Tabs, Claim(t)
      PROVE  OneLiveToken'
  BY <1>8 DEF Claim, Claimable
<1>9. ASSUME NEW t \in Tabs, Commit(t)
      PROVE  OneLiveToken'
  <2> DEFINE s == tab[t].sent
  <2>1. s \in Live /\ s \in Tokens
    BY <1>9 DEF Commit, Rotations, Carries, InFlight, TabTypes, TabRecords
  <2>2. Live' = (Live \ {s}) \union {issued + 1}
    BY <1>9, <2>1 DEF Commit, Retire
  <2>3. issued + 1 \in Tokens /\ family' = [family EXCEPT ![issued + 1] = family[s]]
    BY <1>9 DEF Commit
  <2>4. \A k \in Live : k # issued + 1 /\ k \in Tokens
    OBVIOUS
  <2> HIDE DEF s, Live
  <2> QED
    BY <2>1, <2>2, <2>3, <2>4
<1>10. ASSUME NEW t \in Tabs, Deliver(t)
       PROVE  OneLiveToken'
  BY <1>10 DEF Deliver
<1>11. ASSUME NEW t \in Tabs, TryAgain(t)
       PROVE  OneLiveToken'
  BY <1>11 DEF TryAgain
<1>12. ASSUME NEW t \in Tabs, LoseReply(t)
       PROVE  OneLiveToken'
  BY <1>12 DEF LoseReply
<1>13. ASSUME NEW t \in Tabs, Reload(t)
       PROVE  OneLiveToken'
  BY <1>13 DEF Reload
<1>14. ASSUME NEW t \in Tabs, EndReused(t)
       PROVE  OneLiveToken'
  BY <1>14 DEF EndReused, End, Doomed, Families, OfFamily, Live
<1>15. ASSUME NEW k \in Tokens, GraceOver(k)
       PROVE  OneLiveToken'
  BY <1>15 DEF GraceOver
<1>16. CASE UNCHANGED sessionVars
  BY <1>16 DEF sessionVars
<1> QED
  BY <1>1, <1>2, <1>3, <1>4, <1>5, <1>6, <1>7, <1>8, <1>9, <1>10, <1>11, <1>12, <1>13, <1>14,
      <1>15, <1>16 DEF SessionNext
-----------------------------------------------------------------------------
(* What was ended stays ended *)

\* Without an excuse no UPDATE is waiting, and no token of an ended login is good.
EndInv ==
  /\ ender.kind # "none" => "rotation" \in excuses
  /\ excuses \intersect {"rotation", "login"} = {} => \A k \in Live : family[k] \notin ended

\* A revoked token was replaced or its login was ended, also the rows an UPDATE waits for.
RevokedInv ==
  /\ \A k \in revoked : k \in replaced \/ family[k] \in ended
  /\ \A k \in ender.rows : family[k] \in ended

\* An UPDATE at once leaves no good token in the logins it ends; one that waits is excused.
LEMMA EndEnds ==
  ASSUME TypeInv, NEW kind \in Enders, NEW token, kind = "reset" \/ token \in 1 .. issued, End(kind, token)
  PROVE  /\ \/ "rotation" \in excuses'
            \/ UNCHANGED <<ender, excuses>> /\ \A k \in Live' : k \in Live /\ (family[k] \in ended' => family[k] \in ended)
         /\ \A k \in revoked' : k \in revoked \/ (k \in Live /\ family[k] \in ended')
         /\ \A k \in ender'.rows : k \in ender.rows \/ (k \in Live /\ family[k] \in ended')
         /\ ended \subseteq ended' /\ replaced' = replaced /\ family' = family /\ issued' = issued
<1> DEFINE rows == Doomed(kind, token)
           families == IF kind = "reset" THEN Families(1 .. issued) ELSE {family[token]}
<1>1. rows \subseteq Live /\ \A k \in rows : family[k] \in families
  BY DEF Doomed, Families, Live, OfFamily
<1>2. \A k \in Live \ rows : family[k] \notin families
  BY DEF Doomed, Families, Live, OfFamily, Enders
<1>3. /\ ended' = ended \union families /\ replaced' = replaced /\ family' = family /\ issued' = issued
      /\ \/ rows \intersect locked = {} /\ revoked' = revoked \union rows /\ UNCHANGED ender
         \/ rows \intersect locked # {} /\ ender' = [kind |-> kind, rows |-> rows] /\ revoked' = revoked
      /\ excuses' = excuses \union (IF rows \intersect locked = {} THEN {} ELSE {"rotation"})
  BY DEF End
<1> HIDE DEF rows, families
<1>4. CASE rows \intersect locked = {}
  <2>1. excuses' = excuses
    BY <1>3, <1>4
  <2>2. \A k \in Live' : k \in Live \ rows
    BY <1>3, <1>4 DEF Live
  <2> QED
    BY <1>1, <1>2, <1>3, <1>4, <2>1, <2>2
<1>5. CASE rows \intersect locked # {}
  BY <1>1, <1>3, <1>5
<1> QED
  BY <1>4, <1>5

LEMMA EndInvStays ==
  ASSUME TypeInv, Rotations, EndInv, [SessionNext]_sessionVars
  PROVE  EndInv'
<1> USE SessionsAssumption DEF TypeInv, SessionTypeOK, TokenTypes, Tokens, tokenVars, EndInv
<1>n. \A k \in 1 .. issued : k # issued + 1 /\ k \in Tokens
  OBVIOUS
<1>e. ASSUME NEW kind \in Enders, NEW token, kind = "reset" \/ token \in 1 .. issued, End(kind, token)
      PROVE  EndInv'
  BY <1>e, EndEnds
<1>k. {"logout", "reset", "reuse"} \subseteq Enders
  BY DEF Enders
<1>1. CASE CheckPassword
  BY <1>1 DEF CheckPassword, Live
<1>2. CASE CreateSession
  <2>1. Live' = Live \union {issued + 1} /\ \A k \in Live : k \in 1 .. issued
    BY <1>2 DEF CreateSession, Live
  <2>2. family' = [family EXCEPT ![issued + 1] = issued + 1] /\ issued + 1 \in Tokens /\ ender' = ender
    BY <1>2 DEF CreateSession
  <2>3. CASE login = "overtaken"
    BY <1>2, <2>2, <2>3 DEF CreateSession
  <2>4. CASE login # "overtaken"
    <3>1. ended' = ended /\ excuses' = excuses
      BY <1>2, <2>4 DEF CreateSession
    <3>2. issued + 1 \notin ended
      BY DEF Numbered
    <3> QED
      BY <1>n, <2>1, <2>2, <3>1, <3>2
  <2> QED
    BY <2>3, <2>4
<1>3. CASE Logout
  <2>1. cookie \in 1 .. issued /\ "logout" \in Enders
    BY <1>3, <1>k DEF Logout, Numbered
  <2> QED
    BY <1>3, <2>1, <1>e DEF Logout
<1>4. CASE ResetPassword
  <2>1. "reset" \in Enders
    BY <1>k
  <2> QED
    BY <1>4, <2>1, <1>e DEF ResetPassword
<1>5. CASE EndWaiting
  BY <1>5 DEF EndWaiting, Live
<1>6. ASSUME NEW t \in Tabs, Refresh(t)
      PROVE  EndInv'
  BY <1>6 DEF Refresh, MayRefresh, Live
<1>7. ASSUME NEW t \in Tabs, ReadToken(t)
      PROVE  EndInv'
  BY <1>7 DEF ReadToken, InGrace, Live
<1>8. ASSUME NEW t \in Tabs, Claim(t)
      PROVE  EndInv'
  BY <1>8 DEF Claim, Claimable, Live
<1>9. ASSUME NEW t \in Tabs, Commit(t)
      PROVE  EndInv'
  <2> DEFINE s == tab[t].sent
  <2>1. s \in Live /\ s \in Tokens
    BY <1>9 DEF Commit, Rotations, Carries, InFlight, TabTypes, TabRecords, Live
  <2>2. Live' = (Live \ {s}) \union {issued + 1} /\ \A k \in Live : k \in 1 .. issued
    BY <1>9, <2>1 DEF Commit, Retire, Live
  <2>3. issued + 1 \in Tokens /\ family' = [family EXCEPT ![issued + 1] = family[s]]
    BY <1>9 DEF Commit
  <2>4. UNCHANGED <<ender, excuses, ended>>
    BY <1>9 DEF Commit
  <2> HIDE DEF s
  <2> QED
    BY <1>n, <2>1, <2>2, <2>3, <2>4
<1>10. ASSUME NEW t \in Tabs, Deliver(t)
       PROVE  EndInv'
  BY <1>10 DEF Deliver, Live
<1>11. ASSUME NEW t \in Tabs, TryAgain(t)
       PROVE  EndInv'
  BY <1>11 DEF TryAgain, Live
<1>12. ASSUME NEW t \in Tabs, LoseReply(t)
       PROVE  EndInv'
  BY <1>12 DEF LoseReply, Live
<1>13. ASSUME NEW t \in Tabs, Reload(t)
       PROVE  EndInv'
  BY <1>13 DEF Reload, Live
<1>14. ASSUME NEW t \in Tabs, EndReused(t)
       PROVE  EndInv'
  <2>1. tab[t].sent \in 1 .. issued /\ "reuse" \in Enders
    BY <1>14, <1>k DEF EndReused, Carries, InFlight
  <2> QED
    BY <1>14, <2>1, <1>e DEF EndReused
<1>15. ASSUME NEW k \in Tokens, GraceOver(k)
       PROVE  EndInv'
  BY <1>15 DEF GraceOver, Live
<1>16. CASE UNCHANGED sessionVars
  BY <1>16 DEF sessionVars, Live
<1> QED
  BY <1>1, <1>2, <1>3, <1>4, <1>5, <1>6, <1>7, <1>8, <1>9, <1>10, <1>11, <1>12, <1>13, <1>14,
      <1>15, <1>16 DEF SessionNext

LEMMA RevokedInvStays ==
  ASSUME TypeInv, RevokedInv, [SessionNext]_sessionVars
  PROVE  RevokedInv'
<1> USE SessionsAssumption DEF TypeInv, SessionTypeOK, TokenTypes, Tokens, tokenVars, RevokedInv
<1>n. \A k \in 1 .. issued : k # issued + 1 /\ k \in Tokens
  OBVIOUS
<1>e. ASSUME NEW kind \in Enders, NEW token, kind = "reset" \/ token \in 1 .. issued, End(kind, token)
      PROVE  RevokedInv'
  BY <1>e, EndEnds
<1>k. {"logout", "reset", "reuse"} \subseteq Enders
  BY DEF Enders
<1>1. CASE CheckPassword
  BY <1>1 DEF CheckPassword
<1>2. CASE CreateSession
  <2>1. family' = [family EXCEPT ![issued + 1] = issued + 1] /\ ended \subseteq ended'
    BY <1>2 DEF CreateSession
  <2>2. UNCHANGED <<revoked, replaced, ender>>
    BY <1>2 DEF CreateSession
  <2> QED
    BY <1>n, <2>1, <2>2 DEF Numbered
<1>3. CASE Logout
  <2>1. cookie \in 1 .. issued /\ "logout" \in Enders
    BY <1>3, <1>k DEF Logout, Numbered
  <2> QED
    BY <1>3, <2>1, <1>e DEF Logout
<1>4. CASE ResetPassword
  <2>1. "reset" \in Enders
    BY <1>k
  <2> QED
    BY <1>4, <2>1, <1>e DEF ResetPassword
<1>5. CASE EndWaiting
  BY <1>5 DEF EndWaiting
<1>6. ASSUME NEW t \in Tabs, Refresh(t)
      PROVE  RevokedInv'
  BY <1>6 DEF Refresh, MayRefresh
<1>7. ASSUME NEW t \in Tabs, ReadToken(t)
      PROVE  RevokedInv'
  BY <1>7 DEF ReadToken, InGrace
<1>8. ASSUME NEW t \in Tabs, Claim(t)
      PROVE  RevokedInv'
  BY <1>8 DEF Claim, Claimable
<1>9. ASSUME NEW t \in Tabs, Commit(t)
      PROVE  RevokedInv'
  <2>1. family' = [family EXCEPT ![issued + 1] = family[tab[t].sent]]
    BY <1>9 DEF Commit
  <2>2. /\ revoked' = revoked \union {tab[t].sent} /\ replaced' = replaced \union {tab[t].sent}
        /\ UNCHANGED <<ender, ended>>
    BY <1>9 DEF Commit, Retire
  <2> QED
    BY <1>n, <2>1, <2>2 DEF Numbered
<1>10. ASSUME NEW t \in Tabs, Deliver(t)
       PROVE  RevokedInv'
  BY <1>10 DEF Deliver
<1>11. ASSUME NEW t \in Tabs, TryAgain(t)
       PROVE  RevokedInv'
  BY <1>11 DEF TryAgain
<1>12. ASSUME NEW t \in Tabs, LoseReply(t)
       PROVE  RevokedInv'
  BY <1>12 DEF LoseReply
<1>13. ASSUME NEW t \in Tabs, Reload(t)
       PROVE  RevokedInv'
  BY <1>13 DEF Reload
<1>14. ASSUME NEW t \in Tabs, EndReused(t)
       PROVE  RevokedInv'
  <2>1. tab[t].sent \in 1 .. issued /\ "reuse" \in Enders
    BY <1>14, <1>k DEF EndReused, Carries, InFlight
  <2> QED
    BY <1>14, <2>1, <1>e DEF EndReused
<1>15. ASSUME NEW k \in Tokens, GraceOver(k)
       PROVE  RevokedInv'
  BY <1>15 DEF GraceOver
<1>16. CASE UNCHANGED sessionVars
  BY <1>16 DEF sessionVars
<1> QED
  BY <1>1, <1>2, <1>3, <1>4, <1>5, <1>6, <1>7, <1>8, <1>9, <1>10, <1>11, <1>12, <1>13, <1>14,
      <1>15, <1>16 DEF SessionNext

-----------------------------------------------------------------------------
(* The answer of a rotation brings a token that nobody has used *)

Fetched(t) == tab[t].at = "answer" /\ tab[t].answer = "ok"

\* The token on its way to the browser is new to the browser, to the requests and to the other
\* answers, and was not rotated.
FetchedInv ==
  \A t \in Tabs : Fetched(t) =>
    /\ tab[t].new # cookie /\ tab[t].new \notin replaced
    /\ \A u \in Tabs : tab[u].sent # tab[t].new
    /\ \A u \in Tabs : Fetched(u) /\ tab[u].new = tab[t].new => u = t

LEMMA FetchedInvStays ==
  ASSUME TypeInv, FetchedInv, [SessionNext]_sessionVars
  PROVE  FetchedInv'
<1> USE SessionsAssumption DEF TypeInv, SessionTypeOK, TabTypes, TabRecords, tokenVars, FetchedInv, Fetched
<1>n. /\ issued \in Nat /\ replaced \subseteq 1 .. issued /\ issued + 1 \notin replaced
      /\ \A k \in 1 .. issued : k # NoToken /\ k # issued + 1 /\ issued + 1 # NoToken
      /\ cookie # issued + 1 /\ \A t \in Tabs : tab[t].sent # issued + 1
      /\ \A t \in Tabs : Fetched(t) => tab[t].new \in 1 .. issued
  BY DEF TokenTypes, Numbered, Carries, InFlight, NewIssued
<1>1. CASE CheckPassword
  BY <1>1, <1>n DEF CheckPassword
<1>2. CASE CreateSession
  BY <1>2, <1>n DEF CreateSession, TokenTypes
<1>3. CASE Logout
  BY <1>3, <1>n DEF Logout, End, TokenTypes, Tokens
<1>4. CASE ResetPassword
  BY <1>4, <1>n DEF ResetPassword, End
<1>5. CASE EndWaiting
  BY <1>5, <1>n DEF EndWaiting
<1>6. ASSUME NEW t \in Tabs, Refresh(t)
      PROVE  FetchedInv'
  BY <1>6, <1>n DEF Refresh, MayRefresh, Quiet
<1>7. ASSUME NEW t \in Tabs, ReadToken(t)
      PROVE  FetchedInv'
  BY <1>7, <1>n DEF ReadToken, Goto, Reply, InGrace
<1>8. ASSUME NEW t \in Tabs, Claim(t)
      PROVE  FetchedInv'
  BY <1>8, <1>n DEF Claim, Goto, Reply, Claimable
<1>9. ASSUME NEW t \in Tabs, Commit(t)
      PROVE  FetchedInv'
  BY <1>9, <1>n DEF Commit, Retire
<1>10. ASSUME NEW t \in Tabs, Deliver(t)
       PROVE  FetchedInv'
  BY <1>10, <1>n DEF Deliver, Goto, Quiet
<1>11. ASSUME NEW t \in Tabs, TryAgain(t)
       PROVE  FetchedInv'
  <2>1. CASE cookie = NoToken
    BY <1>11, <2>1 DEF TryAgain, Quiet
  <2>2. CASE cookie # NoToken
    <3>1. tab' = [tab EXCEPT ![t] = [Quiet EXCEPT !.at = "sent", !.attempt = 1, !.sent = cookie]]
      BY <1>11, <2>2 DEF TryAgain
    <3>2. UNCHANGED <<cookie, replaced>>
      BY <1>11 DEF TryAgain
    <3> QED
      BY <3>1, <3>2, AgainSent
  <2> QED
    BY <2>1, <2>2
<1>12. ASSUME NEW t \in Tabs, LoseReply(t)
       PROVE  FetchedInv'
  BY <1>12, <1>n DEF LoseReply, Quiet
<1>13. ASSUME NEW t \in Tabs, Reload(t)
       PROVE  FetchedInv'
  BY <1>13, <1>n DEF Reload, Quiet
<1>14. ASSUME NEW t \in Tabs, EndReused(t)
       PROVE  FetchedInv'
  BY <1>14, <1>n DEF EndReused, End, Reply
<1>15. ASSUME NEW k \in Tokens, GraceOver(k)
       PROVE  FetchedInv'
  BY <1>15, <1>n DEF GraceOver
<1>16. CASE UNCHANGED sessionVars
  BY <1>16, <1>n DEF sessionVars
<1> QED
  BY <1>1, <1>2, <1>3, <1>4, <1>5, <1>6, <1>7, <1>8, <1>9, <1>10, <1>11, <1>12, <1>13, <1>14,
      <1>15, <1>16 DEF SessionNext

-----------------------------------------------------------------------------
(* The user's own tabs are not taken for somebody else *)

\* Rotated, in a login that is open.
Spent(k) == k \in replaced /\ family[k] \notin ended

\* Only the commit of its rotation makes a token spent.
LEMMA OnlyCommitsSpend ==
  ASSUME TypeInv, [SessionNext]_sessionVars
  PROVE  /\ ended \subseteq ended' /\ \A k \in 1 .. issued : family'[k] = family[k]
         /\ replaced' = replaced \/ \E t \in Tabs : Commit(t) /\ replaced' = replaced \union {tab[t].sent}
<1> USE DEF TypeInv, SessionTypeOK, TokenTypes, Tokens
<1>1. CASE CheckPassword
  BY <1>1 DEF CheckPassword, tokenVars
<1>2. CASE CreateSession
  BY <1>2 DEF CreateSession
<1>3. ASSUME NEW kind, NEW token, End(kind, token)
      PROVE  UNCHANGED <<family, replaced>> /\ ended \subseteq ended'
  BY <1>3 DEF End
<1>4. CASE Logout \/ ResetPassword \/ EndWaiting \/ \E t \in Tabs : EndReused(t)
  BY <1>3, <1>4 DEF Logout, ResetPassword, EndWaiting, EndReused
<1>5. ASSUME NEW t \in Tabs, Refresh(t) \/ ReadToken(t) \/ Claim(t) \/ Deliver(t) \/ TryAgain(t) \/ LoseReply(t) \/ Reload(t)
      PROVE  UNCHANGED <<family, replaced, ended>>
  BY <1>5 DEF Refresh, ReadToken, Claim, Deliver, TryAgain, LoseReply, Reload, tokenVars
<1>6. ASSUME NEW t \in Tabs, Commit(t)
      PROVE  /\ ended' = ended /\ replaced' = replaced \union {tab[t].sent}
             /\ \A k \in 1 .. issued : family'[k] = family[k]
  <2>1. \A k \in 1 .. issued : k # issued + 1 /\ k \in Tokens
    BY SessionsAssumption
  <2> QED
    BY <1>6, <2>1 DEF Commit
<1>7. ASSUME NEW k \in Tokens, GraceOver(k)
      PROVE  UNCHANGED <<family, replaced, ended>>
  BY <1>7 DEF GraceOver
<1>8. CASE UNCHANGED sessionVars
  BY <1>8 DEF sessionVars
<1> QED
  BY <1>1, <1>2, <1>4, <1>5, <1>6, <1>7, <1>8 DEF SessionNext

\* Without a loss the answer of the rotation is still under way when its old token is spent and
\* the browser holds it, so that its grace period is not over.
LossesExcuse == losses = 0 => excuses \intersect {"lost", "late"} = {}
CookieInGrace ==
  excuses \intersect {"lost", "late"} = {} /\ cookie # NoToken /\ Spent(cookie) =>
    cookie \in recent /\ \E t \in Tabs : Fetched(t) /\ tab[t].sent = cookie
SentInGrace ==
  excuses \intersect {"lost", "late"} = {} =>
    \A t \in Tabs : tab[t].at = "sent" /\ Spent(tab[t].sent) => tab[t].sent \in recent

LEMMA LossesExcuseStays ==
  ASSUME TypeInv, LossesExcuse, [SessionNext]_sessionVars
  PROVE  LossesExcuse'
<1> USE DEF TypeInv, SessionTypeOK, LossesExcuse
<1>1. CASE CheckPassword \/ CreateSession \/ EndWaiting
  BY <1>1 DEF CheckPassword, CreateSession, EndWaiting
<1>2. CASE Logout \/ ResetPassword \/ \E t \in Tabs : EndReused(t)
  <2>1. losses' = losses /\ excuses' \subseteq excuses \union {"rotation"}
    BY <1>2 DEF Logout, ResetPassword, EndReused, End
  <2> QED
    BY <2>1
<1>3. CASE \E t \in Tabs : Refresh(t) \/ ReadToken(t) \/ Claim(t) \/ Commit(t) \/ Deliver(t) \/ TryAgain(t) \/ Reload(t)
  BY <1>3 DEF Refresh, ReadToken, Claim, Commit, Deliver, TryAgain, Reload
<1>4. CASE \E t \in Tabs : LoseReply(t)
  BY <1>4 DEF LoseReply
<1>5. CASE \E k \in Tokens : GraceOver(k)
  BY <1>5 DEF GraceOver
<1>6. CASE UNCHANGED sessionVars
  BY <1>6 DEF sessionVars
<1> QED
  BY <1>1, <1>2, <1>3, <1>4, <1>5, <1>6 DEF SessionNext

LEMMA StepFacts ==
  ASSUME TypeInv, [SessionNext]_sessionVars
  PROVE /\ excuses \subseteq excuses' /\ (cookie # NoToken => cookie \in 1 .. issued)
        /\ ended \subseteq ended' /\ \A k \in 1 .. issued : family'[k] = family[k]
        /\ issued + 1 \notin replaced /\ \A u \in Tabs : InFlight(u) => tab[u].sent \in 1 .. issued
        /\ NoToken \notin 1 .. issued
<1>1. issued \in Nat /\ replaced \subseteq 1 .. issued /\ (cookie # NoToken => cookie \in 1 .. issued)
  BY SessionsAssumption DEF TypeInv, SessionTypeOK, TokenTypes, Tokens, Numbered
<1>2. \A u \in Tabs : InFlight(u) => tab[u].sent \in 1 .. issued
  BY DEF TypeInv, Carries
<1> QED
  BY <1>1, <1>2, SessionsAssumption, OtherTypesStay, OnlyCommitsSpend

LEMMA CookieInGraceStays ==
  ASSUME TypeInv, FetchedInv, CookieInGrace, [SessionNext]_sessionVars
  PROVE  CookieInGrace'
<1> USE DEF TypeInv, SessionTypeOK, TabTypes, TabRecords, tokenVars, CookieInGrace, Spent, Fetched
<1>n. /\ excuses \subseteq excuses' /\ (cookie # NoToken => cookie \in 1 .. issued)
      /\ ended \subseteq ended' /\ \A k \in 1 .. issued : family'[k] = family[k]
      /\ issued + 1 \notin replaced /\ \A u \in Tabs : InFlight(u) => tab[u].sent \in 1 .. issued
      /\ NoToken \notin 1 .. issued
  BY StepFacts
<1>1. CASE CheckPassword
  BY <1>1, <1>n DEF CheckPassword
<1>2. CASE CreateSession
  BY <1>2, <1>n DEF CreateSession
<1>3. CASE Logout
  BY <1>3, <1>n DEF Logout, End
<1>4. CASE ResetPassword
  BY <1>4, <1>n DEF ResetPassword, End
<1>5. CASE EndWaiting
  BY <1>5, <1>n DEF EndWaiting
<1>6. ASSUME NEW t \in Tabs, Refresh(t)
      PROVE  CookieInGrace'
  BY <1>6, <1>n DEF Refresh, MayRefresh, Quiet
<1>7. ASSUME NEW t \in Tabs, ReadToken(t)
      PROVE  CookieInGrace'
  BY <1>7, <1>n DEF ReadToken, Goto, Reply, InGrace
<1>8. ASSUME NEW t \in Tabs, Claim(t)
      PROVE  CookieInGrace'
  BY <1>8, <1>n DEF Claim, Goto, Reply, Claimable
<1>9. ASSUME NEW t \in Tabs, Commit(t)
      PROVE  CookieInGrace'
  BY <1>9, <1>n DEF Commit, Retire
<1>10. ASSUME NEW t \in Tabs, Deliver(t)
       PROVE  CookieInGrace'
  BY <1>10, <1>n DEF Deliver, Goto, Quiet, FetchedInv
<1>11. ASSUME NEW t \in Tabs, TryAgain(t)
       PROVE  CookieInGrace'
  <2>1. CASE cookie = NoToken
    BY <1>11, <1>n, <2>1 DEF TryAgain, Quiet
  <2>2. CASE cookie # NoToken
    <3>1. tab' = [tab EXCEPT ![t] = [Quiet EXCEPT !.at = "sent", !.attempt = 1, !.sent = cookie]]
      BY <1>11, <2>2 DEF TryAgain
    <3>2. tab[t].at = "pause" /\ UNCHANGED <<cookie, replaced, ended, family, recent>>
      BY <1>11 DEF TryAgain, tokenVars
    <3> QED
      BY <1>n, <2>2, <3>1, <3>2, AgainSent
  <2> QED
    BY <2>1, <2>2
<1>12. ASSUME NEW t \in Tabs, LoseReply(t)
       PROVE  CookieInGrace'
  BY <1>12, <1>n DEF LoseReply, Quiet
<1>13. ASSUME NEW t \in Tabs, Reload(t)
       PROVE  CookieInGrace'
  BY <1>13, <1>n DEF Reload, Quiet
<1>14. ASSUME NEW t \in Tabs, EndReused(t)
       PROVE  CookieInGrace'
  BY <1>14, <1>n DEF EndReused, End, Reply
<1>15. ASSUME NEW k \in Tokens, GraceOver(k)
       PROVE  CookieInGrace'
  BY <1>15, <1>n DEF GraceOver, InFlight
<1>16. CASE UNCHANGED sessionVars
  BY <1>16, <1>n DEF sessionVars
<1> QED
  BY <1>1, <1>2, <1>3, <1>4, <1>5, <1>6, <1>7, <1>8, <1>9, <1>10, <1>11, <1>12, <1>13, <1>14,
      <1>15, <1>16 DEF SessionNext

LEMMA SentInGraceStays ==
  ASSUME TypeInv, CookieInGrace, SentInGrace, [SessionNext]_sessionVars
  PROVE  SentInGrace'
<1> USE DEF TypeInv, SessionTypeOK, TabTypes, TabRecords, tokenVars, SentInGrace, Spent, InFlight
<1>n. /\ excuses \subseteq excuses' /\ (cookie # NoToken => cookie \in 1 .. issued)
      /\ ended \subseteq ended' /\ \A k \in 1 .. issued : family'[k] = family[k]
      /\ issued + 1 \notin replaced /\ \A u \in Tabs : InFlight(u) => tab[u].sent \in 1 .. issued
      /\ NoToken \notin 1 .. issued
  BY StepFacts
<1>1. CASE CheckPassword
  BY <1>1, <1>n DEF CheckPassword
<1>2. CASE CreateSession
  BY <1>2, <1>n DEF CreateSession
<1>3. CASE Logout
  BY <1>3, <1>n DEF Logout, End
<1>4. CASE ResetPassword
  BY <1>4, <1>n DEF ResetPassword, End
<1>5. CASE EndWaiting
  BY <1>5, <1>n DEF EndWaiting
<1>6. ASSUME NEW t \in Tabs, Refresh(t)
      PROVE  SentInGrace'
  BY <1>6, <1>n DEF Refresh, MayRefresh, Quiet, CookieInGrace
<1>7. ASSUME NEW t \in Tabs, ReadToken(t)
      PROVE  SentInGrace'
  BY <1>7, <1>n DEF ReadToken, Goto, Reply, InGrace
<1>8. ASSUME NEW t \in Tabs, Claim(t)
      PROVE  SentInGrace'
  BY <1>8, <1>n DEF Claim, Goto, Reply, Claimable
<1>9. ASSUME NEW t \in Tabs, Commit(t)
      PROVE  SentInGrace'
  BY <1>9, <1>n DEF Commit, Retire
<1>10. ASSUME NEW t \in Tabs, Deliver(t)
       PROVE  SentInGrace'
  BY <1>10, <1>n DEF Deliver, Goto, Quiet
<1>11. ASSUME NEW t \in Tabs, TryAgain(t)
       PROVE  SentInGrace'
  <2>1. CASE cookie = NoToken
    BY <1>11, <1>n, <2>1 DEF TryAgain, Quiet
  <2>2. CASE cookie # NoToken
    <3>1. tab' = [tab EXCEPT ![t] = [Quiet EXCEPT !.at = "sent", !.attempt = 1, !.sent = cookie]]
      BY <1>11, <2>2 DEF TryAgain
    <3>2. tab[t].at = "pause" /\ UNCHANGED <<cookie, replaced, ended, family, recent>>
      BY <1>11 DEF TryAgain, tokenVars
    <3> QED
      BY <1>n, <2>2, <3>1, <3>2, AgainSent DEF CookieInGrace
  <2> QED
    BY <2>1, <2>2
<1>12. ASSUME NEW t \in Tabs, LoseReply(t)
       PROVE  SentInGrace'
  BY <1>12, <1>n DEF LoseReply, Quiet
<1>13. ASSUME NEW t \in Tabs, Reload(t)
       PROVE  SentInGrace'
  BY <1>13, <1>n DEF Reload, Quiet
<1>14. ASSUME NEW t \in Tabs, EndReused(t)
       PROVE  SentInGrace'
  BY <1>14, <1>n DEF EndReused, End, Reply
<1>15. ASSUME NEW k \in Tokens, GraceOver(k)
       PROVE  SentInGrace'
  BY <1>15, <1>n DEF GraceOver
<1>16. CASE UNCHANGED sessionVars
  BY <1>16, <1>n DEF sessionVars
<1> QED
  BY <1>1, <1>2, <1>3, <1>4, <1>5, <1>6, <1>7, <1>8, <1>9, <1>10, <1>11, <1>12, <1>13, <1>14,
      <1>15, <1>16 DEF SessionNext

LEMMA NoFalseReuseStays ==
  ASSUME TypeInv, RevokedInv, SentInGrace, NoFalseReuse, [SessionNext]_sessionVars
  PROVE  NoFalseReuse'
<1> USE DEF TypeInv, SessionTypeOK, TabTypes, TabRecords, tokenVars, NoFalseReuse, InFlight
<1>n. /\ excuses \subseteq excuses' /\ (cookie # NoToken => cookie \in 1 .. issued)
      /\ ended \subseteq ended' /\ \A k \in 1 .. issued : family'[k] = family[k]
      /\ issued + 1 \notin replaced /\ \A u \in Tabs : InFlight(u) => tab[u].sent \in 1 .. issued
      /\ NoToken \notin 1 .. issued
  BY StepFacts
<1>1. CASE CheckPassword
  BY <1>1, <1>n DEF CheckPassword
<1>2. CASE CreateSession
  BY <1>2, <1>n DEF CreateSession
<1>3. CASE Logout
  BY <1>3, <1>n DEF Logout, End
<1>4. CASE ResetPassword
  BY <1>4, <1>n DEF ResetPassword, End
<1>5. CASE EndWaiting
  BY <1>5, <1>n DEF EndWaiting
<1>6. ASSUME NEW t \in Tabs, Refresh(t)
      PROVE  NoFalseReuse'
  BY <1>6, <1>n DEF Refresh, MayRefresh, Quiet
<1>7. ASSUME NEW t \in Tabs, ReadToken(t)
      PROVE  NoFalseReuse'
  BY <1>7, <1>n DEF ReadToken, Goto, Reply, InGrace, SentInGrace, RevokedInv, Spent
<1>8. ASSUME NEW t \in Tabs, Claim(t)
      PROVE  NoFalseReuse'
  BY <1>8, <1>n DEF Claim, Goto, Reply, Claimable
<1>9. ASSUME NEW t \in Tabs, Commit(t)
      PROVE  NoFalseReuse'
  BY <1>9, <1>n DEF Commit, Retire
<1>10. ASSUME NEW t \in Tabs, Deliver(t)
       PROVE  NoFalseReuse'
  BY <1>10, <1>n DEF Deliver, Goto, Quiet
<1>11. ASSUME NEW t \in Tabs, TryAgain(t)
       PROVE  NoFalseReuse'
  <2>1. CASE cookie = NoToken
    BY <1>11, <1>n, <2>1 DEF TryAgain, Quiet
  <2>2. CASE cookie # NoToken
    <3>1. tab' = [tab EXCEPT ![t] = [Quiet EXCEPT !.at = "sent", !.attempt = 1, !.sent = cookie]]
      BY <1>11, <2>2 DEF TryAgain
    <3>2. tab[t].at = "pause" /\ UNCHANGED <<ended, family>>
      BY <1>11 DEF TryAgain, tokenVars
    <3> QED
      BY <1>n, <2>2, <3>1, <3>2, AgainSent
  <2> QED
    BY <2>1, <2>2
<1>12. ASSUME NEW t \in Tabs, LoseReply(t)
       PROVE  NoFalseReuse'
  BY <1>12, <1>n DEF LoseReply, Quiet
<1>13. ASSUME NEW t \in Tabs, Reload(t)
       PROVE  NoFalseReuse'
  BY <1>13, <1>n DEF Reload, Quiet
<1>14. ASSUME NEW t \in Tabs, EndReused(t)
       PROVE  NoFalseReuse'
  BY <1>14, <1>n DEF EndReused, End, Reply
<1>15. ASSUME NEW k \in Tokens, GraceOver(k)
       PROVE  NoFalseReuse'
  BY <1>15, <1>n DEF GraceOver
<1>16. CASE UNCHANGED sessionVars
  BY <1>16, <1>n DEF sessionVars
<1> QED
  BY <1>1, <1>2, <1>3, <1>4, <1>5, <1>6, <1>7, <1>8, <1>9, <1>10, <1>11, <1>12, <1>13, <1>14,
      <1>15, <1>16 DEF SessionNext

-----------------------------------------------------------------------------
(* A tab that is signed out is right when the tabs take turns *)

\* With navigator.locks one tab refreshes at a time.
TabsTakeTurns == hasLocks => \A t, u \in Tabs : InFlight(t) /\ InFlight(u) => t = u

\* Then no request carries a token that another tab has had rotated.
NoneSpentUnderLock ==
  hasLocks /\ losses = 0 =>
    \A t \in Tabs : tab[t].at \in {"sent", "claim"} => ~Spent(tab[t].sent)

LEMMA TabsTakeTurnsStay ==
  ASSUME TypeInv, TabsTakeTurns, [SessionNext]_sessionVars
  PROVE  TabsTakeTurns'
<1> USE DEF TypeInv, SessionTypeOK, TabTypes, TabRecords, tokenVars, TabsTakeTurns, InFlight
<1>n. hasLocks' = hasLocks
  BY OtherTypesStay
<1>1. CASE CheckPassword
  BY <1>1, <1>n DEF CheckPassword
<1>2. CASE CreateSession
  BY <1>2, <1>n DEF CreateSession
<1>3. CASE Logout
  BY <1>3, <1>n DEF Logout, End
<1>4. CASE ResetPassword
  BY <1>4, <1>n DEF ResetPassword, End
<1>5. CASE EndWaiting
  BY <1>5, <1>n DEF EndWaiting
<1>6. ASSUME NEW t \in Tabs, Refresh(t)
      PROVE  TabsTakeTurns'
  BY <1>6, <1>n DEF Refresh, MayRefresh, Quiet, MayRefresh
<1>7. ASSUME NEW t \in Tabs, ReadToken(t)
      PROVE  TabsTakeTurns'
  BY <1>7, <1>n DEF ReadToken, Goto, Reply, InGrace
<1>8. ASSUME NEW t \in Tabs, Claim(t)
      PROVE  TabsTakeTurns'
  BY <1>8, <1>n DEF Claim, Goto, Reply, Claimable
<1>9. ASSUME NEW t \in Tabs, Commit(t)
      PROVE  TabsTakeTurns'
  BY <1>9, <1>n DEF Commit, Retire
<1>10. ASSUME NEW t \in Tabs, Deliver(t)
       PROVE  TabsTakeTurns'
  BY <1>10, <1>n DEF Deliver, Goto, Quiet
<1>11. ASSUME NEW t \in Tabs, TryAgain(t)
       PROVE  TabsTakeTurns'
  <2>1. CASE cookie = NoToken
    BY <1>11, <1>n, <2>1 DEF TryAgain, Quiet
  <2>2. CASE cookie # NoToken
    <3>1. tab' = [tab EXCEPT ![t] = [Quiet EXCEPT !.at = "sent", !.attempt = 1, !.sent = cookie]]
      BY <1>11, <2>2 DEF TryAgain
    <3>2. tab[t].at = "pause" /\ UNCHANGED <<hasLocks>>
      BY <1>11 DEF TryAgain, tokenVars
    <3> QED
      BY <1>n, <2>2, <3>1, <3>2, AgainSent
  <2> QED
    BY <2>1, <2>2
<1>12. ASSUME NEW t \in Tabs, LoseReply(t)
       PROVE  TabsTakeTurns'
  BY <1>12, <1>n DEF LoseReply, Quiet
<1>13. ASSUME NEW t \in Tabs, Reload(t)
       PROVE  TabsTakeTurns'
  BY <1>13, <1>n DEF Reload, Quiet
<1>14. ASSUME NEW t \in Tabs, EndReused(t)
       PROVE  TabsTakeTurns'
  BY <1>14, <1>n DEF EndReused, End, Reply
<1>15. ASSUME NEW k \in Tokens, GraceOver(k)
       PROVE  TabsTakeTurns'
  BY <1>15, <1>n DEF GraceOver
<1>16. CASE UNCHANGED sessionVars
  BY <1>16, <1>n DEF sessionVars
<1> QED
  BY <1>1, <1>2, <1>3, <1>4, <1>5, <1>6, <1>7, <1>8, <1>9, <1>10, <1>11, <1>12, <1>13, <1>14,
      <1>15, <1>16 DEF SessionNext

LEMMA NoneSpentUnderLockStays ==
  ASSUME TypeInv, LossesExcuse, CookieInGrace, TabsTakeTurns, NoneSpentUnderLock, [SessionNext]_sessionVars
  PROVE  NoneSpentUnderLock'
<1> USE DEF TypeInv, SessionTypeOK, TabTypes, TabRecords, tokenVars, NoneSpentUnderLock, InFlight, Spent
<1>n. /\ (cookie # NoToken => cookie \in 1 .. issued) /\ NoToken \notin 1 .. issued
      /\ ended \subseteq ended' /\ \A k \in 1 .. issued : family'[k] = family[k]
      /\ \A u \in Tabs : InFlight(u) => tab[u].sent \in 1 .. issued
  BY StepFacts
<1>l. hasLocks' = hasLocks /\ (losses' = 0 => losses = 0)
  BY OtherTypesStay DEF TypeInv, SessionTypeOK
<1>c. hasLocks /\ losses = 0 /\ cookie # NoToken /\ Spent(cookie) => \E u \in Tabs : tab[u].at = "answer" /\ tab[u].answer = "ok"
  BY DEF LossesExcuse, CookieInGrace, Fetched
<1>1. CASE CheckPassword
  BY <1>1, <1>n, <1>l, <1>c DEF CheckPassword
<1>2. CASE CreateSession
  BY <1>2, <1>n, <1>l, <1>c DEF CreateSession
<1>3. CASE Logout
  BY <1>3, <1>n, <1>l, <1>c DEF Logout, End
<1>4. CASE ResetPassword
  BY <1>4, <1>n, <1>l, <1>c DEF ResetPassword, End
<1>5. CASE EndWaiting
  BY <1>5, <1>n, <1>l, <1>c DEF EndWaiting
<1>6. ASSUME NEW t \in Tabs, Refresh(t)
      PROVE  NoneSpentUnderLock'
  BY <1>6, <1>n, <1>l, <1>c DEF Refresh, MayRefresh, Quiet, MayRefresh, TabsTakeTurns
<1>7. ASSUME NEW t \in Tabs, ReadToken(t)
      PROVE  NoneSpentUnderLock'
  BY <1>7, <1>n, <1>l, <1>c DEF ReadToken, Goto, Reply, InGrace
<1>8. ASSUME NEW t \in Tabs, Claim(t)
      PROVE  NoneSpentUnderLock'
  BY <1>8, <1>n, <1>l, <1>c DEF Claim, Goto, Reply, Claimable
<1>9. ASSUME NEW t \in Tabs, Commit(t)
      PROVE  NoneSpentUnderLock'
  BY <1>9, <1>n, <1>l, <1>c DEF Commit, Retire, TabsTakeTurns
<1>10. ASSUME NEW t \in Tabs, Deliver(t)
       PROVE  NoneSpentUnderLock'
  BY <1>10, <1>n, <1>l, <1>c DEF Deliver, Goto, Quiet
<1>11. ASSUME NEW t \in Tabs, TryAgain(t)
       PROVE  NoneSpentUnderLock'
  <2>1. CASE cookie = NoToken
    BY <1>11, <1>n, <2>1 DEF TryAgain, Quiet
  <2>2. CASE cookie # NoToken
    <3>1. tab' = [tab EXCEPT ![t] = [Quiet EXCEPT !.at = "sent", !.attempt = 1, !.sent = cookie]]
      BY <1>11, <2>2 DEF TryAgain
    <3>2. tab[t].at = "pause" /\ UNCHANGED <<cookie, replaced, ended, family>>
      BY <1>11 DEF TryAgain, tokenVars
    <3> QED
      BY <1>n, <2>2, <3>1, <3>2, AgainSent, <1>l, <1>c DEF TabsTakeTurns
  <2> QED
    BY <2>1, <2>2
<1>12. ASSUME NEW t \in Tabs, LoseReply(t)
       PROVE  NoneSpentUnderLock'
  BY <1>12, <1>n, <1>l, <1>c DEF LoseReply, Quiet
<1>13. ASSUME NEW t \in Tabs, Reload(t)
       PROVE  NoneSpentUnderLock'
  BY <1>13, <1>n, <1>l, <1>c DEF Reload, Quiet
<1>14. ASSUME NEW t \in Tabs, EndReused(t)
       PROVE  NoneSpentUnderLock'
  BY <1>14, <1>n, <1>l, <1>c DEF EndReused, End, Reply
<1>15. ASSUME NEW k \in Tokens, GraceOver(k)
       PROVE  NoneSpentUnderLock'
  BY <1>15, <1>n, <1>l, <1>c DEF GraceOver
<1>16. CASE UNCHANGED sessionVars
  BY <1>16, <1>n, <1>l, <1>c DEF sessionVars
<1> QED
  BY <1>1, <1>2, <1>3, <1>4, <1>5, <1>6, <1>7, <1>8, <1>9, <1>10, <1>11, <1>12, <1>13, <1>14,
      <1>15, <1>16 DEF SessionNext

LEMMA SignedOutIsEndedStays ==
  ASSUME TypeInv, RevokedInv, TabsTakeTurns, NoneSpentUnderLock, SignedOutIsEnded, [SessionNext]_sessionVars
  PROVE  SignedOutIsEnded'
<1> USE DEF TypeInv, SessionTypeOK, TabTypes, TabRecords, tokenVars, SignedOutIsEnded, InFlight
<1>n. /\ (cookie # NoToken => cookie \in 1 .. issued) /\ NoToken \notin 1 .. issued
      /\ ended \subseteq ended' /\ \A k \in 1 .. issued : family'[k] = family[k]
      /\ \A u \in Tabs : InFlight(u) => tab[u].sent \in 1 .. issued
  BY StepFacts
<1>l. hasLocks' = hasLocks /\ (losses' = 0 => losses = 0)
  BY OtherTypesStay DEF TypeInv, SessionTypeOK
<1>1. CASE CheckPassword
  BY <1>1, <1>n, <1>l DEF CheckPassword
<1>2. CASE CreateSession
  BY <1>2, <1>n, <1>l DEF CreateSession
<1>3. CASE Logout
  BY <1>3, <1>n, <1>l DEF Logout, End
<1>4. CASE ResetPassword
  BY <1>4, <1>n, <1>l DEF ResetPassword, End
<1>5. CASE EndWaiting
  BY <1>5, <1>n, <1>l DEF EndWaiting
<1>6. ASSUME NEW t \in Tabs, Refresh(t)
      PROVE  SignedOutIsEnded'
  BY <1>6, <1>n, <1>l DEF Refresh, MayRefresh, Quiet
<1>7. ASSUME NEW t \in Tabs, ReadToken(t)
      PROVE  SignedOutIsEnded'
  BY <1>7, <1>n, <1>l DEF ReadToken, Goto, Reply, InGrace, NoneSpentUnderLock, RevokedInv, Spent
<1>8. ASSUME NEW t \in Tabs, Claim(t)
      PROVE  SignedOutIsEnded'
  BY <1>8, <1>n, <1>l DEF Claim, Goto, Reply, Claimable, NoneSpentUnderLock, RevokedInv, Spent
<1>9. ASSUME NEW t \in Tabs, Commit(t)
      PROVE  SignedOutIsEnded'
  BY <1>9, <1>n, <1>l DEF Commit, Retire
<1>10. ASSUME NEW t \in Tabs, Deliver(t)
       PROVE  SignedOutIsEnded'
  BY <1>10, <1>n, <1>l DEF Deliver, Goto, Quiet
<1>11. ASSUME NEW t \in Tabs, TryAgain(t)
       PROVE  SignedOutIsEnded'
  <2>1. CASE cookie = NoToken
    BY <1>11, <1>n, <2>1 DEF TryAgain, Quiet
  <2>2. CASE cookie # NoToken
    <3>1. tab' = [tab EXCEPT ![t] = [Quiet EXCEPT !.at = "sent", !.attempt = 1, !.sent = cookie]]
      BY <1>11, <2>2 DEF TryAgain
    <3>2. tab[t].at = "pause" /\ UNCHANGED <<ended, family>>
      BY <1>11 DEF TryAgain, tokenVars
    <3> QED
      BY <1>n, <2>2, <3>1, <3>2, AgainSent, <1>l
  <2> QED
    BY <2>1, <2>2
<1>12. ASSUME NEW t \in Tabs, LoseReply(t)
       PROVE  SignedOutIsEnded'
  BY <1>12, <1>n, <1>l DEF LoseReply, Quiet
<1>13. ASSUME NEW t \in Tabs, Reload(t)
       PROVE  SignedOutIsEnded'
  BY <1>13, <1>n, <1>l DEF Reload, Quiet
<1>14. ASSUME NEW t \in Tabs, EndReused(t)
       PROVE  SignedOutIsEnded'
  BY <1>14, <1>n, <1>l DEF EndReused, End, Reply
<1>15. ASSUME NEW k \in Tokens, GraceOver(k)
       PROVE  SignedOutIsEnded'
  BY <1>15, <1>n, <1>l DEF GraceOver
<1>16. CASE UNCHANGED sessionVars
  BY <1>16, <1>n, <1>l DEF sessionVars
<1> QED
  BY <1>1, <1>2, <1>3, <1>4, <1>5, <1>6, <1>7, <1>8, <1>9, <1>10, <1>11, <1>12, <1>13, <1>14,
      <1>15, <1>16 DEF SessionNext


-----------------------------------------------------------------------------
(* The theorems *)

SessionInv ==
  /\ TypeInv /\ Rotations /\ OneLiveToken
  /\ EndInv /\ RevokedInv
  /\ FetchedInv /\ LossesExcuse /\ CookieInGrace /\ SentInGrace /\ NoFalseReuse
  /\ TabsTakeTurns /\ NoneSpentUnderLock /\ SignedOutIsEnded

LEMMA SessionInvInit == SessionInit => SessionInv
<1> SUFFICES ASSUME SessionInit PROVE SessionInv
  OBVIOUS
<1>1. /\ revoked = {} /\ replaced = {} /\ locked = {} /\ issued = 0 /\ cookie = NoToken
      /\ ender.kind = "none" /\ ender.rows = {} /\ excuses = {}
      /\ \A t \in Tabs : tab[t].at = "idle"
  BY DEF SessionInit, Quiet
<1>2. Rotations /\ OneLiveToken /\ EndInv /\ RevokedInv
  BY <1>1 DEF Rotations, OneLiveToken, EndInv, RevokedInv, Live
<1>3. FetchedInv /\ LossesExcuse /\ CookieInGrace /\ SentInGrace /\ NoFalseReuse
  BY <1>1 DEF FetchedInv, Fetched, LossesExcuse, CookieInGrace, SentInGrace, NoFalseReuse
<1>4. TabsTakeTurns /\ NoneSpentUnderLock /\ SignedOutIsEnded
  BY <1>1 DEF TabsTakeTurns, InFlight, NoneSpentUnderLock, SignedOutIsEnded
<1> QED
  BY <1>2, <1>3, <1>4, TypeInvInit DEF SessionInv

LEMMA SessionInvStays == SessionInv /\ [SessionNext]_sessionVars => SessionInv'
BY TypeInvStay, RotationsStay, OneLiveTokenStays, EndInvStays, RevokedInvStays, FetchedInvStays,
   LossesExcuseStays, CookieInGraceStays, SentInGraceStays, NoFalseReuseStays, TabsTakeTurnsStay,
   NoneSpentUnderLockStays, SignedOutIsEndedStays DEF SessionInv

LEMMA SessionInvHolds == SessionSpec => []SessionInv
BY SessionInvInit, SessionInvStays, PTL DEF SessionSpec

\* The types of the cookie, the requests and the rows of auth_refresh_tokens, with every token
\* that a tab or a waiting UPDATE holds issued.
THEOREM SessionsTypeCorrect == SessionSpec => []SessionTypeOK
<1>1. SessionInv => SessionTypeOK
  BY DEF SessionInv, TypeInv
<1> QED
  BY <1>1, SessionInvHolds, PTL

\* A login has one good refresh token as long as it is open and none after logout, a token used
\* again or a password reset, with the excuses the code leaves; and the user's own tabs do not
\* sign one another out (rotateSession, revokeFamily, refreshSession).
THEOREM LoginsAreSound == SessionSpec => []LoginsHold
<1>1. SessionInv => LoginsHold
  BY DEF SessionInv, EndInv, LoginsHold, OneTokenPerOpenLogin, EndedStaysEnded, NoFalseSignOut
<1> QED
  BY <1>1, SessionInvHolds, PTL

-----------------------------------------------------------------------------
(* Billing: what is known of events, requests and the account *)

Completed(id) == events[id].kind = "completed"
Of(id) == events[id].of
Handling(h) == hook[h].at # "idle"

\* A subscription begins with its completed checkout and is at Stripe as its last event says.
EventsInv ==
  /\ Len(events) <= MaxEvents
  /\ \A id \in DOMAIN events :
       /\ checkout[Of(id)] = "paid"
       /\ Completed(id) => events[id].status = "active" /\ \A d \in DOMAIN events : Of(d) = Of(id) => id <= d
       /\ events[id].kind = "deleted" => events[id].status = "canceled"
       /\ (\A d \in DOMAIN events : Of(d) = Of(id) => d <= id) => stripe[Of(id)] = events[id].status
  /\ \A c \in Checkouts :
       IF checkout[c] = "paid" THEN \E id \in DOMAIN events : Of(id) = c /\ Completed(id)
       ELSE stripe[c] = "none"

\* Where the handlers are.
HooksInv ==
  /\ \A h \in Hooks :
       /\ IF Handling(h) THEN hook[h].event \in DOMAIN events ELSE hook[h].event = 0
       /\ hook[h].at \in {"pending", "user", "insert", "upsert", "remove"} => Completed(hook[h].event)
       /\ hook[h].at = "apply" => ~Completed(hook[h].event)
       /\ hook[h].at \in {"upsert", "remove"} => account
       /\ hook[h].at = "remove" => sub # NoSub
  /\ \A h, g \in Hooks :
       Handling(h) /\ hook[h].event = hook[g].event /\ hook[h].event \notin answered => h = g
  /\ sub # NoSub => account

\* As long as there is no subscription, a payment keeps its registration, and an account has a
\* handler that goes on from it or an event that Stripe delivers again.
AccountInv ==
  lapses = {} /\ sub = NoSub =>
    /\ \A c \in Checkouts : checkout[c] \in {"open", "paid"} => pending[c] # "none"
    /\ \A id \in recorded : ~Completed(id)
    /\ \A h \in Hooks : hook[h].at = "record" => ~Completed(hook[h].event)
    /\ account => \E id \in DOMAIN events :
         /\ Completed(id) /\ id \notin answered
         /\ \A h \in Hooks : hook[h].event = id => hook[h].at # "insert"
    /\ ~account => \A id \in answered : ~Completed(id)

\* The row has the status of an event after which nothing of the subscription is done.
Stands(w) ==
  /\ Of(w) = sub.of /\ sub.status = events[w].status
  /\ \A d \in recorded \union answered : Of(d) = sub.of => d <= w
  /\ \A h \in Hooks : hook[h].at = "record" /\ Of(hook[h].event) = sub.of => hook[h].event <= w

\* When events are begun in order, what is recorded has no gap, and one handler is at a
\* subscription.
OrderInv ==
  inOrder /\ lapses = {} =>
    /\ \A h \in Hooks : Handling(h) /\ hook[h].event \notin recorded => Earlier(hook[h].event) \subseteq recorded
    /\ \A h, g \in Hooks :
         /\ Handling(h) /\ hook[h].event \notin recorded /\ Handling(g) /\ hook[g].event \notin recorded
         /\ Of(hook[h].event) = Of(hook[g].event)
         => h = g
    /\ \A h \in Hooks : hook[h].at \notin {"idle", "lookup"} => hook[h].event \notin recorded
    /\ \A d \in recorded \union answered : Earlier(d) \subseteq recorded
    /\ sub # NoSub => \E w \in DOMAIN events : Stands(w)

BillingInv == BillingTypeOK /\ EventsInv /\ HooksInv /\ AccountInv /\ OrderInv

-----------------------------------------------------------------------------
(* Billing: steps of a handler, and of Stripe *)

HookPlaces == {"idle", "lookup", "pending", "user", "insert", "upsert", "remove", "apply", "record"}
HookRecords == [at : HookPlaces, event : 0 .. MaxEvents]
EventRecords == [kind : Kinds, of : Checkouts, status : Statuses]

LEMMA BillingFacts ==
  ASSUME BillingInv
  PROVE  /\ hook \in [Hooks -> HookRecords] /\ events \in Seq(EventRecords)
         /\ DOMAIN events = 1 .. Len(events) /\ Len(events) \in Nat /\ Len(events) <= MaxEvents
         /\ \A id \in DOMAIN events : id \in Nat /\ id # 0 /\ events[id] \in EventRecords /\ Of(id) \in Checkouts
         /\ \A h \in Hooks : hook[h] \in HookRecords
         /\ \A h \in Hooks : Handling(h) => hook[h].event \in DOMAIN events
         /\ recorded \subseteq DOMAIN events /\ answered \subseteq DOMAIN events
         /\ checkout \in [Checkouts -> {"new", "checked", "created", "open", "paid", "refused"}]
         /\ stripe \in [Checkouts -> Statuses \union {"none"}]
         /\ pending \in [Checkouts -> {"none", "fresh", "expired"}]
<1>1. events \in Seq(EventRecords) /\ hook \in [Hooks -> HookRecords]
  BY DEF BillingInv, BillingTypeOK, EventRecords, HookRecords, HookPlaces
<1>2. /\ DOMAIN events = 1 .. Len(events) /\ Len(events) \in Nat
      /\ \A id \in DOMAIN events : events[id] \in EventRecords
  <2> HIDE DEF EventRecords
  <2> QED
    BY <1>1
<1>3. \A id \in DOMAIN events : id \in Nat /\ id # 0 /\ Of(id) \in Checkouts
  BY <1>2 DEF EventRecords, Of
<1> QED
  BY <1>1, <1>2, <1>3 DEF BillingInv, BillingTypeOK, EventsInv, HooksInv

LEMMA HookSteps ==
  ASSUME BillingInv, NEW h \in Hooks, NEW place \in HookPlaces, Step(h, place)
  PROVE  /\ hook'[h].at = place /\ hook'[h].event = hook[h].event
         /\ \A g \in Hooks : g # h => hook'[g] = hook[g]
         /\ hook' \in [Hooks -> HookRecords]
<1>1. hook \in [Hooks -> HookRecords]
  BY BillingFacts
<1>2. hook' = [hook EXCEPT ![h] = [hook[h] EXCEPT !.at = place]]
  BY DEF Step
<1>3. PICK r : r = [hook[h] EXCEPT !.at = place]
  OBVIOUS
<1>4. r \in HookRecords /\ r.at = place /\ r.event = hook[h].event
  BY <1>1, <1>3 DEF HookRecords
<1> QED
  BY <1>1, <1>2, <1>3, <1>4

LEMMA HookRests ==
  ASSUME BillingInv, NEW h \in Hooks, hook' = [hook EXCEPT ![h] = Waiting]
  PROVE  /\ hook'[h].at = "idle" /\ hook'[h].event = 0
         /\ \A g \in Hooks : g # h => hook'[g] = hook[g]
         /\ hook' \in [Hooks -> HookRecords]
<1>1. hook \in [Hooks -> HookRecords]
  BY BillingFacts
<1>2. Waiting \in HookRecords /\ Waiting.at = "idle" /\ Waiting.event = 0
  BY BillingAssumption DEF Waiting, HookRecords, HookPlaces
<1> QED
  BY <1>1, <1>2

LEMMA EventsGrow ==
  ASSUME BillingInv, NEW kind \in Kinds, NEW c \in Checkouts, NEW status \in Statuses, Raise(kind, c, status)
  PROVE  LET n == Len(events) + 1 IN
         /\ events' \in Seq(EventRecords) /\ Len(events') = n /\ Len(events') <= MaxEvents
         /\ DOMAIN events' = 1 .. n /\ n \in Nat /\ n \notin DOMAIN events
         /\ DOMAIN events' = DOMAIN events \union {n} /\ \A id \in DOMAIN events : id < n
         /\ events'[n].kind = kind /\ events'[n].of = c /\ events'[n].status = status
         /\ \A id \in DOMAIN events : events'[id] = events[id]
         /\ stripe'[c] = status /\ \A o \in Checkouts : o # c => stripe'[o] = stripe[o]
<1> DEFINE n == Len(events) + 1
           e == [kind |-> kind, of |-> c, status |-> status]
<1>1. e \in EventRecords /\ e.kind = kind /\ e.of = c /\ e.status = status
  BY DEF EventRecords
<1>2. events \in Seq(EventRecords) /\ Len(events) \in Nat /\ DOMAIN events = 1 .. Len(events)
  BY BillingFacts
<1>3. events' = Append(events, e) /\ Len(events) < MaxEvents /\ stripe' = [stripe EXCEPT ![c] = status]
  BY DEF Raise
<1>4. stripe'[c] = status /\ \A o \in Checkouts : o # c => stripe'[o] = stripe[o]
  BY <1>3, BillingFacts
<1> HIDE DEF e
<1>5. /\ events' \in Seq(EventRecords) /\ Len(events') = n
      /\ events'[n] = e /\ \A id \in 1 .. Len(events) : events'[id] = events[id]
  <2> HIDE DEF EventRecords
  <2> QED
    BY <1>1, <1>2, <1>3
<1>6. DOMAIN events' = 1 .. n
  <2> HIDE DEF EventRecords
  <2> QED
    BY <1>5
<1> QED
  BY <1>1, <1>2, <1>3, <1>4, <1>5, <1>6, BillingAssumption

\* What the handlers and the checkouts leave alone.
CheckoutStep(c) == CheckEmail(c) \/ CleanUpAndCreate(c) \/ StorePending(c) \/ TwoHoursPass(c)
StripeStep(c) == Pay(c) \/ SubscriptionChanges(c)

LEMMA StripeRaises ==
  ASSUME BillingInv, NEW c \in Checkouts, StripeStep(c)
  PROVE  \E kind \in Kinds, status \in Statuses :
           /\ Raise(kind, c, status)
           /\ kind = "deleted" => status = "canceled"
           /\ \/ kind = "completed" /\ status = "active" /\ Pay(c)
              \/ kind # "completed" /\ checkout' = checkout /\ stripe[c] # "none"
BY DEF StripeStep, Pay, SubscriptionChanges, Kinds, Statuses

-----------------------------------------------------------------------------
(* Billing: types and events *)

HookStep(h) == Handle(h) \/ Fail(h) \/ \E id \in DOMAIN events : Request(h, id)

LEMMA StripeStays ==
  ASSUME BillingInv, (\E h \in Hooks : HookStep(h)) \/ Restart \/ UNCHANGED billingVars
  PROVE  UNCHANGED <<checkout, stripe, events>>
BY DEF HookStep, Handle, Lookup, FindPending, FindUser, InsertUser, UpsertSubscription, RemovePending, ApplyChange,
       Record, Fail, Request, Restart, stripeVars, billingVars

LEMMA CheckoutLeaves ==
  ASSUME NEW c \in Checkouts, CheckoutStep(c)
  PROVE  UNCHANGED <<account, sub, stripe, events, recorded, answered, hook, repeats, breaks, inOrder>>
BY DEF CheckoutStep, CheckEmail, CleanUpAndCreate, StorePending, TwoHoursPass

LEMMA RaiseLeaves ==
  ASSUME NEW c \in Checkouts, StripeStep(c)
  PROVE  UNCHANGED <<pending, account, sub, recorded, answered, hook, repeats, breaks, inOrder, lapses>>
BY DEF StripeStep, Pay, SubscriptionChanges, Raise

LEMMA HookTypesStay ==
  ASSUME BillingInv, NEW h \in Hooks, HookStep(h)
  PROVE  hook' \in [Hooks -> HookRecords]
<1>p. {"idle", "lookup", "pending", "user", "insert", "upsert", "remove", "apply", "record"} \subseteq HookPlaces
  BY DEF HookPlaces
<1>1. CASE \E id \in DOMAIN events : Request(h, id)
  <2>1. PICK id \in DOMAIN events : hook' = [hook EXCEPT ![h] = [at |-> "lookup", event |-> id]]
    BY <1>1 DEF Request
  <2>2. id \in 0 .. MaxEvents
    BY BillingFacts, BillingAssumption
  <2>3. [at |-> "lookup", event |-> id] \in HookRecords
    BY <1>p, <2>2 DEF HookRecords
  <2> QED
    BY <2>1, <2>3, BillingFacts
<1>2. CASE hook' = [hook EXCEPT ![h] = Waiting]
  BY <1>2, HookRests
<1>3. CASE \E place \in HookPlaces : Step(h, place)
  BY <1>3, HookSteps
<1> QED
  BY <1>p, <1>1, <1>2, <1>3
  DEF HookStep, Handle, Lookup, FindPending, FindUser, AfterUser, InsertUser, UpsertSubscription, RemovePending,
      ApplyChange, Record, Fail, Acknowledge

LEMMA BillingTypesStay ==
  ASSUME BillingInv, [BillingNext]_billingVars
  PROVE  BillingTypeOK'
<1> USE BillingAssumption DEF BillingTypeOK
<1>t. BillingTypeOK
  BY DEF BillingInv
<1>h. hook' \in [Hooks -> HookRecords] =>
        hook' \in [Hooks -> [at : {"idle", "lookup", "pending", "user", "insert", "upsert", "remove",
                                   "apply", "record"},
                             event : 0 .. MaxEvents]]
  BY DEF HookRecords, HookPlaces
<1>1. ASSUME NEW c \in Checkouts, CheckoutStep(c)
      PROVE  BillingTypeOK'
  <2>1. checkout' \in [Checkouts -> {"new", "checked", "created", "open", "paid", "refused"}]
    BY <1>t, <1>1 DEF CheckoutStep, CheckEmail, CleanUpAndCreate, StorePending, TwoHoursPass
  <2>2. pending' \in [Checkouts -> {"none", "fresh", "expired"}]
    BY <1>t, <1>1 DEF CheckoutStep, CheckEmail, CleanUpAndCreate, StorePending, TwoHoursPass
  <2>3. lapses' \subseteq {"failed", "expired"}
    BY <1>t, <1>1 DEF CheckoutStep, CheckEmail, CleanUpAndCreate, StorePending, TwoHoursPass
  <2> QED
    BY <1>t, <1>1, <2>1, <2>2, <2>3, CheckoutLeaves
<1>2. ASSUME NEW c \in Checkouts, StripeStep(c)
      PROVE  BillingTypeOK'
  <2>1. PICK kind \in Kinds, status \in Statuses : Raise(kind, c, status)
    BY <1>2, StripeRaises
  <2>2. events' \in Seq([kind : Kinds, of : Checkouts, status : Statuses]) /\ DOMAIN events \subseteq DOMAIN events'
    BY <2>1, EventsGrow DEF EventRecords
  <2>3. stripe' \in [Checkouts -> Statuses \union {"none"}]
    BY <1>t, <2>1 DEF Raise
  <2>4. checkout' \in [Checkouts -> {"new", "checked", "created", "open", "paid", "refused"}]
    BY <1>t, <1>2 DEF StripeStep, Pay, SubscriptionChanges
  <2>5. recorded' \subseteq DOMAIN events' /\ answered' \subseteq DOMAIN events'
    BY <1>t, <1>2, <2>2, RaiseLeaves
  <2> QED
    BY <1>t, <1>2, <2>2, <2>3, <2>4, <2>5, RaiseLeaves
<1>3. ASSUME NEW h \in Hooks, HookStep(h)
      PROVE  BillingTypeOK'
  <2>1. /\ UNCHANGED <<checkout, stripe, events>> /\ hook' \in [Hooks -> HookRecords]
        /\ Handling(h) => hook[h].event \in DOMAIN events /\ Event(h).of \in Checkouts /\ Event(h).status \in Statuses
    BY <1>3, StripeStays, HookTypesStay, BillingFacts DEF Event, EventRecords
  <2>2. /\ pending' \in [Checkouts -> {"none", "fresh", "expired"}] /\ account' \in BOOLEAN /\ inOrder' \in BOOLEAN
        /\ repeats' \in 0 .. MaxRepeats /\ breaks' \in 0 .. MaxBreaks
    <3>1. CASE Handle(h)
      BY <1>t, <3>1 DEF Handle, Lookup, FindPending, FindUser, InsertUser, UpsertSubscription, RemovePending,
                        ApplyChange, Record
    <3>2. CASE Fail(h)
      BY <1>t, <3>2 DEF Fail, Break
    <3>3. CASE \E id \in DOMAIN events : Request(h, id)
      BY <1>t, <3>3 DEF Request
    <3> QED
      BY <1>3, <3>1, <3>2, <3>3 DEF HookStep
  <2>3. sub' \in [of : Checkouts, status : Statuses] \union {NoSub}
    <3>1. CASE UpsertSubscription(h)
      BY <2>1, <3>1 DEF UpsertSubscription, Handling, Statuses
    <3>2. CASE ApplyChange(h)
      <4>1. sub.of = Event(h).of => sub \in [of : Checkouts, status : Statuses]
        BY <1>t, <2>1, <3>2 DEF NoSub, ApplyChange, Handling
      <4>2. StatusOf(Event(h)) \in Statuses
        BY <2>1, <3>2 DEF StatusOf, Statuses, ApplyChange, Handling
      <4> QED
        BY <1>t, <3>2, <4>1, <4>2 DEF ApplyChange
    <3>3. CASE ~UpsertSubscription(h) /\ ~ApplyChange(h)
      BY <1>t, <1>3, <3>3 DEF HookStep, Handle, Lookup, FindPending, FindUser, InsertUser, RemovePending, Record,
                              Fail, Request
    <3> QED
      BY <3>1, <3>2, <3>3
  <2>4. recorded' \subseteq DOMAIN events /\ answered' \subseteq DOMAIN events /\ lapses' \subseteq {"failed", "expired"}
    <3>1. CASE Handle(h)
      BY <1>t, <2>1, <3>1 DEF Handle, Lookup, FindPending, FindUser, InsertUser, UpsertSubscription, RemovePending,
                        ApplyChange, Record, Acknowledge, Handling
    <3>2. CASE Fail(h)
      BY <1>t, <2>1, <3>2 DEF Fail, Acknowledge, Handling
    <3>3. CASE \E id \in DOMAIN events : Request(h, id)
      BY <1>t, <3>3 DEF Request
    <3> QED
      BY <1>3, <3>1, <3>2, <3>3 DEF HookStep
  <2> QED
    BY <1>h, <1>t, <2>1, <2>2, <2>3, <2>4
<1>4. CASE Restart
  <2>1. hook' \in [Hooks -> HookRecords]
    BY <1>4 DEF Restart, Waiting, HookRecords, HookPlaces
  <2> QED
    BY <1>h, <1>t, <1>4, <2>1 DEF Restart, Break, stripeVars
<1>5. CASE UNCHANGED billingVars
  BY <1>t, <1>5 DEF billingVars
<1> QED
  BY <1>1, <1>2, <1>3, <1>4, <1>5 DEF BillingNext, CheckoutStep, StripeStep, HookStep

LEMMA EventsStay ==
  ASSUME BillingInv, [BillingNext]_billingVars
  PROVE  EventsInv'
<1>p. EventsInv
  BY DEF BillingInv
<1>1. CASE UNCHANGED <<stripe, events>> /\ \A c \in Checkouts : checkout[c] = "paid" <=> checkout'[c] = "paid"
  <2>1. \A id \in DOMAIN events : Of(id) \in Checkouts
    BY BillingFacts
  <2> QED
    BY <1>p, <1>1, <2>1 DEF EventsInv, Of, Completed
<1>2. ASSUME NEW c \in Checkouts, CheckoutStep(c)
      PROVE  EventsInv'
  <2>1. \A o \in Checkouts : checkout[o] = "paid" <=> checkout'[o] = "paid"
    BY <1>2, BillingFacts DEF CheckoutStep, CheckEmail, CleanUpAndCreate, StorePending, TwoHoursPass
  <2> QED
    BY <1>1, <1>2, <2>1, CheckoutLeaves
<1>3. ASSUME NEW c \in Checkouts, StripeStep(c)
      PROVE  EventsInv'
  <2>1. PICK kind \in Kinds, status \in Statuses :
           /\ Raise(kind, c, status)
           /\ kind = "deleted" => status = "canceled"
           /\ \/ kind = "completed" /\ status = "active" /\ Pay(c)
              \/ kind # "completed" /\ checkout' = checkout /\ stripe[c] # "none"
    BY <1>3, StripeRaises
  <2> DEFINE n == Len(events) + 1
  <2>2. /\ Len(events') = n /\ Len(events') <= MaxEvents /\ n \in Nat
        /\ DOMAIN events' = DOMAIN events \union {n} /\ n \notin DOMAIN events
        /\ \A id \in DOMAIN events : id < n /\ events'[id] = events[id] /\ id \in Nat
        /\ events'[n].kind = kind /\ events'[n].of = c /\ events'[n].status = status
        /\ stripe'[c] = status /\ \A o \in Checkouts : o # c => stripe'[o] = stripe[o]
    BY <2>1, EventsGrow, BillingFacts
  <2>3. /\ checkout'[c] = "paid" /\ \A o \in Checkouts : o # c => checkout'[o] = checkout[o]
        /\ kind = "completed" => checkout[c] # "paid"
        /\ kind # "completed" => checkout[c] = "paid"
    BY <1>p, <2>1, BillingFacts DEF Pay, EventsInv
  <2>4. \A id \in DOMAIN events : events[id].of \in Checkouts /\ checkout[events[id].of] = "paid"
    BY <1>p, BillingFacts DEF EventsInv, Of
  <2> HIDE DEF n
  <2>5. ASSUME NEW id \in DOMAIN events'
        PROVE  /\ checkout'[events'[id].of] = "paid"
               /\ events'[id].kind = "completed" =>
                    /\ events'[id].status = "active"
                    /\ \A d \in DOMAIN events' : events'[d].of = events'[id].of => id <= d
               /\ events'[id].kind = "deleted" => events'[id].status = "canceled"
               /\ (\A d \in DOMAIN events' : events'[d].of = events'[id].of => d <= id) =>
                    stripe'[events'[id].of] = events'[id].status
    <3>1. CASE id = n
      BY <2>1, <2>2, <2>3, <2>4, <3>1
    <3>2. CASE id \in DOMAIN events
      <4>1. ASSUME \A d \in DOMAIN events' : events'[d].of = events'[id].of => d <= id
            PROVE  stripe'[events'[id].of] = events'[id].status
        <5>1. events[id].of # c
          BY <2>2, <3>2, <4>1
        <5>2. \A d \in DOMAIN events : events[d].of = events[id].of => d <= id
          BY <2>2, <3>2, <4>1
        <5> QED
          BY <1>p, <2>2, <2>4, <3>2, <5>1, <5>2 DEF EventsInv, Of
      <4>2. ASSUME events'[id].kind = "completed", NEW d \in DOMAIN events', events'[d].of = events'[id].of
            PROVE  id <= d
        BY <1>p, <2>2, <3>2, <4>2 DEF EventsInv, Of, Completed
      <4> QED
        BY <1>p, <2>2, <2>3, <2>4, <3>2, <4>1, <4>2 DEF EventsInv, Of, Completed
    <3> QED
      BY <2>2, <3>1, <3>2
  <2>6. ASSUME NEW o \in Checkouts
        PROVE  IF checkout'[o] = "paid" THEN \E id \in DOMAIN events' : events'[id].of = o /\ events'[id].kind = "completed"
               ELSE stripe'[o] = "none"
    <3>1. CASE o = c /\ kind = "completed"
      BY <2>2, <2>3, <3>1
    <3>2. CASE o = c /\ kind # "completed"
      BY <1>p, <2>2, <2>3, <3>2 DEF EventsInv, Of, Completed
    <3>3. CASE o # c
      BY <1>p, <2>2, <2>3, <3>3 DEF EventsInv, Of, Completed
    <3> QED
      BY <3>1, <3>2, <3>3
  <2> QED
    BY <2>2, <2>5, <2>6 DEF EventsInv, Of, Completed
<1>4. CASE (\E h \in Hooks : HookStep(h)) \/ Restart \/ UNCHANGED billingVars
  BY <1>1, <1>4, StripeStays
<1> QED
  BY <1>2, <1>3, <1>4 DEF BillingNext, CheckoutStep, StripeStep, HookStep

-----------------------------------------------------------------------------
(* Billing: the handlers *)

\* What a step of one handler leaves to the others, and where it goes itself.
LEMMA HandlerFacts ==
  ASSUME BillingInv, NEW h \in Hooks, HookStep(h)
  PROVE  /\ \A g \in Hooks : g # h => hook'[g] = hook[g]
         /\ (account => account') /\ (sub # NoSub => sub' # NoSub)
         /\ answered \subseteq answered' /\ answered' \subseteq answered \union {hook[h].event}
         /\ recorded \subseteq recorded' /\ recorded' \subseteq recorded \union {hook[h].event}
         /\ UNCHANGED <<checkout, stripe, events>>
         /\ \/ hook'[h].at = "idle" /\ hook'[h].event = 0
            \/ hook'[h].event = hook[h].event /\ Handling(h)
            \/ \E id \in DOMAIN events : Request(h, id) /\ hook'[h].event = id /\ hook'[h].at = "lookup"
<1>p. {"idle", "lookup", "pending", "user", "insert", "upsert", "remove", "apply", "record"} \subseteq HookPlaces
  BY DEF HookPlaces
<1>q. /\ Handling(h) => hook[h].event \in DOMAIN events /\ Event(h).of \in Checkouts
      /\ NoCheckout \notin Checkouts /\ NoSub.of = NoCheckout
      /\ UNCHANGED <<checkout, stripe, events>>
  BY BillingFacts, BillingAssumption, StripeStays DEF Event, EventRecords, NoSub
<1>1. CASE \E id \in DOMAIN events : Request(h, id)
  <2>1. PICK id \in DOMAIN events : Request(h, id)
    BY <1>1
  <2>2. hook' = [hook EXCEPT ![h] = [at |-> "lookup", event |-> id]] /\ UNCHANGED <<account, sub, recorded, answered>>
    BY <2>1 DEF Request
  <2> QED
    BY <1>q, <2>1, <2>2, BillingFacts
<1>2. CASE Handle(h) \/ Fail(h)
  <2>1. Handling(h)
    BY <1>2 DEF Handle, Lookup, FindPending, FindUser, InsertUser, UpsertSubscription, RemovePending, ApplyChange,
                Record, Fail, Handling
  <2>2. hook' = [hook EXCEPT ![h] = Waiting] \/ \E place \in HookPlaces : Step(h, place)
    BY <1>2, <1>p DEF Handle, Lookup, FindPending, FindUser, AfterUser, InsertUser, UpsertSubscription,
                      RemovePending, ApplyChange, Record, Fail, Acknowledge
  <2>3. /\ answered \subseteq answered' /\ answered' \subseteq answered \union {hook[h].event}
        /\ recorded \subseteq recorded' /\ recorded' \subseteq recorded \union {hook[h].event}
        /\ account => account'
    BY <1>2 DEF Handle, Lookup, FindPending, FindUser, InsertUser, UpsertSubscription, RemovePending, ApplyChange,
                Record, Fail, Acknowledge
  <2>4. sub # NoSub => sub' # NoSub
    <3>1. CASE UpsertSubscription(h)
      BY <1>q, <2>1, <3>1 DEF UpsertSubscription
    <3>2. CASE ApplyChange(h)
      <4>1. sub.of = Event(h).of => sub \in [of : Checkouts, status : Statuses]
        BY <1>q, <2>1 DEF BillingInv, BillingTypeOK
      <4>2. sub.of = Event(h).of => [sub EXCEPT !.status = StatusOf(Event(h))].of = sub.of
        BY <4>1
      <4> QED
        BY <1>q, <2>1, <3>2, <4>2 DEF ApplyChange
    <3>3. CASE ~UpsertSubscription(h) /\ ~ApplyChange(h)
      BY <1>2, <3>3 DEF Handle, Lookup, FindPending, FindUser, InsertUser, RemovePending, Record, Fail
    <3> QED
      BY <3>1, <3>2, <3>3
  <2> QED
    BY <1>q, <2>1, <2>2, <2>3, <2>4, HookSteps, HookRests
<1> QED
  BY <1>1, <1>2 DEF HookStep

\* What a handler has found out at the place it goes to.
LEMMA HandlerPlaces ==
  ASSUME BillingInv, NEW h \in Hooks, HookStep(h)
  PROVE  /\ hook'[h].at \in {"pending", "user", "insert", "upsert", "remove"} => Completed(hook'[h].event)
         /\ hook'[h].at = "apply" => ~Completed(hook'[h].event)
         /\ hook'[h].at \in {"upsert", "remove"} => account'
         /\ hook'[h].at = "remove" => sub' # NoSub
         /\ sub' # NoSub => account'
<1>p. {"idle", "lookup", "pending", "user", "insert", "upsert", "remove", "apply", "record"} \subseteq HookPlaces
  BY DEF HookPlaces
<1>h. HooksInv
  BY DEF BillingInv
<1>1. CASE hook'[h].at \in {"idle", "lookup"} /\ UNCHANGED <<account, sub>>
  BY <1>h, <1>1 DEF HooksInv
<1>2. CASE \E id \in DOMAIN events : Request(h, id)
  <2>1. PICK id \in DOMAIN events : Request(h, id)
    BY <1>2
  <2>2. hook'[h].at = "lookup" /\ UNCHANGED <<account, sub>>
    BY <2>1, BillingFacts DEF Request
  <2> QED
    BY <1>1, <2>2
<1>3. CASE Fail(h)
  BY <1>1, <1>3, HookRests DEF Fail, Acknowledge
<1>4. CASE Lookup(h)
  <2>1. UNCHANGED <<account, sub>>
    BY <1>4 DEF Lookup
  <2>2. CASE Processed(hook[h].event)
    BY <1>1, <1>4, <2>1, <2>2, HookRests DEF Lookup, Acknowledge
  <2>3. CASE ~Processed(hook[h].event)
    BY <1>4, <1>h, <1>p, <2>1, <2>3, HookSteps DEF Lookup, Event, Completed, HooksInv
  <2> QED
    BY <2>2, <2>3
<1>5. CASE FindPending(h)
  BY <1>5, <1>h, <1>p, HookSteps DEF FindPending, HooksInv
<1>6. CASE FindUser(h)
  BY <1>6, <1>h, <1>p, HookSteps DEF FindUser, AfterUser, HooksInv
<1>7. CASE InsertUser(h)
  <2>1. account' /\ sub' = sub
    BY <1>7 DEF InsertUser
  <2>2. CASE account
    BY <1>7, <2>1, <2>2, HookRests DEF InsertUser, Acknowledge
  <2>3. CASE ~account
    BY <1>7, <1>h, <1>p, <2>1, <2>3, HookSteps DEF InsertUser, HooksInv
  <2> QED
    BY <2>2, <2>3
<1>8. CASE UpsertSubscription(h)
  <2>1. sub' = [of |-> Event(h).of, status |-> "active"] /\ account' = account /\ Step(h, "remove")
    BY <1>8 DEF UpsertSubscription
  <2>2. account /\ Completed(hook[h].event) /\ Handling(h) /\ Event(h).of \in Checkouts
    BY <1>8, <1>h, BillingFacts DEF UpsertSubscription, HooksInv, Handling, Event, EventRecords
  <2>3. sub' # NoSub
    BY <2>1, <2>2, BillingAssumption DEF NoSub
  <2> QED
    BY <1>p, <2>1, <2>2, <2>3, HookSteps
<1>9. CASE RemovePending(h)
  BY <1>9, <1>h, <1>p, HookSteps DEF RemovePending, HooksInv
<1>10. CASE ApplyChange(h)
  <2>1. Step(h, "record") /\ account' = account /\ (sub' # NoSub => sub # NoSub)
    <3>1. sub = NoSub => sub.of = NoCheckout
      BY DEF NoSub
    <3>2. Event(h).of # NoCheckout
      BY <1>10, BillingFacts, BillingAssumption DEF ApplyChange, Event, EventRecords, Handling
    <3> QED
      BY <1>10, <3>1, <3>2 DEF ApplyChange
  <2> QED
    BY <1>h, <1>p, <2>1, HookSteps DEF HooksInv
<1>11. CASE Record(h)
  BY <1>1, <1>11, HookRests DEF Record, Acknowledge
<1> QED
  BY <1>2, <1>3, <1>4, <1>5, <1>6, <1>7, <1>8, <1>9, <1>10, <1>11 DEF HookStep, Handle

LEMMA HooksStay ==
  ASSUME BillingInv, [BillingNext]_billingVars
  PROVE  HooksInv'
<1>p. HooksInv
  BY DEF BillingInv
<1>1. CASE UNCHANGED <<account, sub, hook, answered>> /\ \A id \in DOMAIN events : id \in DOMAIN events' /\ events'[id] = events[id]
  <2>1. \A h \in Hooks : hook[h].at # "idle" => hook[h].event \in DOMAIN events
    BY <1>p DEF HooksInv, Handling
  <2> QED
    BY <1>p, <1>1, <2>1 DEF HooksInv, Handling, Completed
<1>2. ASSUME NEW c \in Checkouts, CheckoutStep(c)
      PROVE  HooksInv'
  BY <1>1, <1>2, CheckoutLeaves
<1>3. ASSUME NEW c \in Checkouts, StripeStep(c)
      PROVE  HooksInv'
  BY <1>1, <1>3, RaiseLeaves, StripeRaises, EventsGrow
<1>4. ASSUME NEW h \in Hooks, HookStep(h)
      PROVE  HooksInv'
  <2>1. /\ \A g \in Hooks : g # h => hook'[g] = hook[g]
        /\ (account => account') /\ (sub # NoSub => sub' # NoSub) /\ events' = events
        /\ answered \subseteq answered'
    BY <1>4, HandlerFacts
  <2>2. \/ hook'[h].at = "idle" /\ hook'[h].event = 0
        \/ hook'[h].event = hook[h].event /\ hook[h].at # "idle"
        \/ \E id \in DOMAIN events : Request(h, id) /\ hook'[h].event = id /\ hook'[h].at = "lookup"
    BY <1>4, HandlerFacts DEF Handling
  <2>3. IF hook'[h].at # "idle" THEN hook'[h].event \in DOMAIN events' ELSE hook'[h].event = 0
    <3>1. hook'[h].at = "idle" /\ hook[h].at # "idle" => hook'[h].event = 0
      <4>1. CASE Handle(h) \/ Fail(h)
        <5>1. \A place \in HookPlaces : Step(h, place) => hook'[h].at = place
          BY HookSteps
        <5>2. {"idle", "lookup", "pending", "user", "insert", "upsert", "remove", "apply", "record"} \subseteq HookPlaces
          BY DEF HookPlaces
        <5> QED
          BY <4>1, <5>1, <5>2, HookRests
          DEF Handle, Lookup, FindPending, FindUser, AfterUser, InsertUser, UpsertSubscription, RemovePending,
              ApplyChange, Record, Fail, Acknowledge
      <4>2. CASE \E id \in DOMAIN events : Request(h, id)
        BY <4>2 DEF Request
      <4> QED
        BY <1>4, <4>1, <4>2 DEF HookStep
    <3> QED
      BY <1>p, <2>1, <2>2, <3>1 DEF HooksInv, Handling
  <2>4. ASSUME NEW f \in Hooks, NEW g \in Hooks, hook'[f].at # "idle", hook'[f].event = hook'[g].event,
               hook'[f].event \notin answered', f # g
        PROVE  FALSE
    <3>1. hook'[f].event # 0
      <4>1. hook'[f].event \in DOMAIN events
        BY <1>p, <2>1, <2>3, <2>4 DEF HooksInv, Handling
      <4> QED
        BY <4>1, BillingFacts
    <3>2. \A o, k \in Hooks : hook[o].at # "idle" /\ hook[o].event = hook[k].event /\ hook[o].event \notin answered => o = k
      BY <1>p DEF HooksInv, Handling
    <3>3. \A o \in Hooks : hook[o].event # 0 => hook[o].at # "idle"
      BY <1>p DEF HooksInv, Handling
    <3>4. ASSUME NEW id \in DOMAIN events, Request(h, id), id \notin answered
          PROVE  \A o \in Hooks : hook[o].event # id
      BY <3>4 DEF Request
    <3>5. ASSUME NEW o \in Hooks, o # h, hook'[h].event = hook[o].event, hook[o].event # 0, hook[o].event \notin answered
          PROVE  FALSE
      BY <2>2, <3>2, <3>3, <3>4, <3>5
    <3>6. hook'[f].event \notin answered
      BY <2>1, <2>4
    <3>7. CASE f = h
      BY <2>1, <2>4, <3>1, <3>5, <3>6, <3>7
    <3>8. CASE g = h
      BY <2>1, <2>4, <3>1, <3>5, <3>6, <3>8
    <3>9. CASE f # h /\ g # h
      BY <2>1, <2>4, <3>2, <3>6, <3>9
    <3> QED
      BY <3>7, <3>8, <3>9
  <2>5. /\ hook'[h].at \in {"pending", "user", "insert", "upsert", "remove"} => events[hook'[h].event].kind = "completed"
        /\ hook'[h].at = "apply" => events[hook'[h].event].kind # "completed"
        /\ hook'[h].at \in {"upsert", "remove"} => account'
        /\ hook'[h].at = "remove" => sub' # NoSub
        /\ sub' # NoSub => account'
    BY <1>4, HandlerPlaces DEF Completed
  <2> QED
    BY <1>p, <2>1, <2>3, <2>4, <2>5 DEF HooksInv, Handling, Completed
<1>5. CASE Restart
  <2>1. \A h \in Hooks : hook'[h].at = "idle" /\ hook'[h].event = 0
    BY <1>5 DEF Restart, Waiting
  <2> QED
    BY <1>5, <1>p, <2>1 DEF Restart, stripeVars, HooksInv, Handling
<1>6. CASE UNCHANGED billingVars
  BY <1>1, <1>6 DEF billingVars
<1> QED
  BY <1>2, <1>3, <1>4, <1>5, <1>6 DEF BillingNext, CheckoutStep, StripeStep, HookStep

-----------------------------------------------------------------------------
(* Billing: a payment leads to an account *)

LEMMA LapsesGrow ==
  ASSUME BillingInv, [BillingNext]_billingVars
  PROVE  lapses \subseteq lapses' /\ (sub # NoSub => sub' # NoSub)
<1>1. lapses \subseteq lapses'
  BY DEF BillingNext, CheckEmail, CleanUpAndCreate, StorePending, TwoHoursPass, Pay, SubscriptionChanges, Raise,
         Handle, Lookup, FindPending, FindUser, InsertUser, UpsertSubscription, RemovePending, ApplyChange,
         Record, Fail, Request, Restart, billingVars
<1>2. CASE \E h \in Hooks : HookStep(h)
  BY <1>1, <1>2, HandlerFacts
<1>3. CASE ~\E h \in Hooks : HookStep(h)
  BY <1>1, <1>3, CheckoutLeaves, RaiseLeaves
  DEF BillingNext, HookStep, CheckoutStep, StripeStep, Restart, billingVars
<1> QED
  BY <1>2, <1>3

\* Without a lapse a completed checkout is answered when it is recorded, or when its account
\* is there already.
LEMMA AnswersOf ==
  ASSUME BillingInv, NEW h \in Hooks, HookStep(h), lapses' = {}
  PROVE  /\ answered' # answered => answered' = answered \union {hook[h].event} /\ Handling(h)
              /\ \/ hook[h].event \in recorded
                 \/ InsertUser(h) /\ account
                 \/ Record(h)
         /\ recorded' # recorded => Record(h) /\ recorded' = recorded \union {hook[h].event}
         /\ pending' # pending => RemovePending(h)
<1>1. CASE Handle(h)
  BY <1>1 DEF Handle, Lookup, FindPending, FindUser, InsertUser, UpsertSubscription, RemovePending, ApplyChange,
              Record, Acknowledge, Processed, Handling
<1>2. CASE Fail(h)
  BY <1>2 DEF Fail
<1>3. CASE \E id \in DOMAIN events : Request(h, id)
  BY <1>3 DEF Request
<1> QED
  BY <1>1, <1>2, <1>3 DEF HookStep

LEMMA AccountStays ==
  ASSUME BillingInv, [BillingNext]_billingVars
  PROVE  AccountInv'
<1> SUFFICES ASSUME lapses' = {}, sub' = NoSub
             PROVE  AccountInv'
  BY DEF AccountInv
<1>p. /\ lapses = {} /\ sub = NoSub
      /\ \A c \in Checkouts : checkout[c] \in {"open", "paid"} => pending[c] # "none"
      /\ \A id \in recorded : events[id].kind # "completed"
      /\ \A h \in Hooks : hook[h].at = "record" => events[hook[h].event].kind # "completed"
      /\ account => \E id \in DOMAIN events :
           /\ events[id].kind = "completed" /\ id \notin answered
           /\ \A h \in Hooks : hook[h].event = id => hook[h].at # "insert"
      /\ ~account => \A id \in answered : events[id].kind # "completed"
  BY LapsesGrow DEF BillingInv, AccountInv, Completed
<1>q. /\ \A h \in Hooks : hook[h].at # "remove" /\ (hook[h].at # "idle" => hook[h].event \in DOMAIN events)
      /\ \A h \in Hooks : hook[h].at = "apply" => events[hook[h].event].kind # "completed"
      /\ \A h \in Hooks : hook[h].at = "insert" => events[hook[h].event].kind = "completed"
      /\ \A h, g \in Hooks : hook[h].at # "idle" /\ hook[h].event = hook[g].event /\ hook[h].event \notin answered => h = g
      /\ recorded \subseteq DOMAIN events /\ answered \subseteq DOMAIN events
  BY <1>p, BillingFacts DEF BillingInv, HooksInv, Handling, Completed
<1>1. CASE /\ UNCHANGED <<account, hook, recorded, answered>>
           /\ \A id \in DOMAIN events : id \in DOMAIN events' /\ events'[id] = events[id]
           /\ \A c \in Checkouts : checkout'[c] \in {"open", "paid"} => pending'[c] # "none"
  BY <1>1, <1>p, <1>q DEF AccountInv, Completed
<1>2. ASSUME NEW c \in Checkouts, CheckoutStep(c)
      PROVE  AccountInv'
  <2>1. \A o \in Checkouts : checkout'[o] \in {"open", "paid"} => pending'[o] # "none"
    <3>1. CASE CheckEmail(c)
      BY <3>1, <1>p, BillingFacts DEF CheckEmail
    <3>2. CASE CleanUpAndCreate(c)
      <4>1. \A o \in Checkouts : pending[o] # "expired"
        BY <3>2 DEF CleanUpAndCreate
      <4> QED
        BY <3>2, <4>1, <1>p, BillingFacts DEF CleanUpAndCreate
    <3>3. CASE StorePending(c)
      BY <3>3, <1>p, BillingFacts DEF StorePending
    <3>4. CASE TwoHoursPass(c)
      BY <3>4, <1>p, BillingFacts DEF TwoHoursPass
    <3> QED
      BY <1>2, <3>1, <3>2, <3>3, <3>4 DEF CheckoutStep
  <2> QED
    BY <1>1, <1>2, <2>1, CheckoutLeaves
<1>3. ASSUME NEW c \in Checkouts, StripeStep(c)
      PROVE  AccountInv'
  <2>1. \A o \in Checkouts : checkout'[o] \in {"open", "paid"} => pending'[o] # "none"
    BY <1>3, <1>p, BillingFacts, RaiseLeaves DEF StripeStep, Pay, SubscriptionChanges
  <2> QED
    BY <1>1, <1>3, <2>1, RaiseLeaves, StripeRaises, EventsGrow
<1>4. ASSUME NEW h \in Hooks, HookStep(h)
      PROVE  AccountInv'
  <2>1. /\ \A g \in Hooks : g # h => hook'[g] = hook[g]
        /\ (account => account') /\ events' = events /\ checkout' = checkout
        /\ answered \subseteq answered'
    BY <1>4, HandlerFacts
  <2>2. pending' = pending
    BY <1>4, <1>q, AnswersOf DEF RemovePending
  <2>3. \A id \in recorded' : events[id].kind # "completed"
    BY <1>4, <1>p, AnswersOf DEF Record
  <2>4. hook'[h].at = "record" => events[hook'[h].event].kind # "completed"
    <3>1. CASE ApplyChange(h)
      <4>1. "record" \in HookPlaces /\ Step(h, "record") /\ hook[h].at = "apply"
        BY <3>1 DEF ApplyChange, HookPlaces
      <4> QED
        BY <1>q, <4>1, HookSteps
    <3>2. CASE FindPending(h)
      <4>1. hook[h].event \in DOMAIN events /\ Event(h).of \in Checkouts
        BY <1>q, <3>2, BillingFacts DEF FindPending, Event, EventRecords
      <4>2. checkout[Event(h).of] = "paid"
        BY <4>1 DEF BillingInv, EventsInv, Of, Event
      <4>3. Step(h, "user") /\ "user" \in HookPlaces
        BY <1>p, <3>2, <4>1, <4>2 DEF FindPending, HookPlaces
      <4> QED
        BY <4>3, HookSteps
    <3>3. CASE ~ApplyChange(h) /\ ~FindPending(h)
      <4>1. CASE \E place \in HookPlaces \ {"record"} : Step(h, place)
        BY <4>1, HookSteps
      <4>2. CASE hook' = [hook EXCEPT ![h] = Waiting]
        BY <4>2, HookRests
      <4>3. CASE \E id \in DOMAIN events : Request(h, id)
        BY <4>3, BillingFacts DEF Request
      <4> QED
        BY <1>4, <1>q, <3>3, <4>1, <4>2, <4>3
        DEF HookStep, Handle, Lookup, FindUser, AfterUser, InsertUser, UpsertSubscription, RemovePending, Record,
            Fail, Acknowledge, HookPlaces
    <3> QED
      BY <3>1, <3>2, <3>3
  <2>5. CASE account
    <3>1. PICK id \in DOMAIN events :
            /\ events[id].kind = "completed" /\ id \notin answered
            /\ \A g \in Hooks : hook[g].event = id => hook[g].at # "insert"
      BY <1>p, <2>5
    <3>2. id \notin answered'
      BY <1>4, <1>p, <3>1, AnswersOf DEF InsertUser, Record
    <3>3. hook'[h].event = id => hook'[h].at # "insert"
      <4>1. CASE FindUser(h)
        BY <2>5, <4>1, HookSteps DEF FindUser, AfterUser, HookPlaces
      <4>2. CASE ~FindUser(h)
        <5>1. CASE \E place \in HookPlaces \ {"insert"} : Step(h, place)
          BY <5>1, HookSteps
        <5>2. CASE hook' = [hook EXCEPT ![h] = Waiting]
          BY <5>2, HookRests
        <5>3. CASE \E d \in DOMAIN events : Request(h, d)
          BY <5>3, BillingFacts DEF Request
        <5> QED
          BY <1>4, <4>2, <5>1, <5>2, <5>3
          DEF HookStep, Handle, Lookup, FindPending, InsertUser, UpsertSubscription, RemovePending, ApplyChange, Record,
              Fail, Acknowledge, HookPlaces
      <4> QED
        BY <4>1, <4>2
    <3>4. \A g \in Hooks : hook'[g].event = id => hook'[g].at # "insert"
      BY <2>1, <3>1, <3>3
    <3> QED
      BY <1>p, <2>1, <2>2, <2>3, <2>4, <2>5, <3>1, <3>2, <3>4 DEF AccountInv, Completed
  <2>6. CASE ~account /\ InsertUser(h)
    <3>1. /\ Step(h, "upsert") /\ answered' = answered /\ account' /\ hook[h].at = "insert"
          /\ "upsert" \in HookPlaces
      BY <2>6 DEF InsertUser, HookPlaces
    <3>2. PICK id \in DOMAIN events : id = hook[h].event
      BY <1>q, <3>1
    <3>3. events[id].kind = "completed" /\ id \notin answered'
      BY <1>p, <1>q, <2>6, <3>1, <3>2
    <3>4. \A g \in Hooks : hook'[g].event = id => hook'[g].at # "insert"
      BY <1>q, <2>1, <3>1, <3>2, <3>3, HookSteps
    <3> QED
      BY <1>p, <2>1, <2>2, <2>3, <2>4, <3>1, <3>2, <3>3, <3>4 DEF AccountInv, Completed
  <2>7. CASE ~account /\ ~InsertUser(h)
    <3>1. ~account'
      BY <1>4, <2>7 DEF HookStep, Handle, Lookup, FindPending, FindUser, UpsertSubscription, RemovePending, ApplyChange,
                        Record, Fail, Request
    <3>2. \A id \in answered' : events[id].kind # "completed"
      BY <1>4, <1>p, <2>7, AnswersOf DEF Record
    <3> QED
      BY <1>p, <2>1, <2>2, <2>3, <2>4, <3>1, <3>2 DEF AccountInv, Completed
  <2> QED
    BY <2>5, <2>6, <2>7
<1>5. CASE Restart
  <2>1. \A h \in Hooks : hook'[h].at = "idle"
    BY <1>5 DEF Restart, Waiting
  <2> QED
    BY <1>5, <1>p, <2>1 DEF Restart, stripeVars, AccountInv, Completed
<1>6. CASE UNCHANGED billingVars
  BY <1>1, <1>6, <1>p DEF billingVars
<1> QED
  BY <1>2, <1>3, <1>4, <1>5, <1>6 DEF BillingNext, CheckoutStep, StripeStep, HookStep

-----------------------------------------------------------------------------
(* Billing: the last word of a subscription *)

\* How a handler gets past the lookup, and to the place where its event is recorded.
LEMMA HandlerGoesOn ==
  ASSUME BillingInv, NEW h \in Hooks, HookStep(h)
  PROVE  /\ hook'[h].at \notin {"idle", "lookup"} =>
              /\ hook'[h].event = hook[h].event /\ Handling(h) /\ recorded' = recorded
              /\ hook[h].at \in {"idle", "lookup"} => hook[h].event \notin recorded
         /\ hook'[h].at = "record" => Completed(hook[h].event) \/ ApplyChange(h)
         /\ hook'[h].at = "lookup" => \E id \in DOMAIN events : Request(h, id) /\ hook'[h].event = id
<1>h. HooksInv
  BY DEF BillingInv
<1>1. CASE \E id \in DOMAIN events : Request(h, id)
  <2>1. PICK id \in DOMAIN events : Request(h, id)
    BY <1>1
  <2>2. hook' = [hook EXCEPT ![h] = [at |-> "lookup", event |-> id]]
    BY <2>1 DEF Request
  <2>3. hook'[h] = [at |-> "lookup", event |-> id]
    BY <2>2, BillingFacts
  <2> QED
    BY <2>1, <2>3
<1>2. CASE Fail(h)
  BY <1>2, HookRests DEF Fail, Acknowledge
<1>3. CASE Lookup(h)
  <2>1. CASE Processed(hook[h].event)
    BY <1>3, <2>1, HookRests DEF Lookup, Acknowledge
  <2>2. CASE ~Processed(hook[h].event)
    <3>1. PICK place \in {"pending", "apply"} : Step(h, place)
      BY <1>3, <2>2 DEF Lookup
    <3>2. hook'[h].at = place /\ hook'[h].event = hook[h].event
      BY <3>1, HookSteps DEF HookPlaces
    <3> QED
      BY <1>3, <2>2, <3>2 DEF Lookup, Processed, Handling
  <2> QED
    BY <2>1, <2>2
<1>4. CASE FindPending(h)
  BY <1>4, <1>h, HookSteps DEF FindPending, HookPlaces, HooksInv, Handling
<1>5. CASE FindUser(h)
  BY <1>5, HookSteps DEF FindUser, AfterUser, HookPlaces, Handling
<1>6. CASE InsertUser(h)
  <2>1. CASE account
    BY <1>6, <2>1, HookRests DEF InsertUser, Acknowledge
  <2>2. CASE ~account
    BY <1>6, <2>2, HookSteps DEF InsertUser, HookPlaces, Handling
  <2> QED
    BY <2>1, <2>2
<1>7. CASE UpsertSubscription(h)
  BY <1>7, HookSteps DEF UpsertSubscription, HookPlaces, Handling
<1>8. CASE RemovePending(h)
  BY <1>8, <1>h, HookSteps DEF RemovePending, HookPlaces, HooksInv, Handling
<1>9. CASE ApplyChange(h)
  BY <1>9, HookSteps DEF ApplyChange, HookPlaces, Handling
<1>10. CASE Record(h)
  BY <1>10, HookRests DEF Record, Acknowledge
<1> QED
  BY <1>1, <1>2, <1>3, <1>4, <1>5, <1>6, <1>7, <1>8, <1>9, <1>10 DEF HookStep, Handle

LEMMA OrderGrows ==
  ASSUME BillingInv, [BillingNext]_billingVars, inOrder', lapses' = {}
  PROVE  inOrder /\ lapses = {}
<1>1. inOrder
  BY DEF BillingNext, CheckEmail, CleanUpAndCreate, StorePending, TwoHoursPass, Pay, SubscriptionChanges, Raise,
         Handle, Lookup, FindPending, FindUser, InsertUser, UpsertSubscription, RemovePending, ApplyChange,
         Record, Fail, Request, Restart, billingVars
<1> QED
  BY <1>1, LapsesGrow

LEMMA OrderFacts ==
  ASSUME BillingInv, inOrder, lapses = {}
  PROVE  /\ \A h \in Hooks : Handling(h) /\ hook[h].event \notin recorded =>
              \A d \in DOMAIN events : d < hook[h].event /\ Of(d) = Of(hook[h].event) => d \in recorded
         /\ \A h, g \in Hooks :
              /\ Handling(h) /\ hook[h].event \notin recorded /\ Handling(g) /\ hook[g].event \notin recorded
              /\ Of(hook[h].event) = Of(hook[g].event)
              => h = g
         /\ \A h \in Hooks : hook[h].at \notin {"idle", "lookup"} => hook[h].event \notin recorded
         /\ \A e \in recorded \union answered :
              \A d \in DOMAIN events : d < e /\ Of(d) = Of(e) => d \in recorded
         /\ sub # NoSub => \E w \in DOMAIN events : Stands(w)
BY DEF BillingInv, OrderInv, Earlier, Of

\* The event that is written to the row is the last one of its subscription that was begun.
LEMMA WrittenStands ==
  ASSUME BillingInv, inOrder, lapses = {}, NEW h \in Hooks, hook[h].at \in {"upsert", "apply"}
  PROVE  /\ \A d \in recorded \union answered : Of(d) = Of(hook[h].event) => d <= hook[h].event
         /\ \A g \in Hooks : hook[g].at = "record" => Of(hook[g].event) # Of(hook[h].event)
<1>1. Handling(h) /\ hook[h].event \notin recorded /\ hook[h].event \in DOMAIN events
  BY OrderFacts, BillingFacts DEF Handling
<1>2. \A d \in recorded \union answered : d \in Nat /\ hook[h].event \in Nat
  BY <1>1, BillingFacts
<1>3. \A d \in recorded \union answered : Of(d) = Of(hook[h].event) => d <= hook[h].event
  BY <1>1, <1>2, OrderFacts
<1>4. \A g \in Hooks : hook[g].at = "record" => Of(hook[g].event) # Of(hook[h].event)
  BY <1>1, OrderFacts DEF Handling
<1> QED
  BY <1>3, <1>4

LEMMA StandsStays ==
  ASSUME BillingInv, inOrder, lapses = {}, lapses' = {}, NEW h \in Hooks, HookStep(h), sub' # NoSub
  PROVE  \E w \in DOMAIN events' : Stands(w)'
<1>1. /\ \A g \in Hooks : g # h => hook'[g] = hook[g]
      /\ UNCHANGED <<checkout, stripe, events>>
      /\ answered' \subseteq answered \union {hook[h].event}
      /\ recorded' \subseteq recorded \union {hook[h].event}
  BY HandlerFacts
<1>e. \A d, e \in DOMAIN events : Completed(d) /\ Of(d) = Of(e) => d <= e
  BY DEF BillingInv, EventsInv
<1>2. CASE \/ UpsertSubscription(h)
           \/ ApplyChange(h) /\ sub.of = Event(h).of
  <2>1. PICK w \in DOMAIN events : w = hook[h].event
    BY <1>2, BillingFacts DEF UpsertSubscription, ApplyChange, Handling
  <2>2. sub'.of = events[w].of /\ sub'.status = events[w].status
    <3>1. CASE UpsertSubscription(h)
      <4>1. Completed(w)
        BY <2>1, <3>1 DEF BillingInv, HooksInv, UpsertSubscription
      <4>2. events[w].status = "active"
        BY <4>1 DEF BillingInv, EventsInv
      <4> QED
        BY <2>1, <3>1, <4>2 DEF UpsertSubscription, Event
    <3>2. CASE ApplyChange(h) /\ sub.of = Event(h).of
      <4>1. StatusOf(events[w]) = events[w].status
        BY DEF BillingInv, EventsInv, StatusOf
      <4>2. sub \in [of : Checkouts, status : Statuses]
        <5>1. Event(h).of \in Checkouts
          BY <2>1, BillingFacts DEF Event, EventRecords
        <5> QED
          BY <3>2, <5>1, BillingAssumption DEF BillingInv, BillingTypeOK, NoSub
      <4>3. sub' = [sub EXCEPT !.status = StatusOf(events[w])]
        BY <2>1, <3>2 DEF ApplyChange, Event
      <4> QED
        BY <2>1, <3>2, <4>1, <4>2, <4>3 DEF Event
    <3> QED
      BY <1>2, <3>1, <3>2
  <2>3. UNCHANGED <<recorded, answered>> /\ hook[h].at \in {"upsert", "apply"} /\ w <= w
    <3>1. w \in Nat
      BY <2>1, BillingFacts
    <3>2. w <= w
      BY <3>1
    <3>3. UNCHANGED <<recorded, answered>> /\ hook[h].at \in {"upsert", "apply"}
      BY <1>2 DEF UpsertSubscription, ApplyChange
    <3> QED
      BY <3>2, <3>3
  <2>4. hook'[h].event = hook[h].event
    BY <1>2, HookSteps DEF UpsertSubscription, ApplyChange, HookPlaces
  <2>5. \A d \in recorded' \union answered' : events'[d].of = sub'.of => d <= w
    BY <1>1, <2>1, <2>2, <2>3, WrittenStands DEF Of
  <2>6. \A g \in Hooks : hook'[g].at = "record" /\ events'[hook'[g].event].of = sub'.of => hook'[g].event <= w
    BY <1>1, <2>1, <2>2, <2>3, <2>4, WrittenStands DEF Of
  <2> QED
    BY <1>1, <2>2, <2>5, <2>6 DEF Stands, Of
<1>3. CASE ~UpsertSubscription(h) /\ ~(ApplyChange(h) /\ sub.of = Event(h).of)
  <2>1. sub' = sub
    BY <1>3 DEF HookStep, Handle, Lookup, FindPending, FindUser, InsertUser, RemovePending, ApplyChange, Record,
                Fail, Request
  <2>2. PICK w \in DOMAIN events : Stands(w)
    BY <2>1, OrderFacts
  <2>3. ASSUME NEW d \in recorded' \union answered', events[d].of = sub.of
        PROVE  d <= w
    <3>1. CASE d \in recorded \union answered
      BY <2>2, <2>3, <3>1 DEF Stands, Of
    <3>2. CASE d \notin recorded \union answered
      <4>1. d = hook[h].event /\ ((InsertUser(h) /\ account) \/ Record(h))
        BY <3>2, AnswersOf, <1>1
      <4>2. CASE Record(h)
        BY <2>2, <2>3, <4>1, <4>2 DEF Record, Stands, Of
      <4>3. CASE InsertUser(h)
        <5>1. Completed(d) /\ d \in DOMAIN events
          BY <4>1, <4>3, BillingFacts DEF InsertUser, BillingInv, HooksInv, Handling
        <5> QED
          BY <1>e, <2>2, <2>3, <5>1 DEF Stands, Of
      <4> QED
        BY <4>1, <4>2, <4>3
    <3> QED
      BY <3>1, <3>2
  <2>4. ASSUME hook'[h].at = "record", events[hook'[h].event].of = sub.of
        PROVE  hook'[h].event <= w
    <3>1. hook'[h].event = hook[h].event /\ hook[h].event \in DOMAIN events
      BY <2>4, HandlerGoesOn, BillingFacts
    <3>2. Completed(hook[h].event)
      BY <1>3, <2>4, <3>1, HandlerGoesOn DEF Event
    <3> QED
      BY <1>e, <2>2, <2>4, <3>1, <3>2 DEF Stands, Of
  <2> QED
    BY <1>1, <2>1, <2>2, <2>3, <2>4 DEF Stands, Of
<1> QED
  BY <1>2, <1>3

\* What a handler leaves of the order, when no event was begun early.
LEMMA OrderStaysAtHook ==
  ASSUME BillingInv, inOrder, inOrder', lapses = {}, lapses' = {}, NEW h \in Hooks, HookStep(h)
  PROVE  OrderInv'
<1>1. /\ \A g \in Hooks : g # h => hook'[g] = hook[g]
      /\ UNCHANGED <<checkout, stripe, events>>
      /\ recorded \subseteq recorded' /\ recorded' \subseteq recorded \union {hook[h].event}
      /\ answered' \subseteq answered \union {hook[h].event}
  BY HandlerFacts
<1>2. \A g \in Hooks : hook'[g].at # "idle" =>
        \/ hook[g].at # "idle" /\ hook'[g].event = hook[g].event
        \/ g = h /\ \E id \in DOMAIN events : Request(h, id) /\ hook'[h].event = id
  BY <1>1, HandlerFacts DEF Handling
<1>3. \A id \in DOMAIN events : Request(h, id) =>
        \/ id \in recorded
        \/ /\ \A d \in DOMAIN events : d < id /\ events[d].of = events[id].of => d \in recorded
           /\ \A g \in Hooks : hook[g].at # "idle" => events[hook[g].event].of # events[id].of
  BY DEF Request, OrderKept, Earlier
<1>4. /\ \A g \in Hooks : hook[g].at # "idle" /\ hook[g].event \notin recorded =>
           \A d \in DOMAIN events : d < hook[g].event /\ events[d].of = events[hook[g].event].of => d \in recorded
      /\ \A f, g \in Hooks :
           /\ hook[f].at # "idle" /\ hook[f].event \notin recorded
           /\ hook[g].at # "idle" /\ hook[g].event \notin recorded
           /\ events[hook[f].event].of = events[hook[g].event].of
           => f = g
      /\ \A g \in Hooks : hook[g].at \notin {"idle", "lookup"} => hook[g].event \notin recorded
      /\ \A e \in recorded \union answered :
           \A d \in DOMAIN events : d < e /\ events[d].of = events[e].of => d \in recorded
  BY OrderFacts DEF Handling, Of
<1>5. \A g \in Hooks : hook'[g].at # "idle" /\ hook'[g].event \notin recorded' =>
        \A d \in DOMAIN events :
          d < hook'[g].event /\ events[d].of = events[hook'[g].event].of => d \in recorded'
  BY <1>1, <1>2, <1>3, <1>4
<1>6. ASSUME NEW f \in Hooks, NEW g \in Hooks,
             hook'[f].at # "idle", hook'[f].event \notin recorded',
             hook'[g].at # "idle", hook'[g].event \notin recorded',
             events[hook'[f].event].of = events[hook'[g].event].of
      PROVE  f = g
  BY <1>1, <1>2, <1>3, <1>4, <1>6
<1>7. ASSUME NEW g \in Hooks, hook'[g].at \notin {"idle", "lookup"}
      PROVE  hook'[g].event \notin recorded'
  <2>1. CASE g = h
    <3>1. hook'[h].event = hook[h].event /\ recorded' = recorded
      BY <1>7, <2>1, HandlerGoesOn
    <3>2. hook[h].event \notin recorded
      BY <1>4, <1>7, <2>1, HandlerGoesOn
    <3> QED
      BY <2>1, <3>1, <3>2
  <2>2. CASE g # h
    <3>1. hook'[g] = hook[g] /\ hook[g].event \notin recorded
      BY <1>1, <1>4, <1>7, <2>2
    <3>2. CASE recorded' = recorded
      BY <3>1, <3>2
    <3>3. CASE recorded' # recorded
      <4>1. hook[h].at = "record" /\ hook[h].event \notin recorded
        BY <1>4, <3>3, AnswersOf DEF Record
      <4>2. hook[h].event # hook[g].event
        BY <1>4, <1>7, <2>2, <3>1, <4>1
      <4> QED
        BY <1>1, <3>1, <4>2
    <3> QED
      BY <3>2, <3>3
  <2> QED
    BY <2>1, <2>2
<1>8. ASSUME NEW e \in recorded' \union answered', NEW d \in DOMAIN events,
             d < e, events[d].of = events[e].of
      PROVE  d \in recorded'
  <2>1. CASE e \in recorded \union answered
    BY <1>1, <1>4, <1>8, <2>1
  <2>2. CASE e \notin recorded \union answered
    <3>1. e = hook[h].event /\ ((InsertUser(h) /\ account) \/ Record(h))
      BY <1>1, <2>2, AnswersOf
    <3>2. CASE Record(h)
      <4>1. hook[h].at # "idle" /\ hook[h].event \notin recorded
        BY <1>4, <3>2 DEF Record
      <4> QED
        BY <1>1, <1>4, <1>8, <3>1, <4>1
    <3>3. CASE InsertUser(h)
      <4>1. hook[h].at # "idle" /\ hook[h].event \notin recorded
        BY <1>4, <3>3 DEF InsertUser
      <4> QED
        BY <1>1, <1>4, <1>8, <3>1, <4>1
    <3> QED
      BY <3>1, <3>2, <3>3
  <2> QED
    BY <2>1, <2>2
<1>9. sub' # NoSub => \E w \in DOMAIN events' : Stands(w)'
  BY StandsStays
<1> QED
  <2>1. events' = events
    BY <1>1
  <2> QED
    BY <1>5, <1>6, <1>7, <1>8, <1>9, <2>1 DEF OrderInv, Earlier, Of, Handling

LEMMA OrderStaysAtStripe ==
  ASSUME BillingInv, inOrder, lapses = {}, NEW c \in Checkouts, StripeStep(c)
  PROVE  OrderInv'
<1>1. PICK kind \in Kinds, status \in Statuses : Raise(kind, c, status)
  BY StripeRaises
<1>2. PICK n : n = Len(events) + 1
  OBVIOUS
<1>3. /\ DOMAIN events' = DOMAIN events \union {n} /\ \A id \in DOMAIN events : id < n /\ id \in Nat
      /\ n \in Nat /\ n \notin DOMAIN events
      /\ \A id \in DOMAIN events : events'[id] = events[id]
  BY <1>1, <1>2, EventsGrow, BillingFacts
<1>4. UNCHANGED <<account, sub, recorded, answered, hook, inOrder, lapses>>
  BY RaiseLeaves
<1>5. /\ \A h \in Hooks : hook[h].at # "idle" => hook[h].event \in DOMAIN events
      /\ recorded \subseteq DOMAIN events /\ answered \subseteq DOMAIN events
  BY BillingFacts DEF Handling
<1>6. \A e \in DOMAIN events : \A d \in DOMAIN events' : d < e => d \in DOMAIN events
  BY <1>3
<1>7. \A g \in Hooks : hook[g].at # "idle" /\ hook[g].event \notin recorded =>
        \A d \in DOMAIN events' :
          d < hook[g].event /\ events'[d].of = events'[hook[g].event].of => d \in recorded
  BY <1>3, <1>5, <1>6, OrderFacts DEF Handling, Of
<1>8. \A f, g \in Hooks :
        /\ hook[f].at # "idle" /\ hook[f].event \notin recorded
        /\ hook[g].at # "idle" /\ hook[g].event \notin recorded
        /\ events'[hook[f].event].of = events'[hook[g].event].of
        => f = g
  BY <1>3, <1>5, OrderFacts DEF Handling, Of
<1>9. \A g \in Hooks : hook[g].at \notin {"idle", "lookup"} => hook[g].event \notin recorded
  BY OrderFacts
<1>10. \A e \in recorded \union answered :
         \A d \in DOMAIN events' : d < e /\ events'[d].of = events'[e].of => d \in recorded
  BY <1>3, <1>5, <1>6, OrderFacts DEF Of
<1>11. sub # NoSub => \E w \in DOMAIN events' : Stands(w)'
  <2> SUFFICES ASSUME sub # NoSub
               PROVE  \E w \in DOMAIN events' : Stands(w)'
    OBVIOUS
  <2>1. PICK w \in DOMAIN events : Stands(w)
    BY OrderFacts
  <2>2. events'[w] = events[w] /\ w \in DOMAIN events'
    BY <1>3
  <2>3. \A d \in recorded \union answered : events'[d].of = sub.of => d <= w
    BY <1>3, <1>5, <2>1 DEF Stands, Of
  <2>4. \A h \in Hooks : hook[h].at = "record" /\ events'[hook[h].event].of = sub.of => hook[h].event <= w
    BY <1>3, <1>5, <2>1 DEF Stands, Of
  <2>5. events'[w].of = sub.of /\ sub.status = events'[w].status
    BY <2>1, <2>2 DEF Stands, Of
  <2> QED
    BY <1>4, <2>2, <2>3, <2>4, <2>5 DEF Stands, Of
<1> QED
  BY <1>4, <1>7, <1>8, <1>9, <1>10, <1>11 DEF OrderInv, Earlier, Of, Handling

LEMMA OrderStays ==
  ASSUME BillingInv, [BillingNext]_billingVars
  PROVE  OrderInv'
<1> SUFFICES ASSUME inOrder', lapses' = {}
             PROVE  OrderInv'
  BY DEF OrderInv
<1>1. inOrder /\ lapses = {}
  BY OrderGrows
<1>2. CASE \E c \in Checkouts : CheckoutStep(c)
  <2>1. UNCHANGED <<account, sub, events, recorded, answered, hook, inOrder>>
    BY <1>2, CheckoutLeaves
  <2> QED
    BY <1>1, <2>1 DEF BillingInv, OrderInv, Earlier, Of, Handling, Stands
<1>3. CASE \E c \in Checkouts : StripeStep(c)
  BY <1>1, <1>3, OrderStaysAtStripe
<1>4. CASE \E h \in Hooks : HookStep(h)
  BY <1>1, <1>4, OrderStaysAtHook
<1>5. CASE Restart
  <2>1. UNCHANGED <<sub, events, recorded, answered>>
    BY <1>5 DEF Restart, stripeVars
  <2>2. \A h \in Hooks : hook'[h].at = "idle"
    BY <1>5 DEF Restart, Waiting
  <2>3. \A d \in recorded \union answered :
          \A e \in DOMAIN events : e < d /\ Of(e) = Of(d) => e \in recorded
    BY <1>1, OrderFacts
  <2>4. sub # NoSub => \E w \in DOMAIN events : Stands(w)'
    BY <1>1, <2>1, <2>2, OrderFacts DEF Stands, Of
  <2> QED
    BY <2>1, <2>2, <2>3, <2>4 DEF OrderInv, Earlier, Of, Handling
<1>6. CASE UNCHANGED billingVars
  BY <1>1, <1>6 DEF BillingInv, OrderInv, Earlier, Of, Handling, Stands, billingVars
<1> QED
  BY <1>2, <1>3, <1>4, <1>5, <1>6 DEF BillingNext, HookStep, CheckoutStep, StripeStep

LEMMA BillingInvHolds == BillingSpec => []BillingInv
<1>1. BillingInit => BillingInv
  <2> SUFFICES ASSUME BillingInit
               PROVE  BillingInv
    OBVIOUS
  <2>1. BillingTypeOK
    <3>1. /\ events = <<>> /\ events \in Seq([kind : Kinds, of : Checkouts, status : Statuses])
          /\ hook \in [Hooks -> [at : {"idle", "lookup", "pending", "user", "insert", "upsert", "remove",
                                       "apply", "record"},
                                 event : 0 .. MaxEvents]]
      BY BillingAssumption DEF BillingInit, Waiting
    <3>2. /\ sub \in [of : Checkouts, status : Statuses] \union {NoSub}
          /\ recorded \subseteq DOMAIN events /\ answered \subseteq DOMAIN events
          /\ checkout \in [Checkouts -> {"new", "checked", "created", "open", "paid", "refused"}]
          /\ pending \in [Checkouts -> {"none", "fresh", "expired"}]
          /\ stripe \in [Checkouts -> Statuses \union {"none"}]
      BY DEF BillingInit
    <3>3. repeats \in 0 .. MaxRepeats /\ breaks \in 0 .. MaxBreaks
      BY BillingAssumption DEF BillingInit
    <3>4. account \in BOOLEAN /\ inOrder \in BOOLEAN /\ lapses \subseteq {"failed", "expired"}
      BY DEF BillingInit
    <3> QED
      BY <3>1, <3>2, <3>3, <3>4 DEF BillingTypeOK
  <2>2. EventsInv
    BY BillingAssumption DEF BillingInit, EventsInv
  <2>3. HooksInv
    BY DEF BillingInit, HooksInv, Handling, Waiting
  <2>4. AccountInv
    BY DEF BillingInit, AccountInv, Waiting
  <2>5. OrderInv
    BY DEF BillingInit, OrderInv, Handling, Waiting
  <2> QED
    BY <2>1, <2>2, <2>3, <2>4, <2>5 DEF BillingInv
<1>2. BillingInv /\ [BillingNext]_billingVars => BillingInv'
  BY BillingTypesStay, EventsStay, HooksStay, AccountStays, OrderStays DEF BillingInv
<1> QED
  BY <1>1, <1>2, PTL DEF BillingSpec

\* createCheckoutSession, Stripe and stripeWebhook keep the types of their rows and events.
THEOREM BillingTypeCorrect == BillingSpec => []BillingTypeOK
<1>1. BillingInv => BillingTypeOK
  BY DEF BillingInv
<1> QED
  BY <1>1, BillingInvHolds, PTL

\* stripeWebhook ends at what Stripe said last, and with an account for whoever paid, for any number
\* of checkouts, events and requests at the same time.
THEOREM EventsCountHold == BillingSpec => []EventsCount
<1>1. BillingInv => PaidHasAccount
  <2> SUFFICES ASSUME BillingInv, lapses = {}, NEW c \in Checkouts, checkout[c] = "paid",
                      \A id \in DOMAIN events : events[id].kind = "completed" => id \in answered
               PROVE  account /\ sub # NoSub
    BY DEF PaidHasAccount
  <2>1. PICK e \in DOMAIN events : Completed(e)
    BY DEF BillingInv, EventsInv
  <2>2. sub # NoSub
    BY <2>1 DEF BillingInv, AccountInv, Completed
  <2> QED
    BY <2>2 DEF BillingInv, HooksInv
<1>2. BillingInv => LastWordStands
  <2> SUFFICES ASSUME BillingInv, inOrder, lapses = {}, sub.of # NoCheckout,
                      \A id \in DOMAIN events : events[id].of = sub.of => id \in answered
               PROVE  sub.status = stripe[sub.of]
    BY DEF LastWordStands
  <2>1. PICK w \in DOMAIN events : Stands(w)
    BY OrderFacts DEF NoSub
  <2>2. \A d \in DOMAIN events : Of(d) = Of(w) => d <= w
    BY <2>1 DEF Stands, Of
  <2>3. stripe[Of(w)] = events[w].status
    BY <2>2 DEF BillingInv, EventsInv
  <2> QED
    BY <2>1, <2>3 DEF Stands, Of
<1> QED
  BY <1>1, <1>2, BillingInvHolds, PTL DEF EventsCount

-----------------------------------------------------------------------------
(* The lead, its replies and the labels under way *)

Labelled(r) == thread[r].label # "none"
OfWork(at) == {w \in work : w.at = at}

\* Labels are saved before they are copied, and the waiting time begins with a reply.
WorkInv ==
  /\ \A w \in OfWork("contact") : Labelled(w.row)
  /\ contact.since \in Inbound \union {0} /\ contact.cleared <= Len(thread)
  /\ \A r \in DOMAIN reminded : r > Len(thread) => reminded[r] = 0

\* The label of the newest labelled reply is on the lead, or on its way there.
LabelInv ==
  "torn" \notin mishaps =>
    \A r \in Inbound :
      Labelled(r) /\ NewestLabelled(r) =>
        contact.last = thread[r].label \/ \E w \in OfWork("contact") : w.row = r

\* With every reply labelled, the waiting time is right or will be looked at.
WaitInv ==
  "torn" \notin mishaps /\ ~answer /\ Unlabelled = {} /\ OfWork("contact") = {} =>
    contact.since = WaitsSince

\* No classification is under way for a label that the user gave.
HandInv ==
  \A r \in byHand : thread[r].source = "manual" /\ \A w \in OfWork("classify") : w.row # r

\* A mail of the mailbox is stored while it is flagged, and once more for each fault.
Stored(m) == {r \in Inbound : thread[r].mail = m}
CopiesInv ==
  \A m \in Mails \union Hooked :
    Cardinality(Stored(m)) <=
      faults + (IF m \in posted THEN 1 ELSE 0)
             + (IF m \in Mails /\ mailbox[m] \in {"flag", "seen"} THEN 1 ELSE 0)

\* Replies by persons since the last answer.
Persons == {r \in Inbound : r > AnsweredAt /\ thread[r].label \notin {"away", "gone"}}
Ended(r) == {q \in Inbound : q > r /\ thread[q].label = "gone"}
One(b) == IF b THEN 1 ELSE 0

\* A reminder is still to come for the waiting time of r, or may be when the row is looked at again.
ReminderInv ==
  "again" \notin mishaps =>
    \A r \in DOMAIN reminded :
      reminded[r] + One(contact.since = r /\ ~contact.notified)
                  + One(r \in Persons /\ ~(contact.since = r /\ WaitsSince = r))
        <= 1 + hands + Cardinality(Ended(r))

ReplyInv == ReplyTypeOK /\ WorkInv /\ LabelInv /\ WaitInv /\ HandInv /\ CopiesInv /\ ReminderInv

-----------------------------------------------------------------------------
(* Replies: the types *)

ReplyRecords == [mail : Mails \union Hooked, out : BOOLEAN, label : Labels \union {"none"},
                 source : {"none", "auto", "manual"}]
ContactRecords == [last : Labels \union {"none"}, since : 0 .. MaxRows, notified : BOOLEAN, cleared : 0 .. MaxRows]

LEMMA ReplyFacts ==
  ASSUME ReplyTypeOK
  PROVE  /\ thread \in Seq(ReplyRecords) /\ Len(thread) \in Nat /\ Len(thread) <= MaxRows /\ MaxRows \in Nat
         /\ DOMAIN thread = 1 .. Len(thread)
         /\ \A r \in DOMAIN thread : r \in Nat /\ r # 0 /\ r <= Len(thread) /\ thread[r] \in ReplyRecords
         /\ Inbound \subseteq DOMAIN thread
         /\ contact \in ContactRecords
         /\ \A w \in work : /\ w.by \in Labellers /\ w.at \in {"classify", "contact"} /\ w.row \in Inbound
                            /\ w = Task(w.by, w.at, w.row)
         /\ faults \in Nat /\ hands \in Nat /\ "none" \notin Labels
<1>1. thread \in Seq(ReplyRecords) /\ contact \in ContactRecords
  BY DEF ReplyTypeOK, ReplyRecords, ContactRecords
<1>2. /\ Len(thread) \in Nat /\ DOMAIN thread = 1 .. Len(thread)
      /\ \A r \in DOMAIN thread : r \in Nat /\ r # 0 /\ r <= Len(thread) /\ thread[r] \in ReplyRecords
  BY <1>1
<1>3. \A w \in work : /\ w.by \in Labellers /\ w.at \in {"classify", "contact"} /\ w.row \in Inbound
                      /\ w = Task(w.by, w.at, w.row)
  BY DEF ReplyTypeOK, Task
<1>4. MaxRows \in Nat /\ faults \in Nat /\ hands \in Nat /\ "none" \notin Labels
  BY RepliesAssumption DEF ReplyTypeOK
<1> QED
  BY <1>1, <1>2, <1>3, <1>4 DEF ReplyTypeOK, Inbound

\* A row is added, unlabelled, at the end.
LEMMA Appended ==
  ASSUME ReplyTypeOK, Len(thread) < MaxRows, NEW m \in Mails \union Hooked, NEW out \in BOOLEAN,
         thread' = Append(thread, [mail |-> m, out |-> out, label |-> "none", source |-> "none"])
  PROVE  \E n \in Nat :
           /\ n = Len(thread) + 1 /\ n \notin DOMAIN thread /\ n <= MaxRows
           /\ Len(thread') = n /\ DOMAIN thread' = DOMAIN thread \union {n}
           /\ thread' \in Seq(ReplyRecords)
           /\ \A r \in DOMAIN thread : r < n /\ thread'[r] = thread[r]
           /\ thread'[n].mail = m /\ thread'[n].out = out /\ thread'[n].label = "none"
           /\ thread'[n].source = "none"
           /\ Inbound' = IF out THEN Inbound ELSE Inbound \union {n}
<1>1. PICK n \in Nat : n = Len(thread) + 1
  BY ReplyFacts
<1>2. PICK e : e = [mail |-> m, out |-> out, label |-> "none", source |-> "none"]
  OBVIOUS
<1>3. e \in ReplyRecords /\ e.mail = m /\ e.out = out /\ e.label = "none" /\ e.source = "none"
  BY <1>2 DEF ReplyRecords
<1>4. thread' = Append(thread, e)
  BY <1>2
<1>5. /\ Len(thread') = n /\ DOMAIN thread' = 1 .. n /\ thread' \in Seq(ReplyRecords)
      /\ \A r \in 1 .. Len(thread) : thread'[r] = thread[r]
      /\ thread'[n] = e
  BY <1>1, <1>3, <1>4, ReplyFacts
<1>6. /\ n \notin DOMAIN thread /\ DOMAIN thread' = DOMAIN thread \union {n} /\ n <= MaxRows
      /\ \A r \in DOMAIN thread : r < n /\ thread'[r] = thread[r]
  BY <1>1, <1>5, ReplyFacts
<1>7. Inbound' = IF out THEN Inbound ELSE Inbound \union {n}
  BY <1>3, <1>5, <1>6 DEF Inbound
<1> QED
  BY <1>1, <1>3, <1>5, <1>6, <1>7

\* A row gets a label.
LEMMA Relabelled ==
  ASSUME ReplyTypeOK, NEW q \in Inbound, NEW l \in Labels, NEW s \in {"none", "auto", "manual"},
         thread' = [thread EXCEPT ![q].label = l, ![q].source = s]
  PROVE  /\ thread' \in Seq(ReplyRecords) /\ Len(thread') = Len(thread) /\ DOMAIN thread' = DOMAIN thread
         /\ \A r \in DOMAIN thread : r # q => thread'[r] = thread[r]
         /\ \A r \in DOMAIN thread : thread'[r].mail = thread[r].mail /\ thread'[r].out = thread[r].out
         /\ thread'[q].label = l /\ thread'[q].source = s
         /\ Inbound' = Inbound
<1>1. q \in DOMAIN thread /\ thread[q] \in ReplyRecords
  BY ReplyFacts
<1>2. PICK e : e = [thread[q] EXCEPT !.label = l, !.source = s]
  OBVIOUS
<1>3. e \in ReplyRecords /\ e.label = l /\ e.source = s /\ e.mail = thread[q].mail /\ e.out = thread[q].out
  BY <1>1, <1>2 DEF ReplyRecords
<1>4. thread' = [thread EXCEPT ![q] = e]
  BY <1>2
<1>5. /\ thread' \in Seq(ReplyRecords) /\ Len(thread') = Len(thread) /\ DOMAIN thread' = DOMAIN thread
      /\ \A r \in DOMAIN thread : r # q => thread'[r] = thread[r]
      /\ thread'[q] = e
  <2>1. q \in 1 .. Len(thread) /\ thread \in Seq(ReplyRecords) /\ DOMAIN thread = 1 .. Len(thread)
    BY <1>1, ReplyFacts
  <2>2. /\ [thread EXCEPT ![q] = e] \in Seq(ReplyRecords)
        /\ Len([thread EXCEPT ![q] = e]) = Len(thread)
        /\ \A j \in 1 .. Len(thread) : [thread EXCEPT ![q] = e][j] = IF j = q THEN e ELSE thread[j]
    BY <2>1, <1>3, ExceptSeq
  <2>3. /\ thread' \in Seq(ReplyRecords) /\ Len(thread') = Len(thread)
        /\ \A j \in 1 .. Len(thread) : thread'[j] = IF j = q THEN e ELSE thread[j]
    BY <1>4, <2>2
  <2>4. DOMAIN thread' = 1 .. Len(thread')
    BY <2>3
  <2> QED
    BY <2>1, <2>3, <2>4
<1>6. Inbound' = Inbound
  BY <1>1, <1>3, <1>5 DEF Inbound
<1> QED
  BY <1>3, <1>5, <1>6

-----------------------------------------------------------------------------
(* Replies: where the waiting time begins *)

LEMMA LeastExists ==
  ASSUME NEW S \in SUBSET Nat, S # {}
  PROVE  \E r \in S : \A q \in S : r <= q
<1>1. \E x \in S : \A y \in S : ~ (<<y, x>> \in OpToRel(<, Nat))
  <2>1. IsWellFoundedOn(OpToRel(<, Nat), Nat)
    BY NatLessThanWellFounded
  <2> QED
    BY <2>1, WFMin
<1>2. \A x, y \in Nat : y < x => <<y, x>> \in OpToRel(<, Nat)
  BY DEF OpToRel
<1>3. PICK x \in S : \A y \in S : ~ (<<y, x>> \in OpToRel(<, Nat))
  BY <1>1
<1>4. \A y \in S : ~(y < x)
  BY <1>2, <1>3
<1> QED
  BY <1>4

LEMMA LeastIs ==
  ASSUME NEW S \in SUBSET Nat, S # {}
  PROVE  Least(S) \in S /\ \A q \in S : Least(S) <= q
BY LeastExists DEF Least

LEMMA GreatestIs ==
  ASSUME NEW n \in Nat, NEW S \in SUBSET (0 .. n), S # {}
  PROVE  Greatest(S) \in S /\ \A q \in S : Greatest(S) >= q
<1>0. {n - s : s \in S} \in SUBSET Nat
  OBVIOUS
<1>1. PICK T \in SUBSET Nat : T = {n - s : s \in S}
  BY <1>0
<1>2. T # {}
  BY <1>1
<1>3. PICK t \in T : \A u \in T : t <= u
  BY <1>2, LeastExists
<1>4. PICK s \in S : t = n - s
  BY <1>1, <1>3
<1>5. \A q \in S : s >= q
  <2> SUFFICES ASSUME NEW q \in S PROVE s >= q
    OBVIOUS
  <2>1. n - q \in T
    BY <1>1
  <2>2. n - s <= n - q
    BY <1>3, <1>4, <2>1
  <2>3. n \in Nat /\ q \in Nat /\ s \in Nat
    OBVIOUS
  <2> QED
    BY <2>2, <2>3
<1> QED
  BY <1>5 DEF Greatest

\* The waiting time as a function of the rows and of the last "Mark as done".
Received(th) == {r \in DOMAIN th : ~th[r].out}
AnsweredIn(th, c) == Greatest({c, 0} \union (DOMAIN th \ Received(th)))
RowsAfter(th, c) == {r \in Received(th) : r > AnsweredIn(th, c)}
PersonsIn(th, c) == {r \in RowsAfter(th, c) : th[r].label \notin {"away", "gone"}}
SinceIn(th, c) ==
  IF PersonsIn(th, c) = {} \/ th[Greatest(RowsAfter(th, c))].label = "gone" THEN 0
  ELSE Least(PersonsIn(th, c))

LEMMA SinceNow == WaitsSince = SinceIn(thread, contact.cleared) /\ Persons = PersonsIn(thread, contact.cleared)
BY DEF WaitsSince, SinceIn, Persons, PersonsIn, RowsAfter, AnsweredAt, AnsweredIn, Inbound, Received

LEMMA SinceNext ==
  /\ WaitsSince' = SinceIn(thread', contact'.cleared) /\ Persons' = PersonsIn(thread', contact'.cleared)
BY DEF WaitsSince, SinceIn, Persons, PersonsIn, RowsAfter, AnsweredAt, AnsweredIn, Inbound, Received

LEMMA RowsAre ==
  ASSUME NEW th \in Seq(ReplyRecords), NEW c \in 0 .. Len(th)
  PROVE  /\ Len(th) \in Nat /\ DOMAIN th = 1 .. Len(th) /\ Received(th) \subseteq DOMAIN th
         /\ AnsweredIn(th, c) \in 0 .. Len(th) /\ AnsweredIn(th, c) >= c
         /\ \A o \in DOMAIN th : th[o].out => AnsweredIn(th, c) >= o
         /\ RowsAfter(th, c) \subseteq 1 .. Len(th)
         /\ PersonsIn(th, c) \subseteq RowsAfter(th, c)
<1>1. Len(th) \in Nat /\ DOMAIN th = 1 .. Len(th) /\ Received(th) \subseteq DOMAIN th
  BY DEF Received
<1>2. PICK S : S = {c, 0} \union (DOMAIN th \ Received(th))
  OBVIOUS
<1>3. S \in SUBSET (0 .. Len(th)) /\ S # {} /\ c \in S /\ \A o \in DOMAIN th : th[o].out => o \in S
  BY <1>1, <1>2 DEF Received
<1>4. Greatest(S) \in S /\ \A q \in S : Greatest(S) >= q
  BY <1>1, <1>3, GreatestIs
<1>5. AnsweredIn(th, c) = Greatest(S)
  BY <1>2 DEF AnsweredIn
<1> QED
  BY <1>1, <1>3, <1>4, <1>5 DEF RowsAfter, PersonsIn

\* The first reply of a person, unless the newest reply says that the person is gone.
LEMMA SinceIs ==
  ASSUME NEW th \in Seq(ReplyRecords), NEW c \in 0 .. Len(th)
  PROVE  /\ SinceIn(th, c) \in PersonsIn(th, c) \union {0}
         /\ \A r \in PersonsIn(th, c) :
              SinceIn(th, c) = r <=>
                /\ \A p \in PersonsIn(th, c) : r <= p
                /\ \A q \in RowsAfter(th, c) :
                     (\A p \in RowsAfter(th, c) : p <= q) => th[q].label # "gone"
<1>1. /\ Len(th) \in Nat /\ RowsAfter(th, c) \in SUBSET (0 .. Len(th)) /\ RowsAfter(th, c) \subseteq Nat \ {0}
      /\ PersonsIn(th, c) \in SUBSET Nat /\ PersonsIn(th, c) \subseteq RowsAfter(th, c)
  BY RowsAre
<1>2. PICK P, R, s, g, l : /\ P = PersonsIn(th, c) /\ R = RowsAfter(th, c) /\ s = SinceIn(th, c)
                           /\ g = Greatest(RowsAfter(th, c)) /\ l = Least(PersonsIn(th, c))
  OBVIOUS
<1>3. CASE P = {}
  BY <1>2, <1>3 DEF SinceIn
<1>4. CASE P # {}
  <2>1. g \in R /\ \A q \in R : g >= q
    BY <1>1, <1>2, <1>4, GreatestIs
  <2>2. l \in P /\ \A q \in P : l <= q
    BY <1>1, <1>2, <1>4, LeastIs
  <2>3. s = IF th[g].label = "gone" THEN 0 ELSE l
    BY <1>2, <1>4 DEF SinceIn
  <2>4. R \subseteq Nat \ {0} /\ P \subseteq R
    BY <1>1, <1>2
  <2>5. \A q \in R : (\A p \in R : p <= q) <=> q = g
    BY <2>1, <2>4
  <2>6. \A r \in P : (\A p \in P : r <= p) <=> r = l
    BY <2>2, <2>4
  <2>7. s \in P \union {0} /\ \A r \in P : s = r <=> r = l /\ th[g].label # "gone"
    BY <2>2, <2>3, <2>4
  <2>8. \A r \in P : s = r <=> /\ \A p \in P : r <= p
                               /\ \A q \in R : (\A p \in R : p <= q) => th[q].label # "gone"
    BY <2>1, <2>5, <2>6, <2>7
  <2> QED
    BY <1>2, <2>7, <2>8
<1> QED
  BY <1>3, <1>4

\* After an answer, and after "Mark as done", nobody waits.
LEMMA NobodyWaits ==
  ASSUME NEW th \in Seq(ReplyRecords), NEW c \in 0 .. Len(th),
         c = Len(th) \/ (Len(th) # 0 /\ th[Len(th)].out)
  PROVE  PersonsIn(th, c) = {} /\ SinceIn(th, c) = 0
<1>1. AnsweredIn(th, c) >= Len(th)
  BY RowsAre
<1>2. RowsAfter(th, c) = {}
  BY <1>1, RowsAre DEF RowsAfter
<1> QED
  BY <1>2, RowsAre DEF SinceIn

\* Who waits goes on to wait when another reply comes.
LEMMA SinceAppended ==
  ASSUME NEW th \in Seq(ReplyRecords), NEW c \in 0 .. Len(th), NEW new \in Seq(ReplyRecords), NEW n \in Nat,
         n = Len(th) + 1, Len(new) = n, \A r \in DOMAIN th : new[r] = th[r],
         ~new[n].out, new[n].label = "none"
  PROVE  /\ PersonsIn(new, c) = PersonsIn(th, c) \union {n}
         /\ \A r \in PersonsIn(th, c) : SinceIn(th, c) = r => SinceIn(new, c) = r
<1>1. /\ c \in 0 .. Len(new) /\ Len(th) \in Nat /\ DOMAIN th = 1 .. Len(th) /\ DOMAIN new = 1 .. n
      /\ DOMAIN new = DOMAIN th \union {n} /\ n \notin DOMAIN th
  <2>1. Len(th) \in Nat /\ DOMAIN th = 1 .. Len(th) /\ DOMAIN new = 1 .. n
    OBVIOUS
  <2> QED
    BY <2>1
<1>2. Received(new) = Received(th) \union {n} /\ DOMAIN new \ Received(new) = DOMAIN th \ Received(th)
  BY <1>1 DEF Received
<1>3. AnsweredIn(new, c) = AnsweredIn(th, c)
  BY <1>2 DEF AnsweredIn
<1>4. AnsweredIn(th, c) \in Nat /\ AnsweredIn(th, c) < n
  BY RowsAre
<1>5. RowsAfter(new, c) = RowsAfter(th, c) \union {n}
  BY <1>2, <1>3, <1>4 DEF RowsAfter
<1>6. \A r \in RowsAfter(th, c) : r \in DOMAIN th /\ new[r] = th[r] /\ r < n /\ r \in Nat
  <2>1. RowsAfter(th, c) \subseteq 1 .. Len(th)
    BY RowsAre
  <2> QED
    BY <1>1, <2>1
<1>7. PersonsIn(new, c) = PersonsIn(th, c) \union {n}
  BY <1>5, <1>6 DEF PersonsIn
<1>8. ASSUME NEW r \in PersonsIn(th, c), SinceIn(th, c) = r
      PROVE  SinceIn(new, c) = r
  <2>1. \A p \in PersonsIn(th, c) : r <= p
    BY <1>8, SinceIs
  <2>2. r < n /\ r \in Nat /\ r <= n
    BY <1>6, RowsAre
  <2>3. \A p \in PersonsIn(new, c) : r <= p
    BY <1>7, <2>1, <2>2, Zenon
  <2>4. \A q \in RowsAfter(new, c) : (\A p \in RowsAfter(new, c) : p <= q) => q = n
    BY <1>5, <1>6
  <2> QED
    BY <1>1, <1>7, <2>3, <2>4, SinceIs
<1> QED
  BY <1>7, <1>8

\* A label changes who waits at its own reply only, and ends the waiting time of an earlier one
\* only with a "gone".
LEMMA SinceRelabelled ==
  ASSUME NEW th \in Seq(ReplyRecords), NEW c \in 0 .. Len(th), NEW new \in Seq(ReplyRecords), NEW q \in DOMAIN th,
         Len(new) = Len(th), \A r \in DOMAIN th : r # q => new[r] = th[r],
         new[q].out = th[q].out
  PROVE  /\ RowsAfter(new, c) = RowsAfter(th, c)
         /\ \A r : r # q => (r \in PersonsIn(new, c) <=> r \in PersonsIn(th, c))
         /\ \A r \in PersonsIn(th, c) :
              r # q /\ SinceIn(th, c) = r /\ SinceIn(new, c) # r =>
                \/ new[q].label = "gone" /\ th[q].label # "gone" /\ r < q /\ q \in RowsAfter(th, c)
                \/ q \in RowsAfter(th, c) \ PersonsIn(th, c) /\ (th[q].label # "gone" \/ q < r)
         /\ q \in PersonsIn(th, c) \intersect PersonsIn(new, c) /\ SinceIn(th, c) = q => SinceIn(new, c) = q
<1>1. /\ Len(th) \in Nat /\ DOMAIN th = 1 .. Len(th) /\ DOMAIN new = DOMAIN th
  BY RowsAre
<1>2. Received(new) = Received(th)
  BY <1>1 DEF Received
<1>3. RowsAfter(new, c) = RowsAfter(th, c)
  BY <1>1, <1>2 DEF AnsweredIn, RowsAfter
<1>4. \A r : r # q => (r \in PersonsIn(new, c) <=> r \in PersonsIn(th, c))
  BY <1>3, RowsAre DEF PersonsIn
<1>5. ASSUME NEW r \in PersonsIn(th, c), r # q, SinceIn(th, c) = r, SinceIn(new, c) # r,
             ~(q \in RowsAfter(th, c) \ PersonsIn(th, c) /\ (th[q].label # "gone" \/ q < r))
      PROVE  q \in RowsAfter(th, c) /\ new[q].label = "gone" /\ th[q].label # "gone" /\ r < q
  <2>1. /\ \A p \in PersonsIn(th, c) : r <= p
        /\ \A t \in RowsAfter(th, c) : (\A p \in RowsAfter(th, c) : p <= t) => th[t].label # "gone"
    BY <1>5, SinceIs
  <2>2. r \in PersonsIn(new, c) /\ r \in RowsAfter(th, c) /\ r \in DOMAIN th
    BY <1>4, <1>5, RowsAre
  <2>3. r \in Nat /\ q \in Nat
    BY <1>1, <2>2
  <2>4. q \in PersonsIn(new, c) => r <= q
    <3>1. PersonsIn(new, c) \subseteq RowsAfter(th, c)
      BY <1>3 DEF PersonsIn
    <3>2. CASE q \in PersonsIn(th, c)
      BY <2>1, <3>2
    <3>3. CASE q \notin PersonsIn(th, c)
      BY <1>5, <2>3, <3>1, <3>3
    <3> QED
      BY <3>2, <3>3
  <2>5. \A p \in PersonsIn(new, c) : r <= p
    BY <1>4, <2>1, <2>4, Zenon
  <2>6. PICK t \in RowsAfter(th, c) : (\A p \in RowsAfter(th, c) : p <= t) /\ new[t].label = "gone"
    <3>1. c \in 0 .. Len(new)
      OBVIOUS
    <3> QED
      BY <1>3, <1>5, <2>2, <2>5, <3>1, SinceIs
  <2>7. th[t].label # "gone" /\ t \in DOMAIN th
    BY <1>1, <2>1, <2>6, RowsAre
  <2>8. t = q
    BY <2>6, <2>7
  <2> QED
    BY <1>5, <2>2, <2>3, <2>6, <2>7, <2>8
<1>6. ASSUME q \in PersonsIn(th, c), q \in PersonsIn(new, c), SinceIn(th, c) = q
      PROVE  SinceIn(new, c) = q
  <2>1. /\ \A p \in PersonsIn(th, c) : q <= p
        /\ \A t \in RowsAfter(th, c) : (\A p \in RowsAfter(th, c) : p <= t) => th[t].label # "gone"
    BY <1>6, SinceIs
  <2>2. \A p \in PersonsIn(new, c) : q <= p
    BY <1>4, <1>6, <2>1, Zenon
  <2>3. \A t \in RowsAfter(th, c) : t \in DOMAIN th
    BY <1>1, RowsAre
  <2>4. new[q].label # "gone"
    BY <1>6 DEF PersonsIn
  <2>5. \A t \in RowsAfter(new, c) : (\A p \in RowsAfter(new, c) : p <= t) => new[t].label # "gone"
    BY <1>3, <2>1, <2>3, <2>4
  <2>6. c \in 0 .. Len(new)
    OBVIOUS
  <2> QED
    BY <1>6, <2>2, <2>5, <2>6, SinceIs
<1> QED
  BY <1>3, <1>4, <1>5, <1>6

-----------------------------------------------------------------------------
(* Replies: the steps *)

LEMMA WaitsSinceType ==
  ASSUME ReplyTypeOK, contact.cleared <= Len(thread)
  PROVE  WaitsSince \in Persons \union {0} /\ WaitsSince \in Inbound \union {0} /\ WaitsSince \in 0 .. MaxRows
<1>1. /\ thread \in Seq(ReplyRecords) /\ contact.cleared \in 0 .. Len(thread) /\ Len(thread) <= MaxRows
      /\ MaxRows \in Nat /\ Len(thread) \in Nat
  BY ReplyFacts DEF ContactRecords
<1>2. WaitsSince \in Persons \union {0} /\ Persons \subseteq 1 .. Len(thread)
  BY <1>1, SinceNow, SinceIs, RowsAre
<1> QED
  BY <1>1, <1>2 DEF Persons

LEMMA UpdateFacts ==
  ASSUME ReplyTypeOK, contact.cleared <= Len(thread), NEW w \in work, UpdateContact(w)
  PROVE  /\ w.at = "contact" /\ work' = work \ {w} /\ contact' \in ContactRecords
         /\ contact'.since = WaitsSince /\ contact'.cleared = contact.cleared
         /\ contact'.last = IF NewestLabelled(w.row) THEN thread[w.row].label ELSE contact.last
         /\ WaitsSince = contact.since => contact'.notified = contact.notified
         /\ UNCHANGED <<mailVars, thread, jobs, userVars, faults, reminded, mishaps>>
<1>1. /\ contact \in ContactRecords /\ WaitsSince \in 0 .. MaxRows /\ w.row \in DOMAIN thread
      /\ thread[w.row] \in ReplyRecords
  BY ReplyFacts, WaitsSinceType
<1>2. PICK s, old : s = WaitsSince /\ old = (w.by = "relabel")
  OBVIOUS
<1>3. PICK c : c = Recomputed(s, old)
  OBVIOUS
<1>4. /\ c \in ContactRecords /\ c.since = s /\ c.cleared = contact.cleared /\ c.last = contact.last
      /\ s = contact.since => c.notified = contact.notified
  <2>1. CASE contact.since = s
    BY <1>1, <1>3, <2>1 DEF Recomputed
  <2>2. CASE contact.since # s
    <3>1. c = [contact EXCEPT !.since = s, !.notified = s # 0 /\ old]
      BY <1>3, <2>2 DEF Recomputed
    <3>2. (s # 0 /\ old) \in BOOLEAN /\ s \in 0 .. MaxRows
      BY <1>1, <1>2
    <3> QED
      BY <1>1, <2>2, <3>1, <3>2 DEF ContactRecords
  <2> QED
    BY <2>1, <2>2
<1>5. contact' = [c EXCEPT !.last = IF NewestLabelled(w.row) THEN thread[w.row].label ELSE @]
  BY <1>2, <1>3 DEF UpdateContact, Rechecks
<1>6. thread[w.row].label \in Labels \union {"none"}
  BY <1>1 DEF ReplyRecords
<1>7. /\ contact' \in ContactRecords /\ contact'.since = c.since /\ contact'.cleared = c.cleared
      /\ contact'.notified = c.notified
      /\ contact'.last = IF NewestLabelled(w.row) THEN thread[w.row].label ELSE c.last
  BY <1>4, <1>5, <1>6 DEF ContactRecords
<1>8. /\ w.at = "contact" /\ work' = work \ {w}
      /\ UNCHANGED <<mailVars, thread, jobs, userVars, faults, reminded, mishaps>>
  BY DEF UpdateContact
<1> QED
  BY <1>2, <1>4, <1>7, <1>8

\* Steps by which the lead and its replies stay as they are.
QuietStep ==
  /\ UNCHANGED <<thread, contact, answer, byHand, hands, reminded, mishaps>>
  /\ \A w \in work' : w \in work \/ (w.at = "classify" /\ w.row \in Inbound /\ thread[w.row].source # "manual")
  /\ OfWork("contact") \subseteq work'

StoreStep ==
  /\ \E m \in Mails \union Hooked : Store(m)
  /\ UNCHANGED <<work, contact, answer, byHand, hands, faults, reminded, mishaps>>

LEMMA ReplyCases ==
  ASSUME ReplyTypeOK, [ReplyNext]_replyVars
  PROVE  \/ QuietStep \/ StoreStep
         \/ \E r \in Inbound, l \in Labels : LabelByHand(r, l)
         \/ \E w \in work : UpdateContact(w) \/ \E l \in Labels : SaveLabel(w, l)
         \/ SendAnswer \/ MarkReplied \/ MarkDone \/ Snooze \/ Remind \/ Stop
<1>1. ASSUME NEW m \in Mails, Arrive(m) \/ StoreMail(m) \/ Flag(m)
      PROVE  QuietStep \/ StoreStep
  BY <1>1 DEF Arrive, StoreMail, Flag, QuietStep, StoreStep, OfWork, userVars
<1>2. ASSUME NEW m \in Hooked, Post(m)
      PROVE  QuietStep \/ StoreStep
  BY <1>2 DEF Post, QuietStep, StoreStep, OfWork, userVars
<1>3. ASSUME NEW r \in DOMAIN thread, BeginQueued(r) \/ BeginRelabel(r)
      PROVE  QuietStep
  <2>1. r \in Inbound
    BY <1>3 DEF BeginQueued, BeginRelabel, Unlabelled, ReplyTypeOK
  <2>2. /\ UNCHANGED <<thread, contact, answer, byHand, hands, reminded, mishaps>>
        /\ \/ work' = work
           \/ thread[r].source # "manual" /\ \E by : work' = work \union {Task(by, "classify", r)}
    BY <1>3 DEF BeginQueued, BeginRelabel, Begin, userVars
  <2> QED
    BY <2>1, <2>2 DEF QuietStep, OfWork, Task
<1>4. ASSUME NEW w \in work, FailLabel(w)
      PROVE  QuietStep
  BY <1>4 DEF FailLabel, QuietStep, OfWork, userVars
<1>5. CASE UNCHANGED replyVars
  BY <1>5 DEF replyVars, QuietStep, OfWork
<1>6. ASSUME NEW r \in DOMAIN thread, NEW l \in Labels, LabelByHand(r, l)
      PROVE  r \in Inbound
  BY <1>6 DEF LabelByHand
<1> QED
  BY <1>1, <1>2, <1>3, <1>4, <1>5, <1>6 DEF ReplyNext

LEMMA ClearedFacts ==
  ASSUME ReplyTypeOK, contact' = Cleared
  PROVE  /\ contact' \in ContactRecords /\ contact'.since = 0 /\ contact'.cleared = Len(thread)
         /\ contact'.last = contact.last
<1>1. contact \in ContactRecords /\ Len(thread) \in 0 .. MaxRows /\ 0 \in 0 .. MaxRows
  BY ReplyFacts
<1>2. contact' = [contact EXCEPT !.since = 0, !.notified = FALSE, !.cleared = Len(thread)]
  BY DEF Cleared, ClearedUpTo
<1> QED
  BY <1>1, <1>2 DEF ContactRecords

LEMMA NotifiedFacts ==
  ASSUME ReplyTypeOK, NEW b \in BOOLEAN, contact' = [contact EXCEPT !.notified = b]
  PROVE  /\ contact' \in ContactRecords /\ contact'.since = contact.since /\ contact'.cleared = contact.cleared
         /\ contact'.last = contact.last /\ contact'.notified = b
BY ReplyFacts DEF ContactRecords

LEMMA SaveFacts ==
  ASSUME ReplyTypeOK, NEW w \in work, NEW l \in Labels, SaveLabel(w, l)
  PROVE  /\ w.at = "classify" /\ w.row \in Inbound /\ w.row \in DOMAIN thread
         /\ work' = (work \ {w}) \union {Task(w.by, "contact", w.row)}
         /\ mishaps' = IF thread[w.row].label = "none" THEN mishaps ELSE mishaps \union {"again"}
         /\ UNCHANGED <<mailVars, jobs, contact, userVars, faults, reminded>>
         /\ thread' \in Seq(ReplyRecords) /\ Len(thread') = Len(thread) /\ DOMAIN thread' = DOMAIN thread
         /\ \A r \in DOMAIN thread : r # w.row => thread'[r] = thread[r]
         /\ \A r \in DOMAIN thread : thread'[r].mail = thread[r].mail /\ thread'[r].out = thread[r].out
         /\ thread'[w.row].label = l /\ thread'[w.row].source = "auto"
         /\ Inbound' = Inbound
<1>1. /\ w.at = "classify" /\ w.row \in Inbound /\ w.row \in DOMAIN thread
      /\ work' = (work \ {w}) \union {Task(w.by, "contact", w.row)}
      /\ mishaps' = IF thread[w.row].label = "none" THEN mishaps ELSE mishaps \union {"again"}
      /\ UNCHANGED <<mailVars, jobs, contact, userVars, faults, reminded>>
      /\ thread' = [thread EXCEPT ![w.row].label = l, ![w.row].source = "auto"]
  BY ReplyFacts DEF SaveLabel
<1>2. PICK q \in Inbound : q = w.row
  BY <1>1
<1>3. thread' = [thread EXCEPT ![q].label = l, ![q].source = "auto"]
  BY <1>1, <1>2
<1> QED
  BY <1>1, <1>2, <1>3, Relabelled

LEMMA HandFacts ==
  ASSUME ReplyTypeOK, NEW q \in Inbound, NEW l \in Labels, LabelByHand(q, l)
  PROVE  /\ hands' = hands + 1 /\ hands < MaxHands
         /\ byHand' = IF \E w \in work : w.row = q THEN byHand ELSE byHand \union {q}
         /\ work' = work \union {Task("user", "contact", q)}
         /\ UNCHANGED <<mailVars, jobs, contact, answer, faults, reminded, mishaps>>
         /\ thread' \in Seq(ReplyRecords) /\ Len(thread') = Len(thread) /\ DOMAIN thread' = DOMAIN thread
         /\ \A r \in DOMAIN thread : r # q => thread'[r] = thread[r]
         /\ \A r \in DOMAIN thread : thread'[r].mail = thread[r].mail /\ thread'[r].out = thread[r].out
         /\ thread'[q].label = l /\ thread'[q].source = "manual"
         /\ Inbound' = Inbound /\ q \in DOMAIN thread
BY Relabelled, ReplyFacts DEF LabelByHand, Hand

LEMMA StoreFacts ==
  ASSUME ReplyTypeOK, NEW m \in Mails \union Hooked, Store(m)
  PROVE  \E n \in Nat :
           /\ n = Len(thread) + 1 /\ n \notin DOMAIN thread /\ n <= MaxRows
           /\ Len(thread') = n /\ DOMAIN thread' = DOMAIN thread \union {n}
           /\ thread' \in Seq(ReplyRecords)
           /\ \A r \in DOMAIN thread : r < n /\ thread'[r] = thread[r]
           /\ thread'[n].mail = m /\ ~thread'[n].out /\ thread'[n].label = "none"
           /\ thread'[n].source = "none"
           /\ Inbound' = Inbound \union {n} /\ jobs' = jobs \union {n}
BY Appended DEF Store

LEMMA AnswerFacts ==
  ASSUME ReplyTypeOK, SendAnswer
  PROVE  /\ answer' /\ UNCHANGED <<mailVars, jobs, work, contact, faults, hands, byHand, reminded, mishaps>>
         /\ \E n \in Nat :
              /\ n = Len(thread) + 1 /\ n \notin DOMAIN thread /\ n <= MaxRows
              /\ Len(thread') = n /\ DOMAIN thread' = DOMAIN thread \union {n}
              /\ thread' \in Seq(ReplyRecords)
              /\ \A r \in DOMAIN thread : r < n /\ thread'[r] = thread[r]
              /\ thread'[n].out /\ thread'[n].label = "none" /\ Inbound' = Inbound
<1>1. thread[1].mail \in Mails \union Hooked
  <2>1. 1 \in DOMAIN thread
    BY ReplyFacts DEF SendAnswer
  <2> QED
    BY <2>1, ReplyFacts DEF ReplyRecords
<1>2. /\ answer' /\ UNCHANGED <<mailVars, jobs, work, contact, faults, hands, byHand, reminded, mishaps>>
      /\ Len(thread) < MaxRows
      /\ thread' = Append(thread, [mail |-> thread[1].mail, out |-> TRUE, label |-> "none", source |-> "none"])
  BY DEF SendAnswer
<1>3. PICK m \in Mails \union Hooked : m = thread[1].mail
  BY <1>1
<1>4. thread' = Append(thread, [mail |-> m, out |-> TRUE, label |-> "none", source |-> "none"])
  BY <1>2, <1>3
<1> QED
  BY <1>2, <1>4, Appended

-----------------------------------------------------------------------------
(* Replies: the types stay *)

ReplyTypes ==
  /\ thread \in Seq(ReplyRecords) /\ Len(thread) <= MaxRows /\ contact \in ContactRecords
  /\ jobs \subseteq Inbound /\ byHand \subseteq Inbound
  /\ work \subseteq [by : Labellers, at : {"classify", "contact"}, row : Inbound]
  /\ mailbox \in [Mails -> {"none", "unseen", "flag", "seen"}] /\ posted \subseteq Hooked
  /\ answer \in BOOLEAN /\ faults \in 0 .. MaxFaults /\ hands \in 0 .. MaxHands
  /\ reminded \in [1 .. MaxRows -> Nat] /\ mishaps \subseteq {"torn", "again"}

LEMMA ReplyTypesStay ==
  ASSUME ReplyTypeOK, WorkInv, [ReplyNext]_replyVars
  PROVE  ReplyTypeOK'
<1> USE DEF userVars, mailVars
<1>f. /\ thread \in Seq(ReplyRecords) /\ Len(thread) <= MaxRows /\ contact \in ContactRecords
      /\ jobs \subseteq Inbound /\ byHand \subseteq Inbound
      /\ \A w \in work : w.by \in Labellers /\ w.at \in {"classify", "contact"} /\ w.row \in Inbound
      /\ mailbox \in [Mails -> {"none", "unseen", "flag", "seen"}] /\ posted \subseteq Hooked
      /\ answer \in BOOLEAN /\ faults \in 0 .. MaxFaults /\ hands \in 0 .. MaxHands
      /\ reminded \in [1 .. MaxRows -> Nat] /\ mishaps \subseteq {"torn", "again"}
      /\ work \subseteq [by : Labellers, at : {"classify", "contact"}, row : Inbound]
  BY ReplyFacts DEF ReplyTypeOK
<1>m. MaxFaults \in Nat /\ MaxHands \in Nat /\ MaxRows \in Nat /\ contact.cleared <= Len(thread)
  BY RepliesAssumption DEF WorkInv
<1>s. ReplyTypes' => ReplyTypeOK'
  BY DEF ReplyTypes, ReplyTypeOK, ReplyRecords, ContactRecords
<1>i. thread' = thread => Inbound' = Inbound
  BY DEF Inbound
<1>v. Fault => faults' \in 0 .. MaxFaults
  BY <1>f, <1>m DEF Fault
<1>1. ASSUME NEW m \in Mails, Arrive(m)
      PROVE  ReplyTypes'
  BY <1>f, <1>i, <1>1 DEF Arrive, ReplyTypes
<1>p. ASSUME NEW m \in Mails \union Hooked, Store(m), UNCHANGED <<work, contact, userVars, reminded, mishaps>>,
             mailbox' \in [Mails -> {"none", "unseen", "flag", "seen"}], posted' \subseteq Hooked,
             faults' \in 0 .. MaxFaults
      PROVE  ReplyTypes'
  <2>1. PICK n \in Nat : /\ thread' \in Seq(ReplyRecords) /\ Len(thread') = n /\ n <= MaxRows
                         /\ Inbound' = Inbound \union {n} /\ jobs' = jobs \union {n}
    BY <1>p, StoreFacts
  <2> QED
    BY <1>f, <1>p, <2>1 DEF ReplyTypes
<1>2. ASSUME NEW m \in Mails, StoreMail(m)
      PROVE  ReplyTypes'
  <2>1. mailbox' \in [Mails -> {"none", "unseen", "flag", "seen"}]
    BY <1>f, <1>2 DEF StoreMail
  <2>2. CASE Store(m) /\ UNCHANGED faults
    BY <1>f, <1>p, <1>2, <2>1, <2>2 DEF StoreMail
  <2>3. CASE Fault /\ UNCHANGED <<thread, jobs>>
    BY <1>f, <1>i, <1>v, <1>2, <2>1, <2>3 DEF StoreMail, ReplyTypes
  <2> QED
    BY <1>2, <2>2, <2>3 DEF StoreMail
<1>3. ASSUME NEW m \in Mails, Flag(m)
      PROVE  ReplyTypes'
  <2>1. mailbox' \in [Mails -> {"none", "unseen", "flag", "seen"}] /\ faults' \in 0 .. MaxFaults
    BY <1>f, <1>v, <1>3 DEF Flag
  <2> QED
    BY <1>f, <1>i, <1>3, <2>1 DEF Flag, ReplyTypes
<1>4. ASSUME NEW m \in Hooked, Post(m)
      PROVE  ReplyTypes'
  <2>1. posted' \subseteq Hooked
    BY <1>f, <1>4 DEF Post
  <2>2. CASE Store(m) /\ UNCHANGED faults
    BY <1>f, <1>p, <1>4, <2>1, <2>2 DEF Post
  <2>3. CASE Fault /\ UNCHANGED <<thread, jobs>>
    BY <1>f, <1>i, <1>v, <1>4, <2>1, <2>3 DEF Post, ReplyTypes
  <2> QED
    BY <1>4, <2>2, <2>3 DEF Post
<1>5. ASSUME NEW r \in DOMAIN thread, BeginQueued(r) \/ BeginRelabel(r)
      PROVE  ReplyTypes'
  <2>1. r \in Inbound /\ \A by \in Labellers : Task(by, "classify", r) \in [by : Labellers, at : {"classify", "contact"}, row : Inbound]
    BY <1>5 DEF BeginQueued, BeginRelabel, Unlabelled, ReplyTypeOK, Task
  <2>2. work' \subseteq [by : Labellers, at : {"classify", "contact"}, row : Inbound]
    BY <1>5, <1>f, <2>1 DEF BeginQueued, BeginRelabel, Begin, Labellers
  <2>3. /\ jobs' \subseteq jobs
        /\ UNCHANGED <<mailbox, posted, thread, contact, answer, hands, byHand, faults, reminded, mishaps>>
    BY <1>5 DEF BeginQueued, BeginRelabel
  <2> QED
    BY <1>f, <1>i, <2>2, <2>3 DEF ReplyTypes
<1>6. ASSUME NEW w \in work, NEW l \in Labels, SaveLabel(w, l)
      PROVE  ReplyTypes'
  <2>1. /\ Inbound' = Inbound /\ thread' \in Seq(ReplyRecords) /\ Len(thread') = Len(thread)
        /\ work' = (work \ {w}) \union {Task(w.by, "contact", w.row)}
        /\ mishaps' \subseteq mishaps \union {"again"}
        /\ UNCHANGED <<mailVars, jobs, contact, userVars, faults, reminded>>
    BY <1>6, SaveFacts
  <2>2. Task(w.by, "contact", w.row) \in [by : Labellers, at : {"classify", "contact"}, row : Inbound]
    BY <1>f DEF Task
  <2> QED
    BY <1>f, <2>1, <2>2 DEF ReplyTypes
<1>7. ASSUME NEW w \in work, FailLabel(w)
      PROVE  ReplyTypes'
  BY <1>f, <1>i, <1>v, <1>7 DEF FailLabel, ReplyTypes
<1>8. ASSUME NEW q \in DOMAIN thread, NEW l \in Labels, LabelByHand(q, l)
      PROVE  ReplyTypes'
  <2>1. q \in Inbound
    BY <1>8 DEF LabelByHand
  <2>2. /\ Inbound' = Inbound /\ thread' \in Seq(ReplyRecords) /\ Len(thread') = Len(thread)
        /\ work' = work \union {Task("user", "contact", q)} /\ byHand' \subseteq byHand \union {q}
        /\ UNCHANGED <<mailVars, jobs, contact, answer, faults, reminded, mishaps>>
        /\ hands' = hands + 1 /\ hands < MaxHands
    BY <1>8, <2>1, HandFacts
  <2>3. Task("user", "contact", q) \in [by : Labellers, at : {"classify", "contact"}, row : Inbound]
    BY <2>1 DEF Task, Labellers
  <2>4. hands' \in 0 .. MaxHands
    BY <1>f, <1>m, <2>2
  <2> QED
    BY <1>f, <2>1, <2>2, <2>3, <2>4 DEF ReplyTypes
<1>9. ASSUME NEW w \in work, UpdateContact(w)
      PROVE  ReplyTypes'
  BY <1>f, <1>i, <1>m, <1>9, UpdateFacts DEF ReplyTypes
<1>10. CASE SendAnswer
  <2>1. PICK n \in Nat : /\ thread' \in Seq(ReplyRecords) /\ Len(thread') = n /\ n <= MaxRows
                         /\ Inbound' = Inbound
    BY <1>10, AnswerFacts
  <2>2. answer' /\ UNCHANGED <<mailVars, jobs, work, contact, faults, hands, byHand, reminded, mishaps>>
    BY <1>10, AnswerFacts
  <2> QED
    BY <1>f, <1>s, <1>10, <2>1, <2>2 DEF ReplyTypes, SendAnswer
<1>11. CASE MarkReplied
  <2>1. contact' \in ContactRecords /\ faults' \in 0 .. MaxFaults /\ mishaps' \subseteq {"torn", "again"}
    BY <1>f, <1>v, <1>11, ClearedFacts DEF MarkReplied
  <2> QED
    BY <1>f, <1>i, <1>s, <1>11, <2>1 DEF MarkReplied, ReplyTypes
<1>12. CASE MarkDone \/ Snooze
  <2>1. contact' \in ContactRecords
    BY <1>12, ClearedFacts, NotifiedFacts DEF MarkDone, Snooze
  <2>2. hands' \in 0 .. MaxHands
    BY <1>f, <1>m, <1>12 DEF MarkDone, Snooze, Hand
  <2> QED
    BY <1>f, <1>i, <1>s, <1>12, <2>1, <2>2 DEF MarkDone, Snooze, ReplyTypes
<1>13. CASE Remind
  <2>1. contact' \in ContactRecords
    BY <1>13, NotifiedFacts DEF Remind
  <2>2. reminded' \in [1 .. MaxRows -> Nat]
    <3>1. contact.since \in 1 .. MaxRows
      BY <1>f, <1>m, <1>13 DEF Remind, ContactRecords
    <3>2. reminded[contact.since] + 1 \in Nat
      BY <1>f, <3>1
    <3> QED
      BY <1>f, <1>13, <3>2 DEF Remind
  <2> QED
    BY <1>f, <1>i, <1>s, <1>13, <2>1, <2>2 DEF Remind, ReplyTypes
<1>14. CASE Stop
  <2>1. mailbox' \in [Mails -> {"none", "unseen", "flag", "seen"}] /\ faults' \in 0 .. MaxFaults
    BY <1>f, <1>v, <1>14 DEF Stop
  <2>2. mishaps' \subseteq {"torn", "again"}
    BY <1>f, <1>14 DEF Stop
  <2> QED
    BY <1>f, <1>i, <1>s, <1>14, <2>1, <2>2 DEF Stop, ReplyTypes
<1>15. CASE UNCHANGED replyVars
  BY <1>f, <1>i, <1>s, <1>15 DEF replyVars, ReplyTypes
<1> QED
  BY <1>s, <1>1, <1>2, <1>3, <1>4, <1>5, <1>6, <1>7, <1>8, <1>9, <1>10, <1>11, <1>12, <1>13, <1>14, <1>15 DEF ReplyNext

-----------------------------------------------------------------------------
(* Replies: labels and their copies on the lead *)

LEMMA WorkFacts ==
  ASSUME ReplyTypeOK, WorkInv
  PROVE  /\ \A w \in work : w.at = "contact" => thread[w.row].label # "none"
         /\ \A w \in work : w.row \in Inbound /\ w.row \in DOMAIN thread
         /\ contact.since \in Inbound \union {0} /\ contact.cleared \in 0 .. Len(thread)
         /\ \A r \in DOMAIN reminded : r > Len(thread) => reminded[r] = 0
<1>1. contact.cleared \in 0 .. Len(thread)
  BY ReplyFacts DEF WorkInv, ContactRecords
<1>2. \A w \in work : w.row \in Inbound /\ w.row \in DOMAIN thread
  BY ReplyFacts
<1> QED
  BY <1>1, <1>2 DEF WorkInv, OfWork, Labelled

LEMMA WorkStays ==
  ASSUME ReplyTypeOK, WorkInv, [ReplyNext]_replyVars
  PROVE  WorkInv'
<1>f. /\ \A w \in work : w.at = "contact" => thread[w.row].label # "none"
      /\ \A w \in work : w.row \in Inbound /\ w.row \in DOMAIN thread
      /\ contact.since \in Inbound \union {0} /\ contact.cleared \in 0 .. Len(thread)
      /\ \A r \in DOMAIN reminded : r > Len(thread) => reminded[r] = 0
      /\ DOMAIN reminded = 1 .. MaxRows /\ Len(thread) \in Nat /\ "none" \notin Labels
      /\ \A r \in Inbound : r \in Nat /\ r # 0 /\ r <= Len(thread)
  BY WorkFacts, ReplyFacts DEF ReplyTypeOK
<1>s. ASSUME \A w \in work' : w.at = "contact" => thread'[w.row].label # "none",
             contact'.since \in Inbound' \union {0}, contact'.cleared <= Len(thread'),
             \A r \in DOMAIN reminded' : r > Len(thread') => reminded'[r] = 0
      PROVE  WorkInv'
  BY <1>s DEF WorkInv, OfWork, Labelled
<1>t. thread' = thread => Inbound' = Inbound
  BY DEF Inbound
<1>1. CASE QuietStep
  <2>1. \A w \in work' : w.at = "contact" => thread'[w.row].label # "none"
    BY <1>f, <1>1 DEF QuietStep
  <2> QED
    BY <1>f, <1>s, <1>t, <1>1, <2>1 DEF QuietStep
<1>2. CASE StoreStep
  <2>1. PICK n \in Nat : /\ n = Len(thread) + 1 /\ Len(thread') = n /\ Inbound' = Inbound \union {n}
                         /\ \A r \in DOMAIN thread : thread'[r] = thread[r]
    BY <1>2, StoreFacts DEF StoreStep
  <2>2. UNCHANGED <<work, contact, reminded>>
    BY <1>2 DEF StoreStep
  <2>3. \A w \in work' : w.at = "contact" => thread'[w.row].label # "none"
    BY <1>f, <2>1, <2>2
  <2>4. contact'.cleared <= Len(thread') /\ contact'.since \in Inbound' \union {0}
    BY <1>f, <2>1, <2>2
  <2>5. \A r \in DOMAIN reminded' : r > Len(thread') => reminded'[r] = 0
    BY <1>f, <2>1, <2>2
  <2> QED
    BY <1>s, <2>3, <2>4, <2>5
<1>3. ASSUME NEW q \in Inbound, NEW l \in Labels, LabelByHand(q, l)
      PROVE  WorkInv'
  <2>1. /\ work' = work \union {Task("user", "contact", q)} /\ UNCHANGED <<contact, reminded>>
        /\ Len(thread') = Len(thread) /\ Inbound' = Inbound
        /\ \A r \in DOMAIN thread : r # q => thread'[r] = thread[r]
        /\ thread'[q].label = l
    BY <1>3, HandFacts
  <2>2. \A w \in work' : w.at = "contact" => thread'[w.row].label # "none"
    BY <1>f, <2>1 DEF Task
  <2> QED
    BY <1>f, <1>s, <2>1, <2>2
<1>4. ASSUME NEW w \in work, NEW l \in Labels, SaveLabel(w, l)
      PROVE  WorkInv'
  <2>1. /\ work' = (work \ {w}) \union {Task(w.by, "contact", w.row)} /\ UNCHANGED <<contact, reminded>>
        /\ Len(thread') = Len(thread) /\ Inbound' = Inbound
        /\ \A r \in DOMAIN thread : r # w.row => thread'[r] = thread[r]
        /\ thread'[w.row].label = l
    BY <1>4, SaveFacts
  <2>2. \A v \in work' : v.at = "contact" => thread'[v.row].label # "none"
    BY <1>f, <2>1 DEF Task
  <2> QED
    BY <1>f, <1>s, <2>1, <2>2
<1>5. ASSUME NEW w \in work, UpdateContact(w)
      PROVE  WorkInv'
  <2>1. /\ work' \subseteq work /\ UNCHANGED <<thread, reminded>>
        /\ contact'.since = WaitsSince /\ contact'.cleared = contact.cleared
    BY <1>f, <1>5, UpdateFacts
  <2>2. WaitsSince \in Inbound \union {0}
    BY <1>f, WaitsSinceType
  <2> QED
    BY <1>f, <1>s, <1>t, <2>1, <2>2
<1>6. CASE SendAnswer
  <2>1. PICK n \in Nat : /\ n = Len(thread) + 1 /\ Len(thread') = n /\ Inbound' = Inbound
                         /\ \A r \in DOMAIN thread : thread'[r] = thread[r]
    BY <1>6, AnswerFacts
  <2>2. UNCHANGED <<work, contact, reminded>>
    BY <1>6, AnswerFacts
  <2>3. \A w \in work' : w.at = "contact" => thread'[w.row].label # "none"
    BY <1>f, <2>1, <2>2
  <2>4. contact'.cleared <= Len(thread') /\ contact'.since \in Inbound' \union {0}
    BY <1>f, <2>1, <2>2
  <2>5. \A r \in DOMAIN reminded' : r > Len(thread') => reminded'[r] = 0
    BY <1>f, <2>1, <2>2
  <2> QED
    BY <1>s, <2>3, <2>4, <2>5
<1>7. CASE MarkReplied \/ MarkDone
  <2>1. UNCHANGED <<thread, work, reminded>> /\ (contact' = contact \/ contact' = Cleared)
    BY <1>7 DEF MarkReplied, MarkDone
  <2>2. contact'.since \in Inbound' \union {0} /\ contact'.cleared <= Len(thread')
    BY <1>f, <1>t, <2>1, ClearedFacts
  <2> QED
    BY <1>f, <1>s, <2>1, <2>2
<1>8. CASE Snooze
  <2>1. /\ UNCHANGED <<thread, work, reminded>>
        /\ contact'.since = contact.since /\ contact'.cleared = contact.cleared
    BY <1>8, NotifiedFacts DEF Snooze
  <2> QED
    BY <1>f, <1>s, <1>t, <2>1
<1>9. CASE Remind
  <2>1. /\ UNCHANGED <<thread, work>> /\ contact.since # 0
        /\ contact'.since = contact.since /\ contact'.cleared = contact.cleared
        /\ reminded' = [reminded EXCEPT ![contact.since] = @ + 1]
    BY <1>9, NotifiedFacts DEF Remind
  <2>2. \A r \in DOMAIN reminded' : r > Len(thread') => reminded'[r] = 0
    BY <1>f, <2>1
  <2> QED
    BY <1>f, <1>s, <1>t, <2>1, <2>2
<1>10. CASE Stop
  <2>1. UNCHANGED <<thread, contact, reminded>> /\ work' = {}
    BY <1>10 DEF Stop
  <2> QED
    BY <1>f, <1>s, <1>t, <2>1
<1> QED
  BY <1>1, <1>2, <1>3, <1>4, <1>5, <1>6, <1>7, <1>8, <1>9, <1>10, ReplyCases

LEMMA TornStays ==
  ASSUME [ReplyNext]_replyVars, "torn" \notin mishaps'
  PROVE  "torn" \notin mishaps
BY DEF ReplyNext, Arrive, StoreMail, Flag, Post, BeginQueued, BeginRelabel, LabelByHand, FailLabel, UpdateContact,
       SaveLabel, SendAnswer, MarkReplied, MarkDone, Snooze, Remind, Stop, replyVars

LEMMA LabelStays ==
  ASSUME ReplyTypeOK, WorkInv, LabelInv, [ReplyNext]_replyVars
  PROVE  LabelInv'
<1> SUFFICES ASSUME "torn" \notin mishaps', NEW r \in Inbound', thread'[r].label # "none",
                    \A n \in Inbound' : n > r => thread'[n].label = "none"
             PROVE  contact'.last = thread'[r].label \/ \E w \in work' : w.at = "contact" /\ w.row = r
  BY DEF LabelInv, OfWork, Labelled, NewestLabelled
<1>f. /\ \A w \in work : w.at = "contact" => thread[w.row].label # "none"
      /\ \A w \in work : w.row \in Inbound /\ w.row \in DOMAIN thread
      /\ "none" \notin Labels /\ Inbound \subseteq DOMAIN thread
      /\ \A n \in Inbound : n \in Nat
  BY WorkFacts, ReplyFacts
<1>l. r \in Inbound /\ thread[r].label # "none" /\ (\A n \in Inbound : n > r => thread[n].label = "none") =>
        contact.last = thread[r].label \/ \E w \in work : w.at = "contact" /\ w.row = r
  BY TornStays DEF LabelInv, OfWork, Labelled, NewestLabelled
<1>t. thread' = thread => Inbound' = Inbound
  BY DEF Inbound
<1>1. CASE QuietStep
  <2>1. UNCHANGED <<thread, contact>> /\ \A w \in work : w.at = "contact" => w \in work'
    BY <1>1 DEF QuietStep, OfWork
  <2> QED
    BY <1>l, <1>t, <2>1
<1>2. CASE StoreStep
  <2>1. PICK n \in Nat : /\ Inbound' = Inbound \union {n} /\ thread'[n].label = "none"
                         /\ \A p \in DOMAIN thread : thread'[p] = thread[p]
    BY <1>2, StoreFacts DEF StoreStep
  <2>2. UNCHANGED <<work, contact>>
    BY <1>2 DEF StoreStep
  <2>3. r \in Inbound
    BY <2>1
  <2> QED
    BY <1>f, <1>l, <2>1, <2>2, <2>3
<1>3. ASSUME NEW q \in Inbound, NEW l \in Labels, LabelByHand(q, l)
      PROVE  contact'.last = thread'[r].label \/ \E w \in work' : w.at = "contact" /\ w.row = r
  <2>1. /\ work' = work \union {Task("user", "contact", q)} /\ UNCHANGED contact
        /\ Inbound' = Inbound
        /\ \A p \in DOMAIN thread : p # q => thread'[p] = thread[p]
        /\ thread'[q].label = l
    BY <1>3, HandFacts
  <2>2. CASE r = q
    <3>1. Task("user", "contact", q).at = "contact" /\ Task("user", "contact", q).row = q
      BY DEF Task
    <3> QED
      BY <2>1, <2>2, <3>1
  <2>3. CASE r # q
    BY <1>f, <1>l, <2>1, <2>3
  <2> QED
    BY <2>2, <2>3
<1>4. ASSUME NEW v \in work, NEW l \in Labels, SaveLabel(v, l)
      PROVE  contact'.last = thread'[r].label \/ \E w \in work' : w.at = "contact" /\ w.row = r
  <2>1. /\ v.at = "classify"
        /\ work' = (work \ {v}) \union {Task(v.by, "contact", v.row)} /\ UNCHANGED contact
        /\ Inbound' = Inbound
        /\ \A p \in DOMAIN thread : p # v.row => thread'[p] = thread[p]
        /\ thread'[v.row].label = l
    BY <1>4, SaveFacts
  <2>2. CASE r = v.row
    <3>1. Task(v.by, "contact", v.row).at = "contact" /\ Task(v.by, "contact", v.row).row = v.row
      BY DEF Task
    <3> QED
      BY <2>1, <2>2, <3>1
  <2>3. CASE r # v.row
    BY <1>f, <1>l, <2>1, <2>3
  <2> QED
    BY <2>2, <2>3
<1>5. ASSUME NEW v \in work, UpdateContact(v)
      PROVE  contact'.last = thread'[r].label \/ \E w \in work' : w.at = "contact" /\ w.row = r
  <2>1. /\ work' = work \ {v} /\ UNCHANGED thread /\ v.at = "contact"
        /\ contact'.last = IF NewestLabelled(v.row) THEN thread[v.row].label ELSE contact.last
    BY <1>5, WorkFacts, UpdateFacts
  <2>2. CASE v.row = r
    <3>1. NewestLabelled(r)
      BY <1>t, <2>1 DEF NewestLabelled
    <3> QED
      BY <2>1, <2>2, <3>1
  <2>3. CASE v.row # r
    <3>1. ~NewestLabelled(v.row)
      BY <1>f, <1>t, <2>1, <2>3 DEF NewestLabelled
    <3> QED
      BY <1>l, <1>t, <2>1, <2>3, <3>1
  <2> QED
    BY <2>2, <2>3
<1>6. CASE SendAnswer
  <2>1. Inbound' = Inbound /\ \A p \in DOMAIN thread : thread'[p] = thread[p]
    BY <1>6, AnswerFacts
  <2>2. UNCHANGED <<work, contact>>
    BY <1>6, AnswerFacts
  <2> QED
    BY <1>f, <1>l, <2>1, <2>2
<1>7. CASE MarkReplied \/ MarkDone \/ Snooze \/ Remind
  <2>1. UNCHANGED <<thread, work>> /\ contact'.last = contact.last
    BY <1>7, ClearedFacts, NotifiedFacts DEF MarkReplied, MarkDone, Snooze, Remind
  <2> QED
    BY <1>l, <1>t, <2>1
<1>8. CASE Stop
  <2>1. UNCHANGED <<thread, contact>> /\ \A w \in work : w.at # "contact"
    BY <1>8 DEF Stop
  <2> QED
    BY <1>l, <1>t, <2>1
<1> QED
  BY <1>1, <1>2, <1>3, <1>4, <1>5, <1>6, <1>7, <1>8, ReplyCases

LEMMA HandStays ==
  ASSUME ReplyTypeOK, HandInv, [ReplyNext]_replyVars
  PROVE  HandInv'
<1>f. /\ \A r \in byHand : /\ thread[r].source = "manual" /\ r \in DOMAIN thread
                           /\ \A w \in work : w.at = "classify" => w.row # r
      /\ byHand \subseteq Inbound
  BY ReplyFacts DEF HandInv, OfWork, ReplyTypeOK
<1>s. ASSUME \A r \in byHand' : /\ thread'[r].source = "manual"
                                /\ \A w \in work' : w.at = "classify" => w.row # r
      PROVE  HandInv'
  BY <1>s DEF HandInv, OfWork
<1>1. CASE QuietStep
  BY <1>f, <1>s, <1>1 DEF QuietStep
<1>2. CASE StoreStep
  <2>1. \A p \in DOMAIN thread : thread'[p] = thread[p]
    BY <1>2, StoreFacts DEF StoreStep
  <2> QED
    BY <1>f, <1>s, <1>2, <2>1 DEF StoreStep
<1>3. ASSUME NEW q \in Inbound, NEW l \in Labels, LabelByHand(q, l)
      PROVE  HandInv'
  <2>1. /\ work' = work \union {Task("user", "contact", q)}
        /\ byHand' = IF \E w \in work : w.row = q THEN byHand ELSE byHand \union {q}
        /\ \A p \in DOMAIN thread : p # q => thread'[p] = thread[p]
        /\ thread'[q].source = "manual"
    BY <1>3, HandFacts
  <2>2. \A w \in work' : w.at = "classify" => w \in work
    BY <2>1 DEF Task
  <2> QED
    BY <1>f, <1>s, <2>1, <2>2
<1>4. ASSUME NEW v \in work, NEW l \in Labels, SaveLabel(v, l)
      PROVE  HandInv'
  <2>1. /\ v.at = "classify" /\ byHand' = byHand
        /\ work' = (work \ {v}) \union {Task(v.by, "contact", v.row)}
        /\ \A p \in DOMAIN thread : p # v.row => thread'[p] = thread[p]
    BY <1>4, SaveFacts DEF userVars
  <2>2. \A w \in work' : w.at = "classify" => w \in work
    BY <2>1 DEF Task
  <2> QED
    BY <1>f, <1>s, <2>1, <2>2
<1>5. ASSUME NEW v \in work, UpdateContact(v)
      PROVE  HandInv'
  BY <1>f, <1>s, <1>5 DEF UpdateContact, userVars
<1>6. CASE SendAnswer
  <2>1. \A p \in DOMAIN thread : thread'[p] = thread[p]
    BY <1>6, AnswerFacts
  <2>2. UNCHANGED <<work, byHand>>
    BY <1>6, AnswerFacts
  <2> QED
    BY <1>f, <1>s, <2>1, <2>2
<1>7. CASE MarkReplied \/ MarkDone \/ Snooze \/ Remind \/ Stop
  <2>1. UNCHANGED <<thread, byHand>> /\ work' \subseteq work
    BY <1>7 DEF MarkReplied, MarkDone, Snooze, Remind, Stop, userVars
  <2> QED
    BY <1>f, <1>s, <2>1
<1> QED
  BY <1>1, <1>2, <1>3, <1>4, <1>5, <1>6, <1>7, ReplyCases

LEMMA WaitStays ==
  ASSUME ReplyTypeOK, WorkInv, WaitInv, [ReplyNext]_replyVars
  PROVE  WaitInv'
<1> SUFFICES ASSUME "torn" \notin mishaps', ~answer', Unlabelled' = {}, OfWork("contact")' = {}
             PROVE  contact'.since = WaitsSince'
  BY DEF WaitInv
<1>f. /\ contact.cleared \in 0 .. Len(thread) /\ contact.cleared <= Len(thread) /\ thread \in Seq(ReplyRecords)
      /\ Len(thread) \in Nat
  BY WorkFacts, ReplyFacts
<1>t. thread' = thread => Inbound' = Inbound /\ Unlabelled' = Unlabelled
  BY DEF Inbound, Unlabelled
<1>w. thread' = thread /\ contact'.cleared = contact.cleared => WaitsSince' = WaitsSince
  BY SinceNow, SinceNext
<1>k. \A w \in work' : w.at # "contact"
  BY DEF OfWork
<1>1. CASE QuietStep
  BY <1>k, <1>t, <1>w, <1>1 DEF QuietStep, OfWork, WaitInv
<1>2. CASE StoreStep
  <2>1. PICK n \in Nat : Inbound' = Inbound \union {n} /\ thread'[n].label = "none"
    BY <1>2, StoreFacts DEF StoreStep
  <2> QED
    BY <2>1 DEF Unlabelled
<1>3. ASSUME NEW q \in Inbound, NEW l \in Labels, LabelByHand(q, l)
      PROVE  FALSE
  <2>1. Task("user", "contact", q) \in work'
    BY <1>3, HandFacts
  <2> QED
    BY <1>k, <2>1 DEF Task
<1>4. ASSUME NEW v \in work, NEW l \in Labels, SaveLabel(v, l)
      PROVE  FALSE
  <2>1. Task(v.by, "contact", v.row) \in work'
    BY <1>4, SaveFacts
  <2> QED
    BY <1>k, <2>1 DEF Task
<1>5. ASSUME NEW v \in work, UpdateContact(v)
      PROVE  contact'.since = WaitsSince'
  BY <1>f, <1>w, <1>5, UpdateFacts
<1>6. CASE SendAnswer
  BY <1>6, AnswerFacts
<1>7. CASE (MarkReplied \/ MarkDone) /\ contact' = Cleared
  <2>1. contact'.since = 0 /\ contact'.cleared = Len(thread) /\ thread' = thread
    BY <1>7, ClearedFacts DEF MarkReplied, MarkDone
  <2>2. WaitsSince' = SinceIn(thread, Len(thread))
    BY <2>1, SinceNext
  <2> QED
    BY <1>f, <2>1, <2>2, NobodyWaits
<1>8. CASE MarkReplied /\ contact' # Cleared
  BY <1>8 DEF MarkReplied
<1>9. CASE Snooze \/ Remind
  <2>1. /\ contact'.since = contact.since /\ contact'.cleared = contact.cleared
        /\ UNCHANGED <<thread, work, answer, mishaps>>
    BY <1>9, NotifiedFacts DEF Snooze, Remind, userVars
  <2> QED
    BY <1>t, <1>w, <1>k, <2>1 DEF WaitInv, OfWork
<1>10. CASE Stop
  <2>1. /\ UNCHANGED <<thread, contact>> /\ ~answer /\ \A w \in work : w.at # "contact"
        /\ "torn" \notin mishaps
    BY <1>10 DEF Stop
  <2> QED
    BY <1>t, <1>w, <2>1 DEF WaitInv, OfWork
<1> QED
  BY <1>1, <1>2, <1>3, <1>4, <1>5, <1>6, <1>7, <1>8, <1>9, <1>10, ReplyCases DEF MarkDone

-----------------------------------------------------------------------------
(* Replies: copies of a mail *)

LEMMA RowsAreFinite ==
  ASSUME ReplyTypeOK, NEW S \in SUBSET Inbound
  PROVE  IsFiniteSet(S) /\ Cardinality(S) \in Nat
<1>1. IsFiniteSet(1 .. Len(thread)) /\ S \subseteq 1 .. Len(thread)
  BY ReplyFacts, FS_Interval
<1> QED
  BY <1>1, FS_Subset, FS_CardinalityType

Ways(m) == faults + One(m \in posted) + One(m \in Mails /\ mailbox[m] \in {"flag", "seen"})

LEMMA WaysGrow ==
  ASSUME ReplyTypeOK, [ReplyNext]_replyVars, NEW m \in Mails \union Hooked
  PROVE  /\ Ways(m) \in Nat /\ Ways(m)' \in Nat /\ Ways(m)' >= Ways(m)
         /\ Store(m) /\ ((m \in Mails /\ StoreMail(m)) \/ (m \in Hooked /\ Post(m))) /\ faults' = faults =>
              Ways(m)' >= Ways(m) + 1
<1> USE DEF Ways, One
<1>f. faults \in Nat /\ mailbox \in [Mails -> {"none", "unseen", "flag", "seen"}]
  BY ReplyFacts DEF ReplyTypeOK
<1>1. ASSUME NEW k \in Mails, Arrive(k)
      PROVE  UNCHANGED <<faults, posted>> /\ mailbox[k] = "none" /\ mailbox' = [mailbox EXCEPT ![k] = "unseen"]
  BY <1>1 DEF Arrive
<1>2. ASSUME NEW k \in Mails, StoreMail(k)
      PROVE  /\ posted' = posted /\ mailbox[k] = "unseen" /\ mailbox' = [mailbox EXCEPT ![k] = "flag"]
             /\ faults' = faults \/ faults' = faults + 1
  BY <1>2 DEF StoreMail, ToRead, Fault
<1>3. ASSUME NEW k \in Mails, Flag(k)
      PROVE  /\ posted' = posted /\ mailbox[k] = "flag"
             /\ \/ faults' = faults /\ mailbox' = [mailbox EXCEPT ![k] = "seen"]
                \/ faults' = faults + 1 /\ mailbox' = [mailbox EXCEPT ![k] = "unseen"]
  BY <1>3 DEF Flag, Fault
<1>4. ASSUME NEW k \in Hooked, Post(k)
      PROVE  /\ mailbox' = mailbox /\ k \notin posted /\ posted' = posted \union {k}
             /\ faults' = faults \/ faults' = faults + 1
  BY <1>4 DEF Post, Fault
<1>5. CASE Stop
  <2>1. /\ posted' = posted /\ faults' = faults + 1
        /\ mailbox' = [k \in Mails |-> IF mailbox[k] = "flag" THEN "unseen" ELSE mailbox[k]]
    BY <1>5 DEF Stop, Fault
  <2>2. m \in Mails => mailbox'[m] = IF mailbox[m] = "flag" THEN "unseen" ELSE mailbox[m]
    BY <2>1
  <2>3. (~(m \in Mails /\ StoreMail(m)) /\ ~(m \in Hooked /\ Post(m))) \/ faults' # faults
    BY <1>f, <2>1
  <2> QED
    BY <1>f, <2>1, <2>2, <2>3
<1>6. CASE /\ \A k \in Mails : ~Arrive(k) /\ ~StoreMail(k) /\ ~Flag(k)
           /\ \A k \in Hooked : ~Post(k)
           /\ ~Stop
  <2>1. UNCHANGED <<mailbox, posted>> /\ (faults' = faults \/ faults' = faults + 1)
    BY <1>6 DEF ReplyNext, BeginQueued, BeginRelabel, LabelByHand, FailLabel, UpdateContact,
                SaveLabel, SendAnswer, MarkReplied, MarkDone, Snooze, Remind, replyVars, mailVars, userVars, Fault
  <2> QED
    BY <1>f, <1>6, <2>1
<1>7. ASSUME NEW k \in Mails, Arrive(k)
      PROVE  /\ Ways(m) \in Nat /\ Ways(m)' \in Nat /\ Ways(m)' >= Ways(m)
             /\ ~(m \in Mails /\ StoreMail(m)) /\ ~(m \in Hooked /\ Post(m))
  <2>1. m \in Mails /\ mailbox[m] \in {"flag", "seen"} => mailbox'[m] = mailbox[m]
    BY <1>f, <1>1, <1>7
  <2>2. ~(m \in Mails /\ StoreMail(m)) /\ ~(m \in Hooked /\ Post(m))
    BY <1>f, <1>1, <1>2, <1>4, <1>7
  <2> QED
    BY <1>f, <1>1, <1>7, <2>1, <2>2
<1>8. ASSUME NEW k \in Mails, StoreMail(k)
      PROVE  /\ Ways(m) \in Nat /\ Ways(m)' \in Nat /\ Ways(m)' >= Ways(m)
             /\ m = k => Ways(m)' >= Ways(m) + 1
             /\ ~(m \in Hooked /\ Post(m)) /\ (m \in Mails /\ StoreMail(m) => m = k)
  <2>1. m \in Mails => mailbox'[m] = IF m = k THEN "flag" ELSE mailbox[m]
    BY <1>f, <1>2, <1>8
  <2>2. m = k => mailbox[m] = "unseen"
    BY <1>2, <1>8
  <2>3. ~(m \in Hooked /\ Post(m)) /\ (m \in Mails /\ StoreMail(m) => m = k)
    BY <1>f, <1>2, <1>4, <1>8
  <2> QED
    BY <1>f, <1>2, <1>8, <2>1, <2>2, <2>3
<1>9. ASSUME NEW k \in Mails, Flag(k)
      PROVE  /\ Ways(m) \in Nat /\ Ways(m)' \in Nat /\ Ways(m)' >= Ways(m)
             /\ ~(m \in Mails /\ StoreMail(m)) /\ ~(m \in Hooked /\ Post(m))
  <2>0. /\ posted' = posted /\ mailbox[k] = "flag"
        /\ mailbox' = [mailbox EXCEPT ![k] = "seen"] \/ mailbox' = [mailbox EXCEPT ![k] = "unseen"]
    BY <1>3, <1>9
  <2>n. ~(m \in Mails /\ StoreMail(m)) /\ ~(m \in Hooked /\ Post(m))
    <3>1. ~(m \in Mails /\ StoreMail(m))
      <4>1. mailbox'[k] # "flag" /\ \A j \in Mails : j # k => mailbox'[j] = mailbox[j]
        BY <1>f, <2>0
      <4>2. ASSUME m \in Mails, StoreMail(m) PROVE mailbox[m] = "unseen" /\ mailbox'[m] = "flag"
        BY <1>f, <1>2, <4>2
      <4> QED
        BY <2>0, <4>1, <4>2
    <3>2. ~(m \in Hooked /\ Post(m))
      <4>1. mailbox'[k] # mailbox[k]
        BY <1>f, <2>0
      <4> QED
        BY <1>4, <4>1
    <3> QED
      BY <3>1, <3>2
  <2>1. CASE faults' = faults /\ mailbox' = [mailbox EXCEPT ![k] = "seen"]
    <3>1. m \in Mails => mailbox'[m] = IF m = k THEN "seen" ELSE mailbox[m]
      BY <1>f, <2>1
    <3> QED
      BY <1>f, <2>0, <2>n, <2>1, <3>1
  <2>2. CASE faults' = faults + 1 /\ mailbox' = [mailbox EXCEPT ![k] = "unseen"]
    <3>1. m \in Mails => mailbox'[m] = IF m = k THEN "unseen" ELSE mailbox[m]
      BY <1>f, <2>2
    <3> QED
      BY <1>f, <2>0, <2>n, <2>2, <3>1
  <2> QED
    BY <1>3, <1>9, <2>1, <2>2
<1>10. ASSUME NEW k \in Hooked, Post(k)
       PROVE  /\ Ways(m) \in Nat /\ Ways(m)' \in Nat /\ Ways(m)' >= Ways(m)
              /\ m = k => Ways(m)' >= Ways(m) + 1
              /\ ~(m \in Mails /\ StoreMail(m)) /\ (m \in Hooked /\ Post(m) => m = k)
  <2>1. ~(m \in Mails /\ StoreMail(m)) /\ (m \in Hooked /\ Post(m) => m = k)
    BY <1>f, <1>2, <1>4, <1>10
  <2> QED
    BY <1>f, <1>4, <1>10, <2>1
<1> QED
  BY <1>5, <1>6, <1>7, <1>8, <1>9, <1>10

LEMMA StoredSteps ==
  ASSUME ReplyTypeOK, [ReplyNext]_replyVars, NEW m \in Mails \union Hooked
  PROVE  \/ Stored(m)' = Stored(m)
         \/ /\ Store(m) /\ ((m \in Mails /\ StoreMail(m)) \/ (m \in Hooked /\ Post(m))) /\ faults' = faults
            /\ \E n : Stored(m)' = Stored(m) \union {n}
<1>f. Inbound \subseteq DOMAIN thread
  BY ReplyFacts
<1>t. Inbound' = Inbound /\ (\A r \in Inbound : thread'[r].mail = thread[r].mail) => Stored(m)' = Stored(m)
  BY DEF Stored
<1>1. CASE StoreStep
  <2>1. PICK k \in Mails \union Hooked : /\ Store(k) /\ faults' = faults
                                         /\ ((k \in Mails /\ StoreMail(k)) \/ (k \in Hooked /\ Post(k)))
    <3>1. PICK k \in Mails \union Hooked : Store(k)
      BY <1>1 DEF StoreStep
    <3>2. thread' # thread /\ faults' = faults
      BY <1>1, <3>1, StoreFacts DEF StoreStep
    <3>3. UNCHANGED <<contact, work>>
      BY <1>1 DEF StoreStep
    <3>4. (\E j \in Mails : StoreMail(j)) \/ (\E j \in Hooked : Post(j))
      BY <1>1, <3>1, <3>2, StoreFacts DEF StoreStep, ReplyNext, Arrive, Flag, BeginQueued, BeginRelabel, LabelByHand, FailLabel,
         UpdateContact, SaveLabel, SendAnswer, MarkReplied, MarkDone, Snooze, Remind, Stop, replyVars, Hand, Fault
    <3> QED
      BY <3>2, <3>4 DEF StoreMail, Post
  <2>2. PICK n \in Nat : /\ Inbound' = Inbound \union {n} /\ thread'[n].mail = k
                         /\ n \notin DOMAIN thread /\ \A r \in DOMAIN thread : thread'[r] = thread[r]
    BY <2>1, StoreFacts
  <2>3. Stored(m)' = IF m = k THEN Stored(m) \union {n} ELSE Stored(m)
    BY <1>f, <2>2 DEF Stored
  <2> QED
    BY <2>1, <2>3
<1>2. CASE ~StoreStep
  <2>1. CASE \E r \in Inbound, l \in Labels : LabelByHand(r, l)
    BY <1>f, <1>t, <2>1, HandFacts
  <2>2. CASE \E w \in work, l \in Labels : SaveLabel(w, l)
    BY <1>f, <1>t, <2>2, SaveFacts
  <2>3. CASE SendAnswer
    BY <1>f, <1>t, <2>3, AnswerFacts
  <2>4. CASE thread' = thread
    BY <1>t, <2>4 DEF Inbound
  <2> QED
    BY <1>2, <2>1, <2>2, <2>3, <2>4, ReplyCases DEF QuietStep, UpdateContact, MarkReplied, MarkDone, Snooze, Remind, Stop
<1> QED
  BY <1>1, <1>2

LEMMA CopiesStay ==
  ASSUME ReplyTypeOK, ReplyTypeOK', CopiesInv, [ReplyNext]_replyVars
  PROVE  CopiesInv'
<1>1. \A m \in Mails \union Hooked : Cardinality(Stored(m)) <= Ways(m)
  BY DEF CopiesInv, Ways, One
<1>2. ASSUME NEW m \in Mails \union Hooked
      PROVE  Cardinality(Stored(m)') <= Ways(m)'
  <2>1. IsFiniteSet(Stored(m)) /\ Cardinality(Stored(m)) \in Nat
    BY RowsAreFinite DEF Stored
  <2>2. Ways(m) \in Nat /\ Ways(m)' \in Nat /\ Ways(m)' >= Ways(m)
    BY WaysGrow
  <2>3. CASE Stored(m)' = Stored(m)
    BY <1>1, <2>1, <2>2, <2>3
  <2>4. CASE Stored(m)' # Stored(m)
    <3>1. PICK n : Stored(m)' = Stored(m) \union {n}
      BY <2>4, StoredSteps
    <3>2. Cardinality(Stored(m) \union {n}) = Cardinality(Stored(m)) + 1
      BY <2>1, <2>4, <3>1, FS_AddElement
    <3>3. Ways(m)' >= Ways(m) + 1
      BY <2>4, StoredSteps, WaysGrow
    <3> QED
      BY <1>1, <2>1, <2>2, <3>1, <3>2, <3>3
  <2> QED
    BY <2>3, <2>4
<1> QED
  BY <1>2 DEF CopiesInv, Ways, One

-----------------------------------------------------------------------------
(* Replies: the reminders *)

Alarm(c, r) == One(c.since = r /\ ~c.notified)
StillWaits(th, c, r) == One(r \in PersonsIn(th, c.cleared) /\ ~(c.since = r /\ SinceIn(th, c.cleared) = r))
EndedIn(th, r) == {q \in Received(th) : q > r /\ th[q].label = "gone"}
Due(th, c, rem, h, r) == rem[r] + Alarm(c, r) + StillWaits(th, c, r) <= 1 + h + Cardinality(EndedIn(th, r))

LEMMA ReminderMeans ==
  /\ ReminderInv <=> ("again" \notin mishaps => \A r \in DOMAIN reminded : Due(thread, contact, reminded, hands, r))
  /\ ReminderInv' <=>
       ("again" \notin mishaps' => \A r \in DOMAIN reminded' : Due(thread', contact', reminded', hands', r))
<1>1. \A r : Ended(r) = EndedIn(thread, r)
  BY DEF Ended, EndedIn, Inbound, Received
<1>2. \A r : Ended(r)' = EndedIn(thread', r)
  BY DEF Ended, EndedIn, Inbound, Received
<1>3. \A r : One(contact.since = r /\ ~contact.notified) = Alarm(contact, r)
             /\ One(r \in Persons /\ ~(contact.since = r /\ WaitsSince = r)) = StillWaits(thread, contact, r)
  BY SinceNow DEF Alarm, StillWaits, One
<1>4. \A r : One(contact'.since = r /\ ~contact'.notified) = Alarm(contact', r)
             /\ One(r \in Persons' /\ ~(contact'.since = r /\ WaitsSince' = r)) = StillWaits(thread', contact', r)
  BY SinceNext DEF Alarm, StillWaits, One
<1>5. ReminderInv <=> ("again" \notin mishaps => \A r \in DOMAIN reminded : Due(thread, contact, reminded, hands, r))
  BY <1>1, <1>3 DEF ReminderInv, Due
<1>6. ReminderInv' <=>
        ("again" \notin mishaps' => \A r \in DOMAIN reminded' : Due(thread', contact', reminded', hands', r))
  BY <1>2, <1>4 DEF ReminderInv, Due
<1> QED
  BY <1>5, <1>6

LEMMA EndedAreFinite ==
  ASSUME NEW th \in Seq(ReplyRecords), NEW r
  PROVE  /\ IsFiniteSet(EndedIn(th, r)) /\ Cardinality(EndedIn(th, r)) \in Nat
         /\ \A S \in SUBSET EndedIn(th, r) :
              IsFiniteSet(S) /\ Cardinality(S) \in Nat /\ Cardinality(S) <= Cardinality(EndedIn(th, r))
<1>1. IsFiniteSet(1 .. Len(th)) /\ EndedIn(th, r) \subseteq 1 .. Len(th)
  BY FS_Interval DEF EndedIn, Received
<1>2. IsFiniteSet(EndedIn(th, r))
  BY <1>1, FS_Subset
<1> QED
  BY <1>2, FS_Subset, FS_CardinalityType

\* What a step does to one row's reminders, counted; the steps below say how each number moves.
LEMMA DueStays ==
  ASSUME NEW h \in Nat, NEW h2 \in Nat, NEW k \in Nat, NEW k2 \in Nat, NEW n \in Nat, NEW n2 \in Nat,
         NEW a \in {0, 1}, NEW a2 \in {0, 1}, NEW u \in {0, 1}, NEW u2 \in {0, 1},
         n + a + u <= 1 + h + k, n2 + a2 + u2 + h + k <= n + a + u + h2 + k2
  PROVE  n2 + a2 + u2 <= 1 + h2 + k2
OBVIOUS

LEMMA ReminderStays ==
  ASSUME ReplyTypeOK, ReplyTypeOK', WorkInv, ReminderInv, [ReplyNext]_replyVars, "again" \notin mishaps'
  PROVE  \A r \in DOMAIN reminded' : Due(thread', contact', reminded', hands', r)
<1>f. /\ contact.cleared \in 0 .. Len(thread) /\ contact.cleared <= Len(thread)
      /\ contact.since \in Inbound \union {0} /\ thread \in Seq(ReplyRecords)
      /\ Len(thread) \in Nat /\ DOMAIN thread = 1 .. Len(thread) /\ hands \in Nat
      /\ Inbound = Received(thread) /\ Inbound \subseteq DOMAIN thread
      /\ \A r \in DOMAIN reminded : r > Len(thread) => reminded[r] = 0
  BY WorkFacts, ReplyFacts DEF Inbound, Received
<1>g. /\ reminded \in [1 .. MaxRows -> Nat] /\ reminded' \in [1 .. MaxRows -> Nat]
      /\ thread' \in Seq(ReplyRecords) /\ hands' \in Nat /\ hands \in Nat
  BY DEF ReplyTypeOK, ReplyRecords
<1>a. "again" \notin mishaps
  BY DEF ReplyNext, Arrive, StoreMail, Flag, Post, BeginQueued, BeginRelabel, LabelByHand, FailLabel, UpdateContact,
         SaveLabel, SendAnswer, MarkReplied, MarkDone, Snooze, Remind, Stop, replyVars
<1>d. \A r \in 1 .. MaxRows : Due(thread, contact, reminded, hands, r)
  BY <1>a, <1>g, ReminderMeans
<1> SUFFICES ASSUME NEW r \in 1 .. MaxRows
             PROVE  Due(thread', contact', reminded', hands', r)
  BY <1>g
<1>n. /\ reminded[r] \in Nat /\ reminded'[r] \in Nat /\ r \in Nat /\ r # 0
      /\ Alarm(contact, r) \in {0, 1} /\ Alarm(contact', r) \in {0, 1}
      /\ StillWaits(thread, contact, r) \in {0, 1} /\ StillWaits(thread', contact', r) \in {0, 1}
      /\ Cardinality(EndedIn(thread, r)) \in Nat /\ Cardinality(EndedIn(thread', r)) \in Nat
  <2>1. reminded[r] \in Nat /\ reminded'[r] \in Nat /\ r \in Nat /\ r # 0
    BY <1>g
  <2> QED
    BY <2>1, <1>f, <1>g, EndedAreFinite DEF Alarm, StillWaits, One
<1>s. ASSUME reminded'[r] + Alarm(contact', r) + StillWaits(thread', contact', r) + hands + Cardinality(EndedIn(thread, r))
               <= reminded[r] + Alarm(contact, r) + StillWaits(thread, contact, r) + hands'
                    + Cardinality(EndedIn(thread', r))
      PROVE  Due(thread', contact', reminded', hands', r)
  <2>1. reminded[r] + Alarm(contact, r) + StillWaits(thread, contact, r) <= 1 + hands + Cardinality(EndedIn(thread, r))
    BY <1>d DEF Due
  <2>2. reminded'[r] + Alarm(contact', r) + StillWaits(thread', contact', r)
          <= 1 + hands' + Cardinality(EndedIn(thread', r))
    BY <1>g, <1>n, <1>s, <2>1, DueStays
  <2> QED
    BY <2>2 DEF Due
<1>u. StillWaits(thread', contact', r) = 1 /\ StillWaits(thread, contact, r) = 0 =>
        /\ r \in PersonsIn(thread', contact'.cleared)
        /\ \/ r \notin PersonsIn(thread, contact.cleared)
           \/ contact.since = r /\ SinceIn(thread, contact.cleared) = r
        /\ contact'.since # r \/ SinceIn(thread', contact'.cleared) # r
  BY DEF StillWaits, One
<1>1. CASE QuietStep
  BY <1>d, <1>1 DEF QuietStep
<1>2. CASE StoreStep
  <2>1. PICK n \in Nat : /\ n = Len(thread) + 1 /\ Len(thread') = n /\ n <= MaxRows /\ n \notin DOMAIN thread
                         /\ DOMAIN thread' = DOMAIN thread \union {n}
                         /\ Inbound' = Inbound \union {n} /\ ~thread'[n].out /\ thread'[n].label = "none"
                         /\ \A p \in DOMAIN thread : thread'[p] = thread[p]
    BY <1>2, StoreFacts DEF StoreStep
  <2>2. contact' = contact /\ reminded' = reminded /\ hands' = hands
    BY <1>2 DEF StoreStep
  <2>3. /\ PersonsIn(thread', contact.cleared) = PersonsIn(thread, contact.cleared) \union {n}
        /\ \A p \in PersonsIn(thread, contact.cleared) :
             SinceIn(thread, contact.cleared) = p => SinceIn(thread', contact.cleared) = p
    <3>1. PICK th \in Seq(ReplyRecords) : th = thread
      BY <1>f
    <3>2. PICK longer \in Seq(ReplyRecords) : longer = thread'
      BY <1>g
    <3>3. PICK c \in 0 .. Len(th) : c = contact.cleared
      BY <1>f, <3>1
    <3>4. /\ n = Len(th) + 1 /\ Len(longer) = n /\ \A p \in DOMAIN th : longer[p] = th[p]
          /\ ~longer[n].out /\ longer[n].label = "none"
      BY <2>1, <3>1, <3>2
    <3>5. /\ PersonsIn(longer, c) = PersonsIn(th, c) \union {n}
          /\ \A p \in PersonsIn(th, c) : SinceIn(th, c) = p => SinceIn(longer, c) = p
      BY <3>4, SinceAppended
    <3> QED
      BY <3>1, <3>2, <3>3, <3>5
  <2>4. EndedIn(thread', r) = EndedIn(thread, r)
    <3>1. Received(thread') = Received(thread) \union {n}
      BY <2>1 DEF Received
    <3>2. \A q \in Received(thread) : q \in DOMAIN thread
      BY DEF Received
    <3> QED
      BY <2>1, <3>1, <3>2 DEF EndedIn
  <2>5. CASE r = n
    <3>1. reminded[r] = 0 /\ contact.since # r
      BY <1>f, <1>g, <2>1, <2>5
    <3>2. Alarm(contact, r) = 0
      BY <3>1 DEF Alarm, One
    <3>3. reminded'[r] = 0 /\ Alarm(contact', r) = 0
      BY <2>2, <3>1, <3>2
    <3> QED
      BY <1>g, <1>n, <3>3 DEF Due
  <2>6. CASE r # n
    <3>1. StillWaits(thread', contact', r) <= StillWaits(thread, contact, r)
      BY <1>n, <1>u, <2>2, <2>3, <2>6
    <3> QED
      BY <1>g, <1>n, <1>s, <2>2, <2>4, <3>1
  <2> QED
    BY <2>5, <2>6
<1>l. ASSUME NEW q \in Inbound, Len(thread') = Len(thread), DOMAIN thread' = DOMAIN thread,
             \A p \in DOMAIN thread : p # q => thread'[p] = thread[p], thread'[q].out = thread[q].out,
             contact' = contact
      PROVE  /\ EndedIn(thread, r) \ {q} \subseteq EndedIn(thread', r)
             /\ EndedIn(thread', r) \subseteq EndedIn(thread, r) \union {q}
             /\ q \in EndedIn(thread, r) <=> q > r /\ thread[q].label = "gone"
             /\ q \in EndedIn(thread', r) <=> q > r /\ thread'[q].label = "gone"
             /\ StillWaits(thread', contact', r) = 1 /\ StillWaits(thread, contact, r) = 0 =>
                  \/ r = q /\ r \in PersonsIn(thread', contact.cleared)
                     /\ q \notin PersonsIn(thread, contact.cleared)
                  \/ r # q /\ thread'[q].label = "gone" /\ thread[q].label # "gone" /\ r < q
                  \/ r # q /\ q \in RowsAfter(thread, contact.cleared) \ PersonsIn(thread, contact.cleared)
                     /\ (thread[q].label # "gone" \/ q < r)
             /\ RowsAfter(thread', contact.cleared) = RowsAfter(thread, contact.cleared)
  <2>1. q \in DOMAIN thread /\ Received(thread') = Received(thread) /\ q \in Received(thread)
    BY <1>f, <1>l DEF Received
  <2>2. \A p \in Received(thread) : p # q => thread'[p] = thread[p]
    BY <1>l DEF Received
  <2>3. /\ EndedIn(thread, r) \ {q} \subseteq EndedIn(thread', r)
        /\ EndedIn(thread', r) \subseteq EndedIn(thread, r) \union {q}
        /\ q \in EndedIn(thread, r) <=> q > r /\ thread[q].label = "gone"
        /\ q \in EndedIn(thread', r) <=> q > r /\ thread'[q].label = "gone"
    BY <2>1, <2>2 DEF EndedIn
  <2>4. PICK c \in 0 .. Len(thread) : c = contact.cleared
    BY <1>f
  <2>5. /\ RowsAfter(thread', c) = RowsAfter(thread, c)
        /\ \A p : p # q => (p \in PersonsIn(thread', c) <=> p \in PersonsIn(thread, c))
        /\ \A p \in PersonsIn(thread, c) :
             p # q /\ SinceIn(thread, c) = p /\ SinceIn(thread', c) # p =>
               \/ thread'[q].label = "gone" /\ thread[q].label # "gone" /\ p < q /\ q \in RowsAfter(thread, c)
               \/ q \in RowsAfter(thread, c) \ PersonsIn(thread, c) /\ (thread[q].label # "gone" \/ q < p)
        /\ q \in PersonsIn(thread, c) \intersect PersonsIn(thread', c) /\ SinceIn(thread, c) = q =>
             SinceIn(thread', c) = q
    BY <1>f, <1>g, <1>l, <2>1, SinceRelabelled
  <2>6. contact.cleared = c /\ contact'.cleared = c
    BY <1>l, <2>4
  <2>7. StillWaits(thread', contact', r) = 1 /\ StillWaits(thread, contact, r) = 0 =>
          \/ r = q /\ r \in PersonsIn(thread', c) /\ q \notin PersonsIn(thread, c)
          \/ r # q /\ thread'[q].label = "gone" /\ thread[q].label # "gone" /\ r < q
          \/ r # q /\ q \in RowsAfter(thread, c) \ PersonsIn(thread, c) /\ (thread[q].label # "gone" \/ q < r)
    <3> SUFFICES ASSUME StillWaits(thread', contact', r) = 1, StillWaits(thread, contact, r) = 0
                 PROVE  \/ r = q /\ r \in PersonsIn(thread', c) /\ q \notin PersonsIn(thread, c)
                        \/ r # q /\ thread'[q].label = "gone" /\ thread[q].label # "gone" /\ r < q
                        \/ /\ r # q /\ q \in RowsAfter(thread, c) \ PersonsIn(thread, c)
                           /\ (thread[q].label # "gone" \/ q < r)
      OBVIOUS
    <3>1. /\ r \in PersonsIn(thread', c)
          /\ r \notin PersonsIn(thread, c) \/ (contact.since = r /\ SinceIn(thread, c) = r)
          /\ contact.since # r \/ SinceIn(thread', c) # r
      BY <1>l, <1>u, <2>6
    <3>2. CASE r = q
      BY <2>5, <3>1, <3>2
    <3>3. CASE r # q
      BY <2>5, <3>1, <3>3
    <3> QED
      BY <3>2, <3>3
  <2> QED
    BY <2>3, <2>5, <2>6, <2>7
<1>3. ASSUME NEW q \in Inbound, NEW l \in Labels, LabelByHand(q, l)
      PROVE  Due(thread', contact', reminded', hands', r)
  <2>1. /\ hands' = hands + 1 /\ contact' = contact /\ reminded' = reminded
        /\ Len(thread') = Len(thread) /\ DOMAIN thread' = DOMAIN thread
        /\ \A p \in DOMAIN thread : p # q => thread'[p] = thread[p]
        /\ thread'[q].out = thread[q].out
    BY <1>3, HandFacts
  <2>2. /\ EndedIn(thread, r) \ {q} \subseteq EndedIn(thread', r)
        /\ q \in EndedIn(thread, r) => q > r /\ thread[q].label = "gone"
        /\ StillWaits(thread', contact', r) = 1 /\ StillWaits(thread, contact, r) = 0 =>
             \/ r = q
             \/ thread[q].label # "gone"
             \/ thread[q].label # "gone" \/ q < r
    BY <1>l, <2>1
  <2>3. CASE q \in EndedIn(thread, r)
    <3>1. StillWaits(thread', contact', r) <= StillWaits(thread, contact, r)
      <4>1. q \in Nat
        BY <1>f
      <4> QED
        BY <1>n, <2>2, <2>3, <4>1
    <3>2. Cardinality(EndedIn(thread, r) \ {q}) = Cardinality(EndedIn(thread, r)) - 1
      BY <1>f, <2>3, EndedAreFinite, FS_RemoveElement
    <3>3. Cardinality(EndedIn(thread, r) \ {q}) <= Cardinality(EndedIn(thread', r))
      BY <1>g, <2>2, EndedAreFinite
    <3> QED
      BY <1>g, <1>n, <1>s, <2>1, <3>1, <3>2, <3>3
  <2>4. CASE q \notin EndedIn(thread, r)
    <3>1. EndedIn(thread, r) \subseteq EndedIn(thread', r)
      BY <2>2, <2>4
    <3>2. Cardinality(EndedIn(thread, r)) <= Cardinality(EndedIn(thread', r))
      BY <1>g, <3>1, EndedAreFinite
    <3>3. Alarm(contact', r) = Alarm(contact, r) /\ reminded'[r] = reminded[r]
      BY <2>1
    <3> QED
      BY <1>g, <1>n, <1>s, <2>1, <3>2, <3>3
  <2> QED
    BY <2>3, <2>4
<1>4. ASSUME NEW v \in work, NEW l \in Labels, SaveLabel(v, l)
      PROVE  Due(thread', contact', reminded', hands', r)
  <2>1. PICK q \in Inbound : q = v.row
    BY <1>4, SaveFacts
  <2>2. /\ hands' = hands /\ contact' = contact /\ reminded' = reminded
        /\ Len(thread') = Len(thread) /\ DOMAIN thread' = DOMAIN thread
        /\ \A p \in DOMAIN thread : p # q => thread'[p] = thread[p]
        /\ thread'[q].out = thread[q].out
        /\ mishaps' = IF thread[q].label = "none" THEN mishaps ELSE mishaps \union {"again"}
    BY <1>4, <2>1, SaveFacts DEF userVars
  <2>3. thread[q].label = "none"
    BY <2>2
  <2>4. /\ EndedIn(thread, r) \ {q} \subseteq EndedIn(thread', r)
        /\ q \in EndedIn(thread, r) <=> q > r /\ thread[q].label = "gone"
        /\ q \in EndedIn(thread', r) <=> q > r /\ thread'[q].label = "gone"
        /\ StillWaits(thread', contact', r) = 1 /\ StillWaits(thread, contact, r) = 0 =>
             \/ r = q /\ r \in PersonsIn(thread', contact.cleared)
                /\ q \notin PersonsIn(thread, contact.cleared)
             \/ thread'[q].label = "gone" /\ r < q
             \/ q \in RowsAfter(thread, contact.cleared) \ PersonsIn(thread, contact.cleared)
        /\ RowsAfter(thread', contact.cleared) = RowsAfter(thread, contact.cleared)
    BY <1>l, <2>2
  <2>5. q \in RowsAfter(thread, contact.cleared) => q \in PersonsIn(thread, contact.cleared)
    BY <2>3 DEF PersonsIn
  <2>6. r \in PersonsIn(thread', contact.cleared) => r \in RowsAfter(thread, contact.cleared)
    BY <2>4 DEF PersonsIn
  <2>7. StillWaits(thread', contact', r) = 1 /\ StillWaits(thread, contact, r) = 0 =>
          thread'[q].label = "gone" /\ r < q
    BY <2>4, <2>5, <2>6
  <2>8. q \notin EndedIn(thread, r) /\ EndedIn(thread, r) \subseteq EndedIn(thread', r)
    BY <2>3, <2>4
  <2>9. Cardinality(EndedIn(thread, r)) <= Cardinality(EndedIn(thread', r))
    BY <1>g, <2>8, EndedAreFinite
  <2>10. CASE StillWaits(thread', contact', r) = 1 /\ StillWaits(thread, contact, r) = 0
    <3>1. q \in Nat
      BY <1>f
    <3>2. q \in EndedIn(thread', r)
      BY <1>n, <2>4, <2>7, <2>10, <3>1
    <3>3. EndedIn(thread, r) \union {q} \in SUBSET EndedIn(thread', r)
      BY <2>8, <3>2
    <3>4. Cardinality(EndedIn(thread, r) \union {q}) <= Cardinality(EndedIn(thread', r))
      BY <1>g, <3>3, EndedAreFinite
    <3>5. Cardinality(EndedIn(thread, r) \union {q}) = Cardinality(EndedIn(thread, r)) + 1
      BY <1>f, <2>8, EndedAreFinite, FS_AddElement
    <3>6. Alarm(contact', r) = Alarm(contact, r) /\ reminded'[r] = reminded[r]
      BY <2>2
    <3> QED
      BY <1>g, <1>n, <1>s, <2>2, <3>4, <3>5, <3>6
  <2>11. CASE ~(StillWaits(thread', contact', r) = 1 /\ StillWaits(thread, contact, r) = 0)
    <3>1. Alarm(contact', r) = Alarm(contact, r) /\ reminded'[r] = reminded[r]
      BY <2>2
    <3> QED
      BY <1>g, <1>n, <1>s, <2>2, <2>9, <2>11, <3>1
  <2> QED
    BY <2>10, <2>11
<1>5. ASSUME NEW v \in work, UpdateContact(v)
      PROVE  Due(thread', contact', reminded', hands', r)
  <2>1. /\ contact'.since = WaitsSince /\ contact'.cleared = contact.cleared
        /\ WaitsSince = contact.since => contact'.notified = contact.notified
        /\ thread' = thread /\ reminded' = reminded /\ hands' = hands
    BY <1>f, <1>5, UpdateFacts DEF userVars
  <2>2. PICK W, P : W = SinceIn(thread, contact.cleared) /\ P = PersonsIn(thread, contact.cleared)
    OBVIOUS
  <2>3. W \in P \union {0}
    BY <1>f, <2>2, SinceIs
  <2>4. /\ contact'.since = W
        /\ StillWaits(thread', contact', r) = One(r \in P /\ r # W)
        /\ StillWaits(thread, contact, r) = One(r \in P /\ ~(contact.since = r /\ r = W))
    BY <2>1, <2>2, SinceNow DEF StillWaits, One
  <2>5. Alarm(contact', r) + StillWaits(thread', contact', r) <= Alarm(contact, r) + StillWaits(thread, contact, r)
    <3>1. CASE r # W
      <4>1. Alarm(contact', r) = 0 /\ StillWaits(thread', contact', r) = StillWaits(thread, contact, r)
        BY <2>4, <3>1 DEF Alarm, One
      <4> QED
        BY <1>n, <4>1
    <3>2. CASE r = W /\ contact.since = r
      <4>1. contact'.notified = contact.notified
        BY <2>1, <2>4, <3>2
      <4>2. Alarm(contact', r) = Alarm(contact, r) /\ StillWaits(thread', contact', r) = 0
        BY <2>4, <3>2, <4>1 DEF Alarm, One
      <4> QED
        BY <1>n, <4>2
    <3>3. CASE r = W /\ contact.since # r
      <4>1. r \in P
        BY <1>n, <2>3, <3>3
      <4>2. StillWaits(thread, contact, r) = 1 /\ StillWaits(thread', contact', r) = 0
        BY <2>4, <3>3, <4>1 DEF One
      <4> QED
        BY <1>n, <4>2
    <3> QED
      BY <3>1, <3>2, <3>3
  <2> QED
    BY <1>g, <1>n, <1>s, <2>1, <2>5
<1>6. CASE SendAnswer
  <2>1. PICK n \in Nat : /\ n = Len(thread) + 1 /\ Len(thread') = n
                         /\ DOMAIN thread' = DOMAIN thread \union {n} /\ n \notin DOMAIN thread
                         /\ thread'[n].out /\ Inbound' = Inbound
                         /\ \A p \in DOMAIN thread : thread'[p] = thread[p]
    BY <1>6, AnswerFacts
  <2>2. contact' = contact /\ reminded' = reminded /\ hands' = hands
    BY <1>6, AnswerFacts
  <2>3. EndedIn(thread', r) = EndedIn(thread, r)
    <3>1. Received(thread') = Received(thread)
      BY <2>1 DEF Received
    <3>2. \A q \in Received(thread) : q \in DOMAIN thread
      BY DEF Received
    <3> QED
      BY <2>1, <3>1, <3>2 DEF EndedIn
  <2>4. PersonsIn(thread', contact.cleared) = {}
    <3>1. contact.cleared \in 0 .. Len(thread') /\ Len(thread') # 0 /\ thread'[Len(thread')].out
      BY <1>f, <2>1
    <3> QED
      BY <1>g, <3>1, NobodyWaits
  <2>5. StillWaits(thread', contact', r) = 0
    BY <2>2, <2>4 DEF StillWaits, One
  <2> QED
    BY <1>g, <1>n, <1>s, <2>2, <2>3, <2>5
<1>7. CASE (MarkReplied \/ MarkDone) /\ contact' = Cleared
  <2>1. contact'.since = 0 /\ contact'.cleared = Len(thread)
    BY <1>7, ClearedFacts
  <2>2. thread' = thread /\ reminded' = reminded /\ hands' >= hands
    BY <1>f, <1>7 DEF MarkReplied, MarkDone, Hand
  <2>3. PersonsIn(thread', contact'.cleared) = {}
    BY <1>f, <2>1, <2>2, NobodyWaits
  <2>4. StillWaits(thread', contact', r) = 0 /\ Alarm(contact', r) = 0
    BY <1>n, <2>1, <2>3 DEF StillWaits, Alarm, One
  <2> QED
    BY <1>g, <1>n, <1>s, <2>2, <2>4
<1>8. CASE (MarkReplied /\ contact' # Cleared) \/ Stop
  <2>1. UNCHANGED <<thread, contact, reminded, hands>>
    BY <1>8 DEF MarkReplied, Stop
  <2> QED
    BY <1>d, <2>1
<1>9. CASE Snooze
  <2>1. /\ contact'.since = contact.since /\ contact'.cleared = contact.cleared
        /\ thread' = thread /\ reminded' = reminded /\ hands' = hands + 1
    BY <1>9, NotifiedFacts DEF Snooze, Hand
  <2>2. StillWaits(thread', contact', r) = StillWaits(thread, contact, r)
    BY <2>1 DEF StillWaits
  <2> QED
    BY <1>g, <1>n, <1>s, <2>1, <2>2
<1>10. CASE Remind
  <2>1. /\ contact'.since = contact.since /\ contact'.cleared = contact.cleared /\ contact'.notified
        /\ ~contact.notified /\ reminded' = [reminded EXCEPT ![contact.since] = @ + 1]
        /\ thread' = thread /\ hands' = hands
    BY <1>10, NotifiedFacts DEF Remind, userVars
  <2>2. StillWaits(thread', contact', r) = StillWaits(thread, contact, r)
    BY <2>1 DEF StillWaits
  <2>3. CASE contact.since = r
    <3>1. Alarm(contact, r) = 1 /\ Alarm(contact', r) = 0
      BY <2>1, <2>3 DEF Alarm, One
    <3>2. reminded'[r] = reminded[r] + 1
      BY <1>g, <2>1, <2>3
    <3> QED
      BY <1>g, <1>n, <1>s, <2>1, <2>2, <3>1, <3>2
  <2>4. CASE contact.since # r
    <3>1. Alarm(contact, r) = 0 /\ Alarm(contact', r) = 0
      BY <2>1, <2>4 DEF Alarm, One
    <3>2. reminded'[r] = reminded[r]
      BY <1>g, <2>1, <2>4
    <3> QED
      BY <1>g, <1>n, <1>s, <2>1, <2>2, <3>1, <3>2
  <2> QED
    BY <2>3, <2>4
<1> QED
  BY <1>1, <1>2, <1>3, <1>4, <1>5, <1>6, <1>7, <1>8, <1>9, <1>10, ReplyCases DEF MarkDone

-----------------------------------------------------------------------------
(* Replies: the theorems *)

LEMMA ReplyStarts == ReplyInit => ReplyInv
<1> SUFFICES ASSUME ReplyInit PROVE ReplyInv
  OBVIOUS
<1> USE DEF ReplyInit
<1>1. Inbound = {} /\ DOMAIN thread = {} /\ Len(thread) = 0
  BY DEF Inbound
<1>2. ReplyTypeOK
  <2>1. contact \in ContactRecords /\ 0 \in 0 .. MaxRows /\ 0 \in 0 .. MaxFaults /\ 0 \in 0 .. MaxHands
    BY RepliesAssumption DEF ContactRecords
  <2>2. reminded \in [1 .. MaxRows -> Nat] /\ MaxRows >= 0
    BY RepliesAssumption
  <2>3. thread \in Seq(ReplyRecords) /\ Len(thread) <= MaxRows
    BY <1>1, <2>2
  <2>4. /\ mailbox \in [Mails -> {"none", "unseen", "flag", "seen"}] /\ posted \subseteq Hooked
        /\ jobs \subseteq Inbound /\ byHand \subseteq Inbound /\ work = {}
        /\ answer \in BOOLEAN /\ faults \in 0 .. MaxFaults /\ hands \in 0 .. MaxHands
        /\ mishaps \subseteq {"torn", "again"}
    BY <2>1
  <2> QED
    BY <2>1, <2>2, <2>3, <2>4 DEF ReplyTypeOK, ContactRecords, ReplyRecords
<1>3. WorkInv
  BY <1>1 DEF WorkInv, OfWork
<1>4. LabelInv /\ HandInv
  BY <1>1 DEF LabelInv, HandInv
<1>5. WaitInv
  <2>1. Persons = {} /\ contact.cleared <= Len(thread)
    BY <1>1 DEF Persons
  <2>2. WaitsSince = 0
    BY <1>2, <2>1, WaitsSinceType
  <2> QED
    BY <2>2 DEF WaitInv
<1>6. CopiesInv
  <2>1. \A m \in Mails \union Hooked : Stored(m) = {} /\ Cardinality(Stored(m)) = 0
    BY <1>1, FS_EmptySet DEF Stored
  <2> QED
    BY <2>1 DEF CopiesInv
<1>7. ReminderInv
  <2>1. \A r : Ended(r) = {} /\ Cardinality(Ended(r)) = 0
    BY <1>1, FS_EmptySet DEF Ended
  <2>2. \A r : r \notin Persons
    BY <1>1 DEF Persons
  <2>3. \A r \in DOMAIN reminded : reminded[r] = 0 /\ r # 0 /\ contact.since # r
    OBVIOUS
  <2> QED
    BY <2>1, <2>2, <2>3 DEF ReminderInv, One
<1> QED
  BY <1>2, <1>3, <1>4, <1>5, <1>6, <1>7 DEF ReplyInv

LEMMA ReplyInvStays == ReplyInv /\ [ReplyNext]_replyVars => ReplyInv'
<1> SUFFICES ASSUME ReplyInv, [ReplyNext]_replyVars PROVE ReplyInv'
  OBVIOUS
<1>1. ReplyTypeOK /\ WorkInv /\ LabelInv /\ WaitInv /\ HandInv /\ CopiesInv /\ ReminderInv
  BY DEF ReplyInv
<1>2. ReplyTypeOK'
  BY <1>1, ReplyTypesStay
<1>3. WorkInv' /\ LabelInv' /\ WaitInv' /\ HandInv' /\ CopiesInv'
  BY <1>1, <1>2, WorkStays, LabelStays, WaitStays, HandStays, CopiesStay
<1>4. ReminderInv'
  BY <1>1, <1>2, ReminderMeans, ReminderStays
<1> QED
  BY <1>2, <1>3, <1>4 DEF ReplyInv

LEMMA ReplyInvHolds == ReplySpec => []ReplyInv
<1>1. ReplyInit => ReplyInv
  BY ReplyStarts
<1>2. ReplyInv /\ [ReplyNext]_replyVars => ReplyInv'
  BY ReplyInvStays
<1> QED
  BY <1>1, <1>2, PTL DEF ReplySpec

\* Every value the rows of the lead and the work under way take is of its type.
THEOREM ReplyTypeCorrect == ReplySpec => []ReplyTypeOK
<1>1. ReplyInv => ReplyTypeOK
  BY DEF ReplyInv
<1> QED
  BY <1>1, ReplyInvHolds, PTL

LEMMA LabelsSettle ==
  ASSUME ReplyInv
  PROVE  LabelOfNewest
<1> SUFFICES ASSUME Settled, Inbound # {}
             PROVE  contact.last = thread[Greatest(Inbound)].label
  BY DEF LabelOfNewest
<1>1. Len(thread) \in Nat /\ Inbound \in SUBSET (0 .. Len(thread))
  BY ReplyFacts DEF ReplyInv
<1>2. PICK g : g = Greatest(Inbound)
  OBVIOUS
<1>3. g \in Inbound /\ \A q \in Inbound : g >= q
  BY <1>1, <1>2, GreatestIs
<1>4. Labelled(g) /\ NewestLabelled(g)
  BY <1>1, <1>3 DEF Settled, Unlabelled, Labelled, NewestLabelled
<1>5. contact.last = thread[g].label \/ \E w \in OfWork("contact") : w.row = g
  BY <1>3, <1>4 DEF ReplyInv, LabelInv, Settled
<1> QED
  BY <1>2, <1>5 DEF Settled, OfWork

LEMMA CopiesCounted ==
  ASSUME ReplyInv
  PROVE  CopiesNeedFaults
<1> SUFFICES ASSUME NEW m \in Mails \union Hooked
             PROVE  Cardinality({r \in Inbound : thread[r].mail = m}) <=
                      faults + (IF m \in posted THEN 1 ELSE 0) + (IF m \in Mails THEN 1 ELSE 0)
  BY DEF CopiesNeedFaults
<1>1. faults \in Nat /\ Cardinality(Stored(m)) \in Nat
  BY ReplyFacts, RowsAreFinite DEF ReplyInv, Stored
<1>2. Cardinality(Stored(m)) <=
        faults + (IF m \in posted THEN 1 ELSE 0)
               + (IF m \in Mails /\ mailbox[m] \in {"flag", "seen"} THEN 1 ELSE 0)
  BY DEF ReplyInv, CopiesInv
<1> QED
  BY <1>1, <1>2 DEF Stored

LEMMA RemindersCounted ==
  ASSUME ReplyInv
  PROVE  OneReminder
<1> SUFFICES ASSUME "again" \notin mishaps, NEW r \in DOMAIN reminded
             PROVE  reminded[r] <= 1 + hands + Cardinality({q \in Inbound : q > r /\ thread[q].label = "gone"})
  BY DEF OneReminder
<1>1. ReplyTypeOK /\ ReminderInv
  BY DEF ReplyInv
<1>2. reminded[r] \in Nat /\ hands \in Nat /\ Cardinality(Ended(r)) \in Nat
  <2>1. Cardinality(Ended(r)) \in Nat
    BY <1>1, RowsAreFinite DEF Ended
  <2> QED
    BY <1>1, <2>1 DEF ReplyTypeOK
<1>3. PICK a \in {0, 1}, u \in {0, 1} : reminded[r] + a + u <= 1 + hands + Cardinality(Ended(r))
  BY <1>1 DEF ReminderInv, One
<1>4. reminded[r] <= 1 + hands + Cardinality(Ended(r))
  BY <1>2, <1>3
<1> QED
  BY <1>4 DEF Ended

\* Once the work is done the lead carries the label of its newest reply and waits since the right
\* one, labels given by hand stay, and copies and reminders are accounted for.
THEOREM ContactFollows == ReplySpec => []ContactFollowsReplies
<1>1. ASSUME ReplyInv PROVE ContactFollowsReplies
  <2>1. WaitsWhenItShould
    BY <1>1 DEF ReplyInv, WaitInv, WaitsWhenItShould, Settled, OfWork
  <2>2. ManualLabelStays
    BY <1>1 DEF ReplyInv, HandInv, ManualLabelStays
  <2> QED
    BY <1>1, <2>1, <2>2, LabelsSettle, CopiesCounted, RemindersCounted DEF ContactFollowsReplies
<1>2. ReplyInv => ContactFollowsReplies
  BY <1>1
<1> QED
  BY <1>2, ReplyInvHolds, PTL

-----------------------------------------------------------------------------
(* The services side by side *)

LEMMA StepsOfOneService ==
  [Next]_<<part, sessionVars, billingVars, replyVars, leadVars>> =>
    /\ [SessionNext]_sessionVars /\ [BillingNext]_billingVars
    /\ [ReplyNext]_replyVars /\ [LeadNext]_leadVars
<1>1. CASE UNCHANGED <<part, sessionVars, billingVars, replyVars, leadVars>>
  BY <1>1
<1>2. CASE SessionNext /\ UNCHANGED <<billingVars, replyVars, leadVars>>
  BY <1>2
<1>3. CASE BillingNext /\ UNCHANGED <<sessionVars, replyVars, leadVars>>
  BY <1>3
<1>4. CASE ReplyNext /\ UNCHANGED <<sessionVars, billingVars, leadVars>>
  BY <1>4
<1>5. CASE LeadNext /\ UNCHANGED <<sessionVars, billingVars, replyVars>>
  BY <1>5
<1> QED
  BY <1>1, <1>2, <1>3, <1>4, <1>5 DEF Next

\* The services share no state: a behaviour of all of them is one of each, whatever the others
\* are at.  What is proved of one service alone therefore holds of it beside the others.
THEOREM EachServiceRuns == Spec => SessionSpec /\ BillingSpec /\ ReplySpec /\ LeadSpec
<1>1. Init => SessionInit /\ BillingInit /\ ReplyInit /\ LeadInit
  BY DEF Init
<1> QED
  BY <1>1, StepsOfOneService, PTL DEF Spec, SessionSpec, BillingSpec, ReplySpec, LeadSpec

\* The variables of the sessions, of billing, of the inbox and of a lead have their types in every
\* state of the services side by side.
THEOREM ServicesTypeCorrect == Spec => []TypeOK
<1>1. SessionTypeOK /\ BillingTypeOK /\ ReplyTypeOK /\ LeadTypeOK => TypeOK
  BY DEF TypeOK
<1> QED
  BY <1>1, EachServiceRuns, SessionsTypeCorrect, BillingTypeCorrect, ReplyTypeCorrect,
     LeadTypeCorrect, PTL

\* Side by side the services keep what each of them promises: logins end and stay ended, the
\* events of Stripe count, a lead follows its replies, and the mails planned for it keep their limits.
THEOREM ServicesKeepTheirPromises ==
  Spec => [](LoginsHold /\ EventsCount /\ ContactFollowsReplies /\ MailsWithinLimits)
BY EachServiceRuns, LoginsAreSound, EventsCountHold, ContactFollows, MailsStayWithinLimits, PTL
=============================================================================
