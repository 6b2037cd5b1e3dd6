------------------------------ MODULE Sessions ------------------------------
(***************************************************************************)
(* Cookie sessions of one user: logins, the rotation of refresh tokens in  *)
(* the tabs of one browser, with its transaction, logout, and the password *)
(* reset that ends every session.  A statement of the database that finds  *)
(* a row locked waits and then sees its newest version, but no row         *)
(* inserted since the statement began.                                     *)
(***************************************************************************)
EXTENDS Integers, FiniteSets

CONSTANTS
  Tabs,       \* tabs of the browser
  NoToken,
  MaxTokens,  \* bound on the rows of auth_refresh_tokens
  MaxLosses,  \* bound on answers that never arrive, or come after the grace period
  Browsers    \* browsers with navigator.locks (TRUE) and without

ASSUME SessionsAssumption ==
  /\ {MaxTokens, MaxLosses} \subseteq Nat /\ NoToken \notin Nat /\ Browsers \subseteq BOOLEAN

Tokens == 1 .. MaxTokens
Enders == {"logout", "reset", "reuse"}

VARIABLES
  issued,    \* rows of auth_refresh_tokens: tokens 1 .. issued
  family,    \* family_id
  revoked,   \* rows with revoked_at
  replaced,  \* of these, the ones with replaced_by
  recent,    \* revoked less than REUSE_GRACE_MS ago
  locked,    \* rows updated by a rotation that has not committed
  hasLocks,  \* the browser has navigator.locks
  cookie,    \* the mf_rt cookie, shared by the tabs
  tab,       \* refreshSession in each tab, and its request at the server
  ender,     \* an UPDATE that ends sessions: what it is, and the rows of its snapshot
  login,     \* a login between its password check and createSession, overtaken by a reset
  losses,
  ended,     \* history: families ended by logout, reuse or reset, or begun with the old password
  excuses    \* history: what overlapped with an end, and what was lost

sessionVars == <<issued, family, revoked, replaced, recent, locked, hasLocks, cookie, tab, ender, login,
                 losses, ended, excuses>>
tokenVars == <<issued, family, revoked, replaced, recent, locked, hasLocks>>

Live == {t \in 1 .. issued : t \notin revoked}
OfFamily(f) == {t \in 1 .. issued : family[t] = f}

TabStates == {"idle", "sent", "claim", "commit", "reuse", "answer", "pause", "out"}
Answers == {"none", "ok", "race", "ended"}
Quiet == [at |-> "idle", attempt |-> 0, sent |-> NoToken, answer |-> "none", new |-> NoToken]

TokenTypes ==
  /\ issued \in 0 .. MaxTokens
  /\ family \in [Tokens -> Tokens]
  /\ revoked \in SUBSET (1 .. issued) /\ replaced \in SUBSET revoked
  /\ recent \in SUBSET revoked /\ locked \in SUBSET (1 .. issued)
  /\ hasLocks \in Browsers /\ cookie \in Tokens \union {NoToken}

TabRecords == [at : TabStates, attempt : 0 .. 1, sent : Tokens \union {NoToken},
               answer : Answers, new : Tokens \union {NoToken}]
TabTypes == tab \in [Tabs -> TabRecords]

\* Types of the variables.
SessionTypeOK ==
  /\ TokenTypes /\ TabTypes
  /\ ender \in [kind : Enders \union {"none"}, rows : SUBSET Tokens]
  /\ login \in {"none", "checked", "overtaken"}
  /\ losses \in 0 .. MaxLosses
  /\ ended \in SUBSET Tokens
  /\ excuses \in SUBSET {"rotation", "login", "lost", "late"}

SessionInit ==
  /\ issued = 0 /\ family = [t \in Tokens |-> t]
  /\ revoked = {} /\ replaced = {} /\ recent = {} /\ locked = {}
  /\ hasLocks \in Browsers /\ cookie = NoToken
  /\ tab = [t \in Tabs |-> Quiet]
  /\ ender = [kind |-> "none", rows |-> {}]
  /\ login = "none" /\ losses = 0 /\ ended = {} /\ excuses = {}

-----------------------------------------------------------------------------
(* Login *)

CheckPassword ==
  /\ login = "none" /\ cookie = NoToken
  /\ login' = "checked"
  /\ UNCHANGED <<tokenVars, cookie, tab, ender, losses, ended, excuses>>

\* createSession: the first token of a new family.
CreateSession ==
  /\ login # "none" /\ issued < MaxTokens
  /\ issued' = issued + 1
  /\ family' = [family EXCEPT ![issued + 1] = issued + 1]
  /\ cookie' = issued + 1
  /\ login' = "none"
  /\ IF login = "overtaken"
       THEN ended' = ended \union {issued + 1} /\ excuses' = excuses \union {"login"}
       ELSE UNCHANGED <<ended, excuses>>
  /\ UNCHANGED <<revoked, replaced, recent, locked, hasLocks, tab, ender, losses>>

-----------------------------------------------------------------------------
(* refreshSession in a tab, rotateSession at the server *)

InFlight(t) == tab[t].at \in {"sent", "claim", "commit", "reuse", "answer", "pause"}
Goto(t, place) == tab' = [tab EXCEPT ![t].at = place]
Reply(t, what) == tab' = [tab EXCEPT ![t].at = "answer", ![t].answer = what]

MayRefresh(t) == ~InFlight(t) /\ (hasLocks => \A o \in Tabs : ~InFlight(o))

Refresh(t) ==
  /\ MayRefresh(t) /\ tab[t].at = "idle" /\ cookie # NoToken
  /\ tab' = [tab EXCEPT ![t] = [Quiet EXCEPT !.at = "sent", !.sent = cookie]]
  /\ UNCHANGED <<tokenVars, cookie, ender, login, losses, ended, excuses>>

\* Mutant of InGrace: a token just replaced counts as used by somebody else.
InGraceNever(token) == FALSE

InGrace(token) == token \in replaced \intersect recent

\* The SELECT of the row; an expired row is treated like one used again.
ReadToken(t) ==
  /\ tab[t].at = "sent"
  /\ \/ /\ tab[t].sent \notin revoked /\ Goto(t, "claim")
     \/ /\ tab[t].sent \in revoked
        /\ IF InGrace(tab[t].sent) THEN Reply(t, "race") ELSE Goto(t, "reuse")
  /\ UNCHANGED <<tokenVars, cookie, ender, login, losses, ended, excuses>>

Claimable(token) == token \notin revoked

\* UPDATE ... WHERE revoked_at IS NULL inside the transaction, and the INSERT.
Claim(t) ==
  /\ tab[t].at = "claim" /\ tab[t].sent \notin locked
  /\ IF Claimable(tab[t].sent)
       THEN Goto(t, "commit") /\ locked' = locked \union {tab[t].sent}
       ELSE Reply(t, "race") /\ UNCHANGED locked
  /\ UNCHANGED <<issued, family, revoked, replaced, recent, hasLocks, cookie, ender, login, losses, ended,
                 excuses>>

Retire(token) == revoked \union {token}

Commit(t) ==
  /\ tab[t].at = "commit" /\ issued < MaxTokens
  /\ issued' = issued + 1
  /\ family' = [family EXCEPT ![issued + 1] = family[tab[t].sent]]
  /\ revoked' = Retire(tab[t].sent)
  /\ replaced' = replaced \union {tab[t].sent}
  /\ recent' = recent \union {tab[t].sent}
  /\ locked' = locked \ {tab[t].sent}
  /\ tab' = [tab EXCEPT ![t].at = "answer", ![t].answer = "ok", ![t].new = issued + 1]
  /\ UNCHANGED <<hasLocks, cookie, ender, login, losses, ended, excuses>>

\* The answer arrives with its Set-Cookie header.
Deliver(t) ==
  /\ tab[t].at = "answer"
  /\ \/ /\ tab[t].answer = "ok"
        /\ cookie' = tab[t].new /\ tab' = [tab EXCEPT ![t] = Quiet]
     \/ /\ tab[t].answer = "race" /\ tab[t].attempt = 0
        /\ Goto(t, "pause") /\ UNCHANGED cookie
     \/ /\ tab[t].answer = "race" /\ tab[t].attempt = 1
        /\ tab' = [tab EXCEPT ![t] = [Quiet EXCEPT !.at = "out"]] /\ UNCHANGED cookie
     \/ /\ tab[t].answer = "ended"
        /\ cookie' = NoToken /\ tab' = [tab EXCEPT ![t] = [Quiet EXCEPT !.at = "out"]]
  /\ UNCHANGED <<tokenVars, ender, login, losses, ended, excuses>>

\* postRefresh: another try 300 ms after a race, with the cookie the browser has now.
TryAgain(t) ==
  /\ tab[t].at = "pause"
  /\ IF cookie = NoToken THEN tab' = [tab EXCEPT ![t] = [Quiet EXCEPT !.at = "out"]]
     ELSE tab' = [tab EXCEPT ![t] = [Quiet EXCEPT !.at = "sent", !.attempt = 1, !.sent = cookie]]
  /\ UNCHANGED <<tokenVars, cookie, ender, login, losses, ended, excuses>>

\* A network error: postRefresh returns null and the tab signs out, the cookie stays.
LoseReply(t) ==
  /\ tab[t].at = "answer" /\ losses < MaxLosses
  /\ losses' = losses + 1
  /\ excuses' = IF tab[t].answer = "ok" THEN excuses \union {"lost"} ELSE excuses
  /\ tab' = [tab EXCEPT ![t] = [Quiet EXCEPT !.at = "out"]]
  /\ UNCHANGED <<tokenVars, cookie, ender, login, ended>>

\* A reload of a tab that signed out tries the cookie again.
Reload(t) ==
  /\ tab[t].at = "out"
  /\ tab' = [tab EXCEPT ![t] = Quiet]
  /\ UNCHANGED <<tokenVars, cookie, ender, login, losses, ended, excuses>>

\* REUSE_GRACE_MS passes; it is late while a request with that token is still under way.
GraceOver(token) ==
  /\ token \in recent
  /\ recent' = recent \ {token}
  /\ IF \E t \in Tabs : tab[t].sent = token /\ InFlight(t)
       THEN losses < MaxLosses /\ losses' = losses + 1 /\ excuses' = excuses \union {"late"}
       ELSE UNCHANGED <<losses, excuses>>
  /\ UNCHANGED <<issued, family, revoked, replaced, locked, hasLocks, cookie, tab, ender, login, ended>>

-----------------------------------------------------------------------------
(* What ends sessions: logout, a token used again, a password reset *)

\* Mutant of Doomed: only the token presented is revoked.
DoomedToken(kind, token) == IF kind = "reset" THEN Live ELSE Live \intersect {token}

\* The rows the UPDATE finds; with no token it ends every session of the user.
Doomed(kind, token) == IF kind = "reset" THEN Live ELSE Live \intersect OfFamily(family[token])

Families(rows) == {family[t] : t \in rows}

\* An UPDATE that meets no locked row is done at once, and otherwise waits.
End(kind, token) ==
  LET rows == Doomed(kind, token)
      families == IF kind = "reset" THEN Families(1 .. issued) ELSE {family[token]} IN
  /\ ender.kind = "none"
  /\ IF rows \intersect locked = {}
       THEN /\ revoked' = revoked \union rows /\ recent' = recent \union rows
            /\ UNCHANGED ender
       ELSE /\ ender' = [kind |-> kind, rows |-> rows]
            /\ UNCHANGED <<revoked, recent>>
  /\ ended' = ended \union families
  /\ excuses' = excuses \union (IF rows \intersect locked = {} THEN {} ELSE {"rotation"})
  /\ login' = IF kind = "reset" /\ login = "checked" THEN "overtaken" ELSE login
  /\ UNCHANGED <<issued, family, replaced, locked, hasLocks>>

\* The lock is gone: the row is looked at again, its successor is not in the snapshot.
EndWaiting ==
  /\ ender.kind # "none" /\ ender.rows \intersect locked = {}
  /\ revoked' = revoked \union ender.rows
  /\ recent' = recent \union (ender.rows \ revoked)
  /\ ender' = [kind |-> "none", rows |-> {}]
  /\ UNCHANGED <<issued, family, replaced, locked, hasLocks, cookie, tab, login, losses, ended, excuses>>

\* revokeFamily after a token was used again.
EndReused(t) ==
  /\ tab[t].at = "reuse"
  /\ End("reuse", tab[t].sent)
  /\ Reply(t, "ended")
  /\ UNCHANGED <<cookie, losses>>

Logout ==
  /\ cookie # NoToken
  /\ End("logout", cookie)
  /\ cookie' = NoToken
  /\ UNCHANGED <<tab, losses>>

\* resetPassword: the new password and then revokeAllSessionsForUser.
ResetPassword ==
  /\ issued > 0
  /\ End("reset", NoToken)
  /\ UNCHANGED <<cookie, tab, losses>>

SessionNext ==
  \/ CheckPassword \/ CreateSession \/ Logout \/ ResetPassword \/ EndWaiting
  \/ \E t \in Tabs : \/ Refresh(t) \/ ReadToken(t) \/ Claim(t) \/ Commit(t) \/ Deliver(t)
                     \/ TryAgain(t) \/ LoseReply(t) \/ Reload(t) \/ EndReused(t)
  \/ \E k \in Tokens : GraceOver(k)

SessionSpec == SessionInit /\ [][SessionNext]_sessionVars

-----------------------------------------------------------------------------
(* Properties *)

\* However tabs race, a login never has two refresh tokens that are good.
OneLiveToken == \A t, u \in Live : family[t] = family[u] => t = u

\* A login that was ended by logout, reuse or a password reset, or that was begun with the
\* password before the reset, has no token left that is good, unless a rotation was inside its
\* transaction, or a login past its check, when the UPDATE began.
EndedStaysEnded ==
  ender.kind = "none" /\ excuses \intersect {"rotation", "login"} = {} =>
    \A t \in Live : family[t] \notin ended

\* With navigator.locks or without, the user's own tabs are never taken for somebody else who
\* uses a token again, unless an answer was lost or the grace period passed over a request.
NoFalseReuse ==
  excuses \intersect {"lost", "late"} = {} =>
    \A t \in Tabs : tab[t].at = "reuse" => family[tab[t].sent] \in ended

\* A tab that finds its session gone is right, with navigator.locks and no answer lost: the
\* login was ended.
SignedOutIsEnded ==
  hasLocks /\ losses = 0 =>
    \A t \in Tabs : tab[t].at = "answer" /\ tab[t].answer # "ok" =>
      family[tab[t].sent] \in ended

\* What a login may hold, however tabs, requests and the end of the login race.
OneTokenPerOpenLogin == OneLiveToken /\ EndedStaysEnded

\* The user's own tabs do not sign one another out.
NoFalseSignOut == NoFalseReuse /\ SignedOutIsEnded

\* A login has its one token as long as it is open, and no longer.
LoginsHold == OneTokenPerOpenLogin /\ NoFalseSignOut
=============================================================================
