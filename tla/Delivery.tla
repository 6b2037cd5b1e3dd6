------------------------------ MODULE Delivery ------------------------------
(***************************************************************************)
(* What a sender of mails promises for every letter it has to send,        *)
(* whatever tasks, jobs, requests, reports and crashes do: a letter is     *)
(* taken before it is mailed, is mailed once each time it is taken, and is *)
(* taken again only if it was not mailed or its mail was lost; a letter    *)
(* that is closed is never taken again.                                    *)
(***************************************************************************)
EXTENDS Naturals

CONSTANT Letters   \* recipient rows of campaigns, or recipients of each step of a sequence

VARIABLES
  stage,   \* where a letter is
  copies,  \* messages the server accepted for a letter
  lost     \* those of them that the sender has no record of

deliveryVars == <<stage, copies, lost>>

Stages == {"none", "waiting", "taken", "mailed", "closed"}

DeliveryInit ==
  /\ stage \in [Letters -> {"none", "waiting"}]
  /\ copies = [r \in Letters |-> 0]
  /\ lost = [r \in Letters |-> 0]

Enter(r) ==
  /\ stage[r] = "none"
  /\ stage' = [stage EXCEPT ![r] = "waiting"]
  /\ UNCHANGED <<copies, lost>>

Take(S) ==
  /\ \A r \in S : stage[r] = "waiting"
  /\ stage' = [r \in Letters |-> IF r \in S THEN "taken" ELSE stage[r]]
  /\ UNCHANGED <<copies, lost>>

\* A letter deleted meanwhile is closed with its message.
Deliver(r) ==
  /\ stage[r] = "taken"
  /\ \E to \in {"mailed", "closed"} : stage' = [stage EXCEPT ![r] = to]
  /\ copies' = [copies EXCEPT ![r] = @ + 1]
  /\ UNCHANGED lost

\* Any letters that have been entered are settled, mailed or not, or deleted.
Close ==
  /\ stage' \in [Letters -> Stages]
  /\ \A r \in Letters : stage'[r] # stage[r] => stage[r] # "none" /\ stage'[r] = "closed"
  /\ UNCHANGED <<copies, lost>>

\* Letters in hand are let go of, by the sender or by its death: they wait again unless they have
\* been closed meanwhile, and of those that were mailed the message is lost.
Release(S) ==
  /\ \A r \in S : stage[r] \in {"taken", "mailed"}
  /\ stage' \in [Letters -> Stages]
  /\ \A r \in Letters : stage'[r] \in IF r \in S THEN {"waiting", "closed"} ELSE {stage[r]}
  /\ lost' = [r \in Letters |-> IF r \in S /\ stage[r] = "mailed" THEN lost[r] + 1 ELSE lost[r]]
  /\ UNCHANGED copies

DeliveryNext ==
  \/ Close
  \/ \E r \in Letters : Enter(r) \/ Deliver(r)
  \/ \E S \in SUBSET Letters : Take(S) \/ Release(S)

DeliverySpec == DeliveryInit /\ [][DeliveryNext]_deliveryVars

\* What follows from it: a letter is mailed a second time only if a message of it was lost, and
\* one that is not out has nothing but lost messages.
OnceUnlessLost ==
  \A r \in Letters :
    /\ copies[r] <= lost[r] + 1
    /\ stage[r] \in {"none", "waiting", "taken"} => copies[r] = lost[r]
=============================================================================
