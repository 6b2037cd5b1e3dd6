----------------------------- MODULE TaskLedger -----------------------------
(***************************************************************************)
(* What the task queue promises to a lead run, whatever workers do: a task *)
(* is added once, it is settled once, and its result is booked exactly     *)
(* when it is settled as done; follow-up tasks come with the booking.      *)
(***************************************************************************)
EXTENDS Naturals

CONSTANT Tasks

VARIABLES
  todo,     \* tasks that somebody has still to work on
  done,     \* tasks whose result counts
  dropped,  \* tasks given up: failed, skipped, cancelled
  booked    \* how often the result of a task was booked

ledgerVars == <<todo, done, dropped, booked>>

LedgerInit == todo = {} /\ done = {} /\ dropped = {} /\ booked = [t \in Tasks |-> 0]

Known == todo \union done \union dropped

Add(S) ==
  /\ S \subseteq Tasks \ Known
  /\ todo' = todo \union S
  /\ UNCHANGED <<done, dropped, booked>>

Book(t, S) ==
  /\ t \in todo /\ S \subseteq Tasks \ Known
  /\ todo' = (todo \ {t}) \union S
  /\ done' = done \union {t}
  /\ booked' = [booked EXCEPT ![t] = @ + 1]
  /\ UNCHANGED dropped

Drop(S) ==
  /\ S \subseteq todo
  /\ todo' = todo \ S
  /\ dropped' = dropped \union S
  /\ UNCHANGED <<done, booked>>

LedgerNext ==
  \/ \E S \in SUBSET Tasks : Add(S) \/ Drop(S)
  \/ \E t \in Tasks, S \in SUBSET Tasks : Book(t, S)

LedgerSpec == LedgerInit /\ [][LedgerNext]_ledgerVars
=============================================================================
