---------------------------- MODULE ReportLedger ----------------------------
(***************************************************************************)
(* What the durable outbox promises its callers, with no task, transition, *)
(* retry or crash in sight: the first content queued under a report ID is  *)
(* the report; its outcome is decided at most once, as sent only if the    *)
(* mail provider took that content; and a caller is told an outcome only   *)
(* after it was decided, so that it never has to be taken back.            *)
(***************************************************************************)
CONSTANTS Ids, Contents, None

VARIABLES
  queued,    \* the content queued under each ID
  taken,     \* the pairs <<id, content>> the provider has taken
  outcome,   \* "open", "sent" or "failed" for each ID
  told       \* the pairs <<id, outcome>> handed to callers

ledger == <<queued, taken, outcome, told>>

LedgerInit ==
  /\ queued = [i \in Ids |-> None]
  /\ taken = {}
  /\ outcome = [i \in Ids |-> "open"]
  /\ told = {}

Queue(i, c) ==
  /\ queued[i] = None
  /\ queued' = [queued EXCEPT ![i] = c]
  /\ UNCHANGED <<taken, outcome, told>>

Take(i) ==
  /\ queued[i] # None
  /\ taken' = taken \cup {<<i, queued[i]>>}
  /\ UNCHANGED <<queued, outcome, told>>

\* The caller that learns of the decision first is told in the same step.
Decide(i, o) ==
  /\ queued[i] # None
  /\ outcome[i] = "open"
  /\ o = "sent" => <<i, queued[i]>> \in taken
  /\ outcome' = [outcome EXCEPT ![i] = o]
  /\ told' = told \cup {<<i, o>>}
  /\ UNCHANGED <<queued, taken>>

Tell(i) ==
  /\ outcome[i] # "open"
  /\ told' = told \cup {<<i, outcome[i]>>}
  /\ UNCHANGED <<queued, taken, outcome>>

LedgerNext ==
  \E i \in Ids :
    \/ \E c \in Contents : Queue(i, c)
    \/ Take(i)
    \/ \E o \in {"sent", "failed"} : Decide(i, o)
    \/ Tell(i)

LedgerSpec == LedgerInit /\ [][LedgerNext]_ledger
=============================================================================
