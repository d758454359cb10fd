------------------------------- MODULE Outbox -------------------------------
(***************************************************************************)
(* The delivery of final reports: OutboxDispatcher.dispatch over a         *)
(* DurableOutbox (services/reporting), through the Gatekeeper, to a mail   *)
(* provider.                                                               *)
(*                                                                         *)
(* All items live in one record that each operation of the outbox loads,   *)
(* changes and saves under a lock; dispatch takes that lock once for get   *)
(* and once for each transition, so a step of a dispatch ends where the    *)
(* lock is released.  One process owns the record: nothing locks the file  *)
(* between processes.  An operation may raise in its save, and the process *)
(* may die between any two steps.                                          *)
(*                                                                         *)
(* The Gatekeeper is seen from outside (ProtectedExecutor.run): a call is  *)
(* at most MaxTries posts, one after the other.  A post that times out is  *)
(* only given up, not recalled: asyncio.to_thread leaves its thread at     *)
(* work, and the provider may still take the mail.                         *)
(*                                                                         *)
(* Clocks, MIME text and error codes are left out: a report in RETRY_WAIT  *)
(* may be due whenever dispatch looks.  The operator's script that moves a *)
(* waiting report to VALIDATED before it dispatches is such a look.        *)
(***************************************************************************)
EXTENDS Integers, FiniteSets

CONSTANTS
  Ids,          \* logical report IDs
  Contents,     \* attachment and recipient of a report, by their digest
  Tasks,        \* calls of dispatch that may run at the same time
  MaxTries,     \* posts of one Gatekeeper call (max_retries + 1)
  MaxAttempts,  \* bound: no dispatch of a report already sent this often
  MaxFaults,    \* bound on crashes and raised errors
  None

ASSUME BoundsAssumption ==
  MaxTries \in Nat \ {0} /\ MaxAttempts \in Nat /\ MaxFaults \in Nat


States == {"PENDING", "VALIDATED", "SENDING", "RETRY_WAIT", "SENT", "FAILED_PERMANENT"}
Final  == {"SENT", "FAILED_PERMANENT"}

Transitions ==
  [s \in States |->
     CASE s = "PENDING"    -> {"VALIDATED"}
       [] s = "VALIDATED"  -> {"SENDING"}
       [] s = "SENDING"    -> {"RETRY_WAIT", "SENT", "FAILED_PERMANENT"}
       [] s = "RETRY_WAIT" -> {"VALIDATED"}
       [] OTHER            -> {}]

Items == [content : Contents, state : States, attempts : Nat]

ASSUME NoneAssumption == None \notin Contents \cup Items \cup Transitions["SENDING"]

Posts == [id : Ids, content : Contents, attempt : Nat, try : 1..MaxTries]

VARIABLES
  items,   \* the durable record: an item or None for each ID
  tasks,   \* where each dispatch is, and what it holds
  posts,   \* the posts on their way to the provider
  taken,   \* the posts the provider has taken (one mail each)
  told,    \* history: the pairs <<id, state>> of final receipts
  faults   \* crashes and raised errors so far

vars == <<items, tasks, posts, taken, told, faults>>

Stages == {"validate", "send", "call", "posted", "settle"}

Idle == [at |-> "idle"]

\* A dispatch of report i at a stage: the item it was last given, the posts of
\* its call so far and the state the answer leads to.
Dispatches ==
  [at : Stages, id : Ids, item : Items, try : 0..MaxTries,
   result : Transitions["SENDING"] \cup {None}]

Task(stage, i, item, try, result) ==
  [at |-> stage, id |-> i, item |-> item, try |-> try, result |-> result]

Init ==
  /\ items = [i \in Ids |-> None]
  /\ tasks = [t \in Tasks |-> Idle]
  /\ posts = {}
  /\ taken = {}
  /\ told = {}
  /\ faults = 0

-----------------------------------------------------------------------------
(* OutboxItem.transitioned and DurableOutbox.transition. *)

Moved(item, state) ==
  [item EXCEPT !.state = state,
               !.attempts = IF state = "SENDING" THEN @ + 1 ELSE @]

\* Mutant: a transition to the state the item is in already counts as done.
LegalOrDone(item, state) ==
  state \in Transitions[item.state] \/ state = item.state

Legal(item, state) == state \in Transitions[item.state]

\* Task t's transition of its report; an illegal one raises out of dispatch.
Transition(t, state, next) ==
  LET i == tasks[t].id IN
    \/ /\ Legal(items[i], state)
       /\ items' = [items EXCEPT ![i] = Moved(@, state)]
       /\ tasks' = [tasks EXCEPT ![t] = next]
    \/ /\ ~Legal(items[i], state)
       /\ tasks' = [tasks EXCEPT ![t] = Idle]
       /\ UNCHANGED items

-----------------------------------------------------------------------------
(* Steps of the callers. *)

\* Mutant: other bytes replace those of a report that is not final.
EnqueueLatest(i, c) ==
  /\ items[i] # None => items[i].state \notin Final
  /\ items' = [items EXCEPT ![i] = [content |-> c, state |-> "PENDING", attempts |-> 0]]
  /\ UNCHANGED <<tasks, posts, taken, told, faults>>

\* enqueue: the same bytes again return the item there is, others raise.
Enqueue(i, c) ==
  /\ items[i] = None
  /\ items' = [items EXCEPT ![i] = [content |-> c, state |-> "PENDING", attempts |-> 0]]
  /\ UNCHANGED <<tasks, posts, taken, told, faults>>

\* dispatch up to the first transition.  An item that is VALIDATED or SENDING
\* falls through to the second.
Begin(t, i) ==
  /\ tasks[t] = Idle
  /\ items[i] # None
  /\ \/ /\ items[i].state \in Final
        /\ told' = told \cup {<<i, items[i].state>>}
        /\ UNCHANGED tasks
     \/ /\ items[i].state \in {"PENDING", "RETRY_WAIT"}
        /\ items[i].attempts < MaxAttempts
        /\ tasks' = [tasks EXCEPT ![t] = Task("validate", i, items[i], 0, None)]
        /\ UNCHANGED told
     \/ /\ items[i].state \in {"VALIDATED", "SENDING"}
        /\ items[i].attempts < MaxAttempts
        /\ tasks' = [tasks EXCEPT ![t] = Task("send", i, items[i], 0, None)]
        /\ UNCHANGED told
  /\ UNCHANGED <<items, posts, taken, faults>>

Validate(t) ==
  /\ tasks[t].at = "validate"
  /\ LET i == tasks[t].id IN
       Transition(t, "VALIDATED", Task("send", i, Moved(items[i], "VALIDATED"), 0, None))
  /\ UNCHANGED <<posts, taken, told, faults>>

StartSending(t) ==
  /\ tasks[t].at = "send"
  /\ LET i == tasks[t].id IN
       Transition(t, "SENDING", Task("call", i, Moved(items[i], "SENDING"), 0, None))
  /\ UNCHANGED <<posts, taken, told, faults>>

\* The end of dispatch: the answer's state is saved, and a final one returned.
Settle(t) ==
  /\ tasks[t].at = "settle"
  /\ LET i == tasks[t].id
         state == tasks[t].result
     IN /\ Transition(t, state, Idle)
        /\ told' = IF Legal(items[i], state) /\ state \in Final
                   THEN told \cup {<<i, state>>} ELSE told
  /\ UNCHANGED <<posts, taken, faults>>

-----------------------------------------------------------------------------
(* Steps of a Gatekeeper call and of the provider. *)

PostOf(task) ==
  [id |-> task.id, content |-> task.item.content,
   attempt |-> task.item.attempts, try |-> task.try]

Post(t) ==
  /\ tasks[t].at = "call"
  /\ tasks[t].try < MaxTries
  /\ LET next == [tasks[t] EXCEPT !.at = "posted", !.try = @ + 1] IN
       /\ tasks' = [tasks EXCEPT ![t] = next]
       /\ posts' = posts \cup {PostOf(next)}
  /\ UNCHANGED <<items, taken, told, faults>>

Take(p) ==
  /\ posts' = posts \ {p}
  /\ taken' = taken \cup {p}
  /\ UNCHANGED <<items, tasks, told, faults>>

Settles(t, state) ==
  tasks' = [tasks EXCEPT ![t].at = "settle", ![t].result = state]

\* Any answer but a readable success leads to an error outcome, and an
\* unreadable answer to a mail that was taken is one of the final ones.
Answered(t) ==
  /\ tasks[t].at = "posted"
  /\ PostOf(tasks[t]) \in taken
  /\ \E state \in Final : Settles(t, state)
  /\ UNCHANGED <<items, posts, taken, told, faults>>

\* 401, 403 and other 4xx are final; 429, 5xx and a broken connection are not.
Refused(t) ==
  /\ tasks[t].at = "posted"
  /\ PostOf(tasks[t]) \in posts
  /\ posts' = posts \ {PostOf(tasks[t])}
  /\ \/ Settles(t, "FAILED_PERMANENT")
     \/ tasks' = [tasks EXCEPT ![t].at = "call"]
  /\ UNCHANGED <<items, taken, told, faults>>

\* No answer, or a failure that says nothing of what the provider did.
TimedOut(t) ==
  /\ tasks[t].at = "posted"
  /\ tasks' = [tasks EXCEPT ![t].at = "call"]
  /\ UNCHANGED <<items, posts, taken, told, faults>>

\* No further post: rejected by a limit or the circuit, out of tries or time.
GiveUp(t) ==
  /\ tasks[t].at = "call"
  /\ Settles(t, "RETRY_WAIT")
  /\ UNCHANGED <<items, posts, taken, told, faults>>

-----------------------------------------------------------------------------
(* Failures. *)

\* A save raises, or the Gatekeeper does: dispatch ends where it is.
Raise(t) ==
  /\ tasks[t].at \in Stages \ {"posted"}
  /\ faults < MaxFaults
  /\ tasks' = [tasks EXCEPT ![t] = Idle]
  /\ faults' = faults + 1
  /\ UNCHANGED <<items, posts, taken, told>>

\* Mutant: recovery also resends what the record says was sent.
RecoveredAll(item) ==
  IF item # None /\ item.state \in {"SENDING", "SENT"}
  THEN [item EXCEPT !.state = "RETRY_WAIT"] ELSE item

\* _recover_interrupted
Recovered(item) ==
  IF item # None /\ item.state = "SENDING"
  THEN Moved(item, "RETRY_WAIT") ELSE item

\* The process dies and the next one opens the record.
Restart ==
  /\ faults < MaxFaults
  /\ items' = [i \in Ids |-> Recovered(items[i])]
  /\ tasks' = [t \in Tasks |-> Idle]
  /\ faults' = faults + 1
  /\ UNCHANGED <<posts, taken, told>>

Dispatching(t) ==
  \/ \E i \in Ids : Begin(t, i)
  \/ Validate(t) \/ StartSending(t) \/ Settle(t)
  \/ Post(t) \/ Answered(t) \/ Refused(t) \/ TimedOut(t) \/ GiveUp(t)
  \/ Raise(t)

Next ==
  \/ \E i \in Ids, c \in Contents : Enqueue(i, c)
  \/ \E t \in Tasks : Dispatching(t)
  \/ \E p \in posts : Take(p)
  \/ Restart

Spec == Init /\ [][Next]_vars

-----------------------------------------------------------------------------
(* Correctness. *)

InCall(t) == tasks[t].at \in {"call", "posted", "settle"}

\* Every variable stays in its type; a dispatch that knows its answer holds a
\* state that SENDING may move to.
TypeOK ==
  /\ items \in [Ids -> Items \cup {None}]
  /\ tasks \in [Tasks -> {Idle} \cup Dispatches]
  /\ \A t \in Tasks :
       /\ tasks[t].at = "settle" => tasks[t].result # None
       /\ tasks[t].at = "posted" => tasks[t].try # 0
  /\ posts \subseteq Posts
  /\ taken \subseteq Posts
  /\ told \subseteq Ids \X Final
  /\ faults \in Nat

\* However many dispatches of a report race between get and their transitions,
\* at most one is in a Gatekeeper call for it, and the record says so with the
\* very item that dispatch holds (the SENDING transition is the mutex).
OneSender ==
  /\ \A t \in Tasks : InCall(t) => items[tasks[t].id] = tasks[t].item
  /\ \A t \in Tasks : InCall(t) => tasks[t].item.state = "SENDING"
  /\ \A t, u \in Tasks :
       InCall(t) /\ InCall(u) /\ tasks[t].id = tasks[u].id => t = u

\* SENT is idempotent and never sends again (docs/OPERATIONS.md:98), nor does
\* FAILED_PERMANENT: once a caller holds either receipt no post is added for
\* the report, whichever dispatches were under way and whatever restarts follow.
NoPostOnceTold ==
  [][\A r \in told : \A p \in posts' \ posts : p.id # r[1]]_vars

\* To its callers the outbox is the ledger of reports: the first bytes stay,
\* one outcome is decided, sent only after the provider took those bytes, and
\* no receipt is ever contradicted, across crashes and restarts.
QueuedContent == [i \in Ids |-> IF items[i] = None THEN None ELSE items[i].content]

Outcome ==
  [i \in Ids |->
     IF items[i] = None THEN "open"
     ELSE CASE items[i].state = "SENT"             -> "sent"
            [] items[i].state = "FAILED_PERMANENT" -> "failed"
            [] OTHER                               -> "open"]

Told == {<<r[1], IF r[2] = "SENT" THEN "sent" ELSE "failed">> : r \in told}

Ledger ==
  INSTANCE ReportLedger WITH
    queued <- QueuedContent, taken <- {<<p.id, p.content>> : p \in taken},
    outcome <- Outcome, told <- Told
ImplementsLedger == Ledger!LedgerSpec
=============================================================================
