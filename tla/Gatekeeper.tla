----------------------------- MODULE Gatekeeper -----------------------------
(***************************************************************************)
(* FullGatekeeper.execute for one provider (services/gatekeeper): bounded  *)
(* priority admission, then ProtectedExecutor.run, with the circuit, the   *)
(* durable quota, the token bucket and the retries, then release.          *)
(*                                                                         *)
(* All calls share one event loop: a call that does not await runs alone,  *)
(* and running names it.  Calls suspend, and may be cancelled, in the      *)
(* admission queue, in a wait for a token, in the provider's executor and  *)
(* in a backoff.                                                           *)
(*                                                                         *)
(* Time is left out but for what the limits make of it: a refilled token,  *)
(* a cooled circuit, a new UTC day.  A deadline may have passed wherever   *)
(* the code looks at it.  The anomaly detector only refuses calls before   *)
(* they touch any of this state, and is left out with the metrics.         *)
(***************************************************************************)
EXTENDS CircuitBreaker, Sequences, FiniteSets, SequencesExt

CONSTANTS
  Callers,       \* the calls of execute that may be under way at once
  Priorities,    \* the payload priorities in use; a lower one goes first
  Limit,         \* concurrent_requests
  Capacity,      \* queue_depth
  MaxRetries,    \* max_retries
  Burst,         \* burst_capacity: the most tokens the bucket holds
  DailyQuota,    \* daily_quota
  SessionQuota,  \* session_quota
  Cancels,       \* the stages in which a call may be cancelled
  MaxDays,       \* bound on the UTC days and session resets seen
  None

ASSUME LimitsAssumption ==
  /\ Limit \in Nat \ {0} /\ Capacity \in Nat \ {0} /\ Burst \in Nat \ {0}
  /\ MaxRetries \in Nat /\ DailyQuota \in Nat \ {0} /\ SessionQuota \in Nat \ {0}
  /\ MaxDays \in Nat /\ Priorities \subseteq Nat /\ None \notin Callers

VARIABLES
  active,   \* PrioritySemaphore._active
  waiters,  \* its heap, as the sequence of callers it would pop
  callers,  \* where each call is, its priority and its retries so far
  running,  \* the call that has the event loop, or None
  circuit,  \* the service's breaker
  tokens,   \* whole tokens in the bucket
  daily,    \* durable units consumed on this UTC day
  session,  \* durable units consumed by this named session on this day
  made,     \* history: calls of the executor on this UTC day
  days      \* day changes and session resets so far

vars == <<active, waiters, callers, running, circuit, tokens, daily, session, made, days>>
quota == <<daily, session, made, days>>

Suspended == {"token", "ready", "calling", "backoff"}
Holding == {"woken", "admitted", "attempt", "limit", "leaving"} \cup Suspended
Stages == {"idle", "queued", "cancelled"} \cup Holding

ASSUME CallersAssumption == IsFiniteSet(Callers)

ASSUME CancelsAssumption == Cancels \subseteq {"queued", "woken"} \cup Suspended

At(stage) == {c \in Callers : callers[c].at = stage}

Goes(c, stage) == callers' = [callers EXCEPT ![c].at = stage]

Idle == [at |-> "idle", priority |-> 0, retries |-> 0, probe |-> FALSE]

Init ==
  /\ active = 0
  /\ waiters = <<>>
  /\ callers = [c \in Callers |-> Idle]
  /\ running = None
  /\ circuit = Closed
  /\ tokens = Burst
  /\ daily = 0 /\ session = 0 /\ made = 0 /\ days = 0

-----------------------------------------------------------------------------
(* PrioritySemaphore. *)

\* Mutant: a new waiter goes before its equals.
JumpedQueue(c, p) ==
  LET before == {i \in DOMAIN waiters : callers[waiters[i]].priority < p}
  IN InsertAt(waiters, Cardinality(before) + 1, c)

\* The heap orders by priority, then by arrival.
Queued(c, p) ==
  LET before == {i \in DOMAIN waiters : callers[waiters[i]].priority <= p}
  IN InsertAt(waiters, Cardinality(before) + 1, c)

\* execute up to its first await: a free slot, a place in the queue, or neither.
Execute(c, p) ==
  /\ running = None
  /\ callers[c].at = "idle"
  /\ \/ /\ active < Limit /\ waiters = <<>>
        /\ active' = active + 1
        /\ callers' = [callers EXCEPT ![c] = [Idle EXCEPT !.at = "admitted", !.priority = p]]
        /\ running' = c
        /\ UNCHANGED waiters
     \/ /\ ~(active < Limit /\ waiters = <<>>)
        /\ Len(waiters) < Capacity
        /\ waiters' = Queued(c, p)
        /\ callers' = [callers EXCEPT ![c] = [Idle EXCEPT !.at = "queued", !.priority = p]]
        /\ UNCHANGED <<active, running>>
  /\ UNCHANGED <<circuit, tokens, quota>>

\* The slot was handed over by set_result; the waiter only goes on with it.
Resume(c) ==
  /\ running = None
  /\ callers[c].at = "woken"
  /\ Goes(c, "admitted")
  /\ running' = c
  /\ UNCHANGED <<active, waiters, circuit, tokens, quota>>

\* Mutant: the head is popped whether or not it still waits.
ReleasesToHead(c) ==
  \/ /\ waiters # <<>>
     /\ waiters' = Tail(waiters)
     /\ callers' = [callers EXCEPT ![c] = Idle,
                      ![waiters[1]].at = IF @ = "queued" THEN "woken" ELSE @]
     /\ UNCHANGED active
  \/ /\ waiters = <<>>
     /\ active' = active - 1
     /\ callers' = [callers EXCEPT ![c] = Idle]
     /\ UNCHANGED waiters

\* Mutant: the slot is given back and nobody is woken.
ReleasesSilently(c) ==
  /\ active' = active - 1
  /\ callers' = [callers EXCEPT ![c] = Idle]
  /\ UNCHANGED waiters

\* release: the slot passes to the first live waiter, the cancelled ones before
\* it being popped on the way, or is given back.
Releases(c) ==
  \/ \E n \in DOMAIN waiters :
       /\ callers[waiters[n]].at # "cancelled"
       /\ \A i \in 1..(n - 1) : callers[waiters[i]].at = "cancelled"
       /\ waiters' = SubSeq(waiters, n + 1, Len(waiters))
       /\ callers' = [callers EXCEPT ![c] = Idle, ![waiters[n]].at = "woken"]
       /\ UNCHANGED active
  \/ /\ \A i \in DOMAIN waiters : callers[waiters[i]].at = "cancelled"
     /\ waiters' = <<>>
     /\ active' = active - 1
     /\ callers' = [callers EXCEPT ![c] = Idle]

\* The finally clause of execute.
Leave(c) ==
  /\ callers[c].at = "leaving"
  /\ running = c
  /\ Releases(c)
  /\ running' = None
  /\ UNCHANGED <<circuit, tokens, quota>>

-----------------------------------------------------------------------------
(* ProtectedExecutor.run. *)

\* A rejected call does not say so to the circuit; nor does one that stops at
\* the quota, at the deadline of a token wait, or at a permanent error.
Allow(c) ==
  /\ callers[c].at = "admitted"
  /\ running = c
  /\ circuit' = Asked(circuit)
  /\ IF Allows(circuit)
     THEN callers' = [callers EXCEPT ![c].at = "attempt",
                        ![c].probe = (Current(circuit).state = "half-open")]
     ELSE Goes(c, "leaving")
  /\ UNCHANGED <<active, waiters, running, tokens, quota>>

\* DurableQuotaManager.consume, saved before it returns: a call that finds the
\* quota exhausted, or whose save raises, leaves with the counters as they were.
Consume(c) ==
  /\ callers[c].at = "attempt"
  /\ running = c
  /\ \/ /\ daily < DailyQuota /\ session < SessionQuota
        /\ Goes(c, "limit") /\ daily' = daily + 1 /\ session' = session + 1
     \/ Goes(c, "leaving") /\ UNCHANGED <<daily, session>>
  /\ UNCHANGED <<active, waiters, running, circuit, tokens, made, days>>

Calls(c) ==
  /\ tokens > 0
  /\ tokens' = tokens - 1
  /\ made' = made + 1
  /\ Goes(c, "calling")
  /\ running' = None

\* consume_delay: a token now, a wait for one, or no time left to wait.
TakeToken(c) ==
  /\ callers[c].at = "limit"
  /\ running = c
  /\ \/ Calls(c)
     \/ /\ tokens = 0
        /\ \/ Goes(c, "token") /\ running' = None
           \/ Goes(c, "leaving") /\ UNCHANGED running
        /\ UNCHANGED <<tokens, made>>
  /\ UNCHANGED <<active, waiters, circuit, daily, session, days>>

\* consume_after_wait, which raises when another call took the token.
AfterWait(c) ==
  /\ callers[c].at = "ready"
  /\ running = None
  /\ \/ Calls(c)
     \/ tokens = 0 /\ Goes(c, "leaving") /\ running' = c /\ UNCHANGED <<tokens, made>>
  /\ UNCHANGED <<active, waiters, circuit, daily, session, days>>

\* The executor's result, or the timeout _call_once makes of a late one.
Answer(c) ==
  /\ callers[c].at = "calling"
  /\ running = None
  /\ \/ Goes(c, "leaving") /\ circuit' = Succeeded /\ running' = c
     \/ Goes(c, "leaving") /\ running' = c /\ UNCHANGED circuit
     \/ Goes(c, "leaving") /\ circuit' = Failed(circuit) /\ running' = c
     \/ /\ callers[c].retries < MaxRetries
        /\ callers' = [callers EXCEPT ![c].at = "backoff", ![c].retries = @ + 1]
        /\ UNCHANGED <<circuit, running>>
  /\ UNCHANGED <<active, waiters, tokens, quota>>

\* Mutant: a retry is not charged to the quota.
RetryFree(c) ==
  /\ callers[c].at = "backoff"
  /\ running = None
  /\ Goes(c, "limit")
  /\ running' = c
  /\ UNCHANGED <<active, waiters, circuit, tokens, quota>>

Retry(c) ==
  /\ callers[c].at = "backoff"
  /\ running = None
  /\ Goes(c, "attempt")
  /\ running' = c
  /\ UNCHANGED <<active, waiters, circuit, tokens, quota>>

-----------------------------------------------------------------------------
(* Cancellation, time, the operator and the process. *)

\* A queued call is cancelled with its future and has yet to leave the heap; a
\* woken one never enters the try block that would release its slot.
Cancel(c) ==
  /\ running = None
  /\ callers[c].at \in Cancels
  /\ \/ callers[c].at = "queued" /\ Goes(c, "cancelled") /\ UNCHANGED running
     \/ callers[c].at = "woken" /\ callers' = [callers EXCEPT ![c] = Idle] /\ UNCHANGED running
     \/ callers[c].at \in Suspended /\ Goes(c, "leaving") /\ running' = c
  /\ UNCHANGED <<active, waiters, circuit, tokens, quota>>

\* Its future leaves the heap, unless release has popped it.
Withdraw(c) ==
  /\ running = None
  /\ callers[c].at = "cancelled"
  /\ \/ \E i \in DOMAIN waiters : waiters[i] = c /\ waiters' = RemoveAt(waiters, i)
     \/ c \notin Range(waiters) /\ UNCHANGED waiters
  /\ callers' = [callers EXCEPT ![c] = Idle]
  /\ UNCHANGED <<active, running, circuit, tokens, quota>>

\* Every wait for a token ends when the next one is due.
Refill ==
  /\ tokens < Burst
  /\ tokens' = tokens + 1
  /\ callers' = [c \in Callers |->
       IF callers[c].at = "token" THEN [callers[c] EXCEPT !.at = "ready"] ELSE callers[c]]
  /\ UNCHANGED <<active, waiters, running, circuit, quota>>

Cool ==
  /\ running = None
  /\ circuit.state = "open" /\ ~circuit.cooled
  /\ circuit' = [circuit EXCEPT !.cooled = TRUE]
  /\ UNCHANGED <<active, waiters, callers, running, tokens, quota>>

\* The first consume of a day drops the counters of the last one.
NewDay ==
  /\ running = None
  /\ days < MaxDays
  /\ days' = days + 1
  /\ daily' = 0 /\ session' = 0 /\ made' = 0
  /\ UNCHANGED <<active, waiters, callers, running, circuit, tokens>>

\* The operator: reset_session and manual_reset, both confirmed.
ResetSession ==
  /\ running = None
  /\ days < MaxDays
  /\ days' = days + 1
  /\ session' = 0
  /\ UNCHANGED <<active, waiters, callers, running, circuit, tokens, daily, made>>

ResetCircuit ==
  /\ running = None
  /\ circuit' = Succeeded
  /\ UNCHANGED <<active, waiters, callers, running, tokens, quota>>

\* The process dies between any two steps; the quota record is all that stays.
Restart ==
  /\ active' = 0 /\ waiters' = <<>> /\ running' = None
  /\ callers' = [c \in Callers |-> Idle]
  /\ circuit' = Closed /\ tokens' = Burst
  /\ UNCHANGED quota

Step(c) ==
  \/ Resume(c) \/ Allow(c) \/ Consume(c) \/ TakeToken(c) \/ AfterWait(c)
  \/ Answer(c) \/ Retry(c) \/ Leave(c) \/ Withdraw(c)

Next ==
  \/ \E c \in Callers : \E p \in Priorities : Execute(c, p)
  \/ \E c \in Callers : Step(c) \/ Cancel(c)
  \/ Refill \/ Cool \/ NewDay \/ ResetSession \/ ResetCircuit \/ Restart

Spec == Init /\ [][Next]_vars

\* The event loop runs ready calls in turn and deadlines end every await, so a
\* call that can go on again and again goes on; tokens are refilled by time.
Fairness == WF_vars(Refill) /\ \A c \in Callers : SF_vars(Step(c))

FairSpec == Spec /\ Fairness

-----------------------------------------------------------------------------
(* Correctness. *)

\* The semaphore's count is the number of calls that hold a slot, a handed-over
\* slot included: none leaks and none is used twice, whatever is cancelled.
SlotsAreHeld == active = Cardinality({c \in Callers : callers[c].at \in Holding})

\* No lost wakeup: a call waits only while every slot is in use.
NoIdleSlot == At("queued") # {} => active = Limit

\* The semaphore neither leaks a slot nor leaves one idle, whatever is cancelled,
\* woken or given back (priority.py:38-79, core.py's finally).
SlotsAreKept == SlotsAreHeld /\ NoIdleSlot

\* Units are taken before calls are made, so the provider sees no more calls in
\* a UTC day than its quota and the calls the last midnight found under way.
MadeWithinQuota == made <= DailyQuota + Limit

\* A call of the highest priority is not kept in the queue for ever, however
\* many calls arrive, are cancelled or retry.
UrgentIsServed ==
  \A c \in Callers :
    (callers[c].at = "queued" /\ callers[c].priority = 0) ~> (callers[c].at # "queued")
=============================================================================
