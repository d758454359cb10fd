---------------------------- MODULE PeerProtocol ----------------------------
(***************************************************************************)
(* The inbound pipeline of one peer for one game UID:                      *)
(* ProtocolRuntime.handle with its RequestProcessor, SessionRegistry and   *)
(* IdempotencyRepository (services/protocol), over an atomic record store  *)
(* (adapters/persistence/atomic_files.py).                                 *)
(*                                                                         *)
(* handle runs without an await, so no two requests interleave.  Its four  *)
(* saves are separate, though: between any two of them the process may     *)
(* crash, and each of them may raise.  One action is the code between two  *)
(* saves, ending with the second.  The network hands over any request, any *)
(* number of times, in any order.                                          *)
(*                                                                         *)
(* A request's digest is the request: SHA-256 is taken to be injective.    *)
(* Envelopes that parse_envelope rejects change nothing and are left out.  *)
(* peer_status is no mutating tool: it is answered from the loaded session *)
(* and, like a refused request, leaves the state alone.                    *)
(***************************************************************************)
EXTENDS ProtocolPhases

CONSTANTS
  Requests,        \* the envelopes that may arrive
  LocalGroup,      \* this peer's group_id
  ValidProposals,  \* the proposals NegotiationService.validate_proposal accepts
  FailingSaves,    \* the saves that may raise, named by the handler's stage
  MaxFaults,       \* bound on crashes and failed saves
  None             \* stands for a missing record, session or response

Stages == {"create", "intent", "session", "receipt"}

Mids == {r.mid : r \in Requests}

Responses == [request : Requests, phase : Phases, event : Nat]

Sessions ==
  [proposal : ValidProposals, remote : {r.from : r \in Requests},
   phase : Phases, next : Nat, effects : Seq(Responses)]

Receipts == [request : Requests, response : Responses \cup {None}]

ASSUME RequestsAssumption ==
  \A r \in Requests :
    DOMAIN r = {"mid", "from", "scheduled", "seq", "tool", "payload"}

ASSUME NoneAssumption ==
  /\ None \notin Requests
  /\ None \notin Responses
  /\ None \notin Sessions
  /\ None \notin Receipts

ASSUME FaultAssumption ==
  FailingSaves \subseteq Stages /\ MaxFaults \in Nat

VARIABLES
  saved,    \* the durable session snapshot
  receipts, \* the durable idempotency record of each message; a record with
            \* no response is PENDING, one with a response COMPLETED
  cached,   \* the registry's session object, lost in a crash
  handler,  \* the request being handled, and the save it has reached
  acked,    \* history: the pairs [to, response] of OK answers given
  faults    \* crashes and failed saves so far

durable == <<saved, receipts>>
vars == <<saved, receipts, cached, handler, acked, faults>>

Idle == [at |-> "idle", request |-> None, response |-> None]

At(stage, r, response) == [at |-> stage, request |-> r, response |-> response]

Init ==
  /\ saved = None
  /\ receipts = [m \in Mids |-> None]
  /\ cached = None
  /\ handler = Idle
  /\ acked = {}
  /\ faults = 0

-----------------------------------------------------------------------------
(* The session a request sees, and what apply makes of it. *)

\* SessionRegistry.get_optional
Loaded == IF cached # None THEN cached ELSE saved

\* SessionRegistry.create
NewSession(r) ==
  [proposal |-> r.payload, remote |-> r.from, phase |-> "NEGOTIATING",
   next |-> 1, effects |-> <<>>]

\* The in-memory mutations of apply and handle; only the negotiated sender gets
\* here, so next is the one entry of next_sequences that is ever used.
Mutated(s, r) ==
  [s EXCEPT !.phase = NextPhase(r), !.next = r.seq + 1,
            !.effects = Append(s.effects, ResponseTo(r, s.effects))]

-----------------------------------------------------------------------------
(* The guards of handle, in the order of the pipeline. *)

\* resolve_session on a known game: a proposal must repeat the stored one.
SameTerms(s, r) == r.tool = "propose_match" => r.payload = s.proposal

\* validate_identity
Identified(s, r) == r.from = s.remote /\ r.scheduled

\* IdempotencyRepository.inspect: the message ID names other bytes.
ReusedId(r) == receipts[r.mid] # None /\ receipts[r.mid].request # r

Admissible(s, r) == SameTerms(s, r) /\ Identified(s, r) /\ ~ReusedId(r)

Completed(r) == receipts[r.mid] # None /\ receipts[r.mid].response # None

\* Mutant: handle never looks for a recovered effect.
NoEffects(s, r) == {}

\* session.effects.get(message_id)
EffectsOf(s, r) == {i \in DOMAIN s.effects : s.effects[i].request.mid = r.mid}

\* Mutant: a gap is let through.
InSequenceOrLater(s, r) == r.seq >= s.next

\* validate_sequence: nothing is buffered, whatever the reorder window.
InSequence(s, r) == r.seq = s.next

Executable(s, r) ==
  /\ Admissible(s, r)
  /\ ~Completed(r)
  /\ EffectsOf(s, r) = {}
  /\ PhaseAllows(s.phase, r.tool)
  /\ InSequence(s, r)

\* validate_acceptance fails after the intent is durable.
WrongTerms(s, r) == r.tool = "accept_match" /\ r.payload # s.proposal

Acknowledge(r, response) ==
  /\ acked' = acked \cup {[to |-> r, response |-> response]}
  /\ handler' = Idle

-----------------------------------------------------------------------------
(* From the loaded session s to the request's next save or its answer. *)

Apply(s, r) ==
  \/ /\ WrongTerms(s, r)
     /\ cached' = s
     /\ handler' = Idle
  \/ /\ ~WrongTerms(s, r)
     /\ cached' = Mutated(s, r)
     /\ handler' = At("session", r, ResponseTo(r, s.effects))

Refuse(s, r) ==
  /\ \/ ~Admissible(s, r)
     \/ ~Completed(r) /\ EffectsOf(s, r) = {} /\ ~Executable(s, r)
  /\ cached' = s
  /\ handler' = Idle
  /\ UNCHANGED <<receipts, acked>>

Replay(s, r) ==
  /\ Admissible(s, r)
  /\ Completed(r)
  /\ cached' = s
  /\ Acknowledge(r, receipts[r.mid].response)
  /\ UNCHANGED receipts

Repair(s, r) ==
  /\ Admissible(s, r)
  /\ ~Completed(r)
  /\ \E i \in EffectsOf(s, r) : handler' = At("receipt", r, s.effects[i])
  /\ cached' = s
  /\ UNCHANGED <<receipts, acked>>

Execute(s, r) ==
  /\ Executable(s, r)
  /\ \/ /\ receipts[r.mid] = None
        /\ cached' = s
        /\ handler' = At("intent", r, None)
     \/ receipts[r.mid] # None /\ Apply(s, r)
  /\ UNCHANGED <<receipts, acked>>

Handle(s, r) == Refuse(s, r) \/ Replay(s, r) \/ Repair(s, r) \/ Execute(s, r)

-----------------------------------------------------------------------------
(* The steps. *)

\* A request for a game UID the registry knows.
Deliver(r) ==
  /\ handler = Idle
  /\ Loaded # None
  /\ Handle(Loaded, r)
  /\ UNCHANGED <<saved, faults>>

\* A valid proposal by another group opens the session; every other request
\* for an unknown game is refused and changes nothing.
Propose(r) ==
  /\ handler = Idle
  /\ Loaded = None
  /\ r.tool = "propose_match" /\ r.payload \in ValidProposals
  /\ r.from # LocalGroup
  /\ handler' = At("create", r, None)
  /\ UNCHANGED <<saved, receipts, cached, acked, faults>>

SaveCreated ==
  /\ handler.at = "create"
  /\ LET r == handler.request IN
       /\ saved' = NewSession(r)
       /\ Handle(NewSession(r), r)
  /\ UNCHANGED faults

SaveIntent ==
  /\ handler.at = "intent"
  /\ LET r == handler.request IN
       /\ receipts' = [receipts EXCEPT ![r.mid] = [request |-> r, response |-> None]]
       /\ Apply(cached, r)
  /\ UNCHANGED <<saved, acked, faults>>

\* Mutant: the session is published to the cache only.
SaveSessionLater ==
  /\ handler.at = "session"
  /\ handler' = [handler EXCEPT !.at = "receipt"]
  /\ UNCHANGED <<saved, receipts, cached, acked, faults>>

SaveSession ==
  /\ handler.at = "session"
  /\ saved' = cached
  /\ handler' = [handler EXCEPT !.at = "receipt"]
  /\ UNCHANGED <<receipts, cached, acked, faults>>

SaveReceipt ==
  /\ handler.at = "receipt"
  /\ LET r == handler.request IN
       /\ receipts' = [receipts EXCEPT ![r.mid] =
                         [request |-> r, response |-> handler.response]]
       /\ Acknowledge(r, handler.response)
  /\ UNCHANGED <<saved, cached, faults>>

\* A save raises before it replaces the file: handle answers INTERNAL_FAILURE
\* and keeps whatever it did to the session object.
SaveFails ==
  /\ handler.at \in FailingSaves
  /\ faults < MaxFaults
  /\ handler' = Idle
  /\ faults' = faults + 1
  /\ UNCHANGED <<saved, receipts, cached, acked>>

Crash ==
  /\ faults < MaxFaults
  /\ cached' = None
  /\ handler' = Idle
  /\ faults' = faults + 1
  /\ UNCHANGED <<saved, receipts, acked>>

\* SessionRegistry._cache drops the oldest session for another game's.
Evict ==
  /\ handler = Idle
  /\ cached # None
  /\ cached' = None
  /\ UNCHANGED <<saved, receipts, handler, acked, faults>>

Pipeline == SaveCreated \/ SaveIntent \/ SaveSession \/ SaveReceipt

Next ==
  \/ \E r \in Requests : Deliver(r) \/ Propose(r)
  \/ Pipeline
  \/ SaveFails
  \/ Crash
  \/ Evict

Spec == Init /\ [][Next]_vars

-----------------------------------------------------------------------------
(* Correctness. *)

\* Every variable stays in its type; the handler carries a request exactly when
\* it is between two saves of ProtocolRuntime.handle.
TypeOK ==
  /\ saved \in Sessions \cup {None}
  /\ receipts \in [Mids -> Receipts \cup {None}]
  /\ cached \in Sessions \cup {None}
  /\ \/ handler = Idle
     \/ handler \in [at : {"create", "intent"}, request : Requests, response : {None}]
     \/ handler \in [at : {"session", "receipt"}, request : Requests,
                     response : Responses]
  /\ acked \subseteq [to : Requests, response : Responses]
  /\ faults \in Nat

EffectLog == IF saved = None THEN <<>> ELSE saved.effects

\* An OK answer is given only for an effect that a restart will still find in
\* the session snapshot (docs/PROTOCOL.md section 6, steps 2 and 3): whatever
\* crashed or failed before, on whichever delivery the answer was given.
AckedIsDurable ==
  \A a \in acked : \E i \in DOMAIN EffectLog :
    EffectLog[i] = a.response /\ EffectLog[i].request = a.to

\* Write-ahead order: an effect in the durable session has the durable intent
\* of the very request that caused it, and a COMPLETED record repeats the
\* response the session holds. Without it inspect could not tell a retry from
\* a reused message ID after a restart.
ReceiptsMatchEffects ==
  /\ \A i \in DOMAIN EffectLog :
       LET r == EffectLog[i].request IN
         receipts[r.mid] # None /\ receipts[r.mid].request = r
  /\ \A m \in Mids :
       receipts[m] # None /\ receipts[m].response # None =>
         \E i \in DOMAIN EffectLog : EffectLog[i] = receipts[m].response

\* Between two requests the registry's cached session is the durable one, so
\* the phase and sequence checks of the next request do not use a stale or an
\* unsaved session.
CacheIsDurable == handler = Idle /\ cached # None => cached = saved

\* The peer implements the durable exactly-once log: each SaveSession appends
\* one legal request, in sequence and never twice, and answers come from the log.
DurableLog == INSTANCE CommandLog WITH log <- EffectLog, answered <- acked
ImplementsLog == DurableLog!LogSpec
=============================================================================
