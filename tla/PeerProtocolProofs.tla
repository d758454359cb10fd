------------------------- MODULE PeerProtocolProofs -------------------------
(***************************************************************************)
(* What PeerProtocol guarantees for every set of requests, every number of *)
(* faults and every pattern of crashes and failed saves: its types, and,   *)
(* when the session save itself does not raise, that answers, receipts and *)
(* the cached session agree with the durable session.                      *)
(***************************************************************************)
EXTENDS PeerProtocol, TLAPS

-----------------------------------------------------------------------------
(* The operators the steps are built from. *)

\* Every tool leads to a phase (next_phase of phases.py).
LEMMA NextPhaseType == \A r : NextPhase(r) \in Phases
  BY DEF NextPhase, EndsGame, Phases, TerminalPhases

\* The response of apply is a response.
LEMMA ResponseType ==
  ASSUME NEW r \in Requests, NEW effects \in Seq(Responses)
  PROVE  ResponseTo(r, effects) \in Responses
<1>1. EventNumber(r, effects) \in Nat
  BY DEF EventNumber
<1>2. QED
  BY <1>1, NextPhaseType DEF ResponseTo, Responses

\* What apply does to the session object gives a session whose log is one
\* response longer.
LEMMA MutatedType ==
  ASSUME NEW s \in Sessions, NEW r \in Requests, InSequence(s, r)
  PROVE  /\ Mutated(s, r) \in Sessions
         /\ Mutated(s, r).effects = Append(s.effects, ResponseTo(r, s.effects))
         /\ Mutated(s, r).next = s.next + 1
         /\ Mutated(s, r).phase = NextPhase(r)
         /\ Mutated(s, r).proposal = s.proposal
         /\ Mutated(s, r).remote = s.remote
<1>1. s.effects \in Seq(Responses) /\ s.next \in Nat /\ r.seq = s.next
  BY DEF Sessions, InSequence
<1>2. Append(s.effects, ResponseTo(r, s.effects)) \in Seq(Responses)
  BY <1>1, ResponseType
<1> DEFINE phase   == NextPhase(r)
           next    == r.seq + 1
           effects == Append(s.effects, ResponseTo(r, s.effects))
           t       == [s EXCEPT !.phase = phase, !.next = next, !.effects = effects]
<1>3. Mutated(s, r) = t
  BY DEF Mutated
<1>4. phase \in Phases /\ next \in Nat /\ next = s.next + 1 /\ effects \in Seq(Responses)
  BY <1>1, <1>2, NextPhaseType
<1> HIDE DEF phase, next, effects
<1>5. /\ t \in Sessions /\ t.effects = effects /\ t.next = next
      /\ t.phase = phase /\ t.proposal = s.proposal /\ t.remote = s.remote
  BY <1>4 DEF Sessions
<1> HIDE DEF t
<1>6. QED
  BY <1>3, <1>4, <1>5 DEF phase, effects

\* A created session is a session (SessionRegistry.create).
LEMMA NewSessionType ==
  ASSUME NEW r \in Requests, r.payload \in ValidProposals
  PROVE  NewSession(r) \in Sessions
  BY DEF NewSession, Sessions, Phases

-----------------------------------------------------------------------------
(* Types. TypeOK is not inductive: the session opened or mutated by a handler *)
(* that is between two saves must already have been checked.                  *)

StagesChecked ==
  /\ handler.at = "create" => handler.request.payload \in ValidProposals
  /\ handler.at = "intent" => cached # None /\ InSequence(cached, handler.request)
  /\ handler.at = "session" => cached # None

TypeInv == TypeOK /\ StagesChecked

\* From a loaded session, apply leaves the types alone.
LEMMA ApplyTypes ==
  ASSUME NEW s \in Sessions, NEW r \in Requests, InSequence(s, r), Apply(s, r)
  PROVE  /\ cached' \in Sessions
         /\ \/ handler' = Idle
            \/ handler' \in [at : {"session"}, request : Requests, response : Responses]
<1>1. ResponseTo(r, s.effects) \in Responses
  BY ResponseType DEF Sessions
<1>2. QED
  BY <1>1, MutatedType DEF Apply, At

\* So does the whole of handle, up to its next save or its answer.
LEMMA HandleTypes ==
  ASSUME TypeOK, NEW s \in Sessions, NEW r \in Requests, Handle(s, r)
  PROVE  /\ cached' \in Sessions
         /\ receipts' = receipts
         /\ acked' \subseteq [to : Requests, response : Responses]
         /\ \/ handler' = Idle
            \/ handler' = At("intent", r, None) /\ cached' = s /\ InSequence(s, r)
            \/ handler' \in [at : {"session", "receipt"}, request : Requests,
                             response : Responses]
<1>1. CASE Refuse(s, r)
  BY <1>1 DEF Refuse, TypeOK
<1>2. CASE Replay(s, r)
  <2>1. receipts[r.mid] \in Receipts
    BY <1>2, NoneAssumption DEF Replay, Completed, TypeOK, Mids
  <2>2. receipts[r.mid].response \in Responses
    BY <1>2, <2>1 DEF Replay, Completed, Receipts
  <2>3. QED
    BY <1>2, <2>2 DEF Replay, Acknowledge, TypeOK
<1>3. CASE Repair(s, r)
  <2>1. \A i \in EffectsOf(s, r) : s.effects[i] \in Responses
    BY DEF EffectsOf, Sessions
  <2>2. QED
    BY <1>3, <2>1 DEF Repair, At, TypeOK
<1>4. CASE Execute(s, r)
  <2>1. InSequence(s, r)
    BY <1>4 DEF Execute, Executable
  <2>2. QED
    BY <1>4, <2>1, ApplyTypes DEF Execute, TypeOK
<1>5. QED
  BY <1>1, <1>2, <1>3, <1>4 DEF Handle

LEMMA InitTypes == Init => TypeInv
  BY FaultAssumption
  DEF Init, TypeInv, TypeOK, StagesChecked, Idle, Mids

LEMMA NextTypes == TypeInv /\ [Next]_vars => TypeInv'
<1> SUFFICES ASSUME TypeInv, [Next]_vars PROVE TypeInv'
  OBVIOUS
<1> USE NoneAssumption
<1>t. TypeOK /\ StagesChecked
  BY DEF TypeInv
<1>i. Idle.at = "idle"
  BY DEF Idle
<1>1. CASE \E r \in Requests : Deliver(r)
  <2>1. PICK r \in Requests : Deliver(r)
    BY <1>1
  <2>2. Loaded \in Sessions
    BY <2>1, <1>t DEF Deliver, Loaded, TypeOK
  <2>3. Handle(Loaded, r) /\ UNCHANGED <<saved, faults>>
    BY <2>1 DEF Deliver
  <2>4. QED
    BY <1>t, <1>i, <2>2, <2>3, HandleTypes DEF TypeInv, TypeOK, StagesChecked, At
<1>2. CASE \E r \in Requests : Propose(r)
  <2>1. PICK r \in Requests : Propose(r)
    BY <1>2
  <2>2. QED
    BY <1>t, <2>1 DEF Propose, At, TypeInv, TypeOK, StagesChecked
<1>3. CASE SaveCreated
  <2>1. handler.request \in Requests /\ handler.request.payload \in ValidProposals
    BY <1>3, <1>t, <1>i DEF SaveCreated, TypeOK, StagesChecked
  <2>2. NewSession(handler.request) \in Sessions
    BY <2>1, NewSessionType
  <2>3. /\ saved' = NewSession(handler.request)
        /\ Handle(NewSession(handler.request), handler.request)
        /\ faults' = faults
    BY <1>3 DEF SaveCreated
  <2>4. QED
    BY <1>t, <1>i, <2>1, <2>2, <2>3, HandleTypes
    DEF TypeInv, TypeOK, StagesChecked, At
<1>4. CASE SaveIntent
  <2>1. handler.request \in Requests
    BY <1>4, <1>t, <1>i DEF SaveIntent, TypeOK
  <2>2. cached \in Sessions /\ InSequence(cached, handler.request)
    BY <1>4, <1>t DEF SaveIntent, TypeOK, StagesChecked
  <2>3. receipts' \in [Mids -> Receipts \cup {None}]
    BY <1>4, <1>t, <2>1 DEF SaveIntent, TypeOK, Receipts, Mids
  <2>4. Apply(cached, handler.request) /\ UNCHANGED <<saved, acked, faults>>
    BY <1>4 DEF SaveIntent
  <2>5. QED
    BY <1>t, <1>i, <2>1, <2>2, <2>3, <2>4, ApplyTypes DEF TypeInv, TypeOK, StagesChecked
<1>5. CASE SaveSession
  <2>1. handler \in [at : {"session", "receipt"}, request : Requests, response : Responses]
    BY <1>5, <1>t, <1>i DEF SaveSession, TypeOK
  <2>2. handler' \in [at : {"receipt"}, request : Requests, response : Responses]
    BY <1>5, <2>1 DEF SaveSession
  <2>3. QED
    BY <1>5, <1>t, <2>2 DEF SaveSession, TypeInv, TypeOK, StagesChecked
<1>6. CASE SaveReceipt
  <2>1. handler.request \in Requests /\ handler.response \in Responses
    BY <1>6, <1>t, <1>i DEF SaveReceipt, TypeOK
  <2>2. receipts' \in [Mids -> Receipts \cup {None}]
    BY <1>6, <1>t, <2>1 DEF SaveReceipt, TypeOK, Receipts, Mids
  <2>3. QED
    BY <1>6, <1>t, <1>i, <2>1, <2>2
    DEF SaveReceipt, Acknowledge, TypeInv, TypeOK, StagesChecked
<1>7. CASE SaveFails
  BY <1>7, <1>t, <1>i DEF SaveFails, TypeInv, TypeOK, StagesChecked
<1>8. CASE Crash
  BY <1>8, <1>t, <1>i DEF Crash, TypeInv, TypeOK, StagesChecked
<1>9. CASE Evict
  BY <1>9, <1>t, <1>i DEF Evict, TypeInv, TypeOK, StagesChecked
<1>10. CASE UNCHANGED vars
  BY <1>10, <1>t DEF vars, TypeInv, TypeOK, StagesChecked, InSequence
<1>11. QED
  BY <1>1, <1>2, <1>3, <1>4, <1>5, <1>6, <1>7, <1>8, <1>9, <1>10 DEF Next, Pipeline

\* Every state of the pipeline has its types, whichever saves fail: a session is
\* only ever opened with a valid proposal and only ever grown in sequence.
THEOREM TypeCorrect == Spec => []TypeOK
<1>1. Spec => []TypeInv
  BY InitTypes, NextTypes, PTL DEF Spec
<1>2. TypeInv => TypeOK
  BY DEF TypeInv
<1>3. QED
  BY <1>1, <1>2, PTL

-----------------------------------------------------------------------------
(* Durability. Assumed: the session save does not raise, since one that does *)
(* leaves an effect in the cache that no snapshot has.                       *)

SessionSaveHolds == "session" \notin FailingSaves

Logged(response) == \E i \in DOMAIN EffectLog : EffectLog[i] = response

\* The session's sequence and phase are those of the last effect in its log.
LastPhase(effects) == IF effects = <<>> THEN "NEGOTIATING" ELSE effects[Len(effects)].phase
Sound(s) == s.next = Len(s.effects) + 1 /\ s.phase = LastPhase(s.effects)

\* An executable request that has its durable intent and not yet its effect.
Intended(s, r) ==
  /\ InSequence(s, r) /\ EffectsOf(s, r) = {} /\ PhaseAllows(s.phase, r.tool)
  /\ receipts[r.mid] # None
  /\ receipts[r.mid].request = r /\ receipts[r.mid].response = None

\* What a handler between two saves has already established.
StageInv ==
  /\ handler.at \in {"idle", "create", "intent", "receipt"} => cached \in {None, saved}
  /\ handler.at = "create" => saved = None
  /\ handler.at = "intent" =>
       cached = saved /\ saved # None /\ Executable(saved, handler.request)
  /\ handler.at = "session" =>
       /\ saved # None
       /\ Intended(saved, handler.request)
       /\ cached = Mutated(saved, handler.request)
       /\ handler.response = ResponseTo(handler.request, saved.effects)
  /\ handler.at = "receipt" =>
       Logged(handler.response) /\ handler.response.request = handler.request

\* ReceiptsMatchEffects, and that a record keeps a response to its own request.
ReceiptInv ==
  /\ \A i \in DOMAIN EffectLog :
       LET r == EffectLog[i].request IN
         receipts[r.mid] # None /\ receipts[r.mid].request = r
  /\ \A m \in Mids :
       receipts[m] # None /\ receipts[m].response # None =>
         Logged(receipts[m].response) /\ receipts[m].response.request = receipts[m].request

SessionInv == saved # None => Sound(saved)

DurableInv == StageInv /\ ReceiptInv /\ SessionInv /\ AckedIsDurable


\* apply, on the durable session and with a durable intent, leaves the handler
\* idle or about to save exactly one more effect.
LEMMA ApplyStage ==
  ASSUME NEW s \in Sessions, NEW r \in Requests, saved' = s, Apply(s, r),
         InSequence(s, r), EffectsOf(s, r) = {}, PhaseAllows(s.phase, r.tool),
         receipts'[r.mid] # None, receipts'[r.mid].request = r,
         receipts'[r.mid].response = None
  PROVE  StageInv'
<1> USE NoneAssumption
<1>1. CASE WrongTerms(s, r)
  BY <1>1 DEF Apply, StageInv, Idle
<1>2. CASE ~WrongTerms(s, r)
  <2>1. cached' = Mutated(s, r) /\ handler' = At("session", r, ResponseTo(r, s.effects))
    BY <1>2 DEF Apply
  <2>2. /\ handler'.at = "session" /\ handler'.request = r
        /\ handler'.response = ResponseTo(r, s.effects)
    BY <2>1 DEF At
  <2>3. Intended(s, r)'
    BY DEF Intended, InSequence, EffectsOf
  <2>4. saved' # None
    OBVIOUS
  <2>5. QED
    BY <2>1, <2>2, <2>3, <2>4 DEF StageInv, Intended, InSequence, EffectsOf, Mutated
<1>3. QED
  BY <1>1, <1>2

\* Reading the log of a saved session.
LEMMA LogOfSaved == saved # None => EffectLog = saved.effects
  BY DEF EffectLog

\* The log holds responses to known requests.
LEMMA LogType ==
  ASSUME TypeOK
  PROVE  /\ EffectLog \in Seq(Responses)
         /\ \A i \in DOMAIN EffectLog : EffectLog[i].request.mid \in Mids
<1>1. EffectLog \in Seq(Responses)
  BY DEF EffectLog, TypeOK, Sessions
<1>2. \A i \in DOMAIN EffectLog : EffectLog[i] \in Responses
  BY <1>1
<1>3. \A e \in Responses : e.request \in Requests
  BY DEF Responses
<1>4. \A r \in Requests : r.mid \in Mids
  BY DEF Mids
<1>5. QED
  BY <1>1, <1>2, <1>3, <1>4

\* handle, on a loaded session that is (or has just become) the durable one.
LEMMA HandleDurable ==
  ASSUME TypeOK, ReceiptInv, AckedIsDurable,
         NEW s \in Sessions, NEW r \in Requests, Sound(s),
         s.effects = EffectLog, saved' = s, Handle(s, r)
  PROVE  StageInv' /\ ReceiptInv' /\ AckedIsDurable'
<1> USE NoneAssumption
<1>1. EffectLog' = EffectLog /\ receipts' = receipts
  BY HandleTypes DEF EffectLog
<1>2. ReceiptInv'
  BY <1>1 DEF ReceiptInv, Logged
<1>3. r.mid \in Mids
  BY DEF Mids
<1>4. CASE Refuse(s, r)
  <2>1. handler' = Idle /\ cached' = s /\ acked' = acked
    BY <1>4 DEF Refuse
  <2>2. QED
    BY <1>1, <1>2, <2>1 DEF StageInv, Idle, AckedIsDurable
<1>5. CASE Replay(s, r)
  <2>1. /\ handler' = Idle /\ cached' = s /\ receipts[r.mid].request = r
        /\ receipts[r.mid] # None /\ receipts[r.mid].response # None
        /\ acked' = acked \cup {[to |-> r, response |-> receipts[r.mid].response]}
    BY <1>5 DEF Replay, Acknowledge, Completed, Admissible, ReusedId
  <2>2. Logged(receipts[r.mid].response) /\ receipts[r.mid].response.request = r
    BY <1>3, <2>1 DEF ReceiptInv
  <2>3. StageInv'
    BY <2>1 DEF StageInv, Idle
  <2>4. AckedIsDurable'
    BY <1>1, <2>1, <2>2 DEF AckedIsDurable, Logged
  <2>5. QED
    BY <1>2, <2>3, <2>4
<1>6. CASE Repair(s, r)
  <2>1. PICK i \in EffectsOf(s, r) : handler' = At("receipt", r, s.effects[i])
    BY <1>6 DEF Repair
  <2>2. i \in DOMAIN EffectLog /\ EffectLog[i] = s.effects[i] /\ EffectLog[i].request.mid = r.mid
    BY <2>1 DEF EffectsOf
  <2>3. receipts[r.mid] # None /\ receipts[r.mid].request = EffectLog[i].request
    BY <2>2 DEF ReceiptInv
  <2>4. EffectLog[i].request = r
    BY <1>6, <2>3 DEF Repair, Admissible, ReusedId
  <2>5. cached' = s /\ acked' = acked
    BY <1>6 DEF Repair
  <2>6. Logged(s.effects[i])'
    BY <1>1, <2>2 DEF Logged
  <2>7. handler'.at = "receipt" /\ handler'.request = r /\ handler'.response = s.effects[i]
    BY <2>1 DEF At
  <2>8. Logged(handler.response)'
    BY <1>1, <2>2, <2>7 DEF Logged
  <2>9. StageInv'
    BY <2>2, <2>4, <2>5, <2>7, <2>8 DEF StageInv
  <2>10. QED
    BY <1>1, <1>2, <2>5, <2>9 DEF AckedIsDurable
<1>7. CASE Execute(s, r)
  <2>1. Executable(s, r) /\ acked' = acked
    BY <1>7 DEF Execute
  <2>2. AckedIsDurable'
    BY <1>1, <2>1 DEF AckedIsDurable
  <2>3. CASE receipts[r.mid] = None /\ cached' = s /\ handler' = At("intent", r, None)
    <3>1. handler'.at = "intent" /\ handler'.request = r
      BY <2>3 DEF At
    <3>2. Executable(s, r)'
      BY <1>1, <2>1
      DEF Executable, Admissible, SameTerms, Identified, ReusedId, Completed, EffectsOf,
          InSequence
    <3>3. Executable(saved, handler.request)'
      BY <3>1, <3>2
      DEF Executable, Admissible, SameTerms, Identified, ReusedId, Completed, EffectsOf,
          InSequence
    <3>4. QED
      BY <1>2, <2>2, <2>3, <3>1, <3>3 DEF StageInv
  <2>4. CASE receipts[r.mid] # None /\ Apply(s, r)
    <3>1. receipts[r.mid].request = r /\ receipts[r.mid].response = None
      BY <2>1, <2>4 DEF Executable, Admissible, ReusedId, Completed
    <3>2. InSequence(s, r) /\ EffectsOf(s, r) = {} /\ PhaseAllows(s.phase, r.tool)
      BY <2>1 DEF Executable
    <3>3. QED
      BY <1>1, <1>2, <2>2, <2>4, <3>1, <3>2, ApplyStage
  <2>5. QED
    BY <1>7, <2>3, <2>4 DEF Execute
<1>8. QED
  BY <1>4, <1>5, <1>6, <1>7 DEF Handle

LEMMA InitDurable == Init => DurableInv
  BY NoneAssumption
  DEF Init, DurableInv, StageInv, ReceiptInv, SessionInv, AckedIsDurable, EffectLog, Idle


\* One action at a time: no step of the pipeline, no crash and no eviction
\* disturbs DurableInv.
LEMMA NextDurable ==
  SessionSaveHolds /\ TypeInv /\ DurableInv /\ [Next]_vars => DurableInv'
<1> SUFFICES ASSUME SessionSaveHolds, TypeInv, DurableInv, [Next]_vars PROVE DurableInv'
  OBVIOUS
<1> USE NoneAssumption
<1>t. TypeOK /\ StagesChecked /\ StageInv /\ ReceiptInv /\ SessionInv /\ AckedIsDurable
  BY DEF TypeInv, DurableInv
<1>i. Idle.at = "idle"
  BY DEF Idle
<1>1. ASSUME NEW r \in Requests, Deliver(r) PROVE DurableInv'
  <2>1. handler = Idle /\ Loaded # None /\ Handle(Loaded, r) /\ saved' = saved
    BY <1>1 DEF Deliver
  <2>2. Loaded = saved
    BY <1>t, <1>i, <2>1 DEF StageInv, Loaded
  <2>3. saved \in Sessions /\ Sound(saved) /\ saved.effects = EffectLog
    BY <1>t, <2>1, <2>2, LogOfSaved DEF TypeOK, SessionInv
  <2>4. StageInv' /\ ReceiptInv' /\ AckedIsDurable'
    BY <1>t, <2>1, <2>2, <2>3, HandleDurable
  <2>5. SessionInv'
    BY <1>t, <2>1 DEF SessionInv, Sound
  <2>6. QED
    BY <2>4, <2>5 DEF DurableInv
<1>2. ASSUME NEW r \in Requests, Propose(r) PROVE DurableInv'
  <2>1. saved = None /\ cached = None
    BY <1>2, <1>t, <1>i DEF Propose, Loaded
  <2>2. handler'.at = "create" /\ UNCHANGED <<saved, receipts, cached, acked>>
    BY <1>2 DEF Propose, At
  <2>3. StageInv'
    BY <2>1, <2>2 DEF StageInv
  <2>4. QED
    BY <1>t, <2>2, <2>3
    DEF DurableInv, ReceiptInv, SessionInv, Sound, AckedIsDurable, EffectLog, Logged
<1>3. CASE SaveCreated
  <2> DEFINE opened == NewSession(handler.request)
  <2>1. /\ handler.request \in Requests /\ handler.request.payload \in ValidProposals
        /\ saved' = opened /\ Handle(opened, handler.request)
    BY <1>3, <1>t, <1>i DEF SaveCreated, TypeOK, StagesChecked
  <2>2. opened \in Sessions
    BY <2>1, NewSessionType
  <2>3. opened.effects = <<>> /\ Sound(opened)
    BY DEF NewSession, Sound, LastPhase
  <2>4. opened.effects = EffectLog
    BY <1>3, <1>t, <2>3 DEF SaveCreated, StageInv, EffectLog
  <2> HIDE DEF opened
  <2>5. StageInv' /\ ReceiptInv' /\ AckedIsDurable'
    BY <1>t, <2>1, <2>2, <2>3, <2>4, HandleDurable
  <2>6. SessionInv'
    BY <2>1, <2>3 DEF SessionInv, Sound
  <2>7. QED
    BY <2>5, <2>6 DEF DurableInv
<1>4. CASE SaveIntent
  <2> DEFINE r == handler.request
  <2>1. /\ r \in Requests /\ r.mid \in Mids /\ saved \in Sessions
        /\ cached = saved /\ Executable(saved, r)
    BY <1>4, <1>t, <1>i DEF SaveIntent, TypeOK, StageInv, Mids
  <2>2. /\ InSequence(saved, r) /\ EffectsOf(saved, r) = {}
        /\ PhaseAllows(saved.phase, r.tool) /\ EffectLog = saved.effects
    BY <1>4, <1>t, <2>1, LogOfSaved DEF SaveIntent, Executable, StageInv
  <2>3. /\ receipts' = [receipts EXCEPT ![r.mid] = [request |-> r, response |-> None]]
        /\ Apply(saved, r) /\ saved' = saved /\ acked' = acked
    BY <1>4, <2>1 DEF SaveIntent
  <2> HIDE DEF r
  <2>4. receipts'[r.mid] = [request |-> r, response |-> None] /\ receipts'[r.mid] # None
    <3>1. [request |-> r, response |-> None] \in Receipts
      BY <2>1 DEF Receipts
    <3>2. QED
      BY <1>t, <2>1, <2>3, <3>1 DEF TypeOK
  <2>5. StageInv'
    BY <2>1, <2>2, <2>3, <2>4, ApplyStage
  <2>6. \A m \in Mids : m # r.mid => receipts'[m] = receipts[m]
    BY <1>t, <2>3 DEF TypeOK
  <2>7. EffectLog' = EffectLog
    BY <2>3 DEF EffectLog
  <2>8. \A i \in DOMAIN EffectLog :
          EffectLog[i].request.mid # r.mid /\ EffectLog[i].request.mid \in Mids
    BY <1>t, <2>2, LogType DEF EffectsOf
  <2>9. ReceiptInv'
    BY <1>t, <2>4, <2>6, <2>7, <2>8 DEF ReceiptInv, Logged
  <2>10. SessionInv' /\ AckedIsDurable'
    BY <1>t, <2>3, <2>7 DEF SessionInv, Sound, AckedIsDurable
  <2>11. QED
    BY <2>5, <2>9, <2>10 DEF DurableInv
<1>5. CASE SaveSession
  <2> DEFINE r == handler.request
             e == ResponseTo(r, saved.effects)
  <2>1. /\ saved \in Sessions /\ r \in Requests /\ Intended(saved, r) /\ Sound(saved)
        /\ cached = Mutated(saved, r) /\ handler.response = e /\ EffectLog = saved.effects
    BY <1>5, <1>t, <1>i, LogOfSaved DEF SaveSession, TypeOK, StageInv, SessionInv
  <2>2. e.request = r /\ e.phase = NextPhase(r)
    BY DEF ResponseTo
  <2>3. /\ Mutated(saved, r) \in Sessions
        /\ Mutated(saved, r).effects = Append(saved.effects, e)
        /\ Mutated(saved, r).next = saved.next + 1
        /\ Mutated(saved, r).phase = NextPhase(r)
    BY <2>1, MutatedType DEF Intended
  <2>4. /\ saved' = Mutated(saved, r) /\ cached' = cached /\ receipts' = receipts
        /\ acked' = acked /\ handler' = [handler EXCEPT !.at = "receipt"]
    BY <1>5, <2>1 DEF SaveSession
  <2>5. saved' # None /\ EffectLog' = Append(EffectLog, e)
    BY <2>1, <2>3, <2>4 DEF EffectLog
  <2>6. EffectLog \in Seq(Responses) /\ e \in Responses
    BY <2>1, ResponseType DEF Sessions
  <2>7. /\ Len(EffectLog') = Len(EffectLog) + 1 /\ EffectLog'[Len(EffectLog')] = e
        /\ \A i \in DOMAIN EffectLog : i \in DOMAIN EffectLog' /\ EffectLog'[i] = EffectLog[i]
        /\ \A i \in DOMAIN EffectLog' : i \in DOMAIN EffectLog \/ EffectLog'[i] = e
        /\ Len(EffectLog') \in DOMAIN EffectLog'
    <3> HIDE DEF e
    <3>1. QED
      BY <2>5, <2>6
  <2> HIDE DEF r, e
  <2>8. handler'.at = "receipt" /\ handler'.request = r /\ handler'.response = e
    BY <1>5, <1>t, <1>i, <2>1, <2>4 DEF TypeOK, SaveSession, r
  <2>9. Logged(handler.response)'
    BY <2>7, <2>8 DEF Logged
  <2>10. StageInv'
    BY <2>1, <2>2, <2>4, <2>8, <2>9 DEF StageInv
  <2>11. SessionInv'
    <3>1. saved'.effects = EffectLog' /\ saved'.effects # <<>>
      BY <2>5, <2>6, <2>3, <2>4, <2>1
    <3>2. saved'.next = Len(saved'.effects) + 1
      BY <2>1, <2>3, <2>4, <2>7, <3>1 DEF Sound
    <3>3. saved'.phase = LastPhase(saved'.effects)
      BY <2>2, <2>3, <2>4, <2>7, <3>1 DEF LastPhase
    <3>4. QED
      BY <3>2, <3>3 DEF SessionInv, Sound
  <2>12. ReceiptInv'
    <3>1. receipts[e.request.mid] # None /\ receipts[e.request.mid].request = e.request
      BY <2>1, <2>2 DEF Intended
    <3>2. \A x : Logged(x) => Logged(x)'
      BY <2>7 DEF Logged
    <3>3. \A i \in DOMAIN EffectLog' :
            LET q == EffectLog'[i].request IN receipts'[q.mid] # None /\ receipts'[q.mid].request = q
      BY <1>t, <2>4, <2>7, <3>1 DEF ReceiptInv
    <3>4. \A m \in Mids : receipts'[m] # None /\ receipts'[m].response # None =>
            /\ \E i \in DOMAIN EffectLog' : EffectLog'[i] = receipts'[m].response
            /\ receipts'[m].response.request = receipts'[m].request
      BY <1>t, <2>4, <2>7 DEF ReceiptInv, Logged
    <3>5. QED
      BY <3>3, <3>4 DEF ReceiptInv, Logged
  <2>13. AckedIsDurable'
    BY <1>t, <2>4, <2>7 DEF AckedIsDurable
  <2>14. QED
    BY <2>10, <2>11, <2>12, <2>13 DEF DurableInv
<1>6. CASE SaveReceipt
  <2> DEFINE r == handler.request
             e == handler.response
  <2>1. /\ r \in Requests /\ e \in Responses /\ r.mid \in Mids
        /\ Logged(e) /\ e.request = r /\ cached \in {None, saved}
    BY <1>6, <1>t, <1>i DEF SaveReceipt, TypeOK, StageInv, Mids
  <2>2. /\ receipts' = [receipts EXCEPT ![r.mid] = [request |-> r, response |-> e]]
        /\ acked' = acked \cup {[to |-> r, response |-> e]}
        /\ handler' = Idle /\ saved' = saved /\ cached' = cached
    BY <1>6 DEF SaveReceipt, Acknowledge
  <2> HIDE DEF r, e
  <2>3. receipts'[r.mid] = [request |-> r, response |-> e] /\ receipts'[r.mid] # None
    <3>1. [request |-> r, response |-> e] \in Receipts
      BY <2>1 DEF Receipts
    <3>2. QED
      BY <1>t, <2>1, <2>2, <3>1 DEF TypeOK
  <2>4. \A m \in Mids : m # r.mid => receipts'[m] = receipts[m]
    BY <1>t, <2>2 DEF TypeOK
  <2>5. EffectLog' = EffectLog
    BY <2>2 DEF EffectLog
  <2>7. \A i \in DOMAIN EffectLog : EffectLog[i].request.mid \in Mids
    BY <1>t, LogType
  <2>8. \A i \in DOMAIN EffectLog : EffectLog[i].request.mid = r.mid => EffectLog[i].request = r
    BY <1>t, <2>1 DEF ReceiptInv, Logged
  <2>9. ReceiptInv'
    BY <1>t, <2>1, <2>3, <2>4, <2>5, <2>7, <2>8 DEF ReceiptInv, Logged
  <2>10. AckedIsDurable'
    BY <1>t, <2>1, <2>2, <2>5 DEF AckedIsDurable, Logged
  <2>11. StageInv' /\ SessionInv'
    BY <1>t, <2>1, <2>2 DEF StageInv, SessionInv, Sound, Idle
  <2>12. QED
    BY <2>9, <2>10, <2>11 DEF DurableInv
<1>7. CASE SaveFails
  <2>1. handler.at \in {"create", "intent", "receipt"}
    BY <1>7, FaultAssumption DEF SaveFails, SessionSaveHolds, Stages
  <2>2. handler' = Idle /\ UNCHANGED <<saved, receipts, cached, acked>>
    BY <1>7 DEF SaveFails
  <2>3. StageInv'
    BY <1>t, <1>i, <2>1, <2>2 DEF StageInv
  <2>4. QED
    BY <1>t, <2>2, <2>3
    DEF DurableInv, ReceiptInv, SessionInv, Sound, AckedIsDurable, EffectLog, Logged
<1>8. CASE Crash \/ Evict
  <2>1. handler'.at = "idle" /\ cached' = None /\ UNCHANGED <<saved, receipts, acked>>
    BY <1>8, <1>i DEF Crash, Evict
  <2>2. StageInv'
    BY <2>1 DEF StageInv
  <2>3. QED
    BY <1>t, <2>1, <2>2
    DEF DurableInv, ReceiptInv, SessionInv, Sound, AckedIsDurable, EffectLog, Logged
<1>9. CASE UNCHANGED vars
  <2>1. UNCHANGED <<saved, receipts, cached, handler, acked>>
    BY <1>9 DEF vars
  <2>2. StageInv'
    BY <1>t, <2>1
    DEF StageInv, Intended, Executable, Admissible, SameTerms, Identified, ReusedId,
        Completed, EffectsOf, InSequence, Logged, EffectLog, Mutated
  <2>3. QED
    BY <1>t, <2>1, <2>2
    DEF DurableInv, ReceiptInv, SessionInv, Sound, AckedIsDurable, EffectLog, Logged
<1>10. QED
  BY <1>1, <1>2, <1>3, <1>4, <1>5, <1>6, <1>7, <1>8, <1>9 DEF Next, Pipeline

\* DurableInv holds in every reachable state; the theorems below read off it.
LEMMA Durable == SessionSaveHolds => (Spec => [](TypeInv /\ DurableInv))
<1> SUFFICES ASSUME SessionSaveHolds PROVE Spec => [](TypeInv /\ DurableInv)
  OBVIOUS
<1>1. Init => TypeInv /\ DurableInv
  BY InitTypes, InitDurable
<1>2. TypeInv /\ DurableInv /\ [Next]_vars => (TypeInv /\ DurableInv)'
  BY NextTypes, NextDurable
<1>3. QED
  BY <1>1, <1>2, PTL DEF Spec


\* Every OK answer ever given names an effect that the durable session holds,
\* for every request set and any number of crashes and of failing saves other
\* than the session's.
THEOREM AnswersAreDurable == SessionSaveHolds => (Spec => []AckedIsDurable)
<1>1. DurableInv => AckedIsDurable
  BY DEF DurableInv
<1>2. QED
  BY <1>1, Durable, PTL

\* The durable effects and the durable receipts tell the same story, so that a
\* restarted peer recognises a retry and a reused message ID alike.
THEOREM ReceiptsAreSound == SessionSaveHolds => (Spec => []ReceiptsMatchEffects)
<1>1. DurableInv => ReceiptsMatchEffects
  BY DEF DurableInv, ReceiptInv, ReceiptsMatchEffects, Logged
<1>2. QED
  BY <1>1, Durable, PTL

\* The registry never serves an unsaved session to the next request.
THEOREM CacheIsSound == SessionSaveHolds => (Spec => []CacheIsDurable)
<1>1. DurableInv => CacheIsDurable
  BY DEF DurableInv, StageInv, CacheIsDurable, Idle
<1>2. QED
  BY <1>1, Durable, PTL

-----------------------------------------------------------------------------
(* The peer implements CommandLog: its step from one durable session to the  *)
(* next is one Commit, an answer is one Answer, and all else stutters.       *)

LEMMA InitRefines == Init => DurableLog!LogInit
  BY DEF Init, EffectLog, DurableLog!LogInit

\* An answer for a logged effect of the very request is one Answer step.
LEMMA AnswerRefines ==
  ASSUME NEW r, NEW response, Logged(response), response.request = r,
         Acknowledge(r, response), EffectLog' = EffectLog
  PROVE  DurableLog!LogNext
<1>1. PICK i \in DOMAIN EffectLog : EffectLog[i] = response
  BY DEF Logged
<1>2. DurableLog!Answer(i)
  BY <1>1 DEF Acknowledge, DurableLog!Answer
<1>3. QED
  BY <1>1, <1>2 DEF DurableLog!LogNext

\* handle answers by itself only what it replays from a COMPLETED record.
LEMMA HandleRefines ==
  ASSUME TypeOK, ReceiptInv, NEW s \in Sessions, NEW r \in Requests, Handle(s, r),
         EffectLog' = EffectLog
  PROVE  DurableLog!LogNext \/ acked' = acked
<1>1. CASE Replay(s, r)
  <2>1. /\ receipts[r.mid] # None /\ receipts[r.mid].response # None
        /\ receipts[r.mid].request = r /\ r.mid \in Mids
    BY <1>1 DEF Replay, Completed, Admissible, ReusedId, Mids
  <2>2. Logged(receipts[r.mid].response) /\ receipts[r.mid].response.request = r
    BY <2>1 DEF ReceiptInv
  <2>3. Acknowledge(r, receipts[r.mid].response)
    BY <1>1 DEF Replay
  <2>4. QED
    BY <2>2, <2>3, AnswerRefines
<1>2. CASE ~Replay(s, r)
  BY <1>2 DEF Handle, Refuse, Repair, Execute
<1>3. QED
  BY <1>1, <1>2

LEMMA NextRefines ==
  ASSUME TypeInv, DurableInv, [Next]_vars
  PROVE  [DurableLog!LogNext]_<<EffectLog, acked>>
<1> USE NoneAssumption
<1>t. TypeOK /\ StagesChecked /\ StageInv /\ ReceiptInv /\ SessionInv
  BY DEF TypeInv, DurableInv
<1>i. Idle.at = "idle"
  BY DEF Idle
<1>1. ASSUME NEW r \in Requests, Deliver(r) PROVE DurableLog!LogNext \/ UNCHANGED <<EffectLog, acked>>
  <2>1. Loaded \in Sessions /\ Handle(Loaded, r) /\ EffectLog' = EffectLog
    BY <1>1, <1>t DEF Deliver, Loaded, TypeOK, EffectLog
  <2>2. QED
    BY <1>t, <2>1, HandleRefines
<1>2. CASE SaveCreated
  <2> DEFINE opened == NewSession(handler.request)
  <2>1. /\ handler.request \in Requests /\ handler.request.payload \in ValidProposals
        /\ saved' = opened /\ Handle(opened, handler.request)
    BY <1>2, <1>t, <1>i DEF SaveCreated, TypeOK, StagesChecked
  <2>2. opened \in Sessions /\ opened.effects = <<>>
    BY <2>1, NewSessionType DEF NewSession
  <2>3. EffectLog' = EffectLog
    BY <1>2, <1>t, <2>1, <2>2 DEF SaveCreated, StageInv, EffectLog
  <2> HIDE DEF opened
  <2>4. QED
    BY <1>t, <2>1, <2>2, <2>3, HandleRefines
<1>3. CASE SaveSession
  <2> DEFINE r == handler.request
             e == ResponseTo(r, saved.effects)
  <2>1. /\ saved \in Sessions /\ r \in Requests /\ Intended(saved, r) /\ Sound(saved)
        /\ cached = Mutated(saved, r) /\ EffectLog = saved.effects
    BY <1>3, <1>t, <1>i, LogOfSaved DEF SaveSession, TypeOK, StageInv, SessionInv
  <2>2. Mutated(saved, r) \in Sessions /\ Mutated(saved, r).effects = Append(saved.effects, e)
    BY <2>1, MutatedType DEF Intended
  <2>3. EffectLog' = Append(EffectLog, e) /\ acked' = acked
    BY <1>3, <2>1, <2>2 DEF SaveSession, EffectLog
  <2>4. r.seq = Len(EffectLog) + 1
    BY <2>1 DEF Intended, InSequence, Sound
  <2>5. \A i \in DOMAIN EffectLog : EffectLog[i].request.mid # r.mid
    BY <2>1 DEF Intended, EffectsOf
  <2>6. DurableLog!PhaseAllows(DurableLog!LogPhase, r.tool)
    BY <2>1
    DEF Intended, Sound, LastPhase, DurableLog!LogPhase, PhaseAllows,
        DurableLog!PhaseAllows, MutatingTools, DurableLog!MutatingTools, Allowed,
        DurableLog!Allowed
  <2>7. DurableLog!ResponseTo(r, EffectLog) = e
    BY <2>1
    DEF ResponseTo, DurableLog!ResponseTo, NextPhase, DurableLog!NextPhase, EndsGame,
        DurableLog!EndsGame, EventNumber, DurableLog!EventNumber
  <2> HIDE DEF r, e
  <2>8. DurableLog!Commit(r)
    BY <2>3, <2>4, <2>5, <2>6, <2>7 DEF DurableLog!Commit
  <2>9. QED
    BY <2>1, <2>8 DEF DurableLog!LogNext
<1>4. CASE SaveReceipt
  <2>1. /\ Logged(handler.response) /\ handler.response.request = handler.request
        /\ Acknowledge(handler.request, handler.response) /\ EffectLog' = EffectLog
    BY <1>4, <1>t DEF SaveReceipt, StageInv, EffectLog
  <2>2. QED
    BY <2>1, AnswerRefines
<1>5. CASE SaveIntent \/ SaveFails \/ Crash \/ Evict \/ UNCHANGED vars
  BY <1>5 DEF SaveIntent, SaveFails, Crash, Evict, vars, EffectLog
<1>6. ASSUME NEW r \in Requests, Propose(r) PROVE UNCHANGED <<EffectLog, acked>>
  BY <1>6 DEF Propose, EffectLog
<1>7. QED
  BY <1>1, <1>2, <1>3, <1>4, <1>5, <1>6 DEF Next, Pipeline

\* The whole pipeline, with its four saves, its cache, its receipts and its
\* crashes, is an implementation of the log that applies each request once, in
\* order, in a phase that allows it, and answers from what it applied.
THEOREM PipelineImplementsLog == SessionSaveHolds => (Spec => ImplementsLog)
<1>1. TypeInv /\ DurableInv /\ [Next]_vars => [DurableLog!LogNext]_<<EffectLog, acked>>
  BY NextRefines
<1>2. QED
  BY <1>1, InitRefines, Durable, PTL DEF Spec, ImplementsLog, DurableLog!LogSpec

=============================================================================
