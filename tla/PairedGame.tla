---------------------------- MODULE PairedGame ----------------------------
(***************************************************************************)
(* One sub-game from its first decision to its audit: every step of the    *)
(* arena is sealed before it is played and revealed when it is, a decision *)
(* may be replaced while its commitment is not acknowledged, the reveals   *)
(* are journalled in the order of play, and when the game is over the      *)
(* nonces leave the store and the evidence is audited.  The composition is *)
(* the one of tests/helpers/audit.py and tests/helpers/replay.py.          *)
(***************************************************************************)
EXTENDS GameAudit

CONSTANTS
  Nonces,           \* nonces the players can draw
  MaxReplacements   \* bound: decisions replaced in one game

\* A nonce that was generated is well formed.
ASSUME NoncesAssumption == Malformed \notin Nonces

VARIABLES
  steps, nonces, disclosed,   \* of the store
  journal,                    \* the EventJournal of the reveals
  replaced                    \* replacements so far

storeVars == <<steps, nonces, disclosed>>

vars == <<arenaVars, storeVars, journal, replaced>>

Game == <<"game", 1>>

Slots == (1 .. MaxSteps) \X Roles

Bodies ==
  [game : {Game}, step : 1 .. MaxSteps, actor : Roles, pre : LocalStates,
   action : Actions, effects : SUBSET Cells,
   frame : [actor : Roles, step : Nat, cells : SUBSET (Cells \X Nat)],
   text : {"hint"}, binding : {Binding(ConfigDigest, ScentModelDigest)}]

Store == INSTANCE SealedSteps WITH Games <- {Game}

Init ==
  /\ ArenaInit
  /\ Store!StoreInit
  /\ journal = <<>>
  /\ replaced = 0

----------------------------------------------------------------------------
(* One step of the side that is to move *)

Identity(role) == <<Game, <<local[role].step + 1, role>>>>

\* The body the actor seals for an action: its effects are computed first.
BodyFor(state, field, action) ==
  LET next == Transition(state, action)
  IN  Body(Game, state, action, Frame(AfterAction(field, next, action), next))

Planned(action) == BodyFor(local[mover], scent[mover], action)

\* SecretNonce.generate: a nonce nobody holds.
Fresh == CHOOSE n \in Nonces : n \notin nonces

SealDecision ==
  /\ outcome = None
  /\ nonces # Nonces
  /\ \E action \in Decisions(local[mover]) :
        Store!Seal(Identity(mover), Planned(action), Fresh)
  /\ UNCHANGED <<arenaVars, journal, replaced>>

(***************************************************************************)
(* A new decision for the sealed step, with a nonce that some step holds.  *)
(* The step's own nonce stands for a fresh one as well: nothing remembers  *)
(* it when the step is replaced, so the two differ only in its name.       *)
(***************************************************************************)
ReplaceDecision ==
  /\ outcome = None
  /\ replaced < MaxReplacements
  /\ \E action \in Decisions(local[mover]), nonce \in nonces :
        Store!ReplaceBeforeAck(Identity(mover), Planned(action), nonce)
  /\ replaced' = replaced + 1
  /\ UNCHANGED <<arenaVars, journal>>

AcknowledgeStep ==
  /\ outcome = None
  /\ \E id \in Store!Sealed :
        /\ ~steps[id].acknowledged
        /\ Store!Acknowledge(id, steps[id].body, steps[id].nonce)
  /\ UNCHANGED <<arenaVars, journal, replaced>>

RevealStep ==
  LET id == Identity(mover)
  IN  /\ outcome = None
      /\ Store!Reveal(id)
      /\ Apply(mover, steps[id].body.action)
      /\ journal' = Append1(journal, LiveReveal(steps[id].body, steps[id].nonce))
      /\ UNCHANGED replaced

DiscloseNonces ==
  /\ outcome # None
  /\ disclosed = {}
  /\ Store!FinalManifest(Game, "auditing")
  /\ UNCHANGED <<arenaVars, journal, replaced>>

Next ==
  \/ SealDecision
  \/ ReplaceDecision
  \/ AcknowledgeStep
  \/ RevealStep
  \/ DiscloseNonces

Spec == Init /\ [][Next]_vars

----------------------------------------------------------------------------
(* The evidence of a finished game *)

Over == disclosed # {}

ManifestOf(evidence) ==
  LET entry(e) == <<e.body.step, e.body.actor, e.commitment, e.nonce>>
      entries == [i \in DOMAIN evidence |-> entry(evidence[i])]
  IN  [game |-> Game, entries |-> entries, sha |-> entries]

\* The journal after each of the reveals of some evidence.
JournalsOf(evidence) ==
  LET kept[k \in 0 .. Len(evidence)] ==
        IF k = 0 THEN <<>>
        ELSE Append1(kept[k - 1], LiveReveal(evidence[k].body, evidence[k].nonce))
  IN  kept

JournalOf(evidence) == JournalsOf(evidence)[Len(evidence)]

RevealedEvidence ==
  [i \in DOMAIN journal |->
     Evidence(i, journal[i].payload, journal[i].payload.commitment[2])]

Groups == <<"GRP00001", "GRP00002">>

\* Evidence, manifest and journal that belong together.
Bundle(evidence) ==
  LET bound == <<ConfigDigest, ScentModelDigest, "schedule">>
      captured == outcome \in CaptureReasons
  IN  [game |-> Game, config |-> ConfigDigest, configSha |-> ConfigDigest,
       scentModel |-> ScentModelDigest, scentModelSha |-> ScentModelDigest,
       schedule |-> "schedule", expectedSchedule |-> "schedule",
       stepZero |-> [i \in 1 .. 2 |-> Declaration(Groups[i], bound)],
       agreedBetween |-> ToSet(Groups),
       steps |-> evidence, manifest |-> ManifestOf(evidence),
       journal |-> JournalOf(evidence),
       terminal |-> outcome, points |-> ScoreTerminal(outcome),
       capture |-> <<CaptureExchange(captured, captured)>>]

Honest == Bundle(RevealedEvidence)

----------------------------------------------------------------------------
(* Evidence that was changed: the families of test_mutual_audit.py *)

\* One field of one body, as replace_step_body changes it.
DamagedBodies(body) ==
  {[body EXCEPT !.game = <<"game", 2>>],
   [body EXCEPT !.step = @ + 1],
   [body EXCEPT !.actor = Opponent(@)],
   [body EXCEPT !.pre.step = @ + 1],
   [body EXCEPT !.effects = IF @ = {} THEN {<<0, 0>>} ELSE {}],
   [body EXCEPT !.frame.step = @ + 1],
   [body EXCEPT !.text = "mutated"],
   [body EXCEPT !.binding = Binding("other", ScentModelDigest)],
   [body EXCEPT !.action = IF @ = Stay THEN Move("E") ELSE Stay]}

DamagedSteps(e) ==
  {[e EXCEPT !.body = d] : d \in DamagedBodies(e.body)}
  \cup {[e EXCEPT !.nonce = Malformed],
        [e EXCEPT !.commitment = Commitment(e.body, Malformed)],
        [e EXCEPT !.sequence = @ + 1]}

\* Missing, duplicated, reordered and truncated steps, and damaged ones.
DamagedEvidence(s) ==
  {Tail(s), <<s[1]>> \o s, Front(s)}
  \cup (IF Len(s) < 2 THEN {} ELSE {<<s[2], s[1]>> \o SubSeq(s, 3, Len(s))})
  \cup UNION {{[s EXCEPT ![i] = d] : d \in DamagedSteps(s[i])} : i \in DOMAIN s}

\* One part of the bundle other than its steps.
DamagedBundles(b) ==
  {[b EXCEPT !.configSha = "other"], [b EXCEPT !.scentModelSha = "other"],
   [b EXCEPT !.schedule = "other"],
   [b EXCEPT !.stepZero = Tail(@)], [b EXCEPT !.stepZero = Reverse(@ \o @)],
   [b EXCEPT !.stepZero[1].group = "GRP00003"],
   [b EXCEPT !.stepZero[2].signature = <<Groups[1], @[2]>>],
   [b EXCEPT !.manifest.entries = Tail(@)], [b EXCEPT !.manifest.game = <<"game", 2>>],
   [b EXCEPT !.journal = Tail(@)], [b EXCEPT !.journal = Front(@)],
   [b EXCEPT !.journal[1].index = 2],
   [b EXCEPT !.terminal = IF @ = "capture" THEN "enclosure" ELSE "capture"],
   [b EXCEPT !.points.police = @ + 1], [b EXCEPT !.points.thief = @ + 1],
   [b EXCEPT !.capture[1] = CaptureExchange(@.claim, ~@.response)],
   [b EXCEPT !.capture[1] = CaptureExchange(~@.claim, ~@.response)],
   [b EXCEPT !.capture[1].responseSha = <<"response", ~@[2]>>]}

(***************************************************************************)
(* reseal_step_body: another action at step i, with the effects and the    *)
(* scent frame it really has, sealed again under the same nonce.           *)
(***************************************************************************)
ReplayedBefore(s, i) == Replay(Bundle(SubSeq(s, 1, i - 1)))

Resealed(s, i, action) ==
  LET before == ReplayedBefore(s, i)
      actor == s[i].body.actor
      body == BodyFor(before.states[actor], before.fields[actor], action)
  IN  [s EXCEPT ![i] = Evidence(i, LiveReveal(body, s[i].nonce), s[i].nonce)]

ResealedAt(s, i) ==
  {Resealed(s, i, a) : a \in LegalActions(s[i].body.pre) \ {s[i].body.action}}

ResealedEvidence(s) == UNION {ResealedAt(s, i) : i \in DOMAIN s}

----------------------------------------------------------------------------
(* Properties *)

(***************************************************************************)
(* The store keeps its seals (store.py:33-121, see SealedSteps): nonces    *)
(* are as many as the steps, none gets out before the manifest of a        *)
(* sub-game that was acknowledged and revealed, and a step that the peer   *)
(* acknowledged never shows another payload afterwards, however sealing,   *)
(* failing replacements, acknowledgements and reveals interleave.          *)
(***************************************************************************)
SealsAreKept ==
  /\ [](Store!NoncesMatchSteps /\ Store!NoncesStaySecret)
  /\ [][Store!LockedStaysLocked]_vars

(***************************************************************************)
(* The audit of an honest game against the referee that played it: it      *)
(* verifies a capture and an enclosure with the referee's reason and every *)
(* step, leaves Python by an exception for a thief caught by a barrier     *)
(* (replay.py:122), and takes every game in which the Thief played the     *)
(* last turn for continued after its end, whatever ended it: it counts     *)
(* that turn as completed when the Police has played it                    *)
(* (replay_support.py:137 against arena.py:115).  And while the game goes  *)
(* on, the referee has missed nothing (see ArenaGame).                     *)
(***************************************************************************)
ThiefPlayedLastTurn == StepTerminal(local["thief"].step) # None

Expected(report) ==
  IF outcome = "barrier_capture" THEN report.status = Raised
  ELSE IF ThiefPlayedLastTurn
    THEN report.status = Tampered /\ report.findings = <<"POST_TERMINAL">>
  ELSE /\ report.status = VerifiedOK
       /\ report.terminal = outcome
       /\ report.points = ScoreTerminal(outcome)
       /\ report.verified = Len(journal)

AuditMatchesReferee == NoMissedOutcome /\ (Over => Expected(Audit(Honest)))

(***************************************************************************)
(* An audit never verifies evidence in which one thing was changed: a      *)
(* missing, repeated, reordered or truncated step, a field of a body, a    *)
(* nonce, a commitment, or any other part of the bundle                    *)
(* (service.py:18-80, preflight.py:11-110, replay_support.py:36-118).      *)
(***************************************************************************)
DamageIsFound ==
  Over =>
    /\ \A s \in DamagedEvidence(RevealedEvidence) :
         LET resealed == [Honest EXCEPT !.steps = s] IN Audit(resealed).status # VerifiedOK
    /\ \A b \in DamagedBundles(Honest) : Audit(b).status # VerifiedOK

(***************************************************************************)
(* Nor does it verify another history under a consistent evidence graph:   *)
(* a step that was sealed again with a different legal action, its real    *)
(* effects and its real scent, with manifest and journal rebuilt around    *)
(* it, contradicts a later step or the reported outcome, and its auditor   *)
(* reaches no agreement with the peer that audited the real one            *)
(* (replay.py:26-136, service.py:26-36, agreement.py:26-49).               *)
(***************************************************************************)
Refuted(honest, b, report, resealed) ==
  /\ resealed.status # VerifiedOK
  /\ AgreeAudits(honest.manifest.sha, b.manifest.sha, report, resealed) = Rejected

ResealedHistoryIsFound ==
  Over =>
    \A s \in ResealedEvidence(RevealedEvidence) :
      Refuted(Honest, Bundle(s), Audit(Honest), Audit(Bundle(s)))

(***************************************************************************)
(* No evidence but the honest one verifies, whether it was damaged or      *)
(* sealed again (the two parts above).                                     *)
(***************************************************************************)
TamperingIsFound == DamageIsFound /\ ResealedHistoryIsFound

(***************************************************************************)
(* The two verifiers of a sub-game, written twice, never disagree: on the  *)
(* honest log, on damaged steps and on resealed histories, the replay      *)
(* application gives the audit's verdict, and for a consistent log also    *)
(* its progress, reason and points.  Objective replay of two linked logs   *)
(* opens for the honest pair exactly when its audit verified, and never    *)
(* next to a sibling with another first step (replay/verifier.py:27-76,    *)
(* replay/steps.py:42-152, replay/dual.py:19-76 against audit/).           *)
(***************************************************************************)
SameVerdict(b) ==
  VerifyReplayLog(ReplayLogOf(b), ConfigDigest, "single-log").integrity = Audit(b).status

SameOutcome(result, report) ==
  /\ result.integrity = report.status
  /\ result.points = report.points
  /\ report.status = Raised \/ result.terminal = report.terminal
  /\ Len(report.findings) < 2 /\ report.status # Raised =>
       result.verified = report.verified

SameResult(b) ==
  SameOutcome(VerifyReplayLog(ReplayLogOf(b), ConfigDigest, "single-log"), Audit(b))

\* Of the log of the honest game and its sibling.
VerdictWith(sibling) ==
  VerifyDualLogs(ReplayLogOf(Honest), ReplayLogOf(sibling), ConfigDigest).integrity

VerifiersAgree ==
  Over =>
    /\ SameResult(Honest)
    /\ VerdictWith(Honest) = Audit(Honest).status
    /\ \A s \in ResealedEvidence(RevealedEvidence) : SameResult(Bundle(s))
    /\ \A s \in ResealedAt(RevealedEvidence, 1) : VerdictWith(Bundle(s)) # VerifiedOK
    /\ \A s \in DamagedEvidence(RevealedEvidence) : SameVerdict(Bundle(s))

============================================================================
