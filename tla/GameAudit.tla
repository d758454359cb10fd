----------------------------- MODULE GameAudit -----------------------------
(***************************************************************************)
(* The evidence a sub-game leaves and its two verifiers.                   *)
(*                                                                         *)
(* The evidence is made of commitment bodies and their digests             *)
(* (services/crypto/payload.py), the hash-chained journal of the reveals   *)
(* (journal.py), the signed Step-0 declarations (declaration.py) and the   *)
(* capture claim and response (capture.py).  SHA-256 is free of            *)
(* collisions: the digest of a value is the value.  local_state_digest     *)
(* covers every field of a LocalGameState, so it is the state.             *)
(***************************************************************************)
EXTENDS ArenaGame, Sequences, SeriesScoring, SequencesExt

\* The digests a body is bound to, with the protocol version.
ConfigDigest == "config"

ScentModelDigest == "scent-model"

Binding(config, scentModel) == <<config, scentModel, "protocol">>

Body(game, state, action, frame) ==
  [game |-> game, step |-> frame.step, actor |-> state.role, pre |-> state,
   action |-> action, effects |-> PublicEvents(action), frame |-> frame,
   text |-> "hint", binding |-> Binding(ConfigDigest, ScentModelDigest)]

\* CommitmentPayload.digest.
Commitment(body, nonce) == <<body, nonce>>

\* LiveReveal: the body and its commitment, never the nonce.
LiveReveal(body, nonce) == [body |-> body, commitment |-> Commitment(body, nonce)]

----------------------------------------------------------------------------
(* EventJournal *)

Genesis == "genesis"

Entry(index, reveal, previous) ==
  [index |-> index, payload |-> reveal, previous |-> previous,
   entry |-> <<index, reveal, previous>>]

Append1(journal, reveal) ==
  Append(journal,
         Entry(Len(journal) + 1, reveal,
               IF journal = <<>> THEN Genesis ELSE journal[Len(journal)].entry))

VerifyJournal(journal) ==
  \A i \in DOMAIN journal :
     LET previous == IF i = 1 THEN Genesis ELSE journal[i - 1].entry
     IN  /\ journal[i].index = i
         /\ journal[i].previous = previous
         /\ journal[i].entry = <<i, journal[i].payload, previous>>

----------------------------------------------------------------------------
(* Step-0 declarations and the capture exchange *)

\* SignedStepZero.create; binding holds the three negotiated digests.
Declaration(group, binding) ==
  [group |-> group, binding |-> binding, signature |-> <<group, binding>>]

Signed(declaration) ==
  declaration.signature = <<declaration.group, declaration.binding>>

CaptureExchange(claim, response) ==
  [claim |-> claim, response |-> response,
   claimSha |-> <<"claim", claim>>, responseSha |-> <<"response", response>>]

\* Mutant: the commitment of the response is not recomputed.
ClaimIsValid(capture) == capture.claimSha = <<"claim", capture.claim>>

CommitmentsAreValid(capture) ==
  /\ capture.claimSha = <<"claim", capture.claim>>
  /\ capture.responseSha = <<"response", capture.response>>

-----------------------------------------------------------------------------
(***************************************************************************)
(* The offline audit of one sub-game (services/audit): constitution,       *)
(* Step-0, journal and manifest checks, then a replay of every sealed step *)
(* through the domain engine, then the reported result.  A finding is its  *)
(* code.  A replay that leaves Python by an exception nobody catches has   *)
(* the status Raised.                                                      *)
(***************************************************************************)

VerifiedOK == "Verified OK"
Tampered == "TAMPERED"
Raised == "raised"

Malformed == "malformed"  \* a nonce_hex that SecretNonce.from_hex refuses

\* AuditStep
Evidence(sequence, reveal, nonce) ==
  [sequence |-> sequence, body |-> reveal.body,
   commitment |-> reveal.commitment, nonce |-> nonce]

----------------------------------------------------------------------------
(* preflight.py *)

StepZeroFailures(b) ==
  (IF Len(b.stepZero) # 2 THEN <<"STEP_ZERO_COMPLETENESS">> ELSE <<>>)
  \o FlattenSeq([i \in DOMAIN b.stepZero |->
       (IF Signed(b.stepZero[i]) THEN <<>> ELSE <<"STEP_ZERO_SIGNATURE">>)
       \o (IF b.stepZero[i].binding = <<b.configSha, b.scentModelSha, b.schedule>>
             THEN <<>> ELSE <<"STEP_ZERO_BINDING">>)])
  \o (IF {b.stepZero[i].group : i \in DOMAIN b.stepZero} = b.agreedBetween
        THEN <<>> ELSE <<"STEP_ZERO_IDENTITY">>)

JournalMatchesSteps(b) ==
  /\ Len(b.journal) = Len(b.steps)
  /\ \A i \in DOMAIN b.steps :
        b.journal[i].payload =
          [body |-> b.steps[i].body, commitment |-> b.steps[i].commitment]

Revealed(b) ==
  {<<b.steps[i].body.step, b.steps[i].body.actor,
     b.steps[i].commitment, b.steps[i].nonce>> : i \in DOMAIN b.steps}

Manifested(b) == ToSet(b.manifest.entries)

ManifestMatches(b) ==
  /\ b.manifest.game = b.game
  /\ Len(b.manifest.entries) = Len(b.steps)
  /\ b.manifest.sha = b.manifest.entries
  /\ Cardinality(Revealed(b)) = Len(b.steps)
  /\ Cardinality(Manifested(b)) = Len(b.manifest.entries)
  /\ Revealed(b) = Manifested(b)

PreflightFindings(b) ==
  (IF b.config = b.configSha THEN <<>> ELSE <<"CONFIG_DIGEST">>)
  \o (IF b.scentModel = b.scentModelSha THEN <<>> ELSE <<"SCENT_MODEL">>)
  \o (IF b.schedule = b.expectedSchedule THEN <<>> ELSE <<"ROLE_SCHEDULE">>)
  \o StepZeroFailures(b)
  \o (IF ~VerifyJournal(b.journal) THEN <<"JOURNAL_CHAIN">>
      ELSE IF ~JournalMatchesSteps(b) THEN <<"JOURNAL_EVIDENCE">> ELSE <<>>)
  \o (IF ManifestMatches(b) THEN <<>> ELSE <<"FINAL_MANIFEST">>)

----------------------------------------------------------------------------
(* replay.py: what has been replayed after some steps *)

ReplayStart ==
  [verified |-> 0, terminal |-> None, finding |-> None, raised |-> FALSE,
   states |-> [r \in Roles |-> InitialState(r, Start[r])],
   counts |-> [r \in Roles |-> 0],
   fields |-> [r \in Roles |-> NoScent],
   nonces |-> {}]

\* Mutant: of the pre-action state only the position is compared.
SealFailureByPosition(b, acc, k) ==
  LET e == b.steps[k]
      body == e.body
  IN  IF e.sequence # k THEN "STEP_ORDER"
      ELSE IF body.step # acc.counts[body.actor] + 1 THEN "STEP_ORDER"
      ELSE IF e.nonce = Malformed THEN "NONCE_FORMAT"
      ELSE IF e.nonce \in acc.nonces THEN "NONCE_REUSE"
      ELSE IF e.commitment # Commitment(body, e.nonce) THEN "COMMITMENT"
      ELSE IF body.binding # Binding(b.configSha, b.scentModelSha) THEN "STEP_BINDING"
      ELSE IF body.pre.position # acc.states[body.actor].position THEN "PRE_STATE"
      ELSE IF body.action \notin LegalActions(acc.states[body.actor]) THEN "ILLEGAL_ACTION"
      ELSE None

\* verify_sealed_step, and the pre-action state: the first failing check.
SealFailure(b, acc, k) ==
  LET e == b.steps[k]
      body == e.body
  IN  IF e.sequence # k THEN "STEP_ORDER"
      ELSE IF body.game # b.game THEN "FOREIGN_GAME"
      ELSE IF body.step # acc.counts[body.actor] + 1 THEN "STEP_ORDER"
      ELSE IF e.nonce = Malformed THEN "NONCE_FORMAT"
      ELSE IF e.nonce \in acc.nonces THEN "NONCE_REUSE"
      ELSE IF e.commitment # Commitment(body, e.nonce) THEN "COMMITMENT"
      ELSE IF body.binding # Binding(b.configSha, b.scentModelSha) THEN "STEP_BINDING"
      ELSE IF body.pre # acc.states[body.actor] THEN "PRE_STATE"
      ELSE IF body.action \notin LegalActions(acc.states[body.actor]) THEN "ILLEGAL_ACTION"
      ELSE None

\* Mutant: the step limits count the side that is behind.
ResolvedWhenBothActed(states, placed) ==
  LET behind == IF states["police"].step < states["thief"].step
                  THEN states["police"].step ELSE states["thief"].step
  IN  ResolveTerminal(states["police"].position, states["thief"].position,
                      states["police"].barriers, behind, placed, {})

\* resolved_terminal: the step limits count the side that is ahead.
ResolvedTerminal(states, placed) ==
  LET ahead == IF states["police"].step > states["thief"].step
                 THEN states["police"].step ELSE states["thief"].step
  IN  ResolveTerminal(states["police"].position, states["thief"].position,
                      states["police"].barriers, ahead, placed, {})

\* The two sides after the actor's step, which shares a barrier it placed.
Shared(states, state, events) ==
  LET moved == [states EXCEPT ![state.role] = state]
  IN  IF events = {} THEN moved
      ELSE [moved EXCEPT ![Opponent(state.role)].barriers = state.barriers]

\* The fields after the actor's step: they decay when both sides have acted.
ShownFields(fields, counts) ==
  IF counts["police"] = counts["thief"] THEN [r \in Roles |-> Decay(fields[r])]
  ELSE fields

Continued(acc, e, states, field, terminal, more) ==
  LET actor == e.body.actor
      counts == [acc.counts EXCEPT ![actor] = @ + 1]
  IN  [verified |-> acc.verified + 1, terminal |-> terminal,
       finding |-> IF terminal # None /\ more THEN "POST_TERMINAL" ELSE None,
       raised |-> FALSE, states |-> states, counts |-> counts,
       fields |-> ShownFields([acc.fields EXCEPT ![actor] = field], counts),
       nonces |-> acc.nonces \cup {e.nonce}]

Advance(acc, e, state, field, events, more) ==
  LET states == Shared(acc.states, state, events)
  IN  IF ~ValidState(states[Opponent(state.role)]) THEN [acc EXCEPT !.raised = TRUE]
      ELSE Continued(acc, e, states, field, ResolvedTerminal(states, events), more)

(***************************************************************************)
(* A verified step moves its actor, decays the scent when both sides have  *)
(* acted, and copies a new barrier to the other side.  That copy is        *)
(* outside the try of the loop: a state it makes invalid raises.           *)
(***************************************************************************)
ReplayAction(b, acc, k) ==
  LET body   == b.steps[k].body
      actor  == body.actor
      state  == Transition(acc.states[actor], body.action)
      field  == AfterAction(acc.fields[actor], state, body.action)
      events == PublicEvents(body.action)
  IN  IF Frame(field, state) # body.frame THEN [acc EXCEPT !.finding = "SCENT_FRAME"]
      ELSE IF body.effects # events THEN [acc EXCEPT !.finding = "PUBLIC_EFFECT"]
      ELSE Advance(acc, b.steps[k], state, field, events, k # Len(b.steps))

ReplayStep(b, acc, k) ==
  LET failure == SealFailure(b, acc, k)
  IN  IF acc.raised \/ acc.finding # None THEN acc
      ELSE IF failure # None THEN [acc EXCEPT !.finding = failure]
      ELSE ReplayAction(b, acc, k)

\* What has been replayed after each of the steps.
Replays(b) ==
  LET after[k \in 0 .. Len(b.steps)] ==
        IF k = 0 THEN ReplayStart ELSE ReplayStep(b, after[k - 1], k)
  IN  after

Replay(b) == Replays(b)[Len(b.steps)]

----------------------------------------------------------------------------
(* service.py and agreement.py *)

Report(b, status, replayed, terminal, points, findings) ==
  [status |-> status, verified |-> replayed.verified, expected |-> Len(b.steps),
   terminal |-> terminal, points |-> points, findings |-> findings,
   evidence |-> <<b.game, b.manifest.sha, b.journal>>]

NoPoints == [police |-> 0, thief |-> 0]

CaptureFindings(b, terminal) ==
  LET captured == terminal \in CaptureReasons
      Codes(capture) ==
        (IF CommitmentsAreValid(capture) THEN <<>> ELSE <<"CAPTURE_COMMITMENT">>)
        \o (IF capture.claim = captured /\ capture.response = captured
              THEN <<>> ELSE <<"FALSE_CAPTURE">>)
  IN  FlattenSeq([i \in DOMAIN b.capture |-> Codes(b.capture[i])])

ResultFindings(b, terminal) ==
  (IF terminal = b.terminal THEN <<>> ELSE <<"TERMINAL">>)
  \o (IF terminal # None /\ ScoreTerminal(terminal) = b.points THEN <<>> ELSE <<"SCORE">>)
  \o CaptureFindings(b, terminal)

Sanction(b, progress, findings) ==
  Report(b, Tampered, progress, "tamper", NoPoints, findings)

Verdict(b, preflight, replayed, result) ==
  IF preflight # <<>> THEN Sanction(b, ReplayStart, preflight)
  ELSE IF replayed.raised THEN Report(b, Raised, replayed, None, NoPoints, <<>>)
  ELSE IF replayed.finding # None THEN Sanction(b, replayed, <<replayed.finding>>)
  ELSE IF result # <<>> THEN Sanction(b, replayed, result)
  ELSE Report(b, VerifiedOK, replayed, replayed.terminal,
              ScoreTerminal(replayed.terminal), <<>>)

\* verify_sub_game: the first stage that finds something decides.
Audit(b) ==
  LET replayed == Replay(b)
  IN  Verdict(b, PreflightFindings(b), replayed, ResultFindings(b, replayed.terminal))

\* agree_audits: the status both peers report on, if they may report.
AgreeAudits(leftManifest, rightManifest, left, right) ==
  IF leftManifest # rightManifest \/ left # right THEN Rejected
  ELSE [status |-> left.status]

\* recompute_series: reports are [roles, report] in the order of the series.
RecomputeSeries(reports, a, b) ==
  IF \E i \in DOMAIN reports : reports[i].report.status # VerifiedOK THEN Rejected
  ELSE AggregateSeries(
         [i \in DOMAIN reports |->
            Outcome(i, reports[i].roles, reports[i].report.terminal)], a, b)

-----------------------------------------------------------------------------
(***************************************************************************)
(* The second, separate verifier of a sub-game: the replay application     *)
(* (services/replay) re-verifies the log artifact that the artifacts keep  *)
(* of it, one entry after the other, and stops at the first finding.       *)
(***************************************************************************)

\* SealedLogEntry of a reveal, as the artifact writer stores a step.
LogEntry(e) ==
  [sequence |-> e.sequence, step |-> e.body.step, phase |-> "reveal",
   actor |-> e.body.actor, commitment |-> e.commitment,
   body |-> e.body, nonce |-> e.nonce, heatmap |-> "normalized",
   auditStatus |-> "verified"]

ReplayLogOf(b) ==
  [game |-> b.game, configSha |-> b.configSha, terminal |-> b.terminal,
   entries |-> [i \in DOMAIN b.steps |-> LogEntry(b.steps[i])],
   auditStatus |-> "verified", journal |-> b.journal]

Failed(acc, code) ==
  [integrity |-> Tampered, verified |-> acc.verified, terminal |-> "tamper",
   points |-> NoPoints, finding |-> code]

LogPreflight(log, config) ==
  CASE config # log.configSha -> "CONFIG_DIGEST"
    [] log.auditStatus # "verified" -> "AUDIT_GATE"
    [] \E i \in DOMAIN log.entries : log.entries[i].auditStatus # "verified" -> "AUDIT_GATE"
    [] OTHER -> None

\* verify_step up to the transition: the first failing check.
EntryFailure(log, config, acc, entry) ==
  LET body == entry.body
  IN  CASE \/ body.game # log.game
           \/ entry.actor # body.actor
           \/ body.step # entry.step -> "STEP_IDENTITY"
        [] body.step # acc.counts[body.actor] + 1 -> "STEP_ORDER"
        [] entry.nonce = Malformed -> "NONCE_FORMAT"
        [] entry.nonce \in acc.nonces -> "NONCE_REUSE"
        [] entry.commitment # Commitment(body, entry.nonce) -> "COMMITMENT"
        [] body.binding # Binding(log.configSha, ScentModelDigest) -> "STEP_BINDING"
        [] body.pre # acc.states[body.actor] -> "PRE_STATE"
        [] body.action \notin LegalActions(acc.states[body.actor]) -> "ILLEGAL_ACTION"
        [] OTHER -> None

\* validate_heatmap: only the objective mode does without a belief.
HeatmapAccepted(heatmap, mode) ==
  heatmap = "normalized" \/ (mode = "objective" /\ heatmap = "empty")

ApplyEntry(acc, entry, mode) ==
  LET body   == entry.body
      actor  == body.actor
      state  == Transition(acc.states[actor], body.action)
      field  == AfterAction(acc.fields[actor], state, body.action)
      events == PublicEvents(body.action)
  IN  CASE Frame(field, state) # body.frame -> [acc EXCEPT !.finding = "SCENT_FRAME"]
        [] body.effects # events -> [acc EXCEPT !.finding = "PUBLIC_EFFECT"]
        [] ~HeatmapAccepted(entry.heatmap, mode) -> [acc EXCEPT !.finding = "BELIEF"]
        [] OTHER -> Advance(acc, entry, state, field, events, FALSE)

\* One round of the loop of verify_replay_log; other phases are skipped.
VerifyEntry(log, config, mode, acc, i) ==
  LET entry == log.entries[i]
      failure == EntryFailure(log, config, acc, entry)
  IN  CASE acc.raised \/ acc.finding # None -> acc
        [] entry.sequence # i -> [acc EXCEPT !.finding = "ENTRY_ORDER"]
        [] entry.phase # "reveal" -> acc
        [] acc.terminal # None -> [acc EXCEPT !.finding = "POST_TERMINAL"]
        [] failure # None -> [acc EXCEPT !.finding = failure]
        [] OTHER -> ApplyEntry(acc, entry, mode)

Replayed(log, config, mode) ==
  LET Step(acc, i) == VerifyEntry(log, config, mode, acc, i)
  IN  FoldLeftDomain(Step, ReplayStart, log.entries)

\* Mutant: the reported reason is not compared with the replayed one.
ReplayVerdictAnyEnd(log, preflight, end) ==
  CASE preflight # None -> Failed(ReplayStart, preflight)
    [] end.raised -> [Failed(end, None) EXCEPT !.integrity = Raised]
    [] end.finding # None -> Failed(end, end.finding)
    [] end.terminal = None -> Failed(end, "TERMINAL")
    [] OTHER -> [integrity |-> VerifiedOK, verified |-> end.verified,
                 terminal |-> end.terminal,
                 points |-> ScoreTerminal(end.terminal), finding |-> None]

ReplayVerdict(log, preflight, end) ==
  CASE preflight # None -> Failed(ReplayStart, preflight)
    [] end.raised -> [Failed(end, None) EXCEPT !.integrity = Raised]
    [] end.finding # None -> Failed(end, end.finding)
    [] end.terminal = None \/ end.terminal # log.terminal -> Failed(end, "TERMINAL")
    [] OTHER -> [integrity |-> VerifiedOK, verified |-> end.verified,
                 terminal |-> end.terminal,
                 points |-> ScoreTerminal(end.terminal), finding |-> None]

VerifyReplayLog(log, config, mode) ==
  ReplayVerdict(log, LogPreflight(log, config), Replayed(log, config, mode))

\* verify_dual_logs: the objective tracks of two linked logs.
DualVerdict(primary, sibling, left, right) ==
  LET Linkage(log) == <<log.game, log.configSha, log.journal>>
  IN  CASE Raised \in {left.integrity, right.integrity} ->
             [Failed(ReplayStart, None) EXCEPT !.integrity = Raised]
        [] left.integrity # VerifiedOK -> left
        [] right.integrity # VerifiedOK -> right
        [] Linkage(primary) # Linkage(sibling) -> Failed(ReplayStart, "SIBLING_LINKAGE")
        [] OTHER -> left

VerifyDualLogs(primary, sibling, config) ==
  DualVerdict(primary, sibling, VerifyReplayLog(primary, config, "objective"),
              VerifyReplayLog(sibling, config, "objective"))

============================================================================
