--------------------------- MODULE ProtocolPhases ---------------------------
(***************************************************************************)
(* The phase policy of services/protocol/phases.py: which mutating tool a  *)
(* peer accepts in which phase, and the phase one accepted call leads to.  *)
(* Tool names drop their "_v1" suffix.                                     *)
(*                                                                         *)
(* A request is a parsed envelope, a record with the fields                *)
(*   mid        message_id                                                 *)
(*   from       sender.group_id                                            *)
(*   scheduled  does sender.role agree with the negotiated schedule?       *)
(*   seq        sequence                                                   *)
(*   tool       message_type                                               *)
(*   payload    the proposal (or the digest of one) for propose_match and  *)
(*              accept_match; "ends" for a reveal that carries a           *)
(*              terminal_reason and for a capture_response that is         *)
(*              accepted; any other value otherwise.                       *)
(***************************************************************************)
EXTENDS Integers, Sequences

TerminalPhases == {"COMPLETED", "TECHNICAL", "TAMPER", "STOPPED"}

Phases == TerminalPhases \cup
  {"NEGOTIATING", "READY", "AWAITING_ACK", "REVEALING", "WAITING",
   "VERIFYING", "AUDITING", "AGREEING_RESULT", "REPORTING"}

Allowed ==
  [propose_match    |-> {"NEGOTIATING"},
   accept_match     |-> {"NEGOTIATING"},
   commit_step      |-> {"READY", "WAITING"},
   acknowledge_step |-> {"AWAITING_ACK"},
   reveal_step      |-> {"REVEALING"},
   capture_claim    |-> {"WAITING"},
   capture_response |-> {"VERIFYING"},
   final_reveal     |-> {"AUDITING"},
   audit_result     |-> {"AGREEING_RESULT"},
   agree_result     |-> {"REPORTING"}]

MutatingTools == DOMAIN Allowed

\* require_phase: a mutating tool, in a phase that lists it.
PhaseAllows(phase, tool) == tool \in MutatingTools /\ phase \in Allowed[tool]

EndsGame(r) ==
  r.tool \in {"reveal_step", "capture_response"} /\ r.payload = "ends"

\* next_phase
NextPhase(r) ==
  CASE EndsGame(r)                   -> "AUDITING"
    [] r.tool = "propose_match"      -> "NEGOTIATING"
    [] r.tool = "accept_match"       -> "READY"
    [] r.tool = "commit_step"        -> "AWAITING_ACK"
    [] r.tool = "acknowledge_step"   -> "REVEALING"
    [] r.tool = "capture_claim"      -> "VERIFYING"
    [] r.tool = "final_reveal"       -> "AGREEING_RESULT"
    [] r.tool = "audit_result"       -> "REPORTING"
    [] r.tool = "agree_result"       -> "COMPLETED"
    [] OTHER                         -> "WAITING"

-----------------------------------------------------------------------------
\* apply numbers the effects of every mutating tool but the two that negotiate.
EventNumber(r, effects) ==
  IF r.tool \in {"propose_match", "accept_match"} THEN 0 ELSE Len(effects) + 1

\* The response of apply. Its correlation_id names the request it answers.
ResponseTo(r, effects) ==
  [request |-> r, phase |-> NextPhase(r), event |-> EventNumber(r, effects)]
=============================================================================
