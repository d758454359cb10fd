----------------------------- MODULE MCPeerLink -----------------------------
(***************************************************************************)
(* A whole session, from the proposal to the agreed result, over a wire    *)
(* that loses, repeats and delays.                                         *)
(***************************************************************************)
EXTENDS PeerLink

Call(seq, tool, payload) ==
  [mid |-> seq, from |-> "remote", scheduled |-> TRUE, seq |-> seq,
   tool |-> tool, payload |-> payload]

SessionScript ==
  <<Call(1, "propose_match", "terms"), Call(2, "accept_match", "terms"),
    Call(3, "commit_step", "plain"), Call(4, "acknowledge_step", "plain"),
    Call(5, "reveal_step", "ends"), Call(6, "final_reveal", "plain"),
    Call(7, "audit_result", "plain"), Call(8, "agree_result", "plain")>>

ScriptRequests == {SessionScript[i] : i \in DOMAIN SessionScript}
=============================================================================
