--------------------------- MODULE MCPeerProtocol ---------------------------
(***************************************************************************)
(* One game of the police and thief peers, as envelopes: the eight tools   *)
(* of a sub-game that ends by a reveal, the branch through a rejected or   *)
(* accepted capture, and the requests that must not get through: wrong     *)
(* terms, a message ID with other bytes, a second ID for a used sequence,  *)
(* a stranger, a wrong role, another proposal.                             *)
(***************************************************************************)
EXTENDS PeerProtocol

Envelope(mid, seq, tool, payload) ==
  [mid |-> mid, from |-> "remote", scheduled |-> TRUE, seq |-> seq,
   tool |-> tool, payload |-> payload]

HonestRequests ==
  {Envelope("m1", 1, "propose_match", "terms"),
   Envelope("m2", 2, "accept_match", "terms"),
   Envelope("m3", 3, "commit_step", "plain"),
   Envelope("m4", 4, "acknowledge_step", "plain"),
   Envelope("m5", 5, "reveal_step", "continues"),
   Envelope("m5e", 5, "reveal_step", "ends"),
   Envelope("m6", 6, "capture_claim", "plain"),
   Envelope("m6f", 6, "final_reveal", "plain"),
   Envelope("m7", 7, "capture_response", "ends"),
   Envelope("m7a", 7, "audit_result", "plain"),
   Envelope("m7c", 7, "commit_step", "plain"),
   Envelope("m7r", 7, "capture_response", "continues"),
   Envelope("m8", 8, "agree_result", "plain")}

OtherRequests ==
  {Envelope("m2", 2, "accept_match", "changed"),
   Envelope("m2w", 2, "accept_match", "changed"),
   Envelope("m1d", 2, "propose_match", "terms"),
   Envelope("m1x", 1, "propose_match", "other"),
   Envelope("m9", 2, "peer_status", "plain"),
   [Envelope("s1", 1, "propose_match", "terms") EXCEPT !.from = "local"],
   [Envelope("s2", 2, "accept_match", "terms") EXCEPT !.from = "stranger"],
   [Envelope("s3", 2, "accept_match", "terms") EXCEPT !.scheduled = FALSE]}

AllRequests == HonestRequests \cup OtherRequests
=============================================================================
