----------------------------- MODULE CommandLog -----------------------------
(***************************************************************************)
(* What docs/PROTOCOL.md sections 6 and 7 promise of a peer's inbound      *)
(* requests, with no crash, cache or receipt in sight: one durable log of  *)
(* applied requests, each applied once, in the sender's order and in a     *)
(* phase that allows it; and an OK answer only for an entry of that log,   *)
(* always with the response stored there.                                  *)
(***************************************************************************)
EXTENDS ProtocolPhases

CONSTANT Requests

VARIABLES
  log,      \* the durable responses, in the order they were applied
  answered  \* the pairs [to, response] handed to the network so far

LogPhase == IF log = <<>> THEN "NEGOTIATING" ELSE log[Len(log)].phase

LogInit == log = <<>> /\ answered = {}

Commit(r) ==
  /\ r.seq = Len(log) + 1
  /\ \A i \in DOMAIN log : log[i].request.mid # r.mid
  /\ PhaseAllows(LogPhase, r.tool)
  /\ log' = Append(log, ResponseTo(r, log))
  /\ UNCHANGED answered

Answer(i) ==
  /\ answered' = answered \cup {[to |-> log[i].request, response |-> log[i]]}
  /\ UNCHANGED log

LogNext == (\E r \in Requests : Commit(r)) \/ (\E i \in DOMAIN log : Answer(i))

LogSpec == LogInit /\ [][LogNext]_<<log, answered>>
=============================================================================
