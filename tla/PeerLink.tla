------------------------------ MODULE PeerLink ------------------------------
(***************************************************************************)
(* The other peer's outbound side (McpClientAdapter over InitialGatekeeper,*)
(* shared/gatekeeper.py) joined to the inbound pipeline of PeerProtocol.   *)
(* The sender plays a script of requests in order. It repeats the identical*)
(* envelope until it has an OK answer: the Gatekeeper within one deadline, *)
(* and after that the caller (docs/PROTOCOL.md section 7, "senders retry   *)
(* only the missing stable request"). Attempts that timed out stay on the  *)
(* wire, so the server may see them late, again, or after the next request.*)
(***************************************************************************)
EXTENDS PeerProtocol

CONSTANT Script  \* the sender's requests, in sequence

ASSUME ScriptAssumption ==
  /\ Script \in Seq(Requests)
  /\ \A i \in DOMAIN Script : Script[i].seq = i

VARIABLES
  position,  \* the request of the script being called
  wire       \* attempts under way to the server, timed out or not

linkVars == <<vars, position, wire>>

LinkInit == Init /\ position = 1 /\ wire = {}

Calling == position \in DOMAIN Script

\* One attempt of InitialGatekeeper.execute: the call object is never rewritten.
Attempt ==
  /\ Calling
  /\ wire' = wire \cup {Script[position]}
  /\ UNCHANGED <<vars, position>>

\* An attempt reaches the server; a copy may still be under way.
Arrive(r) ==
  /\ r \in wire
  /\ Deliver(r) \/ Propose(r)
  /\ wire' \in {wire, wire \ {r}}
  /\ UNCHANGED position

Lose(r) ==
  /\ r \in wire
  /\ wire' = wire \ {r}
  /\ UNCHANGED <<vars, position>>

\* An OK answer for the current request, whichever attempt it answers.
Answered ==
  /\ Calling
  /\ \E a \in acked : a.to = Script[position]
  /\ position' = position + 1
  /\ UNCHANGED <<vars, wire>>

Server == (Pipeline \/ SaveFails \/ Crash \/ Evict) /\ UNCHANGED <<position, wire>>

LinkNext ==
  \/ Attempt
  \/ \E r \in Requests : Arrive(r) \/ Lose(r)
  \/ Answered
  \/ Server

\* The event loop runs every handler it started to its end, a caller keeps
\* retrying, and an attempt retried for ever arrives in the end.
LinkFairness ==
  /\ WF_linkVars(Pipeline /\ UNCHANGED <<position, wire>>)
  /\ WF_linkVars(Attempt)
  /\ WF_linkVars(Answered)
  /\ \A i \in DOMAIN Script :
       SF_linkVars(position = i /\ Arrive(Script[i]))

LinkSpec == LinkInit /\ [][LinkNext]_linkVars /\ LinkFairness

-----------------------------------------------------------------------------
\* Whatever finitely many crashes, failed saves, lost and repeated attempts
\* there are, the whole script is applied and answered in the end: no crash
\* point leaves a receipt, a sequence number or a phase that wedges the session.
ScriptCompletes == <>(position > Len(Script) /\ Len(EffectLog) = Len(Script))

=============================================================================
