----------------------------- MODULE LiveSeries -----------------------------
(***************************************************************************)
(* Two live peers of adapters/amireman playing a series against each other *)
(* over the pushed-turn wire: run_series (series.py), SubGameRuntime and   *)
(* its audit mixin (runtime.py, runtime_audit.py), SubEngine (engine.py),  *)
(* McpTransport (client.py) and the mailboxes its server tools fill        *)
(* (server.py, queues.py).                                                 *)
(*                                                                         *)
(* Each peer is a process of its own. A push is retried until the other    *)
(* side's server has answered.  An attempt given up at its deadline may    *)
(* still reach the server, at once, much later, or never: the copy is then *)
(* on its way while both peers play on.  Turns carry no sub-game number on *)
(* the wire: the field game of a turn is there for the properties and for  *)
(* the commitment only, which is <<game, step>> (nonces make commitments   *)
(* distinct).                                                              *)
(*                                                                         *)
(* The board is abstract: whether a claim finds the Thief, and whether the *)
(* Thief is enclosed after the Police's turn, is a choice. A Thief that    *)
(* has just moved is not enclosed, for the cell it left is free.           *)
(***************************************************************************)
EXTENDS Integers, FiniteSets, SequencesExt

CONSTANTS
  Window,       \* how far ahead of the next step a turn is still kept
  Peers,        \* the two peers
  Natural,      \* the peer whose natural role is police
  Games,        \* number of sub-games in the series
  Threshold,    \* terms["max_steps"]
  Duplicable,   \* the mailboxes to which an attempt may be repeated
  MaxDuplicates,
  MaxTimeouts,  \* bound on timers that expire with the opponent still running
  MaxCrashes,
  None

ASSUME WindowAssumption == Window \in Nat

ASSUME SeriesAssumption ==
  /\ IsFiniteSet(Peers) /\ Cardinality(Peers) = 2 /\ Natural \in Peers
  /\ Games \in Nat \ {0} /\ Threshold \in Nat \ {0}
  /\ Duplicable \subseteq {"agreements", "turns", "audits"}
  /\ MaxDuplicates \in Nat /\ MaxTimeouts \in Nat /\ MaxCrashes \in Nat

Outcomes == {"capture", "survival", "timeout", "technical_loss"}

\* None is no outcome, and no digest of a whole series.
ASSUME NoneAssumption ==
  None \notin Outcomes /\ None \notin [1..Games -> Outcomes]

-----------------------------------------------------------------------------
(***************************************************************************)
(* delivery.py: the reorder buffer between the mailbox of pushed turns and *)
(* the sub-game, keyed on the step and the commitment.  A message has at   *)
(* least the fields step and commit; played and buffered are functions on  *)
(* the steps they know.                                                    *)
(***************************************************************************)

EmptyInbox == [next |-> 1, played |-> <<>>, buffered |-> <<>>]

Seen(inbox, msg) == msg.step \in DOMAIN inbox.played

\* Mutant of Equivocates: the commitment of a repeated step is not compared.
Repeats(inbox, msg) == Seen(inbox, msg)

\* The decisions of delivery_decision, in its order.
Absorbs(inbox, msg)    == Seen(inbox, msg) /\ inbox.played[msg.step] = msg.commit
Equivocates(inbox, msg) == Seen(inbox, msg) /\ inbox.played[msg.step] # msg.commit
Applies(inbox, msg)    == ~Seen(inbox, msg) /\ msg.step = inbox.next
Buffers(inbox, msg) ==
  ~Seen(inbox, msg) /\ msg.step > inbox.next /\ msg.step - inbox.next <= Window
Violates(inbox, msg) == msg.step - inbox.next > Window /\ ~Seen(inbox, msg)

Rejects(inbox, msg) == Equivocates(inbox, msg) \/ Violates(inbox, msg)

\* The steps an applied message releases: its own and the run buffered behind it.
Run(inbox, step) ==
  {s \in {step} \cup DOMAIN inbox.buffered :
     step <= s /\ (step + 1)..s \subseteq DOMAIN inbox.buffered}

\* What Inbox.offer returns for a message it does not reject ...
Ready(inbox, msg) ==
  IF Applies(inbox, msg)
  THEN [i \in 1..Cardinality(Run(inbox, msg.step)) |->
          IF i = 1 THEN msg ELSE inbox.buffered[msg.step + i - 1]]
  ELSE <<>>

\* ... and the inbox it leaves.
Offered(inbox, msg) ==
  CASE Applies(inbox, msg) ->
         LET run == Run(inbox, msg.step)
             ready == Ready(inbox, msg)
         IN [next     |-> msg.step + Len(ready),
             played   |-> [s \in DOMAIN inbox.played \cup run |->
                             IF s \in run THEN ready[s - msg.step + 1].commit
                                          ELSE inbox.played[s]],
             buffered |-> Restrict(inbox.buffered, DOMAIN inbox.buffered \ run)]
    [] Buffers(inbox, msg) ->
         [inbox EXCEPT !.buffered =
            [s \in DOMAIN @ \cup {msg.step} |-> IF s = msg.step THEN msg ELSE @[s]]]
    [] OTHER -> inbox

-----------------------------------------------------------------------------
VARIABLES
  game,      \* n of run_series
  pc,        \* where run_series is
  step,      \* engine.step
  inbox,     \* the reorder buffer
  ready,     \* messages offered and not processed yet
  result,    \* outcome of the running sub-game, or None
  heard,     \* _peer_audit: the claim of an audit absorbed early, or None
  reports,   \* the summaries: outcome, and what the audit said
  peerSha,   \* the opponent's consensus digest, or None
  mail,      \* the three mailboxes of each peer, and the copies still on their way
  faults,    \* history: what went wrong so far, and the games a foreign turn got into
  conceded,  \* history: games in which the Thief was caught or enclosed
  survived   \* history: games in which the Thief reached the threshold

vars == <<game, pc, step, inbox, ready, result, heard, reports, peerSha,
          mail, faults, conceded, survived>>

Opponent(p) == CHOOSE q \in Peers : q # p

\* role_for
Role(p, n) == IF (p = Natural) = (n % 2 = 1) THEN "police" ELSE "thief"

Running(p) == pc[p] \notin {"done", "aborted", "crashed"}

\* A finished peer's server lingers; one that failed is gone.
Reachable(p) == pc[p] \notin {"aborted", "crashed"}

Init ==
  /\ game = [p \in Peers |-> 1]
  /\ pc = [p \in Peers |-> "greet"]
  /\ step = [p \in Peers |-> 0]
  /\ inbox = [p \in Peers |-> EmptyInbox]
  /\ ready = [p \in Peers |-> <<>>]
  /\ result = [p \in Peers |-> None]
  /\ heard = [p \in Peers |-> None]
  /\ reports = [p \in Peers |-> <<>>]
  /\ peerSha = [p \in Peers |-> None]
  /\ mail = [p \in Peers |->
               [agreements |-> <<>>, turns |-> <<>>, audits |-> <<>>, late |-> {}]]
  /\ faults = [duplicates |-> 0, overtaken |-> 0, timeouts |-> 0, crashes |-> 0,
               strays |-> {}]
  /\ conceded = {}
  /\ survived = {}

-----------------------------------------------------------------------------
(* Pushes. *)

\* A turn that reaches a peer while it is in another sub-game than the sender was.
Foreign(q, box, msg) == box = "turns" /\ msg.game # game[q]

Strays(q, box, msg) ==
  IF Foreign(q, box, msg) THEN faults.strays \cup {game[q]} ELSE faults.strays

\* _call_with_retry: the answered attempt put the message into the mailbox, and one
\* that was given up may have left a copy on its way.
Push(q, box, msg) ==
  \/ /\ mail' = [mail EXCEPT ![q][box] = Append(@, msg)]
     /\ faults' = [faults EXCEPT !.strays = Strays(q, box, msg)]
  \/ /\ box \in Duplicable /\ faults.duplicates < MaxDuplicates
     /\ mail' = [mail EXCEPT ![q][box] = Append(@, msg),
                             ![q].late = @ \cup {[box |-> box, msg |-> msg]}]
     /\ faults' = [faults EXCEPT !.strays = Strays(q, box, msg), !.duplicates = @ + 1]

\* The server answers an attempt that its client has long given up.
Land(q) ==
  /\ Reachable(q)
  /\ \E copy \in mail[q].late :
       /\ mail' = [mail EXCEPT ![q][copy.box] = Append(@, copy.msg),
                               ![q].late = @ \ {copy}]
       /\ faults' = [faults EXCEPT
            !.strays = Strays(q, copy.box, copy.msg),
            !.overtaken = IF Foreign(q, copy.box, copy.msg) THEN @ + 1 ELSE @]
  /\ UNCHANGED <<game, pc, step, inbox, ready, result, heard, reports, peerSha,
                 conceded, survived>>

\* Mutant: no wait has a deadline once the opponent is gone.
ExpiresOnTheLiving(p) ==
  /\ Running(Opponent(p)) /\ faults.timeouts < MaxTimeouts
  /\ faults' = [faults EXCEPT !.timeouts = @ + 1]

\* A timer runs out: always on a peer that is gone, and otherwise, on one that
\* is only slow, up to the bound.
Expires(p) ==
  LET q == Opponent(p) IN
  \/ ~Running(q) /\ UNCHANGED faults
  \/ /\ Running(q) /\ faults.timeouts < MaxTimeouts
     /\ faults' = [faults EXCEPT !.timeouts = @ + 1]

-----------------------------------------------------------------------------
(* Turns. *)

\* claims: a capture_claim, in every acted Police turn; caught: its
\* claim_response; win: the win_claim.
Turn(p, k, claims, caught, win) ==
  [game |-> game[p], step |-> k, commit |-> <<game[p], k>>,
   claims |-> claims, caught |-> caught, win |-> win]

\* send_turn: an unreachable opponent raises out of run_series.
SendTurn(p, msg) ==
  LET q == Opponent(p) IN
  \/ /\ Reachable(q)
     /\ Push(q, "turns", msg)
     /\ pc' = [pc EXCEPT ![p] = "play"]
  \/ /\ ~Reachable(q)
     /\ pc' = [pc EXCEPT ![p] = "aborted"]
     /\ UNCHANGED <<mail, faults>>

Survives(p) == step[p] + 1 >= Threshold

\* SubGameRuntime._take_turn: act, push, and close the game at the threshold.
TakeTurn(p) ==
  /\ step' = [step EXCEPT ![p] = @ + 1]
  /\ SendTurn(p, Turn(p, step[p] + 1, Role(p, game[p]) = "police", FALSE,
                      IF Survives(p) THEN "survival" ELSE "none"))
  /\ result' = [result EXCEPT ![p] = IF Survives(p) THEN "survival" ELSE None]
  /\ survived' = IF Survives(p) THEN survived \cup {game[p]} ELSE survived
  /\ UNCHANGED conceded

\* concede and report_enclosure: one last sealed hold, and the capture stands.
Hold(p, caught, win) ==
  /\ step' = [step EXCEPT ![p] = @ + 1]
  /\ SendTurn(p, Turn(p, step[p] + 1, FALSE, caught, win))
  /\ result' = [result EXCEPT ![p] = "capture"]
  /\ conceded' = IF caught \/ win = "capture" THEN conceded \cup {game[p]} ELSE conceded
  /\ UNCHANGED survived

Finds(p, outcome) ==
  /\ result' = [result EXCEPT ![p] = outcome]
  /\ UNCHANGED <<pc, step, mail, faults, conceded, survived>>

PoliceReceives(p, msg) ==
  \/ (msg.caught \/ msg.win = "capture") /\ Finds(p, "capture")
  \/ ~msg.caught /\ msg.win = "survival" /\ Finds(p, "survival")
  \/ ~msg.caught /\ msg.win = "none" /\ TakeTurn(p)

ThiefReceives(p, msg) ==
  \/ msg.win = "survival" /\ Finds(p, "survival")
  \/ msg.win = "capture" /\ Hold(p, FALSE, "none")
  \/ msg.win = "none" /\ msg.claims /\ Hold(p, TRUE, "none")
  \/ msg.win = "none" /\ msg.claims /\ Hold(p, FALSE, "capture")
  \/ msg.win = "none" /\ TakeTurn(p)

\* SubEngine.receive and SubGameRuntime._process on the next ready message; the
\* others are dropped once there is a result.
Process(p) ==
  /\ pc[p] = "play" /\ ready[p] # <<>>
  /\ \/ Role(p, game[p]) = "police" /\ PoliceReceives(p, Head(ready[p]))
     \/ Role(p, game[p]) = "thief" /\ ThiefReceives(p, Head(ready[p]))
  /\ ready' = [ready EXCEPT ![p] = IF result'[p] = None THEN Tail(@) ELSE <<>>]
  /\ UNCHANGED <<game, inbox, heard, reports, peerSha>>

-----------------------------------------------------------------------------
(* Greetings: Negotiator.signed, exchange_agreement, verify_peer. Both peers *)
(* hold the same terms. A greeting names its sub-game, and nobody compares it. *)

Greet(p) ==
  LET q == Opponent(p) IN
  /\ pc[p] = "greet"
  /\ \/ /\ Reachable(q)
        /\ Push(q, "agreements", game[p])
        /\ pc' = [pc EXCEPT ![p] = "meet"]
     \/ /\ ~Reachable(q)
        /\ pc' = [pc EXCEPT ![p] = "aborted"]
        /\ UNCHANGED <<mail, faults>>
  /\ UNCHANGED <<game, step, inbox, ready, result, heard, reports, peerSha,
                 conceded, survived>>

\* The first greeting in the mailbox starts a fresh SubGameRuntime.
Meet(p) ==
  /\ pc[p] = "meet" /\ mail[p].agreements # <<>>
  /\ mail' = [mail EXCEPT ![p].agreements = Tail(@)]
  /\ pc' = [pc EXCEPT ![p] = IF Role(p, game[p]) = "thief" THEN "open" ELSE "play"]
  /\ step' = [step EXCEPT ![p] = 0]
  /\ inbox' = [inbox EXCEPT ![p] = EmptyInbox]
  /\ result' = [result EXCEPT ![p] = None]
  /\ heard' = [heard EXCEPT ![p] = None]
  /\ UNCHANGED <<game, ready, reports, peerSha, faults, conceded, survived>>

MeetTimeout(p) ==
  /\ pc[p] = "meet" /\ mail[p].agreements = <<>>
  /\ Expires(p)
  /\ pc' = [pc EXCEPT ![p] = "aborted"]
  /\ UNCHANGED <<game, step, inbox, ready, result, heard, reports, peerSha, mail,
                 conceded, survived>>

\* The Thief moves first.
Open(p) ==
  /\ pc[p] = "open"
  /\ TakeTurn(p)
  /\ UNCHANGED <<game, inbox, ready, heard, reports, peerSha>>

-----------------------------------------------------------------------------
(* The loop of SubGameRuntime.run. *)

Audit(n, claim) == [kind |-> "audit", game |-> n, claim |-> claim]
Consensus(sha)  == [kind |-> "consensus", sha |-> sha]

\* Mutant: any sub-game's audit is taken for this one's.
AnyAuditAt(p) == SelectInSeq(mail[p].audits, LAMBDA a : a.kind = "audit")

\* The place of the first audit of the running game in the mailbox, or 0.
AuditAt(p) ==
  SelectInSeq(mail[p].audits, LAMBDA a : a.kind = "audit" /\ a.game = game[p])

\* _absorb_audits: everything up to the first audit of this game is popped.
AbsorbedMail(p) ==
  IF AuditAt(p) = 0 THEN <<>>
  ELSE SubSeq(mail[p].audits, AuditAt(p) + 1, Len(mail[p].audits))

AbsorbedClaim(p) == mail[p].audits[AuditAt(p)].claim

\* deferred_consensus: a digest popped while looking for an audit is kept.
Deferred(p, popped) ==
  IF \E i \in DOMAIN popped : popped[i].kind = "consensus"
  THEN (CHOOSE a \in ToSet(popped) : a.kind = "consensus").sha
  ELSE peerSha[p]

\* _apply_peer_audit adopts the claim; the turn polled with it is dropped.
Adopt(p) ==
  /\ AuditAt(p) # 0
  /\ result' = [result EXCEPT ![p] = AbsorbedClaim(p)]
  /\ heard' = [heard EXCEPT ![p] = AbsorbedClaim(p)]
  /\ UNCHANGED <<inbox, ready>>

Offer(p, msg) ==
  /\ AuditAt(p) = 0
  /\ \/ /\ Rejects(inbox[p], msg)
        /\ result' = [result EXCEPT ![p] = "technical_loss"]
        /\ UNCHANGED <<inbox, ready>>
     \/ /\ ~Rejects(inbox[p], msg)
        /\ inbox' = [inbox EXCEPT ![p] = Offered(@, msg)]
        /\ ready' = [ready EXCEPT ![p] = Ready(inbox[p], msg)]
        /\ UNCHANGED result
  /\ UNCHANGED heard

Waiting(p) == pc[p] = "play" /\ result[p] = None /\ ready[p] = <<>>

AfterAbsorb(p, turnsLeft) ==
  /\ mail' = [mail EXCEPT ![p] = [@ EXCEPT !.audits = AbsorbedMail(p), !.turns = turnsLeft]]
  /\ peerSha' = [peerSha EXCEPT ![p] = Deferred(p, mail[p].audits)]
  /\ UNCHANGED <<game, pc, step, reports, conceded, survived>>

PollTurn(p) ==
  /\ Waiting(p) /\ mail[p].turns # <<>>
  /\ Adopt(p) \/ Offer(p, Head(mail[p].turns))
  /\ AfterAbsorb(p, Tail(mail[p].turns))
  /\ UNCHANGED faults

\* poll_turn came back empty, perhaps just before a turn arrived.
PollNothing(p) ==
  /\ Waiting(p) /\ mail[p].audits # <<>>
  /\ \/ Adopt(p)
     \/ AuditAt(p) = 0 /\ UNCHANGED <<inbox, ready, result, heard>>
  /\ AfterAbsorb(p, mail[p].turns)
  /\ UNCHANGED faults

TurnTimeout(p) ==
  /\ Waiting(p) /\ mail[p].turns = <<>> /\ mail[p].audits = <<>>
  /\ Expires(p)
  /\ result' = [result EXCEPT ![p] = "timeout"]
  /\ UNCHANGED <<game, pc, step, inbox, ready, heard, reports, peerSha, mail,
                 conceded, survived>>

-----------------------------------------------------------------------------
(* SubGameRuntime._finish and the end of run_series. *)

\* _exchange_audit pushes ours; a dead opponent is ignored.
SendAudit(p, payload, next) ==
  LET q == Opponent(p) IN
  /\ \/ Reachable(q) /\ Push(q, "audits", payload)
     \/ ~Reachable(q) /\ UNCHANGED <<mail, faults>>
  /\ pc' = [pc EXCEPT ![p] = next]
  /\ UNCHANGED <<game, step, inbox, ready, result, heard, reports, peerSha,
                 conceded, survived>>

Close(p) ==
  /\ pc[p] = "play" /\ result[p] # None
  /\ SendAudit(p, Audit(game[p], result[p]), "audit")

\* Mutant: hearing an audit at all counts as agreement.
ReportHeardAsAgreed(p, claim) ==
  /\ reports' = [reports EXCEPT ![p] =
       Append(@, [outcome |-> result[p], agreed |-> claim # None])]
  /\ IF game[p] < Games
     THEN /\ game' = [game EXCEPT ![p] = @ + 1]
          /\ pc' = [pc EXCEPT ![p] = "greet"]
     ELSE /\ pc' = [pc EXCEPT ![p] = "settle"]
          /\ UNCHANGED game
  /\ UNCHANGED <<step, inbox, ready, result, heard, conceded, survived>>

\* The summary of the game. The leftover turns are drained.
Report(p, claim) ==
  /\ reports' = [reports EXCEPT ![p] =
       Append(@, [outcome |-> result[p], agreed |-> claim = result[p]])]
  /\ IF game[p] < Games
     THEN /\ game' = [game EXCEPT ![p] = @ + 1]
          /\ pc' = [pc EXCEPT ![p] = "greet"]
     ELSE /\ pc' = [pc EXCEPT ![p] = "settle"]
          /\ UNCHANGED game
  /\ UNCHANGED <<step, inbox, ready, result, heard, conceded, survived>>

HearEarlier(p) ==
  /\ pc[p] = "audit" /\ heard[p] # None
  /\ mail' = [mail EXCEPT ![p].turns = <<>>]
  /\ Report(p, heard[p])
  /\ UNCHANGED <<peerSha, faults>>

HearAudit(p) ==
  /\ pc[p] = "audit" /\ heard[p] = None /\ AuditAt(p) # 0
  /\ mail' = [mail EXCEPT ![p] = [@ EXCEPT !.audits = AbsorbedMail(p), !.turns = <<>>]]
  /\ peerSha' = [peerSha EXCEPT ![p] = Deferred(p, SubSeq(mail[p].audits, 1, AuditAt(p)))]
  /\ Report(p, AbsorbedClaim(p))
  /\ UNCHANGED faults

AuditTimeout(p) ==
  /\ pc[p] = "audit" /\ heard[p] = None /\ AuditAt(p) = 0
  /\ Expires(p)
  /\ mail' = [mail EXCEPT ![p] = [@ EXCEPT !.audits = <<>>, !.turns = <<>>]]
  /\ peerSha' = [peerSha EXCEPT ![p] = Deferred(p, mail[p].audits)]
  /\ Report(p, None)

\* Mutant: the digest covers the last sub-game only.
ShaOfLast(p) == reports[p][Len(reports[p])].outcome

\* settlement_sha over the canonical rows: injective in the outcomes.
Sha(p) == [n \in DOMAIN reports[p] |-> reports[p][n].outcome]

Settle(p) ==
  /\ pc[p] = "settle"
  /\ SendAudit(p, Consensus(Sha(p)), "settling")

ConsensusAt(p) == SelectInSeq(mail[p].audits, LAMBDA a : a.kind = "consensus")

\* exchange_consensus takes a deferred digest before it reads the mailbox.
TakeConsensus(p) ==
  /\ pc[p] = "settling"
  /\ \/ peerSha[p] # None /\ UNCHANGED <<peerSha, mail>>
     \/ /\ peerSha[p] = None /\ ConsensusAt(p) # 0
        /\ peerSha' = [peerSha EXCEPT ![p] = mail[p].audits[ConsensusAt(p)].sha]
        /\ mail' = [mail EXCEPT ![p].audits = SubSeq(@, ConsensusAt(p) + 1, Len(@))]
  /\ pc' = [pc EXCEPT ![p] = "done"]
  /\ UNCHANGED <<game, step, inbox, ready, result, heard, reports, faults,
                 conceded, survived>>

ConsensusTimeout(p) ==
  /\ pc[p] = "settling" /\ peerSha[p] = None /\ ConsensusAt(p) = 0
  /\ Expires(p)
  /\ pc' = [pc EXCEPT ![p] = "done"]
  /\ UNCHANGED <<game, step, inbox, ready, result, heard, reports, peerSha, mail,
                 conceded, survived>>

-----------------------------------------------------------------------------
Crash(p) ==
  /\ Running(p) /\ faults.crashes < MaxCrashes
  /\ pc' = [pc EXCEPT ![p] = "crashed"]
  /\ faults' = [faults EXCEPT !.crashes = @ + 1]
  /\ UNCHANGED <<game, step, inbox, ready, result, heard, reports, peerSha, mail,
                 conceded, survived>>

Timers(p) == MeetTimeout(p) \/ TurnTimeout(p) \/ AuditTimeout(p) \/ ConsensusTimeout(p)

Work(p) ==
  \/ Greet(p) \/ Meet(p) \/ Open(p)
  \/ PollTurn(p) \/ PollNothing(p) \/ Process(p)
  \/ Close(p) \/ HearEarlier(p) \/ HearAudit(p)
  \/ Settle(p) \/ TakeConsensus(p)

Next == \E p \in Peers : Work(p) \/ Timers(p) \/ Crash(p) \/ Land(p)

\* Each peer is a running thread, and every wait of it has a deadline.
Fairness ==
  \A p \in Peers : WF_vars(Work(p)) /\ WF_vars(Timers(p))

Spec == Init /\ [][Next]_vars /\ Fairness

-----------------------------------------------------------------------------
(* Correctness. *)

Faultless == faults.timeouts = 0 /\ faults.crashes = 0 /\ faults.overtaken = 0

Reported(p) == DOMAIN reports[p]

\* The state has its types: no half seals more than max_steps actions, not even
\* with the closing hold, and the inbox has played only steps below its next one.
TypeOK ==
  /\ game \in [Peers -> 1..Games]
  /\ pc \in [Peers -> {"greet", "meet", "open", "play", "audit", "settle",
                       "settling", "done", "aborted", "crashed"}]
  /\ step \in [Peers -> 0..Threshold]
  /\ result \in [Peers -> Outcomes \cup {None}]
  /\ heard \in [Peers -> Outcomes \cup {None}]
  /\ \A p \in Peers :
       /\ reports[p] \in Seq([outcome : Outcomes, agreed : BOOLEAN])
       /\ Len(reports[p]) <= Games
       /\ DOMAIN inbox[p].played \subseteq 1..(inbox[p].next - 1)

\* result_agreed is sound: a peer that reports an agreed sub-game has the
\* outcome its opponent has, whatever was duplicated, timed out or adopted.
AgreedMeansSameOutcome ==
  \A p, q \in Peers : \A n \in Reported(p) \cap Reported(q) :
    reports[p][n].agreed => reports[p][n].outcome = reports[q][n].outcome

\* One timer at most expired on a living opponent, and no turn was overtaken by its
\* receiver: no copy of it landed after the receiver had gone on to another sub-game.
Steady == faults.timeouts <= 1 /\ faults.overtaken = 0

\* A turn gets into another sub-game than its own only if a copy of it was on its
\* way while its sub-game was closed, or if two timers expired on a living opponent:
\* the greetings and the drain keep every other turn in its sub-game.
StraysHaveCause == Steady => faults.strays = {}

\* A peer that runs this code is convicted of equivocation or of leaving the reorder
\* window only in a sub-game that a foreign turn got into (delivery.py, runtime.py:143).
HonestPeerNotConvicted ==
  /\ StraysHaveCause
  /\ \A p \in Peers : \A n \in Reported(p) :
       reports[p][n].outcome = "technical_loss" => n \in faults.strays

\* What delivery.py promises: the push is repeated, the delivery is exactly once,
\* and so a repeated push convicts nobody.
HonestPeerNeverConvicted ==
  \A p \in Peers : \A n \in Reported(p) : reports[p][n].outcome # "technical_loss"

\* A capture is reported only for a game in which the Thief was caught or enclosed,
\* a survival only for one in which the Thief reached the threshold: but for a game
\* that a foreign turn got into, which may have carried the end of the one before.
OutcomesHappened ==
  \A p \in Peers : \A n \in Reported(p) \ faults.strays :
    /\ reports[p][n].outcome = "capture" => n \in conceded
    /\ reports[p][n].outcome = "survival" => n \in survived

\* Equal digests at the end mean equal outcomes in every game, and peers that
\* met no fault do end with equal digests.
ShasMatch(p) == peerSha[p] = Sha(p)

SettledTogether ==
  \A p \in Peers : pc[p] = "done" =>
    /\ ShasMatch(p) => \A n \in Reported(p) :
         n \in Reported(Opponent(p)) =>
           reports[p][n].outcome = reports[Opponent(p)][n].outcome
    /\ Faultless => ShasMatch(p)

\* What the two peers say of a sub-game agrees, in the reports and in the digests
\* at the end (runtime_audit.py:63-113, series_consensus.py, see the two parts).
PeersAgree == AgreedMeansSameOutcome /\ SettledTogether

\* Every series ends at every peer, also when the opponent crashes at the worst
\* moment: no wait is left without a deadline.
SeriesEnds == \A p \in Peers : <>(pc[p] \in {"done", "aborted", "crashed"})
=============================================================================
