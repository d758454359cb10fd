-------------------------- MODULE MatchNegotiation --------------------------
(***************************************************************************)
(* How two groups agree on a match (services/protocol/negotiation.py, with *)
(* its models, context and compatibility rules).  Each peer proposes the   *)
(* match to the other's runtime, which validates the proposal against its  *)
(* own configuration, versions and ledger, and each then accepts the       *)
(* proposal it has been sent; the runtime that receives an acceptance      *)
(* compares it with the proposal it holds.                                 *)
(*                                                                         *)
(* A counted match is written to the ledger of each group after it has     *)
(* been played; one of the two writes may be lost.  A digest is collision  *)
(* free and is the value it is taken of.                                   *)
(***************************************************************************)
EXTENDS Integers, Sequences, FiniteSets

CONSTANTS
  A, B,            \* the two groups
  Others,          \* groups they may have played before
  Contexts,        \* the pairs of local configurations and versions
  Limit,           \* counted matches a group may play: 10 in the code
  Fields,          \* the terms of a proposal that may be stated wrongly
  Misstated,       \* a value nothing is equal to
  None,
  MaxProposals,    \* bounds: proposals sent,
  MaxSlips,        \* proposals with a wrong term,
  MaxLost,         \* ledger writes lost,
  MaxMatches       \* and matches played

ASSUME GroupsAssumption == A # B

ASSUME LedgersAssumption ==
  Limit \in Nat /\ IsFiniteSet(Others) /\ Cardinality(Others) <= Limit

ASSUME LossAssumption == MaxLost \in Nat

\* A configuration is what its bytes, its digests and its groups are.
ASSUME ContextsAssumption ==
  \A local \in Contexts : \A g \in {A, B} :
    LET own == local[g].config
    IN  own = [canonical |-> own.canonical, raw |-> own.raw, scent |-> own.scent,
               between |-> own.between]

Schedules == INSTANCE SeriesScoring
  WITH CaptureCop <- 0, CaptureThief <- 0, SurvivalCop <- 0, SurvivalThief <- 0

VARIABLES
  context,   \* NegotiationContext of each peer, its ledger apart
  ledger,    \* CountedLedger.opponents of each group
  sent,      \* proposals and acceptances on their way
  session,   \* the proposal each runtime holds, if any, and whether it was accepted
  played,    \* history: the matches played
  budget     \* what is left of the bounds

negotiationVars == <<context, ledger, sent, session, played, budget>>

Pair == {A, B}
NoSession == [state |-> "none"]
Opponent(g) == CHOOSE h \in Pair : h # g

\* deterministic_game_id: the same for both orders of the groups.
DeterministicGameId(groups, config) == <<{groups[1], groups[2]}, config>>

\* Participant: the ledger declared with its own total.
Participant(g, opponents) ==
  [group |-> g, total |-> Cardinality(opponents), opponents |-> opponents,
   links |-> <<<<g, "police">>, <<g, "thief">>>>]

RoleTerms(groups) == Schedules!BalancedSchedule(groups[1], groups[2])

Proposal(g, groups, counted, known, uid) ==
  LET own == context[g]
  IN  [uid |-> uid,
       gameId |-> DeterministicGameId(groups, own.config.canonical),
       version |-> own.version, schema |-> "0.2.0", counted |-> counted,
       participants |-> [i \in 1..2 |-> Participant(groups[i], known[groups[i]])],
       raw |-> own.config.raw, rawDigest |-> own.config.raw,
       config |-> own.config.canonical, scent |-> own.config.scent,
       vector |-> "scent-5x5-v1", schedule |-> RoleTerms(groups)]

GroupsOf(p) == [i \in 1..2 |-> p.participants[i].group]

\* protocol_is_compatible: the same major, and a minor that is not newer.
ProtocolIsCompatible(local, remote) ==
  local[1] = remote[1] /\ remote[2] <= local[2]

ValidBytes(g, p) ==
  /\ p.raw = context[g].config.raw
  /\ p.rawDigest = p.raw
  /\ p.config = context[g].config.canonical
  /\ p.scent = context[g].config.scent
  /\ p.vector = "scent-5x5-v1"

ValidSchedule(p) == p.schedule = RoleTerms(GroupsOf(p))

\* Mutant: a group is asked about itself only, not about this opponent.
ValidLeagueAlone(g, p) ==
  p.counted =>
    \A i \in 1..2 :
      LET member == p.participants[i]
      IN  /\ member.total < Limit
          /\ member.group = g => /\ member.total = Cardinality(ledger[g])
                                 /\ member.opponents = ledger[g]

ValidLeague(g, p) ==
  p.counted =>
    /\ \A i \in 1..2 :
         LET member == p.participants[i]
         IN  /\ member.total < Limit
             /\ member.group = g => /\ member.total = Cardinality(ledger[g])
                                    /\ member.opponents = ledger[g]
    /\ Opponent(g) \notin ledger[g]

ValidLinks(p) ==
  Cardinality({p.participants[i].links[j] : i \in 1..2, j \in 1..2}) = 4

\* validate_proposal, for the peer of group g.
ValidProposal(g, p) ==
  /\ g \in {GroupsOf(p)[1], GroupsOf(p)[2]}
  /\ {GroupsOf(p)[1], GroupsOf(p)[2]} = context[g].config.between
  /\ ProtocolIsCompatible(context[g].version, p.version)
  /\ p.schema = "0.2.0"
  /\ ValidBytes(g, p) /\ ValidSchedule(p) /\ ValidLeague(g, p) /\ ValidLinks(p)
  /\ p.gameId = DeterministicGameId(GroupsOf(p), p.config)

Acceptance(p) ==
  [digest |-> p, gameId |-> p.gameId, uid |-> p.uid, schedule |-> p.schedule]

\* Mutant: the game is compared, the digest of the proposal is not.
ValidAcceptanceOfGame(g, a, p) ==
  ValidProposal(g, p) /\ a.gameId = p.gameId /\ a.uid = p.uid

ValidAcceptance(g, a, p) == ValidProposal(g, p) /\ a = Acceptance(p)

-----------------------------------------------------------------------------
Init ==
  /\ context \in Contexts
  /\ ledger \in [Pair -> SUBSET Others]
  /\ sent = {}
  /\ session = [g \in Pair |-> NoSession]
  /\ played = {}
  /\ budget = [proposals |-> MaxProposals, slips |-> MaxSlips, lost |-> MaxLost]

Uid == Cardinality(played) + 1

\* A group knows the other's ledger as it is, or as it was at first.
Send(g) ==
  /\ budget.proposals > 0 /\ Uid <= MaxMatches
  /\ \E first \in Pair, counted \in BOOLEAN, known \in {{}, ledger[Opponent(g)]},
        slip \in Fields \cup {None} :
       LET groups == <<first, Opponent(first)>>
           p == Proposal(g, groups, counted,
                         [h \in Pair |-> IF h = g THEN ledger[g] ELSE known], Uid)
       IN  /\ slip # None => budget.slips > 0
           /\ sent' = sent \cup
                {[to |-> Opponent(g), kind |-> "propose",
                  body |-> IF slip = None THEN p ELSE [p EXCEPT ![slip] = Misstated]]}
           /\ budget' = [budget EXCEPT !.proposals = @ - 1,
                                       !.slips = IF slip = None THEN @ ELSE @ - 1]
  /\ UNCHANGED <<context, ledger, session, played>>

\* propose_match: the first valid proposal makes the session.
ReceiveProposal(g) ==
  /\ session[g].state = "none"
  /\ \E m \in sent :
       /\ m.to = g /\ m.kind = "propose" /\ m.body.uid = Uid
       /\ ValidProposal(g, m.body)
       /\ session' = [session EXCEPT ![g] = [state |-> "proposed", proposal |-> m.body]]
  /\ UNCHANGED <<context, ledger, sent, played, budget>>

Accept(g) ==
  /\ session[g].state # "none"
  /\ sent' = sent \cup {[to |-> Opponent(g), kind |-> "accept",
                         body |-> Acceptance(session[g].proposal)]}
  /\ UNCHANGED <<context, ledger, session, played, budget>>

ReceiveAcceptance(g) ==
  /\ session[g].state = "proposed"
  /\ \E m \in sent : /\ m.to = g /\ m.kind = "accept"
                     /\ ValidAcceptance(g, m.body, session[g].proposal)
  /\ session' = [session EXCEPT ![g].state = "accepted"]
  /\ UNCHANGED <<context, ledger, sent, played, budget>>

Agreed == \A g \in Pair : session[g].state = "accepted"

\* The match is played, and each group writes its ledger.
Play ==
  /\ Agreed
  /\ \E forgets \in SUBSET Pair :
       /\ Cardinality(forgets) <= budget.lost
       /\ ledger' = [g \in Pair |-> IF session[g].proposal.counted /\ g \notin forgets
                                      THEN ledger[g] \cup {Opponent(g)} ELSE ledger[g]]
       /\ budget' = [budget EXCEPT !.lost = @ - Cardinality(forgets),
                                   !.proposals = MaxProposals]
  /\ played' = played \cup {[uid |-> Uid, counted |-> session[A].proposal.counted]}
  /\ session' = [g \in Pair |-> NoSession]
  /\ sent' = {}
  /\ UNCHANGED context

Next ==
  \/ Play
  \/ \E g \in Pair : \/ Send(g) \/ ReceiveProposal(g)
                     \/ Accept(g) \/ ReceiveAcceptance(g)

Spec == Init /\ [][Next]_negotiationVars

-----------------------------------------------------------------------------
(***************************************************************************)
(* Two peers that start a match hold one and the same proposal, and it     *)
(* states the configuration, the schedule and the ledgers of both: two     *)
(* proposals that cross, in which each group is Police first, never end in *)
(* an agreement (negotiation.py:69-89).                                    *)
(***************************************************************************)
AgreedOnOneMatch ==
  Agreed =>
    /\ session[A].proposal = session[B].proposal
    /\ context[A].config = context[B].config
    /\ \A g \in Pair : ValidProposal(g, session[g].proposal)

(***************************************************************************)
(* Two groups play one counted match at most, even when one of them has    *)
(* lost the record of it, and nobody plays more than Limit                 *)
(* (negotiation.py:122-138).                                               *)
(***************************************************************************)
LeagueRulesHold ==
  /\ Cardinality({m \in played : m.counted}) <= 1
  /\ \A g \in Pair : Cardinality(ledger[g]) <= Limit

(***************************************************************************)
(* Who starts a match is bound by it and free to play it: one proposal on  *)
(* both sides, and no more counted matches than the league allows (the two *)
(* parts above).                                                           *)
(***************************************************************************)
MatchIsBinding == AgreedOnOneMatch /\ LeagueRulesHold
=============================================================================
