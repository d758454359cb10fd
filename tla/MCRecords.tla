----------------------------- MODULE MCRecords -----------------------------
(***************************************************************************)
(* What is kept and signed: the recovery of a session, the agreement on a  *)
(* match, the official documents of a series, a tournament with its        *)
(* report, and the evidence of a campaign.  They share nothing, so a       *)
(* behaviour is about one of them.                                         *)
(***************************************************************************)
EXTENDS PeerRecovery, MatchArtifacts, MatchNegotiation, Campaign

CONSTANTS a, b, c

VARIABLE part    \* what the behaviour is about

Config(canonical, raw, scent) ==
  [canonical |-> canonical, raw |-> raw, scent |-> scent, between |-> {a, b}]
Peer(config, minor) == [config |-> config, version |-> <<0, minor>>]
Usual == Peer(Config(1, 1, 1), 7)
TheContexts ==
  {[g \in {a, b} |-> IF g = a THEN Usual ELSE other] :
     other \in {Usual, Peer(Config(1, 1, 1), 6), Peer(Config(1, 2, 1), 7),
               Peer(Config(2, 2, 1), 7)}}

TheGroups == <<"a", "b">>
TheReasons == <<"capture", "survival", "survival", "technical_failure", "enclosure", "survival">>
TheTokens == [n \in 1..6 |-> [g \in {"a", "b"} |-> IF g = "a" THEN n + 1 ELSE 1]]

DocumentFields(kind) ==
  CASE kind = "declaration" -> {"game", "uid", "config"}
    [] kind = "config" -> {"game", "uid", "number", "config", "roles", "commits"}
    [] kind = "log" -> {"game", "uid", "number", "config", "roles", "commits", "journal",
                        "audit", "entries"}
    [] kind = "sub_game" -> {"number", "roles", "winner", "tie", "scores", "tokens", "config",
                             "logSha", "audit", "commits", "configFile", "logFile"}
    [] kind = "group" -> {"score", "wins", "ties", "spent"}
    [] OTHER -> {"game", "uid", "seriesTie", "winner", "declarationFile", "declarationSha",
                 "auditManifest", "signers", "agreed"}

TheSlips ==
  UNION {{<<<<k, i>>, f>> : f \in DocumentFields(k)} :
           <<k, i>> \in {<<"declaration", 0>>, <<"config", 2>>, <<"log", 2>>, <<"log", 5>>,
                         <<"sub_game", 1>>, <<"sub_game", 6>>, <<"group", "a">>,
                         <<"result", 0>>}}

\* A tournament of eight matches.
TheDeclared == [opponents |-> {"BL-RND", "BL-SCR"}, fixtures |-> {"default-7", "wide-9"},
                seeds |-> {10000}, repetitions |-> 1, budget |-> 250]
\* Specs with the most repetitions, with seeds next to each other and apart, and
\* with 30 repetitions, where two seeds begin to meet.
TheSeeds(seeds, repetitions) ==
  [TheDeclared EXCEPT !.opponents = {"BL-RND"}, !.fixtures = {"wide-9"},
                      !.seeds = seeds, !.repetitions = repetitions]
ThePlans ==
  {TheSeeds(10000..10007, 29), TheSeeds({10000, 10002}, 30),
   TheSeeds({10000, 10002, 10005, 10007}, 100)}

TheOutcomes ==
  {[reason |-> "capture", invalid |-> 0, misses |-> 0, latency |-> 90],
   [reason |-> "survival", invalid |-> 0, misses |-> 0, latency |-> 90],
   [reason |-> "technical_failure", invalid |-> 0, misses |-> 0, latency |-> 90]}

\* The reports of a candidate that wins a pair of matches, that wins as Police
\* only, and that wins but misses a deadline as the Thief.
ReportOf(wins(_), late) ==
  LET o(m) == [reason |-> IF wins(m) = (m.role = "police") THEN "capture" ELSE "survival",
               invalid |-> 0, misses |-> IF m.role \in late THEN 1 ELSE 0, latency |-> 90]
      ms == {m \in MatchesOf(TheDeclared) : m.opponent = "BL-RND" /\ m.fixture = "wide-9"}
  IN  TournamentReport([m \in ms |-> o(m)], 5)
TheReports == {ReportOf(LAMBDA m : TRUE, {}),
               ReportOf(LAMBDA m : m.role = "police", {}),
               ReportOf(LAMBDA m : TRUE, {"thief"})}

ThePatches == <<<<>>, [thief |-> 1], [thief |-> 2, risk |-> 1]>>
TheSafe == [compute |-> "safe"]
TheTrialResults == [objective : 0..2, reliable : BOOLEAN]

\* In a campaign every trial is evaluated and reliable; what else trials may
\* come to is explored in a search of its own.
Plain(t) == t.screening = [objective |-> 1, reliable |-> TRUE] /\ t.full.reliable

Parts == {"recovery", "agreement", "documents", "tournament", "search", "campaign"}

MCInit ==
  /\ part \in Parts
  /\ RecoveryInit /\ Init /\ ArtifactInit /\ TournamentInit /\ CampaignInit
  /\ part # "documents" => slip = NoSlip
  /\ part # "agreement" => /\ context = [g \in Pair |-> Usual]
                          /\ ledger = [g \in Pair |-> {}]

MCNext ==
  \/ /\ part = "recovery" /\ RecoveryNext
     /\ UNCHANGED <<part, negotiationVars, artifactVars, results, campaignVars>>
  \/ /\ part = "agreement" /\ Next
     /\ UNCHANGED <<part, recoveryVars, artifactVars, results, campaignVars>>
  \/ /\ part = "documents" /\ ArtifactNext
     /\ UNCHANGED <<part, recoveryVars, negotiationVars, results, campaignVars>>
  \/ /\ part = "tournament" /\ PlayMatch
     /\ Cardinality({m \in DOMAIN results' : Failed(results'[m])}) <= 1
     /\ UNCHANGED <<part, recoveryVars, negotiationVars, artifactVars, campaignVars>>
  \/ /\ part = "search" /\ Search
     /\ UNCHANGED <<part, recoveryVars, negotiationVars, artifactVars, results>>
  \/ /\ part = "campaign" /\ CampaignNext
     /\ \A i \in DOMAIN trials' : Plain(trials'[i])
     /\ UNCHANGED <<part, recoveryVars, negotiationVars, artifactVars, results>>

MCSpec ==
  MCInit /\ [][MCNext]_<<part, recoveryVars, negotiationVars, artifactVars,
                        results, campaignVars>>
============================================================================
