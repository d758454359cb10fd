------------------------------ MODULE Tournament ------------------------------
(***************************************************************************)
(* An offline tournament of services/experiments: the matches a            *)
(* TournamentSpec declares (spec.py, runner.py), the report that is built  *)
(* of their outcomes (metrics.py, report.py, statistics.py) and the gates  *)
(* a candidate has to pass to be promoted (gates.py, generalization.py).   *)
(*                                                                         *)
(* How a match is played is the arena's business: here its outcome is      *)
(* given.  A share or a rate is a fraction <<numerator, denominator>>, and *)
(* the bootstrap is a choice among the bounds it may come to.              *)
(***************************************************************************)
EXTENDS SeriesScoring, SequencesExt, TLC

CONSTANTS
  Declared,    \* the TournamentSpec that is run
  Planned,     \* further specs, for their random numbers
  Outcomes     \* what may become of a match

VARIABLE results   \* the outcomes of the matches played so far

Roles == {"police", "thief"}
Rival(role) == IF role = "police" THEN "thief" ELSE "police"

-----------------------------------------------------------------------------
(* The declaration *)

ValidSpec(spec) ==
  /\ {} \notin {spec.opponents, spec.fixtures, spec.seeds}
  /\ spec.repetitions \in 1..100
  /\ spec.budget \in 20..5000

MatchesOf(spec) ==
  [fixture : spec.fixtures, opponent : spec.opponents, seed : spec.seeds,
   repetition : 0..spec.repetitions - 1, role : Roles]

MatchCount(spec) ==
  Cardinality(spec.opponents) * Cardinality(spec.fixtures) * Cardinality(spec.seeds)
    * spec.repetitions * 2

\* Mutant: both sides of a pair are played on the same random numbers.
UnsaltedSeed(m) == m.seed * 101 + m.repetition * 7

MatchSeed(m) ==
  m.seed * 101 + m.repetition * 7 + (IF m.role = "police" THEN 1 ELSE 2)

\* with_decision_budget: the guard margin that goes with a budget.
GuardFor(margin, budget) ==
  LET wanted == Max({margin, 1, budget \div 4})
  IN  Min({budget - 1, wanted})

-----------------------------------------------------------------------------
(* The report *)

Captured(o) == o.reason \in {"capture", "barrier_capture", "enclosure"}
Survived(o) == o.reason \in {"survival", "step_ceiling"}
Failed(o) == ~Captured(o) /\ ~Survived(o)

CandidatePoints(m, o) == ScoreTerminal(o.reason)[m.role]
RivalPoints(m, o) == ScoreTerminal(o.reason)[Rival(m.role)]

Sum(S, f) == MapThenSumSet(LAMBDA m : f[m], S)

\* official_share, in percent, over some of the matches.
Share(played, ms) ==
  LET own == Sum(ms, [m \in ms |-> CandidatePoints(m, played[m])])
      theirs == Sum(ms, [m \in ms |-> RivalPoints(m, played[m])])
  IN  IF own + theirs = 0 THEN <<0, 1>> ELSE <<100 * own, own + theirs>>

RoleSummary(played, role) ==
  LET ms == {m \in DOMAIN played : m.role = role}
      won == {m \in ms : IF role = "police" THEN Captured(played[m]) ELSE Survived(played[m])}
  IN  IF ms = {} THEN <<0, 1>> ELSE <<Cardinality(won), Cardinality(ms)>>

\* percentile(values, 0.95): the nearest rank.
Percentile95(f) ==
  LET n == Cardinality(DOMAIN f)
      rank == Max({1, (95 * n + 99) \div 100})
  IN  Min({v \in Range(f) : Cardinality({x \in DOMAIN f : f[x] <= v}) >= rank})

\* The lower end of the bootstrap interval is held between the extremes.
LowerBounds(played) ==
  LET deltas == {CandidatePoints(m, played[m]) - RivalPoints(m, played[m]) : m \in DOMAIN played}
  IN  Min(deltas)..Max(deltas)

ReliabilityReport(played) ==
  LET ms == DOMAIN played
  IN  [technical |-> Cardinality({m \in ms : Failed(played[m])}),
       invalid |-> Sum(ms, [m \in ms |-> played[m].invalid]),
       misses |-> Sum(ms, [m \in ms |-> played[m].misses])]

\* _grouped_share: the shares against each opponent or on each board.
GroupedShare(played, key) ==
  {Share(played, {m \in DOMAIN played : m[key] = v}) : v \in {m[key] : m \in DOMAIN played}}

TournamentReport(played, lower) ==
  ReliabilityReport(played) @@
  [p95 |-> Percentile95([m \in DOMAIN played |-> played[m].latency]),
   share |-> Share(played, DOMAIN played),
   lower |-> lower,
   perOpponent |-> GroupedShare(played, "opponent"),
   perFixture |-> GroupedShare(played, "fixture"),
   police |-> RoleSummary(played, "police"),
   thief |-> RoleSummary(played, "thief")]

-----------------------------------------------------------------------------
(* The gates: the identifiers of those that fail *)

AtLeast(x, percent) == x[1] >= percent * x[2]
\* x is no more than so many points below y.
Within(x, y, points) == y[1] * x[2] - x[1] * y[2] <= points * x[2] * y[2]

\* Mutant: failures cost points only.
ReliabilityOfActions(r) ==
  {g \in {"R02-INVALID", "R02-DEADLINE", "P01-LATENCY"} :
     ~CASE g = "R02-INVALID" -> r.invalid = 0
        [] g = "R02-DEADLINE" -> r.misses = 0
        [] OTHER -> r.p95 <= 250}

ReliabilityFailures(r) ==
  {g \in {"R02-TECHNICAL", "R02-INVALID", "R02-DEADLINE", "P01-LATENCY"} :
     ~CASE g = "R02-TECHNICAL" -> r.technical = 0
        [] g = "R02-INVALID" -> r.invalid = 0
        [] g = "R02-DEADLINE" -> r.misses = 0
        [] OTHER -> r.p95 <= 250}

CompetitiveFailures(r) ==
  {g \in {"S01-SHARE", "S02-UPLIFT", "S03-POLICE", "S03-THIEF", "S05-FIXTURE", "S05-OPPONENT"} :
     ~CASE g = "S01-SHARE" -> AtLeast(r.share, 60)
        [] g = "S02-UPLIFT" -> r.lower > 0
        [] g = "S03-POLICE" -> 10 * r.police[1] >= 7 * r.police[2]
        [] g = "S03-THIEF" -> 10 * r.thief[1] >= 7 * r.thief[2]
        [] g = "S05-FIXTURE" -> \A x \in r.perFixture : Within(x, r.share, 15)
        [] OTHER -> \A x \in r.perOpponent : AtLeast(x, 50)}

\* overfitting_gate and robustness_gate.
GeneralizationFailures(train, share) ==
  IF Within(share, train, 8) THEN {} ELSE {"S06-GENERALIZATION"}
DegradedFailures(shares) ==
  IF \A x \in shares : AtLeast(x, 50) THEN {} ELSE {"S04-DEGRADED"}

PromotionFailures(r) == ReliabilityFailures(r) \cup CompetitiveFailures(r)

-----------------------------------------------------------------------------
TournamentInit == results = <<>>

\* The next match is any that is left: the order only feeds the bootstrap.
PlayMatch ==
  /\ ValidSpec(Declared)
  /\ DOMAIN results # MatchesOf(Declared)
  /\ LET m == CHOOSE x \in MatchesOf(Declared) : x \notin DOMAIN results
     IN  \E o \in Outcomes : results' = results @@ (m :> o)

Finished == Cardinality(DOMAIN results) = MatchCount(Declared)

\* The same matches with the rivals in the candidate's place.
Mirror(played) == [m \in DOMAIN played |-> played[[m EXCEPT !.role = Rival(@)]]]

(***************************************************************************)
(* What a promotion is worth (runner.py:67-86, metrics.py:50-122,          *)
(* gates.py:17-104).  Random numbers: the matches of one seed differ in    *)
(* theirs, and so do the matches a candidate plays in one role, under any  *)
(* spec; all matches of a pairing do up to 29 repetitions.  (With 30, the  *)
(* first match as Thief under a seed shares its numbers with a match as    *)
(* Police under the seed two below.)  The two sides share all points, and  *)
(* the report of a tournament and that of the rivals in the same matches   *)
(* never pass the gates both, wherever the bootstrap puts its bounds;      *)
(* nobody is promoted who failed in a match or earned less than some       *)
(* opponent did.                                                           *)
(***************************************************************************)
OwnNumbers(ms) == Cardinality({MatchSeed(m) : m \in ms}) = Cardinality(ms)

NumbersAreApart(spec) ==
  \A x \in spec.opponents, y \in spec.fixtures :
    LET ms == {m \in MatchesOf(spec) : m.opponent = x /\ m.fixture = y}
    IN  /\ \A seed \in spec.seeds : OwnNumbers({m \in ms : m.seed = seed})
        /\ \A role \in Roles : OwnNumbers({m \in ms : m.role = role})
        /\ spec.repetitions <= 29 => OwnNumbers(ms)

SpecsAreApart == \A spec \in Planned \cup {Declared} : ValidSpec(spec) => NumbersAreApart(spec)

PromotionIsEarned ==
  Finished =>
    LET rivals == Mirror(results)
        passes(played) ==
          LET r == TournamentReport(played, 0)
          IN  \E l \in LowerBounds(played) : PromotionFailures([r EXCEPT !.lower = l]) = {}
        own == Share(results, DOMAIN results)
        theirs == Share(rivals, DOMAIN rivals)
    IN  /\ SpecsAreApart
        /\ own = theirs \/ own[1] + theirs[1] = 100 * own[2]
        /\ ~(passes(results) /\ passes(rivals))
        /\ passes(results) =>
             /\ \A m \in DOMAIN results : ~Failed(results[m])
             /\ \A x \in Declared.opponents :
                  LET ms == {m \in DOMAIN results : m.opponent = x}
                  IN  Sum(ms, [m \in ms |-> CandidatePoints(m, results[m])])
                        >= Sum(ms, [m \in ms |-> RivalPoints(m, results[m])])
=============================================================================
