--------------------------- MODULE SeriesScoring ---------------------------
(***************************************************************************)
(* The role schedule of a series (domain/schedule.py) and its points       *)
(* (domain/scoring.py): a sub-game scores by role, a series by group.      *)
(* A rejected argument (a raise) is the value Rejected.                    *)
(***************************************************************************)
EXTENDS Integers, Sequences, FiniteSets

CONSTANTS
  CaptureCop, CaptureThief,    \* ScoringConfig: points of a capture
  SurvivalCop, SurvivalThief   \* and of a survival

ASSUME ScoringAssumption ==
  {CaptureCop, CaptureThief, SurvivalCop, SurvivalThief} \subseteq Nat

NumGames == 6

\* _SERIES_TIE_SCORE.
TieScore == 2

Rejected == [error |-> "rejected"]

ScoreTerminal(reason) ==
  CASE reason \in {"capture", "barrier_capture", "enclosure"} ->
         [police |-> CaptureCop, thief |-> CaptureThief]
    [] reason \in {"survival", "step_ceiling"} ->
         [police |-> SurvivalCop, thief |-> SurvivalThief]
    [] OTHER -> [police |-> 0, thief |-> 0]

\* The initiating group is Police in the odd sub-games.
BalancedSchedule(initiating, opponent) ==
  IF initiating = opponent THEN Rejected
  ELSE [n \in 1 .. NumGames |->
          IF n % 2 = 1 THEN [police |-> initiating, thief |-> opponent]
                       ELSE [police |-> opponent, thief |-> initiating]]

\* SubGameOutcome.from_terminal: the points are derived, never given.
Outcome(number, roles, reason) ==
  [number |-> number, police |-> roles.police, thief |-> roles.thief,
   points |-> ScoreTerminal(reason)]

SeriesTieAwards(a, b) == IF a = b THEN <<TieScore, TieScore>> ELSE <<0, 0>>

\* Mutant: a group earns as Police only.
PointsAsPolice(group, outcomes) ==
  LET sum[n \in 0 .. Len(outcomes)] ==
        IF n = 0 THEN 0
        ELSE sum[n - 1] + (IF outcomes[n].police = group THEN outcomes[n].points.police ELSE 0)
  IN  sum[Len(outcomes)]

\* Points of a group in the first n outcomes, whichever role it played.
PointsOf(group, outcomes) ==
  LET earned(o) == (IF o.police = group THEN o.points.police ELSE 0)
                   + (IF o.thief = group THEN o.points.thief ELSE 0)
      sum[n \in 0 .. Len(outcomes)] ==
        IF n = 0 THEN 0 ELSE sum[n - 1] + earned(outcomes[n])
  IN  sum[Len(outcomes)]

PoliceGames(group, outcomes) == {i \in DOMAIN outcomes : outcomes[i].police = group}

AggregateSeries(outcomes, a, b) ==
  LET total == [g \in {a, b} |-> PointsOf(g, outcomes)]
  IN  IF \/ a = b
         \/ Len(outcomes) # NumGames
         \/ {outcomes[i].number : i \in DOMAIN outcomes} # 1 .. NumGames
         \/ \E i \in DOMAIN outcomes : {outcomes[i].police, outcomes[i].thief} # {a, b}
         \/ \E g \in {a, b} : Cardinality(PoliceGames(g, outcomes)) # NumGames \div 2
        THEN Rejected
        ELSE [totals |-> <<total[a], total[b]>>,
              awards |-> SeriesTieAwards(total[a], total[b]),
              winner |-> IF total[a] = total[b] THEN "tie"
                         ELSE IF total[a] > total[b] THEN a ELSE b]

----------------------------------------------------------------------------
(* Properties *)

Played(reasons) ==
  LET roles == BalancedSchedule("a", "b")
  IN  [n \in 1 .. NumGames |-> Outcome(n, roles[n], reasons[n])]

(***************************************************************************)
(* The six results of a series add up to its score by group: no point is   *)
(* lost or given twice over the role changes, neither the order of the     *)
(* outcomes nor which group is named first changes anything, two groups    *)
(* with the same results in the same roles tie, and a series with a        *)
(* repeated number or an unbalanced role is refused (schedule.py:35-55,    *)
(* scoring.py:97-179).                                                     *)
(***************************************************************************)
ScoreAddsUp(reasons) ==
  LET played == Played(reasons)
      score == AggregateSeries(played, "a", "b")
      mirror == AggregateSeries(played, "b", "a")
      reversed == [n \in 1 .. NumGames |-> played[NumGames + 1 - n]]
      paid == [n \in 1 .. NumGames |-> played[n].points.police + played[n].points.thief]
  IN  /\ score.totals[1] + score.totals[2]
             = paid[1] + paid[2] + paid[3] + paid[4] + paid[5] + paid[6]
      /\ mirror = [score EXCEPT !.totals = <<@[2], @[1]>>]
      /\ AggregateSeries(reversed, "a", "b") = score
      /\ (\A n \in {1, 3, 5} : reasons[n] = reasons[n + 1]) =>
           score.winner = "tie" /\ score.awards = <<TieScore, TieScore>>
      /\ \A n \in 1 .. NumGames :
           /\ AggregateSeries([played EXCEPT ![n].number = (n % NumGames) + 1], "a", "b") = Rejected
           /\ AggregateSeries([played EXCEPT ![n].police = played[n].thief,
                                             ![n].thief = played[n].police],
                              "a", "b") = Rejected

============================================================================
