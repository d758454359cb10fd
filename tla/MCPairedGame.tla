---------------------------- MODULE MCPairedGame ----------------------------
(* Police in the middle of a 3x3 board, the Thief in a corner of it. *)
EXTENDS PairedGame

MiddleAndCorner == [r \in Roles |-> IF r = "police" THEN <<1, 1>> ELSE <<0, 0>>]

----------------------------------------------------------------------------
(* Questions about the board and the scores *)

Board == INSTANCE BoardGraph

(***************************************************************************)
(* The graph questions are answered by their definitions for every set of  *)
(* barriers on the board (see BoardGraph; graph.py:9-172).  The scores of  *)
(* all series of three reasons add up (see SeriesScoring), and are         *)
(* recomputed from the six audit reports only when all of them verified    *)
(* (agreement.py:52-71).  No variable decides any of it, so it is asked    *)
(* before the first step only.                                             *)
(***************************************************************************)
GraphAnswersMatch == \A barriers \in SUBSET Cells : Board!AnswersMatch(barriers)

Reports(reasons, tampered) ==
  LET roles == BalancedSchedule("a", "b")
  IN  [n \in 1 .. NumGames |->
         [roles |-> roles[n],
          report |-> [status |-> IF n \in tampered THEN Tampered ELSE VerifiedOK,
                      terminal |-> reasons[n]]]]

SeriesAddUp ==
  \A reasons \in [1 .. NumGames -> {"barrier_capture", "survival", "tamper"}] :
    /\ ScoreAddsUp(reasons)
    /\ RecomputeSeries(Reports(reasons, {}), "a", "b")
         = AggregateSeries(Played(reasons), "a", "b")
    /\ \A n \in 1 .. NumGames :
         RecomputeSeries(Reports(reasons, {n}), "a", "b") = Rejected

AnswersMatchDefinitions == steps = <<>> => GraphAnswersMatch /\ SeriesAddUp

=============================================================================
