------------------------------ MODULE Beliefs ------------------------------
(***************************************************************************)
(* What a player believes of its opponent: BeliefGrid and the update of    *)
(* services/belief/, and the hints the two exchange (strategy/hints.py,    *)
(* read by belief/hint.py).  A grid keeps integer weights instead of       *)
(* probabilities, the heaviest of them about Scale: its distribution is    *)
(* weight over total, and a cell that is possible keeps a weight.  Scent   *)
(* counts in tenths over a floor of one, and a trusted cue, a power        *)
(* between 1 and 2 in the code, counts 3 to 2.                             *)
(***************************************************************************)
EXTENDS BoardGraph

CONSTANT HintCap   \* hint_max_words

ASSUME HintCapAssumption == HintCap \in Nat \ {0}

----------------------------------------------------------------------------
(* BeliefGrid *)

Total(grid) == MapThenSumSet(LAMBDA c : grid.weights[c], Cells)

\* The same function, which TLC then computes once.
Table(f) == f @@ [c \in {} |-> 0]

\* All the mass is on masked cells: every other cell is as likely again.
FromWeights(weights, masked) ==
  LET kept == Table([c \in Cells |-> IF c \in masked THEN 0 ELSE weights[c]])
      even == [c \in Cells |-> IF c \in masked THEN 0 ELSE 1]
  IN  [masked |-> masked,
       weights |-> IF \A c \in Cells : kept[c] = 0 THEN even ELSE kept]

Remask(grid, masked) == FromWeights(grid.weights, grid.masked \cup masked)

\* initial_opponent_belief: all that is reachable from the opponent's start.
UniformFrom(start) ==
  FromWeights([c \in Cells |-> 1], Cells \ ConnectedComponent(start, {}))

Support(grid) == {c \in Cells : grid.weights[c] > 0}

\* Descending by weight, ties in row-major order.
Likelier(grid, p, q) ==
  \/ grid.weights[p] > grid.weights[q]
  \/ grid.weights[p] = grid.weights[q] /\ Before(p, q)

MostLikely(grid) ==
  CHOOSE p \in Cells : \A q \in Cells \ {p} : Likelier(grid, p, q)

\* The shortest prefix of that order with nine tenths of the mass.
CredibleRegion(grid) ==
  LET AtLeast(p) == {q \in Support(grid) : q = p \/ Likelier(grid, q, p)}
      Mass(cells) == MapThenSumSet(LAMBDA c : grid.weights[c], cells)
  IN  {p \in Support(grid) : 10 * Mass(AtLeast(p) \ {p}) < 9 * Total(grid)}

----------------------------------------------------------------------------
(* BeliefService.update, with MixtureMotionModel and its default weights *)

Scale == 1000

Toward(p, q) == Gap(p[1], q[1]) + Gap(p[2], q[2])

MotionTargets(source, barriers) == Neighbors(source, barriers) \cup {source}

(***************************************************************************)
(* exp of 3/5 for a step away from the observer and -3/5 for one towards   *)
(* it, of -3/20 on the boundary, -1/5 on a recent cell of the observer and *)
(* -1/4 on its last but one, in hundredths.                                *)
(***************************************************************************)
MotionWeight(source, target, observer, recent) ==
  LET away == Toward(target, observer) - Toward(source, observer)
      Cut(weight, hundredths, applies) ==
        IF applies THEN (weight * hundredths) \div 100 ELSE weight
      moved == CASE away > 0 -> 182 [] away < 0 -> 55 [] OTHER -> 100
      edged == Cut(moved, 86, IsBoundary(target))
      again == Cut(edged, 82, target \in ToSet(recent))
  IN  Cut(again, 78, Len(recent) >= 2 /\ target = recent[Len(recent) - 1])

Predict(grid, barriers, observer, recent) ==
  LET Weight(s, t) == MotionWeight(s, t, observer, recent)
      open == Support(grid) \ barriers
      all == Table([s \in open |->
                      MapThenSumSet(LAMBDA t : Weight(s, t), MotionTargets(s, barriers))])
      Arriving(c) ==
        MapThenSumSet(LAMBDA s : 1 + (grid.weights[s] * Weight(s, c) * 10) \div all[s],
                      {s \in open : c \in MotionTargets(s, barriers)})
  IN  FromWeights(Table([c \in Cells |-> Arriving(c)]), grid.masked \cup barriers)

\* Above the noise floor, whatever the frame says of a cell.
ScentLikelihood(field, cell) ==
  1 + 10 * ((ValueAt(field, cell) + CenterSixteenth - 1) \div CenterSixteenth)

\* The same distribution on smaller weights.
Rescaled(weights) ==
  LET divisor == 1 + Max({weights[c] : c \in Cells}) \div Scale
  IN  [c \in Cells |-> (weights[c] + divisor - 1) \div divisor]

\* Mutant: an opponent is not expected where the observer came through.
UpdateUnseen(grid, field, barriers, covered, observer, recent) ==
  FromWeights(Predict(grid, barriers, observer, recent).weights,
              grid.masked \cup barriers \cup ToSet(recent))

\* covered: the cells the cue of the hint favours.
Update(grid, field, barriers, covered, observer, recent) ==
  LET masked == grid.masked \cup barriers
      predicted == Predict(Remask(grid, masked), barriers, observer, recent)
      Weight(c) == predicted.weights[c] * ScentLikelihood(field, c)
                     * (IF c \in covered THEN 3 ELSE 2)
  IN  FromWeights(Rescaled(Table([c \in Cells |-> Weight(c)])), masked)

----------------------------------------------------------------------------
(* The hint a player writes *)

Regions == {"north", "south", "east", "west", "center", "edge", "corner", "neutral"}

\* Of any board, as the code is; a configured one has seven rows or more.
Third(size) == IF size < 3 THEN 1 ELSE size \div 3

SemanticRegion(p, size) ==
  LET third == Third(size)
      edges == {i \in {1, 2} : p[i] \in {0, size - 1}}
      Inner(i) == p[i] \in third .. size - third - 1
  IN  CASE edges = {1, 2} -> "corner"
        [] Cardinality(edges) = 1 -> "edge"
        [] edges = {} /\ p[1] < third -> "north"
        [] edges = {} /\ p[1] >= size - third -> "south"
        [] edges = {} /\ Inner(1) /\ p[2] < third -> "west"
        [] edges = {} /\ Inner(1) /\ p[2] >= size - third -> "east"
        [] OTHER -> "center"

OppositeRegion(region) ==
  CASE region = "north" -> "south" [] region = "south" -> "north"
    [] region = "east" -> "west" [] region = "west" -> "east"
    [] region \in {"center", "neutral"} -> "edge"
    [] OTHER -> "center"

Intent(verdict, region) == [verdict |-> verdict, region |-> region]

Phrases ==
  [north |-> <<"under", "the", "quiet", "northern", "sky">>,
   south |-> <<"where", "the", "southern", "streets", "feel", "warmer">>,
   east |-> <<"toward", "the", "bright", "eastern", "side">>,
   west |-> <<"among", "the", "shaded", "western", "paths">>,
   center |-> <<"near", "the", "busy", "central", "landmarks">>,
   edge |-> <<"close", "to", "the", "outer", "boundary">>,
   corner |-> <<"near", "a", "secluded", "corner">>,
   neutral |-> <<"somewhere", "among", "the", "open", "paths">>]

AlternatePhrases ==
  [north |-> <<"beside", "the", "cold", "northern", "rooftops">>,
   south |-> <<"along", "the", "slow", "southern", "lanes">>,
   east |-> <<"past", "the", "eastern", "market", "stalls">>,
   west |-> <<"behind", "the", "western", "workshops">>,
   center |-> <<"between", "the", "crowded", "inner", "squares">>,
   edge |-> <<"against", "the", "far", "perimeter", "wall">>,
   corner |-> <<"tucked", "into", "a", "quiet", "corner", "nook">>,
   neutral |-> <<"wandering", "the", "ordinary", "side", "streets">>]

\* A number, a bracket or a word that ends in a coordinate's name: "Harrow".
Coordinates == {"harrow", "row", "column"}

Unwritable == <<"unwritable">>

\* At most four words of the map area, then the phrase, cut at the cap.
Realize(intent, area, variant) ==
  LET named == SubSeq(area, 1, Smaller(4, Len(area)))
      prefix == IF area = <<>> THEN <<>> ELSE <<"around">> \o named
      phrase == (IF variant = 0 THEN Phrases ELSE AlternatePhrases)[intent.region]
      text == prefix \o <<"i", "am">> \o phrase
  IN  IF ToSet(named) \cap Coordinates # {} THEN Unwritable
      ELSE SubSeq(text, 1, Smaller(HintCap, Len(text)))

(***************************************************************************)
(* HintIntentPolicy.choose.  No caller passes the verdicts of earlier      *)
(* hints, so the limit on consecutive lies never stops a lie.              *)
(***************************************************************************)
ChooseIntent(p, trusted, mode, deceiveWhileMobile) ==
  LET truthful == SemanticRegion(p, Size)
      lie == trusted /\ mode \in {"deception"} \cup
                           (IF deceiveWhileMobile THEN {"mobility"} ELSE {})
  IN  IF lie THEN Intent("lie", OppositeRegion(truthful)) ELSE Intent("truth", truthful)

----------------------------------------------------------------------------
(* The hint its opponent reads *)

\* Mutant: east and west change places.
MirroredCues ==
  [north |-> {"north", "upper", "above", "top"}, south |-> {"south", "lower"},
   east |-> {"west", "left", "western"}, west |-> {"east", "right", "eastern"},
   center |-> {"center", "central"}, corner |-> {"corner"}, edge |-> {"edge", "boundary"}]

Cues ==
  [north |-> {"north", "upper", "above", "top"},
   south |-> {"south", "lower", "below", "bottom"},
   east |-> {"east", "right"}, west |-> {"west", "left"},
   center |-> {"center", "central", "middle"},
   corner |-> {"corner", "corners"}, edge |-> {"edge", "border", "boundary"}]

\* max_words of the parser.
ParserCap == 15

Prohibited == {"api", "mcp", "tool", "coordinate", "row", "column", "execute",
               "password", "token"}

ParseCue(words) ==
  LET matched == {r \in DOMAIN Cues : Cues[r] \cap ToSet(words) # {}}
  IN  IF \/ words = <<>> \/ Len(words) > ParserCap
         \/ ToSet(words) \cap Prohibited # {} \/ Cardinality(matched) # 1
        THEN "neutral" ELSE CHOOSE r \in matched : TRUE

CellsOf(size) == (0 .. size - 1) \X (0 .. size - 1)

\* Twice the distance to the middle, which may lie between two rows.
FromMiddle(i, size) ==
  IF 2 * i > size - 1 THEN 2 * i - (size - 1) ELSE size - 1 - 2 * i

\* The cells of likelihood 2; no cell for a neutral cue.
Covered(category, size) ==
  LET ends == {0, size - 1}
      Covers(p) ==
        CASE category = "north" -> p[1] < Third(size)
          [] category = "south" -> p[1] >= size - Third(size)
          [] category = "west" -> p[2] < Third(size)
          [] category = "east" -> p[2] >= size - Third(size)
          [] category = "center" ->
               FromMiddle(p[1], size) <= 2 /\ FromMiddle(p[2], size) <= 2
          [] category = "edge" -> p[1] \in ends \/ p[2] \in ends
          [] category = "corner" -> p[1] \in ends /\ p[2] \in ends
          [] OTHER -> FALSE
  IN  {p \in CellsOf(size) : Covers(p)}

NoRegion == "none"

\* claimed_region: of the first cell the cue favours, if it favours any over others.
ClaimedRegion(category, size) ==
  LET cells == Covered(category, size)
  IN  IF cells \in {{}, CellsOf(size)} THEN NoRegion
      ELSE SemanticRegion(RowMajorFirst(cells), size)

ScentPeakRegion(field) ==
  LET strongest == {c \in DOMAIN field : /\ field[c] > 0
                                         /\ \A d \in DOMAIN field : field[d] <= field[c]}
  IN  IF strongest = {} THEN NoRegion ELSE SemanticRegion(RowMajorFirst(strongest), Size)

----------------------------------------------------------------------------
(* HintReliability: per category, the hints that agreed and that did not *)

NoReliability == [c \in {} |-> 0]

Judged(reliability, category, consistent, step) ==
  LET old == IF category \in DOMAIN reliability THEN reliability[category]
             ELSE [alpha |-> 2, beta |-> 2, last |-> 0]
      new == [alpha |-> old.alpha + (IF consistent THEN 1 ELSE 0),
              beta |-> old.beta + (IF consistent THEN 0 ELSE 1), last |-> step]
  IN  [c \in DOMAIN reliability \cup {category} |->
         IF c = category THEN new ELSE reliability[c]]

\* BeliefTrack._scored: only a cue and a scent that both say something.
Scored(reliability, frame, words) ==
  LET category == ParseCue(words)
      claimed == ClaimedRegion(category, Size)
      witnessed == ScentPeakRegion(frame.field)
  IN  IF NoRegion \in {claimed, witnessed} THEN reliability
      ELSE Judged(reliability, category, claimed = witnessed, frame.step)

----------------------------------------------------------------------------
(* What the answers mean *)

(***************************************************************************)
(* One update keeps what it knew: the posterior is on exactly the unmasked *)
(* cells that a prior cell can reach in one move, whatever the scent, the  *)
(* hint, the observer and the rounding say, and its most likely cell is in *)
(* the credible region (service.py:47-116, grid.py:44-76, 111-129).        *)
(***************************************************************************)
UpdateIsSound(grid, field, barriers, covered, observer) ==
  LET posterior == Update(grid, field, barriers, covered, observer, <<observer>>)
      masked == grid.masked \cup barriers
      open == Support(Remask(grid, barriers))
      Reached == UNION {MotionTargets(s, barriers) : s \in open \ barriers}
  IN  /\ posterior.masked = masked
      /\ Support(posterior) = Reached \ masked
      /\ MostLikely(posterior) \in CredibleRegion(posterior)

(***************************************************************************)
(* An honest hint never points away from its writer: when its cue says     *)
(* anything, the cell it was written for is among the cells the cue        *)
(* covers, wherever the cap cuts the hint, unless the map area brought a   *)
(* cue of its own (hints.py:65-133, hint.py:61-82).                        *)
(***************************************************************************)
HonestHintCovers(p, size, area, variant) ==
  LET words == Realize(Intent("truth", SemanticRegion(p, size)), area, variant)
      category == ParseCue(words)
      ownCues == ToSet(area) \cap UNION {Cues[r] : r \in DOMAIN Cues}
  IN  ownCues = {} /\ category # "neutral" => p \in Covered(category, size)

============================================================================
