---------------------------- MODULE LivePolicies ----------------------------
(***************************************************************************)
(* The two hand-written policies of the live wire, police_policy.py and    *)
(* thief_policy.py.  Each is a function of what its half knows: its cell,  *)
(* the barriers, the scent it was served and the opponent cells it has     *)
(* noted (a set of one cell or of none, for a value that may be None).     *)
(*                                                                         *)
(* First comes the scent they follow: amireman/scent.py, and the same      *)
(* physics in strategy/compatibility_scent.py for the hypotheses of the    *)
(* session.  A field maps cells to counts of 10^-8, exact for the default  *)
(* decay of 0.1 up to six decays; a served field has counts of 10^-4.      *)
(***************************************************************************)
EXTENDS LiveBoard

CONSTANTS
  ScentModel,   \* scent_model
  DecayTenths   \* ten times decay_per_step

ASSUME ScentAssumption ==
  /\ ScentModel \in {"multiplicative_kernel_v1", "subtractive_chebyshev_v1"}
  /\ DecayTenths \in 0 .. 10

Hundredth == 1000000

MaxIntensity == 90 * Hundredth

Dust == 10000

\* By the two offsets; the rings of the subtractive model by the larger one.
Kernel == <<<<90, 62, 20>>, <<62, 42, 14>>, <<20, 14, 4>>>>

Rings == <<90, 60, 30>>

Emission(centre, cell) ==
  LET rows == Abs(cell[1] - centre[1])
      cols == Abs(cell[2] - centre[2])
  IN  IF rows > 2 \/ cols > 2 THEN 0
      ELSE Hundredth * (IF ScentModel = "subtractive_chebyshev_v1"
                          THEN Rings[Chebyshev(centre, cell) + 1]
                          ELSE Kernel[rows + 1][cols + 1])

Decayed(value) ==
  IF ScentModel = "subtractive_chebyshev_v1"
    THEN value - DecayTenths * 10 * Hundredth
    ELSE (value * (10 - DecayTenths)) \div 10

\* _keep: clipped, and gone when it is dust.
Kept(raw) ==
  LET clipped(c) == IF raw[c] > MaxIntensity THEN MaxIntensity ELSE raw[c]
  IN  [c \in {d \in DOMAIN raw : raw[d] > Dust} |-> clipped(c)]

DecayOnly(field) == Kept([c \in DOMAIN field |-> Decayed(field[c])])

\* One tick: decay what there is, then emit around the new position.
StepUpdate(field, centre) ==
  LET old(c) == IF c \in DOMAIN field THEN Decayed(field[c]) ELSE 0
  IN  Kept([c \in Cells |-> old(c) + Emission(centre, c)])

NoScent == [c \in {} |-> 0]

\* grid_out and grid_in: four decimals, nothing that rounds to zero.
Wire(field) == [c \in DOMAIN field |-> (field[c] + Dust \div 2) \div Dust]

\* The cells of greatest scent; which of them max() returns is up to the dict.
Peaks(field) == {c \in DOMAIN field : \A d \in DOMAIN field : field[d] <= field[c]}

\* peak: of those, the first by row and column.
Peak(field) ==
  CHOOSE c \in Peaks(field) : \A d \in Peaks(field) : c = d \/ Less(c, d)

----------------------------------------------------------------------------
CONSTANT MaxSteps   \* max_steps, the turn ceiling

ASSUME StepsAssumption == MaxSteps \in Nat \ {0}

\* a or b, for values that may be None.
Or(noted, default) == IF noted = {} THEN default ELSE The(noted)

SumOver(set, Value(_)) ==
  LET Sum[s \in SUBSET set] ==
        IF s = {} THEN 0 ELSE LET x == The(s) IN Value(x) + Sum[s \ {x}]
  IN  Sum[set]

\* round: to the nearest whole, ties to even.
Rounded(sum, n) ==
  LET whole == sum \div n
      rest == 2 * (sum % n)
  IN  IF rest > n \/ (rest = n /\ whole % 2 = 1) THEN whole + 1 ELSE whole

----------------------------------------------------------------------------
(* choose_police *)

Strong(field) ==
  LET top == field[The(Peaks(field))]
  IN  {c \in DOMAIN field : 100 * field[c] >= 55 * top}

Centroid(cells) ==
  LET Row(c) == c[1]
      Col(c) == c[2]
  IN  <<Rounded(SumOver(cells, Row), Cardinality(cells)),
        Rounded(SumOver(cells, Col), Cardinality(cells))>>

\* belief: the centroid of the strong cells, unless it is far from the noted one.
Belief(known, field, start) ==
  LET target == Or(known, IF field = NoScent THEN start ELSE Peak(field))
      Near(centroid) ==
        IF centroid \in Cells /\ Manhattan(centroid, target) <= 2 THEN centroid ELSE target
  IN  IF field # NoScent /\ Cardinality(Strong(field)) >= 2
        THEN Near(Centroid(Strong(field))) ELSE target

Intercept(target, last, barriers) ==
  LET predicted == <<2 * target[1] - The(last)[1], 2 * target[2] - The(last)[2]>>
  IN  IF last \notin {{}, {target}} /\ Passable(predicted, barriers)
        THEN predicted ELSE target

MoveScore(cell, token, target, intercept, barriers) ==
  <<Bit(cell \in {target, intercept}), 0, 0, 0, 0,
    -BfsLength(cell, intercept, barriers), -Chebyshev(cell, intercept),
    Bit(token # "STAY"), Degree(cell, barriers), -Manhattan(cell, intercept),
    -cell[1], -cell[2]>>

\* What a barrier takes from the target: its region and its exits.
Gain(cell, target, barriers) ==
  Reachable(target, barriers)
    - (IF cell = target THEN 0 ELSE Reachable(target, barriers \cup {cell}))

LostExits(cell, target, barriers) ==
  Degree(target, barriers)
    - (IF cell = target THEN 0 ELSE Degree(target, barriers \cup {cell}))

\* A distance of zero counts as none.
CutDistance(pos, intercept, updated) ==
  LET length == BfsLength(pos, intercept, updated)
  IN  IF length = 0 THEN Far ELSE length

\* When _barrier_score is not None.
UsefulBarrier(pos, cell, target, intercept, barriers) ==
  LET updated == barriers \cup {cell}
  IN  \/ cell = target
      \/ /\ BfsLength(pos, intercept, updated) # Far
         /\ Reachable(pos, updated) >= 6
         /\ cell # PathNext(pos, intercept, barriers)
         /\ CutDistance(pos, intercept, updated) <= 4
         /\ Gain(cell, target, barriers) >= 2 \/ LostExits(cell, target, barriers) >= 1

BarrierScore(pos, cell, target, intercept, barriers) ==
  LET capture == cell = target
      updated == barriers \cup {cell}
  IN  <<0, Bit(capture), Bit(~capture /\ Degree(target, updated) = 0),
        Gain(cell, target, barriers), LostExits(cell, target, barriers),
        -(CutDistance(pos, intercept, updated) + 1), -Chebyshev(pos, intercept),
        0, 0, -Manhattan(pos, intercept), -cell[1], -cell[2]>>

MoveTo(token) == [move |-> token, barrier |-> {}]

Bar(cell) == [move |-> "STAY", barrier |-> {cell}]

PoliceMoves(pos, target, intercept, barriers) ==
  {[action |-> MoveTo(t), order |-> Rank(t),
    score |-> MoveScore(Towards(pos, t), t, target, intercept, barriers)] :
     t \in LegalTokenSet(pos, barriers)}

\* _barrier_targets, by the direction they lie in.
BarrierTargets(pos, barriers) ==
  {t \in {"N", "S", "E", "W"} : Passable(Towards(pos, t), barriers)}

PoliceBarriers(pos, target, intercept, barriers) ==
  LET occupy == LegalCells(pos, barriers) \cap {target, intercept} # {}
      wanted == {t \in BarrierTargets(pos, barriers) :
                   /\ ~(occupy /\ Towards(pos, t) \in {target, intercept})
                   /\ UsefulBarrier(pos, Towards(pos, t), target, intercept, barriers)}
  IN  {[action |-> Bar(Towards(pos, t)), order |-> Len(Tokens) + Rank(t),
        score |-> BarrierScore(pos, Towards(pos, t), target, intercept, barriers)] :
         t \in wanted}

MayBar(k, step, distance) ==
  /\ k.used < MaxBarriers
  /\ distance # Far
  /\ MaxSteps - step > distance
  /\ distance > 1

PoliceBest(k, step, target, intercept) ==
  FirstGreatest(
    PoliceMoves(k.pos, target, intercept, k.barriers)
    \cup (IF MayBar(k, step, BfsLength(k.pos, intercept, k.barriers))
            THEN PoliceBarriers(k.pos, target, intercept, k.barriers) ELSE {})).action

PoliceAims(k, step, target) ==
  PoliceBest(k, step, target, Intercept(target, k.last, k.barriers))

\* k: what a half knows (module LiveGame).
ChoosePolice(k, step) == PoliceAims(k, step, Belief(k.known, k.field, k.oppStart))

----------------------------------------------------------------------------
(* choose_thief *)

\* The Police's next cell, if it goes on as it went.
Lead(cop, last, barriers) ==
  LET heading == <<cop[1] - The(last)[1], cop[2] - The(last)[2]>>
      next == <<cop[1] + heading[1], cop[2] + heading[2]>>
  IN  IF last # {} /\ Manhattan(cop, The(last)) = 1 /\ Passable(next, barriers)
        THEN next ELSE cop

\* cop_map.get(cell, 0)
Gap(from, cell, barriers) ==
  LET map == Distances[barriers][from] IN IF cell \in DOMAIN map THEN map[cell] ELSE 0

\* Cells the Thief reaches before the Police.
Owned(cell, cop, barriers) ==
  Cardinality({c \in DOMAIN Distances[barriers][cell] :
                 Distances[barriers][cell][c] < DistanceOrFar(cop, c, barriers)})

\* Mutant: the claimed cell is not avoided first.
PreferredNear(pool, cop, projected, lastMove, barriers) ==
  LET inside == Prefer(pool, {o \in pool : Edges(o.cell) < 2})
  IN  Prefer(inside, {o \in inside : o.token # lastMove})

\* The pool of options, narrowed by one preference after the other.
Preferred(pool, cop, projected, lastMove, barriers) ==
  LET away == Prefer(pool, {o \in pool : o.cell # cop})
      apart == Prefer(away, {o \in away : Manhattan(o.cell, cop) >= 2})
      walked == Prefer(apart, {o \in apart : Gap(cop, o.cell, barriers) >= 2})
      edged == Prefer(walked, {o \in walked : Edges(o.cell) < 2})
      inside == Prefer(edged, {o \in edged : Edges(o.cell) = 0})
      aside == Prefer(inside, {o \in inside : o.cell # projected})
      ahead == Prefer(aside, {o \in aside : Gap(projected, o.cell, barriers) >= 2})
      fresh == Prefer(ahead, {o \in ahead : o.token # lastMove})
  IN  Prefer(fresh, {o \in fresh : o.token # "STAY"})

ThiefScore(o, k, cop) ==
  LET dist == Gap(cop, o.cell, k.barriers)
      gap == Gap(cop, k.pos, k.barriers)
      centre == <<Size \div 2, Size \div 2>>
  IN  <<Bit(Manhattan(o.cell, cop) >= 2), Bit(dist >= 2), Bit(dist >= 3),
        Bit(gap < 3 \/ dist >= gap), -Edges(o.cell), IF dist < 4 THEN dist ELSE 4,
        Owned(o.cell, cop, k.barriers), Degree(o.cell, k.barriers),
        Bit(o.token # k.lastMove), Bit(o.token # "STAY"), -Manhattan(o.cell, centre),
        IF Edges(o.cell) > 0 /\ MaxBarriers > k.used THEN k.used - MaxBarriers ELSE 0>>

ThiefOptions(k) ==
  {[token |-> t, cell |-> Towards(k.pos, t)] : t \in LegalTokenSet(k.pos, k.barriers)}

ThiefBest(k, cop, pool) ==
  FirstGreatest({[action |-> MoveTo(o.token), order |-> Rank(o.token),
                  score |-> ThiefScore(o, k, cop)] : o \in pool}).action

ThiefFlees(k, cop) ==
  ThiefBest(k, cop, Preferred(ThiefOptions(k), cop, Lead(cop, k.last, k.barriers),
                              k.lastMove, k.barriers))

ChooseThief(k) ==
  ThiefFlees(k, Or(k.known, IF k.field = NoScent THEN Or(k.last, k.oppStart)
                            ELSE Peak(k.field)))

-----------------------------------------------------------------------------
(***************************************************************************)
(* The CompatibilityStrategySession of one live peer, by its support: the  *)
(* cells its hypotheses about the opponent stand on.  A hypothesis also    *)
(* has a weight, a family, a scent and a heading, and several share a      *)
(* cell; weights are floating point.  So any choice by weight is any       *)
(* choice: the hypotheses that truncation keeps, and an option by score    *)
(* among those that the code scores.  What is exact is what can never be   *)
(* kept or chosen: the masks, the vetoes and the bounds.                   *)
(***************************************************************************)
CONSTANT ParticleCount   \* profile.particle_count

ASSUME ParticleAssumption == ParticleCount \in Nat \ {0}

\* start_subgame; cut: history, did truncation drop a cell?
Hypotheses(cells) == [cells |-> cells, cut |-> FALSE]

\* Mutant: hypotheses keep the cell they had when the opponent moved.
StepsNowhere(cell, message, barriers) ==
  IF message.claim = {} THEN {cell} ELSE {cell} \cap message.claim

\* observe: a hypothesis takes a step its barriers allow, or none when a barrier was
\* placed, and must meet the claim if there is one.
Steps(cell, message, barriers) ==
  LET moves == IF message.barrier # {} THEN {cell} ELSE LegalCells(cell, barriers)
  IN  IF message.claim = {} THEN moves ELSE moves \cap message.claim

\* A claim that no hypothesis meets replaces them all.
Candidates(cells, message, barriers) ==
  LET met == UNION {Steps(c, message, barriers) : c \in cells}
  IN  IF met = {} THEN message.claim ELSE met

\* Hypotheses on a barrier are dropped; when none is left the opponent is back at its start.
Unbarred(cells, barriers, oppStart) ==
  IF cells \subseteq barriers THEN {oppStart} ELSE cells \ barriers

\* Mutant: the claim is not looked at.
ObservedUnclaimed(support, message, barriers, oppStart) ==
  LET all == Unbarred(Candidates(support.cells, [message EXCEPT !.claim = {}], barriers),
                      barriers, oppStart)
      kept == {s \in SUBSET all : s # {} /\ Cardinality(s) <= ParticleCount}
  IN  {[cells |-> s, cut |-> support.cut \/ s # all] : s \in kept}

(***************************************************************************)
(* _resample: the heaviest particle_count hypotheses are kept, and with    *)
(* them any of the cells, which need not include the heaviest cell, nor    *)
(* the opponent's.                                                         *)
(***************************************************************************)
Observed(support, message, barriers, oppStart) ==
  LET all == Unbarred(Candidates(support.cells, message, barriers), barriers, oppStart)
      kept == {s \in SUBSET all : s # {} /\ Cardinality(s) <= ParticleCount}
  IN  {[cells |-> s, cut |-> support.cut \/ s # all] : s \in kept}

\* _posterior: the barriers may have changed since.
Posterior(k) == Unbarred(k.support.cells, k.barriers, k.oppStart)

----------------------------------------------------------------------------
(* _decide_thief: an option the Police can reach at once is vetoed, unless *)
(* there is no other.  The Police claims its cell every turn, so that the  *)
(* posterior is one cell and its mass above both thresholds.               *)

Threatened(cell, posterior, barriers) ==
  \E c \in posterior : cell \in LegalCells(c, barriers)

\* Mutant: the veto is left out.
ThiefPoolUnvetoed(k, posterior) == LegalTokenSet(k.pos, k.barriers)

ThiefPool(k, posterior) ==
  LET tokens == LegalTokenSet(k.pos, k.barriers)
      safe == {t \in tokens : ~Threatened(Towards(k.pos, t), posterior, k.barriers)}
  IN  IF safe = {} THEN tokens ELSE safe

SessionThief(k) ==
  {MoveTo(t) : t \in ThiefPool(k, Posterior(k))}

----------------------------------------------------------------------------
(* _decide_police: every legal move is scored, and a barrier that leaves   *)
(* the Police its room and a way, when it may capture or cuts enough.      *)

WorthBarring(k, cell, thief) ==
  LET updated == k.barriers \cup {cell}
  IN  \/ cell = thief
      \/ /\ Reachable(k.pos, updated) >= 6
         /\ DistanceOrFar(k.pos, thief, updated) # Far
         /\ Reachable(thief, k.barriers) - Reachable(thief, updated) >= 2

SessionBarriers(k) ==
  IF k.used >= MaxBarriers THEN {}
  ELSE {c \in Around(k.pos, k.barriers) :
          \E thief \in Posterior(k) : WorthBarring(k, c, thief)}

SessionPolice(k) ==
  {MoveTo(t) : t \in LegalTokenSet(k.pos, k.barriers)}
  \cup {Bar(c) : c \in SessionBarriers(k)}

============================================================================
