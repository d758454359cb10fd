----------------------------- MODULE LiveBoard -----------------------------
(***************************************************************************)
(* The board of the live wire and of its training arena: moves, paths and  *)
(* regions.  The code has it three times, in adapters/amireman/            *)
(* strategy_grid.py, in strategy/compatibility_graph.py for the session    *)
(* and in experiments/compatibility_grid.py for the arena; they differ in  *)
(* what a search from a barred cell answers, and each difference is a      *)
(* definition here.  A search that finds nothing answers Far.              *)
(***************************************************************************)
EXTENDS Integers, FiniteSets, Sequences

CONSTANTS
  Size,         \* board_size
  MaxBarriers   \* barriers_max

ASSUME BoardAssumption == Size \in Nat \ {0} /\ MaxBarriers \in Nat

Cells == (0 .. Size - 1) \X (0 .. Size - 1)

Far == Size * Size

Tokens == <<"STAY", "N", "S", "E", "W">>

Delta == [STAY |-> <<0, 0>>, N |-> <<-1, 0>>, S |-> <<1, 0>>, E |-> <<0, 1>>, W |-> <<0, -1>>]

Towards(cell, token) == <<cell[1] + Delta[token][1], cell[2] + Delta[token][2]>>

Passable(cell, barriers) == cell \in Cells /\ cell \notin barriers

\* STAY is legal on a barred cell as well.
LegalTokenSet(cell, barriers) ==
  {t \in DOMAIN Delta : t = "STAY" \/ Passable(Towards(cell, t), barriers)}

\* Where a token stands in the order of the code.
Rank(token) == CHOOSE i \in DOMAIN Tokens : Tokens[i] = token

LegalCells(cell, barriers) == {Towards(cell, t) : t \in LegalTokenSet(cell, barriers)}

OnBoard(cell) == {Towards(cell, t) : t \in {"N", "S", "E", "W"}} \cap Cells

Around(cell, barriers) == OnBoard(cell) \ barriers

Degree(cell, barriers) == Cardinality(Around(cell, barriers))

Abs(n) == IF n < 0 THEN -n ELSE n

Manhattan(a, b) == Abs(a[1] - b[1]) + Abs(a[2] - b[2])

Chebyshev(a, b) ==
  LET rows == Abs(a[1] - b[1])
      cols == Abs(a[2] - b[2])
  IN  IF rows > cols THEN rows ELSE cols

\* On how many of the two axes a cell touches the edge.
Edges(cell) ==
  Cardinality({axis \in 1 .. 2 : cell[axis] \in {0, Size - 1}})

----------------------------------------------------------------------------
(* Breadth-first search, level by level, from a start that may be barred.  *)

DistancesFrom(start, barriers) ==
  LET Next(found, k) ==
        UNION {Around(c, barriers) : c \in {d \in DOMAIN found : found[d] = k - 1}}
          \ DOMAIN found
      Widen(found, k, next) ==
        [c \in DOMAIN found \cup next |-> IF c \in next THEN k ELSE found[c]]
      Level[k \in 0 .. Far] ==
        IF k = 0 THEN [c \in {start} |-> 0]
        ELSE LET found == Level[k - 1] IN Widen(found, k, Next(found, k))
  IN  Level[Far]

BarrierSets == {b \in SUBSET Cells : Cardinality(b) <= MaxBarriers}

\* Every search of a game, done once.
Distances == [b \in BarrierSets |-> [c \in Cells |-> DistancesFrom(c, b)]]

\* The session's and the arena's distance: the start is not looked at.
DistanceOrFar(start, goal, barriers) ==
  IF start = goal THEN 0
  ELSE IF goal \in DOMAIN Distances[barriers][start]
         THEN Distances[barriers][start][goal] ELSE Far

\* The police policy's: a barred start reaches nothing but itself.
BfsLength(start, goal, barriers) ==
  IF start # goal /\ start \in barriers THEN Far ELSE DistanceOrFar(start, goal, barriers)

Reachable(start, barriers) ==
  IF Passable(start, barriers) THEN Cardinality(DOMAIN Distances[barriers][start]) ELSE 0

(***************************************************************************)
(* The next cell on the path that the search's parents describe: the first *)
(* direction, in the order of the code, that begins a shortest path.  Only *)
(* asked when the goal is reachable.                                       *)
(***************************************************************************)
PathNext(start, goal, barriers) ==
  LET Onward(t) ==
        /\ Passable(Towards(start, t), barriers)
        /\ DistanceOrFar(Towards(start, t), goal, barriers)
             = DistanceOrFar(start, goal, barriers) - 1
      i == CHOOSE n \in 2 .. 5 : Onward(Tokens[n]) /\ \A m \in 2 .. n - 1 : ~Onward(Tokens[m])
  IN  IF start = goal THEN start ELSE Towards(start, Tokens[i])

----------------------------------------------------------------------------
(* Choosing by tuples, as Python compares them *)

Less(a, b) ==
  \E i \in DOMAIN a : a[i] < b[i] /\ \A j \in 1 .. i - 1 : a[j] = b[j]

The(set) == CHOOSE x \in set : TRUE

\* The options that keep a preference, or all of them.
Prefer(pool, kept) == IF kept = {} THEN pool ELSE kept

\* max(scored, key=...): the first of the greatest.
FirstGreatest(scored) ==
  LET greatest == {o \in scored : \A p \in scored : ~Less(o.score, p.score)}
      first == {o \in greatest : \A p \in greatest : o.order <= p.order}
  IN  The(Prefer(scored, first))

Bit(condition) == IF condition THEN 1 ELSE 0

============================================================================
