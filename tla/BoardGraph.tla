---------------------------- MODULE BoardGraph ----------------------------
(***************************************************************************)
(* The graph questions the brains ask of the public board (domain/graph):  *)
(* components, distances, articulation points and routes to the boundary,  *)
(* each against its definition.  The order in which neighbours are visited *)
(* is the one of Board.neighbors.                                          *)
(***************************************************************************)
EXTENDS GameDomain, SequencesExt, FiniteSetsExt

NeighborSeq(p, barriers) ==
  LET targets == <<Target(p, "N"), Target(p, "S"), Target(p, "E"), Target(p, "W")>>
      Passable(t) == t \in Neighbors(p, barriers)
  IN  SelectSeq(targets, Passable)

----------------------------------------------------------------------------
(* Breadth first: a queue of cells and what was recorded for each of them *)

RECURSIVE BreadthFirst(_, _, _)

\* distances and pending of distance_map, one turn of its loop after another.
BreadthFirst(distances, pending, barriers) ==
  IF pending = <<>> THEN distances
  ELSE LET current == Head(pending)
           New(t) == t \notin DOMAIN distances
           found == SelectSeq(NeighborSeq(current, barriers), New)
           next == distances @@ [c \in ToSet(found) |-> distances[current] + 1]
       IN  BreadthFirst(next, Tail(pending) \o found, barriers)

\* Mutant: a walk may start on a barrier.
DistanceMapFromAnywhere(start, barriers) ==
  BreadthFirst([c \in {start} |-> 0], <<start>>, barriers)

DistanceMap(start, barriers) ==
  IF start \in barriers THEN [c \in {} |-> 0]
  ELSE BreadthFirst([c \in {start} |-> 0], <<start>>, barriers)

\* The cells connected_component reaches are those distance_map measures.
ConnectedComponent(start, barriers) == DOMAIN DistanceMap(start, barriers)

Before(p, q) == p[1] < q[1] \/ (p[1] = q[1] /\ p[2] < q[2])

RowMajorFirst(cells) == CHOOSE p \in cells : \A q \in cells \ {p} : Before(p, q)

RECURSIVE Components(_, _)

Components(remaining, barriers) ==
  IF remaining = {} THEN <<>>
  ELSE LET component == ConnectedComponent(RowMajorFirst(remaining), barriers)
       IN  <<component>> \o Components(remaining \ component, barriers)

ConnectedComponents(barriers) == Components(Cells \ barriers, barriers)

\* Board.cells, in row-major order.
BoardCells == [i \in 1 .. Size * Size |-> <<(i - 1) \div Size, (i - 1) % Size>>]

----------------------------------------------------------------------------
(* Articulation points: one depth-first visit, its children in turn *)

Smaller(a, b) == IF a < b THEN a ELSE b

RECURSIVE Visit(_, _, _), VisitChildren(_, _, _, _, _)

\* walk is [discovery, low, parents, points] of articulation_points.
Visit(walk, position, barriers) ==
  LET number == Cardinality(DOMAIN walk.discovery)
      entered == [walk EXCEPT !.discovery = @ @@ (position :> number),
                              !.low = @ @@ (position :> number)]
  IN  VisitChildren(entered, position, NeighborSeq(position, barriers), 0, barriers)

VisitChildren(walk, position, neighbors, children, barriers) ==
  IF neighbors = <<>>
    THEN IF position \notin DOMAIN walk.parents /\ children > 1
           THEN [walk EXCEPT !.points = @ \cup {position}] ELSE walk
    ELSE
      LET neighbor == Head(neighbors)
          IsParent == /\ position \in DOMAIN walk.parents
                      /\ walk.parents[position] = neighbor
          \* A neighbour not yet discovered: a child of the walk.
          below == Visit([walk EXCEPT !.parents = @ @@ (neighbor :> position)],
                         neighbor, barriers)
          cuts == /\ position \in DOMAIN below.parents
                  /\ below.low[neighbor] >= below.discovery[position]
          child == [below EXCEPT
                      !.low[position] = Smaller(@, below.low[neighbor]),
                      !.points = IF cuts THEN @ \cup {position} ELSE @]
          back == [walk EXCEPT !.low[position] = Smaller(@, walk.discovery[neighbor])]
      IN  CASE neighbor \notin DOMAIN walk.discovery ->
                 VisitChildren(child, position, Tail(neighbors), children + 1, barriers)
            [] neighbor \in DOMAIN walk.discovery /\ ~IsParent ->
                 VisitChildren(back, position, Tail(neighbors), children, barriers)
            [] OTHER -> VisitChildren(walk, position, Tail(neighbors), children, barriers)

ArticulationPoints(barriers) ==
  LET nothing == [c \in {} |-> 0]
      start == [discovery |-> nothing, low |-> nothing, parents |-> nothing, points |-> {}]
      Root(walk, position) ==
        IF position \in barriers \cup DOMAIN walk.discovery THEN walk
        ELSE Visit(walk, position, barriers)
  IN  FoldLeft(Root, start, BoardCells).points

----------------------------------------------------------------------------
(* Routes to the boundary *)

IsBoundary(p) == p[1] \in {0, Size - 1} \/ p[2] \in {0, Size - 1}

RECURSIVE EscapePath(_, _, _)

\* The parents of _escape_path are kept as the path that led to each cell.
EscapePath(pending, seen, blocked) ==
  IF pending = <<>> THEN <<>>
  ELSE LET path == Head(pending)
           current == Last(path)
           New(t) == t \notin seen
           found == SelectSeq(NeighborSeq(current, blocked), New)
           longer == [i \in DOMAIN found |-> Append(path, found[i])]
       IN  IF IsBoundary(current) THEN path
           ELSE EscapePath(Tail(pending) \o longer, seen \cup ToSet(found), blocked)

\* Greedy: every neighbour of the start in turn, around the routes so far.
EscapeRoutes(start, barriers) ==
  LET base == barriers \ {start}
      Reserved(routes) == UNION {ToSet(routes[i]) : i \in DOMAIN routes}
      Try(routes, neighbor) ==
        LET path == EscapePath(<<<<neighbor>>>>, {neighbor},
                               base \cup Reserved(routes) \cup {start})
        IN  IF neighbor \in Reserved(routes) \/ path = <<>> THEN routes
            ELSE Append(routes, <<start>> \o path)
  IN  IF IsBoundary(start) THEN <<<<start>>>>
      ELSE FoldLeft(Try, <<>>, NeighborSeq(start, base))

----------------------------------------------------------------------------
(* What the answers mean *)

Adjacent(p, q) == q \in Neighbors(p, {})

\* No part of a connected set of cells is without an edge to the rest of it.
Connected(cells) ==
  \A part \in SUBSET cells \ {{}, cells} :
     \E p \in part, q \in cells \ part : Adjacent(p, q)

ComponentsMatch(barriers) ==
  LET components == ConnectedComponents(barriers)
  IN  /\ UNION ToSet(components) = Cells \ barriers
      /\ \A i \in DOMAIN components : components[i] # {} /\ Connected(components[i])
      /\ \A i, j \in DOMAIN components : i # j =>
           \A p \in components[i], q \in components[j] : p # q /\ ~Adjacent(p, q)

\* Bellman's equations have the distances as their only solution.
DistancesMatch(start, barriers) ==
  LET d == DistanceMap(start, barriers)
  IN  \A p \in DOMAIN d :
        IF p = start THEN d[p] = 0
        ELSE /\ Neighbors(p, barriers) \subseteq DOMAIN d
             /\ d[p] = 1 + Min({d[q] : q \in Neighbors(p, barriers)})

ArticulationMatches(barriers) ==
  LET Parts(b) == Len(ConnectedComponents(b))
  IN  ArticulationPoints(barriers) =
        {p \in Cells \ barriers : Parts(barriers \cup {p}) > Parts(barriers)}

RoutesMatch(start, barriers) ==
  LET routes == EscapeRoutes(start, barriers)
      open == barriers \ {start}
  IN  /\ \A i \in DOMAIN routes :
           LET r == routes[i]
           IN  /\ r[1] = start /\ IsBoundary(Last(r))
               /\ IsInjective(r) /\ ToSet(r) \cap open = {}
               /\ \A k \in 1 .. Len(r) - 1 : Adjacent(r[k], r[k + 1])
      /\ \A i, j \in DOMAIN routes :
           i # j => ToSet(routes[i]) \cap ToSet(routes[j]) = {start}
      /\ routes = <<>> <=> ~\E p \in ConnectedComponent(start, open) : IsBoundary(p)

(***************************************************************************)
(* For one set of barriers: the components are the maximal connected sets, *)
(* the distances solve Bellman's equations, the articulation points are    *)
(* the cells whose removal adds a component, and the escape routes are     *)
(* disjoint paths, at least one if there is a way out at all               *)
(* (graph.py:9-172).                                                       *)
(***************************************************************************)
AnswersMatch(barriers) ==
  /\ ComponentsMatch(barriers)
  /\ ArticulationMatches(barriers)
  /\ \A start \in Cells : DistancesMatch(start, barriers) /\ RoutesMatch(start, barriers)

============================================================================
