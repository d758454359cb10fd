--------------------------- MODULE LiveGameProofs ---------------------------
(***************************************************************************)
(* What LiveGame guarantees for every board, quota, ceiling and pair of    *)
(* starting cells, whichever brains play: the sides conclude what a        *)
(* referee would, what each believes keeps up with the board, a Thief that *)
(* can get away does, and the game is one of the arena.                    *)
(***************************************************************************)
EXTENDS LiveGame, FiniteSetTheorems, SequenceTheorems, TLAPS

-----------------------------------------------------------------------------
(* The board. *)

LEMMA Directions == DOMAIN Delta = {"STAY", "N", "S", "E", "W"}
  BY DEF Delta

\* Where a token leads, as numbers.
LEMMA Destinations ==
  ASSUME NEW c \in Cells
  PROVE  /\ Towards(c, "STAY") = c
         /\ Towards(c, "N") = <<c[1] - 1, c[2]>>
         /\ Towards(c, "S") = <<c[1] + 1, c[2]>>
         /\ Towards(c, "E") = <<c[1], c[2] + 1>>
         /\ Towards(c, "W") = <<c[1], c[2] - 1>>
  BY BoardAssumption DEF Towards, Delta, Cells

LEMMA Neighbours ==
  ASSUME NEW c \in Cells
  PROVE  OnBoard(c) =
           {<<c[1] - 1, c[2]>>, <<c[1] + 1, c[2]>>, <<c[1], c[2] + 1>>, <<c[1], c[2] - 1>>}
             \cap Cells
  BY Destinations DEF OnBoard

\* A legal token stays on the board and leads to a cell that is free, or stays.
LEMMA LegalMoves ==
  ASSUME NEW c \in Cells, NEW barriers, NEW t \in LegalTokenSet(c, barriers)
  PROVE  /\ Towards(c, t) \in Cells
         /\ Towards(c, t) \in LegalCells(c, barriers)
         /\ c \notin barriers => Towards(c, t) \notin barriers
         /\ t # "STAY" => Passable(Towards(c, t), barriers)
  BY Destinations DEF LegalTokenSet, LegalCells, Passable

LEMMA StayIsLegal ==
  ASSUME NEW c \in Cells, NEW barriers
  PROVE  /\ "STAY" \in LegalTokenSet(c, barriers)
         /\ c \in LegalCells(c, barriers)
  BY Directions, Destinations DEF LegalTokenSet, LegalCells

\* The neighbours of a cell are a legal move away, and it from them.
LEMMA AroundIsLegal ==
  ASSUME NEW c \in Cells, NEW barriers, NEW d \in Around(c, barriers)
  PROVE  /\ d \in LegalCells(c, barriers) /\ d \in Cells /\ d \notin barriers /\ d # c
         /\ c \notin barriers => c \in Around(d, barriers)
<1>1. d \in Cells /\ d \notin barriers
  BY DEF Around, OnBoard
<1>2. PICK t \in {"N", "S", "E", "W"} : d = Towards(c, t)
  BY DEF Around, OnBoard
<1>3. d \in LegalCells(c, barriers)
  BY <1>1, <1>2, Directions DEF LegalCells, LegalTokenSet, Passable
<1>4. d # c
  BY <1>2, Destinations, BoardAssumption DEF Cells
<1>5. c = <<c[1], c[2]>> /\ c[1] \in Int /\ c[2] \in Int
  BY BoardAssumption DEF Cells
<1>6. c \in OnBoard(d)
  <2>1. CASE t = "N"
    BY <2>1, <1>1, <1>2, <1>5, Destinations, Neighbours
  <2>2. CASE t = "S"
    BY <2>2, <1>1, <1>2, <1>5, Destinations, Neighbours
  <2>3. CASE t = "E"
    BY <2>3, <1>1, <1>2, <1>5, Destinations, Neighbours
  <2>4. CASE t = "W"
    BY <2>4, <1>1, <1>2, <1>5, Destinations, Neighbours
  <2>5. QED
    BY <1>2, <2>1, <2>2, <2>3, <2>4
<1>7. QED
  BY <1>1, <1>3, <1>4, <1>6 DEF Around

\* A cell that is free and not a legal move away is not next to it.
LEMMA OutOfReach ==
  ASSUME NEW c \in Cells, NEW d \in Cells, NEW barriers, d \notin barriers,
         d \notin LegalCells(c, barriers)
  PROVE  d # c /\ Manhattan(d, c) >= 2
<1>1. d # c
  BY StayIsLegal
<1>2. d \notin OnBoard(c)
  BY AroundIsLegal DEF Around
<1>3. c = <<c[1], c[2]>> /\ c[1] \in Int /\ c[2] \in Int
  BY BoardAssumption DEF Cells
<1>4. d = <<d[1], d[2]>> /\ d[1] \in Int /\ d[2] \in Int
  BY BoardAssumption DEF Cells
<1>5. /\ ~(d[1] = c[1] - 1 /\ d[2] = c[2]) /\ ~(d[1] = c[1] + 1 /\ d[2] = c[2])
      /\ ~(d[1] = c[1] /\ d[2] = c[2] + 1) /\ ~(d[1] = c[1] /\ d[2] = c[2] - 1)
      /\ ~(d[1] = c[1] /\ d[2] = c[2])
  BY <1>1, <1>2, <1>3, <1>4, Neighbours
<1>6. QED
  BY <1>1, <1>3, <1>4, <1>5 DEF Manhattan, Abs

\* Who moves leaves a free cell behind it, or has the exits it had.
LEMMA MovesKeepExits ==
  ASSUME NEW c \in Cells, NEW barriers, c \notin barriers, Around(c, barriers) # {},
         NEW t \in LegalTokenSet(c, barriers)
  PROVE  Around(Towards(c, t), barriers) # {}
<1>1. CASE t = "STAY"
  BY <1>1, Destinations
<1>2. CASE t # "STAY"
  <2>1. t \in {"N", "S", "E", "W"}
    BY <1>2, Directions DEF LegalTokenSet
  <2>2. Towards(c, t) \in Around(c, barriers)
    BY <2>1, <1>2, LegalMoves DEF Around, OnBoard, Passable
  <2>3. QED
    BY <2>2, AroundIsLegal
<1>3. QED
  BY <1>1, <1>2

\* Where two can stand apart, every cell has a neighbour.
LEMMA BoardHasExits ==
  ASSUME NEW c \in Cells, NEW d \in Cells, c # d
  PROVE  Around(c, {}) # {}
<1>1. Size >= 2
  BY BoardAssumption DEF Cells
<1>2. c = <<c[1], c[2]>> /\ c[1] \in 0 .. Size - 1 /\ c[2] \in 0 .. Size - 1
  BY DEF Cells
<1>3. <<c[1] - 1, c[2]>> \in Cells \/ <<c[1] + 1, c[2]>> \in Cells
  BY <1>1, <1>2, BoardAssumption DEF Cells
<1>4. QED
  BY <1>3, Neighbours DEF Around

-----------------------------------------------------------------------------
(* What the brains choose. *)

LEMMA TheOne == \A x : The({x}) = x
  BY DEF The

LEMMA TheIsIn ==
  ASSUME NEW S, S # {}
  PROVE  The(S) \in S
  BY DEF The

LEMMA GreatestIsIn ==
  ASSUME NEW scored, scored # {}
  PROVE  FirstGreatest(scored) \in scored
<1> DEFINE greatest == {o \in scored : \A p \in scored : ~Less(o.score, p.score)}
           first == {o \in greatest : \A p \in greatest : o.order <= p.order}
<1>1. FirstGreatest(scored) = The(Prefer(scored, first))
  BY DEF FirstGreatest
<1>2. first \subseteq scored
  OBVIOUS
<1>3. Prefer(scored, first) # {} /\ Prefer(scored, first) \subseteq scored
  BY <1>2 DEF Prefer
<1>4. QED
  BY <1>1, <1>3, TheIsIn

LEMMA ChosenIsAnOption ==
  ASSUME NEW k, NEW cop, NEW pool, pool # {}
  PROVE  \E o \in pool : ThiefBest(k, cop, pool) = MoveTo(o.token)
<1> DEFINE scored == {[action |-> MoveTo(o.token), order |-> Rank(o.token),
                       score |-> ThiefScore(o, k, cop)] : o \in pool}
<1>1. ThiefBest(k, cop, pool) = FirstGreatest(scored).action
  BY DEF ThiefBest
<1>2. scored # {}
  OBVIOUS
<1>3. FirstGreatest(scored) \in scored
  BY <1>2, GreatestIsIn
<1> HIDE DEF scored
<1>4. PICK o \in pool : FirstGreatest(scored) =
        [action |-> MoveTo(o.token), order |-> Rank(o.token), score |-> ThiefScore(o, k, cop)]
  BY <1>3 DEF scored
<1>5. FirstGreatest(scored).action = MoveTo(o.token)
  BY <1>4
<1>6. QED
  BY <1>1, <1>5

\* Preferences narrow the pool to a part that is not empty; while there is an
\* option two cells away from the Police, to such options.
LEMMA NarrowedPool ==
  ASSUME NEW pool, NEW kept, pool # {}, kept \subseteq pool
  PROVE  Prefer(pool, kept) # {} /\ Prefer(pool, kept) \subseteq pool
  BY DEF Prefer

LEMMA PreferredPool ==
  ASSUME NEW pool, pool # {}, NEW cop, NEW projected, NEW lastMove, NEW barriers
  PROVE  LET preferred == Preferred(pool, cop, projected, lastMove, barriers)
         IN  /\ preferred # {} /\ preferred \subseteq pool
             /\ (\E o \in pool : o.cell # cop /\ Manhattan(o.cell, cop) >= 2) =>
                  \A o \in preferred : Manhattan(o.cell, cop) >= 2
<1> DEFINE away == Prefer(pool, {o \in pool : o.cell # cop})
           apart == Prefer(away, {o \in away : Manhattan(o.cell, cop) >= 2})
           walked == Prefer(apart, {o \in apart : Gap(cop, o.cell, barriers) >= 2})
           edged == Prefer(walked, {o \in walked : Edges(o.cell) < 2})
           inside == Prefer(edged, {o \in edged : Edges(o.cell) = 0})
           aside == Prefer(inside, {o \in inside : o.cell # projected})
           ahead == Prefer(aside, {o \in aside : Gap(projected, o.cell, barriers) >= 2})
           fresh == Prefer(ahead, {o \in ahead : o.token # lastMove})
           preferred == Prefer(fresh, {o \in fresh : o.token # "STAY"})
<1>1. Preferred(pool, cop, projected, lastMove, barriers) = preferred
  BY DEF Preferred
<1>2. away # {} /\ away \subseteq pool
  BY NarrowedPool
<1>3. (\E o \in pool : o.cell # cop /\ Manhattan(o.cell, cop) >= 2) =>
        \E o \in away : Manhattan(o.cell, cop) >= 2
  BY DEF Prefer
<1> HIDE DEF away
<1>4. apart # {} /\ apart \subseteq away
  BY <1>2, NarrowedPool
<1>5. (\E o \in away : Manhattan(o.cell, cop) >= 2) =>
        \A o \in apart : Manhattan(o.cell, cop) >= 2
  BY DEF Prefer
<1> HIDE DEF apart
<1>6. walked # {} /\ walked \subseteq apart
  BY <1>4, NarrowedPool
<1> HIDE DEF walked
<1>7. edged # {} /\ edged \subseteq walked
  BY <1>6, NarrowedPool
<1> HIDE DEF edged
<1>8. inside # {} /\ inside \subseteq edged
  BY <1>7, NarrowedPool
<1> HIDE DEF inside
<1>9. aside # {} /\ aside \subseteq inside
  BY <1>8, NarrowedPool
<1> HIDE DEF aside
<1>10. ahead # {} /\ ahead \subseteq aside
  BY <1>9, NarrowedPool
<1> HIDE DEF ahead
<1>11. fresh # {} /\ fresh \subseteq ahead
  BY <1>10, NarrowedPool
<1> HIDE DEF fresh
<1>12. preferred # {} /\ preferred \subseteq fresh
  BY <1>11, NarrowedPool
<1> HIDE DEF preferred
<1>13. preferred \subseteq apart /\ apart \subseteq pool
  BY <1>2, <1>4, <1>6, <1>7, <1>8, <1>9, <1>10, <1>11, <1>12
<1>14. QED
  BY <1>1, <1>3, <1>5, <1>12, <1>13

\* The cell that a Thief's brain takes for the Police's.
TakesPoliceAt(k, c) ==
  /\ brain["thief"] = "policy" =>
       Or(k.known, IF k.field = NoScent THEN Or(k.last, k.oppStart) ELSE Peak(k.field)) = c
  /\ brain["thief"] = "session" => Posterior(k) = {c}

\* It takes a legal step, and one out of that cell's reach while there is one.
LEMMA ThiefPolicy ==
  ASSUME NEW k, k.pos \in Cells, k.pos \notin k.barriers, NEW c \in Cells
  PROVE  \E t \in LegalTokenSet(k.pos, k.barriers) :
           /\ ThiefFlees(k, c) = MoveTo(t)
           /\ ~(LegalCells(k.pos, k.barriers) \subseteq LegalCells(c, k.barriers)) =>
                Towards(k.pos, t) \notin LegalCells(c, k.barriers)
<1> DEFINE pool == ThiefOptions(k)
           preferred == Preferred(pool, c, Lead(c, k.last, k.barriers), k.lastMove, k.barriers)
<1>1. pool = {[token |-> t, cell |-> Towards(k.pos, t)] : t \in LegalTokenSet(k.pos, k.barriers)}
  BY DEF ThiefOptions
<1>2. pool # {}
  BY <1>1, StayIsLegal
<1>3. \A o \in pool : /\ o.token \in LegalTokenSet(k.pos, k.barriers)
                      /\ o.cell = Towards(k.pos, o.token)
  BY <1>1
<1>4. ThiefFlees(k, c) = ThiefBest(k, c, preferred)
  BY DEF ThiefFlees
<1>5. /\ preferred # {} /\ preferred \subseteq pool
      /\ (\E o \in pool : o.cell # c /\ Manhattan(o.cell, c) >= 2) =>
           \A o \in preferred : Manhattan(o.cell, c) >= 2
  BY <1>2, PreferredPool
<1>6. ASSUME NEW d \in LegalCells(k.pos, k.barriers), d \notin LegalCells(c, k.barriers)
      PROVE  \E o \in pool : o.cell # c /\ Manhattan(o.cell, c) >= 2
  <2>1. PICK t \in LegalTokenSet(k.pos, k.barriers) : d = Towards(k.pos, t)
    BY DEF LegalCells
  <2>2. d \in Cells /\ d \notin k.barriers
    BY <2>1, LegalMoves
  <2>3. d # c /\ Manhattan(d, c) >= 2
    BY <2>2, <1>6, OutOfReach
  <2>4. [token |-> t, cell |-> d] \in pool
    BY <1>1, <2>1
  <2>5. QED
    BY <2>3, <2>4
<1>7. \A d \in LegalCells(c, k.barriers) : ~(Manhattan(d, c) >= 2)
  <2> SUFFICES ASSUME NEW t \in LegalTokenSet(c, k.barriers)
               PROVE  ~(Manhattan(Towards(c, t), c) >= 2)
    BY DEF LegalCells
  <2>1. c[1] \in Int /\ c[2] \in Int /\ c = <<c[1], c[2]>>
    BY BoardAssumption DEF Cells
  <2>2. t \in {"STAY", "N", "S", "E", "W"}
    BY Directions DEF LegalTokenSet
  <2>3. QED
    BY <2>1, <2>2, Destinations DEF Manhattan, Abs
<1> HIDE DEF pool, preferred
<1>8. PICK o \in preferred : ThiefBest(k, c, preferred) = MoveTo(o.token)
  BY <1>5, ChosenIsAnOption
<1>9. o \in pool
  BY <1>5
<1>10. QED
  BY <1>3, <1>4, <1>5, <1>6, <1>7, <1>8, <1>9

LEMMA ThiefChoice ==
  ASSUME NEW k, k.pos \in Cells, k.pos \notin k.barriers, NEW c \in Cells, TakesPoliceAt(k, c),
         brain["thief"] \in {"policy", "session"},
         NEW n, NEW action \in Choices("thief", k, n)
  PROVE  \E t \in LegalTokenSet(k.pos, k.barriers) :
           /\ action = MoveTo(t)
           /\ ~(LegalCells(k.pos, k.barriers) \subseteq LegalCells(c, k.barriers)) =>
                Towards(k.pos, t) \notin LegalCells(c, k.barriers)
<1>1. CASE brain["thief"] = "policy"
  <2>1. action = ThiefFlees(k, c)
    BY <1>1 DEF Choices, ChooseThief, TakesPoliceAt
  <2>2. QED
    BY <2>1, ThiefPolicy
<1>2. CASE brain["thief"] = "session"
  <2>1. action \in SessionThief(k) /\ Posterior(k) = {c}
    BY <1>2 DEF Choices, TakesPoliceAt
  <2>2. PICK t \in ThiefPool(k, {c}) : action = MoveTo(t)
    BY <2>1 DEF SessionThief
  <2>3. QED
    BY <2>2 DEF ThiefPool, Threatened, LegalCells
<1>3. QED
  BY <1>1, <1>2

\* The Police takes a legal step or bars a free cell next to it.
LEMMA PolicePolicy ==
  ASSUME NEW k, k.pos \in Cells, NEW n, NEW target, NEW intercept
  PROVE  \/ \E t \in LegalTokenSet(k.pos, k.barriers) : PoliceBest(k, n, target, intercept) = MoveTo(t)
         \/ \E d \in Around(k.pos, k.barriers) : PoliceBest(k, n, target, intercept) = Bar(d)
<1> DEFINE moves == PoliceMoves(k.pos, target, intercept, k.barriers)
           bars == IF MayBar(k, n, BfsLength(k.pos, intercept, k.barriers))
                     THEN PoliceBarriers(k.pos, target, intercept, k.barriers) ELSE {}
           best == FirstGreatest(moves \cup bars)
<1>1. PoliceBest(k, n, target, intercept) = best.action
  BY DEF PoliceBest
<1>2. moves # {}
  BY StayIsLegal DEF PoliceMoves
<1>3. \A o \in moves : \E t \in LegalTokenSet(k.pos, k.barriers) : o.action = MoveTo(t)
  BY DEF PoliceMoves
<1>4. \A o \in PoliceBarriers(k.pos, target, intercept, k.barriers) :
        \E d \in Around(k.pos, k.barriers) : o.action = Bar(d)
  <2> DEFINE occupy == LegalCells(k.pos, k.barriers) \cap {target, intercept} # {}
             wanted == {t \in BarrierTargets(k.pos, k.barriers) :
                          /\ ~(occupy /\ Towards(k.pos, t) \in {target, intercept})
                          /\ UsefulBarrier(k.pos, Towards(k.pos, t), target, intercept, k.barriers)}
  <2>1. \A t \in wanted : Towards(k.pos, t) \in Around(k.pos, k.barriers)
    BY DEF BarrierTargets, Passable, Around, OnBoard
  <2>2. \A o \in PoliceBarriers(k.pos, target, intercept, k.barriers) :
          \E t \in wanted : o.action = Bar(Towards(k.pos, t))
    BY DEF PoliceBarriers
  <2> HIDE DEF wanted
  <2>3. QED
    BY <2>1, <2>2
<1> HIDE DEF moves
<1>5. \A o \in bars : \E d \in Around(k.pos, k.barriers) : o.action = Bar(d)
  BY <1>4
<1> HIDE DEF bars
<1>6. best \in moves \cup bars
  BY <1>2, GreatestIsIn
<1> HIDE DEF best
<1>7. QED
  BY <1>1, <1>3, <1>5, <1>6

LEMMA PoliceChoice ==
  ASSUME NEW k, k.pos \in Cells, brain["police"] \in {"policy", "session"},
         NEW n, NEW action \in Choices("police", k, n)
  PROVE  \/ \E t \in LegalTokenSet(k.pos, k.barriers) : action = MoveTo(t)
         \/ \E d \in Around(k.pos, k.barriers) : action = Bar(d)
<1>1. CASE brain["police"] = "policy"
  BY <1>1, PolicePolicy DEF Choices, ChoosePolice, PoliceAims
<1>2. CASE brain["police"] = "session"
  <2>1. action \in SessionPolice(k)
    BY <1>2 DEF Choices
  <2>2. QED
    BY <2>1 DEF SessionPolice, SessionBarriers
<1>3. QED
  BY <1>1, <1>2

-----------------------------------------------------------------------------
(* The invariant. *)

Police == half["police"]
Thief == half["thief"]

\* The token of the game: the turn that waits for a side.
ForPolice == wire["police"][1]
ForThief == wire["thief"][1]

\* It is the only one on the wire.
Waits(r, message) == Len(wire[r]) = 1 /\ wire[r] = <<message>> /\ wire[Other(r)] = <<>>

HalfFields ==
  {"pos", "oppStart", "barriers", "used", "field", "own", "known", "last", "lastMove", "step",
   "pending", "records", "support"}

Answers == [claim : Cells, caught : BOOLEAN]

SealedRecords ==
  [step : Nat, role : Roles, pos : Cells, move : DOMAIN Delta, barrier : SUBSET Cells,
   claim : SUBSET Cells, response : SUBSET Answers, closing : BOOLEAN]

\* Of a half: its fields, where it stands, and what it has sealed.
IsHalf(k) ==
  /\ k = [f \in HalfFields |-> k[f]]
  /\ k.pos \in Cells
  /\ k.oppStart \in Cells
  /\ k.step \in Nat
  /\ k.records \in Seq(SealedRecords)
  /\ Len(k.records) = k.step

TypeInv ==
  /\ brain \in [Roles -> {"policy", "session"}]
  /\ half = [r \in Roles |-> half[r]]
  /\ wire = [r \in Roles |-> wire[r]]
  /\ played \in [Roles -> Seq(SealedRecords)]
  /\ result \in [Roles -> {"none", "capture", "survival"}]
  /\ \A r \in Roles : IsHalf(half[r]) /\ half[r].pending = {}

\* The records of a half: one for each step, the first n of turns and the rest closing.
SealedInOrder(k, n) ==
  \A i \in 1 .. k.step : k.records[i].step = i /\ (k.records[i].closing <=> i > n)

\* A side has played the first n commits of the other, as they were sealed.
HasPlayed(r, n) ==
  /\ Len(played[r]) = n
  /\ \A i \in 1 .. n : played[r][i] = half[Other(r)].records[i]

\* Nothing is known to a Thief that could have got away and is next to the Police.
Escapes == ~cornered => Thief.pos \notin LegalCells(Police.pos, Police.barriers)

NotTaken == ~cornered => Thief.pos # Police.pos /\ Thief.pos \notin Police.barriers

Sees(r, cells) == brain[r] = "session" => cells

\* Of hypotheses that truncation has not touched.
Uncut(k, cells) == ~k.support.cut => cells

\* One of them can step to where the Thief is.
StepsTo(k) == \E c \in k.support.cells : Thief.pos \in LegalCells(c, Police.barriers)

Free(cell) == cell \notin Police.barriers

\* What makes a capture once the Police has acted.
TakenOnBoard ==
  \/ Thief.pos = Police.pos
  \/ Thief.pos \in Police.barriers
  \/ Around(Thief.pos, Police.barriers) = {}

\* Before the first turn.
Opening ==
  /\ wire["police"] = <<>> /\ wire["thief"] = <<>>
  /\ Police.step = 0 /\ Thief.step = 0
  /\ result["police"] = "none" /\ result["thief"] = "none"
  /\ Police.pos # Thief.pos
  /\ Police.barriers = {} /\ Thief.barriers = {}
  /\ Len(played["police"]) = 0 /\ Len(played["thief"]) = 0
  /\ Thief.oppStart = Police.pos /\ Thief.known = {} /\ Thief.last = {} /\ Thief.field = NoScent
  /\ Sees("police", Thief.pos \in Police.support.cells)
  /\ Sees("thief", Thief.support.cells = {Police.pos})

\* The Thief's turn, its last one with a claim of survival, waits for the Police.
PoliceToAct ==
  /\ Waits("police", ForPolice)
  /\ Thief.step = Police.step + 1 /\ Thief.step <= MaxSteps
  /\ SealedInOrder(Police, Police.step) /\ SealedInOrder(Thief, Thief.step)
  /\ HasPlayed("police", Police.step) /\ HasPlayed("thief", Police.step)
  /\ ForPolice.commit = Thief.records[Thief.step]
  /\ ForPolice.claim = {} /\ ForPolice.barrier = {}
  /\ \A a \in ForPolice.response : ~a.caught
  /\ ForPolice.win = IF Thief.step = MaxSteps THEN "survival" ELSE "none"
  /\ result["police"] = "none" /\ result["thief"] = ForPolice.win
  /\ Thief.barriers = Police.barriers
  /\ Free(Police.pos) /\ Free(Thief.pos) /\ Around(Thief.pos, Police.barriers) # {}
  /\ Sees("police", Uncut(Police, StepsTo(Police)))
  /\ Sees("thief", Thief.support.cells = {Police.pos})
  /\ Escapes

\* The Police's turn waits for the Thief, with its claim and what it barred.
ThiefToAct ==
  /\ Waits("thief", ForThief)
  /\ Thief.step = Police.step /\ Police.step > 0 /\ Police.step < MaxSteps
  /\ SealedInOrder(Police, Police.step) /\ SealedInOrder(Thief, Thief.step)
  /\ HasPlayed("police", Police.step) /\ HasPlayed("thief", Police.step - 1)
  /\ ForThief.commit = Police.records[Police.step]
  /\ ForThief.claim = {Police.pos}
  /\ Police.barriers = Thief.barriers \cup ForThief.barrier
  /\ ForThief.win = "none"
  /\ result["police"] = "none" /\ result["thief"] = "none"
  /\ Free(Police.pos) /\ Thief.pos \notin Thief.barriers
  /\ Around(Thief.pos, Thief.barriers) # {}
  /\ Sees("police", Uncut(Police, Thief.pos \in Police.support.cells))
  /\ NotTaken

\* The Thief is captured and has closed its records.
Captured ==
  /\ TakenOnBoard
  /\ Thief.step = Police.step + 1 /\ Police.step > 0
  /\ SealedInOrder(Police, Police.step) /\ SealedInOrder(Thief, Police.step)
  /\ HasPlayed("thief", Police.step)
  /\ result["thief"] = "capture"
  /\ NotTaken

\* Its closing answer waits for the Police.
PoliceToHear ==
  /\ Waits("police", ForPolice)
  /\ Captured
  /\ HasPlayed("police", Police.step)
  /\ ForPolice.commit = Thief.records[Thief.step]
  /\ ForPolice.claim = {} /\ ForPolice.barrier = {}
  /\ \E a \in ForPolice.response : a.caught
  /\ result["police"] = "none"

\* Both sides have their result, and have played all there was to play.
Done ==
  /\ wire["police"] = <<>> /\ wire["thief"] = <<>>
  /\ HasPlayed("police", Thief.step)
  /\ result["police"] = result["thief"]
  /\ \/ Captured
     \/ /\ result["thief"] = "survival"
        /\ Thief.step = MaxSteps /\ Police.step + 1 = MaxSteps
        /\ SealedInOrder(Police, Police.step) /\ SealedInOrder(Thief, Thief.step)
        /\ HasPlayed("thief", Police.step)
        /\ Free(Thief.pos) /\ Around(Thief.pos, Police.barriers) # {}

Phases == Opening \/ PoliceToAct \/ ThiefToAct \/ PoliceToHear \/ Done

IInv == TypeInv /\ Phases

-----------------------------------------------------------------------------
(* What a message and a turn do to a half. *)

\* A half goes one step on, with one record more.
Follows(k, new) ==
  /\ IsHalf(new) /\ new.pending = {} /\ new.support = k.support
  /\ new.step = k.step + 1
  /\ \A i \in 1 .. k.step : new.records[i] = k.records[i]
  /\ new.records[new.step].step = new.step

LEMMA ActedHalf ==
  ASSUME NEW k, IsHalf(k), NEW action
  PROVE  LET after == Acted(k, action)
         IN  /\ after = [f \in HalfFields |-> after[f]]
             /\ after.step = k.step + 1
             /\ after.barriers = k.barriers \cup action.barrier
             /\ after.pos = IF action.barrier = {} THEN Towards(k.pos, action.move) ELSE k.pos
             /\ after.records = k.records /\ after.pending = k.pending
             /\ after.oppStart = k.oppStart /\ after.support = k.support
  BY DEF Acted, IsHalf, HalfFields

LEMMA StoodHalf ==
  ASSUME NEW k, IsHalf(k)
  PROVE  LET after == Answering(k, "none")
         IN  /\ after = [f \in HalfFields |-> after[f]]
             /\ after.step = k.step + 1
             /\ after.barriers = k.barriers /\ after.pos = k.pos
             /\ after.records = k.records /\ after.pending = k.pending
             /\ after.oppStart = k.oppStart /\ after.support = k.support
  BY DEF Answering, IsHalf, HalfFields

LEMMA SealHalf ==
  ASSUME NEW k, k = [f \in HalfFields |-> k[f]], NEW record
  PROVE  LET new == Seal(k, record)
         IN  /\ new = [f \in HalfFields |-> new[f]]
             /\ new.step = k.step /\ new.pos = k.pos /\ new.barriers = k.barriers
             /\ new.oppStart = k.oppStart /\ new.support = k.support
             /\ new.records = Append(k.records, record) /\ new.pending = {}
  BY DEF Seal, HalfFields

LEMMA Appended ==
  ASSUME NEW S, NEW seq \in Seq(S), NEW n \in Nat, Len(seq) = n, NEW e \in S
  PROVE  /\ Append(seq, e) \in Seq(S)
         /\ Len(Append(seq, e)) = n + 1
         /\ \A i \in 1 .. n : Append(seq, e)[i] = seq[i]
         /\ Append(seq, e)[n + 1] = e
  BY AppendProperties

\* The record of a step is sealed after those of the steps before.
LEMMA SealedFollows ==
  ASSUME NEW k, IsHalf(k), NEW after, after = [f \in HalfFields |-> after[f]],
         after.step = k.step + 1, after.records = k.records, after.pos \in Cells,
         after.oppStart = k.oppStart, after.support = k.support,
         NEW record \in SealedRecords, record.step = k.step + 1
  PROVE  /\ Follows(k, Seal(after, record))
         /\ Seal(after, record).records[k.step + 1] = record
<1> DEFINE new == Seal(after, record)
<1>1. /\ new = [f \in HalfFields |-> new[f]]
      /\ new.step = k.step + 1 /\ new.pos = after.pos
      /\ new.oppStart = k.oppStart /\ new.support = k.support
      /\ new.records = Append(k.records, record) /\ new.pending = {}
  BY SealHalf
<1> HIDE DEF new
<1>2. k.records \in Seq(SealedRecords) /\ Len(k.records) = k.step /\ k.step \in Nat
  BY DEF IsHalf
<1>3. /\ new.records \in Seq(SealedRecords)
      /\ Len(new.records) = k.step + 1
      /\ \A i \in 1 .. k.step : new.records[i] = k.records[i]
      /\ new.records[k.step + 1] = record
  <2>1. /\ Append(k.records, record) \in Seq(SealedRecords)
        /\ Len(Append(k.records, record)) = k.step + 1
        /\ \A i \in 1 .. k.step : Append(k.records, record)[i] = k.records[i]
        /\ Append(k.records, record)[k.step + 1] = record
    BY <1>2, Appended
  <2>2. new.records = Append(k.records, record)
    BY <1>1
  <2>3. QED
    BY <2>1, <2>2
<1>4. IsHalf(new)
  BY <1>1, <1>2, <1>3 DEF IsHalf
<1>5. Follows(k, new) /\ new.records[k.step + 1] = record
  BY <1>1, <1>2, <1>3, <1>4 DEF Follows
<1>6. QED
  BY <1>5 DEF new

\* What _take_turn does when what was chosen is a legal action.
TurnTaken(role, k, action, message) ==
  LET new == half'[role]
  IN  /\ half' = [half EXCEPT ![role] = new]
      /\ Follows(k, new) /\ ~new.records[new.step].closing
      /\ new.barriers = k.barriers \cup action.barrier
      /\ new.pos = IF action.barrier = {} THEN Towards(k.pos, action.move) ELSE k.pos
      /\ Push(role, message)
      /\ message.commit = new.records[new.step]
      /\ message.claim = IF role = "police" THEN {new.pos} ELSE {}
      /\ message.barrier = action.barrier /\ message.response = k.pending
      /\ message.win = WinClaim(role, new)
      /\ result' = [result EXCEPT ![role] = message.win]
      /\ cornered' = IF role = "thief" THEN Cornered(k, half["police"]) ELSE cornered

LegalChoice(k, action) ==
  \/ \E t \in LegalTokenSet(k.pos, k.barriers) : action = MoveTo(t)
  \/ \E d \in Around(k.pos, k.barriers) : action = Bar(d)

LEMMA LegalChoiceStays ==
  ASSUME NEW k, k.pos \in Cells, NEW action, LegalChoice(k, action)
  PROVE  /\ action.move \in DOMAIN Delta /\ action.barrier \in SUBSET Cells
         /\ (IF action.barrier = {} THEN Towards(k.pos, action.move) ELSE k.pos) \in Cells
<1>1. CASE \E t \in LegalTokenSet(k.pos, k.barriers) : action = MoveTo(t)
  <2>1. PICK t \in LegalTokenSet(k.pos, k.barriers) : action = MoveTo(t)
    BY <1>1
  <2>2. action.move = t /\ action.barrier = {} /\ t \in DOMAIN Delta
    BY <2>1 DEF MoveTo, LegalTokenSet
  <2>3. QED
    BY <2>2, LegalMoves
<1>2. CASE \E d \in Around(k.pos, k.barriers) : action = Bar(d)
  <2>1. PICK d \in Around(k.pos, k.barriers) : action = Bar(d)
    BY <1>2
  <2>2. action.move = "STAY" /\ action.barrier = {d} /\ d \in Cells
    BY <2>1, AroundIsLegal DEF Bar
  <2>3. QED
    BY <2>2, Directions
<1>3. QED
  BY <1>1, <1>2 DEF LegalChoice

LEMMA TurnShape ==
  ASSUME TypeInv, NEW role \in Roles, NEW k, IsHalf(k), k.pending \in SUBSET Answers,
         \A action \in Choices(role, k, k.step + 1) : LegalChoice(k, action),
         TakeTurn(role, k)
  PROVE  \E action \in Choices(role, k, k.step + 1) :
           \E message : TurnTaken(role, k, action, message)
<1>1. PICK action \in Choices(role, k, k.step + 1) :
        LET after == Acted(k, action)
            record == Sealed(role, after, action, IF role = "police" THEN {after.pos} ELSE {}, FALSE)
            win == WinClaim(role, after)
        IN  /\ half' = [half EXCEPT ![role] = Seal(after, record)]
            /\ Push(role, Turn(k, record, win))
            /\ result' = [result EXCEPT ![role] = win]
            /\ cornered' = IF role = "thief" THEN Cornered(k, half["police"]) ELSE cornered
  BY DEF TakeTurn
<1> DEFINE after == Acted(k, action)
           claim == IF role = "police" THEN {after.pos} ELSE {}
           record == Sealed(role, after, action, claim, FALSE)
           win == WinClaim(role, after)
           message == Turn(k, record, win)
           new == Seal(after, record)
<1>2. /\ action.move \in DOMAIN Delta /\ action.barrier \in SUBSET Cells
      /\ (IF action.barrier = {} THEN Towards(k.pos, action.move) ELSE k.pos) \in Cells
  BY LegalChoiceStays DEF IsHalf
<1>3. /\ after = [f \in HalfFields |-> after[f]]
      /\ after.step = k.step + 1
      /\ after.barriers = k.barriers \cup action.barrier
      /\ after.pos = IF action.barrier = {} THEN Towards(k.pos, action.move) ELSE k.pos
      /\ after.records = k.records /\ after.pending = k.pending
      /\ after.oppStart = k.oppStart /\ after.support = k.support
  BY ActedHalf
<1>4. /\ half' = [half EXCEPT ![role] = new]
      /\ Push(role, message)
      /\ result' = [result EXCEPT ![role] = win]
      /\ cornered' = IF role = "thief" THEN Cornered(k, half["police"]) ELSE cornered
  BY <1>1
<1> HIDE DEF after
<1>5. after.pos \in Cells /\ claim \in SUBSET Cells /\ after.step \in Nat
  BY <1>2, <1>3 DEF IsHalf
<1> HIDE DEF claim
<1>6. /\ record \in SealedRecords /\ record.step = k.step + 1 /\ ~record.closing
      /\ record.barrier = action.barrier /\ record.response = k.pending /\ record.claim = claim
  BY <1>2, <1>3, <1>5 DEF Sealed, SealedRecords
<1> HIDE DEF record
<1>7. Follows(k, new) /\ new.records[k.step + 1] = record
  BY <1>3, <1>5, <1>6, SealedFollows
<1>8. new.step = after.step /\ new.pos = after.pos /\ new.barriers = after.barriers
  BY <1>3, SealHalf
<1> HIDE DEF new
<1>9. half'[role] = new
  BY <1>4 DEF TypeInv
<1>10. win = WinClaim(role, new)
  BY <1>8 DEF WinClaim, Trapped
<1>11. /\ message.commit = record /\ message.claim = record.claim
       /\ message.barrier = record.barrier /\ message.response = record.response
       /\ message.win = win
  BY DEF Turn
<1> HIDE DEF win, message
<1>12. TurnTaken(role, k, action, message)
  <2>1. Follows(k, half'[role]) /\ half'[role].records[k.step + 1] = record
    BY <1>6, <1>7, <1>9
  <2>2. message.commit = half'[role].records[half'[role].step]
    BY <1>3, <1>7, <1>8, <1>9, <1>11
  <2>3. message.claim = IF role = "police" THEN {half'[role].pos} ELSE {}
    BY <1>6, <1>8, <1>9, <1>11 DEF claim
  <2>4. QED
    BY <1>3, <1>4, <1>6, <1>8, <1>9, <1>10, <1>11, <2>1, <2>2, <2>3 DEF TurnTaken
<1>13. QED
  BY <1>12

\* What concede does.
Held(role, k, message) ==
  LET new == half'[role]
  IN  /\ half' = [half EXCEPT ![role] = new]
      /\ Follows(k, new) /\ new.records[new.step].closing
      /\ new.barriers = k.barriers /\ new.pos = k.pos
      /\ Push(role, message)
      /\ message.commit = new.records[new.step]
      /\ message.claim = {} /\ message.barrier = {}
      /\ message.response = k.pending
      /\ result' = [result EXCEPT ![role] = "capture"]
      /\ UNCHANGED cornered

LEMMA HoldShape ==
  ASSUME TypeInv, NEW role \in Roles, NEW k, IsHalf(k), k.pending \in SUBSET Answers,
         Hold(role, k, "none")
  PROVE  \E message : Held(role, k, message)
<1> DEFINE after == Answering(k, "none")
           record == Sealed(role, after, MoveTo("STAY"), {}, TRUE)
           message == Turn(k, record, "none")
           new == Seal(after, record)
<1>1. /\ half' = [half EXCEPT ![role] = [new EXCEPT !.pending = k.pending \ after.pending]]
      /\ Push(role, message)
      /\ result' = [result EXCEPT ![role] = "capture"]
      /\ UNCHANGED cornered
  BY DEF Hold
<1>2. /\ after = [f \in HalfFields |-> after[f]]
      /\ after.step = k.step + 1
      /\ after.barriers = k.barriers /\ after.pos = k.pos
      /\ after.records = k.records /\ after.pending = k.pending
      /\ after.oppStart = k.oppStart /\ after.support = k.support
  BY StoodHalf
<1> HIDE DEF after
<1>3. after.pos \in Cells /\ after.step \in Nat
  BY <1>2 DEF IsHalf
<1>4. MoveTo("STAY").move \in DOMAIN Delta /\ MoveTo("STAY").barrier = {}
      /\ {} \in SUBSET Cells
  BY Directions DEF MoveTo
<1>5. /\ record \in SealedRecords /\ record.step = k.step + 1 /\ record.closing
      /\ record.barrier = {} /\ record.response = k.pending /\ record.claim = {}
  BY <1>2, <1>3, <1>4 DEF Sealed, SealedRecords
<1> HIDE DEF record
<1>6. Follows(k, new) /\ new.records[k.step + 1] = record
  BY <1>2, <1>3, <1>5, SealedFollows
<1>7. new.step = after.step /\ new.pos = after.pos /\ new.barriers = after.barriers
  BY <1>2, SealHalf
<1> HIDE DEF new
<1>8. half' = [half EXCEPT ![role] = new] /\ half'[role] = new
  <2>1. new = [f \in HalfFields |-> new[f]] /\ new.pending = {}
    BY <1>6 DEF Follows, IsHalf
  <2>2. [new EXCEPT !.pending = k.pending \ after.pending] = new
    BY <1>2, <2>1 DEF HalfFields
  <2>3. QED
    BY <1>1, <2>2 DEF TypeInv
<1>9. /\ message.commit = record /\ message.claim = record.claim
      /\ message.barrier = record.barrier /\ message.response = record.response
  BY DEF Turn
<1> HIDE DEF message
<1>10. Held(role, k, message)
  BY <1>1, <1>2, <1>5, <1>6, <1>7, <1>8, <1>9, ZenonT(40) DEF Held, Follows
<1>11. QED
  BY <1>10

\* A message adds its barrier, is answered if it claims a cell, and is noted.
Heard(role, k, new, m) ==
  /\ IsHalf(new)
  /\ new.pos = k.pos /\ new.step = k.step /\ new.records = k.records
  /\ new.oppStart = k.oppStart /\ new.barriers = k.barriers \cup m.barrier
  /\ new.pending \in SUBSET Answers
  /\ new.pending = {[claim |-> c, caught |-> Caught(new, m)] : c \in m.claim}
  /\ brain[role] = "session" => new.support \in Observed(k.support, m, new.barriers, k.oppStart)
  /\ brain[role] = "policy" /\ role = "thief" /\ m.claim # {} => new.known = m.claim

LEMMA ReceivedHalf ==
  ASSUME NEW role \in Roles, brain[role] \in {"policy", "session"}, NEW k, IsHalf(k),
         NEW m, m.claim \in SUBSET Cells, NEW new \in Received(role, k, m)
  PROVE  Heard(role, k, new, m)
<1> DEFINE barred == [k EXCEPT !.barriers = @ \cup m.barrier]
           answered == [barred EXCEPT
                         !.pending = {[claim |-> c, caught |-> Caught(barred, m)] : c \in m.claim}]
<1>1. new \in Noticed(role, answered, m)
  BY DEF Received
<1>2. /\ barred = [f \in HalfFields |-> barred[f]]
      /\ barred.pos = k.pos /\ barred.barriers = k.barriers \cup m.barrier
  BY DEF IsHalf, HalfFields
<1>3. Caught(barred, m) \in BOOLEAN
  BY DEF Caught
<1>4. /\ answered = [f \in HalfFields |-> answered[f]]
      /\ answered.pos = k.pos /\ answered.step = k.step /\ answered.records = k.records
      /\ answered.oppStart = k.oppStart /\ answered.support = k.support
      /\ answered.barriers = k.barriers \cup m.barrier
      /\ answered.pending = {[claim |-> c, caught |-> Caught(barred, m)] : c \in m.claim}
  BY DEF IsHalf, HalfFields
<1> HIDE DEF answered, barred
<1>5. ASSUME new.pos = k.pos, new.barriers = barred.barriers
      PROVE  Caught(new, m) = Caught(barred, m)
  BY <1>2, <1>5 DEF Caught, Trapped
<1>6. answered.pending \in SUBSET Answers
  <2>1. \A c \in Cells : [claim |-> c, caught |-> Caught(barred, m)] \in Answers
    BY <1>3 DEF Answers
  <2>2. QED
    BY <2>1, <1>4
<1>7. CASE brain[role] = "session"
  <2>1. PICK kept \in Observed(answered.support, m, answered.barriers, answered.oppStart) :
          new = [answered EXCEPT !.support = kept]
    BY <1>1, <1>7 DEF Noticed
  <2>2. /\ new = [f \in HalfFields |-> new[f]]
        /\ new.pos = k.pos /\ new.step = k.step /\ new.records = k.records
        /\ new.oppStart = k.oppStart /\ new.barriers = k.barriers \cup m.barrier
        /\ new.pending = answered.pending
        /\ new.support \in Observed(k.support, m, new.barriers, k.oppStart)
    BY <2>1, <1>4 DEF HalfFields
  <2>3. new.pending = {[claim |-> c, caught |-> Caught(new, m)] : c \in m.claim}
    <3>1. Caught(new, m) = Caught(barred, m)
      BY <2>2, <1>2, <1>5
    <3>2. QED
      BY <2>2, <3>1, <1>4
  <2>4. QED
    BY <2>2, <2>3, <1>6, <1>7 DEF Heard, IsHalf
<1>8. CASE brain[role] = "policy"
  <2>1. PICK noted \in Noted(role, answered, m) :
          new = [answered EXCEPT
                  !.field = m.scent, !.known = noted,
                  !.last = IF role = "police" \/ m.claim # {} THEN answered.known ELSE @]
    BY <1>1, <1>8 DEF Noticed
  <2>2. /\ new = [f \in HalfFields |-> new[f]]
        /\ new.pos = k.pos /\ new.step = k.step /\ new.records = k.records
        /\ new.oppStart = k.oppStart /\ new.barriers = k.barriers \cup m.barrier
        /\ new.pending = answered.pending /\ new.known = noted
    BY <2>1, <1>4 DEF HalfFields
  <2>3. new.pending = {[claim |-> c, caught |-> Caught(new, m)] : c \in m.claim}
    <3>1. Caught(new, m) = Caught(barred, m)
      BY <2>2, <1>2, <1>5
    <3>2. {[claim |-> c, caught |-> Caught(new, m)] : c \in m.claim}
            = {[claim |-> c, caught |-> Caught(barred, m)] : c \in m.claim}
      BY <3>1
    <3>3. QED
      BY <2>2, <3>2, <1>4
  <2>4. role = "thief" /\ m.claim # {} => noted = m.claim
    BY <2>1 DEF Noted
  <2>5. QED
    BY <2>2, <2>3, <2>4, <1>6, <1>8 DEF Heard, IsHalf
<1>9. QED
  BY <1>7, <1>8

-----------------------------------------------------------------------------
(* The token of the game goes round. *)

\* What the referee sees of a step.
ThiefSteps ==
  /\ half'["police"] = Police
  /\ \E t \in LegalTokenSet(Thief.pos, Police.barriers) :
       half'["thief"].pos = Towards(Thief.pos, t)

PoliceSteps ==
  /\ half'["thief"] = Thief
  /\ \E action : /\ LegalChoice(Police, action)
                 /\ half'["police"].barriers = Police.barriers \cup action.barrier
                 /\ half'["police"].pos = IF action.barrier = {}
                      THEN Towards(Police.pos, action.move) ELSE Police.pos

BoardStays ==
  /\ half'["police"].pos = Police.pos /\ half'["police"].barriers = Police.barriers
  /\ half'["thief"].pos = Thief.pos /\ half'["police"].step = Police.step

LEMMA Sides ==
  /\ Roles = {"police", "thief"}
  /\ "police" \in Roles /\ "thief" \in Roles
  /\ Other("police") = "thief" /\ Other("thief") = "police"
  BY DEF Roles, Other

LEMMA TailOfOne == \A x : Tail(<<x>>) = <<>> /\ Head(<<x>>) = x
  OBVIOUS

LEMMA AppendToNone == \A x : Append(<<>>, x) = <<x>> /\ <<x>>[1] = x /\ Len(<<x>>) = 1
  OBVIOUS

\* The records that follow keep the order of those before.
LEMMA OrderGrows ==
  ASSUME NEW k, IsHalf(k), NEW old, old.step = k.step, old.records = k.records,
         SealedInOrder(old, k.step), NEW new, Follows(k, new)
  PROVE  /\ ~new.records[new.step].closing => SealedInOrder(new, new.step)
         /\ new.records[new.step].closing => SealedInOrder(new, k.step)
<1>1. k.step \in Nat /\ new.step = k.step + 1
  BY DEF Follows, IsHalf
<1>2. \A i \in 1 .. new.step : i = new.step \/ i \in 1 .. k.step
  BY <1>1
<1>3. \A i \in 1 .. k.step : /\ new.records[i].step = i
                             /\ ~new.records[i].closing
  BY <1>1 DEF SealedInOrder, Follows
<1>4. new.records[new.step].step = new.step
  BY DEF Follows
<1>5. QED
  BY <1>1, <1>2, <1>3, <1>4 DEF SealedInOrder

\* The turn of the Thief, k being its half as it opens or as it heard the Police.
LEMMA ThiefTurnStep ==
  ASSUME TypeInv, NEW k, IsHalf(k), k.pos = Thief.pos, k.step = Thief.step,
         k.records = Thief.records, k.barriers = Police.barriers,
         k.pending \in SUBSET Answers, \A a \in k.pending : ~a.caught,
         Thief.step = Police.step, Police.step < MaxSteps,
         SealedInOrder(Police, Police.step), SealedInOrder(Thief, Thief.step),
         wire["police"] = <<>>, Rest(wire["thief"]) = <<>>,
         Free(Police.pos), Free(Thief.pos), Around(Thief.pos, Police.barriers) # {},
         TakesPoliceAt(k, Police.pos),
         Sees("police", Uncut(Police, Thief.pos \in Police.support.cells)),
         Sees("thief", k.support.cells = {Police.pos}), result["police"] = "none",
         TakeTurn("thief", k), UNCHANGED brain,
         HasPlayed("police", Police.step), played'["police"] = played["police"],
         played' \in [Roles -> Seq(SealedRecords)],
         Len(played'["thief"]) = Police.step,
         \A i \in 1 .. Police.step : played'["thief"][i] = Police.records[i]
  PROVE  TypeInv' /\ PoliceToAct' /\ ThiefSteps
<1>1. /\ Police.step \in Nat /\ Thief.pos \in Cells /\ Police.pos \in Cells
      /\ brain["thief"] \in {"policy", "session"}
  BY Sides DEF TypeInv, IsHalf, Police, Thief
<1>2. \A action \in Choices("thief", k, k.step + 1) :
        \E t \in LegalTokenSet(k.pos, k.barriers) :
          /\ action = MoveTo(t)
          /\ ~(LegalCells(k.pos, k.barriers) \subseteq LegalCells(Police.pos, k.barriers)) =>
               Towards(k.pos, t) \notin LegalCells(Police.pos, k.barriers)
  BY <1>1, ThiefChoice DEF Free
<1>3. \A action \in Choices("thief", k, k.step + 1) : LegalChoice(k, action)
  BY <1>2 DEF LegalChoice
<1>4. PICK action \in Choices("thief", k, k.step + 1) :
        \E message : TurnTaken("thief", k, action, message)
  BY <1>3, Sides, TurnShape
<1>5. PICK message : TurnTaken("thief", k, action, message)
  BY <1>4
<1>6. PICK t \in LegalTokenSet(k.pos, k.barriers) :
          /\ action = MoveTo(t)
          /\ ~(LegalCells(k.pos, k.barriers) \subseteq LegalCells(Police.pos, k.barriers)) =>
               Towards(k.pos, t) \notin LegalCells(Police.pos, k.barriers)
  BY <1>2
<1> DEFINE new == half'["thief"]
<1>7. /\ half' = [half EXCEPT !["thief"] = new]
      /\ Follows(k, new) /\ ~new.records[new.step].closing
      /\ new.barriers = Police.barriers /\ new.pos = Towards(Thief.pos, t)
      /\ message.claim = {} /\ message.barrier = {} /\ message.response = k.pending
      /\ message.commit = new.records[new.step]
      /\ message.win = WinClaim("thief", new)
      /\ result' = [result EXCEPT !["thief"] = message.win]
      /\ cornered' = Cornered(k, Police)
      /\ Push("thief", message)
  BY <1>5, <1>6 DEF TurnTaken, MoveTo, Police
<1>8. half'["police"] = Police
  BY <1>7, Sides DEF TypeInv, Police
<1>9. wire'["police"] = <<message>> /\ wire'["thief"] = <<>> /\ wire' = [r \in Roles |-> wire'[r]]
  <2>1. wire' = [wire EXCEPT !["thief"] = Rest(wire["thief"]),
                             !["police"] = Append(wire["police"], message)]
    BY <1>7, Sides DEF Push
  <2>2. wire = [r \in Roles |-> wire[r]]
    BY DEF TypeInv
  <2>3. wire' = [r \in Roles |-> wire'[r]]
    BY <2>1, <2>2
  <2>4. wire'["thief"] = Rest(wire["thief"]) /\ wire'["police"] = Append(wire["police"], message)
    BY <2>1, <2>2, Sides
  <2>5. QED
    BY <2>3, <2>4, AppendToNone
<1>10. /\ new.step = Police.step + 1
       /\ SealedInOrder(new, new.step)
       /\ \A i \in 1 .. Police.step : new.records[i] = Thief.records[i]
  <2>1. /\ new.step = Police.step + 1
        /\ \A i \in 1 .. Police.step : new.records[i] = Thief.records[i]
    BY <1>7 DEF Follows
  <2>2. SealedInOrder(Thief, k.step) /\ Thief.step = k.step /\ Thief.records = k.records
    OBVIOUS
  <2>3. SealedInOrder(new, new.step)
    BY <1>7, <2>2, OrderGrows
  <2>4. QED
    BY <2>1, <2>3
<1>11. /\ Free(new.pos) /\ Around(new.pos, Police.barriers) # {}
       /\ new.pos \in LegalCells(Thief.pos, Police.barriers)
  <2>1. t \in LegalTokenSet(Thief.pos, Police.barriers) /\ new.pos = Towards(Thief.pos, t)
    BY <1>6, <1>7
  <2>2. Thief.pos \notin Police.barriers
    BY DEF Free
  <2>3. new.pos \in LegalCells(Thief.pos, Police.barriers) /\ new.pos \notin Police.barriers
    BY <1>1, <2>1, <2>2, LegalMoves
  <2>4. Around(new.pos, Police.barriers) # {}
    BY <1>1, <2>1, <2>2, MovesKeepExits
  <2>5. QED
    BY <2>3, <2>4 DEF Free
<1>12. ~Trapped(new)
  BY <1>7, <1>11 DEF Trapped, Free
<1>13. message.win = IF new.step = MaxSteps THEN "survival" ELSE "none"
  BY <1>1, <1>7, <1>10, <1>12, StepsAssumption DEF WinClaim
<1>14. ~cornered' => new.pos \notin LegalCells(Police.pos, Police.barriers)
  BY <1>6, <1>7 DEF Cornered
<1>15. TypeInv'
  <2>1. IsHalf(new) /\ new.pending = {}
    BY <1>7 DEF Follows
  <2>2. half' = [r \in Roles |-> half'[r]]
    BY <1>7 DEF TypeInv
  <2>3. \A r \in Roles : IsHalf(half'[r]) /\ half'[r].pending = {}
    BY <2>1, <1>8, Sides DEF TypeInv, Police
  <2>4. result' \in [Roles -> {"none", "capture", "survival"}]
    BY <1>7, <1>13 DEF TypeInv
  <2>5. QED
    BY <2>2, <2>3, <2>4, <1>9 DEF TypeInv, IsHalf
<1>16. result'["police"] = "none" /\ result'["thief"] = message.win
  BY <1>7, Sides DEF TypeInv
<1>17. new.support = k.support
  BY <1>7 DEF Follows
<1>18. PoliceToAct'
  <2>1. Waits("police", ForPolice)' /\ ForPolice' = message
    BY <1>9, Sides, AppendToNone DEF Waits, ForPolice
  <2>2. HasPlayed("police", Police.step)'
    BY <1>8, <1>10, Sides DEF HasPlayed, Police, Thief
  <2>3. HasPlayed("thief", Police.step)'
    BY <1>8, Sides DEF HasPlayed, Police, Thief
  <2>4. Sees("police", Uncut(Police, StepsTo(Police)))'
    BY <1>8, <1>11 DEF Sees, Uncut, StepsTo, Police, Thief
  <2>5. Sees("thief", Thief.support.cells = {Police.pos})'
    BY <1>8, <1>17 DEF Sees, Police, Thief
  <2>6. Escapes'
    BY <1>8, <1>14 DEF Escapes, Police, Thief
  <2>7. (SealedInOrder(Police, Police.step) /\ SealedInOrder(Thief, Thief.step))'
    BY <1>8, <1>10, SMTT(30) DEF SealedInOrder, Police, Thief
  <2>8. (/\ Free(Police.pos) /\ Free(Thief.pos) /\ Around(Thief.pos, Police.barriers) # {}
         /\ Thief.barriers = Police.barriers)'
    BY <1>7, <1>8, <1>11 DEF Free, Police, Thief
  <2>9. (/\ Thief.step = Police.step + 1 /\ Thief.step <= MaxSteps
         /\ ForPolice.commit = Thief.records[Thief.step])'
    BY <1>1, <1>7, <1>8, <1>10, <2>1, StepsAssumption DEF Police, Thief
  <2>10. (/\ ForPolice.claim = {} /\ ForPolice.barrier = {}
          /\ \A a \in ForPolice.response : ~a.caught
          /\ ForPolice.win = IF Thief.step = MaxSteps THEN "survival" ELSE "none"
          /\ result["police"] = "none" /\ result["thief"] = ForPolice.win)'
    BY <1>7, <1>13, <1>16, <2>1 DEF Thief
  <2>11. QED
    BY <2>1, <2>2, <2>3, <2>4, <2>5, <2>6, <2>7, <2>8, <2>9, <2>10 DEF PoliceToAct
<1>19. ThiefSteps
  BY <1>6, <1>7, <1>8 DEF ThiefSteps
<1>20. QED
  BY <1>15, <1>18, <1>19

\* What a side plays is one commit more.
Plays(r, m) == played' = [played EXCEPT ![r] = Append(@, m)]

LEMMA PlaysOneMore ==
  ASSUME TypeInv, NEW r \in Roles, NEW m, m \in SealedRecords,
         Plays(r, m), NEW n \in Nat, HasPlayed(r, n)
  PROVE  /\ played' \in [Roles -> Seq(SealedRecords)]
         /\ played'[Other(r)] = played[Other(r)]
         /\ Len(played'[r]) = n + 1
         /\ \A i \in 1 .. n : played'[r][i] = half[Other(r)].records[i]
         /\ played'[r][n + 1] = m
<1>1. played[r] \in Seq(SealedRecords) /\ Len(played[r]) = n
  BY DEF TypeInv, HasPlayed
<1>2. /\ Append(played[r], m) \in Seq(SealedRecords)
      /\ Len(Append(played[r], m)) = n + 1
      /\ \A i \in 1 .. n : Append(played[r], m)[i] = played[r][i]
      /\ Append(played[r], m)[n + 1] = m
  BY <1>1, Appended
<1>3. played'[r] = Append(played[r], m) /\ played'[Other(r)] = played[Other(r)]
  BY Sides DEF TypeInv, Other, Plays
<1>4. played' \in [Roles -> Seq(SealedRecords)]
  BY <1>2 DEF TypeInv, Plays
<1>5. QED
  BY <1>2, <1>3, <1>4 DEF HasPlayed

\* The commit of a step of the other side, the first that was not played.
LEMMA PlaysNext ==
  ASSUME TypeInv, NEW r \in Roles, NEW n \in Nat, HasPlayed(r, n), n + 1 <= half[Other(r)].step,
         NEW m, m = half[Other(r)].records[n + 1],
         Plays(r, m)
  PROVE  /\ played' \in [Roles -> Seq(SealedRecords)]
         /\ played'[Other(r)] = played[Other(r)]
         /\ Len(played'[r]) = n + 1
         /\ \A i \in 1 .. n + 1 : played'[r][i] = half[Other(r)].records[i]
<1>1. IsHalf(half[Other(r)])
  BY Sides DEF TypeInv
<1>2. n + 1 \in 1 .. Len(half[Other(r)].records)
  BY <1>1 DEF IsHalf
<1>3. m \in SealedRecords
  BY <1>1, <1>2 DEF IsHalf
<1>4. \A i \in 1 .. n + 1 : i = n + 1 \/ i \in 1 .. n
  OBVIOUS
<1>5. /\ played' \in [Roles -> Seq(SealedRecords)]
      /\ played'[Other(r)] = played[Other(r)]
      /\ Len(played'[r]) = n + 1
      /\ \A i \in 1 .. n : played'[r][i] = half[Other(r)].records[i]
      /\ played'[r][n + 1] = m
  BY <1>3, PlaysOneMore
<1>6. QED
  BY <1>4, <1>5

LEMMA ThiefHears ==
  ASSUME TypeInv, ThiefToAct, NEW k \in Received("thief", Thief, ForThief)
  PROVE  /\ IsHalf(k) /\ k.pending \in SUBSET Answers
         /\ k.pos = Thief.pos /\ k.step = Thief.step /\ k.records = Thief.records
         /\ k.barriers = Police.barriers
         /\ TakesPoliceAt(k, Police.pos) /\ Sees("thief", k.support.cells = {Police.pos})
         /\ \A a \in k.pending : a.caught <=> TakenOnBoard
         /\ k.pending # {}
<1>1. IsHalf(Thief) /\ IsHalf(Police) /\ brain["thief"] \in {"policy", "session"}
  BY Sides DEF TypeInv, Thief, Police
<1>2. ForThief.claim = {Police.pos} /\ ForThief.claim \in SUBSET Cells
  BY <1>1 DEF ThiefToAct, IsHalf
<1>3. Heard("thief", Thief, k, ForThief)
  BY <1>1, <1>2, Sides, ReceivedHalf
<1>4. k.barriers = Police.barriers /\ k.pos = Thief.pos
  BY <1>3 DEF Heard, ThiefToAct
<1>5. Caught(k, ForThief) <=> TakenOnBoard
  <2>1. CASE ForThief.barrier = {}
    <3>1. Police.barriers = Thief.barriers
      BY <2>1 DEF ThiefToAct
    <3>2. Caught(k, ForThief) <=> {Police.pos} = {k.pos}
      BY <2>1, <1>2 DEF Caught
    <3>3. QED
      BY <3>1, <3>2, <1>4 DEF ThiefToAct, TakenOnBoard
  <2>2. CASE ForThief.barrier # {}
    <3>1. Caught(k, ForThief) <=>
            {Police.pos} = {k.pos} \/ ForThief.barrier = {k.pos} \/ Trapped(k)
      BY <2>2, <1>2 DEF Caught
    <3>2. Trapped(k) <=> Around(Thief.pos, Police.barriers) = {} \/ Thief.pos \in Police.barriers
      BY <1>4 DEF Trapped
    <3>3. ForThief.barrier = {k.pos} => Thief.pos \in Police.barriers
      BY <1>4 DEF ThiefToAct
    <3>4. QED
      BY <3>1, <3>2, <3>3, <1>4 DEF TakenOnBoard
  <2>3. QED
    BY <2>1, <2>2
<1>6. k.pending = {[claim |-> Police.pos, caught |-> Caught(k, ForThief)]}
  BY <1>2, <1>3 DEF Heard
<1>7. Free(Police.pos)
  BY DEF ThiefToAct
<1>8. brain["thief"] = "session" =>
        k.support.cells = {Police.pos} /\ Posterior(k) = {Police.pos}
  <2>1. SUFFICES ASSUME brain["thief"] = "session"
                 PROVE  k.support.cells = {Police.pos} /\ Posterior(k) = {Police.pos}
    OBVIOUS
  <2>2. k.support \in Observed(Thief.support, ForThief, k.barriers, Thief.oppStart)
    BY <2>1, <1>3 DEF Heard
  <2> DEFINE candidates == Candidates(Thief.support.cells, ForThief, k.barriers)
  <2>3. candidates = {Police.pos}
    BY <1>2 DEF Candidates, Steps
  <2>4. Unbarred(candidates, k.barriers, Thief.oppStart) = {Police.pos}
    BY <2>3, <1>4, <1>7 DEF Free, Unbarred
  <2>5. k.support.cells # {} /\ k.support.cells \subseteq {Police.pos}
    BY <2>2, <2>4 DEF Observed
  <2>6. k.support.cells = {Police.pos}
    BY <2>5
  <2>7. QED
    BY <2>6, <1>4, <1>7 DEF Free, Posterior, Unbarred
<1>9. brain["thief"] = "policy" => k.known = {Police.pos}
  BY <1>2, <1>3 DEF Heard
<1>10. TakesPoliceAt(k, Police.pos)
  BY <1>8, <1>9, TheOne DEF TakesPoliceAt, Or
<1>11. \A a \in k.pending : a.caught <=> TakenOnBoard
  BY <1>5, <1>6
<1>12. QED
  BY <1>3, <1>4, <1>6, <1>8, <1>10, <1>11 DEF Heard, Sees

\* A Thief that is taken closes its records.
LEMMA HoldStep ==
  ASSUME TypeInv, ThiefToAct, NEW k, IsHalf(k), k.pending \in SUBSET Answers,
         k.pos = Thief.pos, k.step = Thief.step, k.records = Thief.records,
         \E a \in k.pending : a.caught, TakenOnBoard,
         Hold("thief", k, "none"), UNCHANGED brain,
         played' \in [Roles -> Seq(SealedRecords)], played'["police"] = played["police"],
         Len(played'["thief"]) = Police.step,
         \A i \in 1 .. Police.step : played'["thief"][i] = Police.records[i]
  PROVE  TypeInv' /\ PoliceToHear' /\ BoardStays
<1>1. PICK message : Held("thief", k, message)
  BY HoldShape, Sides
<1> DEFINE new == half'["thief"]
<1>2. /\ half' = [half EXCEPT !["thief"] = new]
      /\ Follows(k, new) /\ new.records[new.step].closing
      /\ new.pos = Thief.pos
      /\ message.commit = new.records[new.step] /\ message.claim = {} /\ message.barrier = {}
      /\ message.response = k.pending
      /\ Push("thief", message)
      /\ result' = [result EXCEPT !["thief"] = "capture"]
      /\ UNCHANGED cornered
  BY <1>1 DEF Held
<1>3. half'["police"] = Police
  BY <1>2, Sides DEF TypeInv, Police
<1>4. wire["thief"] = <<ForThief>> /\ wire["police"] = <<>>
  BY Sides DEF ThiefToAct, Waits
<1>5. wire'["police"] = <<message>> /\ wire'["thief"] = <<>> /\ wire' = [r \in Roles |-> wire'[r]]
  <2>1. wire' = [wire EXCEPT !["thief"] = Rest(wire["thief"]),
                             !["police"] = Append(wire["police"], message)]
    BY <1>2, Sides DEF Push
  <2>2. wire = [r \in Roles |-> wire[r]]
    BY DEF TypeInv
  <2>3. wire' = [r \in Roles |-> wire'[r]]
    BY <2>1, <2>2
  <2>4. wire'["thief"] = Rest(wire["thief"]) /\ wire'["police"] = Append(wire["police"], message)
    BY <2>1, <2>2, Sides
  <2>5. Rest(wire["thief"]) = <<>>
    BY <1>4, TailOfOne DEF Rest
  <2>6. QED
    BY <2>3, <2>4, <2>5, <1>4, AppendToNone
<1>6. SealedInOrder(Thief, Thief.step) /\ Police.step = Thief.step /\ Police.step > 0
  BY DEF ThiefToAct
<1>7. /\ new.step = Police.step + 1
      /\ SealedInOrder(new, Police.step)
      /\ \A i \in 1 .. Police.step : new.records[i] = Thief.records[i]
  <2>1. /\ new.step = Police.step + 1
        /\ \A i \in 1 .. Police.step : new.records[i] = Thief.records[i]
    BY <1>2, <1>6 DEF Follows
  <2>2. SealedInOrder(Thief, k.step) /\ Thief.step = k.step /\ Thief.records = k.records
    BY <1>6
  <2>3. SealedInOrder(new, k.step)
    BY <1>2, <2>2, OrderGrows
  <2>4. QED
    BY <2>1, <2>3, <1>6
<1>8. TypeInv'
  <2>1. IsHalf(new) /\ new.pending = {}
    BY <1>2 DEF Follows
  <2>2. half' = [r \in Roles |-> half'[r]]
    BY <1>2 DEF TypeInv
  <2>3. \A r \in Roles : IsHalf(half'[r]) /\ half'[r].pending = {}
    BY <2>1, <1>3, Sides DEF TypeInv, Police
  <2>4. result' \in [Roles -> {"none", "capture", "survival"}]
    BY <1>2 DEF TypeInv
  <2>5. QED
    BY <2>2, <2>3, <2>4, <1>5 DEF TypeInv, IsHalf
<1>9. result'["police"] = "none" /\ result'["thief"] = "capture"
  BY <1>2, Sides DEF TypeInv, ThiefToAct
<1>10. Captured'
  <2>1. TakenOnBoard' /\ NotTaken'
    BY <1>2, <1>3 DEF TakenOnBoard, NotTaken, ThiefToAct, Police, Thief
  <2>2. HasPlayed("thief", Police.step)'
    BY <1>3, Sides DEF HasPlayed, Police, Thief
  <2>3. (SealedInOrder(Police, Police.step) /\ SealedInOrder(Thief, Police.step))'
    BY <1>3, <1>7 DEF SealedInOrder, Police, Thief, ThiefToAct
  <2>4. (Thief.step = Police.step + 1 /\ Police.step > 0)'
    BY <1>3, <1>6, <1>7 DEF Police, Thief
  <2>5. QED
    BY <2>1, <2>2, <2>3, <2>4, <1>9 DEF Captured
<1>11. PoliceToHear'
  <2>1. Waits("police", ForPolice)' /\ ForPolice' = message
    BY <1>5, Sides, AppendToNone DEF Waits, ForPolice
  <2>2. HasPlayed("police", Police.step)'
    BY <1>3, <1>7, Sides DEF HasPlayed, Police, Thief, ThiefToAct
  <2>3. QED
    BY <2>1, <2>2, <1>2, <1>9, <1>10 DEF PoliceToHear, Thief
<1>12. BoardStays
  BY <1>2, <1>3 DEF BoardStays
<1>13. QED
  BY <1>8, <1>11, <1>12

LEMMA ThiefProcess ==
  ASSUME TypeInv, ThiefToAct, Process("thief")
  PROVE  /\ TypeInv'
         /\ \/ ~TakenOnBoard /\ PoliceToAct' /\ ThiefSteps
            \/ TakenOnBoard /\ PoliceToHear' /\ BoardStays
<1>1. wire["thief"] = <<ForThief>> /\ wire["police"] = <<>> /\ Head(wire["thief"]) = ForThief
  BY Sides, TailOfOne DEF ThiefToAct, Waits
<1>2. PICK k \in Received("thief", Thief, ForThief) : Answer("thief", k, ForThief)
  BY <1>1 DEF Process, Thief
<1>3. /\ UNCHANGED brain
      /\ Plays("thief", ForThief.commit)
  BY <1>1 DEF Process, Plays
<1>4. /\ IsHalf(k) /\ k.pending \in SUBSET Answers
      /\ k.pos = Thief.pos /\ k.step = Thief.step /\ k.records = Thief.records
      /\ k.barriers = Police.barriers
      /\ TakesPoliceAt(k, Police.pos) /\ Sees("thief", k.support.cells = {Police.pos})
      /\ \A a \in k.pending : a.caught <=> TakenOnBoard
      /\ k.pending # {}
  BY ThiefHears
<1>5. /\ played' \in [Roles -> Seq(SealedRecords)] /\ played'["police"] = played["police"]
      /\ Len(played'["thief"]) = Police.step
      /\ \A i \in 1 .. Police.step : played'["thief"][i] = Police.records[i]
  <2>1. Police.step \in Nat /\ Police.step > 0
    BY Sides DEF TypeInv, IsHalf, Police, ThiefToAct
  <2>2. PICK n \in Nat : n = Police.step - 1 /\ Police.step = n + 1
    BY <2>1
  <2>3. HasPlayed("thief", n) /\ half[Other("thief")] = Police
    BY <2>2, Sides DEF ThiefToAct, Police
  <2>4. /\ n + 1 <= half[Other("thief")].step
        /\ ForThief.commit = half[Other("thief")].records[n + 1]
    <3>1. ForThief.commit = Police.records[Police.step]
      BY DEF ThiefToAct
    <3>2. half[Other("thief")].step = n + 1
      BY <2>2, <2>3
    <3>3. half[Other("thief")].records[n + 1] = Police.records[Police.step]
      BY <2>2, <2>3
    <3>4. n + 1 <= n + 1
      OBVIOUS
    <3>5. QED
      BY <3>1, <3>2, <3>3, <3>4
  <2>5. /\ played' \in [Roles -> Seq(SealedRecords)]
        /\ played'[Other("thief")] = played[Other("thief")]
        /\ Len(played'["thief"]) = n + 1
        /\ \A i \in 1 .. n + 1 : played'["thief"][i] = half[Other("thief")].records[i]
    BY <2>3, <2>4, <1>3, Sides, PlaysNext
  <2>6. QED
    BY <2>2, <2>3, <2>5, Sides
<1>6. ForThief.win = "none"
  BY DEF ThiefToAct
<1>7. CASE TakenOnBoard
  <2>1. \E a \in k.pending : a.caught
    BY <1>4, <1>7
  <2>2. Hold("thief", k, "none")
    BY <1>2, <1>6, <2>1 DEF Answer, IsCaught
  <2>3. TypeInv' /\ PoliceToHear' /\ BoardStays
    BY <1>3, <1>4, <1>5, <1>7, <2>1, <2>2, HoldStep
  <2>4. QED
    BY <2>3, <1>7
<1>8. CASE ~TakenOnBoard
  <2>1. \A a \in k.pending : ~a.caught
    BY <1>4, <1>8
  <2>2. ~Trapped(k)
    BY <1>4, <1>8 DEF Trapped, TakenOnBoard
  <2>3. TakeTurn("thief", k)
    BY <1>2, <1>6, <2>1, <2>2 DEF Answer, IsCaught
  <2>4. Rest(wire["thief"]) = <<>>
    BY <1>1, TailOfOne DEF Rest
  <2>5. Free(Thief.pos) /\ Around(Thief.pos, Police.barriers) # {}
    BY <1>8 DEF TakenOnBoard, Free
  <2>6. /\ Thief.step = Police.step /\ Police.step < MaxSteps
        /\ SealedInOrder(Police, Police.step) /\ SealedInOrder(Thief, Thief.step)
        /\ HasPlayed("police", Police.step) /\ Free(Police.pos)
        /\ Sees("police", Uncut(Police, Thief.pos \in Police.support.cells))
        /\ result["police"] = "none"
    BY DEF ThiefToAct
  <2>7. TypeInv' /\ PoliceToAct' /\ ThiefSteps
    BY <1>1, <1>3, <1>4, <1>5, <2>1, <2>3, <2>4, <2>5, <2>6, ThiefTurnStep
  <2>8. QED
    BY <2>7, <1>8
<1>9. QED
  BY <1>7, <1>8

\* The turns of the Thief claim no cell and bar none.
LEMMA PoliceHears ==
  ASSUME TypeInv, ForPolice.claim = {}, ForPolice.barrier = {},
         NEW k \in Received("police", Police, ForPolice)
  PROVE  /\ IsHalf(k) /\ k.pending = {}
         /\ k.pos = Police.pos /\ k.step = Police.step /\ k.records = Police.records
         /\ k.barriers = Police.barriers
         /\ Sees("police", k.support \in Observed(Police.support, ForPolice, Police.barriers,
                                                  Police.oppStart))
<1>1. IsHalf(Police) /\ brain["police"] \in {"policy", "session"}
  BY Sides DEF TypeInv, Police
<1>2. ForPolice.claim \in SUBSET Cells
  OBVIOUS
<1>3. Heard("police", Police, k, ForPolice)
  BY <1>1, <1>2, Sides, ReceivedHalf
<1>4. k.barriers = Police.barriers /\ k.pending = {}
  <2>1. /\ k.barriers = Police.barriers \cup ForPolice.barrier
        /\ k.pending = {[claim |-> c, caught |-> Caught(k, ForPolice)] : c \in ForPolice.claim}
    BY <1>3 DEF Heard
  <2>2. QED
    BY <2>1
<1>5. QED
  BY <1>3, <1>4 DEF Heard, Sees

\* A hypothesis that can step to where the Thief is does, and is there unless cut.
LEMMA ThiefIsObserved ==
  ASSUME PoliceToAct, brain["police"] = "session",
         NEW k, k.support \in Observed(Police.support, ForPolice, Police.barriers, Police.oppStart)
  PROVE  Uncut(k, Thief.pos \in k.support.cells)
<1> DEFINE candidates == Candidates(Police.support.cells, ForPolice, Police.barriers)
           all == Unbarred(candidates, Police.barriers, Police.oppStart)
<1>1. SUFFICES ASSUME ~k.support.cut
               PROVE  Thief.pos \in k.support.cells
  BY DEF Uncut
<1>2. k.support.cells = all /\ ~Police.support.cut
  <2>1. PICK s \in SUBSET all : k.support = [cells |-> s, cut |-> Police.support.cut \/ s # all]
    BY DEF Observed
  <2> HIDE DEF all
  <2>2. k.support.cells = s /\ k.support.cut = (Police.support.cut \/ s # all)
    BY <2>1
  <2>3. QED
    BY <1>1, <2>2, Zenon
<1>3. PICK c \in Police.support.cells : Thief.pos \in LegalCells(c, Police.barriers)
  BY <1>2 DEF PoliceToAct, Sees, Uncut, StepsTo
<1>4. ForPolice.claim = {} /\ ForPolice.barrier = {} /\ Thief.pos \notin Police.barriers
  BY DEF PoliceToAct, Free
<1>5. Thief.pos \in Steps(c, ForPolice, Police.barriers)
  BY <1>3, <1>4 DEF Steps
<1>6. Thief.pos \in candidates
  BY <1>3, <1>5 DEF Candidates
<1>7. QED
  BY <1>2, <1>4, <1>6 DEF Unbarred

\* The Police's turn, k being its half as it heard the Thief.
LEMMA PoliceTurnStep ==
  ASSUME TypeInv, PoliceToAct, ForPolice.win = "none",
         NEW k, IsHalf(k), k.pending = {}, k.pos = Police.pos, k.step = Police.step,
         k.records = Police.records, k.barriers = Police.barriers,
         Sees("police", Uncut(k, Thief.pos \in k.support.cells)),
         TakeTurn("police", k), UNCHANGED brain,
         played' \in [Roles -> Seq(SealedRecords)], played'["thief"] = played["thief"],
         Len(played'["police"]) = Thief.step,
         \A i \in 1 .. Thief.step : played'["police"][i] = Thief.records[i]
  PROVE  TypeInv' /\ ThiefToAct' /\ PoliceSteps
<1>1. /\ Police.step \in Nat /\ Thief.pos \in Cells /\ Police.pos \in Cells
      /\ brain["police"] \in {"policy", "session"}
  BY Sides DEF TypeInv, IsHalf, Police, Thief
<1>2. \A action \in Choices("police", k, k.step + 1) : LegalChoice(k, action)
  BY <1>1, PoliceChoice DEF LegalChoice
<1>3. k.pending \in SUBSET Answers
  OBVIOUS
<1>4. PICK action \in Choices("police", k, k.step + 1) :
        \E message : TurnTaken("police", k, action, message)
  BY <1>2, <1>3, Sides, TurnShape
<1>5. PICK message : TurnTaken("police", k, action, message)
  BY <1>4
<1> DEFINE new == half'["police"]
<1>6. /\ half' = [half EXCEPT !["police"] = new]
      /\ Follows(k, new) /\ ~new.records[new.step].closing
      /\ new.barriers = Police.barriers \cup action.barrier
      /\ new.pos = IF action.barrier = {} THEN Towards(Police.pos, action.move) ELSE Police.pos
      /\ message.claim = {new.pos} /\ message.barrier = action.barrier
      /\ message.commit = new.records[new.step]
      /\ message.win = WinClaim("police", new)
      /\ result' = [result EXCEPT !["police"] = message.win]
      /\ cornered' = cornered
      /\ Push("police", message)
  BY <1>5 DEF TurnTaken
<1>7. half'["thief"] = Thief
  BY <1>6, Sides DEF TypeInv, Thief
<1>8. wire["police"] = <<ForPolice>> /\ wire["thief"] = <<>>
  BY Sides DEF PoliceToAct, Waits
<1>9. wire'["thief"] = <<message>> /\ wire'["police"] = <<>> /\ wire' = [r \in Roles |-> wire'[r]]
  <2>1. wire' = [wire EXCEPT !["police"] = Rest(wire["police"]),
                             !["thief"] = Append(wire["thief"], message)]
    BY <1>6, Sides DEF Push
  <2>2. wire = [r \in Roles |-> wire[r]]
    BY DEF TypeInv
  <2>3. wire' = [r \in Roles |-> wire'[r]]
    BY <2>1, <2>2
  <2>4. wire'["police"] = Rest(wire["police"]) /\ wire'["thief"] = Append(wire["thief"], message)
    BY <2>1, <2>2, Sides
  <2>5. Rest(wire["police"]) = <<>>
    BY <1>8, TailOfOne DEF Rest
  <2>6. QED
    BY <2>3, <2>4, <2>5, <1>8, AppendToNone
<1>10. /\ SealedInOrder(Police, Police.step) /\ Thief.step = Police.step + 1
       /\ Thief.step < MaxSteps
  BY <1>1, StepsAssumption DEF PoliceToAct
<1>11. /\ new.step = Thief.step
       /\ SealedInOrder(new, new.step)
       /\ \A i \in 1 .. Police.step : new.records[i] = Police.records[i]
  <2>1. /\ new.step = Thief.step
        /\ \A i \in 1 .. Police.step : new.records[i] = Police.records[i]
    BY <1>6, <1>10 DEF Follows
  <2>2. SealedInOrder(Police, k.step) /\ Police.step = k.step /\ Police.records = k.records
    BY <1>10
  <2>3. SealedInOrder(new, new.step)
    BY <1>6, <2>2, OrderGrows
  <2>4. QED
    BY <2>1, <2>3
<1>12. message.win = "none"
  BY <1>1, <1>6, <1>10, <1>11, StepsAssumption DEF WinClaim
\* Where it goes and what it bars.
<1>13. /\ Free(Police.pos) /\ Free(Thief.pos)
       /\ ~cornered => Thief.pos \notin LegalCells(Police.pos, Police.barriers)
  BY DEF PoliceToAct, Escapes
<1>14. /\ new.pos \notin new.barriers
       /\ ~cornered => Thief.pos # new.pos /\ Thief.pos \notin new.barriers
  <2>1. CASE \E t \in LegalTokenSet(k.pos, k.barriers) : action = MoveTo(t)
    <3>1. PICK t \in LegalTokenSet(Police.pos, Police.barriers) : action = MoveTo(t)
      BY <2>1
    <3>2. new.pos = Towards(Police.pos, t) /\ new.barriers = Police.barriers
      BY <1>6, <3>1 DEF MoveTo
    <3>3. QED
      BY <1>1, <1>13, <3>2, LegalMoves DEF Free
  <2>2. CASE \E d \in Around(k.pos, k.barriers) : action = Bar(d)
    <3>1. PICK d \in Around(Police.pos, Police.barriers) : action = Bar(d)
      BY <2>2
    <3>2. new.pos = Police.pos /\ new.barriers = Police.barriers \cup {d}
      BY <1>6, <3>1 DEF Bar
    <3>3. d # Police.pos /\ d \in LegalCells(Police.pos, Police.barriers)
      BY <1>1, AroundIsLegal
    <3>4. Police.pos \in LegalCells(Police.pos, Police.barriers)
      BY <1>1, StayIsLegal
    <3>5. QED
      BY <1>13, <3>2, <3>3, <3>4 DEF Free
  <2>3. QED
    BY <1>2, <2>1, <2>2 DEF LegalChoice
<1>15. TypeInv'
  <2>1. IsHalf(new) /\ new.pending = {}
    BY <1>6 DEF Follows
  <2>2. half' = [r \in Roles |-> half'[r]]
    BY <1>6 DEF TypeInv
  <2>3. \A r \in Roles : IsHalf(half'[r]) /\ half'[r].pending = {}
    BY <2>1, <1>7, Sides DEF TypeInv, Thief
  <2>4. result' \in [Roles -> {"none", "capture", "survival"}]
    BY <1>6, <1>12 DEF TypeInv
  <2>5. QED
    BY <2>2, <2>3, <2>4, <1>9 DEF TypeInv, IsHalf
<1>16. result["thief"] = "none"
  BY DEF PoliceToAct
<1>17. result'["police"] = "none" /\ result'["thief"] = "none"
  BY <1>6, <1>12, <1>16, Sides DEF TypeInv
<1>18. new.support = k.support
  BY <1>6 DEF Follows
<1>19. ThiefToAct'
  <2>1. Waits("thief", ForThief)' /\ ForThief' = message
    BY <1>9, Sides, AppendToNone DEF Waits, ForThief
  <2>2. HasPlayed("police", Police.step)'
    BY <1>7, <1>11, Sides DEF HasPlayed, Police, Thief
  <2>3. HasPlayed("thief", Police.step) /\ new.step - 1 = Police.step
    BY <1>1, <1>10, <1>11 DEF PoliceToAct
  <2>4. HasPlayed("thief", Police.step - 1)'
    BY <1>7, <1>11, <2>3, Sides DEF HasPlayed, Police, Thief
  <2>5. Sees("police", Uncut(Police, Thief.pos \in Police.support.cells))'
    BY <1>7, <1>18 DEF Sees, Uncut, Police, Thief
  <2>7. NotTaken'
    BY <1>6, <1>7, <1>14 DEF NotTaken, Police, Thief
  <2>8. SealedInOrder(Thief, Thief.step)
    BY DEF PoliceToAct
  <2>9. (SealedInOrder(Police, Police.step) /\ SealedInOrder(Thief, Thief.step))'
    BY <1>7, <1>11, <2>8 DEF SealedInOrder, Police, Thief
  <2>10. Thief.barriers = Police.barriers /\ Around(Thief.pos, Police.barriers) # {}
    BY DEF PoliceToAct
  <2>11. (/\ Free(Police.pos) /\ Thief.pos \notin Thief.barriers
          /\ Around(Thief.pos, Thief.barriers) # {}
          /\ Police.barriers = Thief.barriers \cup ForThief.barrier)'
    BY <1>6, <1>7, <1>13, <1>14, <2>1, <2>10 DEF Free, Police, Thief
  <2>12. (/\ Thief.step = Police.step /\ Police.step > 0 /\ Police.step < MaxSteps
          /\ ForThief.commit = Police.records[Police.step])'
    BY <1>1, <1>6, <1>7, <1>10, <1>11, <2>1 DEF Police, Thief
  <2>13. (ForThief.claim = {Police.pos} /\ ForThief.win = "none")'
    BY <1>6, <1>12, <2>1 DEF Police
  <2>14. QED
    BY <2>1, <2>2, <2>4, <2>5, <2>7, <2>9, <2>11, <2>12, <2>13, <1>17 DEF ThiefToAct
<1>20. PoliceSteps
  <2>1. LegalChoice(Police, action)
    BY <1>2 DEF LegalChoice
  <2>2. QED
    BY <1>6, <1>7, <2>1 DEF PoliceSteps
<1>21. QED
  BY <1>15, <1>19, <1>20

\* The Police concludes with the result of the Thief.
LEMMA ConcludeStep ==
  ASSUME TypeInv, PoliceToAct \/ PoliceToHear,
         NEW k, IsHalf(k), k.pending = {}, k.pos = Police.pos, k.step = Police.step,
         k.records = Police.records, k.barriers = Police.barriers,
         NEW reason, reason = result["thief"],
         \/ PoliceToAct /\ ForPolice.win = "survival"
         \/ PoliceToHear,
         Concludes("police", k, reason), UNCHANGED brain,
         played' \in [Roles -> Seq(SealedRecords)], played'["thief"] = played["thief"],
         Len(played'["police"]) = Thief.step,
         \A i \in 1 .. Thief.step : played'["police"][i] = Thief.records[i]
  PROVE  TypeInv' /\ Done' /\ BoardStays /\ result'["thief"] = result["thief"]
<1>1. /\ half' = [half EXCEPT !["police"] = k]
      /\ result' = [result EXCEPT !["police"] = reason]
      /\ wire' = [wire EXCEPT !["police"] = Tail(@)]
      /\ cornered' = cornered
  BY DEF Concludes
<1>2. half'["thief"] = Thief /\ half'["police"] = k
  BY <1>1, Sides DEF TypeInv, Thief
<1>3. wire["police"] = <<ForPolice>> /\ wire["thief"] = <<>>
  BY Sides DEF PoliceToAct, PoliceToHear, Waits
<1>4. wire'["police"] = <<>> /\ wire'["thief"] = <<>> /\ wire' = [r \in Roles |-> wire'[r]]
  <2>1. wire = [r \in Roles |-> wire[r]]
    BY DEF TypeInv
  <2>2. wire' = [r \in Roles |-> wire'[r]]
    BY <1>1, <2>1
  <2>3. wire'["police"] = Tail(wire["police"]) /\ wire'["thief"] = wire["thief"]
    BY <1>1, <2>1, Sides
  <2>4. QED
    BY <2>2, <2>3, <1>3, TailOfOne
<1>5. TypeInv'
  <2>1. half' = [r \in Roles |-> half'[r]]
    BY <1>1 DEF TypeInv
  <2>2. \A r \in Roles : IsHalf(half'[r]) /\ half'[r].pending = {}
    BY <1>2, Sides DEF TypeInv, Thief
  <2>3. result' \in [Roles -> {"none", "capture", "survival"}]
    BY <1>1, Sides DEF TypeInv
  <2>4. QED
    BY <2>1, <2>2, <2>3, <1>4 DEF TypeInv, IsHalf
<1>6. result'["police"] = reason /\ result'["thief"] = reason
  BY <1>1, Sides DEF TypeInv
<1>7. HasPlayed("police", Thief.step)'
  BY <1>2, Sides DEF HasPlayed, Thief
<1>8. HasPlayed("thief", Police.step) => HasPlayed("thief", Police.step)'
  BY <1>2, Sides DEF HasPlayed, Police
<1>9. \A n : /\ SealedInOrder(Police, n) => SealedInOrder(Police', n)
             /\ SealedInOrder(Thief, n) => SealedInOrder(Thief', n)
  BY <1>2 DEF SealedInOrder, Police, Thief
<1>10. Police'.step = Police.step /\ Thief'.step = Thief.step /\ Police.step \in Nat
  BY <1>2, Sides DEF Police, Thief, TypeInv, IsHalf
<1>11. CASE PoliceToHear
  <2>1. TakenOnBoard' /\ NotTaken'
    BY <1>1, <1>2, <1>11 DEF TakenOnBoard, NotTaken, Police, Thief, PoliceToHear, Captured
  <2>2. /\ SealedInOrder(Police, Police.step) /\ SealedInOrder(Thief, Police.step)
        /\ Thief.step = Police.step + 1 /\ Police.step > 0 /\ result["thief"] = "capture"
        /\ HasPlayed("thief", Police.step)
    BY <1>11 DEF PoliceToHear, Captured
  <2>3. Captured'
    BY <2>1, <2>2, <1>6, <1>8, <1>9, <1>10 DEF Captured
  <2>4. QED
    BY <2>3, <1>2, <1>4, <1>5, <1>6, <1>7 DEF Done, BoardStays, Police, Thief
<1>12. CASE PoliceToAct /\ ForPolice.win = "survival"
  <2>1. /\ SealedInOrder(Police, Police.step) /\ SealedInOrder(Thief, Thief.step)
        /\ Thief.step = Police.step + 1 /\ result["thief"] = "survival"
        /\ HasPlayed("thief", Police.step)
        /\ Free(Thief.pos) /\ Around(Thief.pos, Police.barriers) # {}
    BY <1>12 DEF PoliceToAct
  <2>2. Thief.step = MaxSteps
    BY <1>12 DEF PoliceToAct
  <2>3. (Free(Thief.pos) /\ Around(Thief.pos, Police.barriers) # {})'
    BY <2>1, <1>2 DEF Free, Police, Thief
  <2>4. (SealedInOrder(Police, Police.step) /\ SealedInOrder(Thief, Thief.step))'
    BY <2>1, <1>9, <1>10
  <2>5. (/\ result["thief"] = "survival" /\ Thief.step = MaxSteps /\ Police.step + 1 = MaxSteps
         /\ HasPlayed("thief", Police.step))'
    BY <2>1, <2>2, <1>6, <1>8, <1>10
  <2>6. QED
    BY <2>3, <2>4, <2>5, <1>2, <1>4, <1>5, <1>6, <1>7 DEF Done, BoardStays, Police, Thief
<1>13. QED
  BY <1>11, <1>12

LEMMA PoliceProcess ==
  ASSUME TypeInv, PoliceToAct \/ PoliceToHear, Process("police")
  PROVE  /\ TypeInv'
         /\ \/ PoliceToAct /\ ForPolice.win = "none" /\ ThiefToAct' /\ PoliceSteps
            \/ /\ (PoliceToAct /\ ForPolice.win = "survival") \/ PoliceToHear
               /\ Done' /\ BoardStays /\ result'["thief"] = result["thief"]
<1>1. wire["police"] = <<ForPolice>> /\ Head(wire["police"]) = ForPolice
  BY Sides, TailOfOne DEF PoliceToAct, PoliceToHear, Waits
<1>2. PICK k \in Received("police", Police, ForPolice) : Answer("police", k, ForPolice)
  BY <1>1 DEF Process, Police
<1>3. UNCHANGED brain /\ Plays("police", ForPolice.commit)
  BY <1>1 DEF Process, Plays
<1>4. ForPolice.claim = {} /\ ForPolice.barrier = {}
  BY DEF PoliceToAct, PoliceToHear
<1>5. /\ IsHalf(k) /\ k.pending = {}
      /\ k.pos = Police.pos /\ k.step = Police.step /\ k.records = Police.records
      /\ k.barriers = Police.barriers
      /\ Sees("police", k.support \in Observed(Police.support, ForPolice, Police.barriers,
                                               Police.oppStart))
  BY <1>4, PoliceHears
<1>6. /\ played' \in [Roles -> Seq(SealedRecords)] /\ played'["thief"] = played["thief"]
      /\ Len(played'["police"]) = Thief.step
      /\ \A i \in 1 .. Thief.step : played'["police"][i] = Thief.records[i]
  <2>1. Police.step \in Nat
    BY Sides DEF TypeInv, IsHalf, Police
  <2>2. Thief.step = Police.step + 1 /\ ForPolice.commit = Thief.records[Thief.step]
    BY DEF PoliceToAct, PoliceToHear, Captured
  <2>3. HasPlayed("police", Police.step) /\ half[Other("police")] = Thief
    BY Sides DEF PoliceToAct, PoliceToHear, Thief
  <2>4. Police.step + 1 <= half[Other("police")].step
    BY <2>1, <2>2, <2>3
  <2>5. ForPolice.commit = half[Other("police")].records[Police.step + 1]
    BY <2>2, <2>3
  <2>6. /\ played' \in [Roles -> Seq(SealedRecords)]
        /\ played'[Other("police")] = played[Other("police")]
        /\ Len(played'["police"]) = Police.step + 1
        /\ \A i \in 1 .. Police.step + 1 :
             played'["police"][i] = half[Other("police")].records[i]
    BY <2>1, <2>3, <2>4, <2>5, <1>3, Sides, PlaysNext
  <2>7. QED
    BY <2>2, <2>3, <2>6, Sides
<1>7. CASE PoliceToHear
  <2>1. Won(ForPolice) /\ result["thief"] = "capture"
    BY <1>7 DEF PoliceToHear, Captured, Won
  <2>2. Concludes("police", k, "capture")
    BY <1>2, <2>1 DEF Answer
  <2>3. TypeInv' /\ Done' /\ BoardStays /\ result'["thief"] = result["thief"]
    BY <1>3, <1>5, <1>6, <1>7, <2>1, <2>2, ConcludeStep
  <2>4. QED
    BY <1>7, <2>3
<1>8. CASE PoliceToAct
  <2>1. /\ ForPolice.win \in {"survival", "none"} /\ result["thief"] = ForPolice.win
        /\ ~Won(ForPolice)
    BY <1>8 DEF PoliceToAct, Won
  <2>2. CASE ForPolice.win = "survival"
    <3>1. Concludes("police", k, "survival")
      BY <1>2, <2>1, <2>2 DEF Answer
    <3>2. TypeInv' /\ Done' /\ BoardStays /\ result'["thief"] = result["thief"]
      BY <1>3, <1>5, <1>6, <1>8, <2>1, <2>2, <3>1, ConcludeStep
    <3>3. QED
      BY <1>8, <2>2, <3>2
  <2>3. CASE ForPolice.win = "none"
    <3>1. TakeTurn("police", k)
      BY <1>2, <2>1, <2>3 DEF Answer
    <3>2. Sees("police", Uncut(k, Thief.pos \in k.support.cells))
      BY <1>5, <1>8, ThiefIsObserved DEF Sees
    <3>3. TypeInv' /\ ThiefToAct' /\ PoliceSteps
      BY <1>3, <1>5, <1>6, <1>8, <2>3, <3>1, <3>2, PoliceTurnStep
    <3>4. QED
      BY <1>8, <2>3, <3>3
  <2>4. QED
    BY <2>1, <2>2, <2>3
<1>9. QED
  BY <1>7, <1>8

-----------------------------------------------------------------------------
(* The invariant holds at the start and is kept by every step. *)

LEMMA Initially ==
  ASSUME Init
  PROVE  IInv /\ Opening
<1>1. PICK start \in Starts : half = [r \in Roles |-> NewHalf(start, r)]
  BY DEF Init
<1>2. /\ start["police"] \in Cells /\ start["thief"] \in Cells
      /\ start["police"] # start["thief"]
  BY StartsAssumption
<1>3. Police = NewHalf(start, "police") /\ Thief = NewHalf(start, "thief")
  BY <1>1, Sides DEF Police, Thief
<1>4. brain \in [Roles -> {"policy", "session"}]
  BY DEF Init
<1>5. /\ wire = [r \in Roles |-> <<>>] /\ played = [r \in Roles |-> <<>>]
      /\ result = [r \in Roles |-> "none"]
  BY DEF Init
<1>6. <<>> \in Seq(SealedRecords) /\ Len(<<>>) = 0
  OBVIOUS
<1>7. \A r \in Roles : IsHalf(NewHalf(start, r)) /\ NewHalf(start, r).pending = {}
  <2> SUFFICES ASSUME NEW r \in Roles
               PROVE  IsHalf(NewHalf(start, r)) /\ NewHalf(start, r).pending = {}
    OBVIOUS
  <2> DEFINE k == NewHalf(start, r)
  <2>1. k = [f \in HalfFields |-> k[f]]
    BY DEF NewHalf, HalfFields
  <2>2. /\ k.pos = start[r] /\ k.oppStart = start[Other(r)] /\ k.step = 0
        /\ k.records = <<>> /\ k.pending = {}
    BY DEF NewHalf
  <2> HIDE DEF k
  <2>3. start[r] \in Cells /\ start[Other(r)] \in Cells
    BY <1>2, Sides
  <2>4. IsHalf(k) /\ k.pending = {}
    <3>1. k.pos \in Cells /\ k.oppStart \in Cells /\ k.step \in Nat
      BY <2>2, <2>3
    <3>2. k.records \in Seq(SealedRecords) /\ Len(k.records) = k.step
      BY <2>2, <1>6
    <3>3. QED
      BY <2>1, <2>2, <3>1, <3>2 DEF IsHalf
  <2>5. QED
    BY <2>4 DEF k
<1>8. TypeInv
  <2>1. half = [r \in Roles |-> half[r]] /\ \A r \in Roles : half[r] = NewHalf(start, r)
    BY <1>1
  <2>2. wire = [r \in Roles |-> wire[r]]
    BY <1>5
  <2>3. played \in [Roles -> Seq(SealedRecords)]
    BY <1>5, <1>6
  <2>4. result \in [Roles -> {"none", "capture", "survival"}]
    BY <1>5
  <2>5. QED
    BY <1>4, <1>7, <2>1, <2>2, <2>3, <2>4 DEF TypeInv
<1>9. Opening
  <2>1. /\ Police.pos = start["police"] /\ Thief.pos = start["thief"]
        /\ Police.step = 0 /\ Thief.step = 0
        /\ Police.barriers = {} /\ Thief.barriers = {}
        /\ Thief.oppStart = start["police"] /\ Thief.known = {} /\ Thief.last = {}
        /\ Thief.field = NoScent
    BY <1>3 DEF NewHalf, Other
  <2>2. /\ Sees("police", Police.support.cells = {start["thief"]})
        /\ Sees("thief", Thief.support.cells = {start["police"]})
    BY <1>3 DEF NewHalf, Other, Sees, Hypotheses
  <2>3. /\ wire["police"] = <<>> /\ wire["thief"] = <<>>
        /\ result["police"] = "none" /\ result["thief"] = "none"
        /\ Len(played["police"]) = 0 /\ Len(played["thief"]) = 0
    BY <1>5, <1>6, Sides
  <2>4. QED
    BY <1>2, <2>1, <2>2, <2>3 DEF Opening, Sees
<1>10. QED
  BY <1>8, <1>9 DEF IInv, Phases

LEMMA OpenStep ==
  ASSUME TypeInv, Opening, Open
  PROVE  TypeInv' /\ PoliceToAct' /\ ThiefSteps
<1>1. /\ TakeTurn("thief", Thief) /\ UNCHANGED <<brain, played>>
  BY DEF Open, Thief
<1>2. IsHalf(Thief) /\ IsHalf(Police) /\ Thief.pending = {}
  BY Sides DEF TypeInv, Thief, Police
<1>3. /\ Police.step = 0 /\ Thief.step = 0 /\ Police.pos # Thief.pos
      /\ Police.barriers = {} /\ Thief.barriers = {}
      /\ Police.pos \in Cells /\ Thief.pos \in Cells
  BY <1>2 DEF Opening, IsHalf
<1>4. Free(Police.pos) /\ Free(Thief.pos) /\ Around(Thief.pos, Police.barriers) # {}
  BY <1>3, BoardHasExits DEF Free
<1>5. /\ SealedInOrder(Police, Police.step) /\ SealedInOrder(Thief, Thief.step)
      /\ HasPlayed("police", Police.step)
      /\ Len(played'["thief"]) = Police.step
      /\ \A i \in 1 .. Police.step : played'["thief"][i] = Police.records[i]
  BY <1>1, <1>3 DEF SealedInOrder, HasPlayed, Opening
<1>6. TakesPoliceAt(Thief, Police.pos)
  BY <1>3, TheOne DEF Opening, TakesPoliceAt, Or, Sees, Posterior, Unbarred
<1>7. /\ wire["police"] = <<>> /\ Rest(wire["thief"]) = <<>> /\ result["police"] = "none"
      /\ Sees("police", Uncut(Police, Thief.pos \in Police.support.cells))
      /\ Sees("thief", Thief.support.cells = {Police.pos})
  BY DEF Opening, Rest, Sees, Uncut
<1>8. /\ played' \in [Roles -> Seq(SealedRecords)] /\ played'["police"] = played["police"]
      /\ Police.step < MaxSteps /\ Thief.pending \in SUBSET Answers
      /\ \A a \in Thief.pending : ~a.caught
  BY <1>1, <1>2, <1>3, StepsAssumption DEF TypeInv
<1>9. Thief.barriers = Police.barriers /\ Thief.step = Police.step
  BY <1>3
<1>10. QED
  BY <1>1, <1>2, <1>4, <1>5, <1>6, <1>7, <1>8, <1>9, ThiefTurnStep

LEMMA Stutters ==
  ASSUME TypeInv, Phases, UNCHANGED vars
  PROVE  TypeInv' /\ Phases'
<1>1. TypeInv'
  BY DEF vars, TypeInv, IsHalf
<1>2. /\ UNCHANGED <<Police, Thief, ForPolice, ForThief>>
      /\ UNCHANGED <<brain, wire, played, result, cornered, half>>
  BY DEF vars, Police, Thief, ForPolice, ForThief
<1>3. /\ \A r, n : HasPlayed(r, n) => HasPlayed(r, n)'
      /\ \A n : SealedInOrder(Police, n) => SealedInOrder(Police', n)
      /\ \A n : SealedInOrder(Thief, n) => SealedInOrder(Thief', n)
      /\ \A r, m : Waits(r, m) => Waits(r, m)'
      /\ \A c : Free(c) => Free(c)'
      /\ NotTaken => NotTaken'
      /\ TakenOnBoard => TakenOnBoard'
      /\ Escapes => Escapes'
  BY <1>2 DEF HasPlayed, SealedInOrder, Waits, Free, NotTaken, TakenOnBoard, Escapes
<1>4. Opening => Opening'
  BY <1>2 DEF Opening, Sees
<1>5. PoliceToAct => PoliceToAct'
  BY <1>2, <1>3 DEF PoliceToAct, Sees, Uncut, StepsTo
<1>6. ThiefToAct => ThiefToAct'
  BY <1>2, <1>3 DEF ThiefToAct, Sees, Uncut
<1>7. Captured => Captured'
  BY <1>2, <1>3 DEF Captured
<1>8. PoliceToHear => PoliceToHear'
  BY <1>2, <1>3, <1>7 DEF PoliceToHear
<1>9. Done => Done'
  BY <1>2, <1>3, <1>7 DEF Done
<1>10. QED
  BY <1>1, <1>4, <1>5, <1>6, <1>8, <1>9 DEF Phases

\* What a step does to the game, by the phase it begins in.
LEMMA Rounds ==
  ASSUME IInv, Next
  PROVE  /\ TypeInv'
         /\ \/ Opening /\ PoliceToAct' /\ ThiefSteps
            \/ ThiefToAct /\ ~TakenOnBoard /\ PoliceToAct' /\ ThiefSteps
            \/ ThiefToAct /\ TakenOnBoard /\ PoliceToHear' /\ BoardStays
            \/ PoliceToAct /\ ForPolice.win = "none" /\ ThiefToAct' /\ PoliceSteps
            \/ /\ (PoliceToAct /\ ForPolice.win = "survival") \/ PoliceToHear
               /\ Done' /\ BoardStays /\ result'["thief"] = result["thief"]
            \/ Phases' /\ UNCHANGED vars
<1>1. TypeInv /\ Phases
  BY DEF IInv
<1>2. CASE Open
  <2>1. Thief.step = 0 /\ Police.step \in Nat /\ Thief.step \in Nat
    BY <1>1, <1>2, Sides DEF Open, Thief, Police, TypeInv, IsHalf
  <2>2. Opening
    <3>1. /\ PoliceToAct => Thief.step = Police.step + 1
          /\ ThiefToAct => Thief.step = Police.step /\ Police.step > 0
          /\ Captured => Thief.step = Police.step + 1
          /\ PoliceToHear => Captured
          /\ Done => Captured \/ Thief.step = MaxSteps
      BY DEF PoliceToAct, ThiefToAct, Captured, PoliceToHear, Done
    <3>2. ~PoliceToAct /\ ~ThiefToAct /\ ~PoliceToHear /\ ~Done
      BY <2>1, <3>1, StepsAssumption
    <3>3. QED
      BY <1>1, <3>2 DEF Phases
  <2>3. QED
    BY <1>1, <1>2, <2>2, OpenStep
<1>3. ASSUME NEW role \in Roles, Process(role)
      PROVE  /\ TypeInv'
             /\ \/ ThiefToAct /\ ~TakenOnBoard /\ PoliceToAct' /\ ThiefSteps
                \/ ThiefToAct /\ TakenOnBoard /\ PoliceToHear' /\ BoardStays
                \/ PoliceToAct /\ ForPolice.win = "none" /\ ThiefToAct' /\ PoliceSteps
                \/ /\ (PoliceToAct /\ ForPolice.win = "survival") \/ PoliceToHear
                   /\ Done' /\ BoardStays /\ result'["thief"] = result["thief"]
  <2>1. wire[role] # <<>>
    BY <1>3 DEF Process
  <2>2. CASE role = "thief"
    <3>1. ThiefToAct
      BY <1>1, <2>1, <2>2, Sides DEF Phases, Opening, PoliceToAct, PoliceToHear, Done, Waits
    <3>2. QED
      BY <1>1, <1>3, <2>2, <3>1, ThiefProcess
  <2>3. CASE role = "police"
    <3>1. PoliceToAct \/ PoliceToHear
      BY <1>1, <2>1, <2>3, Sides DEF Phases, Opening, ThiefToAct, Done, Waits
    <3>2. QED
      BY <1>1, <1>3, <2>3, <3>1, PoliceProcess
  <2>4. QED
    BY <2>2, <2>3, Sides
<1>4. CASE Over
  <2>1. UNCHANGED vars
    BY <1>4 DEF Over
  <2>2. QED
    BY <1>1, <2>1, Stutters
<1>5. QED
  BY <1>2, <1>3, <1>4 DEF Next

LEMMA Inductive ==
  ASSUME IInv, [Next]_vars
  PROVE  IInv'
<1>1. CASE Next
  BY <1>1, Rounds DEF IInv, Phases
<1>2. CASE UNCHANGED vars
  BY <1>2, Stutters DEF IInv
<1>3. QED
  BY <1>1, <1>2

(***************************************************************************)
(* The token goes round: there is one turn on the wire from the first to   *)
(* the last, each side knows what it was told and no more, and the Police  *)
(* is the last to conclude (runtime.py:70-141, engine.py:65-160).          *)
(***************************************************************************)
THEOREM GameInvariant == Spec => []IInv
<1>1. Init => IInv
  BY Initially
<1>2. IInv /\ [Next]_vars => IInv'
  BY Inductive
<1>3. QED
  BY <1>1, <1>2, PTL DEF Spec

-----------------------------------------------------------------------------
(* What a referee would say, phase by phase. *)

LEMMA Counting ==
  ASSUME TypeInv, NEW r \in Roles, NEW n \in Nat, n <= half[r].step, SealedInOrder(half[r], n)
  PROVE  Acts(r) = n
<1>1. IsHalf(half[r])
  BY DEF TypeInv
<1>2. DOMAIN half[r].records = 1 .. half[r].step /\ half[r].step \in Nat
  BY <1>1 DEF IsHalf
<1>3. {i \in DOMAIN half[r].records : ~half[r].records[i].closing} = 1 .. n
  BY <1>2 DEF SealedInOrder
<1>4. Cardinality(1 .. n) = n
  BY FS_Interval
<1>5. QED
  BY <1>3, <1>4 DEF Acts

LEMMA Truths ==
  ASSUME TypeInv
  PROVE  /\ Opening => Acts("police") = 0 /\ Acts("thief") = 0 /\ Truth = "none"
         /\ PoliceToAct => /\ Acts("police") = Police.step /\ Acts("thief") = Police.step + 1
                           /\ Truth = ForPolice.win
         /\ ThiefToAct => /\ Acts("police") = Police.step /\ Acts("thief") = Police.step
                          /\ Truth = IF TakenOnBoard THEN "capture" ELSE "none"
         /\ Captured => /\ Acts("police") = Police.step /\ Acts("thief") = Police.step
                        /\ Truth = "capture"
         /\ Done /\ ~Captured => /\ Acts("police") = Police.step
                                 /\ Acts("thief") = Police.step + 1
                                 /\ Truth = "survival"
<1>1. /\ half["police"] = Police /\ half["thief"] = Thief
      /\ IsHalf(Police) /\ IsHalf(Thief) /\ Police.step \in Nat /\ Thief.step \in Nat
      /\ Police.pos \in Cells /\ Thief.pos \in Cells
  BY Sides DEF TypeInv, Police, Thief, IsHalf
<1>2. \A n \in Nat : /\ n <= Police.step /\ SealedInOrder(Police, n) => Acts("police") = n
                     /\ n <= Thief.step /\ SealedInOrder(Thief, n) => Acts("thief") = n
  BY <1>1, Sides, Counting
<1>3. ASSUME Opening
      PROVE  Acts("police") = 0 /\ Acts("thief") = 0 /\ Truth = "none"
  <2>1. Acts("police") = 0 /\ Acts("thief") = 0
    BY <1>2, <1>3 DEF Opening, SealedInOrder
  <2>2. Around(Thief.pos, Police.barriers) # {} /\ Thief.pos \notin Police.barriers
    BY <1>1, <1>3, BoardHasExits DEF Opening
  <2>3. QED
    BY <1>1, <2>1, <2>2, StepsAssumption DEF Truth, Taken
<1>4. ASSUME PoliceToAct
      PROVE  /\ Acts("police") = Police.step /\ Acts("thief") = Police.step + 1
             /\ Truth = ForPolice.win
  <2>1. /\ SealedInOrder(Police, Police.step) /\ SealedInOrder(Thief, Thief.step)
        /\ Thief.step = Police.step + 1
        /\ ForPolice.win = IF Thief.step = MaxSteps THEN "survival" ELSE "none"
        /\ Free(Thief.pos) /\ Around(Thief.pos, Police.barriers) # {}
    BY <1>4 DEF PoliceToAct
  <2>2. Acts("police") = Police.step /\ Acts("thief") = Thief.step
    BY <1>1, <1>2, <2>1
  <2>3. ~PoliceActedLast
    BY <1>1, <2>1, <2>2 DEF PoliceActedLast
  <2>4. QED
    BY <1>1, <2>1, <2>2, <2>3 DEF Truth, Taken, Free
<1>5. ASSUME ThiefToAct
      PROVE  /\ Acts("police") = Police.step /\ Acts("thief") = Police.step
             /\ Truth = IF TakenOnBoard THEN "capture" ELSE "none"
  <2>1. /\ SealedInOrder(Police, Police.step) /\ SealedInOrder(Thief, Thief.step)
        /\ Thief.step = Police.step /\ Police.step > 0 /\ Police.step < MaxSteps
    BY <1>5 DEF ThiefToAct
  <2>2. Acts("police") = Police.step /\ Acts("thief") = Police.step
    BY <1>1, <1>2, <2>1
  <2>3. Taken <=> TakenOnBoard
    BY <1>1, <2>1, <2>2 DEF Taken, TakenOnBoard, PoliceActedLast
  <2>4. QED
    BY <1>1, <2>1, <2>2, <2>3, StepsAssumption DEF Truth
<1>6. ASSUME Captured
      PROVE  /\ Acts("police") = Police.step /\ Acts("thief") = Police.step
             /\ Truth = "capture"
  <2>1. /\ SealedInOrder(Police, Police.step) /\ SealedInOrder(Thief, Police.step)
        /\ Thief.step = Police.step + 1 /\ Police.step > 0 /\ TakenOnBoard
    BY <1>6 DEF Captured
  <2>2. Acts("police") = Police.step /\ Acts("thief") = Police.step
    BY <1>1, <1>2, <2>1
  <2>3. Taken
    BY <1>1, <2>1, <2>2 DEF Taken, TakenOnBoard, PoliceActedLast
  <2>4. QED
    BY <2>2, <2>3 DEF Truth
<1>7. ASSUME Done, ~Captured
      PROVE  /\ Acts("police") = Police.step /\ Acts("thief") = Police.step + 1
             /\ Truth = "survival"
  <2>1. /\ SealedInOrder(Police, Police.step) /\ SealedInOrder(Thief, Thief.step)
        /\ Thief.step = MaxSteps /\ Police.step + 1 = MaxSteps
        /\ Free(Thief.pos) /\ Around(Thief.pos, Police.barriers) # {}
    BY <1>7 DEF Done
  <2>2. Acts("police") = Police.step /\ Acts("thief") = MaxSteps
    BY <1>1, <1>2, <2>1, StepsAssumption
  <2>3. ~PoliceActedLast
    BY <1>1, <2>1, <2>2 DEF PoliceActedLast
  <2>4. QED
    BY <1>1, <2>1, <2>2, <2>3 DEF Truth, Taken, Free
<1>8. QED
  BY <1>3, <1>4, <1>5, <1>6, <1>7

-----------------------------------------------------------------------------
(* The properties. *)

LEMMA EverythingAnswers ==
  ASSUME TypeInv, NEW r \in Roles, HasPlayed(r, half[Other(r)].step),
         NEW n, SealedInOrder(half[Other(r)], n)
  PROVE  FailedSteps(r) = {} /\ Len(played[r]) = Len(half[Other(r)].records)
<1>1. IsHalf(half[Other(r)])
  BY Sides DEF TypeInv
<1>2. /\ DOMAIN half[Other(r)].records = 1 .. half[Other(r)].step
      /\ Len(half[Other(r)].records) = half[Other(r)].step
      /\ half[Other(r)].step \in Nat
  BY <1>1 DEF IsHalf
<1>3. played[r] \in Seq(SealedRecords) /\ Len(played[r]) = half[Other(r)].step
  BY DEF TypeInv, HasPlayed
<1>4. DOMAIN played[r] = 1 .. half[Other(r)].step
  BY <1>3
<1>5. \A m \in DOMAIN played[r] : /\ m \in DOMAIN half[Other(r)].records
                                  /\ half[Other(r)].records[m].step = m
                                  /\ half[Other(r)].records[m] = played[r][m]
  BY <1>2, <1>4 DEF SealedInOrder, HasPlayed
<1>6. QED
  BY <1>2, <1>3, <1>5 DEF FailedSteps

LEMMA InvariantTellsResults ==
  ASSUME IInv
  PROVE  ResultsAreTrue
<1>1. TypeInv /\ Phases
  BY DEF IInv
<1>2. half["police"] = Police /\ half["thief"] = Thief
  BY DEF Police, Thief
<1>3. result["police"] \in {"none", Truth} /\ result["thief"] \in {"none", Truth}
  <2>1. CASE Opening
    BY <2>1 DEF Opening
  <2>2. CASE PoliceToAct
    BY <1>1, <2>2, Truths DEF PoliceToAct
  <2>3. CASE ThiefToAct
    BY <2>3 DEF ThiefToAct
  <2>4. CASE PoliceToHear
    BY <1>1, <2>4, Truths DEF PoliceToHear, Captured
  <2>5. CASE Done /\ Captured
    BY <1>1, <2>5, Truths DEF Done, Captured
  <2>6. CASE Done /\ ~Captured
    <3>1. result["police"] = "survival" /\ result["thief"] = "survival"
      BY <2>6 DEF Done
    <3>2. QED
      BY <1>1, <2>6, <3>1, Truths
  <2>7. QED
    BY <1>1, <2>1, <2>2, <2>3, <2>4, <2>5, <2>6 DEF Phases
<1>4. ASSUME Settled
      PROVE  \A r \in Roles : FailedSteps(r) = {} /\ Len(played[r]) = Len(half[Other(r)].records)
  <2>1. Done
    BY <1>1, <1>4, Sides DEF Settled, Phases, Opening, PoliceToAct, ThiefToAct, PoliceToHear
  <2>2. HasPlayed("police", Thief.step) /\ HasPlayed("thief", Police.step)
    BY <2>1 DEF Done, Captured
  <2>3. (\E n : SealedInOrder(Police, n)) /\ (\E n : SealedInOrder(Thief, n))
    BY <2>1 DEF Done, Captured
  <2>4. FailedSteps("police") = {} /\ Len(played["police"]) = Len(half[Other("police")].records)
    BY <1>1, <1>2, <2>2, <2>3, Sides, EverythingAnswers
  <2>5. FailedSteps("thief") = {} /\ Len(played["thief"]) = Len(half[Other("thief")].records)
    BY <1>1, <1>2, <2>2, <2>3, Sides, EverythingAnswers
  <2>6. QED
    BY <2>4, <2>5, Sides
<1>5. QED
  BY <1>3, <1>4, Sides DEF ResultsAreTrue

LEMMA InvariantKeepsUp ==
  ASSUME IInv
  PROVE  KnowledgeKeepsUp
<1>1. TypeInv /\ Phases
  BY DEF IInv
<1>2. SUFFICES ASSUME NEW r \in Roles, wire[r] = <<>>, Truth = "none"
      PROVE  /\ half[Other(r)].barriers \subseteq half[r].barriers
             /\ brain[r] = "session" /\ ~half[r].support.cut =>
                  half[Other(r)].pos \in Posterior(half[r])
             /\ brain[r] = "session" /\ r = "thief" => Posterior(half[r]) = {half[Other(r)].pos}
  BY DEF KnowledgeKeepsUp
<1>3. half["police"] = Police /\ half["thief"] = Thief
  BY DEF Police, Thief
<1>4. CASE Opening
  BY <1>3, <1>4, Sides DEF Opening, Sees, Posterior, Unbarred
<1>5. CASE PoliceToAct
  <2>1. r = "thief"
    <3>1. wire["police"] = <<ForPolice>>
      BY <1>5 DEF PoliceToAct, Waits
    <3>2. wire["police"] # <<>>
      BY <3>1
    <3>3. QED
      BY <1>2, <3>2, Sides
  <2>2. QED
    BY <1>3, <1>5, <2>1, Sides DEF PoliceToAct, Sees, Posterior, Unbarred, Free
<1>6. CASE ThiefToAct
  <2>1. r = "police"
    <3>1. wire["thief"] = <<ForThief>>
      BY <1>6 DEF ThiefToAct, Waits
    <3>2. wire["thief"] # <<>>
      BY <3>1
    <3>3. QED
      BY <1>2, <3>2, Sides
  <2>2. ~TakenOnBoard
    BY <1>1, <1>2, <1>6, Truths
  <2>3. Thief.pos \notin Police.barriers
    BY <2>2 DEF TakenOnBoard
  <2>4. QED
    BY <1>3, <1>6, <2>1, <2>3, Sides DEF ThiefToAct, Sees, Uncut, Posterior, Unbarred
<1>7. ~PoliceToHear /\ ~Done
  <2>1. ~Captured
    BY <1>1, <1>2, Truths
  <2>2. QED
    BY <1>1, <1>2, <2>1, Truths DEF PoliceToHear
<1>8. QED
  BY <1>1, <1>4, <1>5, <1>6, <1>7 DEF Phases

LEMMA InvariantKeepsFree ==
  ASSUME IInv
  PROVE  FreeThiefIsNotTaken
<1>1. TypeInv /\ Phases
  BY DEF IInv
<1>2. SUFFICES ASSUME Truth = "capture"
               PROVE  NotTaken
  BY DEF FreeThiefIsNotTaken, NotTaken, Police, Thief
<1>3. ~Opening
  BY <1>1, <1>2, Truths
<1>4. PoliceToAct => ForPolice.win \in {"survival", "none"}
  BY DEF PoliceToAct
<1>5. ~PoliceToAct
  BY <1>1, <1>2, <1>4, Truths
<1>6. ThiefToAct \/ Captured
  BY <1>1, <1>2, <1>3, <1>5, Truths DEF Phases, PoliceToHear
<1>7. QED
  BY <1>6 DEF ThiefToAct, Captured

(***************************************************************************)
(* Each side concludes what a referee would, both the same, and each       *)
(* commitment that was played answers to a revealed record                 *)
(* (engine.py:120-160, runtime_audit.py:93-119).                           *)
(***************************************************************************)
THEOREM ResultsStayTrue == Spec => []ResultsAreTrue
<1>1. IInv => ResultsAreTrue
  BY InvariantTellsResults
<1>2. QED
  BY <1>1, GameInvariant, PTL

(***************************************************************************)
(* A side that has heard all there is knows the barriers. A Thief's        *)
(* session then knows the Police's cell however few hypotheses it may      *)
(* keep; a Police's has the Thief's among its own, unless truncation has   *)
(* dropped a cell (half_receive.py:27-60, compatibility_filter.py:20-118). *)
(***************************************************************************)
THEOREM KnowledgeStaysCurrent == Spec => []KnowledgeKeepsUp
<1>1. IInv => KnowledgeKeepsUp
  BY InvariantKeepsUp
<1>2. QED
  BY <1>1, GameInvariant, PTL

(***************************************************************************)
(* No brain gives a Thief that can get away to the next move of the        *)
(* Police, or to its next barrier (thief_policy.py:55-57,                  *)
(* compatibility_thief.py:22-43).                                          *)
(***************************************************************************)
THEOREM FreeThiefGetsAway == Spec => []FreeThiefIsNotTaken
<1>1. IInv => FreeThiefIsNotTaken
  BY InvariantKeepsFree
<1>2. QED
  BY <1>1, GameInvariant, PTL

-----------------------------------------------------------------------------
(* The game of the arena. *)

\* The referee's round, and who it has to move.
RefereeStep == IF Truth = "none" /\ PoliceActedLast THEN Acts("thief") + 1 ELSE Acts("thief")
RefereeMover ==
  IF Truth # "none" THEN "over" ELSE IF PoliceActedLast THEN "thief" ELSE "police"

\* What it says in each phase.
Judged ==
  /\ Opening => Truth = "none" /\ RefereeMover = "thief" /\ RefereeStep = 1
  /\ PoliceToAct => /\ Truth = ForPolice.win /\ RefereeStep = Police.step + 1
                    /\ RefereeMover = (IF ForPolice.win = "none" THEN "police" ELSE "over")
                    /\ ~PoliceActedLast
  /\ ThiefToAct /\ TakenOnBoard =>
       Truth = "capture" /\ RefereeMover = "over" /\ RefereeStep = Police.step
  /\ ThiefToAct /\ ~TakenOnBoard =>
       Truth = "none" /\ RefereeMover = "thief" /\ RefereeStep = Police.step + 1
  /\ Captured => Truth = "capture" /\ RefereeMover = "over" /\ RefereeStep = Police.step
  /\ Done /\ ~Captured =>
       Truth = "survival" /\ RefereeMover = "over" /\ RefereeStep = Police.step + 1

LEMMA Judgement == TypeInv => Judged
<1> SUFFICES ASSUME TypeInv PROVE Judged
  OBVIOUS
<1>1. Police.step \in Nat
  BY Sides DEF TypeInv, IsHalf, Police
<1>2. QED
  BY <1>1, Truths DEF Judged, RefereeStep, RefereeMover, PoliceActedLast

LEMMA JudgementNext == TypeInv' => Judged'
<1>1. TypeInv => Judged
  BY Judgement
<1>2. QED
  BY <1>1, PTL

\* The arena's board is the game's.
LEMMA ArenaBoard ==
  /\ \A c, t : Referee!Towards(c, t) = Towards(c, t)
  /\ \A c, b : Referee!Passable(c, b) = Passable(c, b)
  /\ \A c, b : Referee!Around(c, b) = Around(c, b)
  BY DEF Referee!Towards, Towards, Referee!Delta, Delta, Referee!Passable, Passable,
         Referee!Cells, Cells, Referee!Around, Around, Referee!OnBoard, OnBoard

LEMMA Proposable ==
  /\ \A t \in DOMAIN Delta : MoveTo(t) \in Referee!Proposals
  /\ \A c \in Cells : Bar(c) \in Referee!Proposals
<1>1. {Referee!Tokens[i] : i \in DOMAIN Referee!Tokens} = {"STAY", "N", "S", "E", "W"}
  BY DEF Referee!Tokens
<1>2. Referee!Cells = Cells
  BY DEF Referee!Cells, Cells
<1>3. QED
  BY <1>1, <1>2, Directions DEF Referee!Proposals, MoveTo, Bar

LEMMA ThiefPlays ==
  ASSUME IInv, Opening \/ (ThiefToAct /\ ~TakenOnBoard), TypeInv', PoliceToAct', ThiefSteps
  PROVE  Referee!ThiefTurn \/ WalkedIn'
<1>1. /\ half["police"] = Police /\ half["thief"] = Thief
      /\ half'["police"] = Police' /\ half'["thief"] = Thief'
  BY DEF Police, Thief
<1>2. TypeInv /\ Police.step \in Nat /\ Thief.pos \in Cells
  BY Sides DEF IInv, TypeInv, IsHalf, Police, Thief
<1>3. /\ Truth = "none" /\ RefereeMover = "thief" /\ RefereeStep = Police.step + 1
  BY <1>2, Judgement DEF Judged, Opening
<1>4. Police' = Police
  BY <1>1 DEF ThiefSteps
<1>5. PICK t \in LegalTokenSet(Thief.pos, Police.barriers) : Thief'.pos = Towards(Thief.pos, t)
  BY <1>1 DEF ThiefSteps
<1>6. /\ Truth' = ForPolice'.win /\ RefereeStep' = Police.step + 1
      /\ RefereeMover' = (IF ForPolice'.win = "none" THEN "police" ELSE "over")
      /\ ~PoliceActedLast'
  BY <1>4, JudgementNext DEF Judged
<1>7. ForPolice'.win = IF Police.step + 1 = MaxSteps THEN "survival" ELSE "none"
  BY <1>4 DEF PoliceToAct
<1>8. SUFFICES ASSUME ~WalkedIn' PROVE Referee!ThiefTurn
  OBVIOUS
<1>9. Thief'.pos # Police.pos
  BY <1>1, <1>4, <1>6, <1>8 DEF WalkedIn
<1>10. MoveTo(t) \in Referee!Proposals /\ MoveTo(t).barrier = {} /\ MoveTo(t).move = t
  BY Proposable DEF LegalTokenSet, MoveTo
<1>11. Referee!Allowed("thief", half["thief"].pos, MoveTo(t)) = MoveTo(t)
  BY <1>1, <1>10, ArenaBoard DEF Referee!Allowed, Referee!LegalAction, LegalTokenSet
<1>12. half'["thief"].pos =
         Referee!Towards(half["thief"].pos,
                         Referee!Allowed("thief", half["thief"].pos, MoveTo(t)).move)
  BY <1>1, <1>5, <1>10, <1>11, ArenaBoard
<1>13. UNCHANGED <<half["police"].pos, half["police"].barriers>>
  BY <1>1, <1>4
<1>14. IF Police.step + 1 = MaxSteps
         THEN Truth' = "survival" /\ RefereeMover' = "over" /\ RefereeStep' = RefereeStep
         ELSE RefereeMover' = "police" /\ UNCHANGED <<RefereeStep, Truth>>
  BY <1>3, <1>6, <1>7
<1>15. QED
  BY <1>1, <1>3, <1>4, <1>9, <1>10, <1>12, <1>13, <1>14
     DEF Referee!ThiefTurn, Referee!EndsAs, RefereeStep, RefereeMover

LEMMA PolicePlays ==
  ASSUME IInv, PoliceToAct, ForPolice.win = "none", TypeInv', ThiefToAct', PoliceSteps
  PROVE  Referee!PoliceTurn \/ WalkedIn
<1>1. /\ half["police"] = Police /\ half["thief"] = Thief
      /\ half'["police"] = Police' /\ half'["thief"] = Thief'
  BY DEF Police, Thief
<1>2. TypeInv /\ Police.step \in Nat /\ Thief.step \in Nat /\ Police.pos \in Cells
  BY Sides DEF IInv, TypeInv, IsHalf, Police, Thief
<1>3. /\ Truth = "none" /\ RefereeMover = "police" /\ RefereeStep = Police.step + 1
      /\ ~PoliceActedLast
  BY <1>2, Judgement DEF Judged
<1>4. Thief' = Thief
  BY <1>1 DEF PoliceSteps
<1>5. PICK action : /\ LegalChoice(Police, action)
                    /\ Police'.barriers = Police.barriers \cup action.barrier
                    /\ Police'.pos = IF action.barrier = {}
                         THEN Towards(Police.pos, action.move) ELSE Police.pos
  BY <1>1 DEF PoliceSteps
<1>6. Police'.step = Police.step + 1
  <2>1. Thief.step = Police.step + 1
    BY DEF PoliceToAct
  <2>2. Thief'.step = Police'.step
    BY DEF ThiefToAct
  <2>3. QED
    BY <2>1, <2>2, <1>4
<1>7. IF TakenOnBoard'
        THEN Truth' = "capture" /\ RefereeMover' = "over" /\ RefereeStep' = RefereeStep
        ELSE RefereeMover' = "thief" /\ RefereeStep' = RefereeStep + 1 /\ Truth' = Truth
  BY <1>3, <1>6, JudgementNext DEF Judged
<1>8. SUFFICES ASSUME ~WalkedIn PROVE Referee!PoliceTurn
  OBVIOUS
<1>9. Thief.pos # Police.pos
  BY <1>1, <1>3, <1>8 DEF WalkedIn
<1>10. /\ action \in Referee!Proposals
       /\ Referee!Allowed("police", half["police"].pos, action) = action
       /\ Police'.pos = Referee!Towards(half["police"].pos, action.move)
       /\ IF action.barrier = {} THEN action.barrier = {} ELSE Police'.pos = Police.pos
  <2>1. CASE \E t \in LegalTokenSet(Police.pos, Police.barriers) : action = MoveTo(t)
    <3>1. PICK t \in LegalTokenSet(Police.pos, Police.barriers) : action = MoveTo(t)
      BY <2>1
    <3>2. action \in Referee!Proposals /\ action.barrier = {} /\ action.move = t
      BY <3>1, Proposable DEF LegalTokenSet, MoveTo
    <3>3. Referee!Allowed("police", half["police"].pos, action) = action
      BY <1>1, <3>2, ArenaBoard DEF Referee!Allowed, Referee!LegalAction, LegalTokenSet
    <3>4. QED
      BY <1>1, <1>5, <3>2, <3>3, ArenaBoard
  <2>2. CASE \E d \in Around(Police.pos, Police.barriers) : action = Bar(d)
    <3>1. PICK d \in Around(Police.pos, Police.barriers) : action = Bar(d)
      BY <2>2
    <3>2. /\ action \in Referee!Proposals /\ action.barrier = {d} /\ action.barrier # {}
          /\ action.move = "STAY"
      BY <3>1, Proposable DEF Around, OnBoard, Bar
    <3>3. Referee!Allowed("police", half["police"].pos, action) = action
      BY <1>1, <3>2, ArenaBoard DEF Referee!Allowed, Referee!LegalAction
    <3>4. QED
      BY <1>1, <1>2, <1>5, <3>2, <3>3, ArenaBoard, Destinations
  <2>3. QED
    BY <1>5, <2>1, <2>2 DEF LegalChoice
<1>11. TakenOnBoard' <=>
         \/ IF action.barrier # {} THEN Thief.pos \in action.barrier ELSE Police'.pos = Thief.pos
         \/ Around(Thief.pos, Police'.barriers) = {}
  BY <1>4, <1>5, <1>9, <1>10 DEF TakenOnBoard, PoliceToAct, Free
<1>12. QED
  BY <1>1, <1>3, <1>4, <1>5, <1>7, <1>10, <1>11, ArenaBoard
     DEF Referee!PoliceTurn, Referee!Captures, Referee!Enclosed, Referee!EndsAs,
         RefereeStep, RefereeMover

\* What is told and concluded after the last turn leaves the arena as it was.
LEMMA ArenaRests ==
  ASSUME IInv, TypeInv', BoardStays,
         \/ ThiefToAct /\ TakenOnBoard /\ PoliceToHear'
         \/ /\ (PoliceToAct /\ ForPolice.win = "survival") \/ PoliceToHear
            /\ Done' /\ result'["thief"] = result["thief"]
  PROVE  UNCHANGED <<Referee!arenaVars>>
<1>1. /\ half["police"] = Police /\ half["thief"] = Thief
      /\ half'["police"] = Police' /\ half'["thief"] = Thief'
  BY DEF Police, Thief
<1>2. TypeInv
  BY DEF IInv
<1>3. UNCHANGED <<Truth, RefereeMover, RefereeStep>>
  <2>1. CASE ThiefToAct /\ TakenOnBoard /\ PoliceToHear'
    BY <1>1, <1>2, <2>1, Judgement, JudgementNext DEF Judged, PoliceToHear, BoardStays
  <2>2. CASE PoliceToAct /\ ForPolice.win = "survival" /\ Done'
             /\ result'["thief"] = result["thief"]
    <3>1. result'["thief"] = "survival"
      BY <2>2 DEF PoliceToAct
    <3>2. ~Captured'
      BY <3>1 DEF Captured
    <3>3. QED
      BY <1>1, <1>2, <2>2, <3>2, Judgement, JudgementNext DEF Judged, BoardStays
  <2>3. CASE PoliceToHear /\ Done' /\ result'["thief"] = result["thief"]
    <3>1. Captured /\ result'["thief"] = "capture"
      BY <2>3 DEF PoliceToHear, Captured
    <3>2. Captured'
      BY <2>3, <3>1 DEF Done
    <3>3. QED
      BY <1>1, <1>2, <3>1, <3>2, Judgement, JudgementNext DEF Judged, BoardStays
  <2>4. QED
    BY <2>1, <2>2, <2>3
<1>4. QED
  BY <1>1, <1>3 DEF BoardStays, Referee!arenaVars, RefereeMover, RefereeStep

LEMMA ArenaStep ==
  ASSUME IInv, [Next]_vars
  PROVE  [Referee!ArenaNext \/ WalkedIn \/ WalkedIn']_<<Referee!arenaVars>>
<1>1. CASE UNCHANGED vars
  BY <1>1 DEF vars, Referee!arenaVars, Truth, Taken, PoliceActedLast, Acts
<1>2. CASE Next /\ ~UNCHANGED vars
  BY <1>2, Rounds, ThiefPlays, PolicePlays, ArenaRests DEF Referee!ArenaNext
<1>3. QED
  BY <1>1, <1>2

LEMMA ArenaOpens ==
  ASSUME Init
  PROVE  Referee!ArenaStart(Starts)
<1>1. TypeInv /\ Opening
  BY Initially DEF IInv
<1>2. Truth = "none" /\ RefereeMover = "thief" /\ RefereeStep = 1
  BY <1>1, Judgement DEF Judged
<1>3. Police.barriers = {} /\ half["police"].barriers = {}
  BY <1>1 DEF Opening, Police
<1>4. PICK start \in Starts : half = [r \in Roles |-> NewHalf(start, r)]
  BY DEF Init
<1>5. half["police"].pos = start["police"] /\ half["thief"].pos = start["thief"]
  BY <1>4, Sides DEF NewHalf
<1>6. start = [police |-> half["police"].pos, thief |-> half["thief"].pos]
  BY <1>5, StartsAssumption
<1>7. QED
  BY <1>2, <1>3, <1>6 DEF Referee!ArenaStart, RefereeMover, RefereeStep

(***************************************************************************)
(* Two halves that see only what the other tells them play the game of the *)
(* arena, turn for turn and to the same end, except for a Thief that steps *)
(* onto the Police (half.py, engine.py:65-160 against                      *)
(* compatibility_turn.py and compatibility_arena.py).                      *)
(***************************************************************************)
THEOREM GameImplementsArena == Spec => PlaysLikeTheArena
<1>1. Init => Referee!ArenaStart(Starts)
  BY ArenaOpens
<1>2. IInv /\ [Next]_vars => [Referee!ArenaNext \/ WalkedIn \/ WalkedIn']_<<Referee!arenaVars>>
  BY ArenaStep
<1>3. QED
  BY <1>1, <1>2, GameInvariant, PTL DEF Spec, PlaysLikeTheArena

=============================================================================
