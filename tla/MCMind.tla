------------------------------- MODULE MCMind -------------------------------
(***************************************************************************)
(* The minds of the players: a game between two entries of the roster, one *)
(* decision of the search, or the scent history through restarts.  They    *)
(* share nothing, so a behaviour is about one of them, or has no step and   *)
(* asks the questions to single operators.                                 *)
(***************************************************************************)
EXTENDS MindGame, DecisionSearch, ScentHistory

VARIABLE part    \* "questions", "game", "search" or "history"

TheStart == [police |-> <<1, 1>>, thief |-> <<2, 2>>]

ThePairings ==
  {[police |-> p, thief |-> t] :
     <<p, t>> \in {<<"BL-ADV-CORNER", "BL-ADV-CYCLE">>, <<"BL-ADV-BOUNDARY", "BL-ADV-SWITCH">>,
                   <<"BL-ADV-LIAR", "BL-REF">>}}

TheArea == <<"the", "old", "harbour">>

Went(cell) == [cell |-> cell, kind |-> "MOVE"]
Barred(cell) == [cell |-> cell, kind |-> Placed]

TheWalks ==
  {<<Went(<<0, 1>>), Went(<<1, 1>>), Went(<<1, 2>>)>>,
   <<Went(<<0, 1>>), Barred(<<0, 1>>), Went(<<0, 2>>)>>,
   <<Barred(<<0, 0>>), Went(<<0, 1>>), Went(<<0, 1>>)>>}

MCInit ==
  /\ part \in {"questions", "game", "search", "history"}
  /\ MindInit /\ SearchInit /\ HistoryInit
  /\ part # "game" => brains = CHOOSE b \in Pairings : TRUE
  /\ part # "game" => channel.delay = 0
  /\ part # "search" => asked = CHOOSE q \in Requests : q.role = "police"
  /\ part # "history" => walk = CHOOSE w \in Walks : TRUE

MCNext ==
  \/ part = "game" /\ MindNext /\ UNCHANGED <<searchVars, historyVars, part>>
  \/ part = "search" /\ SearchNext /\ UNCHANGED <<mindVars, historyVars, part>>
  \/ part = "history" /\ HistoryNext /\ UNCHANGED <<mindVars, searchVars, part>>

MCSpec == MCInit /\ [][MCNext]_<<mindVars, searchVars, historyVars, part>>

----------------------------------------------------------------------------
(* Questions to single operators *)

Single(cell) == [masked |-> {}, weights |-> [c \in Cells |-> IF c = cell THEN 1 ELSE 0]]

Facing(role, position, barriers, there) ==
  Request([InitialState(role, position) EXCEPT !.barriers = barriers],
          Remask(Single(there), barriers), <<>>)

BarrierSets == {{}, {<<1, 1>>, <<2, 2>>}, {<<0, 1>>, <<1, 0>>}}

Trails == {NoScent, Emit(NoScent, <<1, 2>>), Decay(Emit(NoScent, <<3, 3>>))}

Hints == {Covered(c, Size) : c \in {"neutral", "north", "edge"}}

Quarries == {<<0, 0>>, <<1, 2>>}

\* Areas: none, plain, one with a cue of its own, one that is cut after four words.
HintAreas ==
  {<<>>, TheArea, <<"upper", "town">>, <<"the", "far", "old", "town", "hall">>}

(***************************************************************************)
(* Updates of a belief, hints, choices of the brains and answers of the    *)
(* board are what they mean (see BoardGraph, Beliefs and Brains), for the  *)
(* barriers, scents, cues and positions above; honest hints on boards on   *)
(* which the code is right about them, which those of size eight and ten   *)
(* are not; the Thief keeps off up to depth two of its search              *)
(* (graph.py:9-172, service.py:47-116, hints.py:53-133, scripted.py:16-46, *)
(* police_features.py:128-142, thief_features.py:25-93).                   *)
(***************************************************************************)
BoardAnswers ==
  \A p \in Cells, start \in (1 .. 2) \X (1 .. 2) : RoutesMatch(start, {p, <<0, 1>>})

BeliefAnswers ==
  \A barriers \in BarrierSets, field \in Trails, covered \in Hints,
     there \in {<<0, 0>>, <<1, 2>>}, grid \in {Single(<<2, 1>>), UniformFrom(<<3, 3>>)} :
    UpdateIsSound(grid, field, barriers, covered, there)

HintAnswers ==
  \A size \in {3, 5, 6, 7, 9} :
    \A p \in CellsOf(size), area \in HintAreas, variant \in {0, 1} :
      HonestHintCovers(p, size, area, variant)

BrainAnswers ==
  \A barriers \in BarrierSets : \A p \in Cells, there \in Quarries \ barriers :
    LET chase == Facing("police", p, barriers, there)
        flee == Facing("thief", p, barriers, there)
    IN  /\ p \notin barriers => ScriptsAreSound(chase)
        /\ p \in {<<0, 0>>, <<1, 2>>} =>
             \A ahead \in 1 .. 3 : ProvenCaptureIsTaken(chase, ahead, {there})
        /\ p \in {<<0, 2>>, <<2, 1>>} \ (barriers \cup {there}) =>
             \A ahead \in 1 .. 2 : ThiefKeepsOff(flee, ahead, there)

AnswersAreSound ==
  part = "questions" => BoardAnswers /\ BeliefAnswers /\ HintAnswers /\ BrainAnswers

=============================================================================
