---------------------------- MODULE ScentHistory ----------------------------
(***************************************************************************)
(* OwnScentEngine with its SecretScentStore (services/belief/), as the     *)
(* composition root uses it: after each own action it asks for the frame   *)
(* to show, after each turn it completes the turn, and what raised or was  *)
(* lost in a crash it asks for again.  The engine keeps one game in memory *)
(* and saves it after every change.                                        *)
(***************************************************************************)
EXTENDS GameDomain, Sequences

CONSTANTS
  Walks,       \* bound: the own actions of a game, as cells; a barrier is Placed
  Placed,
  MaxRestarts  \* bound: crashes of the process

ASSUME HistoryAssumption ==
  /\ Walks \subseteq Seq([cell : Cells, kind : {"MOVE", Placed}])
  /\ MaxRestarts \in Nat

VARIABLES
  walk,      \* the own actions this game will have
  acted,     \* how many were made
  frames,    \* the fields the caller got back to show
  turns,     \* full turns the caller saw completed
  memory,    \* field, history, last step and last turn of the engine, or Absent
  stored,    \* what the store has of them, or Absent
  restarts

historyVars == <<walk, acted, frames, turns, memory, stored, restarts>>

Absent == [history |-> <<>>, field |-> NoScent, step |-> 0, turn |-> 0, present |-> FALSE]

HistoryInit ==
  /\ walk \in Walks
  /\ acted = 0 /\ frames = <<>> /\ turns = 0
  /\ memory = Absent /\ stored = Absent
  /\ restarts = 0

\* The caller makes its next action when the last turn is over.
Act ==
  /\ acted < Len(walk)
  /\ Len(frames) = acted /\ turns = acted
  /\ acted' = acted + 1
  /\ UNCHANGED <<walk, frames, turns, memory, stored, restarts>>

\* _restore: what is stored replaces also a turn counted without it.
Restored == IF memory.present \/ ~stored.present THEN memory ELSE stored

(***************************************************************************)
(* _persist: the save is made and the call returns; it raises and memory   *)
(* is ahead of the store; or the process dies after it, before the caller  *)
(* has the result.                                                         *)
(***************************************************************************)
Persisted(next, result) ==
  \/ memory' = next /\ stored' = next /\ result /\ UNCHANGED restarts
  \/ memory' = next /\ UNCHANGED <<stored, restarts, frames, turns>>
  \/ /\ restarts < MaxRestarts
     /\ restarts' = restarts + 1
     /\ memory' = Absent /\ stored' = next /\ UNCHANGED <<frames, turns>>

\* The field after an own action: a barrier leaves no scent.
Scented(own, field) == IF own.kind = Placed THEN field ELSE Emit(field, own.cell)

\* Mutant: a step is taken whatever the last one was.
EmitAgain ==
  /\ Len(frames) < acted
  /\ LET own == walk[acted]
         field == Scented(own, Restored.field)
         next == [history |-> Append(Restored.history, own.cell), field |-> field,
                  step |-> acted, turn |-> Restored.turn, present |-> TRUE]
     IN  Persisted(next, frames' = Append(frames, field) /\ UNCHANGED turns)
  /\ UNCHANGED <<walk, acted>>

\* emit_after_action, for a step that follows the last one it knows.
EmitAfterAction ==
  /\ Len(frames) < acted
  /\ Restored.step + 1 = acted
  /\ LET own == walk[acted]
         field == Scented(own, Restored.field)
         next == [history |-> Append(Restored.history, own.cell), field |-> field,
                  step |-> acted, turn |-> Restored.turn, present |-> TRUE]
     IN  Persisted(next, frames' = Append(frames, field) /\ UNCHANGED turns)
  /\ UNCHANGED <<walk, acted>>

\* Mutant: a turn completed again decays again.
CompleteAgain ==
  /\ Len(frames) = acted /\ turns < acted
  /\ IF memory.present
       THEN LET next == [memory EXCEPT !.field = Decay(@), !.turn = turns + 1]
            IN  Persisted(next, turns' = turns + 1 /\ UNCHANGED frames)
       ELSE /\ turns' = turns + 1
            /\ memory' = [memory EXCEPT !.turn = turns + 1]
            /\ UNCHANGED <<stored, frames, restarts>>
  /\ UNCHANGED <<walk, acted>>

(***************************************************************************)
(* complete_turn restores nothing: in a process that has emitted nothing   *)
(* yet the first turn counts as completed with no field to decay, and any  *)
(* later one is out of order.                                              *)
(***************************************************************************)
CompleteTurn ==
  /\ Len(frames) = acted /\ turns < acted
  /\ memory.turn + 1 = turns + 1
  /\ IF memory.present
       THEN LET next == [memory EXCEPT !.field = Decay(@), !.turn = turns + 1]
            IN  Persisted(next, turns' = turns + 1 /\ UNCHANGED frames)
       ELSE /\ turns' = turns + 1
            /\ memory' = [memory EXCEPT !.turn = turns + 1]
            /\ UNCHANGED <<stored, frames, restarts>>
  /\ UNCHANGED <<walk, acted>>

Restart ==
  /\ restarts < MaxRestarts
  /\ memory # Absent
  /\ memory' = Absent
  /\ restarts' = restarts + 1
  /\ UNCHANGED <<walk, acted, frames, turns, stored>>

HistoryNext == Act \/ EmitAfterAction \/ CompleteTurn \/ Restart

HistorySpec == HistoryInit /\ [][HistoryNext]_historyVars

----------------------------------------------------------------------------
(* Properties *)

\* The field after the first steps of a walk, with a decay after each of the first turns.
Trail(kinds, steps, decays) ==
  LET trail[n \in 0 .. steps] ==
        IF n = 0 THEN NoScent
        ELSE LET after == Scented(kinds[n], trail[n - 1])
             IN  IF n <= decays THEN Decay(after) ELSE after
  IN  trail[steps]

(***************************************************************************)
(* What is stored explains itself: its path is the path that was walked,   *)
(* and its field is that path's scent with one decay for every turn it has *)
(* counted, whatever raised, was repeated or was lost in between           *)
(* (scent_engine.py:56-90, 112-122).                                       *)
(***************************************************************************)
RecordIsItsPath ==
  stored.present =>
    /\ stored.step = Len(stored.history)
    /\ stored.step <= acted /\ stored.turn <= stored.step
    /\ \A i \in DOMAIN stored.history : stored.history[i] = walk[i].cell
    /\ stored.field = Trail(walk, stored.step, stored.turn)

(***************************************************************************)
(* What an opponent was shown is what the audit recomputes from the path,  *)
(* unless a barrier was placed, whose step the engine does not emit and    *)
(* the recomputation does, or a restart between the first frame and the    *)
(* end of the first turn lost that turn's decay (scent_engine.py:79-90,    *)
(* 125-137).                                                               *)
(***************************************************************************)
RecomputedFrame(step) ==
  LET AllMoves == [i \in DOMAIN walk |-> [cell |-> walk[i].cell, kind |-> "MOVE"]]
  IN  Trail(AllMoves, step, step - 1)

LostFirstDecay == stored.present /\ stored.turn = 0 /\ turns > 0

FramesAreRecomputed ==
  ~LostFirstDecay => \A s \in DOMAIN frames :
    (\A i \in 1 .. s : walk[i].kind # Placed) => frames[s] = RecomputedFrame(s)

(***************************************************************************)
(* The scent history answers for itself, to its owner and to the audit     *)
(* (the two parts above).                                                  *)
(***************************************************************************)
HistoryIsTrue == RecordIsItsPath /\ FramesAreRecomputed

============================================================================
