----------------------------- MODULE PlayProofs -----------------------------
(***************************************************************************)
(* What holds while a game is played, one part after the other.            *)
(*                                                                         *)
(* PairedGame, for every board, all starting cells, every length of game   *)
(* and number of barriers: the referee misses no outcome, the store of     *)
(* sealed steps keeps its secrets and its promises, and the audit of the   *)
(* honest evidence gives the referee's verdict.                            *)
(*                                                                         *)
(* DecisionSearch, for all candidates, scores, caches, depths and          *)
(* deadlines: what is decided is the best the time allowed.                *)
(*                                                                         *)
(* ScentHistory, for every walk and number of crashes: what is stored and  *)
(* what was shown is the scent of the path that was walked.                *)
(***************************************************************************)
EXTENDS PairedGame, DecisionSearch, ScentHistory, SequenceTheorems, FiniteSetTheorems,
        WellFoundedInduction, TLAPS

-----------------------------------------------------------------------------
(* Sealed steps: the invariant. *)

\* A sealed step has the fields of one, and is revealed only when acknowledged.
StepsInv ==
  /\ steps = [id \in DOMAIN steps |-> steps[id]]
  /\ \A id \in DOMAIN steps :
       /\ id[1] = Game
       /\ steps[id] = [body |-> steps[id].body, nonce |-> steps[id].nonce,
                       acknowledged |-> steps[id].acknowledged,
                       revealed |-> steps[id].revealed]
       /\ steps[id].acknowledged \in BOOLEAN /\ steps[id].revealed \in BOOLEAN
       /\ steps[id].revealed => steps[id].acknowledged

\* Nonces leave after the last action of the game, and then all at once.
DisclosureInv ==
  disclosed # {} =>
    /\ outcome # None
    /\ \A id \in DOMAIN steps : steps[id].acknowledged /\ steps[id].revealed

SealsInv == StepsInv /\ DisclosureInv /\ Store!NoncesMatchSteps

LEMMA SealsStart == Init => SealsInv
  BY DEF Init, Store!StoreInit, SealsInv, StepsInv, DisclosureInv, Store!NoncesMatchSteps,
         Store!Sealed

-----------------------------------------------------------------------------
(* Sealed steps: the operations of the store, while nothing is disclosed. *)

LEMMA Sealing ==
  ASSUME SealsInv, NEW id, id[1] = Game, NEW body, NEW nonce, Store!Seal(id, body, nonce)
  PROVE  StepsInv' /\ Store!NoncesMatchSteps' /\ Store!LockedStaysLocked
<1>1. /\ id \notin DOMAIN steps /\ nonce \notin nonces
      /\ steps' = [i \in DOMAIN steps \cup {id} |->
                     IF i = id THEN [body |-> body, nonce |-> nonce,
                                     acknowledged |-> FALSE, revealed |-> FALSE]
                     ELSE steps[i]]
      /\ nonces' = nonces \cup {nonce}
  BY DEF Store!Seal, Store!With, Store!NewStep, Store!Sealed
<1>2. /\ DOMAIN steps' = DOMAIN steps \cup {id}
      /\ steps'[id] = [body |-> body, nonce |-> nonce, acknowledged |-> FALSE, revealed |-> FALSE]
      /\ \A i \in DOMAIN steps : steps'[i] = steps[i]
  BY <1>1
<1>3. StepsInv'
  BY <1>1, <1>2 DEF SealsInv, StepsInv
<1>4. Store!NoncesMatchSteps'
  <2>1. nonces' = {steps'[i].nonce : i \in DOMAIN steps'}
    BY <1>1, <1>2 DEF SealsInv, Store!NoncesMatchSteps, Store!Sealed
  <2>2. \A i \in DOMAIN steps : steps[i].nonce \in nonces /\ steps[i].nonce # nonce
    BY <1>1 DEF SealsInv, Store!NoncesMatchSteps, Store!Sealed
  <2>3. \A i, j \in DOMAIN steps' : steps'[i].nonce = steps'[j].nonce => i = j
    BY <1>2, <2>2 DEF SealsInv, Store!NoncesMatchSteps, Store!Sealed
  <2>4. QED
    BY <2>1, <2>3 DEF Store!NoncesMatchSteps, Store!Sealed
<1>5. Store!LockedStaysLocked
  BY <1>1, <1>2 DEF Store!LockedStaysLocked, Store!Sealed
<1>6. QED
  BY <1>3, <1>4, <1>5

\* The fingerprint of the old step is free again, and with it the step itself
\* if the new nonce is refused.
LEMMA Replacing ==
  ASSUME SealsInv, NEW id, NEW body, NEW nonce, Store!ReplaceBeforeAck(id, body, nonce)
  PROVE  StepsInv' /\ Store!NoncesMatchSteps' /\ Store!LockedStaysLocked
<1> DEFINE kept == nonces \ {steps[id].nonce}
           new == [body |-> body, nonce |-> nonce, acknowledged |-> FALSE, revealed |-> FALSE]
<1>1. id \in DOMAIN steps /\ ~steps[id].acknowledged
  BY DEF Store!ReplaceBeforeAck, Store!Sealed
<1>2. kept = {steps[i].nonce : i \in DOMAIN steps \ {id}}
  BY <1>1 DEF SealsInv, Store!NoncesMatchSteps, Store!Sealed
<1>3. CASE nonce \in kept
  <2>1. steps' = [i \in DOMAIN steps \ {id} |-> steps[i]] /\ nonces' = kept
    BY <1>3 DEF Store!ReplaceBeforeAck, Store!Without
  <2>2. DOMAIN steps' = DOMAIN steps \ {id}
        /\ \A i \in DOMAIN steps \ {id} : steps'[i] = steps[i]
    BY <2>1
  <2>3. StepsInv'
    BY <2>1, <2>2 DEF SealsInv, StepsInv
  <2>4. Store!NoncesMatchSteps'
    BY <1>2, <2>1, <2>2 DEF SealsInv, Store!NoncesMatchSteps, Store!Sealed
  <2>5. Store!LockedStaysLocked
    BY <1>1, <2>2 DEF Store!LockedStaysLocked, Store!Sealed
  <2>6. QED
    BY <2>3, <2>4, <2>5
<1>4. CASE nonce \notin kept
  <2>1. /\ steps' = [i \in DOMAIN steps \cup {id} |-> IF i = id THEN new ELSE steps[i]]
        /\ nonces' = kept \cup {nonce}
    BY <1>4 DEF Store!ReplaceBeforeAck, Store!With, Store!NewStep
  <2>2. /\ DOMAIN steps' = DOMAIN steps /\ steps'[id] = new
        /\ \A i \in DOMAIN steps \ {id} : steps'[i] = steps[i]
    BY <1>1, <2>1
  <2>3. StepsInv'
    BY <1>1, <2>1, <2>2 DEF SealsInv, StepsInv
  <2>4. Store!NoncesMatchSteps'
    <3>1. nonces' = {steps'[i].nonce : i \in DOMAIN steps'}
      BY <1>1, <1>2, <2>1, <2>2
    <3>2. \A i, j \in DOMAIN steps' : steps'[i].nonce = steps'[j].nonce => i = j
      BY <1>1, <1>2, <1>4, <2>2 DEF SealsInv, Store!NoncesMatchSteps, Store!Sealed
    <3>3. QED
      BY <3>1, <3>2 DEF Store!NoncesMatchSteps, Store!Sealed
  <2>5. Store!LockedStaysLocked
    BY <1>1, <2>2 DEF Store!LockedStaysLocked, Store!Sealed
  <2>6. QED
    BY <2>3, <2>4, <2>5
<1>5. QED
  BY <1>3, <1>4

\* Acknowledging and revealing set one mark of one step.
LEMMA Marking ==
  ASSUME SealsInv, NEW id \in DOMAIN steps, UNCHANGED nonces,
         \/ steps' = [steps EXCEPT ![id].acknowledged = TRUE]
         \/ steps[id].acknowledged /\ steps' = [steps EXCEPT ![id].revealed = TRUE]
  PROVE  StepsInv' /\ Store!NoncesMatchSteps' /\ Store!LockedStaysLocked
<1>1. /\ DOMAIN steps' = DOMAIN steps
      /\ \A i \in DOMAIN steps \ {id} : steps'[i] = steps[i]
      /\ steps' = [i \in DOMAIN steps' |-> steps'[i]]
  BY DEF SealsInv, StepsInv
<1>2. /\ steps'[id].body = steps[id].body /\ steps'[id].nonce = steps[id].nonce
      /\ steps'[id] = [body |-> steps'[id].body, nonce |-> steps'[id].nonce,
                       acknowledged |-> steps'[id].acknowledged,
                       revealed |-> steps'[id].revealed]
      /\ steps'[id].acknowledged \in BOOLEAN /\ steps'[id].revealed \in BOOLEAN
      /\ steps[id].acknowledged => steps'[id].acknowledged
      /\ steps[id].revealed => steps'[id].revealed
      /\ steps'[id].revealed => steps'[id].acknowledged
  <2>1. /\ steps[id] = [body |-> steps[id].body, nonce |-> steps[id].nonce,
                        acknowledged |-> steps[id].acknowledged,
                        revealed |-> steps[id].revealed]
        /\ steps[id].acknowledged \in BOOLEAN /\ steps[id].revealed \in BOOLEAN
        /\ steps[id].revealed => steps[id].acknowledged
    BY DEF SealsInv, StepsInv
  <2>2. CASE steps' = [steps EXCEPT ![id].acknowledged = TRUE]
    <3>1. steps'[id] = [body |-> steps[id].body, nonce |-> steps[id].nonce,
                        acknowledged |-> TRUE, revealed |-> steps[id].revealed]
      BY <2>1, <2>2
    <3>2. QED
      BY <2>1, <3>1
  <2>3. CASE steps[id].acknowledged /\ steps' = [steps EXCEPT ![id].revealed = TRUE]
    <3>1. steps'[id] = [body |-> steps[id].body, nonce |-> steps[id].nonce,
                        acknowledged |-> steps[id].acknowledged, revealed |-> TRUE]
      BY <2>1, <2>3
    <3>2. QED
      BY <2>1, <2>3, <3>1
  <2>4. QED
    BY <2>2, <2>3
<1>3. StepsInv'
  BY <1>1, <1>2 DEF SealsInv, StepsInv
<1>4. \A i \in DOMAIN steps : steps'[i].nonce = steps[i].nonce
  BY <1>1, <1>2
<1>5. Store!NoncesMatchSteps'
  BY <1>1, <1>4 DEF SealsInv, Store!NoncesMatchSteps, Store!Sealed
<1>6. Store!LockedStaysLocked
  BY <1>1, <1>2 DEF Store!LockedStaysLocked, Store!Sealed
<1>7. QED
  BY <1>3, <1>5, <1>6

LEMMA SealsGoOn ==
  ASSUME SealsInv, [Next]_vars
  PROVE  SealsInv' /\ Store!LockedStaysLocked
<1>1. outcome = None => disclosed = {}
  BY DEF SealsInv, DisclosureInv
<1>2. CASE SealDecision
  <2>1. PICK action \in Decisions(local[mover]) :
          Store!Seal(Identity(mover), Planned(action), Fresh)
    BY <1>2 DEF SealDecision
  <2>2. disclosed' = {}
    BY <1>1, <1>2, <2>1 DEF SealDecision, Store!Seal
  <2>3. Identity(mover)[1] = Game
    BY DEF Identity
  <2>4. QED
    BY <2>1, <2>2, <2>3, Sealing DEF SealsInv, DisclosureInv
<1>3. CASE ReplaceDecision
  <2>1. PICK action \in Decisions(local[mover]), nonce \in nonces :
          Store!ReplaceBeforeAck(Identity(mover), Planned(action), nonce)
    BY <1>3 DEF ReplaceDecision
  <2>2. disclosed' = {}
    BY <1>1, <1>3, <2>1 DEF ReplaceDecision, Store!ReplaceBeforeAck
  <2>3. QED
    BY <2>1, <2>2, Replacing DEF SealsInv, DisclosureInv
<1>4. CASE AcknowledgeStep
  <2>1. PICK id \in DOMAIN steps : Store!Acknowledge(id, steps[id].body, steps[id].nonce)
    BY <1>4 DEF AcknowledgeStep, Store!Sealed
  <2>2. disclosed' = {}
    BY <1>1, <1>4, <2>1 DEF AcknowledgeStep, Store!Acknowledge
  <2>3. UNCHANGED nonces /\ steps' = [steps EXCEPT ![id].acknowledged = TRUE]
    BY <2>1 DEF Store!Acknowledge
  <2>4. QED
    BY <2>2, <2>3, Marking DEF SealsInv, DisclosureInv
<1>5. CASE RevealStep
  <2> DEFINE id == Identity(mover)
  <2>1. outcome = None /\ Store!Reveal(id)
    BY <1>5 DEF RevealStep
  <2>2. /\ disclosed' = {} /\ id \in DOMAIN steps /\ steps[id].acknowledged
        /\ UNCHANGED nonces /\ steps' = [steps EXCEPT ![id].revealed = TRUE]
    BY <1>1, <2>1 DEF Store!Reveal, Store!Sealed
  <2> HIDE DEF id
  <2>3. QED
    BY <2>2, Marking DEF SealsInv, DisclosureInv
<1>6. CASE DiscloseNonces
  <2>1. outcome # None /\ UNCHANGED <<outcome, steps, nonces>>
    BY <1>6 DEF DiscloseNonces, Store!FinalManifest, arenaVars
  <2>2. \A id \in DOMAIN steps : steps[id].revealed
    BY <1>6 DEF DiscloseNonces, Store!FinalManifest, Store!Selected, Store!Sealed, SealsInv,
                StepsInv
  <2>3. \A id \in DOMAIN steps : steps[id].acknowledged /\ steps[id].revealed
    BY <2>2 DEF SealsInv, StepsInv
  <2>4. QED
    BY <2>1, <2>3 DEF SealsInv, StepsInv, DisclosureInv, Store!NoncesMatchSteps, Store!Sealed,
                      Store!LockedStaysLocked
<1>7. CASE UNCHANGED vars
  BY <1>7 DEF vars, arenaVars, storeVars, SealsInv, StepsInv, DisclosureInv,
              Store!NoncesMatchSteps, Store!Sealed, Store!LockedStaysLocked
<1>8. QED
  BY <1>2, <1>3, <1>4, <1>5, <1>6, <1>7 DEF Next

(***************************************************************************)
(* Whatever decisions are replaced and however operations interleave, each *)
(* sealed step has a nonce of its own, none leaves before all steps of the *)
(* game were acknowledged and revealed, and what was acknowledged is what  *)
(* is revealed (store.py:33-121).                                          *)
(***************************************************************************)
THEOREM SealsHold == Spec => SealsAreKept
<1>1. SealsInv => Store!NoncesMatchSteps /\ Store!NoncesStaySecret
  BY DEF SealsInv, DisclosureInv, Store!NoncesStaySecret, Store!Sealed
<1>2. SealsInv /\ [Next]_vars => SealsInv' /\ [Store!LockedStaysLocked]_vars
  BY SealsGoOn
<1>3. QED
  BY <1>1, <1>2, SealsStart, PTL DEF Spec, SealsAreKept

-----------------------------------------------------------------------------
(* The referee: the invariant. *)

\* The turn that is being played is one of the game's, and its actor has to move.
TurnInv ==
  /\ mover \in Roles
  /\ outcome = None => turn \in 1..MaxSteps /\ turn - 1 < SurvivalThreshold

\* What a side holds is a state of its role, with the barriers it may have placed.
StatesInv ==
  /\ local \in [Roles -> LocalStates]
  /\ LocalStatesValid
  /\ \A r \in Roles : local[r].role = r
  /\ outcome = None => local["thief"].position \notin local["police"].barriers

RefereeInv == TurnInv /\ StatesInv /\ SidesInStep /\ NoMissedOutcome

LEMMA Sides ==
  /\ Roles = {"police", "thief"} /\ "police" # "thief"
  /\ Opponent("police") = "thief" /\ Opponent("thief") = "police"
  BY DEF Roles, Opponent

LEMMA CellsAreFinite == IsFiniteSet(Cells)
<1>1. Size - 1 \in Int
  BY RulesAssumption
<1>2. IsFiniteSet(0 .. Size - 1)
  BY <1>1, FS_Interval
<1>3. QED
  BY <1>2, FS_Product DEF Cells

LEMMA NoneIsNoReason == None \notin TerminalReasons
  BY DEF None, TerminalReasons

LEMMA StepTerminalType == \A n : StepTerminal(n) \in TerminalReasons \cup {None}
  BY DEF StepTerminal, TerminalReasons

LEMMA TargetType ==
  ASSUME NEW p \in Cells, NEW b, NEW d \in Directions, Target(p, d) \in Neighbors(p, b)
  PROVE  Target(p, d) \in Cells /\ Target(p, d) \notin b
  BY DEF Neighbors

\* A step and the step back.
LEMMA Back ==
  ASSUME NEW p \in Cells, NEW d \in Directions
  PROVE  p \in {Target(Target(p, d), e) : e \in Directions}
<1>1. p = <<p[1], p[2]>> /\ p[1] \in Int /\ p[2] \in Int
  BY DEF Cells
<1>2. d \in {"N", "S", "E", "W"}
  BY DEF Directions
<1>3. CASE d = "N"
  <2>1. Target(Target(p, d), "S") = p
    BY <1>1, <1>3 DEF Target
  <2>2. QED
    BY <2>1 DEF Directions
<1>4. CASE d = "S"
  <2>1. Target(Target(p, d), "N") = p
    BY <1>1, <1>4 DEF Target
  <2>2. QED
    BY <2>1 DEF Directions
<1>5. CASE d = "E"
  <2>1. Target(Target(p, d), "W") = p
    BY <1>1, <1>5 DEF Target
  <2>2. QED
    BY <2>1 DEF Directions
<1>6. CASE d = "W"
  <2>1. Target(Target(p, d), "E") = p
    BY <1>1, <1>6 DEF Target
  <2>2. QED
    BY <2>1 DEF Directions
<1>7. QED
  BY <1>2, <1>3, <1>4, <1>5, <1>6

\* On a board with two cells every cell has a neighbour.
LEMMA SomeNeighbor ==
  ASSUME NEW p \in Cells, NEW q \in Cells, p # q
  PROVE  Neighbors(p, {}) # {}
<1>1. /\ p = <<p[1], p[2]>> /\ p[1] \in 0..Size - 1 /\ p[2] \in 0..Size - 1
      /\ q = <<q[1], q[2]>> /\ q[1] \in 0..Size - 1 /\ q[2] \in 0..Size - 1 /\ Size \in Nat
  BY RulesAssumption DEF Cells
<1>2. Size >= 2
  BY <1>1
<1>3. CASE p[1] > 0
  <2>1. Target(p, "N") = <<p[1] - 1, p[2]>>
    BY <1>1 DEF Target
  <2>2. Target(p, "N") \in Cells
    BY <1>1, <1>3, <2>1 DEF Cells
  <2>3. QED
    BY <2>2 DEF Neighbors, Directions
<1>4. CASE p[1] = 0
  <2>1. Target(p, "S") = <<p[1] + 1, p[2]>>
    BY <1>1 DEF Target
  <2>2. Target(p, "S") \in Cells
    BY <1>1, <1>2, <1>4, <2>1 DEF Cells
  <2>3. QED
    BY <2>2 DEF Neighbors, Directions
<1>5. QED
  BY <1>1, <1>3, <1>4

-----------------------------------------------------------------------------
(* The referee: one action. *)

LEMMA LegalKinds ==
  ASSUME NEW s, NEW action \in LegalActions(s)
  PROVE  \/ action = Stay
         \/ \E d \in Directions : action = Move(d) /\ Target(s.position, d) \in Neighbors(s.position, s.barriers)
         \/ /\ s.role # "thief" /\ ~(s.placed >= MaxBarriers)
            /\ \E c \in BarrierCandidates(s.position, s.barriers) : action = Barrier(c)
<1>1. CASE action \in LegalMovements(s.position, s.barriers)
  BY <1>1 DEF LegalMovements
<1>2. CASE action \notin LegalMovements(s.position, s.barriers)
  BY <1>2 DEF LegalActions
<1>3. QED
  BY <1>1, <1>2

LEMMA ActionKinds ==
  /\ Stay.type = "STAY"
  /\ \A d : Move(d).type = "MOVE" /\ Move(d).direction = d
  /\ \A c : Barrier(c).type = "BARRIER" /\ Barrier(c).target = c
  BY DEF Stay, Move, Barrier

\* The state after a legal action of a valid state: a Police that has to count
\* its barriers, a Thief that has none.
LEMMA Moving ==
  ASSUME NEW s \in LocalStates, ValidState(s), NEW action \in LegalActions(s),
         s.role = "police" => s.placed = Cardinality(s.barriers),
         s.role = "thief" => s.placed = 0
  PROVE  LET t == Transition(s, action)
         IN  /\ t \in LocalStates /\ ValidState(t) /\ t.role = s.role /\ t.step = s.step + 1
             /\ t.barriers = s.barriers \cup PublicEvents(action)
             /\ t.role = "police" => t.placed = Cardinality(t.barriers)
             /\ t.role = "thief" => t.placed = 0 /\ t.barriers = s.barriers
             /\ t.role = "police" => \A c \in PublicEvents(action) : c \notin s.barriers
             /\ \/ t.position = s.position
                \/ \E d \in Directions : t.position = Target(s.position, d)
             /\ t.position \in s.barriers => t.position = s.position
<1> DEFINE t == Transition(s, action)
           moved == IF action.type = "MOVE" THEN Target(s.position, action.direction)
                    ELSE s.position
           more == PublicEvents(action)
<1>1. t = [s EXCEPT !.position = moved, !.barriers = @ \cup more,
                    !.placed = IF action.type = "BARRIER" THEN @ + 1 ELSE @,
                    !.step = @ + 1, !.visited = @ \cup {moved},
                    !.terminal = StepTerminal(s.step + 1)]
  BY DEF Transition
<1>2. /\ s.role \in Roles /\ s.position \in Cells /\ s.barriers \in SUBSET Cells
      /\ s.placed \in Nat /\ s.step \in Nat /\ s.visited \in SUBSET Cells
      /\ DOMAIN s = {"role", "position", "barriers", "placed", "step", "visited", "terminal"}
  BY DEF LocalStates
<1>3. /\ moved \in Cells /\ (moved \in s.barriers => moved = s.position)
      /\ moved = s.position \/ \E d \in Directions : moved = Target(s.position, d)
  <2>1. CASE action.type = "MOVE"
    <3>1. PICK d \in Directions : action = Move(d)
                 /\ Target(s.position, d) \in Neighbors(s.position, s.barriers)
      BY <2>1, LegalKinds, ActionKinds
    <3>2. moved = Target(s.position, d)
      BY <2>1, <3>1, ActionKinds
    <3>3. QED
      BY <1>2, <3>1, <3>2, TargetType
  <2>2. CASE action.type # "MOVE"
    BY <1>2, <2>2
  <2>3. QED
    BY <2>1, <2>2
<1>4. CASE action.type = "BARRIER"
  <2>1. PICK c \in BarrierCandidates(s.position, s.barriers) : action = Barrier(c)
    BY <1>4, LegalKinds, ActionKinds
  <2>2. s.role # "thief" /\ ~(s.placed >= MaxBarriers)
    BY <1>4, LegalKinds, ActionKinds
  <2>3. more = {c} /\ c \in Cells /\ c \notin s.barriers
    <3>1. more = {c}
      BY <2>1, ActionKinds DEF PublicEvents
    <3>2. QED
      BY <1>2, <2>1, <3>1 DEF BarrierCandidates, Neighbors
  <2>4. s.role = "police" /\ MaxBarriers \in Nat
    BY <1>2, <2>2, Sides, RulesAssumption
  <2>5. IsFiniteSet(s.barriers)
    BY <1>2, CellsAreFinite, FS_Subset
  <2>6. Cardinality(s.barriers \cup {c}) = Cardinality(s.barriers) + 1
    BY <2>3, <2>5, FS_AddElement
  <2>7. /\ t.role = s.role /\ t.position = moved /\ t.barriers = s.barriers \cup {c}
        /\ t.placed = s.placed + 1 /\ t.step = s.step + 1 /\ t.visited = s.visited \cup {moved}
        /\ t.terminal = StepTerminal(s.step + 1)
        /\ t = [role |-> t.role, position |-> t.position, barriers |-> t.barriers,
                placed |-> t.placed, step |-> t.step, visited |-> t.visited,
                terminal |-> t.terminal]
    BY <1>1, <1>2, <1>4, <2>3 DEF LocalStates
  <2> HIDE DEF t, moved, more
  <2>8. t \in LocalStates
    BY <1>2, <1>3, <2>3, <2>7, StepTerminalType DEF LocalStates
  <2>9. ValidState(t)
    BY <1>2, <1>3, <2>2, <2>3, <2>4, <2>7 DEF ValidState
  <2>10. QED
    BY <1>3, <2>3, <2>4, <2>6, <2>7, <2>8, <2>9, Sides DEF t, more
<1>5. CASE action.type # "BARRIER"
  <2>1. more = {}
    BY <1>5 DEF PublicEvents
  <2>2. /\ t.role = s.role /\ t.position = moved /\ t.barriers = s.barriers
        /\ t.placed = s.placed /\ t.step = s.step + 1 /\ t.visited = s.visited \cup {moved}
        /\ t.terminal = StepTerminal(s.step + 1)
        /\ t = [role |-> t.role, position |-> t.position, barriers |-> t.barriers,
                placed |-> t.placed, step |-> t.step, visited |-> t.visited,
                terminal |-> t.terminal]
    <3>1. s.barriers \cup more = s.barriers
      BY <2>1
    <3>2. t = [s EXCEPT !.position = moved, !.barriers = @,
                        !.placed = @, !.step = @ + 1, !.visited = @ \cup {moved},
                        !.terminal = StepTerminal(s.step + 1)]
      BY <1>1, <1>2, <1>5, <3>1
    <3> HIDE DEF t, moved
    <3>3. QED
      BY <1>2, <3>2 DEF LocalStates
  <2> HIDE DEF t, moved, more
  <2>3. t \in LocalStates
    BY <1>2, <1>3, <2>2, StepTerminalType DEF LocalStates
  <2>4. ValidState(t)
    BY <1>2, <1>3, <2>2 DEF ValidState
  <2>5. QED
    BY <1>3, <2>1, <2>2, <2>3, <2>4, Sides DEF t, more
<1>6. QED
  BY <1>4, <1>5

LEMMA NothingResolved ==
  ASSUME NEW police, NEW thief, NEW barriers, NEW completed, NEW placed,
         ResolveTerminal(police, thief, barriers, completed, placed, {}) = None
  PROVE  /\ thief \notin placed /\ police # thief /\ ~EnclosureCapture(thief, barriers)
         /\ ~(completed >= SurvivalThreshold) /\ ~(completed >= MaxSteps)
  BY DEF ResolveTerminal, None

LEMMA ResolvedType ==
  ASSUME NEW police, NEW thief, NEW barriers, NEW completed, NEW placed
  PROVE  ResolveTerminal(police, thief, barriers, completed, placed, {})
           \in {None, "barrier_capture", "capture", "enclosure", "survival", "step_ceiling"}
  BY DEF ResolveTerminal

\* What an action of the side to move comes to.
LEMMA Applied ==
  ASSUME RefereeInv, NEW action, Apply(mover, action)
  PROVE  LET moved == Transition(local[mover], action)
             next == [local EXCEPT ![mover] = moved]
         IN  /\ outcome = None /\ action \in LegalActions(local[mover])
             /\ moved \in LocalStates /\ ValidState(moved) /\ moved.role = mover
             /\ moved.step = local[mover].step + 1
             /\ moved.barriers = local[mover].barriers \cup PublicEvents(action)
             /\ mover = "police" => moved.placed = Cardinality(moved.barriers)
             /\ mover = "thief" => moved.placed = 0 /\ moved.barriers = local[mover].barriers
             /\ next \in [Roles -> LocalStates] /\ next[mover] = moved
             /\ next[Opponent(mover)] = local[Opponent(mover)]
             /\ IF Referee(next, mover, action) # None
                  THEN /\ outcome' = Referee(next, mover, action) /\ local' = next
                       /\ UNCHANGED <<turn, mover>>
                  ELSE /\ local' = [next EXCEPT ![Opponent(mover)].barriers = moved.barriers]
                       /\ mover' = Opponent(mover)
                       /\ IF mover = "police" THEN UNCHANGED <<turn, outcome>>
                          ELSE /\ turn' = turn + 1
                               /\ outcome' = IF turn = MaxSteps THEN "survival" ELSE None
<1> DEFINE s == local[mover]
           moved == Transition(s, action)
           next == [local EXCEPT ![mover] = moved]
<1>1. outcome = None /\ action \in LegalActions(s)
  BY DEF Apply
<1>2. mover \in Roles /\ Opponent(mover) \in Roles /\ Opponent(mover) # mover
  BY Sides DEF RefereeInv, TurnInv
<1>3. s \in LocalStates /\ ValidState(s) /\ s.role = mover
  BY <1>2 DEF RefereeInv, StatesInv, LocalStatesValid
<1>4. /\ s.role = "police" => s.placed = Cardinality(s.barriers)
      /\ s.role = "thief" => s.placed = 0
  BY <1>3 DEF RefereeInv, StatesInv, LocalStatesValid
<1>5. /\ moved \in LocalStates /\ ValidState(moved) /\ moved.role = mover
      /\ moved.step = s.step + 1
      /\ moved.barriers = s.barriers \cup PublicEvents(action)
      /\ mover = "police" => moved.placed = Cardinality(moved.barriers)
      /\ mover = "thief" => moved.placed = 0 /\ moved.barriers = s.barriers
  BY <1>1, <1>3, <1>4, Moving
<1>6. /\ next \in [Roles -> LocalStates] /\ next[mover] = moved
      /\ next[Opponent(mover)] = local[Opponent(mover)]
  <2> HIDE DEF moved
  <2>1. local \in [Roles -> LocalStates]
    BY DEF RefereeInv, StatesInv
  <2>2. QED
    BY <1>2, <1>5, <2>1
<1>7. IF Referee(next, mover, action) # None
        THEN /\ outcome' = Referee(next, mover, action) /\ local' = next
             /\ UNCHANGED <<turn, mover>>
        ELSE /\ local' = [next EXCEPT ![Opponent(mover)].barriers = moved.barriers]
             /\ mover' = Opponent(mover)
             /\ IF mover = "police" THEN UNCHANGED <<turn, outcome>>
                ELSE /\ turn' = turn + 1
                     /\ outcome' = IF turn = MaxSteps THEN "survival" ELSE None
  BY DEF Apply
<1>8. QED
  BY <1>1, <1>5, <1>6, <1>7

LEMMA RefereeGoesOn ==
  ASSUME RefereeInv, NEW action, Apply(mover, action)
  PROVE  RefereeInv'
<1> DEFINE moved == Transition(local[mover], action)
           next == [local EXCEPT ![mover] = moved]
           other == Opponent(mover)
           reason == Referee(next, mover, action)
           shared == [next EXCEPT ![other].barriers = moved.barriers]
<1>1. /\ outcome = None
      /\ moved \in LocalStates /\ ValidState(moved) /\ moved.role = mover
      /\ moved.step = local[mover].step + 1
      /\ moved.barriers = local[mover].barriers \cup PublicEvents(action)
      /\ mover = "police" => moved.placed = Cardinality(moved.barriers)
      /\ mover = "thief" => moved.placed = 0 /\ moved.barriers = local[mover].barriers
      /\ next \in [Roles -> LocalStates] /\ next[mover] = moved /\ next[other] = local[other]
  BY Applied
<1>2. /\ reason # None =>
           outcome' = reason /\ local' = next /\ UNCHANGED <<turn, mover>>
      /\ reason = None =>
           /\ local' = shared /\ mover' = other
           /\ mover = "police" => UNCHANGED <<turn, outcome>>
           /\ mover # "police" => /\ turn' = turn + 1
                                  /\ outcome' = IF turn = MaxSteps THEN "survival" ELSE None
  BY Applied
<1>3. /\ mover \in Roles /\ other \in Roles /\ other # mover /\ Roles = {mover, other}
      /\ mover = "police" <=> other = "thief"
  BY Sides DEF RefereeInv, TurnInv
<1>4. /\ local[other] \in LocalStates /\ ValidState(local[other]) /\ local[other].role = other
      /\ local[other].barriers = local[mover].barriers
      /\ turn \in 1..MaxSteps /\ turn - 1 < SurvivalThreshold /\ turn \in Nat
      /\ local["thief"].step = turn - 1
      /\ local["police"].step = IF mover = "police" THEN turn - 1 ELSE turn
  BY <1>1, <1>3, Sides DEF RefereeInv, StatesInv, TurnInv, SidesInStep, LocalStatesValid
<1>5. CASE reason # None
  <2>1. TurnInv'
    BY <1>1, <1>2, <1>5, <1>3 DEF TurnInv
  <2>2. \A r \in Roles : ValidState(next[r]) /\ next[r].role = r
    BY <1>1, <1>3, <1>4
  <2>3. /\ next["police"].placed = Cardinality(next["police"].barriers)
        /\ next["thief"].placed = 0
    BY <1>1, <1>3, Sides DEF RefereeInv, StatesInv, LocalStatesValid
  <2>4. local' = next /\ outcome' # None
    BY <1>2, <1>5
  <2> HIDE DEF next, reason, moved
  <2>5. LocalStatesValid'
    BY <2>2, <2>3, <2>4 DEF LocalStatesValid
  <2>6. StatesInv'
    BY <1>1, <2>2, <2>4, <2>5 DEF StatesInv
  <2>7. QED
    BY <2>1, <2>4, <2>6 DEF RefereeInv, SidesInStep, NoMissedOutcome
<1>6. CASE reason = None
  <2>1. LET completed == IF mover = "thief" THEN turn ELSE turn - 1
        IN  /\ next["thief"].position \notin PublicEvents(action)
            /\ next["police"].position # next["thief"].position
            /\ ~EnclosureCapture(next["thief"].position, moved.barriers)
            /\ ~(completed >= SurvivalThreshold) /\ ~(completed >= MaxSteps)
    <3> DEFINE completed == IF mover = "thief" THEN turn ELSE turn - 1
               placed == PublicEvents(action)
    <3>1. ResolveTerminal(next["police"].position, next["thief"].position, next[mover].barriers,
                          completed, placed, {}) = None
      BY <1>6 DEF Referee
    <3>2. next[mover].barriers = moved.barriers
      BY <1>1
    <3> HIDE DEF completed, placed, next, moved
    <3>3. /\ next["thief"].position \notin placed
          /\ next["police"].position # next["thief"].position
          /\ ~EnclosureCapture(next["thief"].position, moved.barriers)
          /\ ~(completed >= SurvivalThreshold) /\ ~(completed >= MaxSteps)
      BY <3>1, <3>2, NothingResolved
    <3>4. QED
      BY <3>3 DEF completed, placed
  <2>2. local' = shared /\ mover' = other
    BY <1>2, <1>6
  <2>3. /\ shared[mover] = moved
        /\ shared[other] = [local[other] EXCEPT !.barriers = moved.barriers]
        /\ shared \in [Roles -> LocalStates]
    <3> HIDE DEF moved, next, other
    <3>1. next[other] = local[other] /\ next[mover] = moved /\ next \in [Roles -> LocalStates]
      BY <1>1
    <3>2. moved.barriers \in SUBSET Cells
      BY <1>1 DEF LocalStates
    <3>3. [local[other] EXCEPT !.barriers = moved.barriers] \in LocalStates
      BY <1>4, <3>2 DEF LocalStates
    <3>4. shared = [next EXCEPT ![other] = [local[other] EXCEPT !.barriers = moved.barriers]]
      BY <1>3, <3>1
    <3>5. QED
      BY <1>3, <3>1, <3>3, <3>4
  <2> DEFINE o == [local[other] EXCEPT !.barriers = moved.barriers]
  <2>4. /\ o.role = local[other].role /\ o.position = local[other].position
        /\ o.barriers = moved.barriers /\ o.placed = local[other].placed
        /\ o.step = local[other].step /\ o.visited = local[other].visited
    BY <1>4 DEF LocalStates
  <2>5. \A r \in Roles : shared[r].position = next[r].position
    BY <1>1, <1>3, <2>3, <2>4
  <2>6. shared["thief"].position \notin moved.barriers
    <3>1. ~EnclosureCapture(next["thief"].position, moved.barriers)
      BY <2>1
    <3>2. next["thief"].position \notin moved.barriers
      BY <3>1 DEF EnclosureCapture
    <3>3. QED
      BY <2>5, <3>2, Sides
  <2> HIDE DEF shared, o, next, reason
  <2>7. ValidState(shared[other])
    <3>1. shared[other] = o
      BY <2>3 DEF o
    <3>2. moved.barriers \subseteq Cells
      BY <1>1 DEF ValidState
    <3>3. CASE other = "police"
      BY <1>4, <2>4, <3>1, <3>2, <3>3 DEF ValidState
    <3>4. CASE other = "thief"
      BY <1>4, <2>4, <2>6, <3>1, <3>2, <3>4 DEF ValidState
    <3>5. QED
      BY <1>3, <3>3, <3>4, Sides
  <2>8. \A r \in Roles : ValidState(shared[r]) /\ shared[r].role = r
                         /\ shared[r].barriers = moved.barriers
    BY <1>1, <1>3, <1>4, <2>3, <2>4, <2>7 DEF o
  <2>9. /\ shared["police"].placed = Cardinality(shared["police"].barriers)
        /\ shared["thief"].placed = 0
    <3>1. CASE mover = "police"
      BY <1>1, <1>3, <2>3, <2>4, <3>1 DEF RefereeInv, StatesInv, LocalStatesValid, o
    <3>2. CASE mover = "thief"
      <4>1. moved.barriers = local["police"].barriers
        BY <1>1, <1>3, <1>4, <3>2, Sides
      <4>2. shared["police"].placed = local["police"].placed
        BY <1>3, <2>3, <2>4, <3>2, Sides DEF o
      <4>3. QED
        BY <1>1, <1>3, <2>3, <2>8, <3>2, <4>1, <4>2, Sides DEF RefereeInv, StatesInv, LocalStatesValid
    <3>3. QED
      BY <1>3, <3>1, <3>2, Sides
  <2>10. /\ shared["thief"].step = IF mover = "thief" THEN turn ELSE turn - 1
         /\ shared["police"].step = turn
    <3>1. shared[mover].step = local[mover].step + 1 /\ shared[other].step = local[other].step
      BY <1>1, <2>3, <2>4 DEF o
    <3> HIDE DEF other, moved
    <3>2. CASE mover = "police"
      BY <1>3, <1>4, <3>1, <3>2, Sides
    <3>3. CASE mover = "thief"
      <4>1. other = "police"
        BY <1>3, <3>3, Sides
      <4>2. local["police"].step = turn - 1 + 1
        BY <1>4, <3>3, Sides
      <4>3. QED
        BY <1>4, <3>1, <3>3, <4>1, <4>2, Sides
    <3>4. QED
      BY <1>3, <3>2, <3>3, Sides
  <2>11. /\ shared["thief"].step < SurvivalThreshold /\ shared["thief"].step < MaxSteps
         /\ turn < MaxSteps \/ mover = "police"
    BY <1>3, <1>4, <2>1, <2>10, RulesAssumption, Sides
  <2>12. outcome' = None /\ turn' = IF mover = "police" THEN turn ELSE turn + 1
    BY <1>1, <1>2, <1>3, <1>4, <1>6, <2>11, RulesAssumption
  <2>13. TurnInv'
    BY <1>3, <1>4, <2>2, <2>10, <2>11, <2>12, RulesAssumption, Sides DEF TurnInv
  <2>14. LocalStatesValid'
    BY <2>2, <2>8, <2>9 DEF LocalStatesValid
  <2>15. StatesInv'
    BY <2>2, <2>3, <2>6, <2>8, <2>14, Sides DEF StatesInv
  <2>16. SidesInStep'
    <3>1. mover = "police" \/ mover = "thief"
      BY <1>3, Sides
    <3>2. shared["police"].barriers = shared["thief"].barriers
      BY <2>8, Sides
    <3>3. /\ shared["thief"].step = turn' - 1
          /\ shared["police"].step = IF mover' = "police" THEN turn' - 1 ELSE turn'
      <4>1. CASE mover = "police"
        BY <1>3, <1>4, <2>2, <2>10, <2>12, <4>1, Sides
      <4>2. CASE mover = "thief"
        <5>1. mover' = "police" /\ turn' = turn + 1
          BY <1>3, <2>2, <2>12, <4>2, Sides
        <5>2. QED
          BY <1>4, <2>10, <4>2, <5>1
      <4>3. QED
        BY <3>1, <4>1, <4>2
    <3>4. QED
      BY <2>2, <3>2, <3>3 DEF SidesInStep
  <2>17. NoMissedOutcome'
    BY <2>1, <2>2, <2>5, <2>8, <2>11, Sides DEF NoMissedOutcome
  <2>18. QED
    BY <2>13, <2>15, <2>16, <2>17 DEF RefereeInv
<1>7. QED
  BY <1>5, <1>6

LEMMA RefereeStarts == ArenaInit => RefereeInv
<1> SUFFICES ASSUME ArenaInit PROVE RefereeInv
  OBVIOUS
<1> DEFINE s(r) == InitialState(r, Start[r])
<1>1. /\ local = [r \in Roles |-> s(r)] /\ turn = 1 /\ mover = "police" /\ outcome = None
      /\ Start \in [Roles -> Cells] /\ Start["police"] # Start["thief"]
  BY StartAssumption DEF ArenaInit
<1>2. \A r \in Roles : /\ s(r) \in LocalStates /\ ValidState(s(r)) /\ s(r).role = r
                       /\ s(r).barriers = {} /\ s(r).placed = 0 /\ s(r).step = 0
                       /\ s(r).position = Start[r]
  <2> SUFFICES ASSUME NEW r \in Roles
               PROVE  /\ s(r) \in LocalStates /\ ValidState(s(r)) /\ s(r).role = r
                      /\ s(r).barriers = {} /\ s(r).placed = 0 /\ s(r).step = 0
                      /\ s(r).position = Start[r]
    OBVIOUS
  <2>1. Start[r] \in Cells
    BY <1>1
  <2>2. s(r) = [role |-> r, position |-> Start[r], barriers |-> {}, placed |-> 0,
                step |-> 0, visited |-> {Start[r]}, terminal |-> None]
    BY DEF InitialState
  <2> HIDE DEF s
  <2>3. QED
    BY <2>1, <2>2, RulesAssumption DEF LocalStates, ValidState
<1> HIDE DEF s
<1>3. TurnInv
  BY <1>1, RulesAssumption, Sides DEF TurnInv
<1>4. StatesInv
  <2>1. Cardinality({}) = 0
    BY FS_EmptySet
  <2>2. QED
    BY <1>1, <1>2, <2>1, Sides DEF StatesInv, LocalStatesValid
<1>5. SidesInStep
  BY <1>1, <1>2, Sides DEF SidesInStep
<1>6. NoMissedOutcome
  <2>1. Neighbors(Start["thief"], {}) # {}
    BY <1>1, Sides, SomeNeighbor
  <2>2. ~EnclosureCapture(local["thief"].position, local["thief"].barriers)
    BY <1>1, <1>2, <2>1, Sides DEF EnclosureCapture
  <2>3. QED
    BY <1>1, <1>2, <2>2, RulesAssumption, Sides DEF NoMissedOutcome
<1>7. QED
  BY <1>3, <1>4, <1>5, <1>6 DEF RefereeInv

LEMMA GameGoesOn ==
  ASSUME RefereeInv, [Next]_vars
  PROVE  RefereeInv'
<1>1. CASE RevealStep
  <2>1. Apply(mover, steps[Identity(mover)].body.action)
    BY <1>1 DEF RevealStep
  <2>2. QED
    BY <2>1, RefereeGoesOn
<1>2. CASE UNCHANGED arenaVars
  BY <1>2 DEF arenaVars, RefereeInv, TurnInv, StatesInv, LocalStatesValid, SidesInStep,
              NoMissedOutcome
<1>3. QED
  BY <1>1, <1>2 DEF Next, vars, SealDecision, ReplaceDecision, AcknowledgeStep, DiscloseNonces

(***************************************************************************)
(* On every board and from all starting cells the referee has missed no    *)
(* capture, enclosure or survival while a game goes on, and the states of  *)
(* both sides are ones the code accepts, with the same barriers and the    *)
(* same turn (arena.py:79-118, state.py:76-89, terminal.py:44-83).         *)
(***************************************************************************)
THEOREM RefereeMissesNothing == Spec => [](LocalStatesValid /\ SidesInStep /\ NoMissedOutcome)
<1>1. Init => RefereeInv
  BY RefereeStarts DEF Init
<1>2. RefereeInv => LocalStatesValid /\ SidesInStep /\ NoMissedOutcome
  BY DEF RefereeInv, StatesInv
<1>3. QED
  BY <1>1, <1>2, GameGoesOn, PTL DEF Spec

-----------------------------------------------------------------------------
(* Numbers, and what is computed step by step. *)

LEMMA LeastOf ==
  ASSUME NEW S \in SUBSET Nat, S # {}
  PROVE  \E m \in S : \A k \in S : m <= k
<1>1. PICK m \in S : \A k \in S : <<k, m>> \notin OpToRel(<, Nat)
  BY NatLessThanWellFounded, WFMin, Zenon
<1>2. ASSUME NEW k \in S PROVE m <= k
  <2>1. <<k, m>> \notin {ss \in Nat \X Nat : ss[1] < ss[2]}
    BY <1>1, Zenon DEF OpToRel
  <2>2. k \in Nat /\ m \in Nat
    OBVIOUS
  <2>3. QED
    BY <2>1, <2>2
<1>3. QED
  BY <1>2

\* Two functions that start alike and go on alike are alike.
GoAlike(f, g, n) ==
  f[0] = g[0] /\ \A k \in 1..n : f[k - 1] = g[k - 1] => f[k] = g[k]

LEMMA SameCourse ==
  ASSUME NEW n \in Nat, NEW f, NEW g, GoAlike(f, g, n)
  PROVE  \A k \in 0..n : f[k] = g[k]
<1> USE DEF GoAlike
<1> DEFINE Apart == {k \in 0..n : f[k] # g[k]}
<1>1. SUFFICES ASSUME Apart # {} PROVE FALSE
  OBVIOUS
<1>2. PICK m \in Apart : \A k \in Apart : m <= k
  <2>1. Apart \in SUBSET Nat
    OBVIOUS
  <2>2. QED
    BY <1>1, <2>1, LeastOf
<1>3. m \in 1..n /\ m - 1 \in 0..n /\ f[m] # g[m]
  OBVIOUS
<1>4. f[m - 1] = g[m - 1]
  BY <1>2, <1>3
<1>5. QED
  BY <1>3, <1>4

\* A replay, and a journal, are known by any course that makes the same steps.
ReplayCourse(b, f) ==
  f = [k \in 0 .. Len(b.steps) |-> IF k = 0 THEN ReplayStart ELSE ReplayStep(b, f[k - 1], k)]

JournalCourse(s, f) ==
  f = [k \in 0 .. Len(s) |-> IF k = 0 THEN <<>>
                              ELSE Append1(f[k - 1], LiveReveal(s[k].body, s[k].nonce))]

LEMMA ReplayIs ==
  ASSUME NEW b, Len(b.steps) \in Nat, NEW g, ReplayCourse(b, g)
  PROVE  Replay(b) = g[Len(b.steps)]
<1>1. PICK n \in Nat : n = Len(b.steps)
  OBVIOUS
<1> DEFINE after == CHOOSE f : ReplayCourse(b, f)
<1>2. ReplayCourse(b, after)
  BY Zenon
<1>3. Replays(b) = after
  BY Zenon DEF Replays, ReplayCourse
<1> HIDE DEF after
<1>4. 0 \in 0..n /\ \A k \in 1..n : k \in 0..n /\ k # 0
  OBVIOUS
<1>5. GoAlike(after, g, n)
  BY <1>1, <1>2, <1>4, Zenon DEF ReplayCourse, GoAlike
<1>6. \A k \in 0..n : after[k] = g[k]
  BY <1>5, SameCourse
<1>7. QED
  BY <1>1, <1>3, <1>6 DEF Replay

LEMMA JournalIs ==
  ASSUME NEW s, Len(s) \in Nat, NEW g, JournalCourse(s, g)
  PROVE  JournalOf(s) = g[Len(s)]
<1>1. PICK n \in Nat : n = Len(s)
  OBVIOUS
<1> DEFINE kept == CHOOSE f : JournalCourse(s, f)
<1>2. JournalCourse(s, kept)
  BY Zenon
<1>3. JournalsOf(s) = kept
  BY Zenon DEF JournalsOf, JournalCourse
<1> HIDE DEF kept
<1>4. 0 \in 0..n /\ \A k \in 1..n : k \in 0..n /\ k # 0
  OBVIOUS
<1>5. GoAlike(kept, g, n)
  BY <1>1, <1>2, <1>4, Zenon DEF JournalCourse, GoAlike
<1>6. \A k \in 0..n : kept[k] = g[k]
  BY <1>5, SameCourse
<1>7. QED
  BY <1>1, <1>3, <1>6 DEF JournalOf

\* Nothing flattened is nothing.
LEMMA FlattenNothing ==
  ASSUME NEW n \in Nat, NEW s, s = [i \in 1..n |-> <<>>]
  PROVE  FlattenSeq(s) = <<>>
<1>1. s \in Seq({<<>>}) /\ Len(s) = n /\ DOMAIN s = 1..n
  OBVIOUS
<1>2. CASE n = 0
  BY <1>1, <1>2 DEF FlattenSeq
<1>3. CASE n # 0
  <2> DEFINE Course(f) == f = [i \in 1..Len(s) |-> IF i = 1 THEN s[i] ELSE f[i - 1] \o s[i]]
             flat == CHOOSE f : Course(f)
  <2>1. Course(s)
    BY <1>1
  <2>2. Course(flat)
    BY <2>1, Zenon
  <2>3. FlattenSeq(s) = flat[Len(s)]
    BY <1>1, <1>3, Zenon DEF FlattenSeq
  <2> HIDE DEF flat
  <2> DEFINE f == [i \in 0..n |-> IF i = 0 THEN <<>> ELSE flat[i]]
             g == [i \in 0..n |-> <<>>]
  <2>4. \A i \in 1..n : flat[i] = IF i = 1 THEN <<>> ELSE flat[i - 1] \o <<>>
    BY <1>1, <2>2
  <2>5. GoAlike(f, g, n)
    BY <2>4 DEF GoAlike
  <2> HIDE DEF f, g
  <2>6. \A k \in 0..n : f[k] = g[k]
    BY <2>5, SameCourse
  <2>7. QED
    BY <1>1, <1>3, <2>3, <2>6 DEF f, g
<1>4. QED
  BY <1>2, <1>3

-----------------------------------------------------------------------------
(* The evidence: the invariant. *)

\* What step k of the journal revealed, and where the store has it.
BodyAt(k) == journal[k].payload.body
NonceAt(k) == journal[k].payload.commitment[2]
SealAt(k) == <<Game, <<BodyAt(k).step, BodyAt(k).actor>>>>

\* The entries of the journal are reveals, each chained to the one before it.
JournalInv ==
  /\ \E S : journal \in Seq(S)
  /\ \A k \in 1..Len(journal) :
       journal[k] = Entry(k, LiveReveal(BodyAt(k), NonceAt(k)),
                          IF k = 1 THEN Genesis ELSE journal[k - 1].entry)

\* Each of them is a locked step of the store, and no two are the same one.
RevealsInv ==
  /\ \A id \in DOMAIN steps : steps[id].nonce \in Nonces
  /\ \A k \in 1..Len(journal) :
       /\ SealAt(k) \in DOMAIN steps /\ steps[SealAt(k)].acknowledged
       /\ steps[SealAt(k)].nonce = NonceAt(k)
       /\ BodyAt(k).actor \in Roles /\ BodyAt(k).step \in Nat
       /\ outcome = None => BodyAt(k).step <= local[BodyAt(k).actor].step
  /\ \A j, k \in 1..Len(journal) : SealAt(j) = SealAt(k) => j = k

\* While the game goes on, what is sealed was played or is a plan of the side to move.
PlansInv ==
  outcome = None => \A id \in DOMAIN steps :
    \/ \E role \in Roles : \E k \in 1..local[role].step : id = <<Game, <<k, role>>>>
    \/ id = Identity(mover) /\ \E action : steps[id].body = Planned(action)

LEMMA JournalGrows ==
  ASSUME JournalInv, NEW body, NEW nonce,
         journal' = Append1(journal, LiveReveal(body, nonce))
  PROVE  /\ JournalInv' /\ Len(journal) \in Nat /\ Len(journal') = Len(journal) + 1
         /\ \A k \in 1..Len(journal) : BodyAt(k)' = BodyAt(k) /\ NonceAt(k)' = NonceAt(k)
         /\ \A k : k = Len(journal) + 1 => BodyAt(k)' = body /\ NonceAt(k)' = nonce
<1> DEFINE n == Len(journal)
           reveal == LiveReveal(body, nonce)
           previous == IF journal = <<>> THEN Genesis ELSE journal[n].entry
           e == Entry(n + 1, reveal, previous)
<1>1. PICK S : journal \in Seq(S)
  BY DEF JournalInv
<1>2. journal' = Append(journal, e)
  BY DEF Append1
<1>3. e.payload.body = body /\ e.payload.commitment[2] = nonce
  BY DEF Entry, LiveReveal, Commitment
<1> HIDE DEF e
<1>4. journal \in Seq(S \cup {e}) /\ e \in S \cup {e} /\ n \in Nat
  BY <1>1
<1>5. /\ journal' \in Seq(S \cup {e}) /\ Len(journal') = n + 1
      /\ \A k \in 1..n : journal'[k] = journal[k]
      /\ journal'[n + 1] = e
  BY <1>2, <1>4
<1>6. /\ \A k \in 1..n : BodyAt(k)' = BodyAt(k) /\ NonceAt(k)' = NonceAt(k)
      /\ \A k : k = n + 1 => BodyAt(k)' = body /\ NonceAt(k)' = nonce
  BY <1>3, <1>5 DEF BodyAt, NonceAt
<1>7. ASSUME NEW k \in 1..n + 1
      PROVE  journal'[k] = Entry(k, LiveReveal(BodyAt(k)', NonceAt(k)'),
                                 IF k = 1 THEN Genesis ELSE journal'[k - 1].entry)
  <2>1. CASE k \in 1..n
    <3>1. journal[k] = Entry(k, LiveReveal(BodyAt(k), NonceAt(k)),
                             IF k = 1 THEN Genesis ELSE journal[k - 1].entry)
      BY <2>1 DEF JournalInv
    <3>2. k = 1 \/ journal'[k - 1] = journal[k - 1]
      BY <1>4, <1>5, <2>1
    <3>3. journal'[k] = journal[k]
      BY <1>5, <2>1
    <3>4. QED
      BY <1>6, <2>1, <3>1, <3>2, <3>3
  <2>2. CASE k = n + 1
    <3>1. previous = IF k = 1 THEN Genesis ELSE journal'[k - 1].entry
      <4>1. CASE journal = <<>>
        BY <2>2, <4>1
      <4>2. CASE journal # <<>>
        <5>1. n # 0 /\ n \in 1..n
          BY <1>1, <1>4, <4>2
        <5>2. k # 1 /\ k - 1 = n
          BY <1>4, <2>2, <5>1
        <5>3. QED
          BY <1>5, <4>2, <5>1, <5>2
      <4>3. QED
        BY <4>1, <4>2
    <3>2. BodyAt(k)' = body /\ NonceAt(k)' = nonce
      BY <1>6, <2>2
    <3>3. journal'[k] = e
      BY <1>5, <2>2
    <3> HIDE DEF previous
    <3>4. QED
      BY <2>2, <3>1, <3>2, <3>3 DEF e
  <2>3. QED
    BY <1>4, <2>1, <2>2
<1>8. JournalInv'
  BY <1>5, <1>7 DEF JournalInv
<1>9. QED
  BY <1>4, <1>5, <1>6, <1>8

LEMMA PlanIsNext ==
  ASSUME RefereeInv, NEW action
  PROVE  /\ Planned(action).step = local[mover].step + 1
         /\ Planned(action).actor = mover /\ Planned(action).action = action
         /\ local[mover].step \in Nat
<1>1. local[mover] \in LocalStates /\ local[mover].role = mover
  BY DEF RefereeInv, TurnInv, StatesInv
<1>2. Transition(local[mover], action).step = local[mover].step + 1
  BY <1>1 DEF Transition, LocalStates
<1>3. QED
  BY <1>1, <1>2 DEF Planned, BodyFor, Body, Frame, LocalStates

LEMMA StepsAdvance ==
  ASSUME RefereeInv, NEW action, Apply(mover, action), outcome' = None
  PROVE  /\ mover \in Roles
         /\ \A r \in Roles : /\ local[r].step \in Nat
                             /\ local'[r].step = IF r = mover THEN local[r].step + 1
                                                 ELSE local[r].step
<1> DEFINE moved == Transition(local[mover], action)
           next == [local EXCEPT ![mover] = moved]
           other == Opponent(mover)
<1>1. /\ moved \in LocalStates /\ moved.step = local[mover].step + 1
      /\ next \in [Roles -> LocalStates] /\ next[mover] = moved /\ next[other] = local[other]
  BY Applied
<1>2. Referee(next, mover, action) = None /\ local' = [next EXCEPT ![other].barriers = moved.barriers]
  BY Applied
<1>3. /\ mover \in Roles /\ other \in Roles /\ other # mover /\ Roles = {mover, other}
  BY Sides DEF RefereeInv, TurnInv
<1>4. \A r \in Roles : local[r].step \in Nat
  BY DEF RefereeInv, StatesInv, LocalStates
<1> HIDE DEF moved, next, other
<1>5. local'[mover].step = moved.step /\ local'[other].step = local[other].step
  <2>1. next[other] \in LocalStates
    BY <1>1, <1>3
  <2>2. [next[other] EXCEPT !.barriers = moved.barriers].step = next[other].step
    BY <2>1 DEF LocalStates
  <2>3. local' = [next EXCEPT ![other] = [next[other] EXCEPT !.barriers = moved.barriers]]
    BY <1>2
  <2>4. QED
    BY <1>1, <1>3, <2>2, <2>3
<1>6. QED
  BY <1>1, <1>3, <1>4, <1>5

\* A reveal is of the step that was planned for the side to move.
LEMMA RevealedIsPlanned ==
  ASSUME RefereeInv, PlansInv, RevealStep
  PROVE  /\ outcome = None /\ Identity(mover) \in DOMAIN steps
         /\ steps[Identity(mover)].acknowledged
         /\ steps[Identity(mover)].body = Planned(steps[Identity(mover)].body.action)
         /\ Apply(mover, steps[Identity(mover)].body.action)
         /\ journal' = Append1(journal, LiveReveal(steps[Identity(mover)].body,
                                                   steps[Identity(mover)].nonce))
         /\ steps' = [steps EXCEPT ![Identity(mover)].revealed = TRUE]
<1> DEFINE id == Identity(mover)
<1>1. /\ outcome = None /\ id \in DOMAIN steps /\ steps[id].acknowledged
      /\ Apply(mover, steps[id].body.action)
      /\ journal' = Append1(journal, LiveReveal(steps[id].body, steps[id].nonce))
      /\ steps' = [steps EXCEPT ![id].revealed = TRUE]
  BY DEF RevealStep, Store!Reveal, Store!Sealed
<1>2. id = <<Game, <<local[mover].step + 1, mover>>>>
  BY DEF Identity
<1>3. local[mover].step \in Nat
  BY PlanIsNext
<1>4. ~\E role \in Roles : \E k \in 1..local[role].step : id = <<Game, <<k, role>>>>
  BY <1>2, <1>3
<1> HIDE DEF id
<1>5. PICK action : steps[id].body = Planned(action)
  BY <1>1, <1>4 DEF PlansInv, id
<1>6. steps[id].body.action = action
  BY <1>5, PlanIsNext
<1>7. QED
  BY <1>1, <1>5, <1>6 DEF id

LEMMA NoncesAreNonces ==
  ASSUME SealsInv, RevealsInv, [Next]_vars
  PROVE  \A id \in DOMAIN steps' : steps'[id].nonce \in Nonces
<1>1. nonces \subseteq Nonces /\ \A id \in DOMAIN steps : steps[id].nonce \in Nonces
  BY DEF SealsInv, RevealsInv, Store!NoncesMatchSteps, Store!Sealed
<1>2. CASE SealDecision
  <2>1. PICK action : Store!Seal(Identity(mover), Planned(action), Fresh)
    BY <1>2 DEF SealDecision
  <2>2. \E n \in Nonces : n \notin nonces
    BY <1>1, <1>2 DEF SealDecision
  <2>3. Fresh \in Nonces
    BY <2>2 DEF Fresh
  <2>4. QED
    BY <1>1, <2>1, <2>3 DEF Store!Seal, Store!With, Store!NewStep
<1>3. CASE ReplaceDecision
  <2>1. PICK action \in Decisions(local[mover]), nonce \in nonces :
          Store!ReplaceBeforeAck(Identity(mover), Planned(action), nonce)
    BY <1>3 DEF ReplaceDecision
  <2>2. nonce \in Nonces
    BY <1>1
  <2>3. QED
    BY <1>1, <2>1, <2>2 DEF Store!ReplaceBeforeAck, Store!With, Store!Without, Store!NewStep
<1>4. CASE AcknowledgeStep
  <2>1. PICK id \in DOMAIN steps : steps' = [steps EXCEPT ![id].acknowledged = TRUE]
    BY <1>4 DEF AcknowledgeStep, Store!Acknowledge, Store!Sealed
  <2>2. steps'[id].nonce = steps[id].nonce /\ DOMAIN steps' = DOMAIN steps
        /\ \A i \in DOMAIN steps \ {id} : steps'[i] = steps[i]
    BY <2>1 DEF SealsInv, StepsInv
  <2>3. QED
    BY <1>1, <2>2
<1>5. CASE RevealStep
  <2> DEFINE id == Identity(mover)
  <2>1. id \in DOMAIN steps /\ steps' = [steps EXCEPT ![id].revealed = TRUE]
    BY <1>5 DEF RevealStep, Store!Reveal, Store!Sealed
  <2> HIDE DEF id
  <2>2. steps'[id].nonce = steps[id].nonce /\ DOMAIN steps' = DOMAIN steps
        /\ \A i \in DOMAIN steps \ {id} : steps'[i] = steps[i]
    BY <2>1 DEF SealsInv, StepsInv
  <2>3. QED
    BY <1>1, <2>2
<1>6. CASE UNCHANGED steps
  BY <1>1, <1>6
<1>7. QED
  BY <1>2, <1>3, <1>4, <1>5, <1>6 DEF Next, DiscloseNonces, Store!FinalManifest, vars, storeVars

LEMMA RevealsGoOn ==
  ASSUME SealsInv, RefereeInv, JournalInv, RevealsInv, PlansInv, [Next]_vars
  PROVE  JournalInv' /\ RevealsInv'
<1>1. Store!LockedStaysLocked
  BY SealsGoOn
<1>2. \A i \in DOMAIN steps' : steps'[i].nonce \in Nonces
  BY NoncesAreNonces
<1>3. CASE RevealStep
  <2> DEFINE id == Identity(mover)
             body == steps[id].body
             nonce == steps[id].nonce
             n == Len(journal)
  <2>1. /\ outcome = None /\ id \in DOMAIN steps /\ steps[id].acknowledged
        /\ body = Planned(body.action) /\ Apply(mover, body.action)
        /\ journal' = Append1(journal, LiveReveal(body, nonce))
    BY <1>3, RevealedIsPlanned
  <2> HIDE DEF id, body
  <2>2. /\ JournalInv' /\ n \in Nat /\ Len(journal') = n + 1
        /\ \A k \in 1..n : BodyAt(k)' = BodyAt(k) /\ NonceAt(k)' = NonceAt(k)
        /\ \A k : k = n + 1 => BodyAt(k)' = body /\ NonceAt(k)' = nonce
    BY <2>1, JournalGrows
  <2>3. body.step = local[mover].step + 1 /\ body.actor = mover /\ local[mover].step \in Nat
    BY <2>1, PlanIsNext
  <2>4. mover \in Roles
    BY DEF RefereeInv, TurnInv
  <2>5. id = <<Game, <<body.step, body.actor>>>>
    BY <2>3 DEF id, Identity
  <2>6. outcome' = None => \A r \in Roles : /\ local[r].step \in Nat
                                            /\ local'[r].step = IF r = mover THEN local[r].step + 1
                                                                ELSE local[r].step
    BY <2>1, StepsAdvance
  <2>7. \A k \in 1..n : SealAt(k)' = SealAt(k) /\ SealAt(k) # id
    <3> SUFFICES ASSUME NEW k \in 1..n PROVE SealAt(k)' = SealAt(k) /\ SealAt(k) # id
      OBVIOUS
    <3>1. BodyAt(k).actor \in Roles /\ BodyAt(k).step \in Nat
          /\ BodyAt(k).step <= local[BodyAt(k).actor].step
      BY <2>1 DEF RevealsInv
    <3>2. SealAt(k)' = SealAt(k)
      BY <2>2 DEF SealAt, BodyAt
    <3>3. ~(BodyAt(k).step = body.step /\ BodyAt(k).actor = body.actor)
      BY <2>3, <3>1
    <3>4. QED
      BY <2>5, <3>2, <3>3 DEF SealAt
  <2>8. \A k : k = n + 1 => SealAt(k)' = id
    BY <2>2, <2>5 DEF SealAt, BodyAt
  <2>9. \A k \in 1..n + 1 :
          /\ SealAt(k)' \in DOMAIN steps' /\ steps'[SealAt(k)'].acknowledged
          /\ steps'[SealAt(k)'].nonce = NonceAt(k)'
          /\ BodyAt(k)'.actor \in Roles /\ BodyAt(k)'.step \in Nat
          /\ outcome' = None => BodyAt(k)'.step <= local'[BodyAt(k)'.actor].step
    <3> SUFFICES ASSUME NEW k \in 1..n + 1
                 PROVE  /\ SealAt(k)' \in DOMAIN steps' /\ steps'[SealAt(k)'].acknowledged
                        /\ steps'[SealAt(k)'].nonce = NonceAt(k)'
                        /\ BodyAt(k)'.actor \in Roles /\ BodyAt(k)'.step \in Nat
                        /\ outcome' = None => BodyAt(k)'.step <= local'[BodyAt(k)'.actor].step
      OBVIOUS
    <3>1. CASE k \in 1..n
      <4>1. /\ SealAt(k) \in DOMAIN steps /\ steps[SealAt(k)].acknowledged
            /\ steps[SealAt(k)].nonce = NonceAt(k)
            /\ BodyAt(k).actor \in Roles /\ BodyAt(k).step \in Nat
            /\ BodyAt(k).step <= local[BodyAt(k).actor].step
        BY <2>1, <3>1 DEF RevealsInv
      <4>2. /\ SealAt(k)' = SealAt(k) /\ BodyAt(k)' = BodyAt(k) /\ NonceAt(k)' = NonceAt(k)
        BY <2>2, <2>7, <3>1
      <4>3. /\ SealAt(k) \in DOMAIN steps' /\ steps'[SealAt(k)].acknowledged
            /\ steps'[SealAt(k)].nonce = NonceAt(k)
        BY <1>1, <4>1 DEF Store!LockedStaysLocked, Store!Sealed
      <4>4. outcome' = None => BodyAt(k).step <= local'[BodyAt(k).actor].step
        BY <2>6, <4>1
      <4>5. QED
        BY <4>1, <4>2, <4>3, <4>4
    <3>2. CASE k = n + 1
      <4>1. SealAt(k)' = id /\ BodyAt(k)' = body /\ NonceAt(k)' = nonce
        BY <2>2, <2>8, <3>2
      <4>2. id \in DOMAIN steps' /\ steps'[id].acknowledged /\ steps'[id].nonce = nonce
        BY <1>1, <2>1 DEF Store!LockedStaysLocked, Store!Sealed
      <4>3. outcome' = None => body.step <= local'[mover].step
        BY <2>3, <2>4, <2>6
      <4>4. body.actor \in Roles /\ body.step \in Nat
        BY <2>3, <2>4
      <4>5. QED
        BY <2>3, <4>1, <4>2, <4>3, <4>4
    <3>3. QED
      BY <2>2, <3>1, <3>2
  <2>10. \A j, k \in 1..n + 1 : SealAt(j)' = SealAt(k)' => j = k
    <3> SUFFICES ASSUME NEW j \in 1..n + 1, NEW k \in 1..n + 1, SealAt(j)' = SealAt(k)', j # k
                 PROVE  FALSE
      OBVIOUS
    <3>1. j \in 1..n \/ j = n + 1
      BY <2>2
    <3>2. k \in 1..n \/ k = n + 1
      BY <2>2
    <3>3. ~(j \in 1..n /\ k \in 1..n)
      BY <2>7 DEF RevealsInv
    <3>4. ~(j \in 1..n /\ k = n + 1) /\ ~(k \in 1..n /\ j = n + 1)
      BY <2>7, <2>8
    <3>5. QED
      BY <3>1, <3>2, <3>3, <3>4
  <2>11. RevealsInv'
    BY <1>2, <2>2, <2>9, <2>10 DEF RevealsInv
  <2>12. QED
    BY <2>2, <2>11
<1>4. CASE UNCHANGED <<arenaVars, journal>>
  <2>1. UNCHANGED <<journal, outcome, local>>
    BY <1>4 DEF arenaVars
  <2>2. JournalInv'
    BY <2>1 DEF JournalInv, BodyAt, NonceAt
  <2>3. \A k : BodyAt(k)' = BodyAt(k) /\ NonceAt(k)' = NonceAt(k) /\ SealAt(k)' = SealAt(k)
    BY <2>1 DEF BodyAt, NonceAt, SealAt
  <2>4. \A k \in 1..Len(journal) :
          /\ SealAt(k) \in DOMAIN steps' /\ steps'[SealAt(k)].acknowledged
          /\ steps'[SealAt(k)].nonce = NonceAt(k)
    BY <1>1 DEF Store!LockedStaysLocked, Store!Sealed, RevealsInv
  <2>5. RevealsInv'
    BY <1>2, <2>1, <2>3, <2>4 DEF RevealsInv
  <2>6. QED
    BY <2>2, <2>5
<1>5. QED
  BY <1>3, <1>4 DEF Next, vars, SealDecision, ReplaceDecision, AcknowledgeStep, DiscloseNonces

LEMMA PlansGoOn ==
  ASSUME SealsInv, RefereeInv, PlansInv, [Next]_vars
  PROVE  PlansInv'
<1> SUFFICES ASSUME outcome' = None, NEW id \in DOMAIN steps'
             PROVE  \/ \E role \in Roles : \E k \in 1..local'[role].step : id = <<Game, <<k, role>>>>
                    \/ id = Identity(mover)' /\ \E action : steps'[id].body = Planned(action)'
  BY DEF PlansInv
<1>1. CASE RevealStep
  <2> DEFINE at == Identity(mover)
  <2>1. /\ outcome = None /\ at \in DOMAIN steps
        /\ Apply(mover, steps[at].body.action)
        /\ steps' = [steps EXCEPT ![at].revealed = TRUE]
    BY <1>1, RevealedIsPlanned
  <2>2. mover \in Roles
    BY DEF RefereeInv, TurnInv
  <2>3. \A r \in Roles : /\ local[r].step \in Nat
                         /\ local'[r].step = IF r = mover THEN local[r].step + 1 ELSE local[r].step
    BY <2>1, StepsAdvance
  <2>4. id \in DOMAIN steps
    BY <2>1
  <2>5. \/ \E role \in Roles : \E k \in 1..local[role].step : id = <<Game, <<k, role>>>>
        \/ id = at
    BY <2>1, <2>4 DEF PlansInv
  <2>6. CASE id = at
    <3>1. id = <<Game, <<local[mover].step + 1, mover>>>>
      BY <2>6 DEF Identity
    <3>2. local[mover].step + 1 \in 1..local'[mover].step
      BY <2>2, <2>3
    <3>3. QED
      BY <2>2, <3>1, <3>2
  <2>7. CASE \E role \in Roles : \E k \in 1..local[role].step : id = <<Game, <<k, role>>>>
    <3>1. PICK role \in Roles : \E k \in 1..local[role].step : id = <<Game, <<k, role>>>>
      BY <2>7
    <3>2. PICK k \in 1..local[role].step : id = <<Game, <<k, role>>>>
      BY <3>1
    <3>3. k \in 1..local'[role].step
      BY <2>3
    <3>4. QED
      BY <3>2, <3>3
  <2>8. QED
    BY <2>5, <2>6, <2>7
<1>2. CASE UNCHANGED arenaVars
  <2>1. /\ UNCHANGED <<outcome, local, mover>> /\ Identity(mover)' = Identity(mover)
        /\ \A action : Planned(action)' = Planned(action)
    BY <1>2 DEF arenaVars, Identity, Planned
  <2>2. \/ id \in DOMAIN steps /\ steps'[id].body = steps[id].body
        \/ id = Identity(mover) /\ \E action : steps'[id].body = Planned(action)
    <3>1. CASE SealDecision
      <4>1. PICK action : Store!Seal(Identity(mover), Planned(action), Fresh)
        BY <3>1 DEF SealDecision
      <4>2. QED
        BY <4>1 DEF Store!Seal, Store!With, Store!NewStep
    <3>2. CASE ReplaceDecision
      <4>1. PICK action, nonce : Store!ReplaceBeforeAck(Identity(mover), Planned(action), nonce)
        BY <3>2 DEF ReplaceDecision
      <4>2. QED
        BY <4>1 DEF Store!ReplaceBeforeAck, Store!With, Store!Without, Store!NewStep
    <3>3. CASE AcknowledgeStep
      <4>1. PICK i \in DOMAIN steps : steps' = [steps EXCEPT ![i].acknowledged = TRUE]
        BY <3>3 DEF AcknowledgeStep, Store!Acknowledge, Store!Sealed
      <4>2. QED
        BY <4>1 DEF SealsInv, StepsInv
    <3>4. CASE UNCHANGED steps
      BY <3>4
    <3>5. CASE RevealStep
      <4>1. steps' = [steps EXCEPT ![Identity(mover)].revealed = TRUE]
            /\ Identity(mover) \in DOMAIN steps
        BY <3>5, RevealedIsPlanned
      <4>2. QED
        BY <4>1 DEF SealsInv, StepsInv
    <3>6. QED
      BY <3>1, <3>2, <3>3, <3>4, <3>5 DEF Next, DiscloseNonces, Store!FinalManifest, vars, storeVars
  <2>3. QED
    BY <2>1, <2>2 DEF PlansInv
<1>3. QED
  BY <1>1, <1>2 DEF Next, vars, SealDecision, ReplaceDecision, AcknowledgeStep, DiscloseNonces

-----------------------------------------------------------------------------
(* The course of the game: the invariant. *)

\* The states and fields a game starts from, and those a step makes of some others.
AtStart ==
  [states |-> [r \in Roles |-> InitialState(r, Start[r])],
   fields |-> [r \in Roles |-> NoScent]]

Moved(w, body) == Transition(w.states[body.actor], body.action)

Onward(w, body) ==
  LET states == Shared(w.states, Moved(w, body), PublicEvents(body.action))
      shown == [w.fields EXCEPT ![body.actor] = AfterAction(@, Moved(w, body), body.action)]
  IN  [states |-> states, fields |-> ShownFields(shown, [r \in Roles |-> states[r].step])]

MoverOf(states) ==
  IF states["police"].step = states["thief"].step THEN "police" ELSE "thief"

\* What was sealed is a legal action of the side to move, with what comes of it.
Plays(w, body) ==
  /\ body.actor = MoverOf(w.states)
  /\ body.action \in LegalActions(w.states[body.actor])
  /\ body = BodyFor(w.states[body.actor], w.fields[body.actor], body.action)

\* The two sides of a game that goes on.
GoesOn(states) ==
  /\ states \in [Roles -> LocalStates]
  /\ \A r \in Roles : ValidState(states[r]) /\ states[r].role = r
  /\ states["police"].placed = Cardinality(states["police"].barriers)
  /\ states["thief"].placed = 0
  /\ states["police"].barriers = states["thief"].barriers
  /\ states["thief"].position \notin states["police"].barriers
  /\ states["police"].position # states["thief"].position
  /\ ~EnclosureCapture(states["thief"].position, states["thief"].barriers)
  /\ StepTerminal(states["thief"].step) = None
  /\ states["police"].step \in {states["thief"].step, states["thief"].step + 1}

\* n steps of a game that goes on after each of them.
Course(h, n, bodies) ==
  /\ h[0] = AtStart
  /\ \A k \in 0..n : GoesOn(h[k].states)
  /\ \A k \in 1..n : Plays(h[k - 1], bodies[k]) /\ h[k] = Onward(h[k - 1], bodies[k])

\* The last step and the verdict of the referee.
Ends(w, body, last, reason) ==
  LET next == [w.states EXCEPT ![body.actor] = Moved(w, body)]
  IN  /\ Plays(w, body)
      /\ last = next /\ reason # None
      /\ reason = ResolveTerminal(next["police"].position, next["thief"].position,
                                  Moved(w, body).barriers, next["thief"].step,
                                  PublicEvents(body.action), {})

Told == [k \in 1..Len(journal) |-> BodyAt(k)]

CourseInv ==
  /\ outcome = None =>
       \E h : /\ Course(h, Len(journal), Told)
              /\ h[Len(journal)] = [states |-> local, fields |-> scent]
  /\ outcome # None =>
       /\ Len(journal) # 0
       /\ \E h : /\ Course(h, Len(journal) - 1, Told)
                 /\ Ends(h[Len(journal) - 1], BodyAt(Len(journal)), local, outcome)

LEMMA GameIsGoingOn ==
  ASSUME RefereeInv, outcome = None
  PROVE  GoesOn(local) /\ MoverOf(local) = mover
<1>1. /\ local \in [Roles -> LocalStates]
      /\ \A r \in Roles : ValidState(local[r]) /\ local[r].role = r
      /\ local["police"].placed = Cardinality(local["police"].barriers)
      /\ local["thief"].placed = 0 /\ mover \in Roles
      /\ local["thief"].position \notin local["police"].barriers
  BY DEF RefereeInv, StatesInv, LocalStatesValid, TurnInv
<1>2. /\ local["police"].barriers = local["thief"].barriers
      /\ local["police"].position # local["thief"].position
      /\ ~EnclosureCapture(local["thief"].position, local["thief"].barriers)
  BY DEF RefereeInv, SidesInStep, NoMissedOutcome
<1>3. /\ turn \in Nat /\ local["thief"].step = turn - 1
      /\ local["police"].step = IF mover = "police" THEN turn - 1 ELSE turn
  BY DEF RefereeInv, SidesInStep, TurnInv
<1>4. local["thief"].step \in Nat /\ local["thief"].step < SurvivalThreshold
      /\ local["thief"].step < MaxSteps
  BY <1>1, Sides DEF RefereeInv, NoMissedOutcome, LocalStates
<1>5. StepTerminal(local["thief"].step) = None
  BY <1>4, RulesAssumption DEF StepTerminal
<1>6. MoverOf(local) = mover
  BY <1>1, <1>3, Sides DEF MoverOf
<1>7. local["police"].step \in {local["thief"].step, local["thief"].step + 1}
  BY <1>3
<1>8. QED
  BY <1>1, <1>2, <1>5, <1>6, <1>7 DEF GoesOn

\* The side to move, and what its legal action makes of it.
LEMMA MoverMoves ==
  ASSUME NEW w, NEW body, GoesOn(w.states), Plays(w, body)
  PROVE  /\ body.actor \in Roles /\ Opponent(body.actor) \in Roles
         /\ Opponent(body.actor) # body.actor
         /\ Moved(w, body) \in LocalStates /\ ValidState(Moved(w, body))
         /\ Moved(w, body).role = body.actor
         /\ Moved(w, body).step = w.states[body.actor].step + 1
         /\ Moved(w, body).barriers = w.states[body.actor].barriers \cup PublicEvents(body.action)
         /\ body.actor = "thief" => PublicEvents(body.action) = {}
<1>1. body.actor \in Roles /\ Opponent(body.actor) \in Roles /\ Opponent(body.actor) # body.actor
  BY Sides DEF Plays, MoverOf
<1> DEFINE s == w.states[body.actor]
<1>2. /\ s \in LocalStates /\ ValidState(s) /\ s.role = body.actor
      /\ body.action \in LegalActions(s)
      /\ s.role = "police" => s.placed = Cardinality(s.barriers)
      /\ s.role = "thief" => s.placed = 0
  BY <1>1 DEF GoesOn, Plays
<1> HIDE DEF s
<1>3. /\ Transition(s, body.action) \in LocalStates /\ ValidState(Transition(s, body.action))
      /\ Transition(s, body.action).role = s.role
      /\ Transition(s, body.action).step = s.step + 1
      /\ Transition(s, body.action).barriers = s.barriers \cup PublicEvents(body.action)
  BY <1>2, Moving
<1>4. s.role = "thief" => PublicEvents(body.action) = {}
  BY <1>2, LegalKinds, ActionKinds DEF PublicEvents
<1>5. QED
  BY <1>1, <1>2, <1>3, <1>4 DEF Moved, s

LEMMA SharedIsCopied ==
  ASSUME NEW w, NEW body, GoesOn(w.states), Plays(w, body)
  PROVE  Shared(w.states, Moved(w, body), PublicEvents(body.action))
           = [[w.states EXCEPT ![body.actor] = Moved(w, body)]
                EXCEPT ![Opponent(body.actor)].barriers = Moved(w, body).barriers]
<1> DEFINE m == Moved(w, body)
           a == body.actor
           o == Opponent(a)
           next == [w.states EXCEPT ![a] = m]
<1>1. /\ a \in Roles /\ o \in Roles /\ o # a
      /\ m.role = a /\ m.barriers = w.states[a].barriers \cup PublicEvents(body.action)
      /\ m \in LocalStates
  BY MoverMoves
<1>2. w.states \in [Roles -> LocalStates] /\ w.states[o].barriers = w.states[a].barriers
  BY <1>1, Sides DEF GoesOn
<1> HIDE DEF m, a, o
<1>3. next \in [Roles -> LocalStates] /\ next[o] = w.states[o]
  BY <1>1, <1>2
<1>4. CASE PublicEvents(body.action) = {}
  <2>1. m.barriers = next[o].barriers
    BY <1>1, <1>2, <1>3, <1>4
  <2>2. [next[o] EXCEPT !.barriers = m.barriers] = next[o]
    BY <1>1, <1>3, <2>1 DEF LocalStates
  <2> HIDE DEF next
  <2>3. [next EXCEPT ![o].barriers = m.barriers] = next
    BY <1>1, <1>3, <2>2
  <2>4. Shared(w.states, m, PublicEvents(body.action)) = next
    BY <1>1, <1>4 DEF Shared, next
  <2>5. QED
    BY <2>3, <2>4 DEF next, m, a, o
<1>5. CASE PublicEvents(body.action) # {}
  BY <1>1, <1>5 DEF Shared, m, a, o
<1>6. QED
  BY <1>4, <1>5

LEMMA CourseIsKept ==
  ASSUME NEW n \in Nat, NEW h, NEW bodies, NEW more, Course(h, n, bodies),
         \A k \in 1..n : more[k] = bodies[k]
  PROVE  Course(h, n, more)
  BY DEF Course

LEMMA CourseGrows ==
  ASSUME NEW n \in Nat, NEW h, NEW more, Course(h, n, more), Plays(h[n], more[n + 1]),
         GoesOn(Onward(h[n], more[n + 1]).states)
  PROVE  \E g : Course(g, n + 1, more) /\ g[n + 1] = Onward(h[n], more[n + 1])
<1> DEFINE last == Onward(h[n], more[n + 1])
           g == [k \in 0..n + 1 |-> IF k = n + 1 THEN last ELSE h[k]]
<1>1. GoesOn(last.states)
  OBVIOUS
<1> HIDE DEF last
<1>2. g[n + 1] = last /\ \A k \in 0..n : g[k] = h[k]
  OBVIOUS
<1> HIDE DEF g
<1>3. g[0] = AtStart
  BY <1>2 DEF Course
<1>4. \A k \in 0..n + 1 : GoesOn(g[k].states)
  <2> SUFFICES ASSUME NEW k \in 0..n + 1 PROVE GoesOn(g[k].states)
    OBVIOUS
  <2>1. k \in 0..n \/ k = n + 1
    OBVIOUS
  <2>2. QED
    BY <1>1, <1>2, <2>1 DEF Course
<1>5. \A k \in 1..n + 1 : Plays(g[k - 1], more[k]) /\ g[k] = Onward(g[k - 1], more[k])
  <2> SUFFICES ASSUME NEW k \in 1..n + 1
               PROVE  Plays(g[k - 1], more[k]) /\ g[k] = Onward(g[k - 1], more[k])
    OBVIOUS
  <2>1. CASE k \in 1..n
    <3>1. g[k] = h[k] /\ g[k - 1] = h[k - 1]
      BY <1>2, <2>1
    <3>2. Plays(h[k - 1], more[k]) /\ h[k] = Onward(h[k - 1], more[k])
      BY <2>1 DEF Course
    <3>3. QED
      BY <3>1, <3>2
  <2>2. CASE k = n + 1
    <3>1. g[k] = last /\ g[k - 1] = h[n] /\ more[k] = more[n + 1]
      BY <1>2, <2>2
    <3>2. QED
      BY <3>1 DEF last
  <2>3. QED
    BY <2>1, <2>2
<1>6. Course(g, n + 1, more)
  BY <1>3, <1>4, <1>5 DEF Course
<1>7. QED
  BY <1>2, <1>6 DEF last

\* What a reveal comes to, as a step of the course.
LEMMA RevealPlays ==
  ASSUME RefereeInv, PlansInv, RevealStep
  PROVE  LET at == [states |-> local, fields |-> scent]
             body == steps[Identity(mover)].body
         IN  /\ GoesOn(local) /\ Plays(at, body) /\ body.actor = mover
             /\ Apply(mover, body.action)
<1> DEFINE at == [states |-> local, fields |-> scent]
           body == steps[Identity(mover)].body
<1>1. outcome = None /\ body = Planned(body.action) /\ Apply(mover, body.action)
  BY RevealedIsPlanned
<1>2. GoesOn(local) /\ MoverOf(local) = mover
  BY <1>1, GameIsGoingOn
<1> HIDE DEF body
<1>3. body.actor = mover
  BY <1>1, PlanIsNext
<1>4. body.action \in LegalActions(local[mover])
  BY <1>1 DEF Apply
<1>5. body = BodyFor(local[mover], scent[mover], body.action)
  BY <1>1 DEF Planned
<1>6. Plays(at, body)
  BY <1>2, <1>3, <1>4, <1>5 DEF Plays
<1>7. QED
  BY <1>1, <1>2, <1>3, <1>6 DEF body

LEMMA RevealGoesOnward ==
  ASSUME RefereeInv, PlansInv, RevealStep, outcome' = None
  PROVE  Onward([states |-> local, fields |-> scent], steps[Identity(mover)].body)
           = [states |-> local', fields |-> scent']
<1> DEFINE at == [states |-> local, fields |-> scent]
           body == steps[Identity(mover)].body
           m == Moved(at, body)
           next == [local EXCEPT ![mover] = m]
           shown == [scent EXCEPT ![mover] = AfterAction(@, m, body.action)]
<1>1. GoesOn(local) /\ Plays(at, body) /\ body.actor = mover /\ Apply(mover, body.action)
  BY RevealPlays
<1> HIDE DEF body
<1>2. m = Transition(local[mover], body.action)
  BY <1>1 DEF Moved
<1>3. /\ Referee(next, mover, body.action) = None
      /\ local' = [next EXCEPT ![Opponent(mover)].barriers = m.barriers]
  BY <1>1, <1>2, Applied
<1>4. /\ mover = "police" => scent' = shown
      /\ mover # "police" => scent' = [r \in Roles |-> Decay(shown[r])]
  <2>1. CASE mover = "police"
    BY <1>1, <1>2, <1>3, <2>1, Zenon DEF Apply
  <2>2. CASE mover # "police"
    BY <1>1, <1>2, <1>3, <2>2, Zenon DEF Apply
  <2>3. QED
    BY <2>1, <2>2
<1>5. Shared(local, m, PublicEvents(body.action)) = local'
  BY <1>1, <1>3, SharedIsCopied
<1>6. /\ mover \in Roles
      /\ \A r \in Roles : /\ local[r].step \in Nat
                          /\ local'[r].step = IF r = mover THEN local[r].step + 1
                                              ELSE local[r].step
  BY <1>1, StepsAdvance
<1>7. local["police"].step = IF mover = "police" THEN local["thief"].step
                             ELSE local["thief"].step + 1
  <2>1. outcome = None
    BY <1>1 DEF Apply
  <2>2. turn \in Nat /\ local["thief"].step = turn - 1
        /\ local["police"].step = IF mover = "police" THEN turn - 1 ELSE turn
    BY <2>1 DEF RefereeInv, SidesInStep, TurnInv
  <2>3. QED
    BY <2>2
<1>8. local'["police"].step = local'["thief"].step <=> mover # "police"
  BY <1>6, <1>7, Sides
<1>9. ShownFields(shown, [r \in Roles |-> local'[r].step]) = scent'
  <2>1. [r \in Roles |-> local'[r].step]["police"] = local'["police"].step
        /\ [r \in Roles |-> local'[r].step]["thief"] = local'["thief"].step
    BY Sides
  <2>2. QED
    BY <1>4, <1>8, <2>1, Zenon DEF ShownFields
<1> HIDE DEF shown
<1>10. [at.fields EXCEPT ![body.actor] = AfterAction(@, m, body.action)] = shown
  BY <1>1 DEF shown
<1> HIDE DEF m, next
<1>11. /\ at.states = local
       /\ Onward(at, body)
            = [states |-> Shared(at.states, m, PublicEvents(body.action)),
               fields |-> ShownFields([at.fields EXCEPT ![body.actor] = AfterAction(@, m, body.action)],
                 [r \in Roles |-> Shared(at.states, m, PublicEvents(body.action))[r].step])]
  BY DEF Onward, m
<1>12. QED
  BY <1>5, <1>9, <1>10, <1>11 DEF body

LEMMA RevealEnds ==
  ASSUME RefereeInv, PlansInv, RevealStep, outcome' # None
  PROVE  Ends([states |-> local, fields |-> scent], steps[Identity(mover)].body, local', outcome')
<1> DEFINE at == [states |-> local, fields |-> scent]
           body == steps[Identity(mover)].body
           m == Transition(local[mover], body.action)
           next == [local EXCEPT ![mover] = m]
           reason == Referee(next, mover, body.action)
<1>1. GoesOn(local) /\ Plays(at, body) /\ body.actor = mover /\ Apply(mover, body.action)
  BY RevealPlays
<1> HIDE DEF body
<1>2. m = Moved(at, body)
  BY <1>1 DEF Moved
<1>3. /\ outcome = None /\ m \in LocalStates /\ m.step = local[mover].step + 1
      /\ next \in [Roles -> LocalStates] /\ next[mover] = m
      /\ next[Opponent(mover)] = local[Opponent(mover)]
  BY <1>1, Applied
<1>4. /\ reason # None => outcome' = reason /\ local' = next
      /\ reason = None => /\ mover = "police" => UNCHANGED <<turn, outcome>>
                          /\ mover # "police" =>
                               outcome' = IF turn = MaxSteps THEN "survival" ELSE None
  BY <1>1, Applied
<1>5. /\ mover \in Roles /\ turn \in Nat /\ turn \in 1..MaxSteps
      /\ local["thief"].step = turn - 1
  BY <1>3 DEF RefereeInv, TurnInv, SidesInStep
<1> DEFINE completed == IF mover = "thief" THEN turn ELSE turn - 1
<1>6. reason = ResolveTerminal(next["police"].position, next["thief"].position, m.barriers,
                               completed, PublicEvents(body.action), {})
  BY <1>3 DEF Referee
<1>7. completed = next["thief"].step
  <2>1. CASE mover = "thief"
    <3>1. next["thief"].step = turn - 1 + 1
      BY <1>3, <1>5, <2>1
    <3>2. QED
      BY <1>5, <2>1, <3>1
  <2>2. CASE mover = "police"
    BY <1>3, <1>5, <2>2, Sides
  <2>3. QED
    BY <1>5, <2>1, <2>2, Sides
<1>8. reason # None
  <2>1. SUFFICES ASSUME reason = None PROVE FALSE
    OBVIOUS
  <2> DEFINE placed == PublicEvents(body.action)
  <2>2. mover # "police" /\ turn = MaxSteps
    BY <1>3, <1>4, <2>1
  <2> HIDE DEF completed, next, m, placed, reason
  <2>3. ~(completed >= MaxSteps)
    BY <1>6, <2>1, NothingResolved DEF placed
  <2>4. QED
    BY <1>5, <2>2, <2>3, RulesAssumption, Sides DEF completed
<1> HIDE DEF reason, completed
<1>9. /\ [at.states EXCEPT ![body.actor] = Moved(at, body)] = next
      /\ m = Moved(at, body)
  BY <1>1, <1>2
<1> HIDE DEF next, m, at
<1>10. Ends(at, body, local', outcome')
  BY <1>1, <1>3, <1>4, <1>6, <1>7, <1>8, <1>9 DEF Ends
<1>11. QED
  BY <1>10 DEF at, body

LEMMA CourseGoesOn ==
  ASSUME SealsInv, RefereeInv, JournalInv, PlansInv, CourseInv, [Next]_vars
  PROVE  CourseInv'
<1>1. CASE RevealStep
  <2> DEFINE at == [states |-> local, fields |-> scent]
             body == steps[Identity(mover)].body
             n == Len(journal)
  <2>1. outcome = None /\ journal' = Append1(journal, LiveReveal(body, steps[Identity(mover)].nonce))
    BY <1>1, RevealedIsPlanned
  <2>2. GoesOn(local) /\ Plays(at, body)
    BY <1>1, RevealPlays
  <2>3. /\ n \in Nat /\ Len(journal') = n + 1
        /\ \A k \in 1..n : BodyAt(k)' = BodyAt(k)
        /\ \A k : k = n + 1 => BodyAt(k)' = body
    BY <2>1, JournalGrows
  <2> DEFINE told == [k \in 1..n + 1 |-> BodyAt(k)']
  <2>4. Told' = told /\ \A k \in 1..n : told[k] = Told[k]
    BY <2>3 DEF Told
  <2>5. told[n + 1] = body
    BY <2>3
  <2>6. PICK h : Course(h, n, Told) /\ h[n] = at
    BY <2>1 DEF CourseInv
  <2> HIDE DEF told, body, n
  <2>7. Course(h, n, told)
    BY <2>3, <2>4, <2>6, CourseIsKept
  <2>8. CASE outcome' = None
    <3>1. Onward(at, body) = [states |-> local', fields |-> scent']
      BY <1>1, <2>8, RevealGoesOnward DEF body
    <3>2. RefereeInv'
      BY GameGoesOn
    <3>3. GoesOn(local')
      <4>1. (RefereeInv /\ outcome = None => GoesOn(local))'
        BY GameIsGoingOn, PTL
      <4>2. QED
        BY <2>8, <3>2, <4>1
    <3>4. Onward(h[n], told[n + 1]) = [states |-> local', fields |-> scent']
          /\ Plays(h[n], told[n + 1])
      BY <2>2, <2>5, <2>6, <3>1
    <3>5. GoesOn(Onward(h[n], told[n + 1]).states)
      BY <3>3, <3>4
    <3>6. PICK g : Course(g, n + 1, told) /\ g[n + 1] = Onward(h[n], told[n + 1])
      BY <2>3, <2>7, <3>4, <3>5, CourseGrows
    <3>7. QED
      BY <2>3, <2>4, <2>8, <3>4, <3>6 DEF CourseInv
  <2>9. CASE outcome' # None
    <3>1. Ends(at, body, local', outcome')
      BY <1>1, <2>9, RevealEnds DEF body
    <3>2. Len(journal') - 1 = n /\ Len(journal') # 0
      BY <2>3
    <3>3. BodyAt(Len(journal))' = body
      BY <2>3 DEF BodyAt
    <3>4. QED
      BY <2>4, <2>6, <2>7, <2>9, <3>1, <3>2, <3>3 DEF CourseInv
  <2>10. QED
    BY <2>8, <2>9
<1>2. CASE UNCHANGED <<arenaVars, journal>>
  <2>1. UNCHANGED <<local, scent, outcome, journal>>
    BY <1>2 DEF arenaVars
  <2>2. Told' = Told /\ \A k : BodyAt(k)' = BodyAt(k)
    BY <2>1 DEF Told, BodyAt
  <2>3. BodyAt(Len(journal))' = BodyAt(Len(journal))
    BY <2>1 DEF BodyAt
  <2>4. QED
    BY <2>1, <2>2, <2>3 DEF CourseInv
<1>3. QED
  BY <1>1, <1>2 DEF Next, vars, SealDecision, ReplaceDecision, AcknowledgeStep, DiscloseNonces

EvidenceInv == SealsInv /\ RefereeInv /\ JournalInv /\ RevealsInv /\ PlansInv /\ CourseInv

LEMMA EvidenceStarts == Init => EvidenceInv
<1> SUFFICES ASSUME Init PROVE EvidenceInv
  OBVIOUS
<1>1. SealsInv /\ RefereeInv
  BY SealsStart, RefereeStarts DEF Init
<1>2. journal = <<>> /\ steps = <<>> /\ ArenaInit
  BY DEF Init, Store!StoreInit
<1>3. JournalInv
  <2>1. journal \in Seq({})
    BY <1>2
  <2>2. QED
    BY <1>2, <2>1 DEF JournalInv
<1>4. RevealsInv /\ PlansInv
  BY <1>2 DEF RevealsInv, PlansInv
<1>5. CourseInv
  <2> DEFINE at == [states |-> local, fields |-> scent]
             h == [k \in 0..0 |-> at]
  <2>1. outcome = None /\ at = AtStart /\ h[0] = at
    BY <1>2 DEF ArenaInit, AtStart
  <2>2. GoesOn(local)
    BY <1>1, <2>1, GameIsGoingOn
  <2> HIDE DEF h
  <2>3. Course(h, 0, Told)
    BY <2>1, <2>2 DEF Course
  <2>4. Len(journal) = 0
    BY <1>2
  <2>5. QED
    BY <2>1, <2>3, <2>4 DEF CourseInv
<1>6. QED
  BY <1>1, <1>3, <1>4, <1>5 DEF EvidenceInv

LEMMA EvidenceGoesOn == EvidenceInv /\ [Next]_vars => EvidenceInv'
  BY SealsGoOn, GameGoesOn, RevealsGoOn, PlansGoOn, CourseGoesOn DEF EvidenceInv

-----------------------------------------------------------------------------
(* The audit of the honest evidence: what it starts from. *)

LEMMA EvidenceIsTold ==
  ASSUME EvidenceInv
  PROVE  /\ Len(journal) \in Nat /\ DOMAIN journal = 1..Len(journal)
         /\ DOMAIN RevealedEvidence = 1..Len(journal)
         /\ Len(RevealedEvidence) = Len(journal)
         /\ \A k \in 1..Len(journal) :
              RevealedEvidence[k] = [sequence |-> k, body |-> BodyAt(k),
                                     commitment |-> Commitment(BodyAt(k), NonceAt(k)),
                                     nonce |-> NonceAt(k)]
<1>1. PICK S : journal \in Seq(S)
  BY DEF EvidenceInv, JournalInv
<1>2. Len(journal) \in Nat /\ DOMAIN journal = 1..Len(journal)
  BY <1>1
<1> DEFINE n == Len(journal)
           e(k) == Evidence(k, journal[k].payload, NonceAt(k))
<1>3. RevealedEvidence = [k \in 1..n |-> e(k)]
  BY <1>2 DEF RevealedEvidence, NonceAt
<1>4. \A k \in 1..n : e(k) = [sequence |-> k, body |-> BodyAt(k),
                              commitment |-> Commitment(BodyAt(k), NonceAt(k)),
                              nonce |-> NonceAt(k)]
  <2> SUFFICES ASSUME NEW k \in 1..n
               PROVE  e(k) = [sequence |-> k, body |-> BodyAt(k),
                              commitment |-> Commitment(BodyAt(k), NonceAt(k)),
                              nonce |-> NonceAt(k)]
    OBVIOUS
  <2>1. journal[k] = Entry(k, LiveReveal(BodyAt(k), NonceAt(k)),
                           IF k = 1 THEN Genesis ELSE journal[k - 1].entry)
    BY DEF EvidenceInv, JournalInv
  <2>2. journal[k].payload = LiveReveal(BodyAt(k), NonceAt(k))
    BY <2>1 DEF Entry
  <2>3. QED
    BY <2>2 DEF Evidence, LiveReveal
<1> HIDE DEF e, n
<1>5. RevealedEvidence \in Seq({e(k) : k \in 1..n}) /\ Len(RevealedEvidence) = n
      /\ DOMAIN RevealedEvidence = 1..n
  BY <1>2, <1>3 DEF n
<1>6. QED
  BY <1>2, <1>3, <1>4, <1>5 DEF n

LEMMA JournalIsRebuilt ==
  ASSUME EvidenceInv
  PROVE  JournalOf(RevealedEvidence) = journal
<1> DEFINE n == Len(journal)
           s == RevealedEvidence
           g == [k \in 0..n |-> SubSeq(journal, 1, k)]
<1>1. PICK S : journal \in Seq(S)
  BY DEF EvidenceInv, JournalInv
<1>2. /\ n \in Nat /\ Len(s) = n
      /\ \A k \in 1..n : s[k].body = BodyAt(k) /\ s[k].nonce = NonceAt(k)
  BY EvidenceIsTold
<1> HIDE DEF s
<1>3. ASSUME NEW k \in 1..n
      PROVE  SubSeq(journal, 1, k) = Append1(SubSeq(journal, 1, k - 1),
                                             LiveReveal(s[k].body, s[k].nonce))
  <2> DEFINE j == SubSeq(journal, 1, k - 1)
  <2>1. j \in Seq(S) /\ Len(j) = k - 1 /\ \A i \in 1..k - 1 : j[i] = journal[i]
    BY <1>1, <1>2
  <2>2. journal[k] = Entry(k, LiveReveal(BodyAt(k), NonceAt(k)),
                           IF k = 1 THEN Genesis ELSE journal[k - 1].entry)
    BY DEF EvidenceInv, JournalInv
  <2>3. SubSeq(journal, 1, k) = Append(j, journal[k])
    <3>1. SubSeq(journal, 1, k) \in Seq(S) /\ Append(j, journal[k]) \in Seq(S)
      BY <1>1, <1>2, <2>1
    <3>2. Len(SubSeq(journal, 1, k)) = k /\ Len(Append(j, journal[k])) = k
      BY <1>1, <1>2, <2>1
    <3>3. \A i \in 1..k : SubSeq(journal, 1, k)[i] = Append(j, journal[k])[i]
      BY <1>1, <1>2, <2>1
    <3>4. QED
      BY <3>1, <3>2, <3>3, SeqEqual
  <2> HIDE DEF j
  <2>4. (IF j = <<>> THEN Genesis ELSE j[Len(j)].entry)
          = IF k = 1 THEN Genesis ELSE journal[k - 1].entry
    <3>1. CASE k = 1
      <4>1. j = <<>>
        BY <2>1, <3>1
      <4>2. QED
        BY <3>1, <4>1
    <3>2. CASE k # 1
      <4>1. j # <<>> /\ j[Len(j)] = journal[k - 1]
        BY <2>1, <3>2
      <4>2. QED
        BY <3>2, <4>1
    <3>3. QED
      BY <3>1, <3>2
  <2>5. Len(j) + 1 = k
    BY <2>1
  <2>6. s[k].body = BodyAt(k) /\ s[k].nonce = NonceAt(k)
    BY <1>2
  <2>7. Append1(j, LiveReveal(s[k].body, s[k].nonce)) = Append(j, journal[k])
    BY <2>2, <2>4, <2>5, <2>6, Zenon DEF Append1
  <2>8. QED
    BY <2>3, <2>7 DEF j
<1>4. /\ SubSeq(journal, 1, 0) = <<>> /\ SubSeq(journal, 1, n) = journal
  <2>1. SubSeq(journal, 1, n) \in Seq(S) /\ Len(SubSeq(journal, 1, n)) = n
        /\ \A i \in 1..n : SubSeq(journal, 1, n)[i] = journal[i]
    BY <1>1, <1>2
  <2>2. SubSeq(journal, 1, n) = journal
    BY <1>1, <2>1, SeqEqual
  <2>3. SubSeq(journal, 1, 0) \in Seq(S) /\ Len(SubSeq(journal, 1, 0)) = 0
    BY <1>1, <1>2
  <2>4. QED
    BY <2>2, <2>3, EmptySeq
<1>5. JournalCourse(s, g)
  <2>1. \A k \in 0..n : k # 0 => k \in 1..n /\ k - 1 \in 0..n
    BY <1>2
  <2>2. \A k \in 0..n : SubSeq(journal, 1, k)
          = IF k = 0 THEN <<>> ELSE Append1(g[k - 1], LiveReveal(s[k].body, s[k].nonce))
    <3> SUFFICES ASSUME NEW k \in 0..n
                 PROVE  SubSeq(journal, 1, k)
          = IF k = 0 THEN <<>> ELSE Append1(g[k - 1], LiveReveal(s[k].body, s[k].nonce))
      OBVIOUS
    <3>1. CASE k = 0
      BY <1>4, <3>1
    <3>2. CASE k # 0
      <4>1. k \in 1..n /\ g[k - 1] = SubSeq(journal, 1, k - 1)
        BY <1>2, <2>1, <3>2
      <4> HIDE DEF g
      <4>2. SubSeq(journal, 1, k) = Append1(g[k - 1], LiveReveal(s[k].body, s[k].nonce))
        BY <1>3, <4>1
      <4>3. QED
        BY <3>2, <4>2
    <3>3. QED
      BY <3>1, <3>2
  <2>3. g = [k \in 0..n |-> IF k = 0 THEN <<>>
                            ELSE Append1(g[k - 1], LiveReveal(s[k].body, s[k].nonce))]
    BY <2>2, Zenon
  <2>4. QED
    BY <1>2, <2>3, Zenon DEF JournalCourse
<1> HIDE DEF g
<1>6. JournalOf(s) = g[n]
  BY <1>2, <1>5, JournalIs
<1>7. g[n] = journal
  BY <1>2, <1>4 DEF g
<1>8. QED
  BY <1>6, <1>7 DEF s

LEMMA HonestParts ==
  /\ Honest.game = Game /\ Honest.steps = RevealedEvidence
  /\ Honest.config = ConfigDigest /\ Honest.configSha = ConfigDigest
  /\ Honest.scentModel = ScentModelDigest /\ Honest.scentModelSha = ScentModelDigest
  /\ Honest.schedule = "schedule" /\ Honest.expectedSchedule = "schedule"
  /\ Honest.stepZero = [i \in 1..2 |->
       Declaration(Groups[i], <<ConfigDigest, ScentModelDigest, "schedule">>)]
  /\ Honest.agreedBetween = ToSet(Groups)
  /\ Honest.manifest = ManifestOf(RevealedEvidence)
  /\ Honest.journal = JournalOf(RevealedEvidence)
  /\ Honest.terminal = outcome /\ Honest.points = ScoreTerminal(outcome)
  /\ Honest.capture = <<CaptureExchange(outcome \in CaptureReasons, outcome \in CaptureReasons)>>
  BY DEF Honest, Bundle

LEMMA StepZeroPasses == StepZeroFailures(Honest) = <<>>
<1> DEFINE b == Honest
           bound == <<ConfigDigest, ScentModelDigest, "schedule">>
           d(i) == Declaration(Groups[i], bound)
           parts == [i \in DOMAIN b.stepZero |->
             (IF Signed(b.stepZero[i]) THEN <<>> ELSE <<"STEP_ZERO_SIGNATURE">>)
             \o (IF b.stepZero[i].binding = <<b.configSha, b.scentModelSha, b.schedule>>
                   THEN <<>> ELSE <<"STEP_ZERO_BINDING">>)]
<1>1. /\ b.stepZero = [i \in 1..2 |-> d(i)] /\ b.agreedBetween = ToSet(Groups)
      /\ <<b.configSha, b.scentModelSha, b.schedule>> = bound
  BY HonestParts
<1>2. \A i \in 1..2 : Signed(d(i)) /\ d(i).binding = bound /\ d(i).group = Groups[i]
  BY DEF Declaration, Signed
<1> HIDE DEF d, bound, b
<1>3. Len(b.stepZero) = 2 /\ DOMAIN b.stepZero = 1..2
  <2>1. b.stepZero \in Seq({d(i) : i \in 1..2})
    BY <1>1
  <2>2. QED
    BY <1>1, <2>1
<1>4. parts = [i \in 1..2 |-> <<>>]
  <2>1. \A i \in 1..2 : Signed(b.stepZero[i])
          /\ b.stepZero[i].binding = <<b.configSha, b.scentModelSha, b.schedule>>
    BY <1>1, <1>2
  <2>2. <<>> \o <<>> = <<>>
    OBVIOUS
  <2>3. QED
    BY <1>3, <2>1, <2>2, Zenon
<1> HIDE DEF parts
<1>5. FlattenSeq(parts) = <<>>
  BY <1>4, FlattenNothing
<1>6. {b.stepZero[i].group : i \in DOMAIN b.stepZero} = b.agreedBetween
  <2>1. \A i \in 1..2 : b.stepZero[i].group = Groups[i]
    BY <1>1, <1>2
  <2>2. DOMAIN Groups = 1..2
    BY DEF Groups
  <2>3. QED
    BY <1>1, <1>3, <2>1, <2>2 DEF ToSet
<1>7. StepZeroFailures(b) = (<<>> \o <<>>) \o <<>>
  BY <1>3, <1>5, <1>6, Zenon DEF StepZeroFailures, parts
<1>8. QED
  BY <1>7 DEF b

LEMMA JournalPasses ==
  ASSUME EvidenceInv
  PROVE  VerifyJournal(Honest.journal) /\ JournalMatchesSteps(Honest)
<1>1. /\ Len(journal) \in Nat /\ DOMAIN journal = 1..Len(journal)
      /\ DOMAIN RevealedEvidence = 1..Len(journal) /\ Len(RevealedEvidence) = Len(journal)
      /\ \A k \in 1..Len(journal) :
           /\ RevealedEvidence[k].body = BodyAt(k)
           /\ RevealedEvidence[k].commitment = Commitment(BodyAt(k), NonceAt(k))
  BY EvidenceIsTold
<1>2. Honest.journal = journal /\ Honest.steps = RevealedEvidence
  BY HonestParts, JournalIsRebuilt
<1>3. \A k \in 1..Len(journal) :
        /\ journal[k].index = k
        /\ journal[k].payload = LiveReveal(BodyAt(k), NonceAt(k))
        /\ journal[k].previous = IF k = 1 THEN Genesis ELSE journal[k - 1].entry
        /\ journal[k].entry = <<k, journal[k].payload,
                                IF k = 1 THEN Genesis ELSE journal[k - 1].entry>>
  <2> SUFFICES ASSUME NEW k \in 1..Len(journal)
               PROVE  /\ journal[k].index = k
                      /\ journal[k].payload = LiveReveal(BodyAt(k), NonceAt(k))
                      /\ journal[k].previous = IF k = 1 THEN Genesis ELSE journal[k - 1].entry
                      /\ journal[k].entry = <<k, journal[k].payload,
                                              IF k = 1 THEN Genesis ELSE journal[k - 1].entry>>
    OBVIOUS
  <2>1. journal[k] = Entry(k, LiveReveal(BodyAt(k), NonceAt(k)),
                           IF k = 1 THEN Genesis ELSE journal[k - 1].entry)
    BY DEF EvidenceInv, JournalInv
  <2>2. QED
    BY <2>1 DEF Entry
<1>4. VerifyJournal(journal)
  BY <1>1, <1>3, Zenon DEF VerifyJournal
<1>5. \A k \in 1..Len(journal) : journal[k].payload =
        [body |-> RevealedEvidence[k].body, commitment |-> RevealedEvidence[k].commitment]
  BY <1>1, <1>3 DEF LiveReveal
<1>6. QED
  BY <1>1, <1>2, <1>4, <1>5 DEF JournalMatchesSteps

LEMMA ManifestPasses ==
  ASSUME EvidenceInv
  PROVE  ManifestMatches(Honest)
<1> DEFINE n == Len(journal)
           s == RevealedEvidence
           entry(k) == <<BodyAt(k).step, BodyAt(k).actor, Commitment(BodyAt(k), NonceAt(k)), NonceAt(k)>>
           entries == [k \in 1..n |-> entry(k)]
           told == {entry(k) : k \in 1..n}
<1>1. /\ n \in Nat /\ DOMAIN s = 1..n /\ Len(s) = n
      /\ \A k \in 1..n : /\ s[k].body = BodyAt(k) /\ s[k].nonce = NonceAt(k)
                         /\ s[k].commitment = Commitment(BodyAt(k), NonceAt(k))
  BY EvidenceIsTold
<1>2. \A j, k \in 1..n : entry(j) = entry(k) => j = k
  <2> SUFFICES ASSUME NEW j \in 1..n, NEW k \in 1..n, entry(j) = entry(k) PROVE j = k
    OBVIOUS
  <2>1. SealAt(j) = SealAt(k)
    BY DEF SealAt
  <2>2. QED
    BY <2>1 DEF EvidenceInv, RevealsInv
<1>3. [game |-> Game, entries |-> entries, sha |-> entries] = Honest.manifest
      /\ Honest.game = Game /\ Honest.steps = s
  <2>1. \A k \in DOMAIN s : <<s[k].body.step, s[k].body.actor, s[k].commitment, s[k].nonce>> = entry(k)
    BY <1>1
  <2>2. ManifestOf(s) = [game |-> Game, entries |-> entries, sha |-> entries]
    BY <1>1, <2>1, Zenon DEF ManifestOf
  <2>3. QED
    BY <2>2, HonestParts
<1>4. Revealed(Honest) = told
  BY <1>1, <1>3 DEF Revealed
<1> HIDE DEF s, entry
<1>5. entries \in Seq(told) /\ Len(entries) = n /\ DOMAIN entries = 1..n
  BY <1>1
<1>6. ToSet(entries) = told
  BY <1>5 DEF ToSet
<1>7. Cardinality(told) = n
  <2>1. ExistsBijection(1..n, told)
    <3>1. entries \in Bijection(1..n, told)
      BY <1>2 DEF Bijection, Injection, IsInjective, Surjection
    <3>2. QED
      BY <3>1 DEF ExistsBijection
  <2>2. QED
    BY <1>1, <2>1, FS_CountingElements
<1> HIDE DEF entries, told
<1>8. /\ Honest.manifest.game = Game /\ Honest.manifest.entries = entries
      /\ Honest.manifest.sha = entries
  BY <1>3
<1>9. QED
  BY <1>1, <1>3, <1>4, <1>5, <1>6, <1>7, <1>8 DEF ManifestMatches, Manifested, s

LEMMA PreflightPasses ==
  ASSUME EvidenceInv
  PROVE  PreflightFindings(Honest) = <<>>
<1>1. /\ Honest.config = Honest.configSha /\ Honest.scentModel = Honest.scentModelSha
      /\ Honest.schedule = Honest.expectedSchedule
  BY HonestParts
<1>2. PreflightFindings(Honest) = ((((<<>> \o <<>>) \o <<>>) \o <<>>) \o <<>>) \o <<>>
  BY <1>1, StepZeroPasses, JournalPasses, ManifestPasses, Zenon DEF PreflightFindings
<1>3. QED
  BY <1>2

-----------------------------------------------------------------------------
(* The audit of the honest evidence: its replay, step by step. *)

\* What the replay has when it has come to a step of a game that goes on.
Cut(h, k) ==
  LET limit == StepTerminal(h[k].states["police"].step)
  IN  [verified |-> k, terminal |-> limit,
       finding |-> IF limit # None THEN "POST_TERMINAL" ELSE None,
       raised |-> FALSE, states |-> h[k].states,
       counts |-> [r \in Roles |-> h[k].states[r].step],
       fields |-> h[k].fields, nonces |-> {NonceAt(j) : j \in 1..k}]

LEMMA CutAtStart ==
  ASSUME NEW h, h[0] = AtStart
  PROVE  Cut(h, 0) = ReplayStart
<1>1. /\ h[0].states = [r \in Roles |-> InitialState(r, Start[r])]
      /\ h[0].fields = [r \in Roles |-> NoScent]
  BY DEF AtStart
<1>2. \A r \in Roles : h[0].states[r].step = 0
  BY <1>1 DEF InitialState
<1>3. StepTerminal(h[0].states["police"].step) = None
  BY <1>2, RulesAssumption, Sides DEF StepTerminal
<1>4. {NonceAt(j) : j \in 1..0} = {}
  OBVIOUS
<1>5. [r \in Roles |-> h[0].states[r].step] = [r \in Roles |-> 0]
  BY <1>2
<1>6. QED
  BY <1>1, <1>3, <1>4, <1>5, Zenon DEF Cut, ReplayStart

LEMMA GoingOnResolves ==
  ASSUME NEW states, GoesOn(states), NEW placed, placed \subseteq states["police"].barriers
  PROVE  ResolvedTerminal(states, placed) = StepTerminal(states["police"].step)
<1>1. /\ states["police"].step \in Nat /\ states["thief"].step \in Nat
      /\ states["police"].step \in {states["thief"].step, states["thief"].step + 1}
  BY Sides DEF GoesOn, LocalStates
<1>2. (IF states["police"].step > states["thief"].step
         THEN states["police"].step ELSE states["thief"].step) = states["police"].step
  BY <1>1
<1>3. /\ states["thief"].position \notin placed
      /\ states["police"].position # states["thief"].position
      /\ ~EnclosureCapture(states["thief"].position, states["police"].barriers)
  BY DEF GoesOn
<1>4. ResolvedTerminal(states, placed)
        = ResolveTerminal(states["police"].position, states["thief"].position,
                          states["police"].barriers, states["police"].step, placed, {})
  BY <1>2, Zenon DEF ResolvedTerminal
<1>5. QED
  BY <1>3, <1>4 DEF ResolveTerminal, StepTerminal

LEMMA OnwardStates ==
  ASSUME NEW w, NEW body, GoesOn(w.states), Plays(w, body)
  PROVE  LET s == Shared(w.states, Moved(w, body), PublicEvents(body.action))
         IN  /\ s[body.actor] = Moved(w, body)
             /\ s[Opponent(body.actor)]
                  = [w.states[Opponent(body.actor)] EXCEPT !.barriers = Moved(w, body).barriers]
             /\ \A r \in Roles : /\ w.states[r].step \in Nat
                                 /\ s[r].step = IF r = body.actor THEN w.states[r].step + 1
                                                ELSE w.states[r].step
                                 /\ s[r].barriers = Moved(w, body).barriers
             /\ s[Opponent(body.actor)].position = w.states[Opponent(body.actor)].position
             /\ PublicEvents(body.action) \subseteq s["police"].barriers
<1> DEFINE m == Moved(w, body)
           a == body.actor
           o == Opponent(a)
           s == Shared(w.states, m, PublicEvents(body.action))
           next == [w.states EXCEPT ![a] = m]
           other == [w.states[o] EXCEPT !.barriers = m.barriers]
<1>1. /\ a \in Roles /\ o \in Roles /\ o # a /\ m \in LocalStates
      /\ m.step = w.states[a].step + 1
      /\ m.barriers = w.states[a].barriers \cup PublicEvents(body.action)
  BY MoverMoves
<1>2. s = [next EXCEPT ![o].barriers = m.barriers]
  BY SharedIsCopied
<1>3. w.states \in [Roles -> LocalStates]
  BY DEF GoesOn
<1>4. Roles = {a, o}
  BY <1>1, Sides
<1> HIDE DEF m, a, o, s
<1>5. next \in [Roles -> LocalStates] /\ next[o] = w.states[o] /\ next[a] = m
  BY <1>1, <1>3
<1>6. /\ other.step = w.states[o].step /\ other.position = w.states[o].position
      /\ other.barriers = m.barriers
  BY <1>1, <1>3 DEF LocalStates
<1>7. s[a] = m /\ s[o] = other
  BY <1>1, <1>2, <1>5
<1> HIDE DEF next
<1>8. \A r \in Roles : /\ w.states[r].step \in Nat
                       /\ s[r].step = IF r = a THEN w.states[r].step + 1 ELSE w.states[r].step
                       /\ s[r].barriers = m.barriers
  <2>1. \A r \in Roles : w.states[r].step \in Nat
    BY <1>3 DEF LocalStates
  <2> HIDE DEF other
  <2>2. QED
    BY <1>1, <1>4, <1>6, <1>7, <2>1
<1>9. PublicEvents(body.action) \subseteq s["police"].barriers
  BY <1>1, <1>8, Sides
<1> HIDE DEF other
<1>10. s[o].position = w.states[o].position
  BY <1>6, <1>7
<1>11. QED
  BY <1>7, <1>8, <1>9, <1>10 DEF m, a, o, s, other

LEMMA PlayedBody ==
  ASSUME NEW w, NEW body, GoesOn(w.states), Plays(w, body)
  PROVE  /\ body.game = Game /\ body.pre = w.states[body.actor]
         /\ body.step = w.states[body.actor].step + 1
         /\ body.effects = PublicEvents(body.action)
         /\ body.frame = Frame(AfterAction(w.fields[body.actor], Moved(w, body), body.action),
                               Moved(w, body))
         /\ body.binding = Binding(ConfigDigest, ScentModelDigest)
         /\ body.action \in LegalActions(w.states[body.actor])
<1> DEFINE m == Moved(w, body)
           frame == Frame(AfterAction(w.fields[body.actor], m, body.action), m)
<1>1. m.step = w.states[body.actor].step + 1
  BY MoverMoves
<1>2. body = Body(Game, w.states[body.actor], body.action, frame)
  BY Zenon DEF Plays, BodyFor, Moved
<1>3. frame.step = m.step
  BY DEF Frame
<1> HIDE DEF frame, m
<1>4. /\ body.game = Game /\ body.pre = w.states[body.actor] /\ body.step = frame.step
      /\ body.effects = PublicEvents(body.action) /\ body.frame = frame
      /\ body.binding = Binding(ConfigDigest, ScentModelDigest)
  BY <1>2 DEF Body
<1>5. body.action \in LegalActions(w.states[body.actor])
  BY DEF Plays
<1>6. QED
  BY <1>1, <1>3, <1>4, <1>5 DEF frame, m

LEMMA NoncesDiffer ==
  ASSUME EvidenceInv, NEW k \in 1..Len(journal)
  PROVE  NonceAt(k) # Malformed /\ NonceAt(k) \notin {NonceAt(j) : j \in 1..k - 1}
<1>1. /\ SealAt(k) \in DOMAIN steps /\ steps[SealAt(k)].nonce = NonceAt(k)
  BY DEF EvidenceInv, RevealsInv
<1>2. NonceAt(k) # Malformed
  BY <1>1, NoncesAssumption DEF EvidenceInv, RevealsInv
<1>3. ASSUME NEW j \in 1..k - 1 PROVE NonceAt(j) # NonceAt(k)
  <2>1. Len(journal) \in Nat
    BY EvidenceIsTold
  <2>2. j \in 1..Len(journal) /\ j # k
    BY <2>1
  <2>3. SealAt(j) \in DOMAIN steps /\ steps[SealAt(j)].nonce = NonceAt(j)
    BY <2>2 DEF EvidenceInv, RevealsInv
  <2>4. SealAt(j) # SealAt(k)
    BY <2>2 DEF EvidenceInv, RevealsInv
  <2>5. QED
    BY <1>1, <2>3, <2>4 DEF EvidenceInv, SealsInv, Store!NoncesMatchSteps, Store!Sealed
<1>4. QED
  BY <1>2, <1>3

\* No check of a step that was played fails.
LEMMA ReplayPlays ==
  ASSUME EvidenceInv, NEW k \in 1..Len(journal), NEW acc, NEW w, GoesOn(w.states),
         Plays(w, BodyAt(k)),
         acc.raised = FALSE, acc.finding = None, acc.states = w.states, acc.fields = w.fields,
         acc.counts[BodyAt(k).actor] = w.states[BodyAt(k).actor].step,
         acc.nonces = {NonceAt(j) : j \in 1..k - 1}
  PROVE  ReplayStep(Honest, acc, k)
           = Advance(acc, RevealedEvidence[k], Moved(w, BodyAt(k)),
                     AfterAction(w.fields[BodyAt(k).actor], Moved(w, BodyAt(k)), BodyAt(k).action),
                     PublicEvents(BodyAt(k).action), k # Len(journal))
<1> DEFINE body == BodyAt(k)
           e == RevealedEvidence[k]
           m == Moved(w, body)
           field == AfterAction(w.fields[body.actor], m, body.action)
<1>1. /\ e.sequence = k /\ e.body = body /\ e.nonce = NonceAt(k)
      /\ e.commitment = Commitment(body, NonceAt(k))
      /\ Len(RevealedEvidence) = Len(journal)
  BY EvidenceIsTold
<1>2. /\ Honest.game = Game /\ Honest.steps = RevealedEvidence
      /\ Honest.configSha = ConfigDigest /\ Honest.scentModelSha = ScentModelDigest
  BY HonestParts
<1>3. /\ body.game = Game /\ body.pre = w.states[body.actor]
      /\ body.step = w.states[body.actor].step + 1
      /\ body.effects = PublicEvents(body.action) /\ body.frame = Frame(field, m)
      /\ body.binding = Binding(ConfigDigest, ScentModelDigest)
      /\ body.action \in LegalActions(w.states[body.actor])
  BY PlayedBody
<1>4. NonceAt(k) # Malformed /\ NonceAt(k) \notin acc.nonces
  BY NoncesDiffer
<1> HIDE DEF body, e
<1>5. SealFailure(Honest, acc, k) = None
  BY <1>1, <1>2, <1>3, <1>4, Zenon DEF SealFailure, e, body
<1>6. Transition(acc.states[body.actor], body.action) = m /\ acc.fields = w.fields
  BY DEF Moved
<1> HIDE DEF m, field
<1>7. ReplayAction(Honest, acc, k)
        = Advance(acc, e, m, field, PublicEvents(body.action), k # Len(journal))
  <2>1. /\ Honest.steps[k] = e /\ Honest.steps[k].body = body
        /\ Len(Honest.steps) = Len(journal)
    BY <1>1, <1>2 DEF e
  <2>2. AfterAction(acc.fields[body.actor], m, body.action) = field
    BY <1>6 DEF field
  <2>3. QED
    BY <1>3, <1>6, <2>1, <2>2, Zenon DEF ReplayAction
<1>8. QED
  BY <1>5, <1>7, Zenon DEF ReplayStep, body, e, m, field

LEMMA CutFields ==
  ASSUME NEW h, NEW k
  PROVE  /\ Cut(h, k).verified = k
         /\ Cut(h, k).terminal = StepTerminal(h[k].states["police"].step)
         /\ StepTerminal(h[k].states["police"].step) = None => Cut(h, k).finding = None
         /\ StepTerminal(h[k].states["police"].step) # None =>
              Cut(h, k).finding = "POST_TERMINAL"
         /\ Cut(h, k).raised = FALSE /\ Cut(h, k).states = h[k].states
         /\ Cut(h, k).counts = [r \in Roles |-> h[k].states[r].step]
         /\ Cut(h, k).fields = h[k].fields
         /\ Cut(h, k).nonces = {NonceAt(j) : j \in 1..k}
  BY DEF Cut

LEMMA CutGoesOn ==
  ASSUME NEW h, NEW k, StepTerminal(h[k].states["police"].step) = None
  PROVE  Cut(h, k).finding = None
<1>1. QED
  BY Zenon DEF Cut

LEMMA ReplayGoesOn ==
  ASSUME EvidenceInv, NEW n \in Nat, n < Len(journal), NEW h, Course(h, n, Told),
         NEW k \in 1..n, Cut(h, k - 1).finding = None
  PROVE  ReplayStep(Honest, Cut(h, k - 1), k) = Cut(h, k)
<1> DEFINE w == h[k - 1]
           acc == Cut(h, k - 1)
           body == BodyAt(k)
           m == Moved(w, body)
           field == AfterAction(w.fields[body.actor], m, body.action)
           events == PublicEvents(body.action)
           states == h[k].states
           counts == [r \in Roles |-> states[r].step]
           e == RevealedEvidence[k]
<1>1. /\ Len(journal) \in Nat /\ k \in 1..Len(journal) /\ k # Len(journal)
      /\ k - 1 \in 0..n /\ k \in 0..n
  <2>1. Len(journal) \in Nat
    BY EvidenceIsTold
  <2>2. QED
    BY <2>1
<1>2. GoesOn(w.states) /\ GoesOn(h[k].states) /\ Plays(w, body) /\ h[k] = Onward(w, body)
  <2>1. Told[k] = body
    BY <1>1 DEF Told
  <2>2. GoesOn(h[k - 1].states) /\ GoesOn(h[k].states)
        /\ Plays(h[k - 1], Told[k]) /\ h[k] = Onward(h[k - 1], Told[k])
    BY <1>1 DEF Course
  <2>3. QED
    BY <2>1, <2>2
<1> HIDE DEF body
<1>3. /\ body.actor \in Roles /\ Opponent(body.actor) \in Roles /\ m.role = body.actor
  BY <1>2, MoverMoves
<1>4. /\ states = Shared(w.states, m, events)
      /\ h[k].fields = ShownFields([w.fields EXCEPT ![body.actor] = field], counts)
  <2>1. h[k].states = Shared(w.states, m, events)
    BY <1>2 DEF Onward
  <2>2. h[k].fields = ShownFields([w.fields EXCEPT ![body.actor] = field],
          [r \in Roles |-> Shared(w.states, m, events)[r].step])
    BY <1>2 DEF Onward
  <2>3. QED
    BY <2>1, <2>2, Zenon
<1>5. /\ \A r \in Roles : /\ w.states[r].step \in Nat
                          /\ states[r].step = IF r = body.actor THEN w.states[r].step + 1
                                              ELSE w.states[r].step
                          /\ states[r].barriers = m.barriers
      /\ events \subseteq states["police"].barriers
  <2> DEFINE s == Shared(w.states, m, events)
  <2>1. /\ \A r \in Roles : /\ w.states[r].step \in Nat
                            /\ s[r].step = IF r = body.actor THEN w.states[r].step + 1
                                          ELSE w.states[r].step
                            /\ s[r].barriers = m.barriers
        /\ events \subseteq s["police"].barriers
    BY <1>2, OnwardStates, Zenon
  <2> HIDE DEF s
  <2>2. states = s
    BY <1>4, Zenon DEF s
  <2> HIDE DEF states
  <2>3. QED
    BY <2>1, <2>2
<1>6. /\ acc.verified = k - 1 /\ acc.raised = FALSE /\ acc.finding = None
      /\ acc.states = w.states /\ acc.fields = w.fields
      /\ acc.counts = [r \in Roles |-> w.states[r].step]
      /\ acc.nonces = {NonceAt(j) : j \in 1..k - 1}
  <2>1. acc.finding = None
    OBVIOUS
  <2>2. PICK i : i = k - 1
    OBVIOUS
  <2>3. /\ Cut(h, i).verified = i /\ Cut(h, i).raised = FALSE
        /\ Cut(h, i).states = h[i].states /\ Cut(h, i).fields = h[i].fields
        /\ Cut(h, i).counts = [r \in Roles |-> h[i].states[r].step]
    BY Zenon DEF Cut
  <2>4. acc.nonces = {NonceAt(j) : j \in 1..k - 1}
    BY CutFields, Zenon
  <2> HIDE DEF acc, w
  <2>5. acc = Cut(h, i) /\ w = h[i]
    BY <2>2 DEF acc, w
  <2>6. QED
    BY <2>1, <2>2, <2>3, <2>4, <2>5
<1> HIDE DEF acc, w
<1>7. acc.counts[body.actor] = w.states[body.actor].step
  BY <1>3, <1>6
<1>8. ReplayStep(Honest, acc, k) = Advance(acc, e, m, field, events, k # Len(journal))
  BY <1>1, <1>2, <1>6, <1>7, ReplayPlays DEF body
<1>9. ValidState(states[Opponent(m.role)])
  BY <1>2, <1>3 DEF GoesOn
<1>10. ResolvedTerminal(states, events) = StepTerminal(states["police"].step)
  BY <1>2, <1>5, GoingOnResolves, Zenon
<1>11. e.body = body /\ e.nonce = NonceAt(k)
  <2>1. e = [sequence |-> k, body |-> BodyAt(k),
             commitment |-> Commitment(BodyAt(k), NonceAt(k)), nonce |-> NonceAt(k)]
    BY <1>1, EvidenceIsTold, Zenon
  <2>2. QED
    BY <2>1 DEF body
<1> HIDE DEF m, field, events, e, states
<1>12. ReplayStep(Honest, acc, k)
         = Continued(acc, e, states, field, StepTerminal(states["police"].step), TRUE)
  <2>1. Shared(acc.states, m, events) = states /\ (k # Len(journal)) = TRUE
    BY <1>1, <1>4, <1>6
  <2>2. Advance(acc, e, m, field, events, TRUE)
          = IF ~ValidState(states[Opponent(m.role)]) THEN [acc EXCEPT !.raised = TRUE]
            ELSE Continued(acc, e, states, field, ResolvedTerminal(states, events), TRUE)
    BY <2>1, Zenon DEF Advance
  <2>3. QED
    BY <1>8, <1>9, <1>10, <2>1, <2>2, Zenon
<1>13. [acc.counts EXCEPT ![body.actor] = @ + 1] = counts
  <2>1. \A r \in Roles : [acc.counts EXCEPT ![body.actor] = @ + 1][r] = states[r].step
    BY <1>3, <1>5, <1>6
  <2>2. [acc.counts EXCEPT ![body.actor] = @ + 1]
          = [r \in Roles |-> [acc.counts EXCEPT ![body.actor] = @ + 1][r]]
    BY <1>6
  <2>3. QED
    BY <2>1, <2>2
<1> HIDE DEF counts
<1>14. acc.nonces \cup {NonceAt(k)} = {NonceAt(j) : j \in 1..k}
  <2>1. \A j : j \in 1..k <=> j \in 1..k - 1 \/ j = k
    BY <1>1
  <2>2. QED
    BY <1>6, <2>1
<1>15. acc.verified + 1 = k
  BY <1>1, <1>6
<1>16. Cut(h, k) = Continued(acc, e, states, field, StepTerminal(states["police"].step), TRUE)
  <2> DEFINE all == [verified |-> k, terminal |-> StepTerminal(states["police"].step),
                  finding |-> IF StepTerminal(states["police"].step) # None THEN "POST_TERMINAL" ELSE None,
                  raised |-> FALSE, states |-> states, counts |-> counts,
                  fields |-> ShownFields([acc.fields EXCEPT ![body.actor] = field], counts),
                  nonces |-> acc.nonces \cup {NonceAt(k)}]
  <2>1. Cut(h, k) = all
    BY <1>4, <1>6, <1>14, Zenon DEF Cut, counts, states
  <2>2. Continued(acc, e, states, field, StepTerminal(states["police"].step), TRUE)
          = all
    <3> DEFINE t == StepTerminal(states["police"].step)
    <3> HIDE DEF t
    <3>1. (IF t # None /\ TRUE THEN "POST_TERMINAL" ELSE None)
            = IF t # None THEN "POST_TERMINAL" ELSE None
      OBVIOUS
    <3>2. [acc.counts EXCEPT ![e.body.actor] = @ + 1] = counts
      BY <1>11, <1>13, Zenon
    <3>3. Continued(acc, e, states, field, t, TRUE)
            = [verified |-> acc.verified + 1, terminal |-> t,
               finding |-> IF t # None /\ TRUE THEN "POST_TERMINAL" ELSE None,
               raised |-> FALSE, states |-> states,
               counts |-> [acc.counts EXCEPT ![e.body.actor] = @ + 1],
               fields |-> ShownFields([acc.fields EXCEPT ![e.body.actor] = field],
                                      [acc.counts EXCEPT ![e.body.actor] = @ + 1]),
               nonces |-> acc.nonces \cup {e.nonce}]
      BY Zenon DEF Continued
    <3>4. Continued(acc, e, states, field, t, TRUE)
            = [verified |-> k, terminal |-> t,
               finding |-> IF t # None THEN "POST_TERMINAL" ELSE None,
               raised |-> FALSE, states |-> states, counts |-> counts,
               fields |-> ShownFields([acc.fields EXCEPT ![body.actor] = field], counts),
               nonces |-> acc.nonces \cup {NonceAt(k)}]
      BY <1>11, <1>15, <3>1, <3>2, <3>3, Zenon
    <3>5. t = StepTerminal(states["police"].step)
      BY DEF t
    <3>6. QED
      BY <3>4, <3>5, Zenon
  <2> HIDE DEF all
  <2>3. QED
    BY <2>1, <2>2
<1>17. QED
  BY <1>12, <1>16 DEF acc

\* The Police reaches a limit with the last step but one of a game at most.
LEMMA LimitsComeLast ==
  ASSUME NEW n \in Nat, NEW h, NEW bodies, Course(h, n, bodies), NEW k \in 0..n, k # n
  PROVE  StepTerminal(h[k].states["police"].step) = None
<1>1. k + 1 \in 1..n /\ k + 1 \in 0..n /\ k + 1 - 1 = k
  OBVIOUS
<1>2. GoesOn(h[k].states) /\ GoesOn(h[k + 1].states)
  BY <1>1 DEF Course
<1>3. Plays(h[k], bodies[k + 1]) /\ h[k + 1] = Onward(h[k], bodies[k + 1])
  BY <1>1 DEF Course
<1> DEFINE s == h[k].states
           t == h[k + 1].states
           body == bodies[k + 1]
<1>4. t = Shared(s, Moved(h[k], body), PublicEvents(body.action))
  BY <1>3 DEF Onward
<1>5. \A r \in Roles : /\ s[r].step \in Nat
                       /\ t[r].step = IF r = body.actor THEN s[r].step + 1 ELSE s[r].step
  <2> DEFINE w == h[k]
             u == Shared(w.states, Moved(w, body), PublicEvents(body.action))
  <2>1. GoesOn(w.states) /\ Plays(w, body) /\ s = w.states /\ t = u
    BY <1>2, <1>3, <1>4, Zenon
  <2> HIDE DEF w, s, t, body
  <2>2. \A r \in Roles : /\ w.states[r].step \in Nat
                         /\ u[r].step = IF r = body.actor THEN w.states[r].step + 1
                                       ELSE w.states[r].step
                         /\ u[r].barriers = Moved(w, body).barriers
    BY <2>1, OnwardStates, Zenon
  <2> HIDE DEF u
  <2>3. QED
    BY <2>1, <2>2
<1>6. /\ StepTerminal(s["thief"].step) = None /\ StepTerminal(t["thief"].step) = None
      /\ s["police"].step \in {s["thief"].step, s["thief"].step + 1}
      /\ body.actor = MoverOf(s)
  BY <1>2, <1>3 DEF GoesOn, Plays
<1> HIDE DEF s, t, body
<1>7. CASE s["police"].step = s["thief"].step
  BY <1>6, <1>7 DEF s
<1>8. CASE s["police"].step # s["thief"].step
  <2>1. body.actor = "thief" /\ s["police"].step = s["thief"].step + 1
    BY <1>6, <1>8 DEF MoverOf
  <2>2. t["thief"].step = s["police"].step
    BY <1>5, <2>1, Sides
  <2>3. QED
    BY <1>6, <2>2 DEF s
<1>9. QED
  BY <1>7, <1>8

LEMMA HonestReplay ==
  ASSUME EvidenceInv, Len(journal) # 0, NEW h, Course(h, Len(journal) - 1, Told)
  PROVE  Replay(Honest) = ReplayStep(Honest, Cut(h, Len(journal) - 1), Len(journal))
<1>1. /\ Len(journal) \in Nat /\ Honest.steps = RevealedEvidence
      /\ Len(Honest.steps) = Len(journal)
  BY EvidenceIsTold, HonestParts
<1>2. PICK n \in Nat : n = Len(journal) - 1
  BY <1>1
<1> DEFINE b == Honest
           last == ReplayStep(b, Cut(h, n), n + 1)
           g == [k \in 0..n + 1 |-> IF k = n + 1 THEN last ELSE Cut(h, k)]
<1>3. Len(b.steps) = n + 1
  BY <1>1, <1>2
<1>4. Course(h, n, Told)
  BY <1>2
<1> HIDE DEF b, last
<1>5. g[n + 1] = last /\ \A k \in 0..n : g[k] = Cut(h, k)
  BY <1>2
<1>6. \A k \in 0..n + 1 : g[k] = IF k = 0 THEN ReplayStart ELSE ReplayStep(b, g[k - 1], k)
  <2> SUFFICES ASSUME NEW k \in 0..n + 1
               PROVE  g[k] = IF k = 0 THEN ReplayStart ELSE ReplayStep(b, g[k - 1], k)
    OBVIOUS
  <2> HIDE DEF g
  <2>1. CASE k = 0
    <3>1. g[0] = Cut(h, 0) /\ h[0] = AtStart
      BY <1>4, <1>5 DEF Course
    <3>2. QED
      BY <2>1, <3>1, CutAtStart
  <2>2. CASE k \in 1..n
    <3>1. g[k] = Cut(h, k) /\ g[k - 1] = Cut(h, k - 1) /\ k # 0
      BY <1>5, <2>2
    <3>2. k - 1 \in 0..n /\ k - 1 # n
      BY <2>2
    <3>3. StepTerminal(h[k - 1].states["police"].step) = None
      BY <1>4, <3>2, LimitsComeLast
    <3>4. Cut(h, k - 1).finding = None
      BY <3>3, CutGoesOn, Zenon
    <3>5. n < Len(journal)
      BY <1>1, <1>2
    <3>6. ReplayStep(b, Cut(h, k - 1), k) = Cut(h, k)
      BY <1>4, <2>2, <3>4, <3>5, ReplayGoesOn DEF b
    <3>7. QED
      BY <3>1, <3>6
  <2>3. CASE k = n + 1
    <3>1. g[k] = last /\ g[k - 1] = Cut(h, n) /\ k # 0
      BY <1>5, <2>3
    <3>2. QED
      BY <2>3, <3>1 DEF last
  <2>4. QED
    BY <2>1, <2>2, <2>3
<1>7. g = [k \in 0..Len(b.steps) |-> IF k = 0 THEN ReplayStart ELSE ReplayStep(b, g[k - 1], k)]
  <2>1. g = [k \in 0..n + 1 |-> g[k]]
    OBVIOUS
  <2> HIDE DEF g
  <2>2. QED
    BY <1>3, <1>6, <2>1, Zenon
<1> HIDE DEF g
<1>8. ReplayCourse(b, g)
  BY <1>7, Zenon DEF ReplayCourse
<1>9. Replay(b) = g[n + 1]
  BY <1>3, <1>8, ReplayIs
<1>10. QED
  BY <1>1, <1>2, <1>5, <1>9 DEF b, last

\* The last step: what the replay resolves is what the referee said, with three exceptions.
LEMMA LastStep ==
  ASSUME NEW w, NEW body, NEW last, NEW reason, GoesOn(w.states), Ends(w, body, last, reason)
  PROVE  LET limit  == StepTerminal(w.states["police"].step)
             events == PublicEvents(body.action)
             states == Shared(w.states, Moved(w, body), events)
             valid  == ValidState(states[Opponent(body.actor)])
         IN  /\ reason \in CaptureReasons \cup SurvivalReasons
             /\ limit # None <=> StepTerminal(last["thief"].step) # None
             /\ limit # None => reason # "barrier_capture"
             /\ limit = None /\ reason = "barrier_capture" => ~valid
             /\ limit = None /\ reason # "barrier_capture" =>
                  valid /\ ResolvedTerminal(states, events) = reason
<1> DEFINE p == w.states["police"]
           t == w.states["thief"]
           m == Moved(w, body)
           events == PublicEvents(body.action)
           states == Shared(w.states, m, events)
           next == [w.states EXCEPT ![body.actor] = m]
<1>1. /\ Plays(w, body) /\ last = next /\ reason # None
      /\ reason = ResolveTerminal(next["police"].position, next["thief"].position, m.barriers,
                                  next["thief"].step, events, {})
  BY Zenon DEF Ends
<1>2. /\ p \in LocalStates /\ t \in LocalStates /\ w.states \in [Roles -> LocalStates]
      /\ ValidState(p) /\ ValidState(t) /\ t.role = "thief"
      /\ p.barriers = t.barriers /\ t.position \notin p.barriers
      /\ StepTerminal(t.step) = None /\ p.step \in {t.step, t.step + 1}
  BY Sides DEF GoesOn
<1>3. p.step \in Nat /\ t.step \in Nat
  BY <1>2 DEF LocalStates
<1>4. body.actor = IF p.step = t.step THEN "police" ELSE "thief"
  BY <1>1 DEF Plays, MoverOf
<1>5. /\ m \in LocalStates /\ ValidState(m) /\ m.step = w.states[body.actor].step + 1
      /\ m.barriers = w.states[body.actor].barriers \cup events
      /\ body.actor = "thief" => events = {}
  BY <1>1, MoverMoves
<1>6. /\ states[body.actor] = m
      /\ states[Opponent(body.actor)]
           = [w.states[Opponent(body.actor)] EXCEPT !.barriers = m.barriers]
  <2> DEFINE s == Shared(w.states, m, events)
  <2>1. /\ s[body.actor] = m
        /\ s[Opponent(body.actor)]
             = [w.states[Opponent(body.actor)] EXCEPT !.barriers = m.barriers]
    BY <1>1, OnwardStates, Zenon
  <2>2. QED
    BY <2>1, Zenon
<1> HIDE DEF m, events, states
<1>7. reason \in CaptureReasons \cup SurvivalReasons
  BY <1>1, ResolvedType, Zenon DEF CaptureReasons, SurvivalReasons
<1>8. CASE p.step = t.step
  <2>1. body.actor = "police" /\ Opponent(body.actor) = "thief"
    BY <1>4, <1>8, Sides
  <2>2. next["police"] = m /\ next["thief"] = t /\ last["thief"] = t
    BY <1>1, <1>2, <2>1, Sides
  <2>3. m.barriers = p.barriers \cup events
    BY <1>5, <2>1
  <2>4. StepTerminal(p.step) = None /\ StepTerminal(last["thief"].step) = None
    BY <1>2, <1>8, <2>2
  <2> HIDE DEF next, p, t
  <2>5. states["police"] = m /\ states["thief"] = [t EXCEPT !.barriers = m.barriers]
    BY <1>6, <2>1 DEF t
  <2>6. /\ states["thief"].barriers = m.barriers /\ states["thief"].position = t.position
        /\ states["thief"].role = "thief" /\ states["thief"].placed = t.placed
        /\ states["thief"].visited = t.visited
    BY <1>2, <2>5 DEF LocalStates
  <2>7. reason = ResolveTerminal(m.position, t.position, m.barriers, t.step, events, {})
    BY <1>1, <2>2
  <2>8. ~(t.step >= SurvivalThreshold) /\ ~(t.step >= MaxSteps)
    BY <1>2 DEF StepTerminal, None
  <2>9. CASE t.position \in events
    <3>1. reason = "barrier_capture"
      BY <2>7, <2>9 DEF ResolveTerminal
    <3>2. ~ValidState(states["thief"])
      BY <2>3, <2>6, <2>9 DEF ValidState
    <3>3. QED
      BY <1>7, <2>1, <2>4, <3>1, <3>2, Zenon DEF p, m, events, states
  <2>10. CASE t.position \notin events
    <3>1. ValidState(states["thief"])
      BY <1>2, <1>5, <2>3, <2>6, <2>10 DEF ValidState
    <3>2. \/ m.position = t.position
          \/ EnclosureCapture(t.position, m.barriers)
      BY <1>1, <2>7, <2>8, <2>10 DEF ResolveTerminal
    <3>3. reason # "barrier_capture"
      BY <2>7, <2>10, <3>2 DEF ResolveTerminal
    <3>4. PICK ahead : ResolvedTerminal(states, events)
                         = ResolveTerminal(m.position, t.position, m.barriers, ahead, events, {})
      BY <2>5, <2>6, Zenon DEF ResolvedTerminal
    <3>5. ResolvedTerminal(states, events) = reason
      BY <2>7, <2>10, <3>2, <3>4 DEF ResolveTerminal
    <3>6. QED
      BY <1>7, <2>1, <2>4, <3>1, <3>3, <3>5, Zenon DEF p, m, events, states
  <2>11. QED
    BY <2>9, <2>10
<1>9. CASE p.step # t.step
  <2>1. body.actor = "thief" /\ Opponent(body.actor) = "police" /\ events = {}
    BY <1>4, <1>5, <1>9, Sides
  <2>2. next["police"] = p /\ next["thief"] = m /\ last["thief"] = m
    BY <1>1, <1>2, <2>1, Sides
  <2>3. m.barriers = p.barriers /\ m.step = p.step
    BY <1>2, <1>3, <1>5, <1>9, <2>1
  <2> HIDE DEF next, p, t
  <2>4. reason = ResolveTerminal(p.position, m.position, m.barriers, m.step, {}, {})
    BY <1>1, <2>1, <2>2
  <2>5. reason # "barrier_capture"
    BY <2>4 DEF ResolveTerminal, None
  <2>6. states["thief"] = m /\ states["police"] = [p EXCEPT !.barriers = m.barriers]
    BY <1>6, <2>1 DEF p
  <2>7. states["police"] = p
    BY <1>2, <2>3, <2>6 DEF LocalStates
  <2>8. (IF states["police"].step > states["thief"].step
           THEN states["police"].step ELSE states["thief"].step) = m.step
    BY <2>3, <2>6, <2>7
  <2>9. ResolvedTerminal(states, events)
          = ResolveTerminal(p.position, m.position, p.barriers, m.step, {}, {})
    BY <2>1, <2>6, <2>7, <2>8, Zenon DEF ResolvedTerminal
  <2>10. ResolvedTerminal(states, events) = reason
    BY <2>3, <2>4, <2>9
  <2>11. StepTerminal(p.step) # None <=> StepTerminal(last["thief"].step) # None
    BY <2>2, <2>3
  <2>12. ValidState(states[Opponent(body.actor)])
    BY <1>2, <2>1, <2>7
  <2>13. QED
    BY <1>7, <2>5, <2>10, <2>11, <2>12, Zenon DEF p, m, events, states
<1>10. QED
  BY <1>8, <1>9

\* The verdict of an audit whose preflight finds nothing.
ReportsOn(report, r, result) ==
  /\ r.raised = TRUE => report.status = Raised
  /\ r.raised = FALSE /\ r.finding # None =>
       report.status = Tampered /\ report.findings = <<r.finding>>
  /\ r.raised = FALSE /\ r.finding = None /\ result = <<>> =>
       /\ report.status = VerifiedOK /\ report.terminal = r.terminal
       /\ report.points = ScoreTerminal(r.terminal)
       /\ report.verified = r.verified

LEMMA VerdictAfterReplay ==
  ASSUME NEW b, NEW r, NEW result
  PROVE  ReportsOn(Verdict(b, <<>>, r, result), r, result)
<1> DEFINE report == Verdict(b, <<>>, r, result)
<1>1. CASE r.raised = TRUE
  <2>1. report = Report(b, Raised, r, None, NoPoints, <<>>)
    BY <1>1, Zenon DEF Verdict
  <2>2. QED
    BY <1>1, <2>1 DEF Report, ReportsOn
<1>2. CASE r.raised = FALSE /\ r.finding # None
  <2>1. report = Report(b, Tampered, r, "tamper", NoPoints, <<r.finding>>)
    BY <1>2, Zenon DEF Verdict, Sanction
  <2>2. QED
    BY <1>2, <2>1 DEF Report, ReportsOn
<1>3. CASE r.raised = FALSE /\ r.finding = None /\ result = <<>>
  <2>1. report = Report(b, VerifiedOK, r, r.terminal, ScoreTerminal(r.terminal), <<>>)
    BY <1>3, Zenon DEF Verdict
  <2>2. QED
    BY <1>3, <2>1 DEF Report, ReportsOn
<1>4. QED
  BY <1>1, <1>2, <1>3, Zenon DEF ReportsOn

\* The reported result is the one of the referee.
LEMMA ResultPasses ==
  ASSUME outcome # None
  PROVE  ResultFindings(Honest, outcome) = <<>>
<1> DEFINE captured == outcome \in CaptureReasons
           x == CaptureExchange(captured, captured)
           b == Honest
<1>1. b.terminal = outcome /\ b.points = ScoreTerminal(outcome) /\ b.capture = <<x>>
  BY HonestParts
<1>2. /\ CommitmentsAreValid(x)
      /\ x.claim = captured /\ x.response = captured
  BY DEF CommitmentsAreValid, CaptureExchange
<1> HIDE DEF x, captured, b
<1> DEFINE codes(capture) ==
             (IF CommitmentsAreValid(capture) THEN <<>> ELSE <<"CAPTURE_COMMITMENT">>)
             \o (IF capture.claim = captured /\ capture.response = captured
                   THEN <<>> ELSE <<"FALSE_CAPTURE">>)
           all == [i \in DOMAIN b.capture |-> codes(b.capture[i])]
<1>3. DOMAIN b.capture = 1..1 /\ b.capture[1] = x
  BY <1>1
<1>4. codes(x) = <<>>
  <2>1. codes(x) = <<>> \o <<>>
    BY <1>2, Zenon
  <2>2. QED
    BY <2>1
<1>5. all = [i \in 1..1 |-> <<>>]
  <2> HIDE DEF codes
  <2>1. \A i \in 1..1 : b.capture[i] = x
    BY <1>3
  <2>2. \A i \in 1..1 : codes(b.capture[i]) = <<>>
    BY <1>4, <2>1, Zenon
  <2>3. QED
    BY <1>3, <2>2
<1> HIDE DEF all
<1>6. FlattenSeq(all) = <<>>
  BY <1>5, FlattenNothing
<1>7. CaptureFindings(b, outcome) = <<>>
  BY <1>6, Zenon DEF CaptureFindings, all, captured
<1>8. ResultFindings(b, outcome) = (<<>> \o <<>>) \o <<>>
  BY <1>1, <1>7, Zenon DEF ResultFindings
<1>9. QED
  BY <1>8 DEF b

LEMMA AuditOfTheEnd ==
  ASSUME EvidenceInv, outcome # None
  PROVE  Expected(Audit(Honest))
<1> DEFINE n == Len(journal)
           body == BodyAt(n)
<1>1. n \in Nat /\ n # 0
  BY EvidenceIsTold DEF EvidenceInv, CourseInv
<1>2. PICK h : Course(h, n - 1, Told) /\ Ends(h[n - 1], body, local, outcome)
  BY DEF EvidenceInv, CourseInv
<1> DEFINE w == h[n - 1]
           acc == Cut(h, n - 1)
           m == Moved(w, body)
           events == PublicEvents(body.action)
           states == Shared(w.states, m, events)
           field == AfterAction(w.fields[body.actor], m, body.action)
           limit == StepTerminal(w.states["police"].step)
           r == Replay(Honest)
           e == RevealedEvidence[n]
           result == ResultFindings(Honest, r.terminal)
           report == Verdict(Honest, <<>>, r, result)
<1>3. GoesOn(w.states) /\ Plays(w, body)
  BY <1>1, <1>2 DEF Course, Ends
<1>4. /\ limit # None <=> ThiefPlayedLastTurn
      /\ limit # None => outcome # "barrier_capture"
      /\ limit = None /\ outcome = "barrier_capture" => ~ValidState(states[Opponent(body.actor)])
      /\ limit = None /\ outcome # "barrier_capture" =>
           ValidState(states[Opponent(body.actor)]) /\ ResolvedTerminal(states, events) = outcome
  BY <1>2, <1>3, LastStep, Zenon DEF ThiefPlayedLastTurn
<1>5. Audit(Honest) = report
  BY PreflightPasses, Zenon DEF Audit
<1>6. r = ReplayStep(Honest, acc, n)
  BY <1>1, <1>2, HonestReplay
<1>7. m.role = body.actor /\ body.actor \in Roles
  BY <1>3, MoverMoves
<1>8. /\ acc.verified = n - 1 /\ acc.raised = FALSE
      /\ acc.finding = IF limit # None THEN "POST_TERMINAL" ELSE None
      /\ acc.states = w.states /\ acc.fields = w.fields
      /\ [acc EXCEPT !.raised = TRUE].raised = TRUE
  BY DEF Cut
<1>9. /\ acc.counts = [q \in Roles |-> w.states[q].step]
      /\ acc.nonces = {NonceAt(j) : j \in 1..n - 1}
  BY Zenon DEF Cut
<1> HIDE DEF acc, w, n, e, body
<1>10. ASSUME limit = None PROVE r = Advance(acc, e, m, field, events, FALSE)
  <2>1. /\ acc.finding = None /\ acc.counts[body.actor] = w.states[body.actor].step
        /\ n \in 1..Len(journal) /\ (n # Len(journal)) = FALSE
    BY <1>1, <1>7, <1>8, <1>9, <1>10 DEF n
  <2>2. ReplayStep(Honest, acc, n) = Advance(acc, e, m, field, events, n # Len(journal))
    <3> DEFINE k == n
    <3>1. /\ k \in 1..Len(journal) /\ GoesOn(w.states) /\ Plays(w, BodyAt(k))
          /\ acc.raised = FALSE /\ acc.finding = None
          /\ acc.states = w.states /\ acc.fields = w.fields
          /\ acc.counts[BodyAt(k).actor] = w.states[BodyAt(k).actor].step
          /\ acc.nonces = {NonceAt(j) : j \in 1..k - 1}
      BY <1>3, <1>8, <1>9, <2>1 DEF body
    <3> HIDE DEF k
    <3>2. ReplayStep(Honest, acc, k)
            = Advance(acc, RevealedEvidence[k], Moved(w, BodyAt(k)),
                      AfterAction(w.fields[BodyAt(k).actor], Moved(w, BodyAt(k)), BodyAt(k).action),
                      PublicEvents(BodyAt(k).action), k # Len(journal))
      BY <3>1, ReplayPlays
    <3>3. QED
      BY <3>2, Zenon DEF k, body, e
  <2>3. QED
    BY <1>6, <2>1, <2>2, Zenon
<1> HIDE DEF m, events, states, field, r, result
<1>11. ReportsOn(report, r, result)
  BY VerdictAfterReplay
<1> HIDE DEF report
<1>12. CASE limit # None
  <2>1. acc.finding = "POST_TERMINAL" /\ acc.finding # None
    BY <1>8, <1>12 DEF None
  <2>2. ReplayStep(Honest, acc, n) = acc
    BY <2>1, Zenon DEF ReplayStep
  <2>3. report.status = Tampered /\ report.findings = <<"POST_TERMINAL">>
    BY <1>6, <1>8, <1>11, <2>1, <2>2 DEF ReportsOn
  <2>4. QED
    BY <1>4, <1>5, <1>12, <2>3, Zenon DEF Expected
<1>13. CASE limit = None
  <2>1. Shared(acc.states, m, events) = states
    BY <1>8 DEF states
  <2>2. r = IF ~ValidState(states[Opponent(m.role)]) THEN [acc EXCEPT !.raised = TRUE]
            ELSE Continued(acc, e, states, field, ResolvedTerminal(states, events), FALSE)
    BY <1>10, <1>13, <2>1, Zenon DEF Advance
  <2>3. CASE outcome = "barrier_capture"
    <3>1. r = [acc EXCEPT !.raised = TRUE]
      BY <1>4, <1>7, <1>13, <2>2, <2>3, Zenon
    <3>2. report.status = Raised
      BY <1>8, <1>11, <3>1 DEF ReportsOn
    <3>3. QED
      BY <1>5, <2>3, <3>2 DEF Expected
  <2>4. CASE outcome # "barrier_capture"
    <3>1. r = Continued(acc, e, states, field, outcome, FALSE)
      BY <1>4, <1>7, <1>13, <2>2, <2>4, Zenon
    <3>2. /\ r.verified = acc.verified + 1 /\ r.terminal = outcome
          /\ r.finding = None /\ r.raised = FALSE
      BY <3>1, Zenon DEF Continued
    <3>3. result = <<>>
      BY <3>2, ResultPasses, Zenon DEF result
    <3>4. r.verified = Len(journal)
      BY <1>1, <1>8, <3>2 DEF n
    <3>5. /\ report.status = VerifiedOK /\ report.terminal = outcome
          /\ report.points = ScoreTerminal(outcome) /\ report.verified = Len(journal)
      BY <1>11, <3>2, <3>3, <3>4, Zenon DEF ReportsOn
    <3>6. QED
      BY <1>4, <1>5, <1>13, <2>4, <3>5, Zenon DEF Expected
  <2>5. QED
    BY <2>3, <2>4
<1>14. QED
  BY <1>12, <1>13

(***************************************************************************)
(* For every board, all rules, starting cells and nonces, and every way a  *)
(* game can go: the audit of the honest evidence gives the referee's       *)
(* reason, points and steps, but for a thief caught by a barrier, where    *)
(* it raises, and a game in which the Thief played the last turn, which it *)
(* takes for continued after its end (arena.py:99-150, replay.py:26-136,   *)
(* replay_support.py:36-140, service.py:18-80).                            *)
(***************************************************************************)
THEOREM AuditIsRight == Spec => []AuditMatchesReferee
<1>1. EvidenceInv => AuditMatchesReferee
  <2> SUFFICES ASSUME EvidenceInv PROVE AuditMatchesReferee
    OBVIOUS
  <2>1. NoMissedOutcome
    BY DEF EvidenceInv, RefereeInv
  <2>2. Over => outcome # None
    BY DEF EvidenceInv, SealsInv, DisclosureInv, Over
  <2>3. QED
    BY <2>1, <2>2, AuditOfTheEnd DEF AuditMatchesReferee
<1>2. QED
  BY <1>1, EvidenceStarts, EvidenceGoesOn, PTL DEF Spec

-----------------------------------------------------------------------------
(* The search: the invariant. *)

\* Every candidate is asked for once, and may be played by the role that asks.
AskedInv ==
  /\ asked.role \in {"police", "thief"} /\ asked.writable \in BOOLEAN
  /\ asked.candidates \in Seq(Movements \cup BarrierActions) /\ Count >= 1
  /\ \A i \in 1..Count : asked.candidates[i] \in Legal
  /\ \A i, j \in 1..Count : asked.candidates[i] = asked.candidates[j] => i = j

\* The candidates of the depths before, and those of this depth so far.
ScoredKeys ==
  {<<asked.candidates[i], d>> : i \in 1..Count, d \in 1..depth - 1}
  \cup {<<asked.candidates[i], depth>> : i \in 1..Len(ranked)}

\* Only a complete depth leaves the loop with its last candidate.
ProgressInv ==
  /\ now \in Nat /\ depth \in Nat \ {0}
  /\ ranked \in Seq(Scores) /\ Len(ranked) <= Count
  /\ dphase # "searching" => Len(ranked) < Count
  /\ DOMAIN scored = ScoredKeys /\ \A k \in ScoredKeys : scored[k] \in Scores
  /\ \A i \in 1..Len(ranked) : ranked[i] = ScoreAt(i, depth)

CacheInv ==
  cache \in Seq(ScoredKeys \X Scores) /\ Len(cache) <= CacheEntries /\ hits = 0

\* The best of the last complete depth.
BestInv ==
  /\ depth = 1 => best = Nothing
  /\ depth > 1 =>
       /\ best.reason = "SEARCH" /\ best.depth = depth - 1
       /\ \E i \in 1..Count :
            /\ asked.candidates[i] = best.action
            /\ \A j \in 1..Count : ScoreAt(j, depth - 1) - ScoreAt(i, depth - 1) <= Tolerance

AnswerInv ==
  /\ dphase = "answered" => proposal.reason = "OTHER" \/ (proposal = best /\ depth > 1)
  /\ Decided /\ decision.reason = "SEARCH" => decision = best /\ depth > 1
  /\ DecisionIsSound

SearchInv == AskedInv /\ ProgressInv /\ CacheInv /\ BestInv /\ AnswerInv

\* A sequence of numbers has a greatest one.
LEMMA GreatestScore ==
  ASSUME NEW n \in Nat \ {0}, NEW f, \A i \in 1..n : f[i] \in Nat
  PROVE  \E m \in 1..n : \A i \in 1..n : f[i] <= f[m]
<1> DEFINE Tops(k) == {m \in 1..k : \A i \in 1..k : f[i] <= f[m]}
           Bad == {k \in 1..n : Tops(k) = {}}
<1>1. Bad = {}
  <2> SUFFICES ASSUME Bad # {} PROVE FALSE
    OBVIOUS
  <2>1. Bad \in SUBSET Nat
    OBVIOUS
  <2>2. PICK k \in Bad : \A j \in Bad : k <= j
    BY <2>1, LeastOf
  <2>3. k \in 1..n /\ Tops(k) = {}
    OBVIOUS
  <2>4. k # 1
    <3>1. \A i \in 1..1 : i = 1
      OBVIOUS
    <3>2. f[1] \in Nat
      OBVIOUS
    <3>3. 1 \in Tops(1)
      BY <3>1, <3>2
    <3>4. QED
      BY <2>3, <3>3
  <2>5. k - 1 \in 1..n /\ k - 1 \notin Bad
    BY <2>2, <2>3, <2>4
  <2>6. PICK m \in 1..k - 1 : \A i \in 1..k - 1 : f[i] <= f[m]
    BY <2>5
  <2>7. \A i \in 1..k : i \in 1..k - 1 \/ i = k
    BY <2>3
  <2>8. m \in 1..k /\ k \in 1..k /\ f[m] \in Nat /\ f[k] \in Nat /\ \A i \in 1..k : f[i] \in Nat
    BY <2>3
  <2>9. CASE f[k] <= f[m]
    <3>1. m \in Tops(k)
      BY <2>6, <2>7, <2>8, <2>9
    <3>2. QED
      BY <2>3, <3>1
  <2>10. CASE f[m] <= f[k]
    <3>1. k \in Tops(k)
      BY <2>6, <2>7, <2>8, <2>10
    <3>2. QED
      BY <2>3, <3>1
  <2>11. QED
    BY <2>8, <2>9, <2>10
<1>2. QED
  BY <1>1

\* What the guard falls back to is a movement, or nothing that can be written.
LEMMA Fallen ==
  ASSUME NEW reason, FallBack(reason)
  PROVE  \/ dphase' = "decided" /\ decision'.reason = reason /\ decision'.action \in Movements
         \/ dphase' = "raised" /\ ~asked.writable /\ UNCHANGED decision
  BY DEF FallBack, Proposal

LEMMA SetToSeqIsOne ==
  ASSUME NEW S, IsFiniteSet(S)
  PROVE  LET s == SetToSeq(S)
         IN  /\ s \in Seq(S) /\ Len(s) = Cardinality(S)
             /\ \A i, j \in 1..Len(s) : s[i] = s[j] => i = j
<1> DEFINE n == Cardinality(S)
<1>1. n \in Nat /\ ExistsBijection(1..n, S)
  BY FS_CardinalityType
<1>2. PICK f \in Bijection(1..n, S) : TRUE
  BY <1>1 DEF ExistsBijection
<1>3. f \in [1..n -> S] /\ \A a, b \in 1..n : f[a] = f[b] => a = b
  BY <1>2 DEF Bijection, Injection, IsInjective
<1>4. \E g \in [1..n -> S] : IsInjective(g)
  BY <1>3 DEF IsInjective
<1>5. SetToSeq(S) \in [1..n -> S] /\ IsInjective(SetToSeq(S))
  BY <1>4 DEF SetToSeq
<1> HIDE DEF n
<1>6. QED
  BY <1>1, <1>5 DEF IsInjective, n

LEMMA RequestsAreSound ==
  ASSUME NEW q \in Requests, q.role = "thief" => ToSet(q.candidates) \subseteq Movements
  PROVE  /\ q.role \in {"police", "thief"} /\ q.writable \in BOOLEAN
         /\ q.candidates \in Seq(Movements \cup BarrierActions) /\ Len(q.candidates) >= 1
         /\ \A i \in 1..Len(q.candidates) :
               q.candidates[i] \in Movements
                                     \cup IF q.role = "police" THEN BarrierActions ELSE {}
         /\ \A i, j \in 1..Len(q.candidates) : q.candidates[i] = q.candidates[j] => i = j
<1>1. PICK r \in {"police", "thief"}, b \in SUBSET BarrierActions, w \in BOOLEAN :
        q = [role |-> r, candidates |-> SetToSeq(Movements) \o SetToSeq(b), writable |-> w]
  BY DEF Requests
<1> DEFINE s == SetToSeq(Movements)
           t == SetToSeq(b)
<1>2. IsFiniteSet(Movements) /\ IsFiniteSet(b)
  BY SearchAssumption, FS_Subset
<1>3. /\ s \in Seq(Movements) /\ Len(s) = Cardinality(Movements)
      /\ \A i, j \in 1..Len(s) : s[i] = s[j] => i = j
  BY <1>2, SetToSeqIsOne
<1>4. t \in Seq(b) /\ \A i, j \in 1..Len(t) : t[i] = t[j] => i = j
  BY <1>2, SetToSeqIsOne
<1>5. Len(s) \in Nat /\ Len(s) >= 1 /\ Len(t) \in Nat
  <2>1. Cardinality(Movements) # 0 /\ Cardinality(Movements) \in Nat
    BY <1>2, SearchAssumption, FS_EmptySet, FS_CardinalityType
  <2>2. QED
    BY <1>3, <1>4, <2>1, LenProperties
<1> HIDE DEF s, t
<1>6. /\ \A i \in 1..Len(s) : s[i] \in Movements
      /\ \A i \in 1..Len(t) : t[i] \in b
  BY <1>3, <1>4, ElementOfSeq
<1>7. s \in Seq(Movements \cup BarrierActions) /\ t \in Seq(Movements \cup BarrierActions)
  BY <1>3, <1>4, SeqMonotonic
<1>8. /\ s \o t \in Seq(Movements \cup BarrierActions) /\ Len(s \o t) = Len(s) + Len(t)
      /\ \A i \in 1..Len(s) + Len(t) :
           (s \o t)[i] = IF i <= Len(s) THEN s[i] ELSE t[i - Len(s)]
  BY <1>7, ConcatProperties
<1> DEFINE c == s \o t
<1>9. q.role = r /\ q.candidates = c /\ q.writable = w
  BY <1>1 DEF s, t
<1>10. \A i \in 1..Len(c) : \/ i \in 1..Len(s) /\ c[i] = s[i] /\ c[i] \in Movements
                            \/ /\ i - Len(s) \in 1..Len(t) /\ c[i] = t[i - Len(s)]
                               /\ c[i] \in b /\ ~(i <= Len(s))
  BY <1>5, <1>6, <1>8
<1> HIDE DEF c
<1>11. Len(c) = Len(s) + Len(t) /\ c \in Seq(Movements \cup BarrierActions)
  BY <1>8 DEF c
<1>12. \A i \in 1..Len(c) :
          c[i] \in Movements \cup IF q.role = "police" THEN BarrierActions ELSE {}
  <2>1. CASE r = "police"
    BY <1>9, <1>10, <2>1
  <2>2. CASE r = "thief"
    <3>1. ToSet(c) \subseteq Movements
      BY <1>9, <2>2
    <3>2. \A i \in 1..Len(c) : c[i] \in ToSet(c)
      BY <1>11, LenProperties DEF ToSet
    <3>3. QED
      BY <3>1, <3>2
  <2>3. QED
    BY <2>1, <2>2
<1>13. ASSUME NEW i \in 1..Len(c), NEW j \in 1..Len(c), c[i] = c[j]
       PROVE  i = j
  <2>1. Movements \cap b = {}
    BY SearchAssumption
  <2>2. CASE i \in 1..Len(s) /\ c[i] = s[i] /\ c[i] \in Movements
    <3>1. j \in 1..Len(s) /\ c[j] = s[j]
      BY <1>10, <1>13, <2>1, <2>2
    <3>2. QED
      BY <1>3, <1>13, <2>2, <3>1
  <2>3. CASE i - Len(s) \in 1..Len(t) /\ c[i] = t[i - Len(s)] /\ c[i] \in b
    <3>1. j - Len(s) \in 1..Len(t) /\ c[j] = t[j - Len(s)]
      BY <1>10, <1>13, <2>1, <2>3
    <3>2. i - Len(s) = j - Len(s)
      BY <1>4, <1>13, <2>3, <3>1
    <3>3. QED
      BY <1>5, <1>11, <3>2
  <2>4. QED
    BY <1>10, <2>2, <2>3
<1>14. QED
  BY <1>5, <1>9, <1>11, <1>12, <1>13

LEMMA SearchStarts == SearchInit => SearchInv
<1> SUFFICES ASSUME SearchInit PROVE SearchInv
  OBVIOUS
<1>1. /\ now = 0 /\ dphase = "requested" /\ depth = 1 /\ ranked = <<>> /\ cache = <<>>
      /\ hits = 0 /\ best = Nothing /\ scored = [k \in {} |-> 0]
      /\ asked \in Requests /\ (asked.role = "thief" => ToSet(asked.candidates) \subseteq Movements)
  BY DEF SearchInit
<1>2. AskedInv
  BY <1>1, RequestsAreSound DEF AskedInv, Legal, Count
<1>3. ScoredKeys = {} /\ Len(ranked) = 0
  BY <1>1 DEF ScoredKeys
<1>4. Count \in Nat
  BY <1>2 DEF AskedInv, Count
<1>5. ProgressInv
  BY <1>1, <1>2, <1>3, <1>4 DEF ProgressInv, AskedInv
<1>6. CacheInv
  BY <1>1, SearchAssumption DEF CacheInv
<1>7. BestInv /\ AnswerInv
  BY <1>1 DEF BestInv, AnswerInv, DecisionIsSound, Decided
<1>8. QED
  BY <1>2, <1>5, <1>6, <1>7 DEF SearchInv

\* What has no part in the search leaves it as it is.
LEMMA SearchRests ==
  ASSUME SearchInv, now' \in Nat,
         UNCHANGED <<asked, depth, ranked, cache, hits, best, scored>>,
         dphase # "searching" \/ dphase' = "searching" \/ Len(ranked) < Count
  PROVE  AskedInv' /\ ProgressInv' /\ CacheInv' /\ BestInv'
<1>1. UNCHANGED <<Count, Legal, Tolerance, ScoredKeys>> /\ \A i, d : UNCHANGED ScoreAt(i, d)
  BY DEF Count, Legal, Tolerance, ScoredKeys, ScoreAt
<1>2. AskedInv'
  BY <1>1 DEF SearchInv, AskedInv
<1>3. ProgressInv'
  BY <1>1 DEF SearchInv, ProgressInv
<1>4. CacheInv'
  BY <1>1 DEF SearchInv, CacheInv
<1>5. BestInv'
  BY <1>1 DEF SearchInv, BestInv
<1>6. QED
  BY <1>2, <1>3, <1>4, <1>5

LEMMA FirstIsIn ==
  ASSUME NEW S \in SUBSET Nat, S # {}
  PROVE  First(S) \in S
  BY LeastOf DEF First

\* What is drawn from the scores of a complete depth is near the best of them.
LEMMA DrawnIsNear ==
  ASSUME NEW n \in Nat \ {0}, NEW f \in [1..n -> Nat], Tolerance \in Nat,
         NEW i \in Drawn(f)
  PROVE  i \in 1..n /\ \A j \in 1..n : f[j] - f[i] <= Tolerance
<1>1. PICK m \in 1..n : \A j \in 1..n : f[j] <= f[m]
  BY GreatestScore
<1>2. m \in Near(f)
  BY <1>1 DEF Near
<1>3. Near(f) \in SUBSET Nat
  BY DEF Near
<1>4. First(Near(f)) \in Near(f)
  BY <1>2, <1>3, FirstIsIn
<1>5. i \in Near(f)
  BY <1>4 DEF Drawn
<1>6. QED
  BY <1>5 DEF Near

LEMMA ToleranceType == Tolerance \in Nat
  BY SearchAssumption DEF Tolerance

LEMMA SearchEvaluates ==
  ASSUME SearchInv, Evaluate
  PROVE  SearchInv'
<1>1. /\ dphase = "evaluating" /\ Len(ranked) \in Nat /\ Count \in Nat
      /\ Len(ranked) < Count /\ depth \in Nat \ {0} /\ now \in Nat
      /\ ranked \in Seq(Scores) /\ Scores \subseteq Nat
      /\ DOMAIN scored = ScoredKeys /\ (\A k \in ScoredKeys : scored[k] \in Scores)
      /\ \A i \in 1..Len(ranked) : ranked[i] = ScoreAt(i, depth)
  BY SearchAssumption DEF SearchInv, AskedInv, ProgressInv, Evaluate, Count
<1> DEFINE new == Len(ranked) + 1
           key == <<Current, depth>>
<1>2. new \in 1..Count /\ Current = asked.candidates[new]
  BY <1>1 DEF Current
<1>3. key \notin ScoredKeys
  <2> SUFFICES ASSUME key \in ScoredKeys PROVE FALSE
    OBVIOUS
  <2>1. CASE \E i \in 1..Count, d \in 1..depth - 1 : key = <<asked.candidates[i], d>>
    BY <1>1, <2>1
  <2>2. CASE \E i \in 1..Len(ranked) : key = <<asked.candidates[i], depth>>
    <3>1. PICK i \in 1..Len(ranked) : Current = asked.candidates[i]
      BY <2>2
    <3>2. i \in 1..Count /\ asked.candidates[i] = asked.candidates[new]
      BY <1>1, <1>2, <3>1
    <3> HIDE DEF new
    <3>3. i = new
      BY <1>2, <3>2 DEF SearchInv, AskedInv
    <3>4. QED
      BY <1>1, <3>3 DEF new
  <2>3. QED
    BY <2>1, <2>2 DEF ScoredKeys
<1>4. Cached = {}
  <2> SUFFICES ASSUME NEW i \in DOMAIN cache, cache[i][1] = Key(Current, depth) PROVE FALSE
    BY DEF Cached
  <2>1. cache[i] \in ScoredKeys \X Scores
    BY LenProperties, ElementOfSeq DEF SearchInv, CacheInv
  <2>2. QED
    BY <1>3, <2>1 DEF Key
<1>5. UNCHANGED <<now, asked, depth, best, proposal, decision, hits>>
  BY <1>4 DEF Evaluate
<1>6. UNCHANGED <<Count, Legal, Tolerance>>
  BY <1>5 DEF Count, Legal, Tolerance
<1>7. AskedInv'
  BY <1>5, <1>6 DEF SearchInv, AskedInv
<1>8. dphase' \in {"searching", "stopped"}
  BY <1>4 DEF Evaluate
<1>9. AnswerInv'
  BY <1>8 DEF AnswerInv, Decided, DecisionIsSound
<1>10. CASE now >= GuardDeadline
  <2>1. UNCHANGED <<ranked, cache, scored>>
    BY <1>4, <1>10 DEF Evaluate
  <2>2. QED
    BY <1>1, <1>5, <1>7, <1>9, <2>1, SearchRests DEF SearchInv
<1>11. CASE ~(now >= GuardDeadline)
  <2>1. PICK s \in Scores :
          /\ ranked' = Append(ranked, s)
          /\ cache' = Evict(Append(cache, <<key, s>>))
          /\ scored' = [k \in DOMAIN scored \cup {key} |-> IF k = key THEN s ELSE scored[k]]
          /\ dphase' = "searching"
    BY <1>4, <1>11 DEF Evaluate, Key
  <2>2. /\ ranked' \in Seq(Scores) /\ Len(ranked') = new
        /\ (\A i \in 1..Len(ranked) : ranked'[i] = ranked[i]) /\ ranked'[new] = s
    BY <1>1, <2>1, AppendProperties
  <2>3. ScoredKeys' = ScoredKeys \cup {key}
    <3>1. \A i : i \in 1..new <=> i \in 1..Len(ranked) \/ i = new
      BY <1>1
    <3>2. {<<asked.candidates[i], depth>> : i \in 1..new}
            = {<<asked.candidates[i], depth>> : i \in 1..Len(ranked)} \cup {key}
      BY <1>2, <3>1
    <3>3. ScoredKeys' = {<<asked.candidates[i], d>> : i \in 1..Count, d \in 1..depth - 1}
                          \cup {<<asked.candidates[i], depth>> : i \in 1..new}
      BY <1>5, <1>6, <2>2 DEF ScoredKeys
    <3> HIDE DEF new, key
    <3>4. QED
      BY <3>2, <3>3 DEF ScoredKeys
  <2>4. /\ DOMAIN scored' = ScoredKeys' /\ scored'[key] = s
        /\ \A k \in ScoredKeys : scored'[k] = scored[k]
    BY <1>1, <1>3, <2>1, <2>3
  <2>5. \A k \in ScoredKeys' : scored'[k] \in Scores
    BY <1>1, <2>3, <2>4
  <2>6. \A i \in 1..new : ranked'[i] = scored'[<<asked.candidates[i], depth>>]
    <3> SUFFICES ASSUME NEW i \in 1..new
                 PROVE  ranked'[i] = scored'[<<asked.candidates[i], depth>>]
      OBVIOUS
    <3>1. CASE i = new
      BY <1>2, <2>2, <2>4, <3>1
    <3>2. CASE i # new
      <4>1. i \in 1..Len(ranked)
        BY <1>1, <3>2
      <4>2. <<asked.candidates[i], depth>> \in ScoredKeys
        BY <4>1 DEF ScoredKeys
      <4>3. QED
        BY <1>1, <2>2, <2>4, <4>1, <4>2 DEF ScoreAt
    <3>3. QED
      BY <3>1, <3>2
  <2>7. ProgressInv'
    <3>1. Len(ranked') <= Count
      BY <1>1, <2>2
    <3>2. (\A i \in 1..Len(ranked) : ranked[i] = ScoreAt(i, depth))'
      BY <1>5, <2>2, <2>6 DEF ScoreAt
    <3> HIDE DEF new, key
    <3>3. QED
      BY <1>1, <1>5, <1>6, <2>1, <2>2, <2>4, <2>5, <3>1, <3>2 DEF ProgressInv
  <2>8. CacheInv'
    <3> DEFINE T == ScoredKeys' \X Scores
               more == Append(cache, <<key, s>>)
    <3>1. cache \in Seq(T) /\ <<key, s>> \in T /\ Len(cache) \in Nat
      <4>1. cache \in Seq(ScoredKeys \X Scores) /\ ScoredKeys \X Scores \subseteq T
        BY <2>3 DEF SearchInv, CacheInv
      <4>2. QED
        BY <2>3, <4>1, SeqMonotonic, LenProperties
    <3> HIDE DEF T, key
    <3>2. more \in Seq(T) /\ Len(more) = Len(cache) + 1
      BY <3>1, AppendProperties
    <3>3. more # <<>>
      BY <3>1, <3>2
    <3> HIDE DEF more
    <3>4. Tail(more) \in Seq(T) /\ Len(Tail(more)) = Len(cache)
      BY <3>1, <3>2, <3>3, HeadTailProperties
    <3>5. cache' = IF Len(more) > CacheEntries THEN Tail(more) ELSE more
      BY <2>1 DEF Evict, more
    <3>6. Len(cache) <= CacheEntries /\ CacheEntries \in Nat
      BY SearchAssumption DEF SearchInv, CacheInv
    <3>7. cache' \in Seq(T) /\ Len(cache') <= CacheEntries
      BY <3>1, <3>2, <3>4, <3>5, <3>6
    <3>8. QED
      BY <1>5, <3>7 DEF CacheInv, SearchInv, T
  <2>9. BestInv'
    <3>1. \A i \in 1..Count : depth > 1 =>
            scored'[<<asked.candidates[i], depth - 1>>] = scored[<<asked.candidates[i], depth - 1>>]
      <4> SUFFICES ASSUME NEW i \in 1..Count, depth > 1
                   PROVE  <<asked.candidates[i], depth - 1>> \in ScoredKeys
        BY <2>4
      <4>1. depth - 1 \in 1..depth - 1
        BY <1>1
      <4>2. QED
        BY <4>1 DEF ScoredKeys
    <3>2. QED
      BY <1>5, <1>6, <3>1 DEF SearchInv, BestInv, ScoreAt
  <2>10. QED
    BY <1>7, <1>9, <2>7, <2>8, <2>9 DEF SearchInv
<1>12. QED
  BY <1>10, <1>11

LEMMA SearchDeepens ==
  ASSUME SearchInv, CompleteDepth
  PROVE  SearchInv'
<1>1. /\ Len(ranked) = Count /\ Count \in Nat \ {0} /\ depth \in Nat \ {0} /\ now \in Nat
      /\ ranked \in Seq(Scores) /\ Scores \subseteq Nat
      /\ DOMAIN scored = ScoredKeys /\ (\A k \in ScoredKeys : scored[k] \in Scores)
      /\ \A i \in 1..Len(ranked) : ranked[i] = ScoreAt(i, depth)
  BY SearchAssumption DEF SearchInv, AskedInv, ProgressInv, CompleteDepth, Count
<1>2. /\ ranked' = <<>> /\ depth' = depth + 1 /\ dphase' \in {"stopped", "searching"}
      /\ UNCHANGED <<now, asked, cache, hits, proposal, decision, scored>>
  BY DEF CompleteDepth
<1>3. UNCHANGED <<Count, Legal, Tolerance>> /\ Len(ranked') = 0
  BY <1>2 DEF Count, Legal, Tolerance
<1>4. PICK i \in Drawn(ranked) : best' = Proposal(asked.candidates[i], "SEARCH", depth)
  BY DEF CompleteDepth
<1>5. ranked \in [1..Count -> Nat]
  BY <1>1, LenProperties
<1>6. i \in 1..Count /\ \A j \in 1..Count : ranked[j] - ranked[i] <= Tolerance
  BY <1>1, <1>5, DrawnIsNear, ToleranceType
<1>7. ScoredKeys' = ScoredKeys
  <2>1. \A d : d \in 1..depth' - 1 <=> d \in 1..depth - 1 \/ d = depth
    BY <1>1, <1>2
  <2>2. ScoredKeys' = {<<asked.candidates[k], d>> : k \in 1..Count, d \in 1..depth' - 1}
    BY <1>2, <1>3 DEF ScoredKeys
  <2>3. ScoredKeys = {<<asked.candidates[k], d>> : k \in 1..Count, d \in 1..depth - 1}
                       \cup {<<asked.candidates[k], depth>> : k \in 1..Count}
    BY <1>1 DEF ScoredKeys
  <2>4. QED
    BY <2>1, <2>2, <2>3
<1>8. AskedInv'
  BY <1>2, <1>3 DEF SearchInv, AskedInv
<1>9. ProgressInv'
  BY <1>1, <1>2, <1>3, <1>7 DEF ProgressInv
<1>10. CacheInv'
  BY <1>2, <1>7 DEF SearchInv, CacheInv
<1>11. BestInv'
  <2>1. best'.reason = "SEARCH" /\ best'.depth = depth /\ best'.action = asked.candidates[i]
    BY <1>4 DEF Proposal
  <2>2. depth' - 1 = depth /\ depth' # 1
    BY <1>1, <1>2
  <2>3. \A j \in 1..Count : ScoreAt(j, depth) - ScoreAt(i, depth) <= Tolerance
    BY <1>1, <1>6
  <2>4. QED
    BY <1>2, <1>3, <1>6, <2>1, <2>2, <2>3 DEF BestInv, ScoreAt
<1>12. AnswerInv'
  BY <1>2 DEF AnswerInv, Decided, DecisionIsSound
<1>13. QED
  BY <1>8, <1>9, <1>10, <1>11, <1>12 DEF SearchInv

LEMMA SearchEnds ==
  ASSUME SearchInv, Guard
  PROVE  SearchInv'
<1>1. UNCHANGED <<now, asked, depth, ranked, cache, hits, best, proposal, scored>>
  BY DEF Guard
<1>2. dphase # "searching" /\ now \in Nat /\ GuardDeadline \in Nat /\ Deadline \in Nat
      /\ GuardDeadline < Deadline
  BY SearchAssumption DEF Guard, SearchInv, ProgressInv
<1>3. AskedInv' /\ ProgressInv' /\ CacheInv' /\ BestInv'
  BY <1>1, <1>2, SearchRests
<1>4. UNCHANGED Legal /\ Movements \subseteq Legal
  BY <1>1 DEF Legal
<1>5. ASSUME NEW reason \in {"FALLBACK_DEADLINE", "FALLBACK_EXCEPTION", "FALLBACK_INVALID"},
             FallBack(reason), reason = "FALLBACK_DEADLINE" => now >= Deadline
      PROVE  AnswerInv'
  <2>1. CASE dphase' = "decided" /\ decision'.reason = reason /\ decision'.action \in Movements
    BY <1>1, <1>2, <1>4, <1>5, <2>1 DEF AnswerInv, Decided, DecisionIsSound, LateReason
  <2>2. CASE dphase' = "raised" /\ ~asked.writable
    BY <1>1, <2>2 DEF AnswerInv, Decided, DecisionIsSound
  <2>3. QED
    BY <1>5, <2>1, <2>2, Fallen
<1>6. CASE \E reason \in {"FALLBACK_DEADLINE", "FALLBACK_EXCEPTION", "FALLBACK_INVALID"} :
             FallBack(reason) /\ (reason = "FALLBACK_DEADLINE" => now >= Deadline)
  BY <1>3, <1>5, <1>6 DEF SearchInv
<1>7. CASE /\ dphase = "answered" /\ ~(now >= Deadline) /\ proposal.action \in Legal
           /\ decision' = proposal /\ dphase' = "decided"
  <2>1. proposal.reason = "OTHER" \/ (proposal = best /\ depth > 1)
    BY <1>7 DEF SearchInv, AnswerInv
  <2>2. depth > 1 => best.reason = "SEARCH"
    BY DEF SearchInv, BestInv
  <2>3. proposal.reason \in {"SEARCH", "OTHER"}
    BY <2>1, <2>2
  <2>4. DecisionIsSound'
    BY <1>1, <1>2, <1>4, <1>7, <2>3 DEF DecisionIsSound, Decided, LateReason
  <2>5. AnswerInv'
    BY <1>1, <1>7, <2>1, <2>4 DEF AnswerInv, Decided
  <2>6. QED
    BY <1>3, <2>5 DEF SearchInv
<1>8. QED
  BY <1>6, <1>7 DEF Guard

LEMMA SearchGoesOn ==
  ASSUME SearchInv, [SearchNext]_searchVars
  PROVE  SearchInv'
<1>1. now \in Nat /\ GuardDeadline \in Nat
  BY SearchAssumption DEF SearchInv, ProgressInv
<1>2. CASE Tick
  <2>1. AskedInv' /\ ProgressInv' /\ CacheInv' /\ BestInv'
    BY <1>1, <1>2, SearchRests DEF Tick
  <2>2. AnswerInv'
    BY <1>2 DEF Tick, SearchInv, AnswerInv, Decided, DecisionIsSound
  <2>3. QED
    BY <2>1, <2>2 DEF SearchInv
<1>3. CASE Ask
  <2>1. dphase = "requested" /\ UNCHANGED <<now, asked, depth, ranked, cache, hits, best, scored>>
    BY <1>3 DEF Ask
  <2>2. AskedInv' /\ ProgressInv' /\ CacheInv' /\ BestInv'
    BY <1>1, <2>1, SearchRests
  <2>3. UNCHANGED Legal /\ Movements \subseteq Legal
    BY <2>1 DEF Legal
  <2>4. CASE now >= GuardDeadline /\ FallBack("FALLBACK_DEADLINE")
    <3>1. AnswerInv'
      <4>1. CASE dphase' = "decided" /\ decision'.reason = "FALLBACK_DEADLINE"
                 /\ decision'.action \in Movements
        BY <2>1, <2>3, <2>4, <4>1 DEF AnswerInv, Decided, DecisionIsSound, LateReason
      <4>2. CASE dphase' = "raised" /\ ~asked.writable
        BY <2>1, <4>2 DEF AnswerInv, Decided, DecisionIsSound
      <4>3. QED
        BY <2>4, <4>1, <4>2, Fallen
    <3>2. QED
      BY <2>2, <3>1 DEF SearchInv
  <2>5. CASE dphase' = "searching"
    BY <2>2, <2>5 DEF SearchInv, AnswerInv, Decided, DecisionIsSound
  <2>6. QED
    BY <1>3, <2>4, <2>5 DEF Ask
<1>4. CASE OtherBrain
  <2>1. /\ ranked = <<>>
        /\ UNCHANGED <<now, asked, depth, ranked, cache, hits, best, decision, scored>>
    BY <1>4 DEF OtherBrain
  <2>2. Len(ranked) < Count
    BY <2>1 DEF SearchInv, AskedInv, Count
  <2>3. AskedInv' /\ ProgressInv' /\ CacheInv' /\ BestInv'
    BY <1>1, <2>1, <2>2, SearchRests
  <2>4. AnswerInv'
    BY <1>4 DEF OtherBrain, AnswerInv, Decided, DecisionIsSound, Proposal
  <2>5. QED
    BY <2>3, <2>4 DEF SearchInv
<1>5. CASE LoopCheck
  <2>1. /\ Len(ranked) < Count /\ dphase' \in {"stopped", "evaluating"}
        /\ UNCHANGED <<now, asked, depth, ranked, cache, hits, best, proposal, decision, scored>>
    BY <1>5 DEF LoopCheck
  <2>2. AskedInv' /\ ProgressInv' /\ CacheInv' /\ BestInv'
    BY <1>1, <2>1, SearchRests
  <2>3. QED
    BY <2>1, <2>2 DEF SearchInv, AnswerInv, Decided, DecisionIsSound
<1>6. CASE Answer
  <2>1. /\ dphase = "stopped" /\ proposal' = best
        /\ dphase' = IF best = Nothing \/ ~asked.writable THEN "failed" ELSE "answered"
        /\ UNCHANGED <<now, asked, depth, ranked, cache, hits, best, decision, scored>>
    BY <1>6 DEF Answer
  <2>2. AskedInv' /\ ProgressInv' /\ CacheInv' /\ BestInv'
    BY <1>1, <2>1, SearchRests
  <2>3. dphase' = "answered" => depth > 1
    BY <2>1 DEF SearchInv, BestInv, ProgressInv
  <2>4. QED
    BY <2>1, <2>2, <2>3 DEF SearchInv, AnswerInv, Decided, DecisionIsSound
<1>7. CASE UNCHANGED searchVars
  <2>1. UNCHANGED <<now, dphase, asked, depth, ranked, cache, hits, best, proposal, decision, scored>>
    BY <1>7 DEF searchVars
  <2>2. AskedInv' /\ ProgressInv' /\ CacheInv' /\ BestInv'
    BY <1>1, <2>1, SearchRests
  <2>3. AnswerInv'
    BY <2>1 DEF SearchInv, AnswerInv, Decided, DecisionIsSound, LateReason, Legal
  <2>4. QED
    BY <2>2, <2>3 DEF SearchInv
<1>8. QED
  BY <1>2, <1>3, <1>4, <1>5, <1>6, <1>7, SearchEvaluates, SearchDeepens, SearchEnds
     DEF SearchNext

LEMMA DecidedIsBest == SearchInv => BestInTime
<1> SUFFICES ASSUME SearchInv PROVE BestInTime
  OBVIOUS
<1>1. ASSUME Decided, decision.reason = "SEARCH"
      PROVE  /\ Complete(decision.depth) /\ ~Complete(decision.depth + 1)
             /\ \E i \in 1..Count :
                  /\ asked.candidates[i] = decision.action
                  /\ \A j \in 1..Count :
                       ScoreAt(j, decision.depth) - ScoreAt(i, decision.depth) <= Tolerance
  <2>1. /\ decision = best /\ depth > 1 /\ depth \in Nat /\ Len(ranked) < Count
        /\ DOMAIN scored = ScoredKeys /\ decision.depth = depth - 1
        /\ Len(ranked) \in Nat /\ Count \in Nat
    BY <1>1 DEF SearchInv, AnswerInv, ProgressInv, BestInv, AskedInv, Count, Decided
  <2>2. Complete(decision.depth)
    <3>1. decision.depth \in 1..depth - 1
      BY <2>1
    <3>2. QED
      BY <2>1, <3>1 DEF Complete, ScoredKeys
  <2>3. <<asked.candidates[Count], depth>> \notin ScoredKeys
    <3> SUFFICES ASSUME <<asked.candidates[Count], depth>> \in ScoredKeys PROVE FALSE
      OBVIOUS
    <3>1. PICK i \in 1..Len(ranked) : asked.candidates[Count] = asked.candidates[i]
      BY <2>1 DEF ScoredKeys
    <3>2. i = Count
      BY <2>1, <3>1 DEF SearchInv, AskedInv
    <3>3. QED
      BY <2>1, <3>2
  <2>4. ~Complete(decision.depth + 1)
    <3>1. decision.depth + 1 = depth /\ Count \in 1..Count
      BY <2>1
    <3>2. QED
      BY <2>1, <2>3, <3>1 DEF Complete
  <2>5. QED
    BY <2>1, <2>2, <2>4 DEF SearchInv, BestInv
<1>2. Len(cache) <= CacheEntries /\ hits = 0 /\ DecisionIsSound
  BY DEF SearchInv, CacheInv, AnswerInv
<1>3. QED
  BY <1>1, <1>2 DEF BestInTime, PublishedIsBest

(***************************************************************************)
(* For all candidates, scores, caches, horizons and deadlines: a decision  *)
(* is the best legal one the time allowed (search.py:26-142,               *)
(* service.py:48-76).                                                      *)
(***************************************************************************)
THEOREM DecidedInTime == SearchSpec => []BestInTime
  BY SearchStarts, SearchGoesOn, DecidedIsBest, PTL DEF SearchSpec

-----------------------------------------------------------------------------
(* The scent history: the invariant. *)

\* A record of the engine: the path it has, and that path's scent with its decays.
TellsItsPath(r) ==
  /\ DOMAIN r = {"history", "field", "step", "turn", "present"}
  /\ r.step \in Nat /\ r.turn \in Nat
  /\ r.step = Len(r.history) /\ DOMAIN r.history = 1..r.step
  /\ \A i \in 1..r.step : r.history[i] = walk[i].cell
  /\ r.turn <= r.step /\ r.field = Trail(walk, r.step, r.turn)

\* It may be ahead of what the caller saw, by what raised or was lost.
IsUpToDate(r) ==
  /\ r.step \in Len(frames)..acted
  /\ r.turn \in {turns, turns + 1} \/ (LostFirstDecay /\ r.turn = 0)

\* Nothing restored and no step made: the engine may still have counted a turn.
TellsNothing(r) ==
  /\ DOMAIN r = {"history", "field", "step", "turn", "present"}
  /\ r.history = <<>> /\ r.step = 0 /\ r.field = NoScent /\ r.present = FALSE

RecordsInv ==
  /\ stored.present => TellsItsPath(stored) /\ IsUpToDate(stored)
  /\ memory.present => TellsItsPath(memory) /\ IsUpToDate(memory)
  /\ LostFirstDecay /\ memory.present => memory.turn = 0
  /\ ~memory.present =>
       /\ TellsNothing(memory) /\ memory.turn \in Nat
       /\ memory.turn # 0 => memory.turn = 1 /\ turns = 1 /\ Len(frames) = 1
  /\ Len(frames) # 0 => stored.present

PaceInv ==
  /\ walk \in Seq([cell : Cells, kind : {"MOVE", Placed}])
  /\ acted \in 0..Len(walk) /\ turns \in Nat
  /\ DOMAIN frames = 1..Len(frames) /\ Len(frames) \in Nat
  /\ turns <= Len(frames) /\ Len(frames) <= acted /\ acted <= turns + 1
  /\ LostFirstDecay => turns = 1

FramesInv ==
  ~LostFirstDecay => \A s \in 1..Len(frames) : frames[s] = Trail(walk, s, s - 1)

HistoryInv == PaceInv /\ RecordsInv /\ FramesInv

\* A trail is known by any course that makes the same steps.
TrailStep(own, field, n, decays) ==
  IF n <= decays THEN Decay(Scented(own, field)) ELSE Scented(own, field)

TrailCourse(f, kinds, length, decays) ==
  f = [n \in 0 .. length |-> IF n = 0 THEN NoScent
                            ELSE TrailStep(kinds[n], f[n - 1], n, decays)]

HasTrail(kinds, length, decays) == \E f : TrailCourse(f, kinds, length, decays)

LEMMA TrailIs ==
  ASSUME NEW n \in Nat, NEW kinds, NEW decays, NEW g, TrailCourse(g, kinds, n, decays)
  PROVE  Trail(kinds, n, decays) = g[n]
<1> DEFINE trail == CHOOSE f : TrailCourse(f, kinds, n, decays)
<1>1. TrailCourse(trail, kinds, n, decays)
  BY Zenon
<1>2. Trail(kinds, n, decays) = trail[n]
  BY Zenon DEF Trail, TrailCourse, TrailStep
<1> HIDE DEF trail
<1>3. 0 \in 0..n /\ \A k \in 1..n : k \in 0..n /\ k # 0
  OBVIOUS
<1>4. GoAlike(trail, g, n)
  BY <1>1, <1>3, Zenon DEF TrailCourse, GoAlike
<1>5. \A k \in 0..n : trail[k] = g[k]
  BY <1>4, SameCourse
<1>6. QED
  BY <1>2, <1>5

LEMMA TrailGrows ==
  ASSUME NEW n \in Nat, NEW kinds, NEW decays, NEW f, TrailCourse(f, kinds, n, decays)
  PROVE  \E g : /\ TrailCourse(g, kinds, n + 1, decays)
                /\ g[n + 1] = TrailStep(kinds[n + 1], f[n], n + 1, decays)
<1> DEFINE last == TrailStep(kinds[n + 1], f[n], n + 1, decays)
           g == [k \in 0..n + 1 |-> IF k = n + 1 THEN last ELSE f[k]]
           e(k) == IF k = 0 THEN NoScent ELSE TrailStep(kinds[k], g[k - 1], k, decays)
<1>1. \A k \in 0..n : f[k] = IF k = 0 THEN NoScent ELSE TrailStep(kinds[k], f[k - 1], k, decays)
  BY Zenon DEF TrailCourse
<1> HIDE DEF last
<1>2. g[n + 1] = last /\ \A k \in 0..n : g[k] = f[k]
  OBVIOUS
<1>3. \A k \in 0..n + 1 : g[k] = e(k)
  <2> SUFFICES ASSUME NEW k \in 0..n + 1 PROVE g[k] = e(k)
    OBVIOUS
  <2> HIDE DEF g
  <2>1. CASE k = 0
    BY <1>1, <1>2, <2>1
  <2>2. CASE k \in 1..n
    <3>1. k \in 0..n /\ k - 1 \in 0..n /\ k # 0
      BY <2>2
    <3>2. QED
      BY <1>1, <1>2, <3>1
  <2>3. CASE k = n + 1
    <3>1. k # 0 /\ k - 1 = n /\ g[n] = f[n]
      BY <1>2, <2>3
    <3>2. e(k) = TrailStep(kinds[n + 1], f[n], n + 1, decays)
      BY <2>3, <3>1
    <3>3. QED
      BY <1>2, <2>3, <3>2 DEF last
  <2>4. QED
    BY <2>1, <2>2, <2>3
<1>4. g = [k \in 0..n + 1 |-> e(k)]
  <2>1. g = [k \in 0..n + 1 |-> g[k]]
    OBVIOUS
  <2> HIDE DEF g, e
  <2>2. QED
    BY <1>3, <2>1, Zenon
<1> HIDE DEF g
<1>5. TrailCourse(g, kinds, n + 1, decays)
  BY <1>4, Zenon DEF TrailCourse
<1>6. QED
  BY <1>2, <1>5 DEF last

LEMMA TrailStarts ==
  ASSUME NEW kinds, NEW decays
  PROVE  HasTrail(kinds, 0, decays) /\ Trail(kinds, 0, decays) = NoScent
<1> DEFINE f == [k \in 0..0 |-> NoScent]
<1>1. \A k \in 0..0 : k = 0
  OBVIOUS
<1>2. f = [k \in 0..0 |-> IF k = 0 THEN NoScent ELSE TrailStep(kinds[k], f[k - 1], k, decays)]
  BY <1>1, Zenon
<1>3. f[0] = NoScent
  OBVIOUS
<1> HIDE DEF f
<1>4. TrailCourse(f, kinds, 0, decays)
  BY <1>2, Zenon DEF TrailCourse
<1>5. QED
  BY <1>3, <1>4, TrailIs DEF HasTrail

LEMMA TrailsAreThere ==
  ASSUME NEW n \in Nat, NEW kinds, NEW decays
  PROVE  HasTrail(kinds, n, decays)
<1> DEFINE Without == {k \in Nat : ~HasTrail(kinds, k, decays)}
<1>1. SUFFICES ASSUME Without # {} PROVE FALSE
  OBVIOUS
<1>2. PICK m \in Without : \A k \in Without : m <= k
  <2>1. Without \in SUBSET Nat
    OBVIOUS
  <2>2. QED
    BY <1>1, <2>1, LeastOf
<1>3. m \in Nat /\ ~HasTrail(kinds, m, decays)
  OBVIOUS
<1>4. m # 0
  BY <1>3, TrailStarts
<1>5. m - 1 \in Nat /\ m - 1 + 1 = m /\ HasTrail(kinds, m - 1, decays)
  BY <1>2, <1>3, <1>4
<1>6. PICK l \in Nat : l = m - 1
  BY <1>5
<1>7. PICK f : TrailCourse(f, kinds, l, decays)
  BY <1>5, <1>6 DEF HasTrail
<1>8. HasTrail(kinds, l + 1, decays)
  BY <1>7, TrailGrows DEF HasTrail
<1>9. QED
  BY <1>3, <1>5, <1>6, <1>8

LEMMA TrailGoesOn ==
  ASSUME NEW n \in Nat, NEW kinds, NEW decays
  PROVE  Trail(kinds, n + 1, decays)
           = TrailStep(kinds[n + 1], Trail(kinds, n, decays), n + 1, decays)
<1>1. PICK f : TrailCourse(f, kinds, n, decays)
  BY TrailsAreThere DEF HasTrail
<1>2. PICK g : /\ TrailCourse(g, kinds, n + 1, decays)
               /\ g[n + 1] = TrailStep(kinds[n + 1], f[n], n + 1, decays)
  BY <1>1, TrailGrows
<1>3. Trail(kinds, n, decays) = f[n] /\ Trail(kinds, n + 1, decays) = g[n + 1]
  BY <1>1, <1>2, TrailIs
<1>4. QED
  BY <1>2, <1>3

\* A trail depends on its steps and on which of them decays follow, and on nothing else.
LEMMA TrailsAlike ==
  ASSUME NEW n \in Nat, NEW kinds, NEW others, NEW decays \in Nat, NEW fewer \in Nat,
         \A i \in 1..n : kinds[i] = others[i] /\ (i <= decays <=> i <= fewer)
  PROVE  Trail(kinds, n, decays) = Trail(others, n, fewer)
<1> DEFINE f == [i \in 0..n |-> Trail(kinds, i, decays)]
           g == [i \in 0..n |-> Trail(others, i, fewer)]
<1>1. f[0] = g[0]
  BY TrailStarts
<1>2. ASSUME NEW k \in 1..n, f[k - 1] = g[k - 1] PROVE f[k] = g[k]
  <2>1. PICK l \in Nat : k = l + 1 /\ l \in 0..n /\ k - 1 = l
    OBVIOUS
  <2>2. f[l] = Trail(kinds, l, decays) /\ g[l] = Trail(others, l, fewer)
        /\ f[k] = Trail(kinds, l + 1, decays) /\ g[k] = Trail(others, l + 1, fewer)
    BY <2>1
  <2>3. Trail(kinds, l + 1, decays)
          = TrailStep(kinds[l + 1], Trail(kinds, l, decays), l + 1, decays)
    BY TrailGoesOn
  <2>4. Trail(others, l + 1, fewer)
          = TrailStep(others[l + 1], Trail(others, l, fewer), l + 1, fewer)
    BY TrailGoesOn
  <2> HIDE DEF f, g
  <2>5. Trail(kinds, l, decays) = Trail(others, l, fewer) /\ kinds[l + 1] = others[l + 1]
        /\ (l + 1 <= decays <=> l + 1 <= fewer)
    BY <1>2, <2>1, <2>2
  <2>6. QED
    BY <2>2, <2>3, <2>4, <2>5 DEF TrailStep
<1> HIDE DEF f, g
<1>3. GoAlike(f, g, n)
  BY <1>1, <1>2 DEF GoAlike
<1>4. f[n] = g[n]
  BY <1>3, SameCourse
<1>5. QED
  BY <1>4 DEF f, g

LEMMA NothingKnown == TellsNothing(Absent) /\ Absent.turn = 0
  BY DEF Absent, TellsNothing

LEMMA HistoryStarts == HistoryInit => HistoryInv
<1> SUFFICES ASSUME HistoryInit PROVE HistoryInv
  OBVIOUS
<1>1. /\ walk \in Walks /\ acted = 0 /\ frames = <<>> /\ turns = 0
      /\ memory = Absent /\ stored = Absent
  BY DEF HistoryInit
<1>2. walk \in Seq([cell : Cells, kind : {"MOVE", Placed}]) /\ Len(walk) \in Nat
  <2>1. walk \in Seq([cell : Cells, kind : {"MOVE", Placed}])
    BY <1>1, HistoryAssumption, Zenon
  <2>2. Len(walk) \in Nat
    BY <2>1
  <2>3. QED
    BY <2>1, <2>2
<1>3. Absent.present = FALSE /\ Absent.turn = 0 /\ TellsNothing(Absent)
  BY NothingKnown DEF TellsNothing
<1>4. Len(<<>>) = 0 /\ DOMAIN <<>> = 1..0
  OBVIOUS
<1>5. memory.present = FALSE /\ stored.present = FALSE /\ memory.turn = 0
      /\ TellsNothing(memory) /\ Len(frames) = 0 /\ DOMAIN frames = 1..0
  BY <1>1, <1>3, <1>4, Zenon
<1>6. ~LostFirstDecay
  BY <1>5 DEF LostFirstDecay
<1>7. PaceInv
  BY <1>1, <1>2, <1>5, <1>6 DEF PaceInv
<1>8. RecordsInv /\ FramesInv
  BY <1>5, <1>6 DEF RecordsInv, FramesInv
<1>9. QED
  BY <1>7, <1>8 DEF HistoryInv

\* The engine takes a step only from a record of all the steps before.
LEMMA RestoredIsItsPath ==
  ASSUME HistoryInv, Len(frames) < acted, Restored.step + 1 = acted
  PROVE  /\ Restored.history = <<>> \/ TellsItsPath(Restored)
         /\ Restored.step = acted - 1 /\ Restored.turn \in Nat
         /\ Restored.turn <= acted - 1
         /\ Restored.step = Len(Restored.history)
         /\ DOMAIN Restored.history = 1..Restored.step
         /\ \A i \in 1..Restored.step : Restored.history[i] = walk[i].cell
         /\ Restored.field = Trail(walk, acted - 1, Restored.turn)
         /\ IF LostFirstDecay THEN Restored.turn = 0 ELSE Restored.turn = turns
         /\ turns = acted - 1 /\ Len(frames) = acted - 1
<1>1. /\ acted \in Nat /\ turns \in Nat /\ Len(frames) \in Nat
      /\ turns = acted - 1 /\ Len(frames) = acted - 1
      /\ LostFirstDecay => turns = 1
  BY DEF HistoryInv, PaceInv
<1>2. CASE Restored.present
  <2>1. /\ TellsItsPath(Restored) /\ IsUpToDate(Restored)
        /\ LostFirstDecay => Restored.turn = 0
    BY <1>2 DEF Restored, HistoryInv, RecordsInv, LostFirstDecay
  <2>2. Restored.turn = turns \/ LostFirstDecay
    BY <1>1, <2>1 DEF TellsItsPath, IsUpToDate
  <2>3. Restored.step = acted - 1 /\ Restored.field = Trail(walk, acted - 1, Restored.turn)
    BY <1>1, <2>1 DEF TellsItsPath
  <2>4. QED
    BY <1>1, <2>1, <2>2, <2>3 DEF TellsItsPath
<1>3. CASE ~Restored.present
  <2>1. ~memory.present /\ ~stored.present /\ Restored = memory
    BY <1>3 DEF Restored
  <2>2. Len(frames) = 0 /\ memory.turn = 0 /\ TellsNothing(memory)
    BY <1>1, <2>1 DEF HistoryInv, RecordsInv
  <2>3. memory.history = <<>> /\ memory.step = 0 /\ memory.field = NoScent
    BY <2>2 DEF TellsNothing
  <2>4. acted = 1 /\ turns = 0 /\ ~LostFirstDecay
    BY <1>1, <2>2
  <2>5. Trail(walk, 0, 0) = NoScent
    BY TrailStarts
  <2>6. acted - 1 = 0 /\ DOMAIN <<>> = 1..0 /\ Len(<<>>) = 0
    BY <2>4
  <2>7. QED
    BY <1>1, <2>1, <2>2, <2>3, <2>4, <2>5, <2>6
<1>4. QED
  BY <1>2, <1>3

LEMMA Emitting ==
  ASSUME HistoryInv, EmitAfterAction
  PROVE  HistoryInv'
<1> DEFINE own == walk[acted]
           field == Scented(own, Restored.field)
           next == [history |-> Append(Restored.history, own.cell), field |-> field,
                    step |-> acted, turn |-> Restored.turn, present |-> TRUE]
<1>1. /\ Len(frames) < acted /\ Restored.step + 1 = acted /\ UNCHANGED <<walk, acted>>
      /\ Persisted(next, frames' = Append(frames, field) /\ UNCHANGED turns)
  BY DEF EmitAfterAction
<1> DEFINE r == Restored
<1>2. /\ r.step = acted - 1 /\ r.turn \in Nat /\ r.turn <= acted - 1
      /\ r.step = Len(r.history) /\ DOMAIN r.history = 1..r.step
      /\ \A i \in 1..r.step : r.history[i] = walk[i].cell
      /\ r.field = Trail(walk, acted - 1, r.turn)
      /\ IF LostFirstDecay THEN r.turn = 0 ELSE r.turn = turns
      /\ turns = acted - 1 /\ Len(frames) = acted - 1
  BY <1>1, RestoredIsItsPath
<1>3. /\ acted \in Nat /\ acted # 0 /\ DOMAIN frames = 1..Len(frames)
      /\ LostFirstDecay => turns = 1
  BY <1>2 DEF HistoryInv, PaceInv
<1> HIDE DEF r
<1>4. field = Trail(walk, acted, r.turn)
  <2>1. PICK n \in Nat : n = acted - 1 /\ n + 1 = acted
    BY <1>3
  <2>2. Trail(walk, n + 1, r.turn) = TrailStep(walk[n + 1], Trail(walk, n, r.turn), n + 1, r.turn)
    BY TrailGoesOn
  <2>3. ~(n + 1 <= r.turn)
    BY <1>2, <2>1
  <2>4. field = Scented(walk[acted], r.field)
    BY DEF r
  <2> HIDE DEF field
  <2>5. QED
    BY <1>2, <2>1, <2>2, <2>3, <2>4 DEF TrailStep
<1> HIDE DEF field, own
<1>5. /\ DOMAIN next = {"history", "field", "step", "turn", "present"}
      /\ next.history = Append(r.history, own.cell) /\ next.field = field
      /\ next.step = acted /\ next.turn = r.turn /\ next.present = TRUE
  BY DEF r
<1> HIDE DEF next
<1>6. /\ Len(next.history) = acted /\ DOMAIN next.history = 1..acted
      /\ \A i \in 1..acted : next.history[i] = walk[i].cell
  BY <1>2, <1>3, <1>5 DEF own
<1>7. TellsItsPath(next)
  BY <1>2, <1>3, <1>4, <1>5, <1>6 DEF TellsItsPath
<1>8. /\ walk' = walk /\ acted' = acted
      /\ walk \in Seq([cell : Cells, kind : {"MOVE", Placed}])
      /\ acted \in 1..Len(walk) /\ turns \in Nat /\ turns = acted - 1
      /\ Len(frames) = acted - 1 /\ DOMAIN frames = 1..(acted - 1)
      /\ LostFirstDecay => turns = 1 /\ next.turn = 0
      /\ ~LostFirstDecay => next.turn = turns
  BY <1>1, <1>2, <1>3, <1>5 DEF HistoryInv, PaceInv
<1>9. CASE /\ memory' = next /\ stored' = next /\ frames' = Append(frames, field)
           /\ UNCHANGED turns
  <2>1. Len(frames') = acted /\ DOMAIN frames' = 1..acted
        /\ \A s \in 1..acted : frames'[s] = IF s = acted THEN field ELSE frames[s]
    BY <1>3, <1>8, <1>9
  <2>2. TellsItsPath(stored)' /\ TellsItsPath(memory)'
    BY <1>7, <1>8, <1>9 DEF TellsItsPath
  <2>3. LostFirstDecay' <=> LostFirstDecay
    <3>1. LostFirstDecay' <=> next.turn = 0 /\ turns > 0
      BY <1>5, <1>9 DEF LostFirstDecay
    <3>2. QED
      BY <1>8, <3>1
  <2>4. PaceInv'
    BY <1>8, <1>9, <2>1, <2>3 DEF PaceInv
  <2>5. IsUpToDate(stored)' /\ IsUpToDate(memory)'
    BY <1>5, <1>8, <1>9, <2>1, <2>3 DEF IsUpToDate
  <2>6. RecordsInv'
    BY <1>5, <1>8, <1>9, <2>2, <2>3, <2>5 DEF RecordsInv
  <2>7. FramesInv'
    <3>1. SUFFICES ASSUME ~LostFirstDecay, NEW s \in 1..acted
                   PROVE  frames'[s] = Trail(walk, s, s - 1)
      BY <1>8, <2>1, <2>3 DEF FramesInv
    <3>2. CASE s = acted
      BY <1>4, <1>5, <1>8, <2>1, <3>1, <3>2
    <3>3. CASE s # acted
      <4>1. s \in 1..(acted - 1) /\ frames'[s] = frames[s]
        BY <1>8, <2>1, <3>3
      <4>2. QED
        BY <1>8, <3>1, <4>1 DEF HistoryInv, FramesInv
    <3>4. QED
      BY <3>2, <3>3
  <2>8. QED
    BY <2>4, <2>6, <2>7 DEF HistoryInv
<1>10. CASE memory' = next /\ UNCHANGED <<stored, restarts, frames, turns>>
  <2>1. PaceInv' /\ FramesInv'
    BY <1>8, <1>10 DEF HistoryInv, PaceInv, FramesInv, LostFirstDecay
  <2>2. TellsItsPath(memory)'
    BY <1>7, <1>8, <1>10 DEF TellsItsPath
  <2>3. LostFirstDecay' <=> LostFirstDecay
    BY <1>10 DEF LostFirstDecay
  <2>4. IsUpToDate(memory)'
    BY <1>5, <1>8, <1>10, <2>3 DEF IsUpToDate
  <2>5. stored'.present => TellsItsPath(stored)' /\ IsUpToDate(stored)'
    BY <1>8, <1>10, <2>3 DEF HistoryInv, RecordsInv, TellsItsPath, IsUpToDate
  <2>6. Len(frames') # 0 => stored'.present
    BY <1>10 DEF HistoryInv, RecordsInv
  <2>7. RecordsInv'
    BY <1>5, <1>8, <1>10, <2>2, <2>3, <2>4, <2>5, <2>6 DEF RecordsInv
  <2>8. QED
    BY <2>1, <2>7 DEF HistoryInv
<1>11. CASE memory' = Absent /\ stored' = next /\ UNCHANGED <<frames, turns>>
  <2>1. LostFirstDecay' <=> LostFirstDecay
    <3>1. LostFirstDecay' <=> next.turn = 0 /\ turns > 0
      BY <1>5, <1>11 DEF LostFirstDecay
    <3>2. QED
      BY <1>8, <3>1
  <2>2. PaceInv' /\ FramesInv'
    BY <1>8, <1>11, <2>1 DEF HistoryInv, PaceInv, FramesInv
  <2>3. TellsItsPath(stored)'
    BY <1>7, <1>8, <1>11 DEF TellsItsPath
  <2>4. IsUpToDate(stored)'
    BY <1>5, <1>8, <1>11, <2>1 DEF IsUpToDate
  <2>5. TellsNothing(memory)' /\ memory'.turn = 0
    BY <1>11, NothingKnown DEF TellsNothing
  <2>6. memory'.present = FALSE
    BY <2>5 DEF TellsNothing
  <2>7. RecordsInv'
    BY <1>5, <1>11, <2>3, <2>4, <2>5, <2>6 DEF RecordsInv
  <2>8. QED
    BY <2>2, <2>7 DEF HistoryInv
<1>12. QED
  BY <1>1, <1>9, <1>10, <1>11 DEF Persisted

LEMMA Completing ==
  ASSUME HistoryInv, CompleteTurn
  PROVE  HistoryInv'
<1>1. /\ Len(frames) = acted /\ turns = acted - 1 /\ acted \in Nat /\ acted # 0
      /\ memory.turn + 1 = turns + 1 /\ UNCHANGED <<walk, acted>>
      /\ acted \in 1..Len(walk) /\ DOMAIN frames = 1..acted
      /\ stored.present /\ TellsItsPath(stored) /\ IsUpToDate(stored)
      /\ LostFirstDecay => turns = 1
  BY DEF CompleteTurn, HistoryInv, PaceInv, RecordsInv
<1>2. CASE memory.present
  <2> DEFINE next == [memory EXCEPT !.field = Decay(@), !.turn = turns + 1]
  <2>1. Persisted(next, turns' = turns + 1 /\ UNCHANGED frames)
    BY <1>2 DEF CompleteTurn
  <2>2. /\ TellsItsPath(memory) /\ IsUpToDate(memory) /\ memory.turn = turns
        /\ ~LostFirstDecay /\ memory.step = acted
    <3>1. TellsItsPath(memory) /\ IsUpToDate(memory)
          /\ (LostFirstDecay => memory.turn = 0)
      BY <1>2 DEF HistoryInv, RecordsInv
    <3>2. memory.turn = turns
      BY <1>1, <3>1 DEF TellsItsPath
    <3>3. QED
      BY <1>1, <3>1, <3>2 DEF IsUpToDate
  <2>3. Decay(memory.field) = Trail(walk, acted, acted)
    <3>1. PICK n \in Nat : n = acted - 1 /\ n + 1 = acted
      BY <1>1
    <3>2. memory.field = Trail(walk, n + 1, n)
      BY <1>1, <2>2, <3>1 DEF TellsItsPath
    <3>3. Trail(walk, n + 1, n) = TrailStep(walk[n + 1], Trail(walk, n, n), n + 1, n)
      BY TrailGoesOn
    <3>4. Trail(walk, n + 1, n + 1)
            = TrailStep(walk[n + 1], Trail(walk, n, n + 1), n + 1, n + 1)
      BY TrailGoesOn
    <3>5. Trail(walk, n, n) = Trail(walk, n, n + 1)
      BY TrailsAlike
    <3>6. ~(n + 1 <= n) /\ n + 1 <= n + 1
      OBVIOUS
    <3>7. QED
      BY <3>1, <3>2, <3>3, <3>4, <3>5, <3>6 DEF TrailStep
  <2>4. /\ DOMAIN next = DOMAIN memory
        /\ next.field = Decay(memory.field) /\ next.turn = turns + 1
        /\ next.history = memory.history /\ next.step = memory.step
        /\ next.present = memory.present
    BY <2>2 DEF TellsItsPath
  <2> HIDE DEF next
  <2>5. /\ TellsItsPath(next) /\ next.turn = acted /\ next.step = acted /\ next.present
        /\ turns + 1 = acted /\ Len(frames) = acted /\ turns \in Nat
        /\ acted' = acted /\ walk' = walk
    BY <1>1, <1>2, <2>2, <2>3, <2>4 DEF TellsItsPath
  <2>6. CASE memory' = next /\ stored' = next /\ turns' = turns + 1 /\ UNCHANGED frames
    <3>1. ~LostFirstDecay'
      BY <1>1, <2>5, <2>6 DEF LostFirstDecay
    <3>2. PaceInv' /\ FramesInv'
      BY <1>1, <2>2, <2>5, <2>6, <3>1 DEF HistoryInv, PaceInv, FramesInv
    <3>3. TellsItsPath(stored)' /\ TellsItsPath(memory)'
      BY <2>5, <2>6 DEF TellsItsPath
    <3>4. IsUpToDate(stored)' /\ IsUpToDate(memory)'
      BY <2>5, <2>6 DEF IsUpToDate
    <3>5. RecordsInv'
      BY <2>5, <2>6, <3>1, <3>3, <3>4 DEF RecordsInv
    <3>6. QED
      BY <3>2, <3>5 DEF HistoryInv
  <2>7. CASE memory' = next /\ UNCHANGED <<stored, frames, turns>>
    <3>1. ~LostFirstDecay'
      BY <2>2, <2>7 DEF LostFirstDecay
    <3>2. PaceInv' /\ FramesInv'
      BY <2>2, <2>5, <2>7, <3>1 DEF HistoryInv, PaceInv, FramesInv
    <3>3. TellsItsPath(stored)' /\ TellsItsPath(memory)'
      BY <1>1, <2>5, <2>7 DEF TellsItsPath
    <3>4. IsUpToDate(stored)' /\ IsUpToDate(memory)'
      BY <1>1, <2>2, <2>5, <2>7 DEF IsUpToDate
    <3>5. RecordsInv'
      BY <1>1, <2>5, <2>7, <3>1, <3>3, <3>4 DEF RecordsInv
    <3>6. QED
      BY <3>2, <3>5 DEF HistoryInv
  <2>8. CASE memory' = Absent /\ stored' = next /\ UNCHANGED <<frames, turns>>
    <3>1. ~LostFirstDecay'
      BY <1>1, <2>5, <2>8 DEF LostFirstDecay
    <3>2. PaceInv' /\ FramesInv'
      BY <2>2, <2>5, <2>8, <3>1 DEF HistoryInv, PaceInv, FramesInv
    <3>3. TellsItsPath(stored)' /\ IsUpToDate(stored)'
      BY <2>5, <2>8 DEF TellsItsPath, IsUpToDate
    <3>4. TellsNothing(memory)' /\ memory'.turn = 0
      BY <2>8, NothingKnown DEF TellsNothing
    <3>5. memory'.present = FALSE
      BY <3>4 DEF TellsNothing
    <3>6. RecordsInv'
      BY <2>5, <2>8, <3>3, <3>4, <3>5 DEF RecordsInv
    <3>7. QED
      BY <3>2, <3>6 DEF HistoryInv
  <2>9. QED
    BY <2>1, <2>6, <2>7, <2>8 DEF Persisted
<1>3. CASE ~memory.present
  <2>1. /\ turns' = turns + 1 /\ memory' = [memory EXCEPT !.turn = turns + 1]
        /\ UNCHANGED <<stored, frames>>
    BY <1>3 DEF CompleteTurn
  <2>2. TellsNothing(memory) /\ memory.turn = turns
        /\ memory.turn \in Nat /\ (memory.turn # 0 => turns = 1 /\ Len(frames) = 1)
    BY <1>1, <1>3 DEF HistoryInv, RecordsInv
  <2>3. turns = 0 /\ acted = 1 /\ Len(frames) = 1 /\ turns' = 1 /\ ~LostFirstDecay
    BY <1>1, <2>1, <2>2 DEF LostFirstDecay
  <2>4. TellsNothing(memory)' /\ memory'.turn = 1
    BY <2>1, <2>2, <2>3 DEF TellsNothing
  <2>5. memory'.present = FALSE
    BY <2>4 DEF TellsNothing
  <2>6. stored' = stored /\ frames' = frames /\ Len(frames') = 1 /\ turns' = 1
    BY <2>1, <2>3
  <2>7. LostFirstDecay' => turns' = 1 /\ stored.turn = 0
    BY <2>1, <2>3 DEF LostFirstDecay
  <2>8. TellsItsPath(stored)'
    BY <1>1, <2>1 DEF TellsItsPath
  <2>9. stored.turn \in {0, 1} /\ stored.step = 1
    <3>1. stored.step \in 1..1 /\ stored.turn \in {turns, turns + 1}
      BY <1>1, <2>3 DEF IsUpToDate
    <3>2. QED
      BY <2>3, <3>1
  <2>10. IsUpToDate(stored)'
    <3>1. acted' = 1 /\ stored.present
      BY <1>1, <2>3
    <3>2. LostFirstDecay' <=> stored.turn = 0
      BY <2>6, <3>1 DEF LostFirstDecay
    <3>3. stored.step \in 1..1 /\ (stored.turn \in {1, 1 + 1} \/ stored.turn = 0)
      BY <2>9
    <3>4. QED
      BY <2>6, <3>1, <3>2, <3>3 DEF IsUpToDate
  <2>11. RecordsInv'
    <3>1. stored'.present
      BY <1>1, <2>6
    <3>2. turns' = 1 /\ Len(frames') = 1 /\ memory'.turn \in Nat
      BY <2>4, <2>6
    <3>3. QED
      BY <2>4, <2>5, <2>8, <2>10, <3>1, <3>2, Zenon DEF RecordsInv
  <2>12. PaceInv'
    <3>1. PaceInv
      BY DEF HistoryInv
    <3>2. walk' = walk /\ acted' = acted /\ acted = 1 /\ (LostFirstDecay' => turns' = 1)
      BY <1>1, <2>3, <2>7
    <3>3. walk' \in Seq([cell : Cells, kind : {"MOVE", Placed}]) /\ acted' \in 0..Len(walk')
      BY <3>1, <3>2 DEF PaceInv
    <3>4. DOMAIN frames' = 1..Len(frames') /\ Len(frames') \in Nat
      BY <2>6, <3>1 DEF PaceInv
    <3>5. turns' \in Nat /\ turns' <= Len(frames') /\ Len(frames') <= acted' /\ acted' <= turns' + 1
      <4>1. turns' = 1
        BY <2>6
      <4>2. acted' = 1
        BY <3>2
      <4>3. Len(frames') = 1
        BY <2>6, Zenon
      <4>4. QED
        BY <4>1, <4>2, <4>3
    <3>6. QED
      BY <3>2, <3>3, <3>4, <3>5 DEF PaceInv
  <2>13. FramesInv'
    <3>1. \A s \in 1..Len(frames) : frames[s] = Trail(walk, s, s - 1)
      BY <2>3 DEF HistoryInv, FramesInv
    <3>2. walk' = walk
      BY <1>1
    <3>3. QED
      BY <2>6, <3>1, <3>2 DEF FramesInv
  <2>14. QED
    BY <2>11, <2>12, <2>13 DEF HistoryInv
<1>4. QED
  BY <1>2, <1>3

LEMMA HistoryGoesOn ==
  ASSUME HistoryInv, [HistoryNext]_historyVars
  PROVE  HistoryInv'
<1>1. CASE Act
  <2>1. PaceInv' /\ FramesInv'
    BY <1>1 DEF Act, HistoryInv, PaceInv, FramesInv, LostFirstDecay
  <2>2. stored'.present => TellsItsPath(stored)' /\ IsUpToDate(stored)'
    BY <1>1 DEF Act, HistoryInv, PaceInv, RecordsInv, TellsItsPath, IsUpToDate, LostFirstDecay
  <2>3. memory'.present => TellsItsPath(memory)' /\ IsUpToDate(memory)'
    BY <1>1 DEF Act, HistoryInv, PaceInv, RecordsInv, TellsItsPath, IsUpToDate, LostFirstDecay
  <2>4. TellsNothing(memory)' <=> TellsNothing(memory)
    BY <1>1 DEF Act, TellsNothing
  <2>5. RecordsInv'
    BY <1>1, <2>2, <2>3, <2>4 DEF Act, HistoryInv, RecordsInv, LostFirstDecay
  <2>6. QED
    BY <2>1, <2>5 DEF HistoryInv
<1>2. CASE Restart
  <2>1. PaceInv' /\ FramesInv'
    BY <1>2 DEF Restart, HistoryInv, PaceInv, FramesInv, LostFirstDecay
  <2>2. stored'.present => TellsItsPath(stored)' /\ IsUpToDate(stored)'
    BY <1>2 DEF Restart, HistoryInv, RecordsInv, TellsItsPath, IsUpToDate, LostFirstDecay
  <2>3. TellsNothing(memory)' /\ memory'.turn = 0
    BY <1>2, NothingKnown DEF Restart, TellsNothing
  <2>4. memory'.present = FALSE
    BY <2>3 DEF TellsNothing
  <2>5. RecordsInv'
    BY <1>2, <2>2, <2>3, <2>4 DEF Restart, HistoryInv, RecordsInv
  <2>6. QED
    BY <2>1, <2>5 DEF HistoryInv
<1>3. CASE UNCHANGED historyVars
  <2>1. HistoryInv' = HistoryInv
    BY <1>3 DEF historyVars, HistoryInv, PaceInv, RecordsInv, FramesInv, TellsItsPath,
                IsUpToDate, LostFirstDecay, TellsNothing
  <2>2. QED
    BY <2>1
<1>4. QED
  BY <1>1, <1>2, <1>3, Emitting, Completing DEF HistoryNext

LEMMA HistoryIsItsTrails == HistoryInv => HistoryIsTrue
<1> SUFFICES ASSUME HistoryInv PROVE HistoryIsTrue
  OBVIOUS
<1>1. RecordIsItsPath
  <2>1. SUFFICES ASSUME stored.present
                 PROVE  /\ stored.step = Len(stored.history)
                        /\ stored.step <= acted /\ stored.turn <= stored.step
                        /\ \A i \in DOMAIN stored.history : stored.history[i] = walk[i].cell
                        /\ stored.field = Trail(walk, stored.step, stored.turn)
    BY DEF RecordIsItsPath
  <2>2. TellsItsPath(stored) /\ stored.step \in Len(frames)..acted
    BY <2>1 DEF HistoryInv, RecordsInv, IsUpToDate
  <2>3. acted \in Nat /\ Len(frames) \in Nat
    BY DEF HistoryInv, PaceInv
  <2>4. QED
    BY <2>2, <2>3 DEF TellsItsPath
<1>2. FramesAreRecomputed
  <2>1. SUFFICES ASSUME ~LostFirstDecay, NEW s \in 1..Len(frames),
                        \A i \in 1..s : walk[i].kind # Placed
                 PROVE  frames[s] = RecomputedFrame(s)
    BY DEF HistoryInv, PaceInv, FramesAreRecomputed
  <2> DEFINE moves == [i \in DOMAIN walk |-> [cell |-> walk[i].cell, kind |-> "MOVE"]]
  <2>2. s \in Nat /\ s - 1 \in Nat /\ \A i \in 1..s : i \in DOMAIN walk
    BY DEF HistoryInv, PaceInv
  <2>3. frames[s] = Trail(walk, s, s - 1)
    BY <2>1 DEF HistoryInv, FramesInv
  <2>4. ASSUME NEW i \in 1..s PROVE walk[i] = moves[i]
    <3>1. i \in DOMAIN walk /\ walk \in Seq([cell : Cells, kind : {"MOVE", Placed}])
      BY <2>2, <2>4 DEF HistoryInv, PaceInv
    <3>2. walk[i] \in [cell : Cells, kind : {"MOVE", Placed}]
      <4> DEFINE Steps == [cell : Cells, kind : {"MOVE", Placed}]
      <4>1. walk \in Seq(Steps)
        BY <3>1
      <4> HIDE DEF Steps
      <4>2. walk[i] \in Steps
        BY <3>1, <4>1
      <4>3. QED
        BY <4>2 DEF Steps
    <3>3. PICK own : own = walk[i]
      OBVIOUS
    <3>4. own = [cell |-> own.cell, kind |-> "MOVE"]
      BY <2>1, <2>4, <3>2, <3>3
    <3>5. walk[i] = [cell |-> walk[i].cell, kind |-> "MOVE"]
      BY <3>3, <3>4
    <3>6. QED
      BY <3>1, <3>5
  <2> HIDE DEF moves
  <2>5. Trail(walk, s, s - 1) = Trail(moves, s, s - 1)
    BY <2>2, <2>4, TrailsAlike
  <2>6. QED
    BY <2>3, <2>5 DEF RecomputedFrame, moves
<1>3. QED
  BY <1>1, <1>2 DEF HistoryIsTrue

(***************************************************************************)
(* However often a save fails, a step is asked for again or the process    *)
(* dies, what is stored of the own scent is the path walked and its scent, *)
(* and an opponent was shown what the audit recomputes from that path,     *)
(* but for barriers and a first decay lost in a restart                    *)
(* (scent_engine.py:46-137).                                               *)
(***************************************************************************)
THEOREM HistoryStaysTrue == HistorySpec => []HistoryIsTrue
<1>1. HistoryInit => HistoryInv
  BY HistoryStarts
<1>2. HistoryInv /\ [HistoryNext]_historyVars => HistoryInv'
  BY HistoryGoesOn
<1>3. HistoryInv => HistoryIsTrue
  BY HistoryIsItsTrails
<1>4. QED
  BY <1>1, <1>2, <1>3, PTL DEF HistorySpec
=============================================================================
