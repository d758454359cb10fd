------------------------------ MODULE LiveGame ------------------------------
(***************************************************************************)
(* One sub-game of the live wire, from the first turn to both results: two *)
(* PeerHalfs (half.py, half_action.py, half_receive.py) in their SubEngine *)
(* (engine.py), driven by SubGameRuntime (runtime.py) over a wire that     *)
(* delivers.  Neither half sees the other's cell: a capture is what the    *)
(* Thief answers to a claim, an enclosure what it reports, and each side   *)
(* concludes its own result.  Timers, losses and repeated pushes are those *)
(* of LiveSeries.                                                          *)
(***************************************************************************)
EXTENDS LivePolicies

CONSTANT Starts   \* the pairs of starting cells that terms may name

ASSUME StartsAssumption ==
  \A s \in Starts : s \in [{"police", "thief"} -> Cells] /\ s["police"] # s["thief"]

Roles == {"police", "thief"}

Other(r) == IF r = "police" THEN "thief" ELSE "police"

VARIABLES
  brain,     \* who decides for a half: its policy, or the session
  half,      \* the PeerHalf of each side
  wire,      \* the turns pushed to each side and not yet processed
  played,    \* per side: the commits its inbox has played, by step
  result,    \* per side: the result of its runtime, or "none"
  cornered   \* history: had the Thief no option out of the Police's reach

vars == <<brain, half, wire, played, result, cornered>>

\* Of what a half notes, only what its brain reads is kept.
NewHalf(start, role) ==
  [pos |-> start[role], oppStart |-> start[Other(role)], barriers |-> {}, used |-> 0,
   field |-> NoScent, own |-> StepUpdate(NoScent, start[role]), known |-> {},
   last |-> {}, lastMove |-> "none", step |-> 0, pending |-> {}, records |-> <<>>,
   support |-> Hypotheses(IF brain[role] = "session" THEN {start[Other(role)]} ELSE {})]

Init ==
  /\ brain \in [Roles -> {"policy", "session"}]
  /\ \E start \in Starts : half = [r \in Roles |-> NewHalf(start, r)]
  /\ wire = [r \in Roles |-> <<>>]
  /\ played = [r \in Roles |-> <<>>]
  /\ result = [r \in Roles |-> "none"]
  /\ cornered = FALSE

----------------------------------------------------------------------------
(* half_action.py *)

Choices(role, k, step) ==
  CASE brain[role] = "policy" /\ role = "police" -> {ChoosePolice(k, step)}
    [] brain[role] = "policy" /\ role = "thief" -> {ChooseThief(k)}
    [] brain[role] = "session" /\ role = "police" -> SessionPolice(k)
    [] brain[role] = "session" /\ role = "thief" -> SessionThief(k)

\* A sealed record, which its commitment stands for.
Sealed(role, k, action, claim, closing) ==
  [step |-> k.step, role |-> role, pos |-> k.pos, move |-> action.move,
   barrier |-> action.barrier, claim |-> claim, response |-> k.pending, closing |-> closing]

\* What both act and hold end with: the scent, the record and the answer given.
Seal(k, record) ==
  [k EXCEPT !.own = StepUpdate(@, k.pos), !.records = Append(@, record), !.pending = {}]

Turn(before, record, win) ==
  [step |-> record.step, sender |-> record.role, commit |-> record,
   scent |-> Wire(DecayOnly(before.own)), claim |-> record.claim,
   barrier |-> record.barrier, response |-> record.response, win |-> win]

\* The half after an action, before it is sealed.
Acted(k, action) ==
  [k EXCEPT !.step = @ + 1, !.lastMove = action.move,
            !.barriers = @ \cup action.barrier,
            !.used = IF action.barrier = {} THEN @ ELSE @ + 1,
            !.pos = IF action.barrier = {} THEN Towards(@, action.move) ELSE @]

Trapped(k) == Around(k.pos, k.barriers) = {} \/ k.pos \in k.barriers

\* Mutant: the game goes on for a step after the last one.
WinClaimLate(role, k) ==
  IF role = "thief" /\ Trapped(k) THEN "capture"
  ELSE IF k.step > MaxSteps THEN "survival"
  ELSE "none"

WinClaim(role, k) ==
  IF role = "thief" /\ Trapped(k) THEN "capture"
  ELSE IF k.step >= MaxSteps THEN "survival"
  ELSE "none"

Rest(turns) == IF turns = <<>> THEN <<>> ELSE Tail(turns)

\* Mutant: a runtime with a result stops before its last turn is pushed.
PushUnlessOver(role, message) ==
  wire' = [wire EXCEPT ![role] = Rest(@),
                       ![Other(role)] = IF message.win = "none" THEN Append(@, message) ELSE @]

\* The turn that was processed leaves the mailbox, the answer enters the other's.
Push(role, message) ==
  wire' = [wire EXCEPT ![role] = Rest(@), ![Other(role)] = Append(@, message)]

\* Has the Thief only options that the Police reaches in one step?
Cornered(thief, cop) == \A c \in LegalCells(thief.pos, thief.barriers) :
                          c \in LegalCells(cop.pos, thief.barriers)

\* _take_turn: k is the half as the message that was processed left it.
TakeTurn(role, k) ==
  \E action \in Choices(role, k, k.step + 1) :
    LET after == Acted(k, action)
        record == Sealed(role, after, action, IF role = "police" THEN {after.pos} ELSE {}, FALSE)
        win == WinClaim(role, after)
    IN  /\ half' = [half EXCEPT ![role] = Seal(after, record)]
        /\ Push(role, Turn(k, record, win))
        /\ result' = [result EXCEPT ![role] = win]
        /\ cornered' = IF role = "thief" THEN Cornered(k, half["police"]) ELSE cornered

\* What a closing hold answers: concede the claim, report_enclosure nothing.
Answering(k, win) ==
  [k EXCEPT !.step = @ + 1, !.pending = IF win = "none" THEN @ ELSE {}]

\* Mutant: the closing answer is not recorded.
HoldUnrecorded(role, k, win) ==
  LET after == Answering(k, win)
      record == Sealed(role, after, MoveTo("STAY"), {}, TRUE)
  IN  /\ half' = [half EXCEPT ![role] = [Seal(after, record) EXCEPT !.records = k.records]]
      /\ Push(role, Turn(k, record, win))
      /\ result' = [result EXCEPT ![role] = "capture"]
      /\ UNCHANGED cornered

\* concede and report_enclosure: a last stay, sealed like any turn. An answer that
\* was not given stays pending.
Hold(role, k, win) ==
  LET after == Answering(k, win)
      record == Sealed(role, after, MoveTo("STAY"), {}, TRUE)
      left == k.pending \ after.pending
  IN  /\ half' = [half EXCEPT ![role] = [Seal(after, record) EXCEPT !.pending = left]]
      /\ Push(role, Turn(k, record, win))
      /\ result' = [result EXCEPT ![role] = "capture"]
      /\ UNCHANGED cornered

----------------------------------------------------------------------------
(* half_receive.py and engine.receive *)

\* The opponent's cell a policy's half notes: the claim, or a greatest scent.
Noted(role, k, m) ==
  IF role = "thief" /\ m.claim # {} THEN {m.claim}
  ELSE IF role = "thief" /\ k.known # {} THEN {k.known}
  ELSE {{c} : c \in Peaks(m.scent)}

Noticed(role, k, m) ==
  IF brain[role] = "session"
    THEN {[k EXCEPT !.support = kept] : kept \in Observed(k.support, m, k.barriers, k.oppStart)}
    ELSE {[k EXCEPT !.field = m.scent, !.known = noted,
                    !.last = IF role = "police" \/ m.claim # {} THEN k.known ELSE @] :
            noted \in Noted(role, k, m)}

\* evaluate_thief_caught: by the claim, or by a barrier on it or around it.
Caught(k, m) ==
  m.claim = {k.pos} \/ (m.barrier # {} /\ (m.barrier = {k.pos} \/ Trapped(k)))

\* A half with the barrier of the message, its answer to the claim, its notes.
Received(role, k, m) ==
  LET barred == [k EXCEPT !.barriers = @ \cup m.barrier]
      answered == [barred EXCEPT
                    !.pending = {[claim |-> c, caught |-> Caught(barred, m)] : c \in m.claim}]
  IN  Noticed(role, answered, m)

IsCaught(k, m) == m.win = "capture" \/ \E r \in k.pending : r.caught

Won(m) == m.win = "capture" \/ \E r \in m.response : r.caught

Concludes(role, k, reason) ==
  /\ half' = [half EXCEPT ![role] = k]
  /\ result' = [result EXCEPT ![role] = reason]
  /\ wire' = [wire EXCEPT ![role] = Tail(@)]
  /\ UNCHANGED cornered

\* _process, of the first turn in the mailbox, in the order of its branches.
Answer(role, k, m) ==
  IF role = "police" /\ Won(m) THEN Concludes(role, k, "capture")
  ELSE IF m.win = "survival" THEN Concludes(role, k, "survival")
  ELSE IF role = "thief" /\ IsCaught(k, m) THEN Hold(role, k, "none")
  ELSE IF role = "thief" /\ Trapped(k) THEN Hold(role, k, "capture")
  ELSE TakeTurn(role, k)

----------------------------------------------------------------------------
(* runtime.run *)

Open ==
  /\ half["thief"].step = 0
  /\ TakeTurn("thief", half["thief"])
  /\ UNCHANGED <<brain, played>>

Process(role) ==
  /\ result[role] = "none"
  /\ wire[role] # <<>>
  /\ \E k \in Received(role, half[role], Head(wire[role])) : Answer(role, k, Head(wire[role]))
  /\ played' = [played EXCEPT ![role] = Append(@, Head(wire[role]).commit)]
  /\ UNCHANGED brain

Settled == \A r \in Roles : result[r] # "none"

\* Both runtimes have returned.
Over == Settled /\ UNCHANGED vars

Next == Open \/ (\E role \in Roles : Process(role)) \/ Over

\* A mailbox of a game that is on has a turn, or the Thief is to open.
Ready ==
  half["thief"].step = 0 \/ \E role \in Roles : result[role] = "none" /\ wire[role] # <<>>

(***************************************************************************)
(* A turn that waits is processed: the runtime polls its mailbox until it  *)
(* has a result.  Weak fairness of Next, with Ready for its enabledness;   *)
(* that a game which is not over can go on is the deadlock check's.  Every *)
(* step that changes a variable is one of Next.                            *)
(***************************************************************************)
Fairness == <>[]Ready => []<><<TRUE>>_vars

Spec == Init /\ [][Next]_vars /\ Fairness

----------------------------------------------------------------------------
(* Properties *)

(***************************************************************************)
(* The game as a referee would see it, who knows both cells.               *)
(***************************************************************************)
Acts(r) == Cardinality({i \in DOMAIN half[r].records : ~half[r].records[i].closing})

PoliceActedLast == Acts("police") = Acts("thief")

Taken ==
  \/ PoliceActedLast /\ Acts("police") > 0 /\ half["police"].pos = half["thief"].pos
  \/ half["thief"].pos \in half["police"].barriers
  \/ Around(half["thief"].pos, half["police"].barriers) = {}

Truth ==
  IF Taken THEN "capture" ELSE IF Acts("thief") = MaxSteps THEN "survival" ELSE "none"

Referee ==
  INSTANCE RecoveryArena WITH
    cop <- half["police"].pos, thief <- half["thief"].pos,
    barriers <- half["police"].barriers, outcome <- Truth,
    step <- IF Truth = "none" /\ PoliceActedLast THEN Acts("thief") + 1 ELSE Acts("thief"),
    mover <- IF Truth # "none" THEN "over"
             ELSE IF PoliceActedLast THEN "thief" ELSE "police"

\* The Thief stepped onto the Police, and the Police has not acted since.
WalkedIn == half["thief"].pos = half["police"].pos /\ ~PoliceActedLast

(***************************************************************************)
(* The two halves play the game of the arena that the session is trained   *)
(* in: each turn is a legal one of the arena, in its order, ended by the   *)
(* same captures, enclosures and survivals, and nobody moves after the     *)
(* end.  They differ in one case: a Thief that steps onto the Police is    *)
(* captured in the arena, and here only if the Police stays and claims the *)
(* cell (compatibility_turn.py:90 against half_receive.py:66-74).          *)
(***************************************************************************)
PlaysLikeTheArena ==
  /\ Referee!ArenaStart(Starts)
  /\ [][Referee!ArenaNext \/ WalkedIn \/ WalkedIn']_<<Referee!arenaVars>>

(***************************************************************************)
(* What the sides conclude apart is what a referee would say: each result  *)
(* is the truth of the board, both come to the same, and the records that  *)
(* they then exchange answer to every commitment that was played, the      *)
(* closing answer's included (engine.py:120-160, runtime.py:117-141,       *)
(* runtime_audit.py:93-119).                                               *)
(***************************************************************************)
\* _verify_theirs, of the records the other side reveals.
FailedSteps(role) ==
  LET theirs == half[Other(role)].records
  IN  {m \in DOMAIN played[role] :
         ~\E i \in DOMAIN theirs : theirs[i].step = m /\ theirs[i] = played[role][m]}

ResultsAreTrue ==
  /\ \A r \in Roles : result[r] \in {"none", Truth}
  /\ Settled =>
       \A r \in Roles :
         /\ FailedSteps(r) = {}
         /\ wire[r] = <<>> => Len(played[r]) = Len(half[Other(r)].records)

(***************************************************************************)
(* What a side believes keeps up with the board: once its mailbox is empty *)
(* it knows every barrier, and a Thief's session knows exactly where the   *)
(* Police is, which claims its cell.  The Thief claims nothing: a Police's *)
(* session has the Thief's cell among its hypotheses until truncation has  *)
(* dropped a cell, and only then may have lost it for good                 *)
(* (compatibility_filter.py:20-118, half_receive.py:27-60).                *)
(***************************************************************************)
KnowledgeKeepsUp ==
  \A r \in Roles :
    LET k == half[r]
        there == half[Other(r)].pos
    IN  wire[r] = <<>> /\ Truth = "none" =>
          /\ half[Other(r)].barriers \subseteq k.barriers
          /\ brain[r] = "session" /\ ~k.support.cut => there \in Posterior(k)
          /\ brain[r] = "session" /\ r = "thief" => Posterior(k) = {there}

(***************************************************************************)
(* Neither brain of a Thief that could still step out of the Police's      *)
(* reach gives itself to the Police's next move or barrier                 *)
(* (thief_policy.py:57-67, compatibility_thief.py:17-45).                  *)
(***************************************************************************)
FreeThiefIsNotTaken ==
  Truth = "capture" /\ ~cornered =>
    /\ half["thief"].pos # half["police"].pos
    /\ half["thief"].pos \notin half["police"].barriers

\* Every game comes to a result on both sides (runtime.py:70-103).
GameEnds == <>Settled

============================================================================
