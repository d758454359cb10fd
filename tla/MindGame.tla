------------------------------ MODULE MindGame ------------------------------
(***************************************************************************)
(* The offline game of services/experiments/arena.py with its players'     *)
(* minds: two entries of the roster decide from what they believe, each    *)
(* action shows its scent and a hint to the opponent through a channel     *)
(* that delays and may lose it, and at the end of every turn what is due   *)
(* updates the belief and the trust in such hints.                         *)
(***************************************************************************)
EXTENDS ArenaGame, Brains

CONSTANTS
  MapArea,    \* the words of map_area
  Pairings,   \* bound: the entries that meet, by role
  Delays,     \* bound: observation_delay
  MaxLost,    \* bound: frames the channels lose in a game
  MaxLate     \* bound: decisions that miss their deadline

ASSUME MindAssumption ==
  /\ Pairings \subseteq [Roles -> Roster]
  /\ Delays \subseteq 0 .. 8
  /\ MaxLate \in Nat /\ MaxLost \in Nat

VARIABLES
  minds,    \* of each side: belief, reliability, own actions, recent cells
  channel,  \* what each side has yet to observe, the delay, and the frames lost
  brains,   \* the entry each side plays
  tally     \* of the decisions: all, fallbacks, invalid ones, late ones

mindVars == <<arenaVars, minds, channel, brains, tally>>

MindInit ==
  /\ ArenaInit
  /\ minds = [r \in Roles |->
                [belief |-> UniformFrom(Start[Opponent(r)]), reliability |-> NoReliability,
                 history |-> <<>>, recent |-> <<>>]]
  /\ channel \in [pending : {[r \in Roles |-> <<>>]}, delay : Delays, lost : {{}}]
  /\ brains \in Pairings
  /\ tally = [decisions |-> 0, fallbacks |-> 0, invalid |-> 0, late |-> 0]

----------------------------------------------------------------------------
(* One decision *)

RequestOf(r) == Request(local[r], minds[r].belief, minds[r].history)

\* No profile of the opponent is given, so nobody is trusted enough to be lied to.
HonestHint(q) ==
  Realize(ChooseIntent(q.state.position, FALSE, "mobility", TRUE), MapArea, 0)

Reply(action, words, code) == [action |-> action, words |-> words, code |-> code]

FallbackReply(q, code) == Reply(Fallback(q), HonestHint(q), code)

\* StrategyService.decide, for a brain that answers in time.
Settled(q, action) ==
  IF action \in LegalActions(q.state) /\ ~(q.state.role = "thief" /\ action.type = "BARRIER")
    THEN Reply(action, Realize(ProfiledIntent(brains[q.state.role], q), MapArea, 0), "DECIDED")
    ELSE FallbackReply(q, "FALLBACK_INVALID")

Replies(r) ==
  LET q == RequestOf(r)
  IN  {Settled(q, a) : a \in MayDecide(brains[r], q)}
        \cup IF tally.late < MaxLate THEN {FallbackReply(q, "FALLBACK_DEADLINE")} ELSE {}

\* build_outcome, one decision at a time.
Counted(code) ==
  [decisions |-> tally.decisions + 1,
   fallbacks |-> tally.fallbacks + Bit(code # "DECIDED"),
   invalid |-> tally.invalid + Bit(code = "FALLBACK_INVALID"),
   late |-> tally.late + Bit(code = "FALLBACK_DEADLINE")]

----------------------------------------------------------------------------
(* What it shows, and what is seen of it *)

RecentCells == 4

Remembered(mind, state, action) ==
  LET cells == Append(mind.recent, state.position)
      first == IF Len(cells) > RecentCells THEN 2 ELSE 1
  IN  [mind EXCEPT !.history = Append(@, action), !.recent = SubSeq(cells, first, Len(cells))]

\* The frame of the field after the action, before the turn's decay.
Shown(state, action, words) ==
  LET field == Table(AfterAction(scent[state.role], state, action))
  IN  [at |-> turn + channel.delay, step |-> state.step, words |-> words,
       field |-> Table([c \in DOMAIN field |-> Quantize(field[c]) * Quantum])]

Due(pending) == SelectSeq(pending, LAMBDA f : f.at <= turn)

\* Mutant: a frame that is due stays in the queue.
KeptLonger(pending) == SelectSeq(pending, LAMBDA f : f.at >= turn)

Kept(pending) == SelectSeq(pending, LAMBDA f : f.at > turn)

\* The recent cells it passes on are the observer's own.
Observe(mind, state, frame) ==
  [mind EXCEPT
     !.belief = Update(@, frame.field, state.barriers,
                       Covered(ParseCue(frame.words), Size), state.position, mind.recent),
     !.reliability = Scored(@, frame, frame.words)]

Observed(mind, state, frames) ==
  FoldLeft(LAMBDA known, frame : Observe(known, state, frame), mind, frames)

----------------------------------------------------------------------------
(* _apply, and _deliver when the turn is over *)

\* submit, unless the action ended the game: the frame is queued or lost.
Submitted(r, next, reply) ==
  LET to == Opponent(r)
      frame == Shown(next[r], reply.action, reply.words)
  IN  {[channel EXCEPT !.pending[to] = Append(@, frame)]}
        \cup IF Cardinality(channel.lost) < MaxLost
               THEN {[channel EXCEPT !.lost = @ \cup {<<to, frame.step>>}]} ELSE {}

Play(r) ==
  /\ outcome = None /\ r = mover
  /\ \E reply \in Replies(r) :
       LET action == reply.action
           moved == Transition(local[r], action)
           remembered == [minds EXCEPT ![r] = Remembered(@, moved, action)]
           over == Referee([local EXCEPT ![r] = moved], r, action) # None
       IN  /\ Apply(r, action)
           /\ tally' = Counted(reply.code)
           /\ IF over THEN minds' = remembered /\ UNCHANGED channel
              ELSE \E next \in Submitted(r, [local EXCEPT ![r] = moved], reply) :
                     IF r = "police" THEN minds' = remembered /\ channel' = next
                     ELSE /\ minds' = [s \in Roles |->
                                         Observed(remembered[s], local'[s], Due(next.pending[s]))]
                          /\ channel' = [next EXCEPT
                                           !.pending = [s \in Roles |-> Kept(next.pending[s])]]
  /\ UNCHANGED brains

MindNext == \E r \in Roles : Play(r)

MindSpec == MindInit /\ [][MindNext]_mindVars

----------------------------------------------------------------------------
(* Properties *)

(***************************************************************************)
(* No entry of the roster is ever overruled: in every situation two        *)
(* entries bring about, late decisions and lost frames included, what a    *)
(* brain picks from its own history and belief is legal, so that every     *)
(* fallback a match counts is a missed deadline (arena.py:92-103,          *)
(* evaders.py:68-75, outcome.py:69-84).                                    *)
(***************************************************************************)
NoBrainIsOverruled == tally.invalid = 0 /\ tally.fallbacks = tally.late

(***************************************************************************)
(* No player ever rules out where its opponent is: whatever was delayed,   *)
(* lost or a lie, the opponent's cell keeps weight in the belief it        *)
(* decides from, but for a Police that stands on its own barrier, which    *)
(* the mask takes out (grid.py:53-76, service.py:62-69, arena.py:146-155). *)
(***************************************************************************)
TruthStaysPossible ==
  outcome = None => \A r \in Roles :
    LET there == local[Opponent(r)].position
    IN  there \in Support(minds[r].belief) \cup local[r].barriers

(***************************************************************************)
(* Evidence comes once, in order and as late as the channel says: at the   *)
(* start of a turn a side still waits for exactly the frames of the last   *)
(* "delay" turns but those that were lost, and no hint was judged before   *)
(* its frame was due (observation.py:25-35, arena.py:88-90).               *)
(***************************************************************************)
EvidenceInOrder ==
  outcome = None /\ mover = "police" => \A r \in Roles :
    LET last == turn - 1 - channel.delay
        waiting == {s \in 1 .. turn - 1 : s > last /\ <<r, s>> \notin channel.lost}
        pending == channel.pending[r]
    IN  /\ [i \in DOMAIN pending |-> pending[i].step] = SetToSortSeq(waiting, <)
        /\ \A c \in DOMAIN minds[r].reliability : minds[r].reliability[c].last <= last

============================================================================
