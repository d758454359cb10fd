--------------------------- MODULE DecisionSearch ---------------------------
(***************************************************************************)
(* One call of StrategyService.decide with an advanced brain behind it:    *)
(* the iterative search of strategy/search.py over the candidates, one     *)
(* depth after another, with its cache and its two deadline checks, and    *)
(* the guard of strategy/service.py around it.  Time passes between any    *)
(* two readings of the clock.  What an evaluator returns is any of Scores; *)
(* "scored" remembers it, the code does not.                               *)
(***************************************************************************)
EXTENDS Integers, Sequences, FiniteSets, SequencesExt

CONSTANTS
  Movements,       \* the legal moves, and STAY
  BarrierActions,  \* the legal barriers of the Police
  Unlawful,        \* what no LegalActions has
  Horizon,         \* search_horizon
  CacheEntries,    \* cache_entries
  Scores,          \* the objectives an evaluation may have
  NearTie,         \* the tolerance of near_tie_epsilon
  GuardDeadline, Deadline,   \* in ticks of the clock
  MaxTime          \* bound: ticks the clock makes

ASSUME SearchAssumption ==
  /\ Horizon \in 1 .. 8
  /\ CacheEntries \in Nat \ {0}
  /\ Scores \subseteq Nat
  /\ NearTie \in Nat
  /\ GuardDeadline \in Nat /\ Deadline \in Nat /\ MaxTime \in Nat
  /\ GuardDeadline < Deadline
  /\ IsFiniteSet(Movements) /\ IsFiniteSet(BarrierActions)
  /\ Movements # {} /\ Movements \cap BarrierActions = {}

VARIABLES
  now,        \* the monotonic clock
  dphase,     \* where the call is
  asked,      \* role, candidates in order, and whether its hint can be written
  depth,      \* of the loop
  ranked,     \* objectives of this depth, in candidate order
  cache,      \* keys and values, least recently used first
  hits,       \* of the cache
  best,       \* of the last complete depth
  proposal,   \* what the brain returned
  decision,   \* what decide returned
  scored      \* what the evaluator said, by candidate and depth

searchVars == <<now, dphase, asked, depth, ranked, cache, hits, best, proposal,
                decision, scored>>

Nothing == [action |-> "none", reason |-> "none", depth |-> 0]

Proposal(action, reason, d) == [action |-> action, reason |-> reason, depth |-> d]

Legal == Movements \cup IF asked.role = "police" THEN BarrierActions ELSE {}

(***************************************************************************)
(* StrategyRequest: the Police keeps all movements and some barriers       *)
(* (police_candidates), the Thief has its movements.                       *)
(***************************************************************************)
Requests ==
  {[role |-> r, candidates |-> SetToSeq(Movements) \o SetToSeq(b), writable |-> w] :
     r \in {"police", "thief"}, b \in SUBSET BarrierActions, w \in BOOLEAN}

SearchInit ==
  /\ now = 0
  /\ dphase = "requested"
  /\ asked \in {q \in Requests :
                  q.role = "thief" => ToSet(q.candidates) \subseteq Movements}
  /\ depth = 1
  /\ ranked = <<>>
  /\ cache = <<>>
  /\ hits = 0
  /\ best = Nothing
  /\ proposal = Nothing
  /\ decision = Nothing
  /\ scored = [k \in {} |-> 0]

Tick ==
  /\ dphase \notin {"decided", "raised"}
  /\ now < MaxTime
  /\ now' = now + 1
  /\ UNCHANGED <<dphase, asked, depth, ranked, cache, hits, best, proposal,
                 decision, scored>>

----------------------------------------------------------------------------
(* The guard around the brain *)

\* fallback_decision: the baseline moves or stays; its hint may be unwritable.
FallBack(reason) ==
  IF asked.writable
    THEN /\ dphase' = "decided"
         /\ \E a \in Movements : decision' = Proposal(a, reason, 0)
    ELSE dphase' = "raised" /\ UNCHANGED decision

Ask ==
  /\ dphase = "requested"
  /\ IF now >= GuardDeadline THEN FallBack("FALLBACK_DEADLINE")
     ELSE dphase' = "searching" /\ UNCHANGED decision
  /\ UNCHANGED <<now, asked, depth, ranked, cache, hits, best, proposal, scored>>

\* Another class of the allowlist, or one that cannot be loaded.
OtherBrain ==
  /\ dphase = "searching"
  /\ depth = 1 /\ ranked = <<>> /\ cache = <<>>
  /\ \/ /\ asked.writable
        /\ dphase' = "answered"
        /\ \E a \in Movements \cup BarrierActions \cup Unlawful :
              proposal' = Proposal(a, "OTHER", 0)
     \/ dphase' = "failed" /\ UNCHANGED proposal
  /\ UNCHANGED <<now, asked, depth, ranked, cache, hits, best, decision, scored>>

\* Mutant: an answer that arrives too late stands.
GuardAnyTime ==
  /\ dphase \in {"answered", "failed"}
  /\ CASE dphase = "failed" -> FallBack("FALLBACK_EXCEPTION")
       [] dphase = "answered" /\ proposal.action \notin Legal ->
            FallBack("FALLBACK_INVALID")
       [] OTHER -> decision' = proposal /\ dphase' = "decided"
  /\ UNCHANGED <<now, asked, depth, ranked, cache, hits, best, proposal, scored>>

Guard ==
  /\ dphase \in {"answered", "failed"}
  /\ IF dphase = "failed" /\ ~asked.writable THEN FallBack("FALLBACK_EXCEPTION")
     ELSE IF now >= Deadline THEN FallBack("FALLBACK_DEADLINE")
     ELSE IF dphase = "failed" THEN FallBack("FALLBACK_EXCEPTION")
     ELSE IF proposal.action \notin Legal THEN FallBack("FALLBACK_INVALID")
     ELSE decision' = proposal /\ dphase' = "decided"
  /\ UNCHANGED <<now, asked, depth, ranked, cache, hits, best, proposal, scored>>

----------------------------------------------------------------------------
(* iterative_search *)

Count == Len(asked.candidates)

Current == asked.candidates[Len(ranked) + 1]

\* Mutant: the depth is not part of the key.
KeyWithoutDepth(action, d) == action

\* cache_key of the state, which never changes in one search, action and depth.
Key(action, d) == <<action, d>>

Cached == {i \in DOMAIN cache : cache[i][1] = Key(Current, depth)}

Evict(entries) == IF Len(entries) > CacheEntries THEN Tail(entries) ELSE entries

\* The deadline has passed before the next candidate: this depth is over.
LoopCheck ==
  /\ dphase = "searching"
  /\ Len(ranked) < Count
  /\ dphase' = IF now >= GuardDeadline THEN "stopped" ELSE "evaluating"
  /\ UNCHANGED <<now, asked, depth, ranked, cache, hits, best, proposal, decision, scored>>

(***************************************************************************)
(* get_or_compute: what it finds becomes the most recent entry; otherwise  *)
(* the evaluator reads the clock again and raises, or returns a score.     *)
(***************************************************************************)
Evaluate ==
  /\ dphase = "evaluating"
  /\ IF Cached # {}
       THEN \E i \in Cached :
              /\ ranked' = Append(ranked, cache[i][2])
              /\ cache' = Append(RemoveAt(cache, i), cache[i])
              /\ hits' = hits + 1
              /\ dphase' = "searching"
              /\ UNCHANGED scored
     ELSE IF now >= GuardDeadline
       THEN dphase' = "stopped" /\ UNCHANGED <<ranked, cache, hits, scored>>
     ELSE \E s \in Scores :
            /\ ranked' = Append(ranked, s)
            /\ cache' = Evict(Append(cache, <<Key(Current, depth), s>>))
            /\ scored' = [k \in DOMAIN scored \cup {<<Current, depth>>} |->
                            IF k = <<Current, depth>> THEN s ELSE scored[k]]
            /\ dphase' = "searching"
            /\ UNCHANGED hits
  /\ UNCHANGED <<now, asked, depth, best, proposal, decision>>

\* Only the Thief gives a random source, and a tolerance with it.
Tolerance == IF asked.role = "thief" THEN NearTie ELSE 0

Near(objectives) ==
  {i \in DOMAIN objectives :
     \A j \in DOMAIN objectives : objectives[j] - objectives[i] <= Tolerance}

First(indexes) == CHOOSE i \in indexes : \A j \in indexes : i <= j

Drawn(objectives) ==
  IF asked.role = "thief" THEN Near(objectives) ELSE {First(Near(objectives))}

(***************************************************************************)
(* Every candidate has its objective: the choice of this depth replaces    *)
(* the one of the depth before.                                            *)
(***************************************************************************)
CompleteDepth ==
  /\ dphase = "searching"
  /\ Len(ranked) = Count
  /\ \E i \in Drawn(ranked) :
        best' = Proposal(asked.candidates[i], "SEARCH", depth)
  /\ ranked' = <<>>
  /\ depth' = depth + 1
  /\ dphase' = IF depth = Horizon THEN "stopped" ELSE "searching"
  /\ UNCHANGED <<now, asked, cache, hits, proposal, decision, scored>>

\* Mutant: the best of what this depth has seen so far.
AnswerPartial ==
  /\ dphase = "stopped"
  /\ IF ranked = <<>> THEN
       /\ proposal' = best
       /\ dphase' = IF best = Nothing THEN "failed" ELSE "answered"
     ELSE /\ \E i \in Drawn(ranked) :
                proposal' = Proposal(asked.candidates[i], "SEARCH", depth)
          /\ dphase' = "answered"
  /\ UNCHANGED <<now, asked, depth, ranked, cache, hits, best, decision, scored>>

\* No depth was completed, or the hint of the choice cannot be written.
Answer ==
  /\ dphase = "stopped"
  /\ proposal' = best
  /\ dphase' = IF best = Nothing \/ ~asked.writable THEN "failed" ELSE "answered"
  /\ UNCHANGED <<now, asked, depth, ranked, cache, hits, best, decision, scored>>

SearchNext ==
  \/ Tick
  \/ Ask
  \/ OtherBrain
  \/ LoopCheck
  \/ Evaluate
  \/ CompleteDepth
  \/ Answer
  \/ Guard

SearchSpec == SearchInit /\ [][SearchNext]_searchVars

----------------------------------------------------------------------------
(* Properties *)

Decided == dphase = "decided"

(***************************************************************************)
(* What the search publishes is within the tolerance of the best at a      *)
(* depth at which every candidate was evaluated, with the scores of that   *)
(* depth and not of another one out of the cache, and no deeper depth was  *)
(* complete.  The cache keeps its limit, and is never of use: no search    *)
(* asks for a candidate and a depth twice (search.py:26-40, 108-142).      *)
(***************************************************************************)
ScoreAt(i, d) == scored[<<asked.candidates[i], d>>]

Complete(d) == \A i \in 1 .. Count : <<asked.candidates[i], d>> \in DOMAIN scored

PublishedIsBest ==
  /\ Decided /\ decision.reason = "SEARCH" =>
       /\ Complete(decision.depth)
       /\ ~Complete(decision.depth + 1)
       /\ \E i \in 1 .. Count :
            /\ asked.candidates[i] = decision.action
            /\ \A j \in 1 .. Count :
                 ScoreAt(j, decision.depth) - ScoreAt(i, decision.depth) <= Tolerance
  /\ Len(cache) <= CacheEntries /\ hits = 0

(***************************************************************************)
(* What decide returns is legal for the role that asked, a brain's own     *)
(* answer was in time, and a decision that is called late was late; the    *)
(* call never raises but for a map area whose words no hint may contain,   *)
(* and then for every brain (service.py:48-76, hints.py:107-116).          *)
(***************************************************************************)
LateReason == decision.reason = "FALLBACK_DEADLINE"

DecisionIsSound ==
  /\ Decided =>
       /\ decision.action \in Legal
       /\ decision.reason \in {"SEARCH", "OTHER"} => now < Deadline
       /\ LateReason => now >= GuardDeadline
  /\ dphase = "raised" => ~asked.writable

(***************************************************************************)
(* A decision is the best legal one the time allowed (search.py:26-142,    *)
(* service.py:48-76; the two parts above).                                 *)
(***************************************************************************)
BestInTime == PublishedIsBest /\ DecisionIsSound

============================================================================
