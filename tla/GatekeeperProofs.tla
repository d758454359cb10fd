-------------------------- MODULE GatekeeperProofs --------------------------
(***************************************************************************)
(* What Gatekeeper guarantees for every set of calls, every limit, quota   *)
(* and capacity and every cancellation: its types, that no slot is used    *)
(* twice or lies idle, and that the provider's quota holds.                *)
(***************************************************************************)
EXTENDS Gatekeeper, FiniteSetTheorems, SequenceTheorems, TLAPS

-----------------------------------------------------------------------------
(* The invariant. *)

Calling == [at : Stages, priority : Nat, retries : 0..MaxRetries, probe : BOOLEAN]

TypeInv ==
  /\ active \in Nat
  /\ waiters \in Seq(Callers)
  /\ callers \in [Callers -> Calling]
  /\ running \in Callers \cup {None}
  /\ circuit \in Circuits
  /\ tokens \in 0..Burst
  /\ daily \in 0..DailyQuota
  /\ session \in 0..SessionQuota
  /\ made \in Nat
  /\ days \in 0..MaxDays

Holders == {c \in Callers : callers[c].at \in Holding}

\* A slot is leaked only by the cancellation of a waiter that was just woken.
SlotsInv ==
  /\ Cardinality(Holders) <= active
  /\ active <= Limit
  /\ "woken" \notin Cancels => active = Cardinality(Holders)

\* The heap holds every queued call, once, and otherwise only cancelled ones
\* that have yet to leave it, and nobody waits while a slot is free.
HeapInv ==
  /\ \A i, j \in DOMAIN waiters : waiters[i] = waiters[j] => i = j
  /\ \A i \in DOMAIN waiters : callers[waiters[i]].at \in {"queued", "cancelled"}
  /\ \A c \in Callers : callers[c].at = "queued" => \E i \in DOMAIN waiters : waiters[i] = c
  /\ waiters # <<>> => active = Limit

\* The calls that have a unit of the quota and not yet called.
Paid == {"limit", "token", "ready"}
Charged == {c \in Callers : callers[c].at \in Paid}

\* Units taken before midnight for calls made after it are at most the slots.
QuotaInv == made + Cardinality(Charged) <= daily + Limit

IInv == TypeInv /\ SlotsInv /\ HeapInv /\ QuotaInv

-----------------------------------------------------------------------------
(* Sequences. *)

LEMMA Inserted ==
  ASSUME NEW S, NEW s \in Seq(S), NEW i \in 1..(Len(s) + 1), NEW e \in S
  PROVE  /\ InsertAt(s, i, e) \in Seq(S)
         /\ Len(InsertAt(s, i, e)) = Len(s) + 1
         /\ \A j \in 1..(Len(s) + 1) :
              InsertAt(s, i, e)[j] = IF j < i THEN s[j] ELSE IF j = i THEN e ELSE s[j - 1]
<1> DEFINE front == SubSeq(s, 1, i - 1)
           back == SubSeq(s, i, Len(s))
           mid == front \o <<e>>
<1>1. Len(s) \in Nat /\ \A j \in 1..Len(s) : s[j] \in S
  BY LenProperties, ElementOfSeq
<1>2. front \in Seq(S) /\ Len(front) = i - 1 /\ \A j \in 1..(i - 1) : front[j] = s[j]
  <2>1. \A j \in 1..(i - 1) : s[j] \in S
    BY <1>1
  <2>2. QED
    BY <1>1, <2>1, SubSeqProperties
<1>3. /\ back \in Seq(S) /\ Len(back) = Len(s) + 1 - i
      /\ \A j \in 1..(Len(s) + 1 - i) : back[j] = s[i + j - 1]
  <2>1. \A j \in i..Len(s) : s[j] \in S
    BY <1>1
  <2>2. QED
    BY <1>1, <2>1, SubSeqProperties
<1>4. <<e>> \in Seq(S) /\ Len(<<e>>) = 1 /\ <<e>>[1] = e
  OBVIOUS
<1> HIDE DEF front, back
<1>5. /\ mid \in Seq(S) /\ Len(mid) = i
      /\ \A j \in 1..i : mid[j] = IF j < i THEN s[j] ELSE e
  BY <1>1, <1>2, <1>4, ConcatProperties
<1>6. InsertAt(s, i, e) = mid \o back
  BY DEF InsertAt, front, back
<1> HIDE DEF mid
<1>7. /\ mid \o back \in Seq(S) /\ Len(mid \o back) = Len(mid) + Len(back)
      /\ \A j \in 1..(Len(mid) + Len(back)) :
           (mid \o back)[j] = IF j <= Len(mid) THEN mid[j] ELSE back[j - Len(mid)]
  BY <1>3, <1>5, ConcatProperties
<1>8. \A j \in 1..(Len(s) + 1) : j > i => back[j - i] = s[j - 1]
  BY <1>1, <1>3
<1>9. Len(mid) + Len(back) = Len(s) + 1
  BY <1>1, <1>3, <1>5
<1>10. ASSUME NEW j \in 1..(Len(s) + 1)
       PROVE  (mid \o back)[j] = IF j < i THEN s[j] ELSE IF j = i THEN e ELSE s[j - 1]
  <2>1. CASE j <= i
    BY <1>5, <1>7, <1>9, <2>1
  <2>2. CASE j > i
    BY <1>5, <1>7, <1>8, <1>9, <2>2
  <2>3. j <= i \/ j > i
    BY <1>1
  <2>4. QED
    BY <2>1, <2>2, <2>3
<1>11. QED
  BY <1>6, <1>7, <1>9, <1>10

LEMMA Removed ==
  ASSUME NEW S, NEW s \in Seq(S), NEW i \in 1..Len(s)
  PROVE  /\ RemoveAt(s, i) \in Seq(S)
         /\ Len(RemoveAt(s, i)) = Len(s) - 1
         /\ \A j \in 1..(Len(s) - 1) :
              RemoveAt(s, i)[j] = IF j < i THEN s[j] ELSE s[j + 1]
<1> DEFINE front == SubSeq(s, 1, i - 1)
           back == SubSeq(s, i + 1, Len(s))
<1>1. Len(s) \in Nat /\ \A j \in 1..Len(s) : s[j] \in S
  BY LenProperties, ElementOfSeq
<1>2. front \in Seq(S) /\ Len(front) = i - 1 /\ \A j \in 1..(i - 1) : front[j] = s[j]
  <2>1. \A j \in 1..(i - 1) : s[j] \in S
    BY <1>1
  <2>2. QED
    BY <1>1, <2>1, SubSeqProperties
<1>3. /\ back \in Seq(S) /\ Len(back) = Len(s) - i
      /\ \A j \in 1..(Len(s) - i) : back[j] = s[i + j]
  <2>1. \A j \in (i + 1)..Len(s) : s[j] \in S
    BY <1>1
  <2>2. QED
    BY <1>1, <2>1, SubSeqProperties
<1> HIDE DEF front, back
<1>4. RemoveAt(s, i) = front \o back
  BY DEF RemoveAt, front, back
<1>5. /\ front \o back \in Seq(S) /\ Len(front \o back) = Len(front) + Len(back)
      /\ \A j \in 1..(Len(front) + Len(back)) :
           (front \o back)[j] = IF j <= Len(front) THEN front[j] ELSE back[j - Len(front)]
  BY <1>2, <1>3, ConcatProperties
<1>6. QED
  BY <1>1, <1>2, <1>3, <1>4, <1>5

-----------------------------------------------------------------------------
(* Calls that change their stage. *)

LEMMA Counted ==
  ASSUME NEW n \in Nat
  PROVE  IsFiniteSet(1..n) /\ Cardinality(1..n) = n
<1>1. IsFiniteSet(1..n) /\ Cardinality(1..n) = IF 1 > n THEN 0 ELSE n - 1 + 1
  BY FS_Interval
<1>2. QED
  BY <1>1

LEMMA Sets ==
  TypeInv =>
    /\ IsFiniteSet(Holders) /\ IsFiniteSet(Charged)
    /\ Cardinality(Holders) \in Nat /\ Cardinality(Charged) \in Nat
    /\ Cardinality(Charged) <= Cardinality(Holders)
<1>1. Charged \subseteq Holders /\ Holders \subseteq Callers
  BY DEF Charged, Paid, Holders, Holding, Suspended
<1>2. QED
  BY <1>1, FS_Subset, FS_CardinalityType, CallersAssumption

Weight(stage, stages) == IF stage \in stages THEN 1 ELSE 0

\* One call moves: the counts of two sets of stages follow it.
LEMMA Moved ==
  ASSUME TypeInv, NEW c \in Callers, NEW call \in Calling,
         callers' = [callers EXCEPT ![c] = call]
  PROVE  /\ callers' \in [Callers -> Calling]
         /\ Cardinality(Holders') = Cardinality(Holders)
              + Weight(call.at, Holding) - Weight(callers[c].at, Holding)
         /\ Cardinality(Charged') = Cardinality(Charged)
              + Weight(call.at, Paid)
              - Weight(callers[c].at, Paid)
<1>1. callers' \in [Callers -> Calling]
  BY DEF TypeInv
<1>2. Holders' = IF call.at \in Holding THEN Holders \cup {c} ELSE Holders \ {c}
  BY DEF TypeInv, Holders
<1>3. Charged' = IF call.at \in Paid
                 THEN Charged \cup {c} ELSE Charged \ {c}
  BY DEF TypeInv, Charged
<1>4. /\ c \in Holders <=> callers[c].at \in Holding
      /\ c \in Charged <=> callers[c].at \in Paid
  BY DEF Holders, Charged
<1>5. /\ Cardinality(Holders \cup {c}) =
           IF c \in Holders THEN Cardinality(Holders) ELSE Cardinality(Holders) + 1
      /\ Cardinality(Holders \ {c}) =
           IF c \in Holders THEN Cardinality(Holders) - 1 ELSE Cardinality(Holders)
      /\ Cardinality(Charged \cup {c}) =
           IF c \in Charged THEN Cardinality(Charged) ELSE Cardinality(Charged) + 1
      /\ Cardinality(Charged \ {c}) =
           IF c \in Charged THEN Cardinality(Charged) - 1 ELSE Cardinality(Charged)
  BY Sets, FS_AddElement, FS_RemoveElement
<1>6. Cardinality(Holders') = Cardinality(Holders)
              + Weight(call.at, Holding) - Weight(callers[c].at, Holding)
  BY <1>2, <1>4, <1>5, Sets DEF Weight
<1>7. Cardinality(Charged') = Cardinality(Charged)
              + Weight(call.at, Paid)
              - Weight(callers[c].at, Paid)
  BY <1>3, <1>4, <1>5, Sets DEF Weight
<1>8. QED
  BY <1>1, <1>6, <1>7

\* A call that was not waiting and does not start to leaves the heap as it was.
LEMMA HeapKept ==
  ASSUME TypeInv, HeapInv, NEW c \in Callers, NEW call \in Calling,
         callers' = [callers EXCEPT ![c] = call], UNCHANGED <<active, waiters>>,
         callers[c].at \notin {"queued", "cancelled"}, call.at # "queued"
  PROVE  HeapInv'
  BY DEF TypeInv, HeapInv

\* The types of all a step changes but the call it is of, the slots and the heap.
RestTyped ==
  /\ running \in Callers \cup {None}
  /\ circuit \in Circuits
  /\ tokens \in 0..Burst
  /\ daily \in 0..DailyQuota
  /\ session \in 0..SessionQuota
  /\ made \in Nat
  /\ days \in 0..MaxDays

\* A call that neither waits nor lets a slot go, and pays before it calls.
LEMMA GoesOn ==
  ASSUME IInv, NEW c \in Callers, NEW call \in Calling,
         callers' = [callers EXCEPT ![c] = call], UNCHANGED <<active, waiters>>,
         callers[c].at \in Holding, call.at \in Holding, RestTyped',
         made' + Weight(call.at, Paid) - daily'
           <= made + Weight(callers[c].at, Paid) - daily
  PROVE  IInv'
<1>1. TypeInv'
  BY Moved DEF IInv, TypeInv, RestTyped
<1>2. Cardinality(Holders') = Cardinality(Holders)
  <2>1. Cardinality(Holders') = Cardinality(Holders)
          + Weight(call.at, Holding) - Weight(callers[c].at, Holding)
    BY Moved DEF IInv
  <2>2. Weight(call.at, Holding) = 1 /\ Weight(callers[c].at, Holding) = 1
    BY DEF Weight
  <2>3. QED
    BY <2>1, <2>2, Sets DEF IInv
<1>3. SlotsInv'
  BY <1>2 DEF IInv, SlotsInv
<1>4. HeapInv'
  BY HeapKept DEF IInv, Holding, Suspended
<1>5. QuotaInv'
  <2>1. Cardinality(Charged') =
          Cardinality(Charged) + Weight(call.at, Paid) - Weight(callers[c].at, Paid)
    BY Moved DEF IInv
  <2>2. /\ Weight(call.at, Paid) \in Nat /\ Weight(callers[c].at, Paid) \in Nat
        /\ Cardinality(Charged) \in Nat /\ made \in Nat /\ daily \in Nat
        /\ made' \in Nat /\ daily' \in Nat
    BY Sets DEF IInv, TypeInv, RestTyped, Weight
  <2>3. QED
    BY <2>1, <2>2, LimitsAssumption DEF IInv, QuotaInv
<1>6. QED
  BY <1>1, <1>3, <1>4, <1>5 DEF IInv

\* The stage a call goes to, and what it counts for.
LEMMA NextStage ==
  ASSUME IInv, NEW c \in Callers, NEW stage \in Stages
  PROVE  /\ [callers[c] EXCEPT !.at = stage] \in Calling
         /\ [callers[c] EXCEPT !.at = stage].at = stage
         /\ Goes(c, stage) =>
              callers' = [callers EXCEPT ![c] = [callers[c] EXCEPT !.at = stage]]
  BY DEF IInv, TypeInv, Calling, Goes

LEMMA StageFacts ==
  /\ Holding = {"woken", "admitted", "attempt", "limit", "leaving",
                "token", "ready", "calling", "backoff"}
  /\ Holding \subseteq Stages
  /\ \A stage \in Stages : Weight(stage, Paid) = IF stage \in Paid THEN 1 ELSE 0
  BY DEF Holding, Suspended, Stages, Weight

\* What the circuit becomes is a circuit.
LEMMA Breaker ==
  ASSUME NEW c \in Circuits
  PROVE  /\ Closed \in Circuits /\ Succeeded \in Circuits
         /\ Current(c) \in Circuits /\ Asked(c) \in Circuits /\ Failed(c) \in Circuits
         /\ [c EXCEPT !.cooled = TRUE] \in Circuits
<1>1. Closed \in Circuits /\ Succeeded \in Circuits
  BY ThresholdAssumption DEF Circuits, Closed, Succeeded
<1>2. Current(c) \in Circuits /\ Asked(c) \in Circuits
  BY DEF Circuits, Current, Asked
<1>3. Failed(c) \in Circuits
  <2> DEFINE failures == IF c.failures < Threshold THEN c.failures + 1 ELSE Threshold
  <2>1. failures \in 0..Threshold
    BY ThresholdAssumption DEF Circuits
  <2>2. Failed(c) = IF c.state = "half-open" \/ failures = Threshold
          THEN [state |-> "open", failures |-> failures, probe |-> FALSE, cooled |-> FALSE]
          ELSE [c EXCEPT !.failures = failures]
    BY DEF Failed
  <2> HIDE DEF failures
  <2>3. QED
    BY <2>1, <2>2 DEF Circuits
<1>4. [c EXCEPT !.cooled = TRUE] \in Circuits
  BY DEF Circuits
<1>5. QED
  BY <1>1, <1>2, <1>3, <1>4

-----------------------------------------------------------------------------
(* The steps of a call. *)

\* A stage change alone, within the held slot.
LEMMA GoesTo ==
  ASSUME IInv, NEW c \in Callers, NEW stage \in Holding, Goes(c, stage),
         UNCHANGED <<active, waiters>>, callers[c].at \in Holding, RestTyped',
         made' + (IF stage \in Paid THEN 1 ELSE 0) - daily'
           <= made + (IF callers[c].at \in Paid THEN 1 ELSE 0) - daily
  PROVE  IInv'
<1> DEFINE call == [callers[c] EXCEPT !.at = stage]
<1>1. call \in Calling /\ call.at = stage /\ callers' = [callers EXCEPT ![c] = call]
  BY NextStage, StageFacts
<1> HIDE DEF call
<1>2. made' + Weight(call.at, Paid) - daily' <= made + Weight(callers[c].at, Paid) - daily
  BY <1>1 DEF Weight
<1>3. QED
  BY <1>1, <1>2, GoesOn

\* A stage change that no unit of the quota is behind.
LEMMA GoesUnpaid ==
  ASSUME IInv, NEW c \in Callers, NEW stage \in Holding \ Paid, Goes(c, stage),
         UNCHANGED <<active, waiters>>, callers[c].at \in Holding, RestTyped',
         UNCHANGED <<made, daily>>
  PROVE  IInv'
<1>1. made' + (IF stage \in Paid THEN 1 ELSE 0) - daily'
        <= made + (IF callers[c].at \in Paid THEN 1 ELSE 0) - daily
  BY DEF IInv, TypeInv
<1>2. QED
  BY <1>1, GoesTo

-----------------------------------------------------------------------------
(* The steps of a call that holds a slot. *)

LEMMA ResumeStep ==
  ASSUME IInv, NEW c \in Callers, Resume(c)
  PROVE  IInv'
<1>1. RestTyped'
  BY DEF Resume, IInv, TypeInv, RestTyped, quota
<1>2. callers[c].at \in Holding /\ "admitted" \in Holding \ Paid
  BY StageFacts DEF Resume, Paid
<1>3. QED
  BY <1>1, <1>2, GoesUnpaid DEF Resume, quota

LEMMA AllowStep ==
  ASSUME IInv, NEW c \in Callers, Allow(c)
  PROVE  IInv'
<1>1. RestTyped'
  BY Breaker DEF Allow, IInv, TypeInv, RestTyped, quota
<1>2. /\ callers[c].at \in Holding /\ "leaving" \in Holding \ Paid
      /\ "attempt" \in Holding \ Paid /\ callers[c].at \notin Paid
  BY StageFacts DEF Allow, Paid
<1>3. CASE Allows(circuit)
  <2> DEFINE call == [callers[c] EXCEPT !.at = "attempt",
                                        !.probe = (Current(circuit).state = "half-open")]
  <2>1. call \in Calling /\ call.at = "attempt"
    BY <1>2, StageFacts DEF IInv, TypeInv, Calling
  <2>2. callers' = [callers EXCEPT ![c] = call]
    BY <1>3 DEF Allow
  <2> HIDE DEF call
  <2>3. UNCHANGED <<active, waiters, made, daily>>
    BY DEF Allow, quota
  <2>4. made' + Weight(call.at, Paid) - daily' <= made + Weight(callers[c].at, Paid) - daily
    BY <1>2, <2>1, <2>3 DEF Weight, IInv, TypeInv
  <2>5. QED
    BY <1>1, <1>2, <2>1, <2>2, <2>3, <2>4, GoesOn
<1>4. CASE ~Allows(circuit)
  BY <1>1, <1>2, <1>4, GoesUnpaid DEF Allow, quota
<1>5. QED
  BY <1>3, <1>4

LEMMA ConsumeStep ==
  ASSUME IInv, NEW c \in Callers, Consume(c)
  PROVE  IInv'
<1>1. /\ callers[c].at \in Holding \ Paid /\ "leaving" \in Holding \ Paid
      /\ "limit" \in Holding \cap Paid
  BY StageFacts DEF Consume, Paid
<1>2. CASE /\ daily < DailyQuota /\ session < SessionQuota
           /\ Goes(c, "limit") /\ daily' = daily + 1 /\ session' = session + 1
  <2>1. RestTyped'
    BY <1>2, LimitsAssumption DEF Consume, IInv, TypeInv, RestTyped
  <2>2. made' + (IF "limit" \in Paid THEN 1 ELSE 0) - daily'
          <= made + (IF callers[c].at \in Paid THEN 1 ELSE 0) - daily
    BY <1>1, <1>2 DEF Consume, IInv, TypeInv
  <2>3. QED
    BY <1>1, <1>2, <2>1, <2>2, GoesTo DEF Consume
<1>3. CASE Goes(c, "leaving") /\ UNCHANGED <<daily, session>>
  <2>1. RestTyped'
    BY <1>3 DEF Consume, IInv, TypeInv, RestTyped
  <2>2. QED
    BY <1>1, <1>3, <2>1, GoesUnpaid DEF Consume
<1>4. QED
  BY <1>2, <1>3 DEF Consume

\* The call of the provider that both ways to a token end in.
LEMMA CallsStep ==
  ASSUME IInv, NEW c \in Callers, Calls(c), callers[c].at \in Paid,
         UNCHANGED <<active, waiters, circuit, daily, session, days>>
  PROVE  IInv'
<1>1. RestTyped'
  BY LimitsAssumption DEF Calls, IInv, TypeInv, RestTyped
<1>2. callers[c].at \in Holding /\ "calling" \in Holding \ Paid
  BY StageFacts DEF Paid
<1>3. made' + (IF "calling" \in Paid THEN 1 ELSE 0) - daily'
        <= made + (IF callers[c].at \in Paid THEN 1 ELSE 0) - daily
  BY <1>2 DEF Calls, IInv, TypeInv
<1>4. QED
  BY <1>1, <1>2, <1>3, GoesTo DEF Calls

LEMMA TakeTokenStep ==
  ASSUME IInv, NEW c \in Callers, TakeToken(c)
  PROVE  IInv'
<1>1. /\ callers[c].at \in Holding \cap Paid /\ "leaving" \in Holding \ Paid
      /\ "token" \in Holding \cap Paid
  BY StageFacts DEF TakeToken, Paid
<1>2. CASE Calls(c)
  BY <1>1, <1>2, CallsStep DEF TakeToken
<1>3. CASE Goes(c, "token") /\ running' = None /\ UNCHANGED <<tokens, made>>
  <2>1. RestTyped'
    BY <1>3 DEF TakeToken, IInv, TypeInv, RestTyped
  <2>2. made' + (IF "token" \in Paid THEN 1 ELSE 0) - daily'
          <= made + (IF callers[c].at \in Paid THEN 1 ELSE 0) - daily
    BY <1>1, <1>3 DEF TakeToken, IInv, TypeInv
  <2>3. QED
    BY <1>1, <1>3, <2>1, <2>2, GoesTo DEF TakeToken
<1>4. CASE Goes(c, "leaving") /\ UNCHANGED <<running, tokens, made>>
  <2>1. RestTyped'
    BY <1>4 DEF TakeToken, IInv, TypeInv, RestTyped
  <2>2. QED
    BY <1>1, <1>4, <2>1, GoesUnpaid DEF TakeToken
<1>5. QED
  BY <1>2, <1>3, <1>4 DEF TakeToken

LEMMA AfterWaitStep ==
  ASSUME IInv, NEW c \in Callers, AfterWait(c)
  PROVE  IInv'
<1>1. callers[c].at \in Holding \cap Paid /\ "leaving" \in Holding \ Paid
  BY StageFacts DEF AfterWait, Paid
<1>2. CASE Calls(c)
  BY <1>1, <1>2, CallsStep DEF AfterWait
<1>3. CASE Goes(c, "leaving") /\ running' = c /\ UNCHANGED <<tokens, made>>
  <2>1. RestTyped'
    BY <1>3 DEF AfterWait, IInv, TypeInv, RestTyped
  <2>2. QED
    BY <1>1, <1>3, <2>1, GoesUnpaid DEF AfterWait
<1>4. QED
  BY <1>2, <1>3 DEF AfterWait

LEMMA AnswerStep ==
  ASSUME IInv, NEW c \in Callers, Answer(c)
  PROVE  IInv'
<1>1. /\ callers[c].at \in Holding \ Paid /\ "leaving" \in Holding \ Paid
      /\ "backoff" \in Holding \ Paid
  BY StageFacts DEF Answer, Paid
<1>2. RestTyped'
  BY Breaker DEF Answer, IInv, TypeInv, RestTyped, quota
<1>3. CASE Goes(c, "leaving")
  BY <1>1, <1>2, <1>3, GoesUnpaid DEF Answer, quota
<1>4. CASE /\ callers[c].retries < MaxRetries
           /\ callers' = [callers EXCEPT ![c].at = "backoff", ![c].retries = @ + 1]
  <2> DEFINE call == [callers[c] EXCEPT !.at = "backoff", !.retries = callers[c].retries + 1]
  <2>1. call \in Calling /\ call.at = "backoff"
    <3>1. callers[c] \in Calling
      BY DEF IInv, TypeInv
    <3>2. callers[c].retries \in 0..MaxRetries
      BY <3>1 DEF Calling
    <3>3. callers[c].retries + 1 \in 0..MaxRetries
      BY <1>4, <3>2, LimitsAssumption
    <3>4. QED
      BY <1>1, <3>1, <3>3, StageFacts DEF Calling
  <2>2. callers' = [callers EXCEPT ![c] = call]
    BY <1>4 DEF IInv, TypeInv, Calling
  <2> HIDE DEF call
  <2>3. UNCHANGED <<active, waiters, made, daily>>
    BY DEF Answer, quota
  <2>4. made' + Weight(call.at, Paid) - daily' <= made + Weight(callers[c].at, Paid) - daily
    BY <1>1, <2>1, <2>3 DEF Weight, IInv, TypeInv
  <2>5. QED
    BY <1>1, <1>2, <2>1, <2>2, <2>3, <2>4, GoesOn
<1>5. QED
  BY <1>3, <1>4 DEF Answer

LEMMA RetryStep ==
  ASSUME IInv, NEW c \in Callers, Retry(c)
  PROVE  IInv'
<1>1. RestTyped'
  BY DEF Retry, IInv, TypeInv, RestTyped, quota
<1>2. callers[c].at \in Holding /\ "attempt" \in Holding \ Paid
  BY StageFacts DEF Retry, Paid
<1>3. QED
  BY <1>1, <1>2, GoesUnpaid DEF Retry, quota

-----------------------------------------------------------------------------
(* Admission, release and cancellation. *)

LEMMA ExecuteStep ==
  ASSUME IInv, NEW c \in Callers, NEW p \in Priorities, Execute(c, p)
  PROVE  IInv'
<1> DEFINE call(stage) == [Idle EXCEPT !.at = stage, !.priority = p]
<1>1. ASSUME NEW stage \in Stages
      PROVE  call(stage) \in Calling /\ call(stage).at = stage
  <2>1. Idle \in Calling /\ p \in Nat
    BY LimitsAssumption DEF Calling, Idle, Stages
  <2>2. QED
    BY <2>1 DEF Calling
<1>2. /\ "admitted" \in Stages /\ "queued" \in Stages /\ "idle" \notin Holding
      /\ "queued" \notin Holding /\ "admitted" \in Holding /\ callers[c].at = "idle"
  BY StageFacts DEF Stages, Execute
<1> HIDE DEF call
<1>3. CASE /\ active < Limit /\ waiters = <<>> /\ active' = active + 1 /\ UNCHANGED waiters
           /\ callers' = [callers EXCEPT ![c] = call("admitted")] /\ running' = c
  <2>1. /\ Cardinality(Holders') = Cardinality(Holders) + 1
        /\ Cardinality(Charged') = Cardinality(Charged)
    <3>1. /\ Weight("admitted", Holding) = 1 /\ Weight(callers[c].at, Holding) = 0
          /\ Weight("admitted", Paid) = 0 /\ Weight(callers[c].at, Paid) = 0
      BY <1>2 DEF Weight, Paid
    <3>2. call("admitted") \in Calling /\ call("admitted").at = "admitted"
      BY <1>1, <1>2
    <3>3. /\ Cardinality(Holders') = Cardinality(Holders)
               + Weight("admitted", Holding) - Weight(callers[c].at, Holding)
          /\ Cardinality(Charged') = Cardinality(Charged)
               + Weight("admitted", Paid) - Weight(callers[c].at, Paid)
      BY <1>3, <3>2, Moved DEF IInv
    <3>4. QED
      BY <3>1, <3>3, Sets DEF IInv
  <2>2. TypeInv'
    BY <1>1, <1>2, <1>3, Moved DEF Execute, IInv, TypeInv, quota
  <2>3. SlotsInv'
    BY <1>3, <2>1, Sets, LimitsAssumption DEF IInv, TypeInv, SlotsInv
  <2>4. HeapInv'
    BY <1>1, <1>2, <1>3 DEF IInv, TypeInv, HeapInv
  <2>5. QuotaInv'
    BY <2>1 DEF Execute, quota, IInv, QuotaInv
  <2>6. QED
    BY <2>2, <2>3, <2>4, <2>5 DEF IInv
<1>4. CASE /\ ~(active < Limit /\ waiters = <<>>) /\ waiters' = Queued(c, p)
           /\ callers' = [callers EXCEPT ![c] = call("queued")]
           /\ UNCHANGED <<active, running>>
  <2>1. /\ Cardinality(Holders') = Cardinality(Holders)
        /\ Cardinality(Charged') = Cardinality(Charged)
    <3>1. /\ Weight("queued", Holding) = 0 /\ Weight(callers[c].at, Holding) = 0
          /\ Weight("queued", Paid) = 0 /\ Weight(callers[c].at, Paid) = 0
      BY <1>2 DEF Weight, Paid
    <3>2. call("queued") \in Calling /\ call("queued").at = "queued"
      BY <1>1, <1>2
    <3>3. /\ Cardinality(Holders') = Cardinality(Holders)
               + Weight("queued", Holding) - Weight(callers[c].at, Holding)
          /\ Cardinality(Charged') = Cardinality(Charged)
               + Weight("queued", Paid) - Weight(callers[c].at, Paid)
      BY <1>4, <3>2, Moved DEF IInv
    <3>4. QED
      BY <3>1, <3>3, Sets DEF IInv
  <2>2. PICK i \in 1..(Len(waiters) + 1) : waiters' = InsertAt(waiters, i, c)
    <3> DEFINE before == {i \in DOMAIN waiters : callers[waiters[i]].priority <= p}
    <3>1. Len(waiters) \in Nat /\ before \subseteq 1..Len(waiters)
      BY LenProperties DEF IInv, TypeInv
    <3>2. Cardinality(before) \in 0..Len(waiters)
      <4>1. IsFiniteSet(1..Len(waiters)) /\ Cardinality(1..Len(waiters)) = Len(waiters)
        BY <3>1, Counted
      <4>2. IsFiniteSet(before) /\ Cardinality(before) <= Len(waiters)
        BY <3>1, <4>1, FS_Subset
      <4>3. QED
        BY <3>1, <4>2, FS_CardinalityType
    <3>3. waiters' = InsertAt(waiters, Cardinality(before) + 1, c)
      BY <1>4 DEF Queued
    <3> HIDE DEF before
    <3>4. Cardinality(before) + 1 \in 1..(Len(waiters) + 1)
      BY <3>1, <3>2
    <3>5. QED
      BY <3>3, <3>4
  <2>3. waiters \in Seq(Callers) /\ Len(waiters) \in Nat /\ DOMAIN waiters = 1..Len(waiters)
    BY LenProperties DEF IInv, TypeInv
  <2>4. /\ waiters' \in Seq(Callers) /\ DOMAIN waiters' = 1..(Len(waiters) + 1)
        /\ \A j \in 1..(Len(waiters) + 1) :
             waiters'[j] = IF j < i THEN waiters[j] ELSE IF j = i THEN c ELSE waiters[j - 1]
    <3>1. /\ waiters' \in Seq(Callers) /\ Len(waiters') = Len(waiters) + 1
          /\ \A j \in 1..(Len(waiters) + 1) :
               waiters'[j] = IF j < i THEN waiters[j] ELSE IF j = i THEN c ELSE waiters[j - 1]
      <4>1. /\ InsertAt(waiters, i, c) \in Seq(Callers)
            /\ Len(InsertAt(waiters, i, c)) = Len(waiters) + 1
            /\ \A j \in 1..(Len(waiters) + 1) : InsertAt(waiters, i, c)[j] =
                 IF j < i THEN waiters[j] ELSE IF j = i THEN c ELSE waiters[j - 1]
        BY <2>3, Inserted
      <4>2. QED
        BY <2>2, <4>1
    <3>2. QED
      BY <3>1, LenProperties
  <2>5. \A j \in DOMAIN waiters : waiters[j] # c
    BY <1>2 DEF IInv, HeapInv
  <2>6. TypeInv'
    BY <1>1, <1>2, <1>4, <2>4, Moved DEF Execute, IInv, TypeInv, quota
  <2>7. SlotsInv'
    BY <1>4, <2>1 DEF IInv, SlotsInv
  <2>8. HeapInv'
    <3>1. \A j, k \in DOMAIN waiters' : waiters'[j] = waiters'[k] => j = k
      BY <2>3, <2>4, <2>5 DEF IInv, HeapInv
    <3>2. \A j \in DOMAIN waiters' :
             waiters'[j] = c \/ \E k \in DOMAIN waiters : waiters'[j] = waiters[k]
      BY <2>3, <2>4
    <3>3. \A j \in DOMAIN waiters' : callers'[waiters'[j]].at \in {"queued", "cancelled"}
      BY <1>1, <1>2, <1>4, <2>3, <3>2, ElementOfSeq DEF IInv, TypeInv, HeapInv
    <3>4. /\ i \in DOMAIN waiters' /\ waiters'[i] = c
          /\ \A j \in DOMAIN waiters : \E k \in DOMAIN waiters' : waiters'[k] = waiters[j]
      <4>1. ASSUME NEW j \in DOMAIN waiters
            PROVE  \E k \in DOMAIN waiters' : waiters'[k] = waiters[j]
        <5>1. j < i => j \in DOMAIN waiters' /\ waiters'[j] = waiters[j]
          BY <2>3, <2>4
        <5>2. j >= i => j + 1 \in DOMAIN waiters' /\ waiters'[j + 1] = waiters[j]
          BY <2>3, <2>4
        <5>3. QED
          BY <2>3, <5>1, <5>2
      <4>2. QED
        BY <2>3, <2>4, <4>1
    <3>5. \A d \in Callers : callers'[d].at = "queued" => \E j \in DOMAIN waiters' : waiters'[j] = d
      BY <1>4, <3>4 DEF IInv, TypeInv, HeapInv
    <3>6. active = Limit
      BY <1>4, LimitsAssumption DEF IInv, TypeInv, SlotsInv, HeapInv
    <3>7. QED
      BY <1>4, <3>1, <3>3, <3>5, <3>6 DEF HeapInv
  <2>9. QuotaInv'
    BY <2>1 DEF Execute, quota, IInv, QuotaInv
  <2>10. QED
    BY <2>6, <2>7, <2>8, <2>9 DEF IInv
<1>5. QED
  BY <1>3, <1>4 DEF Execute, call

\* The heap after release: the waiters behind the one that is woken.
LEMMA Popped ==
  ASSUME IInv, NEW n \in DOMAIN waiters, waiters' = SubSeq(waiters, n + 1, Len(waiters))
  PROVE  /\ waiters' \in Seq(Callers) /\ DOMAIN waiters' = 1..(Len(waiters) - n)
         /\ Len(waiters) \in Nat /\ DOMAIN waiters = 1..Len(waiters)
         /\ \A j \in 1..(Len(waiters) - n) : waiters'[j] = waiters[n + j]
<1>1. /\ waiters \in Seq(Callers) /\ Len(waiters) \in Nat
      /\ DOMAIN waiters = 1..Len(waiters) /\ \A j \in 1..Len(waiters) : waiters[j] \in Callers
  BY LenProperties, ElementOfSeq DEF IInv, TypeInv
<1>2. \A j \in (n + 1)..Len(waiters) : waiters[j] \in Callers
  BY <1>1
<1>3. /\ SubSeq(waiters, n + 1, Len(waiters)) \in Seq(Callers)
      /\ Len(SubSeq(waiters, n + 1, Len(waiters))) = Len(waiters) - n
      /\ \A j \in 1..(Len(waiters) - n) :
           SubSeq(waiters, n + 1, Len(waiters))[j] = waiters[n + j]
  BY <1>1, <1>2, SubSeqProperties
<1>4. QED
  BY <1>1, <1>3, LenProperties

LEMMA LeaveStep ==
  ASSUME IInv, NEW c \in Callers, Leave(c)
  PROVE  IInv'
<1>1. /\ callers[c].at = "leaving" /\ Idle \in Calling /\ Idle.at = "idle"
      /\ "idle" \notin Holding /\ "leaving" \in Holding
      /\ "leaving" \notin Paid /\ "idle" \notin Paid
  BY StageFacts, LimitsAssumption DEF Leave, Idle, Calling, Stages, Paid
<1>2. /\ Weight("idle", Holding) = 0 /\ Weight("leaving", Holding) = 1
      /\ Weight("idle", Paid) = 0 /\ Weight("leaving", Paid) = 0
  BY <1>1 DEF Weight
<1>3. ASSUME NEW n \in DOMAIN waiters, callers[waiters[n]].at # "cancelled",
             \A i \in 1..(n - 1) : callers[waiters[i]].at = "cancelled",
             waiters' = SubSeq(waiters, n + 1, Len(waiters)),
             callers' = [callers EXCEPT ![c] = Idle, ![waiters[n]].at = "woken"],
             UNCHANGED active
      PROVE  IInv'
  <2> DEFINE w == waiters[n]
             call == [callers[w] EXCEPT !.at = "woken"]
  <2>1. w \in Callers /\ callers[w].at = "queued" /\ w # c
    BY <1>1, <1>3, LenProperties, ElementOfSeq DEF IInv, TypeInv, HeapInv
  <2>2. /\ call \in Calling /\ call.at = "woken" /\ "woken" \in Holding
        /\ "queued" \notin Holding /\ "woken" \notin Paid /\ "queued" \notin Paid
    BY <2>1, StageFacts DEF IInv, TypeInv, Calling, Paid
  <2>3. callers' = [[callers EXCEPT ![c] = Idle] EXCEPT ![w] = call]
    BY <1>3, <2>1 DEF IInv, TypeInv
  <2> HIDE DEF w, call
  <2>4. callers' \in [Callers -> Calling]
    BY <1>1, <2>1, <2>2, <2>3 DEF IInv, TypeInv
  <2>5. Holders' = (Holders \ {c}) \cup {w} /\ c \in Holders /\ w \notin Holders \ {c}
    BY <1>1, <2>1, <2>2, <2>3 DEF IInv, TypeInv, Holders
  <2>6. Cardinality(Holders') = Cardinality(Holders)
    <3>1. /\ IsFiniteSet(Holders \ {c})
          /\ Cardinality(Holders \ {c}) = Cardinality(Holders) - 1
      BY <2>5, Sets, FS_RemoveElement DEF IInv
    <3>2. Cardinality((Holders \ {c}) \cup {w}) = Cardinality(Holders \ {c}) + 1
      BY <2>5, <3>1, FS_AddElement
    <3>3. QED
      BY <2>5, <3>1, <3>2, Sets DEF IInv
  <2>7. Charged' = Charged
    BY <1>1, <2>1, <2>2, <2>3 DEF IInv, TypeInv, Charged
  <2>8. TypeInv'
    BY <1>3, <2>4, Popped DEF Leave, IInv, TypeInv, quota
  <2>9. SlotsInv'
    BY <1>3, <2>6 DEF IInv, SlotsInv
  <2>10. HeapInv'
    <3>1. /\ DOMAIN waiters' = 1..(Len(waiters) - n) /\ DOMAIN waiters = 1..Len(waiters)
          /\ Len(waiters) \in Nat
          /\ \A j \in 1..(Len(waiters) - n) :
               waiters'[j] = waiters[n + j] /\ n + j \in DOMAIN waiters /\ n + j # n
      BY <1>3, Popped
    <3>2. \A j, k \in DOMAIN waiters' : waiters'[j] = waiters'[k] => j = k
      BY <3>1 DEF IInv, HeapInv
    <3>3. \A j \in DOMAIN waiters' : waiters'[j] # w /\ waiters'[j] # c
      BY <1>1, <3>1 DEF IInv, HeapInv, w
    <3>4. \A j \in DOMAIN waiters : waiters[j] \in Callers
      BY LenProperties, ElementOfSeq DEF IInv, TypeInv
    <3>5. \A j \in DOMAIN waiters' : callers'[waiters'[j]].at \in {"queued", "cancelled"}
      BY <2>3, <3>1, <3>3, <3>4 DEF IInv, TypeInv, HeapInv
    <3>6. ASSUME NEW d \in Callers, callers'[d].at = "queued"
          PROVE  \E j \in DOMAIN waiters' : waiters'[j] = d
      <4>1. d # w /\ d # c /\ callers[d].at = "queued"
        BY <1>1, <2>1, <2>2, <2>3, <3>6 DEF IInv, TypeInv
      <4>2. PICK i \in DOMAIN waiters : waiters[i] = d
        BY <4>1 DEF IInv, HeapInv
      <4>3. i > n
        <5>1. i # n
          BY <4>1, <4>2 DEF w
        <5>2. ~(i \in 1..(n - 1))
          BY <1>3, <4>1, <4>2
        <5>3. QED
          BY <3>1, <5>1, <5>2
      <4>4. i - n \in DOMAIN waiters' /\ n + (i - n) = i
        BY <3>1, <4>3
      <4>5. QED
        BY <3>1, <4>2, <4>4
    <3>7. active = Limit
      BY <3>1 DEF IInv, HeapInv
    <3>8. QED
      BY <1>3, <3>2, <3>5, <3>6, <3>7 DEF HeapInv
  <2>11. QuotaInv'
    BY <2>7 DEF Leave, quota, IInv, QuotaInv
  <2>12. QED
    BY <2>8, <2>9, <2>10, <2>11 DEF IInv
<1>4. CASE /\ \A i \in DOMAIN waiters : callers[waiters[i]].at = "cancelled"
           /\ waiters' = <<>> /\ active' = active - 1
           /\ callers' = [callers EXCEPT ![c] = Idle]
  <2>1. /\ Cardinality(Holders') = Cardinality(Holders) - 1
        /\ Cardinality(Charged') = Cardinality(Charged)
    <3>1. /\ Cardinality(Holders') = Cardinality(Holders)
               + Weight(Idle.at, Holding) - Weight(callers[c].at, Holding)
          /\ Cardinality(Charged') = Cardinality(Charged)
               + Weight(Idle.at, Paid) - Weight(callers[c].at, Paid)
      BY <1>1, <1>4, Moved DEF IInv
    <3>2. QED
      BY <1>1, <1>2, <3>1, Sets DEF IInv
  <2>2. active > 0 /\ active \in Nat
    <3>1. c \in Holders
      BY <1>1 DEF Holders
    <3>2. Cardinality(Holders) # 0
      BY <3>1, Sets, FS_EmptySet DEF IInv
    <3>3. QED
      BY <3>2, Sets DEF IInv, TypeInv, SlotsInv
  <2>3. callers' \in [Callers -> Calling]
    BY <1>1, <1>4 DEF IInv, TypeInv
  <2>4. TypeInv'
    BY <1>4, <2>2, <2>3, EmptySeq DEF Leave, IInv, TypeInv, quota
  <2>5. SlotsInv'
    BY <1>4, <2>1, <2>2, Sets, LimitsAssumption DEF IInv, SlotsInv
  <2>6. HeapInv'
    <3>1. \A d \in Callers : callers'[d].at # "queued"
      BY <1>1, <1>4 DEF IInv, TypeInv, HeapInv
    <3>2. QED
      BY <1>4, <3>1 DEF HeapInv
  <2>7. QuotaInv'
    BY <2>1 DEF Leave, quota, IInv, QuotaInv
  <2>8. QED
    BY <2>4, <2>5, <2>6, <2>7 DEF IInv
<1>5. QED
  BY <1>3, <1>4 DEF Leave, Releases

\* A queued call that is cancelled stays in the heap; a woken one leaks its slot.
LEMMA CancelStep ==
  ASSUME IInv, NEW c \in Callers, Cancel(c)
  PROVE  IInv'
<1>1. CASE callers[c].at = "queued" /\ Goes(c, "cancelled") /\ UNCHANGED running
  <2> DEFINE call == [callers[c] EXCEPT !.at = "cancelled"]
  <2>1. call \in Calling /\ call.at = "cancelled" /\ callers' = [callers EXCEPT ![c] = call]
    BY <1>1, NextStage DEF Stages
  <2> HIDE DEF call
  <2>2. /\ Weight("queued", Holding) = 0 /\ Weight("cancelled", Holding) = 0
        /\ Weight("queued", Paid) = 0 /\ Weight("cancelled", Paid) = 0
    BY StageFacts DEF Weight, Paid
  <2>3. /\ Cardinality(Holders') = Cardinality(Holders)
             + Weight("cancelled", Holding) - Weight(callers[c].at, Holding)
        /\ Cardinality(Charged') = Cardinality(Charged)
             + Weight("cancelled", Paid) - Weight(callers[c].at, Paid)
        /\ callers' \in [Callers -> Calling]
    BY <2>1, Moved DEF IInv
  <2>4. /\ Cardinality(Holders') = Cardinality(Holders)
        /\ Cardinality(Charged') = Cardinality(Charged)
    BY <1>1, <2>2, <2>3, Sets DEF IInv
  <2>5. TypeInv' /\ SlotsInv' /\ QuotaInv'
    BY <1>1, <2>3, <2>4 DEF Cancel, IInv, TypeInv, SlotsInv, QuotaInv, quota
  <2>6. HeapInv'
    BY <2>1 DEF Cancel, IInv, TypeInv, HeapInv
  <2>7. QED
    BY <2>5, <2>6 DEF IInv
<1>2. CASE callers[c].at = "woken" /\ callers' = [callers EXCEPT ![c] = Idle] /\ UNCHANGED running
  <2>1. Idle \in Calling /\ Idle.at = "idle" /\ "woken" \in Cancels
    BY <1>2, LimitsAssumption DEF Cancel, Idle, Calling, Stages
  <2>2. /\ Weight("woken", Holding) = 1 /\ Weight("idle", Holding) = 0
        /\ Weight("woken", Paid) = 0 /\ Weight("idle", Paid) = 0
    BY StageFacts DEF Weight, Paid
  <2>3. /\ Cardinality(Holders') = Cardinality(Holders)
             + Weight("idle", Holding) - Weight(callers[c].at, Holding)
        /\ Cardinality(Charged') = Cardinality(Charged)
             + Weight("idle", Paid) - Weight(callers[c].at, Paid)
        /\ callers' \in [Callers -> Calling]
    BY <1>2, <2>1, Moved DEF IInv
  <2>4. /\ Cardinality(Holders') = Cardinality(Holders) - 1
        /\ Cardinality(Charged') = Cardinality(Charged)
    BY <1>2, <2>2, <2>3, Sets DEF IInv
  <2>5. TypeInv' /\ SlotsInv' /\ QuotaInv'
    BY <1>2, <2>1, <2>3, <2>4, Sets, LimitsAssumption
    DEF Cancel, IInv, TypeInv, SlotsInv, QuotaInv, quota
  <2>6. HeapInv'
    BY <1>2, <2>1, HeapKept DEF Cancel, IInv
  <2>7. QED
    BY <2>5, <2>6 DEF IInv
<1>3. CASE callers[c].at \in Suspended /\ Goes(c, "leaving") /\ running' = c
  <2>1. RestTyped'
    BY <1>3 DEF Cancel, IInv, TypeInv, RestTyped, quota
  <2>2. callers[c].at \in Holding /\ "leaving" \in Holding \ Paid
    BY <1>3, StageFacts DEF Holding, Paid
  <2>3. QED
    BY <1>3, <2>1, <2>2, GoesUnpaid DEF Cancel, quota
<1>4. QED
  BY <1>1, <1>2, <1>3 DEF Cancel

LEMMA WithdrawStep ==
  ASSUME IInv, NEW c \in Callers, Withdraw(c)
  PROVE  IInv'
<1>1. /\ callers[c].at = "cancelled" /\ callers' = [callers EXCEPT ![c] = Idle]
      /\ Idle \in Calling /\ Idle.at = "idle"
  BY LimitsAssumption DEF Withdraw, Idle, Calling, Stages
<1>2. /\ Weight("cancelled", Holding) = 0 /\ Weight("idle", Holding) = 0
      /\ Weight("cancelled", Paid) = 0 /\ Weight("idle", Paid) = 0
  BY StageFacts DEF Weight, Paid
<1>3. /\ Cardinality(Holders') = Cardinality(Holders)
           + Weight("idle", Holding) - Weight(callers[c].at, Holding)
      /\ Cardinality(Charged') = Cardinality(Charged)
           + Weight("idle", Paid) - Weight(callers[c].at, Paid)
      /\ callers' \in [Callers -> Calling]
  BY <1>1, Moved DEF IInv
<1>4. /\ Cardinality(Holders') = Cardinality(Holders)
      /\ Cardinality(Charged') = Cardinality(Charged)
  BY <1>1, <1>2, <1>3, Sets DEF IInv
<1>5. SlotsInv' /\ QuotaInv'
  BY <1>4 DEF Withdraw, IInv, SlotsInv, QuotaInv, quota
<1>6. /\ waiters \in Seq(Callers) /\ Len(waiters) \in Nat
      /\ DOMAIN waiters = 1..Len(waiters) /\ \A j \in 1..Len(waiters) : waiters[j] \in Callers
  BY LenProperties, ElementOfSeq DEF IInv, TypeInv
<1>7. ASSUME NEW i \in DOMAIN waiters, waiters[i] = c, waiters' = RemoveAt(waiters, i)
      PROVE  IInv'
  <2>1. /\ waiters' \in Seq(Callers) /\ DOMAIN waiters' = 1..(Len(waiters) - 1)
        /\ \A j \in 1..(Len(waiters) - 1) :
             waiters'[j] = IF j < i THEN waiters[j] ELSE waiters[j + 1]
    <3>1. /\ RemoveAt(waiters, i) \in Seq(Callers)
          /\ Len(RemoveAt(waiters, i)) = Len(waiters) - 1
          /\ \A j \in 1..(Len(waiters) - 1) :
               RemoveAt(waiters, i)[j] = IF j < i THEN waiters[j] ELSE waiters[j + 1]
      BY <1>6, Removed
    <3>2. QED
      BY <1>7, <3>1, LenProperties
  <2>2. TypeInv'
    BY <1>3, <2>1 DEF Withdraw, IInv, TypeInv, quota
  <2>3. \A j, k \in DOMAIN waiters' : waiters'[j] = waiters'[k] => j = k
    <3> DEFINE old(j) == IF j < i THEN j ELSE j + 1
    <3>1. \A j \in DOMAIN waiters' : old(j) \in DOMAIN waiters /\ waiters'[j] = waiters[old(j)]
      BY <1>6, <2>1
    <3>2. \A j, k \in DOMAIN waiters' : old(j) = old(k) => j = k
      BY <1>6, <2>1
    <3> HIDE DEF old
    <3>3. QED
      BY <3>1, <3>2 DEF IInv, HeapInv
  <2>4. \A j \in DOMAIN waiters' : \E k \in DOMAIN waiters : k # i /\ waiters'[j] = waiters[k]
    <3>1. ASSUME NEW j \in DOMAIN waiters'
          PROVE  \E k \in DOMAIN waiters : k # i /\ waiters'[j] = waiters[k]
      <4>1. j < i => j \in DOMAIN waiters /\ waiters'[j] = waiters[j]
        BY <1>6, <2>1
      <4>2. j >= i => j + 1 \in DOMAIN waiters /\ waiters'[j] = waiters[j + 1] /\ j + 1 # i
        BY <1>6, <2>1
      <4>3. QED
        BY <1>6, <2>1, <4>1, <4>2
    <3>2. QED
      BY <3>1
  <2>5. \A j \in DOMAIN waiters' : callers'[waiters'[j]].at \in {"queued", "cancelled"}
    BY <1>1, <1>6, <1>7, <2>4 DEF IInv, TypeInv, HeapInv
  <2>6. \A k \in DOMAIN waiters : k # i => \E j \in DOMAIN waiters' : waiters'[j] = waiters[k]
    <3>1. ASSUME NEW k \in DOMAIN waiters, k # i
          PROVE  \E j \in DOMAIN waiters' : waiters'[j] = waiters[k]
      <4>1. k < i => k \in DOMAIN waiters' /\ waiters'[k] = waiters[k]
        BY <1>6, <2>1
      <4>2. k > i => k - 1 \in DOMAIN waiters' /\ waiters'[k - 1] = waiters[k]
        BY <1>6, <2>1
      <4>3. QED
        BY <1>6, <3>1, <4>1, <4>2
    <3>2. QED
      BY <3>1
  <2>7. ASSUME NEW d \in Callers, callers'[d].at = "queued"
        PROVE  \E j \in DOMAIN waiters' : waiters'[j] = d
    <3>1. callers[d].at = "queued" /\ d # c
      BY <1>1, <2>7 DEF IInv, TypeInv
    <3>2. PICK k \in DOMAIN waiters : waiters[k] = d
      BY <3>1 DEF IInv, HeapInv
    <3>3. QED
      BY <1>7, <2>6, <3>1, <3>2
  <2>8. active' = Limit
    BY <1>6 DEF Withdraw, IInv, HeapInv
  <2>9. HeapInv'
    BY <2>3, <2>5, <2>7, <2>8 DEF HeapInv
  <2>10. QED
    BY <1>5, <2>2, <2>9 DEF IInv
<1>8. CASE c \notin Range(waiters) /\ UNCHANGED waiters
  <2>1. TypeInv'
    BY <1>3, <1>8 DEF Withdraw, IInv, TypeInv, quota
  <2>2. \A j \in DOMAIN waiters : waiters[j] # c
    BY <1>8 DEF Range
  <2>3. HeapInv'
    BY <1>1, <1>6, <1>8, <2>2 DEF Withdraw, IInv, TypeInv, HeapInv
  <2>4. QED
    BY <1>5, <2>1, <2>3 DEF IInv
<1>9. QED
  BY <1>7, <1>8 DEF Withdraw

-----------------------------------------------------------------------------
(* Time, the operator and the process. *)

\* A refill ends every wait for a token and changes no other stage.
LEMMA RefillStep ==
  ASSUME IInv, Refill
  PROVE  IInv'
<1>1. "ready" \in Stages /\ "ready" \in Holding /\ "token" \in Holding
  BY StageFacts
<1>2. \A d \in Callers :
        /\ callers'[d] \in Calling
        /\ callers'[d] = callers[d] \/ (callers[d].at = "token" /\ callers'[d].at = "ready")
  <2> TAKE d \in Callers
  <2>1. callers'[d] = IF callers[d].at = "token"
                      THEN [callers[d] EXCEPT !.at = "ready"] ELSE callers[d]
    BY DEF Refill
  <2>2. callers[d] \in Calling
    BY DEF IInv, TypeInv
  <2>3. /\ [callers[d] EXCEPT !.at = "ready"] \in Calling
        /\ [callers[d] EXCEPT !.at = "ready"].at = "ready"
    BY <1>1, <2>2 DEF Calling
  <2>4. CASE callers[d].at = "token"
    BY <2>1, <2>3, <2>4
  <2>5. CASE callers[d].at # "token"
    BY <2>1, <2>2, <2>5
  <2>6. QED
    BY <2>4, <2>5
<1>3. callers' \in [Callers -> Calling]
  BY <1>2 DEF Refill
<1>4. Holders' = Holders /\ Charged' = Charged
  BY <1>1, <1>2 DEF Holders, Charged, Paid
<1>5. TypeInv' /\ SlotsInv' /\ QuotaInv'
  BY <1>3, <1>4, LimitsAssumption DEF Refill, IInv, TypeInv, SlotsInv, QuotaInv, quota
<1>6. \A i \in DOMAIN waiters : waiters[i] \in Callers
  BY LenProperties, ElementOfSeq DEF IInv, TypeInv
<1>7. HeapInv'
  BY <1>2, <1>6 DEF Refill, IInv, HeapInv
<1>8. QED
  BY <1>5, <1>7 DEF IInv

\* The counters start again; the calls that paid the day before are at most the slots.
LEMMA NewDayStep ==
  ASSUME IInv, NewDay
  PROVE  IInv'
<1>1. TypeInv' /\ SlotsInv' /\ HeapInv'
  BY LimitsAssumption DEF NewDay, IInv, TypeInv, SlotsInv, HeapInv, Holders
<1>2. Cardinality(Charged) <= Limit
  BY Sets, LimitsAssumption DEF IInv, TypeInv, SlotsInv
<1>3. QuotaInv'
  <2>1. Charged' = Charged /\ made' = 0 /\ daily' = 0
    BY DEF NewDay, Charged
  <2>2. QED
    BY <1>2, <2>1, Sets, LimitsAssumption DEF IInv, QuotaInv
<1>4. QED
  BY <1>1, <1>3 DEF IInv

\* Steps that leave every call and the units where they are.
LEMMA OtherStep ==
  ASSUME IInv, Cool \/ ResetSession \/ ResetCircuit
  PROVE  IInv'
<1>1. /\ UNCHANGED <<active, waiters, callers, running, tokens, daily, made>>
      /\ circuit' \in Circuits /\ days' \in 0..MaxDays /\ session' \in 0..SessionQuota
  <2>1. CASE Cool
    BY <2>1, Breaker DEF Cool, quota, IInv, TypeInv
  <2>2. CASE ResetSession
    BY <2>2, LimitsAssumption DEF ResetSession, IInv, TypeInv
  <2>3. CASE ResetCircuit
    BY <2>3, Breaker DEF ResetCircuit, quota, IInv, TypeInv
  <2>4. QED
    BY <2>1, <2>2, <2>3
<1>2. QED
  BY <1>1 DEF IInv, TypeInv, SlotsInv, HeapInv, QuotaInv, Holders, Charged

LEMMA FreshStart ==
  ASSUME active = 0, waiters = <<>>, callers = [c \in Callers |-> Idle], running = None,
         circuit = Closed, tokens = Burst, daily \in 0..DailyQuota,
         session \in 0..SessionQuota, made \in Nat, days \in 0..MaxDays,
         made <= daily + Limit
  PROVE  IInv
<1>1. Idle \in Calling /\ Idle.at = "idle" /\ "idle" \notin Holding /\ "idle" \notin Paid
  BY StageFacts, LimitsAssumption DEF Idle, Calling, Stages, Paid
<1>2. TypeInv
  <2>1. Closed \in Circuits /\ <<>> \in Seq(Callers) /\ Burst \in 0..Burst
    BY ThresholdAssumption, LimitsAssumption DEF Closed, Circuits
  <2>2. QED
    BY <1>1, <2>1 DEF TypeInv
<1>3. Holders = {} /\ Charged = {}
  BY <1>1 DEF Holders, Charged
<1>4. Cardinality(Holders) = 0 /\ Cardinality(Charged) = 0
  BY <1>3, FS_EmptySet
<1>5. SlotsInv /\ QuotaInv
  BY <1>4, LimitsAssumption DEF SlotsInv, QuotaInv
<1>6. HeapInv
  BY <1>1 DEF HeapInv
<1>7. QED
  BY <1>2, <1>5, <1>6 DEF IInv

LEMMA RestartStep ==
  ASSUME IInv, Restart
  PROVE  IInv'
<1>1. made' <= daily' + Limit
  BY Sets, LimitsAssumption DEF Restart, quota, IInv, TypeInv, QuotaInv
<1>2. /\ active' = 0 /\ waiters' = <<>> /\ callers' = [c \in Callers |-> Idle]
      /\ running' = None /\ circuit' = Closed /\ tokens' = Burst
      /\ daily' \in 0..DailyQuota /\ session' \in 0..SessionQuota
      /\ made' \in Nat /\ days' \in 0..MaxDays
  BY DEF Restart, quota, IInv, TypeInv
<1>3. Idle \in Calling /\ Idle.at = "idle" /\ "idle" \notin Holding /\ "idle" \notin Paid
  BY StageFacts, LimitsAssumption DEF Idle, Calling, Stages, Paid
<1>4. TypeInv'
  BY <1>2, <1>3, ThresholdAssumption, LimitsAssumption DEF TypeInv, Closed, Circuits
<1>5. Holders' = {} /\ Charged' = {}
  BY <1>2, <1>3 DEF Holders, Charged
<1>6. Cardinality(Holders') = 0 /\ Cardinality(Charged') = 0
  BY <1>5, FS_EmptySet
<1>7. SlotsInv' /\ QuotaInv'
  <2>1. SlotsInv'
    BY <1>2, <1>6, LimitsAssumption DEF SlotsInv
  <2>2. QuotaInv'
    BY <1>1, <1>2, <1>6 DEF QuotaInv
  <2>3. QED
    BY <2>1, <2>2
<1>8. HeapInv'
  BY <1>2, <1>3 DEF HeapInv
<1>9. QED
  BY <1>4, <1>7, <1>8 DEF IInv

-----------------------------------------------------------------------------
(* The theorems. *)

LEMMA Initially == Init => IInv
<1> SUFFICES ASSUME Init PROVE IInv
  OBVIOUS
<1>1. made <= daily + Limit
  BY LimitsAssumption DEF Init
<1>2. QED
  BY <1>1, FreshStart, LimitsAssumption DEF Init

LEMMA Inductive == IInv /\ [Next]_vars => IInv'
<1> SUFFICES ASSUME IInv, [Next]_vars PROVE IInv'
  OBVIOUS
<1>1. CASE \E c \in Callers : \E p \in Priorities : Execute(c, p)
  BY <1>1, ExecuteStep
<1>2. CASE \E c \in Callers : Step(c)
  BY <1>2, ResumeStep, AllowStep, ConsumeStep, TakeTokenStep, AfterWaitStep, AnswerStep,
     RetryStep, LeaveStep, WithdrawStep DEF Step
<1>3. CASE \E c \in Callers : Cancel(c)
  BY <1>3, CancelStep
<1>4. CASE Refill \/ Cool \/ NewDay \/ ResetSession \/ ResetCircuit \/ Restart
  BY <1>4, RefillStep, NewDayStep, OtherStep, RestartStep
<1>5. CASE UNCHANGED vars
  BY <1>5 DEF vars, quota, IInv, TypeInv, SlotsInv, HeapInv, QuotaInv, Holders, Charged
<1>6. QED
  BY <1>1, <1>2, <1>3, <1>4, <1>5 DEF Next

\* Every variable of the gatekeeper keeps its type, the heap holds exactly the
\* calls that wait, and the slots and the units taken are those of the calls.
THEOREM GatekeeperInvariant == Spec => []IInv
  BY Initially, Inductive, PTL DEF Spec

\* No call waits while a slot is free, whatever is cancelled, woken or given
\* back (priority.py:38-79).
THEOREM NobodyWaitsForNothing == Spec => []NoIdleSlot
<1>1. IInv => NoIdleSlot
  <2> SUFFICES ASSUME IInv, NEW c \in Callers, callers[c].at = "queued"
               PROVE  active = Limit
    BY DEF NoIdleSlot, At
  <2>1. waiters # <<>>
    BY EmptySeq DEF IInv, HeapInv
  <2>2. QED
    BY <2>1 DEF IInv, HeapInv
<1>2. QED
  BY <1>1, GatekeeperInvariant, PTL

\* Where a waiter that was just woken is not cancelled, the count of the
\* semaphore is the number of calls with a slot, and nobody waits for a free one
\* (priority.py:38-79, core.py's finally).
THEOREM SlotsAreAlwaysKept ==
  ASSUME "woken" \notin Cancels
  PROVE  Spec => []SlotsAreKept
<1>1. IInv => SlotsAreHeld
  BY DEF IInv, SlotsInv, SlotsAreHeld, Holders
<1>2. QED
  BY <1>1, GatekeeperInvariant, NobodyWaitsForNothing, PTL DEF SlotsAreKept

\* The provider sees no more calls in a UTC day than its quota and the slots,
\* with every retry charged, every cancellation and every restart
\* (execution.py:65-140, quota.py).
THEOREM QuotaIsNeverExceeded == Spec => []MadeWithinQuota
<1>1. IInv => MadeWithinQuota
  BY Sets, LimitsAssumption DEF IInv, TypeInv, QuotaInv, MadeWithinQuota
<1>2. QED
  BY <1>1, GatekeeperInvariant, PTL
=============================================================================
