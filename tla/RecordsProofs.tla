---------------------------- MODULE RecordsProofs ----------------------------
(***************************************************************************)
(* What the records of the peers guarantee, one part after the other.      *)
(*                                                                         *)
(* PeerRecovery, for every two peers, every number of mutations, of        *)
(* crashes and of damaged files: the journal loses nothing acknowledged    *)
(* and takes in nothing invented, and peers that resume do so at one safe  *)
(* state.                                                                  *)
(*                                                                         *)
(* MatchNegotiation, for every pair of configurations, versions and        *)
(* ledgers, and whatever proposals cross, repeat or state something wrong: *)
(* peers that start a match hold one proposal, and the league's rules are  *)
(* kept.                                                                   *)
(*                                                                         *)
(* Campaign, for every number of trials, every result of them and any      *)
(* scripts, interrupted or not: stopping early loses nothing, the evidence *)
(* is of one candidate, and nothing that tunes it has seen the holdout.    *)
(***************************************************************************)
EXTENDS PeerRecovery, MatchNegotiation, Campaign, SequenceTheorems, FiniteSetTheorems,
        WellFoundedInduction, TLAPS

-----------------------------------------------------------------------------
(* Recovery: the invariant. *)

Records == [sequence : Nat, event : Nat, previous : Seq(Nat), hash : Seq(Nat)]
Checkpoints == [step : Nat, sequence : Nat, head : Seq(Nat)]

RecoveryTypeInv ==
  /\ status \in [Peers -> {"running", "down", "recovering", "agreed", "refused"}]
  /\ at \in [Peers -> {"idle", "staged", "journaled"}]
  /\ records \in [Peers -> Seq(Records)]
  /\ disk \in [Peers -> Seq(Records)]
  /\ staged \in [Peers -> Seq(Records)]
  /\ saved \in [Peers -> Seq(Records)]
  /\ ckpt \in [Peers -> Checkpoints]
  /\ offer \in [Peers -> Checkpoints \cup {NoOffer}]
  /\ step \in [Peers -> Nat]
  /\ told \in [Peers -> Nat]
  /\ heard \in [Peers -> Nat]
  /\ acked \in [Peers -> SUBSET Nat]
  /\ damaged \in [Peers -> BOOLEAN]
  /\ stops \in Nat

\* A chain with the events of mutations in it.
Whole(js) == ValidChain(js) /\ \A i \in DOMAIN js : js[i].event # 0

\* The file is what was saved, or that with one record altered or lost.
FileInv(p) ==
  /\ Whole(saved[p])
  /\ disk[p] = saved[p] \/ (damaged[p] /\ disk[p] \in Damages(saved[p]))
  /\ ~damaged[p] => acked[p] \subseteq Events(disk[p])

\* A process works on the file it found valid, or has none.
MemoryInv(p) ==
  /\ \/ records[p] = disk[p] /\ ValidChain(disk[p])
     \/ records[p] = <<>> /\ status[p] \in {"down", "refused"}
  /\ status[p] = "down" => records[p] = <<>>
  /\ at[p] # "idle" => status[p] = "running"
  /\ at[p] = "staged" => staged[p] = Appended(records[p], step[p] + 1)
  /\ at[p] = "journaled" => step[p] + 1 \in Events(disk[p])

\* What a peer has in mind of a session was acknowledged by whom it says.
CountInv(p) ==
  /\ status[p] \in {"agreed", "running"} => step[p] = ckpt[p].step
  /\ 1..ckpt[p].step \subseteq acked[p] \cap acked[Other(p)]
  /\ 1..told[p] \subseteq acked[p]
  /\ 1..heard[p] \subseteq acked[Other(p)]

Active == {"agreed", "running"}

\* An offer is the other's checkpoint as long as it matters; peers that have
\* agreed are at one checkpoint until both run; peers that run are one apart.
ResumeInv(p) ==
  /\ status[p] = "down" => offer[p] = NoOffer
  /\ status[p] = "recovering" /\ offer[p] # NoOffer =>
       /\ status[Other(p)] \in {"recovering", "agreed", "refused"}
       /\ offer[p] = ckpt[Other(p)]
  /\ status[p] = "agreed" => heard[p] = step[p]
  /\ status[p] = "agreed" /\ status[Other(p)] \in Active =>
       ckpt[p] = ckpt[Other(p)] /\ heard[Other(p)] = step[Other(p)]
  /\ status[p] = "running" /\ status[Other(p)] = "running" =>
       heard[p] <= step[Other(p)] + 1 /\ step[p] <= step[Other(p)] + 1

RecoveryInv ==
  /\ RecoveryTypeInv
  /\ \A p \in Peers : FileInv(p) /\ MemoryInv(p) /\ CountInv(p) /\ ResumeInv(p)

-----------------------------------------------------------------------------
(* The two peers. *)

LEMMA TwoPeers ==
  /\ \A p \in Peers : Other(p) \in Peers /\ Other(p) # p /\ Other(Other(p)) = p
  /\ \A p, q \in Peers : q = p \/ q = Other(p)
<1>1. PICK a, b \in Peers : a # b /\ Peers = {a, b}
  BY PeersAssumption
<1>2. Other(a) = b /\ Other(b) = a
  BY <1>1 DEF Other
<1>3. QED
  BY <1>1, <1>2

-----------------------------------------------------------------------------
(* Chains: appending keeps one, and no damage but a lost tail does. *)

LEMMA Indices ==
  ASSUME NEW js \in Seq(Records)
  PROVE  /\ Len(js) \in Nat /\ DOMAIN js = 1..Len(js)
         /\ \A i \in 1..Len(js) : js[i] \in Records
  BY LenProperties, ElementOfSeq

LEMMA PrefixByRecords ==
  ASSUME NEW js \in Seq(Records), NEW ks \in Seq(Records), Len(js) <= Len(ks),
         \A i \in 1..Len(js) : js[i] = ks[i]
  PROVE  IsPrefix(js, ks)
<1>1. Len(js) \in Nat /\ Len(ks) \in Nat
  BY Indices
<1>2. SubSeq(js, 1, Len(js)) = js
  BY SubSeqFull
<1>3. /\ SubSeq(ks, 1, Len(js)) \in Seq(Records)
      /\ Len(SubSeq(ks, 1, Len(js))) = Len(js)
      /\ \A i \in 1..Len(js) : SubSeq(ks, 1, Len(js))[i] = ks[i]
  <2>1. \A i \in 1..Len(js) : ks[i] \in Records
    BY <1>1, Indices
  <2>2. QED
    BY <1>1, <2>1, SubSeqProperties
<1>4. SubSeq(ks, 1, Len(js)) = js
  BY <1>3, SeqEqual
<1>5. QED
  BY <1>2, <1>4 DEF IsPrefix

LEMMA RecordsOfPrefix ==
  ASSUME NEW js \in Seq(Records), NEW ks \in Seq(Records), IsPrefix(js, ks)
  PROVE  \A i \in DOMAIN js : i \in DOMAIN ks /\ js[i] = ks[i]
<1>1. /\ Len(js) \in Nat /\ Len(ks) \in Nat /\ Len(js) <= Len(ks)
      /\ DOMAIN js = 1..Len(js) /\ DOMAIN ks = 1..Len(ks)
  BY Indices DEF IsPrefix
<1>2. SubSeq(js, 1, Len(js)) = js
  BY SubSeqFull
<1>3. \A i \in 1..Len(js) : ks[i] \in Records
  BY <1>1, Indices
<1>4. \A i \in 1..Len(js) : SubSeq(ks, 1, Len(js))[i] = ks[i]
  BY <1>1, <1>3, SubSeqProperties
<1>5. QED
  BY <1>1, <1>2, <1>4 DEF IsPrefix

LEMMA HeadHashType ==
  ASSUME NEW js \in Seq(Records)
  PROVE  HeadHash(js) \in Seq(Nat)
<1>1. CASE js = <<>>
  BY <1>1 DEF HeadHash, Genesis
<1>2. CASE js # <<>>
  <2>1. Len(js) \in 1..Len(js)
    BY <1>2, EmptySeq
  <2>2. js[Len(js)] \in Records
    BY <2>1, Indices
  <2>3. QED
    BY <1>2, <2>2 DEF HeadHash, Last, Records
<1>3. QED
  BY <1>1, <1>2

LEMMA AppendedRecord ==
  ASSUME NEW js \in Seq(Records), Whole(js), NEW event \in Nat \ {0}
  PROVE  /\ Appended(js, event) \in Seq(Records)
         /\ Whole(Appended(js, event))
         /\ Events(Appended(js, event)) = Events(js) \cup {event}
<1> DEFINE head == HeadHash(js)
           new == Record(Len(js) + 1, event, head)
           ks == Appended(js, event)
<1>1. /\ Len(js) \in Nat /\ DOMAIN js = 1..Len(js)
      /\ \A i \in 1..Len(js) : js[i] \in Records
  BY Indices
<1>2. head \in Seq(Nat)
  BY HeadHashType
<1>3. head = IF Len(js) + 1 = 1 THEN Genesis ELSE js[Len(js)].hash
  <2>1. js = <<>> <=> Len(js) = 0
    BY EmptySeq
  <2>2. QED
    BY <1>1, <2>1 DEF HeadHash, Last
<1> HIDE DEF head
<1>4. /\ new \in Records /\ new.sequence = Len(js) + 1 /\ new.event = event
      /\ new.previous = head /\ new.hash = Append(head, event)
  BY <1>1, <1>2 DEF Record, Records
<1>5. ks = Append(js, new)
  BY DEF Appended, head
<1> HIDE DEF new, ks
<1>6. /\ ks \in Seq(Records) /\ DOMAIN ks = 1..(Len(js) + 1)
      /\ \A i \in 1..Len(js) : ks[i] = js[i]
      /\ ks[Len(js) + 1] = new
  BY <1>1, <1>4, <1>5
<1>7. Whole(ks)
  <2>1. ASSUME NEW i \in 1..(Len(js) + 1)
        PROVE  /\ ks[i].sequence = i
               /\ ks[i].previous = (IF i = 1 THEN Genesis ELSE ks[i - 1].hash)
               /\ ks[i].hash = Append(ks[i].previous, ks[i].event)
               /\ ks[i].event # 0
    <3>1. CASE i \in 1..Len(js)
      <4>1. i # 1 => i - 1 \in 1..Len(js)
        BY <1>1, <3>1
      <4>2. QED
        BY <1>1, <1>6, <3>1, <4>1 DEF Whole, ValidChain
    <3>2. CASE i = Len(js) + 1
      <4>1. i # 1 => i - 1 = Len(js) /\ i - 1 \in 1..Len(js)
        BY <1>1, <3>2
      <4>2. QED
        BY <1>3, <1>4, <1>6, <3>2, <4>1
    <3>3. QED
      BY <1>1, <3>1, <3>2
  <2>2. QED
    BY <1>6, <2>1 DEF Whole, ValidChain
<1>8. Events(ks) = Events(js) \cup {event}
  BY <1>1, <1>4, <1>6 DEF Events
<1>9. QED
  BY <1>6, <1>7, <1>8 DEF ks

LEMMA DamagedFile ==
  ASSUME NEW js \in Seq(Records), Whole(js), NEW ks \in Damages(js)
  PROVE  /\ ks \in Seq(Records)
         /\ ValidChain(ks) => IsPrefix(ks, js)
<1>1. /\ Len(js) \in Nat /\ DOMAIN js = 1..Len(js)
      /\ \A i \in 1..Len(js) : js[i] \in Records
  BY Indices
<1>2. ASSUME NEW i \in DOMAIN js, ks = [js EXCEPT ![i].event = 0]
      PROVE  ks \in Seq(Records) /\ ~ValidChain(ks)
  <2> DEFINE r == [js[i] EXCEPT !.event = 0]
  <2>1. /\ r \in Records /\ r.event = 0 /\ r.hash = js[i].hash
        /\ r.previous = js[i].previous
    BY <1>1 DEF Records
  <2>2. ks = [js EXCEPT ![i] = r]
    BY <1>1, <1>2
  <2> HIDE DEF r
  <2>3. ks \in Seq(Records) /\ i \in DOMAIN ks /\ ks[i] = r
    BY <1>1, <2>1, <2>2, ExceptSeq
  <2>4. /\ js[i].previous \in Seq(Nat) /\ js[i].event \in Nat /\ js[i].event # 0
        /\ js[i].hash = Append(js[i].previous, js[i].event)
    BY <1>1 DEF Whole, ValidChain, Records
  <2>5. Append(js[i].previous, js[i].event) # Append(js[i].previous, 0)
    <3> DEFINE n == Len(js[i].previous) + 1
    <3>1. /\ Append(js[i].previous, js[i].event)[n] = js[i].event
          /\ Append(js[i].previous, 0)[n] = 0
      BY <2>4
    <3>2. QED
      BY <2>4, <3>1
  <2>6. QED
    BY <2>1, <2>3, <2>4, <2>5 DEF ValidChain
<1>3. ASSUME NEW i \in DOMAIN js, ks = RemoveAt(js, i)
      PROVE  ks \in Seq(Records) /\ (ValidChain(ks) => IsPrefix(ks, js))
  <2> DEFINE front == SubSeq(js, 1, i - 1)
             back == SubSeq(js, i + 1, Len(js))
  <2>1. /\ front \in Seq(Records) /\ Len(front) = i - 1
        /\ \A j \in 1..(i - 1) : front[j] = js[j]
    <3>1. \A j \in 1..(i - 1) : js[j] \in Records
      BY <1>1
    <3>2. QED
      BY <1>1, <3>1, SubSeqProperties
  <2>2. /\ back \in Seq(Records) /\ Len(back) = Len(js) - i
        /\ \A j \in 1..(Len(js) - i) : back[j] = js[i + j]
    <3>1. \A j \in (i + 1)..Len(js) : js[j] \in Records
      BY <1>1
    <3>2. QED
      BY <1>1, <3>1, SubSeqProperties
  <2>3. ks = front \o back
    BY <1>3 DEF RemoveAt
  <2> HIDE DEF front, back
  <2>4. /\ ks \in Seq(Records) /\ Len(ks) = Len(front) + Len(back)
        /\ \A j \in 1..(Len(front) + Len(back)) :
             ks[j] = IF j <= Len(front) THEN front[j] ELSE back[j - Len(front)]
    BY <2>1, <2>2, <2>3, ConcatProperties
  <2>5. Len(ks) = Len(js) - 1 /\ DOMAIN ks = 1..(Len(js) - 1)
    BY <1>1, <2>1, <2>2, <2>4, LenProperties
  <2>6. CASE i < Len(js)
    <3>1. i \in DOMAIN ks /\ ks[i] = js[i + 1] /\ i + 1 \in DOMAIN js
      <4>1. /\ i \in 1..(Len(js) - 1) /\ i + 1 \in 1..Len(js)
            /\ 1 \in 1..(Len(js) - i) /\ i - (i - 1) = 1 /\ ~(i <= i - 1)
        BY <1>1, <2>6
      <4>2. back[1] = js[i + 1]
        BY <2>2, <4>1
      <4>3. ks[i] = back[1]
        <5>1. i \in 1..(Len(front) + Len(back)) /\ ~(i <= Len(front)) /\ i - Len(front) = 1
          BY <1>1, <2>1, <2>2, <4>1
        <5>2. QED
          BY <2>4, <5>1
      <4>4. QED
        BY <1>1, <2>5, <4>1, <4>2, <4>3
    <3>2. js[i + 1].sequence = i + 1
      BY <3>1 DEF Whole, ValidChain
    <3>3. QED
      BY <1>1, <2>4, <3>1, <3>2 DEF ValidChain
  <2>7. CASE i = Len(js)
    <3>1. \A j \in 1..Len(ks) : ks[j] = js[j]
      BY <1>1, <2>1, <2>2, <2>4, <2>5, <2>7
    <3>2. QED
      BY <1>1, <2>4, <2>5, <3>1, PrefixByRecords
  <2>8. QED
    BY <1>1, <2>6, <2>7
<1>4. QED
  BY <1>2, <1>3 DEF Damages

\* The journal a process has in memory is a valid start of the one last saved.
LEMMA InMemory ==
  ASSUME RecoveryInv, NEW p \in Peers
  PROVE  /\ Whole(records[p]) /\ IsPrefix(records[p], saved[p])
         /\ records[p] \in Seq(Records) /\ saved[p] \in Seq(Records)
<1>1. /\ records[p] \in Seq(Records) /\ saved[p] \in Seq(Records)
      /\ FileInv(p) /\ MemoryInv(p)
  BY DEF RecoveryInv, RecoveryTypeInv
<1>2. CASE records[p] = <<>>
  <2>1. Len(records[p]) = 0 /\ 0 <= Len(saved[p])
    BY <1>1, <1>2, Indices
  <2>2. IsPrefix(records[p], saved[p])
    BY <1>1, <2>1, PrefixByRecords
  <2>3. DOMAIN records[p] = {}
    BY <1>1, <2>1, Indices
  <2>4. QED
    BY <1>1, <2>2, <2>3 DEF Whole, ValidChain
<1>3. CASE records[p] = disk[p] /\ ValidChain(disk[p])
  <2>1. CASE disk[p] = saved[p]
    <3>1. IsPrefix(records[p], saved[p])
      BY <1>1, <1>3, <2>1, PrefixByRecords, Indices
    <3>2. QED
      BY <1>1, <1>3, <2>1, <3>1 DEF FileInv
  <2>2. CASE disk[p] \in Damages(saved[p])
    <3>1. IsPrefix(records[p], saved[p])
      BY <1>1, <1>3, <2>2, DamagedFile DEF FileInv
    <3>2. QED
      BY <1>1, <1>3, <3>1, RecordsOfPrefix DEF FileInv, Whole
  <2>3. QED
    BY <1>1, <2>1, <2>2 DEF FileInv
<1>4. QED
  BY <1>1, <1>2, <1>3 DEF MemoryInv

-----------------------------------------------------------------------------
(* The steps of persist_before_ack. *)

\* The parts of the invariant for one peer, by what they look at.
LEMMA Parts ==
  ASSUME RecoveryInv, NEW q \in Peers
  PROVE  /\ RecoveryTypeInv /\ FileInv(q) /\ MemoryInv(q) /\ CountInv(q) /\ ResumeInv(q)
         /\ Other(q) \in Peers
  BY TwoPeers DEF RecoveryInv

LEMMA StageStep ==
  ASSUME RecoveryInv, NEW p \in Peers, Stage(p)
  PROVE  RecoveryInv'
<1>1. Appended(records[p], step[p] + 1) \in Seq(Records)
  BY InMemory, AppendedRecord DEF RecoveryInv, RecoveryTypeInv
<1>2. RecoveryTypeInv'
  BY <1>1 DEF Stage, history, counters, RecoveryInv, RecoveryTypeInv
<1>3. ASSUME NEW q \in Peers
      PROVE  FileInv(q)' /\ MemoryInv(q)' /\ CountInv(q)' /\ ResumeInv(q)'
  <2>1. FileInv(q)'
    BY Parts DEF Stage, history, counters, FileInv
  <2>2. MemoryInv(q)'
    BY Parts DEF Stage, history, counters, RecoveryTypeInv, MemoryInv
  <2>3. CountInv(q)' /\ ResumeInv(q)'
    BY Parts DEF Stage, history, counters, CountInv, ResumeInv
  <2>4. QED
    BY <2>1, <2>2, <2>3
<1>4. QED
  BY <1>2, <1>3 DEF RecoveryInv

LEMMA ReplaceStep ==
  ASSUME RecoveryInv, NEW p \in Peers, Replace(p)
  PROVE  RecoveryInv'
<1>1. RecoveryTypeInv'
  BY DEF Replace, history, counters, RecoveryInv, RecoveryTypeInv
<1>2. /\ staged[p] = Appended(records[p], step[p] + 1)
      /\ Whole(staged[p]) /\ Events(staged[p]) = Events(records[p]) \cup {step[p] + 1}
      /\ records[p] = disk[p] /\ status[p] = "running"
  <2>1. /\ staged[p] = Appended(records[p], step[p] + 1) /\ status[p] = "running"
        /\ records[p] = disk[p]
    BY Parts DEF Replace, MemoryInv
  <2>2. step[p] + 1 \in Nat \ {0}
    BY DEF RecoveryInv, RecoveryTypeInv
  <2>3. records[p] \in Seq(Records) /\ Whole(records[p])
    BY <2>1, InMemory DEF RecoveryInv
  <2>4. QED
    BY <2>1, <2>2, <2>3, AppendedRecord
<1>3. ASSUME NEW q \in Peers
      PROVE  FileInv(q)' /\ MemoryInv(q)' /\ CountInv(q)' /\ ResumeInv(q)'
  <2>1. FileInv(q)'
    BY <1>2, Parts DEF Replace, RecoveryTypeInv, FileInv
  <2>2. MemoryInv(q)'
    BY <1>2, Parts DEF Replace, counters, RecoveryTypeInv, MemoryInv, Whole
  <2>3. CountInv(q)' /\ ResumeInv(q)'
    BY Parts DEF Replace, counters, CountInv, ResumeInv
  <2>4. QED
    BY <2>1, <2>2, <2>3
<1>4. QED
  BY <1>1, <1>3 DEF RecoveryInv

LEMMA SaveRaisesStep ==
  ASSUME RecoveryInv, NEW p \in Peers, SaveRaises(p)
  PROVE  RecoveryInv'
<1>1. RecoveryTypeInv'
  BY EmptySeq DEF SaveRaises, history, counters, RecoveryInv, RecoveryTypeInv
<1>2. ASSUME NEW q \in Peers
      PROVE  FileInv(q)' /\ MemoryInv(q)' /\ CountInv(q)' /\ ResumeInv(q)'
  <2>1. FileInv(q)' /\ MemoryInv(q)'
    BY Parts DEF SaveRaises, history, counters, RecoveryTypeInv, FileInv, MemoryInv
  <2>2. CountInv(q)' /\ ResumeInv(q)'
    BY Parts DEF SaveRaises, history, counters, CountInv, ResumeInv
  <2>3. QED
    BY <2>1, <2>2
<1>3. QED
  BY <1>1, <1>2 DEF RecoveryInv

LEMMA AckStep ==
  ASSUME RecoveryInv, NEW p \in Peers, Ack(p)
  PROVE  RecoveryInv'
<1>1. RecoveryTypeInv'
  <2>1. step[p] + 1 \in Nat /\ Other(p) \in Peers
    BY TwoPeers DEF RecoveryInv, RecoveryTypeInv
  <2>2. /\ acked' \in [Peers -> SUBSET Nat] /\ told' \in [Peers -> Nat]
        /\ heard' \in [Peers -> Nat]
    BY <2>1 DEF Ack, RecoveryInv, RecoveryTypeInv
  <2>3. QED
    BY <2>2 DEF Ack, journal, RecoveryInv, RecoveryTypeInv
<1>2. /\ status[p] = "running" /\ step[p] + 1 \in Events(disk[p])
      /\ step[p] = ckpt[p].step /\ step[p] \in Nat
      /\ 1..step[p] \subseteq acked[p] \cap acked[Other(p)]
  BY Parts DEF Ack, RecoveryTypeInv, MemoryInv, CountInv
<1>3. 1..(step[p] + 1) \subseteq acked'[p]
  <2>1. 1..(step[p] + 1) = 1..step[p] \cup {step[p] + 1}
    BY <1>2
  <2>2. acked'[p] = acked[p] \cup {step[p] + 1}
    BY DEF Ack, RecoveryInv, RecoveryTypeInv
  <2>3. QED
    BY <1>2, <2>1, <2>2
<1>4. \A q \in Peers : acked[q] \subseteq acked'[q]
  BY DEF Ack, RecoveryInv, RecoveryTypeInv
<1>5. ASSUME NEW q \in Peers
      PROVE  FileInv(q)' /\ MemoryInv(q)' /\ CountInv(q)' /\ ResumeInv(q)'
  <2>1. FileInv(q)' /\ MemoryInv(q)'
    BY <1>2, Parts DEF Ack, journal, RecoveryTypeInv, FileInv, MemoryInv
  <2>2. /\ told'[q] = IF q = p THEN step[p] + 1 ELSE told[q]
        /\ heard'[q] = IF q = Other(p) /\ status[q] = "running" THEN step[p] + 1 ELSE heard[q]
        /\ UNCHANGED <<status, ckpt, step, offer>>
    BY TwoPeers DEF Ack, RecoveryInv, RecoveryTypeInv
  <2>3. CountInv(q)'
    <3>1. CountInv(q) /\ Other(q) \in Peers
      BY Parts
    <3>2. 1..told'[q] \subseteq acked'[q]
      BY <1>3, <1>4, <2>2, <3>1 DEF CountInv
    <3>3. 1..heard'[q] \subseteq acked'[Other(q)]
      BY <1>3, <1>4, <2>2, <3>1, TwoPeers DEF CountInv
    <3>4. QED
      BY <1>4, <2>2, <3>1, <3>2, <3>3 DEF CountInv
  <2>4. ResumeInv(q)'
    <3>1. /\ ResumeInv(q)
          /\ q = p \/ q = Other(p)
          /\ step[p] \in Nat /\ step[q] \in Nat
      BY Parts, TwoPeers DEF RecoveryTypeInv
    <3>2. CASE q = p
      <4>1. /\ heard'[p] = heard[p] /\ Other(p) # p
            /\ status[p] = "running"
        BY <1>2, <2>2, <3>2, TwoPeers
      <4>2. QED
        BY <2>2, <3>1, <3>2, <4>1 DEF ResumeInv
    <3>3. CASE q = Other(p)
      <4>1. /\ Other(q) = p /\ heard'[p] = heard[p]
            /\ status[q] # "running" => heard'[q] = heard[q]
        BY <2>2, <3>3, TwoPeers DEF Ack, RecoveryInv, RecoveryTypeInv
      <4>2. CASE status[q] = "running"
        <5>1. heard'[q] = step[p] + 1 /\ heard'[q] <= step'[Other(q)] + 1
          BY <2>2, <3>1, <3>3, <4>1, <4>2
        <5>2. step'[q] <= step'[Other(q)] + 1
          BY <1>2, <2>2, <3>1, <4>1, <4>2 DEF ResumeInv
        <5>3. QED
          BY <2>2, <4>2, <5>1, <5>2 DEF ResumeInv
      <4>3. CASE status[q] # "running"
        BY <2>2, <3>1, <4>1, <4>3 DEF ResumeInv
      <4>4. QED
        BY <4>2, <4>3
    <3>4. QED
      BY <3>1, <3>2, <3>3
  <2>5. QED
    BY <2>1, <2>3, <2>4
<1>6. QED
  BY <1>1, <1>5 DEF RecoveryInv

LEMMA SaveCheckpointStep ==
  ASSUME RecoveryInv, NEW p \in Peers, SaveCheckpoint(p)
  PROVE  RecoveryInv'
<1> DEFINE o == Other(p)
<1>1. /\ o \in Peers /\ o # p /\ Other(o) = p
      /\ status[p] = "running" /\ at[p] = "idle" /\ step[p] = ckpt[p].step
      /\ step[p] \in Nat /\ step[o] \in Nat /\ told[p] \in Nat /\ heard[p] \in Nat
      /\ told[p] > step[p] /\ heard[p] > step[p]
  BY Parts, TwoPeers DEF SaveCheckpoint, RecoveryTypeInv, CountInv
<1>2. HeadHash(records[p]) \in Seq(Nat) /\ Len(records[p]) \in Nat
  <2>1. records[p] \in Seq(Records)
    BY DEF RecoveryInv, RecoveryTypeInv
  <2>2. QED
    BY <2>1, HeadHashType, Indices
<1>3. /\ Checkpoint(step[p] + 1, records[p]) \in Checkpoints
      /\ Checkpoint(step[p] + 1, records[p]).step = step[p] + 1
  <2> HIDE DEF o
  <2>1. step[p] + 1 \in Nat
    BY <1>1
  <2>2. QED
    BY <1>2, <2>1 DEF Checkpoint, Checkpoints
<1>4. RecoveryTypeInv'
  <2> HIDE DEF o
  <2>1. step[p] + 1 \in Nat
    BY <1>1
  <2>2. step' \in [Peers -> Nat] /\ ckpt' \in [Peers -> Checkpoints]
    BY <1>3, <2>1 DEF SaveCheckpoint, RecoveryInv, RecoveryTypeInv
  <2>3. QED
    BY <2>2 DEF SaveCheckpoint, journal, history, RecoveryInv, RecoveryTypeInv
<1>5. \A q \in Peers : FileInv(q)' /\ MemoryInv(q)'
  <2> TAKE q \in Peers
  <2>1. FileInv(q)'
    BY Parts DEF SaveCheckpoint, journal, history, FileInv
  <2>2. MemoryInv(q)'
    BY <1>1, Parts DEF SaveCheckpoint, journal, history, RecoveryTypeInv, MemoryInv
  <2>3. QED
    BY <2>1, <2>2
<1>6. /\ step'[p] = step[p] + 1 /\ step'[o] = step[o]
      /\ ckpt'[p].step = step[p] + 1 /\ ckpt'[o] = ckpt[o]
      /\ UNCHANGED <<status, told, heard, acked, offer>>
  BY <1>1, <1>3 DEF SaveCheckpoint, history, RecoveryInv, RecoveryTypeInv
<1>7. 1..(step[p] + 1) \subseteq acked[p] \cap acked[o]
  <2>1. 1..told[p] \subseteq acked[p] /\ 1..heard[p] \subseteq acked[o]
    BY Parts DEF CountInv
  <2>2. 1..(step[p] + 1) \subseteq 1..told[p] /\ 1..(step[p] + 1) \subseteq 1..heard[p]
    BY <1>1
  <2>3. QED
    BY <2>1, <2>2
<1>8. /\ CountInv(p) /\ CountInv(o) /\ ResumeInv(p) /\ ResumeInv(o)
  BY <1>1, Parts
<1> HIDE DEF o
<1>9. CountInv(p)' /\ CountInv(o)'
  BY <1>1, <1>6, <1>7, <1>8 DEF CountInv, o
<1>10. status[o] # "agreed" /\ (status[o] = "recovering" => offer[o] = NoOffer)
  BY <1>1, <1>8 DEF ResumeInv, Active
<1>11. status[o] = "running" => /\ heard[p] <= step[o] + 1 /\ heard[o] <= step[p] + 1
                               /\ step[o] <= step[p] + 1 /\ heard[o] \in Nat
  BY <1>1, <1>8, Parts DEF ResumeInv, o, RecoveryTypeInv
<1>12. status[o] = "running" =>
         /\ heard[p] <= step[o] + 1 /\ step[p] + 1 <= step[o] + 1
         /\ heard[o] <= (step[p] + 1) + 1 /\ step[o] <= (step[p] + 1) + 1
  BY <1>1, <1>11
<1>13. ResumeInv(p)'
  BY <1>1, <1>6, <1>8, <1>12 DEF ResumeInv, o
<1>14. ResumeInv(o)'
  BY <1>1, <1>6, <1>8, <1>10, <1>12 DEF ResumeInv
<1>15. QED
  BY <1>4, <1>5, <1>9, <1>13, <1>14, TwoPeers DEF RecoveryInv, o

-----------------------------------------------------------------------------
(* The steps of a crash and of recovery. *)

LEMMA Offers ==
  /\ NoOffer.step = -1
  /\ NoOffer \notin Checkpoints
  /\ NoCheckpoint \in Checkpoints /\ NoCheckpoint.step = 0
  BY EmptySeq DEF NoOffer, Checkpoints, NoCheckpoint, Checkpoint, HeadHash, Genesis

LEMMA CrashStep ==
  ASSUME RecoveryInv, NEW p \in Peers, Crash(p)
  PROVE  RecoveryInv'
<1>1. RecoveryTypeInv'
  BY EmptySeq DEF Crash, Forgets, CountFrom, RecoveryInv, RecoveryTypeInv
<1>2. ASSUME NEW q \in Peers
      PROVE  FileInv(q)' /\ MemoryInv(q)' /\ CountInv(q)' /\ ResumeInv(q)'
  <2>1. FileInv(q)'
    BY Parts DEF Crash, Forgets, FileInv
  <2>2. MemoryInv(q)'
    BY Parts DEF Crash, Forgets, CountFrom, RecoveryTypeInv, MemoryInv
  <2>3. /\ status'[q] = IF q = p THEN "down" ELSE status[q]
        /\ status'[Other(q)] = IF q = p THEN status[Other(q)] ELSE "down"
        /\ step'[q] = IF q = p THEN 0 ELSE step[q]
        /\ told'[q] = IF q = p THEN 0 ELSE told[q]
        /\ heard'[q] = IF q = p THEN 0 ELSE heard[q]
        /\ offer'[q] = NoOffer
        /\ UNCHANGED <<acked, ckpt>>
    BY TwoPeers DEF Crash, Forgets, CountFrom, RecoveryInv, RecoveryTypeInv
  <2>4. CountInv(q)'
    BY <2>3, Parts DEF CountInv
  <2>5. ResumeInv(q)'
    BY <2>3, Parts, TwoPeers DEF ResumeInv, Active
  <2>6. QED
    BY <2>1, <2>2, <2>4, <2>5
<1>3. QED
  BY <1>1, <1>2 DEF RecoveryInv

LEMMA DamageJournalStep ==
  ASSUME RecoveryInv, NEW p \in Peers, DamageJournal(p)
  PROVE  RecoveryInv'
<1>1. PICK js \in Damages(disk[p]) : disk' = [disk EXCEPT ![p] = js]
  BY DEF DamageJournal
<1>2. disk[p] = saved[p] /\ js \in Seq(Records) /\ status[p] = "down" /\ at[p] = "idle"
  <2>1. disk[p] = saved[p] /\ status[p] = "down" /\ at[p] = "idle"
    BY Parts DEF DamageJournal, FileInv, MemoryInv, RecoveryTypeInv
  <2>2. QED
    BY <2>1, Parts, DamagedFile DEF FileInv, RecoveryTypeInv
<1>3. RecoveryTypeInv'
  BY <1>1, <1>2 DEF DamageJournal, counters, RecoveryInv, RecoveryTypeInv
<1>4. ASSUME NEW q \in Peers
      PROVE  FileInv(q)' /\ MemoryInv(q)' /\ CountInv(q)' /\ ResumeInv(q)'
  <2>1. /\ disk'[q] = IF q = p THEN js ELSE disk[q]
        /\ damaged'[q] = IF q = p THEN TRUE ELSE damaged[q]
        /\ UNCHANGED <<status, at, records, staged, step, acked, saved>>
    BY <1>1 DEF DamageJournal, counters, RecoveryInv, RecoveryTypeInv
  <2>2. FileInv(q) /\ MemoryInv(q)
    BY Parts
  <2>3. FileInv(q)'
    BY <1>2, <2>1, <2>2 DEF FileInv
  <2>4. MemoryInv(q)'
    BY <1>2, <2>1, <2>2 DEF MemoryInv
  <2>5. CountInv(q)' /\ ResumeInv(q)'
    BY Parts DEF DamageJournal, counters, CountInv, ResumeInv
  <2>6. QED
    BY <2>3, <2>4, <2>5
<1>5. QED
  BY <1>3, <1>4 DEF RecoveryInv

LEMMA ReloadStep ==
  ASSUME RecoveryInv, NEW p \in Peers, Reload(p)
  PROVE  RecoveryInv'
<1>1. RecoveryTypeInv'
  BY DEF Reload, counters, history, RecoveryInv, RecoveryTypeInv
<1>2. ASSUME NEW q \in Peers
      PROVE  FileInv(q)' /\ MemoryInv(q)' /\ CountInv(q)' /\ ResumeInv(q)'
  <2>1. FileInv(q)'
    BY Parts DEF Reload, history, FileInv
  <2>2. MemoryInv(q)'
    <3>1. MemoryInv(q) /\ UNCHANGED <<at, disk, staged, step>>
      BY Parts DEF Reload, counters
    <3>2. CASE q = p /\ ValidChain(disk[p])
      BY <3>1, <3>2 DEF Reload, RecoveryInv, RecoveryTypeInv, MemoryInv
    <3>3. CASE q = p /\ ~ValidChain(disk[p])
      BY <3>1, <3>3 DEF Reload, RecoveryInv, RecoveryTypeInv, MemoryInv
    <3>4. CASE q # p
      BY <3>1, <3>4 DEF Reload, RecoveryInv, RecoveryTypeInv, MemoryInv
    <3>5. QED
      BY <3>2, <3>3, <3>4
  <2>3. /\ status'[p] \in {"recovering", "refused"} /\ status[p] = "down"
        /\ \A r \in Peers : r # p => status'[r] = status[r]
        /\ UNCHANGED <<step, told, heard, ckpt, offer, acked>>
    BY DEF Reload, counters, history, RecoveryInv, RecoveryTypeInv
  <2>4. CountInv(q)' /\ ResumeInv(q)'
    BY <2>3, Parts, TwoPeers DEF CountInv, ResumeInv, Active
  <2>5. QED
    BY <2>1, <2>2, <2>4
<1>3. QED
  BY <1>1, <1>2 DEF RecoveryInv

LEMMA SuspendStep ==
  ASSUME RecoveryInv, NEW p \in Peers, Suspend(p)
  PROVE  RecoveryInv'
<1>1. RecoveryTypeInv'
  BY DEF Suspend, CountFrom, journal, history, RecoveryInv, RecoveryTypeInv
<1>2. ASSUME NEW q \in Peers
      PROVE  FileInv(q)' /\ MemoryInv(q)' /\ CountInv(q)' /\ ResumeInv(q)'
  <2>1. FileInv(q)'
    BY Parts DEF Suspend, journal, history, FileInv
  <2>2. MemoryInv(q)'
    BY Parts DEF Suspend, CountFrom, journal, history, RecoveryTypeInv, MemoryInv
  <2>3. /\ status[p] \in Active /\ status[Other(p)] = "recovering"
        /\ status'[q] = IF q = p THEN "recovering" ELSE status[q]
        /\ status'[Other(q)] = IF q = p THEN status[Other(q)] ELSE "recovering"
        /\ step'[q] = IF q = p THEN 0 ELSE step[q]
        /\ told'[q] = IF q = p THEN 0 ELSE told[q]
        /\ heard'[q] = IF q = p THEN 0 ELSE heard[q]
        /\ offer'[q] = IF q = p THEN NoOffer ELSE offer[q]
        /\ UNCHANGED <<acked, ckpt>>
    <3>1. Other(q) \in Peers /\ (q = p => Other(q) # p) /\ (q # p => Other(q) = p)
      BY TwoPeers
    <3>2. QED
      BY <3>1 DEF Suspend, CountFrom, history, Active, RecoveryInv, RecoveryTypeInv
  <2>4. CountInv(q)'
    BY <2>3, Parts DEF CountInv
  <2>5. ResumeInv(q)'
    BY <2>3, Parts, TwoPeers DEF ResumeInv, Active
  <2>6. QED
    BY <2>1, <2>2, <2>4, <2>5
<1>3. QED
  BY <1>1, <1>2 DEF RecoveryInv

LEMMA SendDigestStep ==
  ASSUME RecoveryInv, NEW p \in Peers, SendDigest(p)
  PROVE  RecoveryInv'
<1>1. RecoveryTypeInv'
  BY TwoPeers DEF SendDigest, journal, counters, history, RecoveryInv, RecoveryTypeInv
<1>2. ASSUME NEW q \in Peers
      PROVE  FileInv(q)' /\ MemoryInv(q)' /\ CountInv(q)' /\ ResumeInv(q)'
  <2>1. FileInv(q)' /\ MemoryInv(q)' /\ CountInv(q)'
    BY Parts DEF SendDigest, journal, counters, history, FileInv, MemoryInv, CountInv
  <2>2. /\ status[p] = "recovering" /\ status[Other(p)] \in {"recovering", "agreed"}
        /\ offer'[q] = IF q = Other(p) THEN ckpt[p] ELSE offer[q]
        /\ UNCHANGED <<status, step, told, heard, ckpt, acked>>
    BY TwoPeers DEF SendDigest, counters, history, RecoveryInv, RecoveryTypeInv
  <2>3. ResumeInv(q)'
    BY <2>2, Parts, TwoPeers DEF ResumeInv
  <2>4. QED
    BY <2>1, <2>3
<1>3. QED
  BY <1>1, <1>2 DEF RecoveryInv

LEMMA AgreeStep ==
  ASSUME RecoveryInv, NEW p \in Peers, Agree(p)
  PROVE  RecoveryInv'
<1> DEFINE o == Other(p)
<1>1. RecoveryTypeInv'
  <2>1. ckpt[p].step \in Nat
    BY DEF RecoveryInv, RecoveryTypeInv, Checkpoints
  <2>2. QED
    BY <2>1 DEF Agree, CountFrom, journal, history, RecoveryInv, RecoveryTypeInv
<1>2. \A q \in Peers : FileInv(q)' /\ MemoryInv(q)'
  <2> TAKE q \in Peers
  <2>1. FileInv(q)'
    BY Parts DEF Agree, journal, history, FileInv
  <2>2. MemoryInv(q)'
    <3>1. MemoryInv(q) /\ UNCHANGED <<at, disk, staged, records>> /\ status[p] = "recovering"
      BY Parts DEF Agree, journal
    <3>2. status'[p] \in {"agreed", "refused"}
      BY DEF Agree, RecoveryInv, RecoveryTypeInv
    <3>3. q # p => status'[q] = status[q] /\ step'[q] = step[q]
      BY DEF Agree, CountFrom, RecoveryInv, RecoveryTypeInv
    <3>4. QED
      BY <3>1, <3>2, <3>3 DEF MemoryInv
  <2>3. QED
    BY <2>1, <2>2
<1>3. /\ o \in Peers /\ o # p /\ Other(o) = p /\ status[p] = "recovering"
      /\ status[o] \in {"recovering", "agreed", "refused"} /\ offer[p] = ckpt[o]
      /\ ckpt[p].step \in Nat
      /\ CountInv(p) /\ CountInv(o) /\ ResumeInv(p) /\ ResumeInv(o)
  BY Parts, TwoPeers DEF Agree, ResumeInv, RecoveryTypeInv, Checkpoints
<1>4. /\ status'[o] = status[o] /\ step'[o] = step[o] /\ told'[o] = told[o]
      /\ heard'[o] = heard[o] /\ UNCHANGED <<ckpt, offer, acked>>
  BY <1>3 DEF Agree, CountFrom, history, RecoveryInv, RecoveryTypeInv
<1>5. \/ status'[p] = "refused" /\ UNCHANGED <<step, told, heard>>
      \/ /\ status'[p] = "agreed" /\ ckpt[p] = ckpt[o] /\ step'[p] = ckpt[p].step
         /\ told'[p] = ckpt[p].step /\ heard'[p] = ckpt[p].step
  BY <1>3 DEF Agree, CountFrom, RecoveryInv, RecoveryTypeInv
<1> HIDE DEF o
<1>6. CountInv(p)'
  BY <1>3, <1>4, <1>5 DEF CountInv, o
<1>7. CountInv(o)'
  BY <1>3, <1>4 DEF CountInv
<1>8. ResumeInv(p)'
  BY <1>3, <1>4, <1>5 DEF ResumeInv, Active, o
<1>9. ResumeInv(o)'
  BY <1>3, <1>4, <1>5 DEF ResumeInv, Active
<1>10. QED
  BY <1>1, <1>2, <1>6, <1>7, <1>8, <1>9, TwoPeers DEF RecoveryInv, o

LEMMA ResumeStep ==
  ASSUME RecoveryInv, NEW p \in Peers, Resume(p)
  PROVE  RecoveryInv'
<1>1. RecoveryTypeInv'
  BY DEF Resume, journal, counters, history, RecoveryInv, RecoveryTypeInv
<1>2. ASSUME NEW q \in Peers
      PROVE  FileInv(q)' /\ MemoryInv(q)' /\ CountInv(q)' /\ ResumeInv(q)'
  <2>1. FileInv(q)'
    BY Parts DEF Resume, journal, history, FileInv
  <2>2. MemoryInv(q)'
    BY Parts DEF Resume, journal, counters, RecoveryTypeInv, MemoryInv
  <2>3. /\ status[p] = "agreed" /\ status[Other(p)] \in Active
        /\ status'[q] = IF q = p THEN "running" ELSE status[q]
        /\ status'[Other(q)] = IF q = p THEN status[Other(q)] ELSE "running"
        /\ offer'[q] = IF q = p THEN NoOffer ELSE offer[q]
        /\ UNCHANGED <<step, told, heard, ckpt, acked>>
        /\ step[q] \in Nat /\ step[Other(q)] \in Nat
    <3>1. Other(q) \in Peers /\ (q = p => Other(q) # p) /\ (q # p => Other(q) = p)
      BY TwoPeers
    <3>2. QED
      BY <3>1 DEF Resume, counters, history, Active, RecoveryInv, RecoveryTypeInv
  <2>4. CountInv(q)'
    BY <2>3, Parts, TwoPeers DEF CountInv, Active
  <2>5. /\ step[p] = step[Other(p)] /\ heard[p] = step[p]
        /\ heard[Other(p)] = step[Other(p)] /\ ckpt[p] = ckpt[Other(p)]
    BY <2>3, Parts, TwoPeers DEF CountInv, ResumeInv, Active
  <2>6. ResumeInv(q)'
    BY <2>3, <2>5, Parts, TwoPeers DEF ResumeInv, Active
  <2>7. QED
    BY <2>1, <2>2, <2>4, <2>6
<1>3. QED
  BY <1>1, <1>2 DEF RecoveryInv

-----------------------------------------------------------------------------
(* The theorems. *)

LEMMA RecoveryStarts == RecoveryInit => RecoveryInv
<1> SUFFICES ASSUME RecoveryInit PROVE RecoveryInv
  OBVIOUS
<1>1. RecoveryTypeInv
  BY Offers, EmptySeq DEF RecoveryInit, RecoveryTypeInv
<1>2. ASSUME NEW p \in Peers
      PROVE  FileInv(p) /\ MemoryInv(p) /\ CountInv(p) /\ ResumeInv(p)
  <2>1. saved[p] = <<>> /\ disk[p] = <<>> /\ records[p] = <<>> /\ DOMAIN saved[p] = {}
    BY EmptySeq, LenProperties DEF RecoveryInit
  <2>2. FileInv(p) /\ MemoryInv(p)
    BY <2>1 DEF RecoveryInit, FileInv, MemoryInv, Whole, ValidChain, Events
  <2>3. CountInv(p) /\ ResumeInv(p)
    BY Offers, TwoPeers DEF RecoveryInit, CountInv, ResumeInv, Active
  <2>4. QED
    BY <2>2, <2>3
<1>3. QED
  BY <1>1, <1>2 DEF RecoveryInv

LEMMA RecoveryGoesOn == RecoveryInv /\ [RecoveryNext]_recoveryVars => RecoveryInv'
<1> SUFFICES ASSUME RecoveryInv, [RecoveryNext]_recoveryVars PROVE RecoveryInv'
  OBVIOUS
<1>1. CASE RecoveryNext
  BY <1>1, StageStep, ReplaceStep, SaveRaisesStep, AckStep, SaveCheckpointStep, CrashStep,
     DamageJournalStep, ReloadStep, SuspendStep, SendDigestStep, AgreeStep, ResumeStep
  DEF RecoveryNext
<1>2. CASE UNCHANGED recoveryVars
  BY <1>2 DEF recoveryVars, journal, counters, history, RecoveryInv, RecoveryTypeInv, FileInv, MemoryInv,
              CountInv, ResumeInv
<1>3. QED
  BY <1>1, <1>2

\* Every variable of the two peers keeps its type; the file, the memory and the
\* counters of each are those of the mutations saved, acknowledged and agreed on.
THEOREM RecoveryInvariant == RecoverySpec => []RecoveryInv
  BY RecoveryStarts, RecoveryGoesOn, PTL DEF RecoverySpec

\* The journal loses nothing acknowledged, whatever crashes and failed writes
\* there were, and no altered or missing record gets past its validation but a
\* lost tail (journal.py:57-114, persistence.py:9-35).
THEOREM JournalStaysTrue == RecoverySpec => []JournalIsTrue
<1>1. RecoveryInv => JournalIsTrue
  <2> SUFFICES ASSUME RecoveryInv PROVE JournalIsTrue
    OBVIOUS
  <2>1. AckedIsJournaled
    BY DEF RecoveryInv, FileInv, AckedIsJournaled
  <2>2. LoadedIsAppended
    BY InMemory DEF LoadedIsAppended
  <2>3. QED
    BY <2>1, <2>2 DEF JournalIsTrue
<1>2. QED
  BY <1>1, RecoveryInvariant, PTL

\* agree_recovery neither invents a safe state nor rolls one back
\* (checkpoint.py): peers that agreed or work are at most one step apart, those
\* that agreed at one checkpoint, and each has acknowledged all the other counts.
THEOREM PeersResumeTogether == RecoverySpec => []ResumedTogether
<1>1. RecoveryInv => ResumedTogether
  <2> SUFFICES ASSUME RecoveryInv, NEW p \in Peers, NEW q \in Peers,
                      status[p] \in Active, status[q] \in Active
               PROVE  /\ step[p] - step[q] \in -1..1
                      /\ status[p] = "agreed" /\ status[q] = "agreed" => ckpt[p] = ckpt[q]
                      /\ 1..step[p] \subseteq acked[q]
    BY DEF ResumedTogether, Active
  <2>1. /\ CountInv(p) /\ ResumeInv(p) /\ CountInv(q) /\ ResumeInv(q)
        /\ step[p] \in Nat /\ step[q] \in Nat
    BY Parts DEF RecoveryTypeInv
  <2>2. 1..step[p] \subseteq acked[q]
    BY <2>1, TwoPeers DEF CountInv, Active
  <2>3. CASE q = p
    BY <2>1, <2>2, <2>3
  <2>4. CASE q = Other(p)
    <3>1. Other(q) = p
      BY <2>4, TwoPeers
    <3>2. status[p] = "agreed" \/ status[q] = "agreed" => ckpt[p] = ckpt[q]
      BY <2>1, <2>4, <3>1 DEF ResumeInv
    <3>3. step[p] = ckpt[p].step /\ step[q] = ckpt[q].step
      BY <2>1 DEF CountInv, Active
    <3>4. CASE status[p] = "agreed" \/ status[q] = "agreed"
      BY <2>1, <2>2, <3>2, <3>3, <3>4
    <3>5. CASE status[p] = "running" /\ status[q] = "running"
      <4>1. step[p] <= step[q] + 1 /\ step[q] <= step[p] + 1
        BY <2>1, <2>4, <3>1, <3>5 DEF ResumeInv
      <4>2. QED
        BY <2>1, <2>2, <3>5, <4>1
    <3>6. QED
      BY <3>4, <3>5 DEF Active
  <2>5. QED
    BY <2>3, <2>4, TwoPeers
<1>2. QED
  BY <1>1, RecoveryInvariant, PTL

-----------------------------------------------------------------------------
(* Negotiation: the invariant. *)

Counted == {m \in played : m.counted}

NegotiationTypeInv ==
  /\ context \in Contexts
  /\ ledger \in [Pair -> SUBSET (Others \cup Pair)]
  /\ session = [g \in Pair |-> session[g]]
  /\ \A g \in Pair :
       \/ session[g] = NoSession
       \/ /\ session[g] = [state |-> session[g].state, proposal |-> session[g].proposal]
          /\ session[g].state \in {"proposed", "accepted"}
  /\ budget = [proposals |-> budget.proposals, slips |-> budget.slips, lost |-> budget.lost]
  /\ budget.lost \in 0..MaxLost

\* A proposal that is held was valid and still is; what one side accepts is the
\* proposal it holds; who was accepted holds the proposal the other one holds.
SessionInv ==
  /\ \A g \in Pair : session[g].state # "none" => ValidProposal(g, session[g].proposal)
  /\ \A m \in sent : m.kind = "accept" =>
       \E g \in Pair : /\ m.to = Opponent(g) /\ session[g].state # "none"
                       /\ m.body = Acceptance(session[g].proposal)
  /\ \A g \in Pair : session[g].state = "accepted" =>
       /\ session[Opponent(g)].state # "none"
       /\ session[g].proposal = session[Opponent(g)].proposal

\* While one record can be lost, the counted match is in the ledger of a group.
LeagueInv ==
  /\ \A g \in Pair : IsFiniteSet(ledger[g]) /\ Cardinality(ledger[g]) <= Limit
  /\ MaxLost <= 1 =>
       \/ Counted = {}
       \/ /\ \E m \in played : Counted = {m}
          /\ \E g \in Pair : Opponent(g) \in ledger[g]

NegotiationInv == NegotiationTypeInv /\ SessionInv /\ LeagueInv

-----------------------------------------------------------------------------
LEMMA TwoGroups ==
  /\ A \in Pair /\ B \in Pair /\ Opponent(A) = B /\ Opponent(B) = A
  /\ \A g \in Pair : Opponent(g) \in Pair /\ Opponent(g) # g /\ Opponent(Opponent(g)) = g
  /\ \A g, h \in Pair : h = g \/ h = Opponent(g)
<1>1. Opponent(A) = B /\ Opponent(B) = A
  BY GroupsAssumption DEF Opponent, Pair
<1>2. QED
  BY <1>1, GroupsAssumption DEF Pair

\* What a valid proposal says does not change while nothing is played.
LEMMA StaysValid ==
  ASSUME UNCHANGED <<context, ledger>>, NEW g \in Pair, UNCHANGED session[g],
         ValidProposal(g, session[g].proposal)
  PROVE  ValidProposal(g, session[g].proposal)'
  BY DEF ValidProposal, ValidBytes, ValidLeague

LEMMA SendStep ==
  ASSUME NegotiationInv, NEW g \in Pair, Send(g)
  PROVE  NegotiationInv'
<1>1. NegotiationTypeInv'
  BY DEF Send, NegotiationInv, NegotiationTypeInv
<1>2. SessionInv'
  <2>1. \A m \in sent' : m.kind = "accept" => m \in sent
    BY DEF Send
  <2>2. UNCHANGED <<context, ledger, session>>
    BY DEF Send
  <2>3. QED
    BY <2>1, <2>2, StaysValid DEF NegotiationInv, SessionInv
<1>3. LeagueInv'
  BY DEF Send, NegotiationInv, LeagueInv, Counted
<1>4. QED
  BY <1>1, <1>2, <1>3 DEF NegotiationInv

\* A runtime whose session changes keeps what was said of it.
LEMMA ReceiveProposalStep ==
  ASSUME NegotiationInv, NEW g \in Pair, ReceiveProposal(g)
  PROVE  NegotiationInv'
<1>1. PICK m \in sent : /\ ValidProposal(g, m.body)
                        /\ session' = [session EXCEPT ![g] = [state |-> "proposed",
                                                             proposal |-> m.body]]
  BY DEF ReceiveProposal
<1>2. /\ session[g].state = "none" /\ UNCHANGED <<context, ledger, sent, played, budget>>
      /\ session'[g].state = "proposed" /\ session'[g].proposal = m.body
      /\ \A h \in Pair : h # g => session'[h] = session[h]
  BY <1>1 DEF ReceiveProposal, NegotiationInv, NegotiationTypeInv
<1>3. NegotiationTypeInv'
  BY <1>1, <1>2 DEF NegotiationInv, NegotiationTypeInv
<1>4. SessionInv'
  <2>1. ASSUME NEW h \in Pair, session'[h].state # "none"
        PROVE  ValidProposal(h, session[h].proposal)'
    <3>1. CASE h = g
      BY <1>1, <1>2, <3>1 DEF ValidProposal, ValidBytes, ValidLeague
    <3>2. CASE h # g
      BY <1>2, <2>1, <3>2, StaysValid DEF NegotiationInv, SessionInv
    <3>3. QED
      BY <3>1, <3>2
  <2>2. ASSUME NEW n \in sent, n.kind = "accept"
        PROVE  \E h \in Pair : /\ n.to = Opponent(h) /\ session'[h].state # "none"
                               /\ n.body = Acceptance(session'[h].proposal)
    BY <1>2, <2>2 DEF NegotiationInv, SessionInv
  <2>3. ASSUME NEW h \in Pair, session'[h].state = "accepted"
        PROVE  /\ session'[Opponent(h)].state # "none"
               /\ session'[h].proposal = session'[Opponent(h)].proposal
    <3>1. h # g /\ session[h].state = "accepted" /\ session[Opponent(h)].state # "none"
      BY <1>2, <2>3 DEF NegotiationInv, SessionInv
    <3>2. Opponent(h) # g
      BY <1>2, <3>1
    <3>3. QED
      BY <1>2, <3>1, <3>2, TwoGroups DEF NegotiationInv, SessionInv
  <2>4. QED
    BY <1>2, <2>1, <2>2, <2>3 DEF SessionInv, Acceptance
<1>5. LeagueInv'
  BY <1>2 DEF NegotiationInv, LeagueInv, Counted
<1>6. QED
  BY <1>3, <1>4, <1>5 DEF NegotiationInv

LEMMA AcceptStep ==
  ASSUME NegotiationInv, NEW g \in Pair, Accept(g)
  PROVE  NegotiationInv'
<1>1. NegotiationTypeInv'
  BY DEF Accept, NegotiationInv, NegotiationTypeInv
<1>2. SessionInv'
  <2>1. UNCHANGED <<context, ledger, session>> /\ session[g].state # "none"
    BY DEF Accept
  <2>2. ASSUME NEW m \in sent', m.kind = "accept"
        PROVE  \E h \in Pair : /\ m.to = Opponent(h) /\ session[h].state # "none"
                               /\ m.body = Acceptance(session[h].proposal)
    <3>1. \/ m \in sent
          \/ m = [to |-> Opponent(g), kind |-> "accept",
                  body |-> Acceptance(session[g].proposal)]
      BY DEF Accept
    <3>2. QED
      BY <2>1, <2>2, <3>1 DEF NegotiationInv, SessionInv
  <2>3. QED
    BY <2>1, <2>2, StaysValid DEF NegotiationInv, SessionInv, Acceptance
<1>3. LeagueInv'
  BY DEF Accept, NegotiationInv, LeagueInv, Counted
<1>4. QED
  BY <1>1, <1>2, <1>3 DEF NegotiationInv

LEMMA ReceiveAcceptanceStep ==
  ASSUME NegotiationInv, NEW g \in Pair, ReceiveAcceptance(g)
  PROVE  NegotiationInv'
<1>1. PICK m \in sent : /\ m.to = g /\ m.kind = "accept"
                        /\ m.body = Acceptance(session[g].proposal)
  BY DEF ReceiveAcceptance, ValidAcceptance
<1>2. PICK o \in Pair : /\ m.to = Opponent(o) /\ session[o].state # "none"
                        /\ m.body = Acceptance(session[o].proposal)
  BY <1>1 DEF NegotiationInv, SessionInv
<1>3. o = Opponent(g) /\ session[o].proposal = session[g].proposal
  BY <1>1, <1>2, TwoGroups DEF Acceptance
<1>4. /\ session[g].state = "proposed" /\ UNCHANGED <<context, ledger, sent, played, budget>>
      /\ session'[g] = [state |-> "accepted", proposal |-> session[g].proposal]
      /\ \A h \in Pair : h # g => session'[h] = session[h]
  BY DEF ReceiveAcceptance, NegotiationInv, NegotiationTypeInv, NoSession
<1>5. NegotiationTypeInv'
  <2>1. session' = [h \in Pair |-> session'[h]]
    BY DEF ReceiveAcceptance, NegotiationInv, NegotiationTypeInv
  <2>2. QED
    BY <1>4, <2>1 DEF NegotiationInv, NegotiationTypeInv
<1>6. SessionInv'
  <2>1. \A h \in Pair : session'[h].proposal = session[h].proposal
    BY <1>4
  <2>2. \A h \in Pair : session'[h].state # "none" <=> session[h].state # "none"
    BY <1>4
  <2>3. ASSUME NEW h \in Pair, session'[h].state # "none"
        PROVE  ValidProposal(h, session[h].proposal)'
    BY <1>4, <2>1, <2>2, <2>3 DEF NegotiationInv, SessionInv, ValidProposal, ValidBytes, ValidLeague
  <2>4. ASSUME NEW n \in sent, n.kind = "accept"
        PROVE  \E h \in Pair : /\ n.to = Opponent(h) /\ session'[h].state # "none"
                               /\ n.body = Acceptance(session'[h].proposal)
    BY <2>1, <2>2, <2>4 DEF NegotiationInv, SessionInv
  <2>5. ASSUME NEW h \in Pair, session'[h].state = "accepted"
        PROVE  /\ session'[Opponent(h)].state # "none"
               /\ session'[h].proposal = session'[Opponent(h)].proposal
    <3>1. CASE h = g
      BY <1>2, <1>3, <2>1, <2>2, <3>1, TwoGroups
    <3>2. CASE h # g
      BY <1>4, <2>1, <2>2, <2>5, <3>2, TwoGroups DEF NegotiationInv, SessionInv
    <3>3. QED
      BY <3>1, <3>2
  <2>6. QED
    BY <1>4, <2>3, <2>4, <2>5 DEF SessionInv, Acceptance
<1>7. LeagueInv'
  BY <1>4 DEF NegotiationInv, LeagueInv, Counted
<1>8. QED
  BY <1>5, <1>6, <1>7 DEF NegotiationInv

-----------------------------------------------------------------------------
(* Playing the match. *)

\* A counted match that both have accepted is the first of the two, and each
\* has room for it.
LEMMA CountedMatchIsAllowed ==
  ASSUME NegotiationInv, Agreed, NEW g \in Pair, session[g].proposal.counted
  PROVE  Opponent(g) \notin ledger[g] /\ Cardinality(ledger[g]) < Limit
<1> DEFINE p == session[g].proposal
<1>1. ValidProposal(g, p)
  BY DEF Agreed, NegotiationInv, SessionInv
<1>2. PICK i \in 1..2 : p.participants[i].group = g
  BY <1>1 DEF ValidProposal, GroupsOf
<1>3. p.participants[i].total < Limit /\ p.participants[i].total = Cardinality(ledger[g])
  BY <1>1, <1>2 DEF ValidProposal, ValidLeague
<1>4. Opponent(g) \notin ledger[g]
  BY <1>1 DEF ValidProposal, ValidLeague
<1>5. QED
  BY <1>3, <1>4

LEMMA AgreedHoldOne ==
  ASSUME NegotiationInv, Agreed, NEW g \in Pair
  PROVE  session[g].proposal = session[A].proposal
<1>1. session[B].proposal = session[A].proposal
  BY TwoGroups DEF Agreed, NegotiationInv, SessionInv
<1>2. QED
  BY <1>1 DEF Pair

\* Where one write at most is lost, a group remembers.
LEMMA SomebodyRemembers ==
  ASSUME NEW forgets \in SUBSET Pair, Cardinality(forgets) <= 1
  PROVE  \E g \in Pair : g \notin forgets
<1>1. ASSUME \A g \in Pair : g \in forgets
      PROVE  FALSE
  <2>1. forgets = {A} \cup {B}
    BY <1>1 DEF Pair
  <2>2. IsFiniteSet({A}) /\ Cardinality({A}) = 1
    BY FS_Singleton
  <2>3. Cardinality({A} \cup {B}) = 2
    BY <2>2, FS_AddElement, GroupsAssumption
  <2>4. QED
    BY <2>1, <2>3
<1>2. QED
  BY <1>1

LEMMA PlayStep ==
  ASSUME NegotiationInv, Play
  PROVE  NegotiationInv'
<1> DEFINE match == [uid |-> Uid, counted |-> session[A].proposal.counted]
<1>1. PICK forgets \in SUBSET Pair :
        /\ Cardinality(forgets) <= budget.lost
        /\ ledger' = [g \in Pair |-> IF session[g].proposal.counted /\ g \notin forgets
                                       THEN ledger[g] \cup {Opponent(g)} ELSE ledger[g]]
        /\ budget' = [budget EXCEPT !.lost = @ - Cardinality(forgets),
                                    !.proposals = MaxProposals]
  BY DEF Play
<1>2. /\ Agreed /\ played' = played \cup {match} /\ sent' = {} /\ context' = context
      /\ session' = [g \in Pair |-> NoSession]
  BY DEF Play
<1>3. Cardinality(forgets) \in Nat
  <2>1. IsFiniteSet(Pair)
    <3>1. IsFiniteSet({A}) /\ Pair = {A} \cup {B}
      BY FS_Singleton DEF Pair
    <3>2. QED
      BY <3>1, FS_AddElement
  <2>2. QED
    BY <2>1, FS_Subset, FS_CardinalityType
<1>4. NegotiationTypeInv'
  <2>1. ledger' \in [Pair -> SUBSET (Others \cup Pair)]
    BY <1>1, TwoGroups DEF NegotiationInv, NegotiationTypeInv
  <2>2. /\ budget'.lost = budget.lost - Cardinality(forgets)
        /\ budget' = [proposals |-> budget'.proposals, slips |-> budget'.slips,
                      lost |-> budget'.lost]
    BY <1>1 DEF NegotiationInv, NegotiationTypeInv
  <2>3. budget'.lost \in 0..MaxLost
    BY <1>1, <1>3, <2>2, LossAssumption DEF NegotiationInv, NegotiationTypeInv
  <2>4. QED
    BY <1>2, <2>1, <2>2, <2>3 DEF NegotiationInv, NegotiationTypeInv
<1>5. SessionInv'
  BY <1>2 DEF SessionInv, NoSession
<1>6. ASSUME NEW g \in Pair
      PROVE  IsFiniteSet(ledger'[g]) /\ Cardinality(ledger'[g]) <= Limit
  <2>1. IsFiniteSet(ledger[g]) /\ Cardinality(ledger[g]) <= Limit
    BY DEF NegotiationInv, LeagueInv
  <2>2. CASE session[g].proposal.counted /\ g \notin forgets
    <3>1. ledger'[g] = ledger[g] \cup {Opponent(g)}
      BY <1>1, <2>2
    <3>2. Opponent(g) \notin ledger[g] /\ Cardinality(ledger[g]) < Limit
      BY <1>2, <2>2, CountedMatchIsAllowed
    <3>3. /\ IsFiniteSet(ledger[g] \cup {Opponent(g)})
          /\ Cardinality(ledger[g] \cup {Opponent(g)}) = Cardinality(ledger[g]) + 1
      BY <2>1, <3>2, FS_AddElement
    <3>4. Cardinality(ledger[g]) \in Nat
      BY <2>1, FS_CardinalityType
    <3>5. QED
      BY <3>1, <3>2, <3>3, <3>4, LedgersAssumption
  <2>3. CASE ~(session[g].proposal.counted /\ g \notin forgets)
    BY <1>1, <2>1, <2>3
  <2>4. QED
    BY <2>2, <2>3
<1>7. ASSUME MaxLost <= 1
      PROVE  \/ Counted' = {}
             \/ /\ \E m \in played' : Counted' = {m}
                /\ \E g \in Pair : Opponent(g) \in ledger'[g]
  <2>1. CASE session[A].proposal.counted
    <3>1. \A g \in Pair : session[g].proposal.counted
      BY <1>2, <2>1, AgreedHoldOne
    <3>2. \A g \in Pair : Opponent(g) \notin ledger[g]
      BY <1>2, <3>1, CountedMatchIsAllowed
    <3>3. Counted = {}
      BY <1>7, <3>2 DEF NegotiationInv, LeagueInv
    <3>4. Counted' = {match}
      BY <1>2, <2>1, <3>3 DEF Counted
    <3>5. Cardinality(forgets) <= 1
      BY <1>1, <1>3, <1>7, LossAssumption DEF NegotiationInv, NegotiationTypeInv
    <3>6. PICK g \in Pair : g \notin forgets
      BY <3>5, SomebodyRemembers
    <3>7. Opponent(g) \in ledger'[g]
      BY <1>1, <3>1, <3>6
    <3>8. QED
      BY <1>2, <3>4, <3>7
  <2>2. CASE ~session[A].proposal.counted
    <3>1. \A g \in Pair : ledger'[g] = ledger[g]
      BY <1>1, <1>2, <2>2, AgreedHoldOne
    <3>2. Counted' = Counted
      BY <1>2, <2>2 DEF Counted
    <3>3. QED
      BY <1>2, <1>7, <3>1, <3>2 DEF NegotiationInv, LeagueInv
  <2>3. QED
    BY <2>1, <2>2
<1>8. LeagueInv'
  BY <1>6, <1>7 DEF LeagueInv
<1>9. QED
  BY <1>4, <1>5, <1>8 DEF NegotiationInv

-----------------------------------------------------------------------------
LEMMA NegotiationStarts == Init => NegotiationInv
<1> SUFFICES ASSUME Init PROVE NegotiationInv
  OBVIOUS
<1>1. NegotiationTypeInv
  BY LossAssumption DEF Init, NegotiationTypeInv, NoSession
<1>2. SessionInv
  BY DEF Init, SessionInv, NoSession
<1>3. ASSUME NEW g \in Pair
      PROVE  IsFiniteSet(ledger[g]) /\ Cardinality(ledger[g]) <= Limit
  <2>1. ledger[g] \in SUBSET Others
    BY DEF Init
  <2>2. /\ IsFiniteSet(ledger[g]) /\ Cardinality(ledger[g]) \in Nat
        /\ Cardinality(ledger[g]) <= Cardinality(Others) /\ Cardinality(Others) \in Nat
    BY <2>1, LedgersAssumption, FS_Subset, FS_CardinalityType
  <2>3. QED
    BY <2>2, LedgersAssumption
<1>4. LeagueInv
  BY <1>3 DEF Init, LeagueInv, Counted
<1>5. QED
  BY <1>1, <1>2, <1>4 DEF NegotiationInv

LEMMA NegotiationGoesOn == NegotiationInv /\ [Next]_negotiationVars => NegotiationInv'
<1> SUFFICES ASSUME NegotiationInv, [Next]_negotiationVars PROVE NegotiationInv'
  OBVIOUS
<1>1. CASE Play
  BY <1>1, PlayStep
<1>2. ASSUME NEW g \in Pair,
             Send(g) \/ ReceiveProposal(g) \/ Accept(g) \/ ReceiveAcceptance(g)
      PROVE  NegotiationInv'
  BY <1>2, SendStep, ReceiveProposalStep, AcceptStep, ReceiveAcceptanceStep
<1>3. CASE UNCHANGED negotiationVars
  BY <1>3, StaysValid DEF negotiationVars, NegotiationInv, NegotiationTypeInv, SessionInv, LeagueInv, Counted
<1>4. QED
  BY <1>1, <1>2, <1>3 DEF Next

(***************************************************************************)
(* The invariant holds in every behaviour: in particular what a session    *)
(* holds stays valid for the ledger it will be written to, however long    *)
(* the other peer takes to answer (negotiation.py:69-138).                 *)
(***************************************************************************)
THEOREM NegotiationInvariant == Spec => []NegotiationInv
  BY NegotiationStarts, NegotiationGoesOn, PTL DEF Spec

LEMMA AgreementIsOne ==
  ASSUME NegotiationInv
  PROVE  AgreedOnOneMatch
<1> SUFFICES ASSUME Agreed
             PROVE  /\ session[A].proposal = session[B].proposal
                    /\ context[A].config = context[B].config
                    /\ \A g \in Pair : ValidProposal(g, session[g].proposal)
  BY DEF AgreedOnOneMatch
<1> DEFINE p == session[A].proposal
<1>1. session[B].proposal = p
  BY TwoGroups, AgreedHoldOne
<1>2. \A g \in Pair : ValidProposal(g, session[g].proposal)
  BY DEF Agreed, NegotiationInv, SessionInv
<1>3. ValidProposal(A, p) /\ ValidProposal(B, p)
  BY <1>1, <1>2, TwoGroups
<1>4. /\ context[A].config.canonical = context[B].config.canonical
      /\ context[A].config.raw = context[B].config.raw
      /\ context[A].config.scent = context[B].config.scent
      /\ context[A].config.between = context[B].config.between
  BY <1>3 DEF ValidProposal, ValidBytes
<1>5. \A g \in {A, B} :
        context[g].config = [canonical |-> context[g].config.canonical,
                             raw |-> context[g].config.raw,
                             scent |-> context[g].config.scent,
                             between |-> context[g].config.between]
  BY ContextsAssumption DEF NegotiationInv, NegotiationTypeInv
<1>6. context[A].config = context[B].config
  BY <1>4, <1>5
<1>7. QED
  BY <1>1, <1>2, <1>6

LEMMA LeagueIsKept ==
  ASSUME NegotiationInv, MaxLost <= 1
  PROVE  LeagueRulesHold
<1>1. Cardinality(Counted) <= 1
  <2>1. CASE Counted = {}
    BY <2>1, FS_EmptySet
  <2>2. ASSUME NEW m, Counted = {m}
        PROVE  Cardinality(Counted) <= 1
    BY <2>2, FS_Singleton
  <2>3. QED
    BY <2>1, <2>2 DEF NegotiationInv, LeagueInv
<1>2. QED
  BY <1>1 DEF LeagueRulesHold, Counted, NegotiationInv, LeagueInv

(***************************************************************************)
(* Peers that start a match hold one and the same valid proposal, and the  *)
(* league's rules are kept, as long as one record at most is lost: with    *)
(* both lost nobody remembers the counted match (negotiation.py:69-138).   *)
(***************************************************************************)
THEOREM AgreementsAreBinding ==
  ASSUME MaxLost <= 1
  PROVE  Spec => []MatchIsBinding
<1>1. NegotiationInv => MatchIsBinding
  BY AgreementIsOne, LeagueIsKept DEF MatchIsBinding
<1>2. QED
  BY <1>1, NegotiationInvariant, PTL

-----------------------------------------------------------------------------
(* Campaign: the best of some trials. *)

LEMMA LeastOf ==
  ASSUME NEW S \in SUBSET Nat, S # {}
  PROVE  \E m \in S : \A k \in S : m <= k
<1>1. PICK m \in S : \A k \in S : <<k, m>> \notin OpToRel(<, Nat)
  BY NatLessThanWellFounded, WFMin, Zenon
<1>2. ASSUME NEW k \in S PROVE m <= k
  <2>1. <<k, m>> \notin {ss \in Nat \X Nat : ss[1] < ss[2]}
    BY <1>1, Zenon DEF OpToRel
  <2>2. k \in Nat /\ m \in Nat
    OBVIOUS
  <2>3. QED
    BY <2>1, <2>2
<1>3. QED
  BY <1>2

\* Among finitely many there is a greatest, and a first one of these.
LEMMA FirstOfGreatest ==
  ASSUME NEW n \in Nat, NEW Q \in SUBSET (1..n), Q # {}, NEW f, \A i \in Q : f[i] \in Int
  PROVE  \E m \in Q : \A i \in Q : f[i] < f[m] \/ (f[i] = f[m] /\ m <= i)
<1> DEFINE Upto(k) == {i \in Q : i <= k}
           Best(k, m) == \A i \in Upto(k) : f[i] < f[m] \/ (f[i] = f[m] /\ m <= i)
           Bad == {k \in 0..n : Upto(k) # {} /\ ~\E m \in Upto(k) : Best(k, m)}
<1>1. Bad = {}
  <2> SUFFICES ASSUME Bad # {} PROVE FALSE
    OBVIOUS
  <2>1. Bad \in SUBSET Nat
    OBVIOUS
  <2>2. PICK k \in Bad : \A j \in Bad : k <= j
    BY <2>1, LeastOf
  <2>3. k \in 1..n /\ k - 1 \in 0..n /\ k - 1 \notin Bad
    <3>1. k \in 0..n /\ Upto(k) # {}
      OBVIOUS
    <3>2. \A i \in Q : i \in Int /\ i >= 1
      OBVIOUS
    <3>3. k # 0
      <4>1. PICK i \in Q : i <= k
        BY <3>1
      <4>2. QED
        BY <3>2, <4>1
    <3>4. QED
      BY <2>2, <3>1, <3>3
  <2>4. Upto(k) = Upto(k - 1) \cup (IF k \in Q THEN {k} ELSE {})
    <3>1. \A i \in Q : i \in Int
      OBVIOUS
    <3>2. \A i \in Q : i <= k <=> (i <= k - 1 \/ i = k)
      BY <2>3, <3>1
    <3>3. ~(k <= k - 1)
      BY <2>3
    <3>4. CASE k \in Q
      BY <3>2, <3>4
    <3>5. CASE k \notin Q
      BY <3>2, <3>5
    <3>6. QED
      BY <3>4, <3>5
  <2>5. CASE Upto(k - 1) = {}
    <3>1. Upto(k) = {k} /\ k \in Q
      BY <2>2, <2>4, <2>5
    <3>2. Best(k, k)
      BY <3>1
    <3>3. QED
      BY <2>2, <3>1, <3>2
  <2>6. CASE Upto(k - 1) # {}
    <3>1. PICK m \in Upto(k - 1) : Best(k - 1, m)
      BY <2>3, <2>6
    <3>2. m \in Upto(k) /\ m < k
      BY <2>3, <2>4, <3>1
    <3>3. CASE k \in Q /\ f[k] > f[m]
      <4>1. k \in Upto(k) /\ Best(k, k)
        BY <2>3, <2>4, <3>1, <3>3
      <4>2. QED
        BY <2>2, <4>1
    <3>4. CASE ~(k \in Q /\ f[k] > f[m])
      <4>1. Best(k, m)
        BY <2>3, <2>4, <3>1, <3>2, <3>4
      <4>2. QED
        BY <2>2, <3>2, <4>1
    <3>5. QED
      BY <3>3, <3>4
  <2>7. QED
    BY <2>5, <2>6
<1>2. n \notin Bad /\ Upto(n) = Q
  <2>1. \A i \in Q : i \in Int /\ i <= n
    OBVIOUS
  <2>2. QED
    BY <1>1, <2>1
<1>3. QED
  BY <1>2

\* And a least.
LEMMA LeastValue ==
  ASSUME NEW n \in Nat, NEW Q \in SUBSET (1..n), Q # {}, NEW f, \A i \in Q : f[i] \in Int
  PROVE  \E m \in Q : \A i \in Q : f[m] <= f[i]
<1> DEFINE g == [i \in Q |-> -f[i]]
<1>1. \A i \in Q : g[i] = -f[i] /\ g[i] \in Int
  OBVIOUS
<1> HIDE DEF g
<1>2. PICK m \in Q : \A i \in Q : g[i] < g[m] \/ (g[i] = g[m] /\ m <= i)
  BY <1>1, FirstOfGreatest
<1>3. QED
  BY <1>1, <1>2

\* The k-th smallest of a history is one of its values.
LEMMA NthIsOne ==
  ASSUME NEW h \in Seq(Int), NEW k \in 1..Len(h)
  PROVE  \E i \in DOMAIN h : Nth(h, k) = h[i]
<1> DEFINE n == Len(h)
           Below(j) == {x \in DOMAIN h : h[x] <= h[j]}
           enough == {j \in DOMAIN h : Cardinality(Below(j)) >= k}
           values == {h[i] : i \in enough}
<1>1. n \in Nat /\ DOMAIN h = 1..n /\ \A i \in 1..n : h[i] \in Int
  OBVIOUS
<1> HIDE DEF n
<1>2. PICK m \in 1..n : \A i \in 1..n : h[i] < h[m] \/ (h[i] = h[m] /\ m <= i)
  <2>1. 1..n # {} /\ 1..n \in SUBSET (1..n)
    BY <1>1 DEF n
  <2>2. QED
    BY <1>1, <2>1, FirstOfGreatest
<1>3. Below(m) = 1..n
  BY <1>1, <1>2
<1>4. Cardinality(1..n) = n
  BY <1>1, FS_Interval
<1>5. m \in enough
  <2>1. n >= k
    BY DEF n
  <2>2. QED
    BY <1>1, <1>3, <1>4, <2>1
<1>6. enough \in SUBSET (1..n)
  BY <1>1
<1> HIDE DEF enough
<1>7. PICK l \in enough : \A i \in enough : h[l] <= h[i]
  BY <1>1, <1>5, <1>6, LeastValue
<1>8. h[l] \in values /\ \A v \in values : h[l] <= v
  BY <1>7
<1>9. Nth(h, k) = Min(values)
  BY DEF Nth, enough
<1>10. Min(values) \in values
  BY <1>8 DEF Min
<1>11. QED
  BY <1>1, <1>6, <1>9, <1>10

\* Nobody who screens as well as the whole history is stopped for it.
LEMMA BestIsNotInferior ==
  ASSUME NEW h \in Seq(Int), NEW screening, screening.objective \in Int,
         \A i \in DOMAIN h : h[i] <= screening.objective
  PROVE  ~Inferior(screening, h)
<1> DEFINE n == Len(h)
<1>1. SUFFICES ASSUME n >= MinHistory
               PROVE  ~(2 * screening.objective < ScreeningThreshold(h))
  BY DEF Inferior
<1>2. n \in Nat /\ n >= 1 /\ \A i \in DOMAIN h : h[i] \in Int
  BY <1>1, CampaignAssumption
<1>3. \A k \in 1..n : Nth(h, k) \in Int /\ Nth(h, k) <= screening.objective
  BY <1>2, NthIsOne
<1>4. CASE n % 2 = 1
  <2>1. (n + 1) \div 2 \in 1..n
    BY <1>2
  <2>2. ScreeningThreshold(h) = 2 * Nth(h, (n + 1) \div 2)
    BY <1>4 DEF ScreeningThreshold
  <2>3. QED
    BY <1>3, <2>1, <2>2
<1>5. CASE n % 2 # 1
  <2>1. n \div 2 \in 1..n /\ n \div 2 + 1 \in 1..n
    BY <1>2, <1>5
  <2>2. ScreeningThreshold(h) = Nth(h, n \div 2) + Nth(h, n \div 2 + 1)
    BY <1>5 DEF ScreeningThreshold
  <2>3. QED
    BY <1>3, <2>1, <2>2
<1>6. QED
  BY <1>4, <1>5

-----------------------------------------------------------------------------
(* Campaign: the invariant. *)

TrialRecords ==
  [id : Nat, method : {"random", "surrogate"}, point : Nat, screening : TrialResults,
   full : TrialResults \cup {NoResult},
   reason : {"RELIABILITY_GATE", "BELOW_MEDIAN_SCREEN", "COMPLETED"}]

\* The trials are numbered through, and none that leads is stopped early.
TrialsInv ==
  /\ trials \in Seq(TrialRecords)
  /\ Len(trials) <= RandomTrials + SurrogateTrials
  /\ \A i \in DOMAIN trials : trials[i].id = i - 1
  /\ \A i \in DOMAIN trials :
       /\ trials[i].screening.reliable
       /\ \A j \in 1..i - 1 :
            trials[j].screening.objective <= trials[i].screening.objective
       => Completed(trials[i])

\* The number in the manifest names the candidate and no other point, and the
\* trials of the random search, which a repair keeps, have their numbers.
TuningInv ==
  tuning.kind = "tuning" =>
    /\ tuning.trials \in Seq(Range(tuning.trials)) /\ Len(tuning.trials) >= RandomTrials
    /\ \A i \in 1..RandomTrials : tuning.trials[i].id = i - 1
    /\ \E i \in DOMAIN tuning.trials : tuning.trials[i].id = tuning.candidate.id
    /\ \A i \in DOMAIN tuning.trials :
         tuning.trials[i].id = tuning.candidate.id =>
           tuning.trials[i].point = tuning.candidate.point
    /\ tuning.confirmation.of = tuning.candidate.point

SelectionInv ==
  selection.kind = "selection" =>
    /\ selection.trainedOn.of = selection.validated
    /\ selection.freeze.point = selection.validated
    /\ selection.result = "PASS" =>
         Within(selection.validation.share, selection.trainedOn.share, 8)

CampaignInv == TrialsInv /\ TuningInv /\ SelectionInv /\ HoldoutIsKept

-----------------------------------------------------------------------------
(* Campaign: the search. *)

LEMMA TrialTypes ==
  ASSUME NEW t \in TrialRecords
  PROVE  /\ Objective(t) \in Int
         /\ t.full \in TrialResults => Completed(t)
<1>1. \A r \in TrialResults : r.objective \in Int /\ r # NoResult
  <2> SUFFICES ASSUME NEW r \in TrialResults PROVE r.objective \in Int /\ r # NoResult
    OBVIOUS
  <2>1. r \in [objective : Int, reliable : BOOLEAN]
    BY CampaignAssumption
  <2>2. "objective" \in DOMAIN r /\ "objective" \notin DOMAIN NoResult
    BY <2>1 DEF NoResult
  <2>3. QED
    BY <2>1, <2>2
<1>2. t.screening \in TrialResults /\ t.full \in TrialResults \cup {NoResult}
  BY DEF TrialRecords
<1>3. QED
  BY <1>1, <1>2 DEF Objective, Deepest, Completed

Slice(lo, hi) == {trials[i] : i \in lo..hi}

\* The best of some trials is one of those it is chosen from.
LEMMA BestOfSlice ==
  ASSUME TrialsInv, NEW lo \in Nat \ {0}, NEW hi \in Nat, lo <= hi, hi <= Len(trials)
  PROVE  LET pool == IF Eligible(Slice(lo, hi)) # {} THEN Eligible(Slice(lo, hi))
                     ELSE Slice(lo, hi)
             best == BestOf(Slice(lo, hi))
         IN  best \in pool /\ \A u \in pool : Objective(u) <= Objective(best)
<1> DEFINE ts == Slice(lo, hi)
           pool == IF Eligible(ts) # {} THEN Eligible(ts) ELSE ts
           Q == {i \in lo..hi : trials[i] \in pool}
           f == [i \in Q |-> Objective(trials[i])]
           Beats(t, u) == \/ Objective(t) > Objective(u)
                          \/ Objective(t) = Objective(u) /\ t.id <= u.id
<1>1. /\ Len(trials) \in Nat /\ DOMAIN trials = 1..Len(trials)
      /\ \A i \in 1..Len(trials) : trials[i] \in TrialRecords /\ trials[i].id = i - 1
  BY DEF TrialsInv
<1>2. trials[lo] \in ts
  BY DEF Slice
<1>3. pool # {} /\ pool \subseteq ts
  BY <1>2 DEF Eligible
<1>4. \A u \in pool : \E i \in Q : u = trials[i]
  BY <1>3 DEF Slice
<1>5. Q \in SUBSET (1..Len(trials)) /\ Q # {}
  <2>1. \A i \in lo..hi : i \in 1..Len(trials)
    BY <1>1
  <2>2. Q # {}
    BY <1>3, <1>4
  <2>3. QED
    BY <2>1, <2>2
<1>6. \A i \in Q : trials[i] \in pool /\ f[i] = Objective(trials[i]) /\ f[i] \in Int
  BY <1>1, <1>5, TrialTypes
<1>7. BestOf(ts) = CHOOSE t \in pool : \A u \in pool : Beats(t, u)
  BY DEF BestOf
<1> HIDE DEF pool, Q, f
<1>8. PICK m \in Q : \A i \in Q : f[i] < f[m] \/ (f[i] = f[m] /\ m <= i)
  BY <1>1, <1>5, <1>6, FirstOfGreatest
<1>9. \A u \in pool : Beats(trials[m], u)
  <2> SUFFICES ASSUME NEW u \in pool PROVE Beats(trials[m], u)
    OBVIOUS
  <2>1. PICK i \in Q : u = trials[i]
    BY <1>4
  <2>2. trials[m].id = m - 1 /\ trials[i].id = i - 1 /\ m \in Int /\ i \in Int
    BY <1>1, <1>5
  <2>3. QED
    BY <1>6, <1>8, <2>1, <2>2
<1>10. trials[m] \in pool
  BY <1>6
<1> HIDE DEF Beats
<1>11. BestOf(ts) \in pool /\ \A u \in pool : Beats(BestOf(ts), u)
  BY <1>7, <1>9, <1>10
<1>12. \A u \in pool : Objective(u) \in Int
  BY <1>4, <1>6
<1>13. \A u \in pool : Objective(u) <= Objective(BestOf(ts))
  BY <1>11, <1>12 DEF Beats
<1>14. QED
  BY <1>11, <1>13 DEF pool

LEMMA TheSlices ==
  ASSUME TrialsInv, Searched
  PROVE  /\ Broad = Slice(1, RandomTrials) /\ RandomTrials \in Nat \ {0}
         /\ RandomTrials <= Len(trials)
         /\ Refined = Slice(RandomTrials + 1, Len(trials)) /\ RandomTrials + 1 <= Len(trials)
         /\ Len(trials) \in Nat
  BY CampaignAssumption DEF Broad, Refined, Slice, Searched, TrialsInv

\* What is frozen is one of the trials.
LEMMA FrozenIsATrial ==
  ASSUME TrialsInv, Searched
  PROVE  \E i \in DOMAIN trials : Frozen = trials[i]
<1> DEFINE all == {trials[i] : i \in DOMAIN trials}
<1>1. /\ Len(trials) \in Nat /\ DOMAIN trials = 1..Len(trials)
  BY DEF TrialsInv
<1>2. Slice(1, RandomTrials) \subseteq all /\ Slice(RandomTrials + 1, Len(trials)) \subseteq all
  BY <1>1, TheSlices DEF Slice
<1>3. BestOf(Broad) \in Slice(1, RandomTrials)
  BY TheSlices, BestOfSlice DEF Eligible
<1>4. BestOf(Refined) \in Slice(RandomTrials + 1, Len(trials))
  BY TheSlices, BestOfSlice DEF Eligible
<1>5. Frozen \in all
  BY <1>2, <1>3, <1>4 DEF Frozen
<1>6. QED
  BY <1>5

\* With eligible trials on both sides it is the best of all of these.
LEMMA FrozenIsBest ==
  ASSUME TrialsInv, Searched, Eligible(Broad) # {}, Eligible(Refined) # {}
  PROVE  /\ Frozen \in Eligible(Broad \cup Refined)
         /\ \A t \in Eligible(Broad \cup Refined) : Objective(t) <= Objective(Frozen)
<1>1. /\ BestOf(Broad) \in Eligible(Broad)
      /\ \A u \in Eligible(Broad) : Objective(u) <= Objective(BestOf(Broad))
  BY TheSlices, BestOfSlice
<1>2. /\ BestOf(Refined) \in Eligible(Refined)
      /\ \A u \in Eligible(Refined) : Objective(u) <= Objective(BestOf(Refined))
  BY TheSlices, BestOfSlice
<1>3. Eligible(Broad \cup Refined) = Eligible(Broad) \cup Eligible(Refined)
  BY DEF Eligible
<1>4. \A t \in Eligible(Broad) \cup Eligible(Refined) : Objective(t) \in Int
  <2>1. \A t \in Broad \cup Refined : t \in TrialRecords
    BY TheSlices DEF Slice, TrialsInv
  <2>2. QED
    BY <2>1, TrialTypes DEF Eligible
<1>5. Frozen = IF Objective(BestOf(Refined)) > Objective(BestOf(Broad))
                 THEN BestOf(Refined) ELSE BestOf(Broad)
  BY DEF Frozen
<1>6. QED
  BY <1>1, <1>2, <1>3, <1>4, <1>5

LEMMA AttemptStep ==
  ASSUME TrialsInv, NEW method \in {"random", "surrogate"}, Attempt(method, Len(trials)),
         Len(trials) < RandomTrials + SurrogateTrials
  PROVE  TrialsInv'
<1>1. /\ Len(trials) \in Nat /\ DOMAIN trials = 1..Len(trials)
      /\ \A i \in 1..Len(trials) : trials[i] \in TrialRecords
  BY DEF TrialsInv
<1>2. PICK screening \in TrialResults :
        \E t \in EvaluateTrial(Len(trials), method, Len(trials) + 1, screening, History) :
          trials' = Append(trials, t)
  BY DEF Attempt
<1>3. PICK t \in EvaluateTrial(Len(trials), method, Len(trials) + 1, screening, History) :
        trials' = Append(trials, t)
  BY <1>2
<1>4. /\ t.id = Len(trials) /\ t.screening = screening
      /\ t \in TrialRecords
      /\ screening.reliable /\ ~Inferior(screening, History) => t.full \in TrialResults
  <2>1. CASE ~screening.reliable
    <3>1. t = Trial(Len(trials), method, Len(trials) + 1, screening, NoResult,
                    "RELIABILITY_GATE")
      BY <1>3, <2>1 DEF EvaluateTrial
    <3>2. t.id = Len(trials) /\ t.screening = screening
      BY <3>1 DEF Trial
    <3>3. t \in TrialRecords
      BY <1>1, <3>1 DEF Trial, TrialRecords
    <3>4. QED
      BY <2>1, <3>2, <3>3
  <2>2. CASE screening.reliable /\ Inferior(screening, History)
    <3>1. t = Trial(Len(trials), method, Len(trials) + 1, screening, NoResult,
                    "BELOW_MEDIAN_SCREEN")
      BY <1>3, <2>2 DEF EvaluateTrial
    <3>2. t.id = Len(trials) /\ t.screening = screening
      BY <3>1 DEF Trial
    <3>3. t \in TrialRecords
      BY <1>1, <3>1 DEF Trial, TrialRecords
    <3>4. QED
      BY <2>2, <3>2, <3>3
  <2>3. CASE screening.reliable /\ ~Inferior(screening, History)
    <3>1. PICK full \in TrialResults :
            t = Trial(Len(trials), method, Len(trials) + 1, screening, full, "COMPLETED")
      BY <1>3, <2>3 DEF EvaluateTrial
    <3>2. t.id = Len(trials) /\ t.screening = screening /\ t.full = full
      BY <3>1 DEF Trial
    <3>3. t \in TrialRecords
      BY <1>1, <3>1 DEF Trial, TrialRecords
    <3>4. QED
      BY <3>2, <3>3
  <2>4. QED
    BY <2>1, <2>2, <2>3
<1>5. /\ trials' \in Seq(TrialRecords) /\ Len(trials') = Len(trials) + 1
      /\ DOMAIN trials' = 1..Len(trials) + 1 /\ trials'[Len(trials) + 1] = t
      /\ \A i \in 1..Len(trials) : trials'[i] = trials[i]
  BY <1>1, <1>3, <1>4 DEF TrialsInv
<1>6. ASSUME screening.reliable,
             \A j \in 1..Len(trials) : trials[j].screening.objective <= screening.objective
      PROVE  Completed(t)
  <2>1. \A r \in TrialResults : r.objective \in Int
    BY CampaignAssumption
  <2>2. History \in Seq(Int) /\ DOMAIN History = 1..Len(trials)
        /\ \A i \in 1..Len(trials) : History[i] = trials[i].screening.objective
    BY <1>1, <2>1 DEF History, TrialRecords
  <2>3. ~Inferior(screening, History)
    BY <1>6, <2>1, <2>2, BestIsNotInferior
  <2>4. QED
    BY <1>4, <1>6, <2>3, TrialTypes
<1>7. \A i \in DOMAIN trials' : trials'[i].id = i - 1
  BY <1>1, <1>4, <1>5 DEF TrialsInv
<1>8. ASSUME NEW i \in DOMAIN trials', trials'[i].screening.reliable,
             \A j \in 1..i - 1 :
               trials'[j].screening.objective <= trials'[i].screening.objective
      PROVE  Completed(trials'[i])
  <2>1. CASE i = Len(trials) + 1
    BY <1>1, <1>4, <1>5, <1>6, <1>8, <2>1
  <2>2. CASE i # Len(trials) + 1
    BY <1>1, <1>5, <1>8, <2>2 DEF TrialsInv
  <2>3. QED
    BY <2>1, <2>2
<1>9. Len(trials') <= RandomTrials + SurrogateTrials
  BY <1>1, <1>5, CampaignAssumption
<1>10. QED
  BY <1>5, <1>7, <1>8, <1>9 DEF TrialsInv, Completed

LEMMA SearchStep ==
  ASSUME TrialsInv, Search
  PROVE  TrialsInv'
<1>1. Len(trials) \in Nat /\ RandomTrials \in Nat /\ SurrogateTrials \in Nat \ {0}
  <2>1. trials \in Seq(TrialRecords)
    BY DEF TrialsInv
  <2>2. Len(trials) \in Nat
    BY <2>1
  <2>3. RandomTrials \in Nat /\ SurrogateTrials \in Nat \ {0}
    BY CampaignAssumption
  <2>4. QED
    BY <2>2, <2>3
<1>2. CASE RandomTrial
  <2>1. Len(trials) < RandomTrials + SurrogateTrials /\ Attempt("random", Len(trials))
    BY <1>1, <1>2 DEF RandomTrial
  <2>2. QED
    BY <2>1, AttemptStep
<1>3. CASE SurrogateTrial
  <2>1. Len(trials) \in RandomTrials..RandomTrials + SurrogateTrials - 1
    BY <1>3 DEF SurrogateTrial
  <2>2. Len(trials) < RandomTrials + SurrogateTrials
        /\ FirstId + (Len(trials) - RandomTrials) = Len(trials)
    BY <1>1, <2>1 DEF FirstId
  <2>3. Attempt("surrogate", Len(trials))
    BY <1>3, <2>2 DEF SurrogateTrial
  <2>4. QED
    BY <2>2, <2>3, AttemptStep
<1>4. QED
  BY <1>2, <1>3 DEF Search

-----------------------------------------------------------------------------
(* Campaign: the evidence. *)

LEMMA LeastIn ==
  ASSUME NEW S \in SUBSET Nat, S # {}
  PROVE  Min(S) \in S
  BY LeastOf DEF Min

\* The point that the manifest's number finds is the candidate's.
LEMMA LoadedIsCandidate ==
  ASSUME TuningInv, tuning.kind = "tuning"
  PROVE  LoadFreeze = tuning.candidate.point
<1> DEFINE named == {i \in DOMAIN tuning.trials : tuning.trials[i].id = tuning.candidate.id}
<1>1. named # {} /\ named \in SUBSET Nat
  BY DEF TuningInv
<1>2. \A i \in named : tuning.trials[i].point = tuning.candidate.point
  BY DEF TuningInv
<1>3. LoadFreeze = tuning.trials[Min(named)].point
  BY <1>1 DEF LoadFreeze
<1> HIDE DEF named
<1>4. Min(named) \in named
  BY <1>1, LeastIn
<1>5. QED
  BY <1>2, <1>3, <1>4

\* An evidence that lists a candidate once, behind the random trials or among all.
LEMMA EvidenceHolds ==
  ASSUME NEW listed, NEW candidate, NEW confirmation,
         tuning' \in Written(TuningEvidence(listed, candidate, confirmation)),
         listed \in Seq(Range(listed)), Len(listed) >= RandomTrials,
         \A i \in 1..RandomTrials : listed[i].id = i - 1,
         \E i \in DOMAIN listed : listed[i].id = candidate.id,
         \A i \in DOMAIN listed :
           listed[i].id = candidate.id => listed[i].point = candidate.point,
         confirmation.of = candidate.point
  PROVE  TuningInv'
<1>1. CASE tuning' = Torn
  BY <1>1 DEF TuningInv, Torn
<1>2. CASE tuning' = TuningEvidence(listed, candidate, confirmation)
  <2>1. tuning'.trials = listed /\ tuning'.candidate = candidate
        /\ tuning'.confirmation = confirmation
    BY <1>2 DEF TuningEvidence
  <2>2. QED
    BY <2>1 DEF TuningInv
<1>3. QED
  BY <1>1, <1>2 DEF Written

LEMMA FinishStep ==
  ASSUME TrialsInv, FinishTuning
  PROVE  TuningInv'
<1> DEFINE listed == [i \in DOMAIN trials |-> [id |-> trials[i].id, point |-> Point(trials[i])]]
           candidate == CandidateFreeze("train", Point(Frozen), Objective(Frozen), Frozen.id)
<1>1. PICK r \in Reports :
        tuning' \in Written(TuningEvidence(listed, candidate, Confirmation(Point(Frozen), r)))
  BY DEF FinishTuning
<1>2. PICK m \in DOMAIN trials : Frozen = trials[m]
  BY FrozenIsATrial DEF FinishTuning
<1>3. /\ Len(trials) \in Nat /\ DOMAIN trials = 1..Len(trials)
      /\ \A i \in DOMAIN trials : trials[i].id = i - 1
      /\ RandomTrials \in Nat /\ RandomTrials <= Len(trials)
  BY CampaignAssumption DEF TrialsInv, FinishTuning, Searched
<1>4. /\ DOMAIN listed = 1..Len(trials)
      /\ \A i \in DOMAIN trials : listed[i].id = trials[i].id /\ listed[i].point = Point(trials[i])
  BY <1>3
<1>5. listed \in Seq(Range(listed)) /\ Len(listed) = Len(trials)
  <2>1. \A i \in 1..Len(trials) : listed[i] \in Range(listed)
    BY <1>4 DEF Range
  <2>2. listed = [i \in 1..Len(trials) |-> listed[i]]
    BY <1>4
  <2> HIDE DEF listed
  <2>3. QED
    BY <1>3, <1>4, <2>1, <2>2
<1>6. candidate.id = m - 1 /\ candidate.point = Point(trials[m])
  BY <1>2, <1>3 DEF CandidateFreeze
<1>7. \A i \in DOMAIN listed : listed[i].id = candidate.id => i = m
  BY <1>2, <1>3, <1>4, <1>6
<1>8. \A i \in DOMAIN listed : listed[i].id = candidate.id => listed[i].point = candidate.point
  BY <1>3, <1>4, <1>6, <1>7
<1>9. \E i \in DOMAIN listed : listed[i].id = candidate.id
  BY <1>2, <1>3, <1>4, <1>6
<1>10. \A i \in 1..RandomTrials : listed[i].id = i - 1
  BY <1>3, <1>4
<1>11. Confirmation(Point(Frozen), r).of = candidate.point
  BY DEF Confirmation, CandidateFreeze
<1>12. Len(listed) >= RandomTrials
  BY <1>3, <1>5
<1> HIDE DEF listed, candidate
<1>13. QED
  BY <1>1, <1>5, <1>8, <1>9, <1>10, <1>11, <1>12, EvidenceHolds

LEMMA RepairStep ==
  ASSUME TuningInv, Repair
  PROVE  TuningInv'
<1> DEFINE kept == SubSeq(tuning.trials, 1, RandomTrials)
<1>1. tuning.kind = "tuning"
  BY DEF Repair, LoadFreeze
<1>2. PICK reports \in [DOMAIN Patches -> Reports], r \in Reports :
        LET best == BestPatch(reports)
            point == Merged(LoadFreeze, Patches[best])
            repaired == [id |-> 10000, point |-> point]
        IN  tuning' \in Written(
              TuningEvidence(Append(kept, repaired),
                             CandidateFreeze("train", point, reports[best].thief, 10000),
                             ConfirmedNow(point, r)))
  BY DEF Repair
<1> DEFINE best == BestPatch(reports)
           point == Merged(LoadFreeze, Patches[best])
           repaired == [id |-> 10000, point |-> point]
           listed == Append(kept, repaired)
           candidate == CandidateFreeze("train", point, reports[best].thief, 10000)
           confirmation == ConfirmedNow(point, r)
<1>3. tuning' \in Written(TuningEvidence(listed, candidate, confirmation))
  BY <1>2
<1>4. candidate.id = 10000 /\ candidate.point = point /\ confirmation.of = point
      /\ repaired.id = 10000 /\ repaired.point = point
  BY DEF CandidateFreeze, ConfirmedNow, Confirmation
<1>5. RandomTrials \in 1..10000
  BY CampaignAssumption
<1>6. /\ tuning.trials \in Seq(Range(tuning.trials)) /\ Len(tuning.trials) >= RandomTrials
      /\ \A i \in 1..RandomTrials : tuning.trials[i].id = i - 1
  BY <1>1 DEF TuningInv
<1> HIDE DEF best, point, repaired, candidate, confirmation
<1>7. /\ kept \in Seq(Range(tuning.trials)) /\ Len(kept) = RandomTrials
      /\ \A i \in 1..RandomTrials : kept[i] = tuning.trials[i]
  BY <1>5, <1>6
<1> HIDE DEF kept
<1> DEFINE S == Range(tuning.trials) \cup {repaired}
<1>8. /\ listed \in Seq(S) /\ Len(listed) = RandomTrials + 1
      /\ DOMAIN listed = 1..RandomTrials + 1 /\ listed[RandomTrials + 1] = repaired
      /\ \A i \in 1..RandomTrials : listed[i] = tuning.trials[i]
  <2>1. kept \in Seq(S) /\ repaired \in S
    BY <1>7
  <2> HIDE DEF S
  <2>2. QED
    BY <1>5, <1>7, <2>1
<1> HIDE DEF listed, S
<1>9. listed \in Seq(Range(listed))
  <2>1. \A i \in 1..Len(listed) : listed[i] \in Range(listed)
    BY <1>8 DEF Range
  <2>2. listed = [i \in 1..Len(listed) |-> listed[i]] /\ Len(listed) \in Nat
    BY <1>8
  <2>3. QED
    BY <2>1, <2>2
<1>10. \A i \in 1..RandomTrials : listed[i].id = i - 1 /\ listed[i].id # 10000
  <2> SUFFICES ASSUME NEW i \in 1..RandomTrials
               PROVE  listed[i].id = i - 1 /\ listed[i].id # 10000
    OBVIOUS
  <2>1. listed[i] = tuning.trials[i]
    BY <1>8
  <2>2. tuning.trials[i].id = i - 1
    BY <1>6
  <2>3. i \in Int /\ i - 1 # 10000
    BY <1>5
  <2>4. QED
    BY <2>1, <2>2, <2>3
<1>11. \A i \in DOMAIN listed : listed[i].id = 10000 => i = RandomTrials + 1
  BY <1>5, <1>8, <1>10
<1>12. \A i \in DOMAIN listed : listed[i].id = candidate.id => listed[i].point = candidate.point
  <2> SUFFICES ASSUME NEW i \in DOMAIN listed, listed[i].id = candidate.id
               PROVE  listed[i].point = candidate.point
    OBVIOUS
  <2>1. i = RandomTrials + 1
    BY <1>4, <1>11
  <2>2. listed[i] = repaired
    BY <2>1, <1>8
  <2>3. QED
    BY <2>2, <1>4
<1>13. \E i \in DOMAIN listed : listed[i].id = candidate.id
  <2>1. RandomTrials + 1 \in DOMAIN listed
    <3>1. DOMAIN listed = 1..RandomTrials + 1
      BY <1>8
    <3>2. RandomTrials + 1 \in 1..RandomTrials + 1
      BY <1>5
    <3>3. QED
      BY <3>1, <3>2
  <2>2. listed[RandomTrials + 1].id = candidate.id
    BY <1>4, <1>8
  <2>3. QED
    BY <2>1, <2>2
<1>14. Len(listed) >= RandomTrials /\ \A i \in 1..RandomTrials : listed[i].id = i - 1
  BY <1>5, <1>8, <1>10
<1>15. confirmation.of = candidate.point
  BY <1>4
<1>16. QED
  BY <1>3, <1>9, <1>12, <1>13, <1>14, <1>15, EvidenceHolds

\* A selection compares with the training share of what it validates.
LEMMA SelectStep ==
  ASSUME TuningInv, Select
  PROVE  SelectionInv'
<1>1. tuning.kind = "tuning"
  BY DEF Select, LoadFreeze
<1>2. tuning.confirmation.of = LoadFreeze
  BY <1>1, LoadedIsCandidate DEF TuningInv
<1>3. PICK validation \in Reports, holdout \in Reports :
        LET freeze == CandidateFreeze("validation", LoadFreeze, validation.lower,
                                      tuning.candidate.id)
            failures == PromotionFailures(validation) \cup PromotionFailures(holdout)
                          \cup GeneralizationFailures(tuning.confirmation.share, validation.share)
        IN  selection' \in Written(
              [kind |-> "selection", freeze |-> freeze, openedFor |-> Open(Unopened, freeze),
               validated |-> LoadFreeze, trainedOn |-> tuning.confirmation,
               validation |-> validation, holdout |-> holdout,
               result |-> IF failures = {} THEN "PASS" ELSE "FAIL"])
  BY DEF Select
<1> DEFINE freeze == CandidateFreeze("validation", LoadFreeze, validation.lower,
                                     tuning.candidate.id)
           opened == Open(Unopened, freeze)
           gates == GeneralizationFailures(tuning.confirmation.share, validation.share)
           failures == PromotionFailures(validation) \cup PromotionFailures(holdout) \cup gates
           verdict == IF failures = {} THEN "PASS" ELSE "FAIL"
           document == [kind |-> "selection", freeze |-> freeze, openedFor |-> opened,
                        validated |-> LoadFreeze, trainedOn |-> tuning.confirmation,
                        validation |-> validation, holdout |-> holdout, result |-> verdict]
<1>4. freeze.point = LoadFreeze
  BY DEF CandidateFreeze
<1>5. verdict = "PASS" => Within(validation.share, tuning.confirmation.share, 8)
  BY DEF GeneralizationFailures
<1>6. selection' \in {document, Torn}
  BY <1>3 DEF Written
<1> HIDE DEF freeze, opened, verdict
<1>7. CASE selection' = Torn
  BY <1>7 DEF SelectionInv, Torn
<1>8. CASE selection' = document
  <2>1. /\ selection'.trainedOn = tuning.confirmation /\ selection'.validated = LoadFreeze
        /\ selection'.freeze = freeze /\ selection'.result = verdict
        /\ selection'.validation = validation
    BY <1>8
  <2>2. QED
    BY <1>2, <1>4, <1>5, <2>1 DEF SelectionInv
<1>9. QED
  BY <1>6, <1>7, <1>8

-----------------------------------------------------------------------------
(* Campaign: the holdout. *)

LEMMA SplitsApart ==
  ASSUME NEW split \in Splits \ {"holdout"}
  PROVE  /\ SeedsOf(split) \cap SeedsOf("holdout") = {}
         /\ FixturesOf(split) \cap FixturesOf("holdout") = {}
<1>1. split \in {"train", "validation", "rehearsal"}
  BY DEF Splits
<1>2. /\ SeedsOf("train") = 10000..10023 /\ SeedsOf("validation") = 20000..20015
      /\ SeedsOf("holdout") = 32000..32011 /\ SeedsOf("rehearsal") = 40001..40006
  BY DEF SeedsOf
<1>3. SeedsOf(split) \cap SeedsOf("holdout") = {}
  BY <1>1, <1>2
<1>4. FixturesOf(split) \cap FixturesOf("holdout") = {}
  BY <1>1 DEF FixturesOf
<1>5. QED
  BY <1>3, <1>4

LEMMA NoHoldoutSeen ==
  ASSUME NEW split \in Splits \ {"holdout"}, NEW opponents, NEW seeds,
         PlanSpec(split, opponents, seeds) # Rejected
  PROVE  "holdout" \notin Seen(PlanSpec(split, opponents, seeds))
<1> DEFINE spec == PlanSpec(split, opponents, seeds)
<1>1. seeds \subseteq SeedsOf(split)
  BY DEF PlanSpec
<1>2. spec.seeds = seeds /\ spec.fixtures = FixturesOf(split)
  BY <1>1 DEF PlanSpec
<1>3. spec.seeds \cap SeedsOf("holdout") = {} /\ spec.fixtures \cap FixturesOf("holdout") = {}
  BY <1>1, <1>2, SplitsApart
<1> HIDE DEF spec
<1>4. QED
  BY <1>3 DEF Seen, spec

LEMMA PlannedFirst ==
  ASSUME NEW split \in Splits \ {"holdout"}, NEW opponents, NEW n
  PROVE  "holdout" \notin Seen(PlanSpec(split, opponents, FirstSeeds(split, n)))
<1>1. FirstSeeds(split, n) \subseteq SeedsOf(split)
  BY DEF FirstSeeds
<1> DEFINE spec == PlanSpec(split, opponents, FirstSeeds(split, n))
<1>2. spec.seeds = FirstSeeds(split, n) /\ spec.fixtures = FixturesOf(split)
  BY <1>1 DEF PlanSpec
<1>3. spec.seeds \cap SeedsOf("holdout") = {} /\ spec.fixtures \cap FixturesOf("holdout") = {}
  BY <1>1, <1>2, SplitsApart
<1> HIDE DEF spec
<1>4. QED
  BY <1>3 DEF Seen, spec

\* A tournament keeps the holdout when it is played on another split.
Keeps(e) == "holdout" \in e.seen => e.script \in {"selection", "allowed"}

LEMMA EntryKeeps ==
  ASSUME NEW script, NEW spec, "holdout" \notin Seen(spec) \/ script \in {"selection", "allowed"}
  PROVE  Keeps(Entry(script, spec))
  BY DEF Keeps, Entry

LEMMA HoldoutStep ==
  ASSUME HoldoutIsKept, CampaignNext
  PROVE  HoldoutIsKept'
<1>1. SUFFICES ASSUME NEW e \in tournaments', e \notin tournaments
               PROVE  Keeps(e)
  BY DEF HoldoutIsKept, Keeps
<1>2. {"train", "validation", "rehearsal"} = Splits \ {"holdout"}
  BY DEF Splits
<1>3. CASE Search
  BY <1>1, <1>2, <1>3, PlannedFirst, EntryKeeps DEF Search
<1>4. CASE Repair
  BY <1>1, <1>2, <1>4, PlannedFirst, EntryKeeps DEF Repair, ProbeSpec
<1>5. CASE Select
  BY <1>1, <1>5, EntryKeeps DEF Select
<1>6. CASE Study
  BY <1>1, <1>2, <1>6, PlannedFirst, EntryKeeps DEF Study
<1>7. CASE RunTournament
  <2>1. PICK split \in Splits, asked \in Splits, allowHoldout \in BOOLEAN :
          LET spec == PlanSpec(split, OpponentsOf(split), SeedsOf(asked))
          IN  /\ Tunable(split) \/ allowHoldout
              /\ spec # Rejected
              /\ tournaments' = tournaments \cup
                   {Entry(IF allowHoldout THEN "allowed" ELSE "tournament", spec)}
    BY <1>7 DEF RunTournament
  <2> DEFINE spec == PlanSpec(split, OpponentsOf(split), SeedsOf(asked))
  <2>2. e = Entry(IF allowHoldout THEN "allowed" ELSE "tournament", spec)
    BY <1>1, <2>1
  <2>3. CASE allowHoldout
    <3>1. e = Entry("allowed", spec)
      BY <2>2, <2>3
    <3>2. QED
      BY <3>1, EntryKeeps
  <2>4. CASE ~allowHoldout
    <3>1. "holdout" \notin Seen(spec)
      BY <2>1, <2>4, NoHoldoutSeen DEF Tunable
    <3>2. e = Entry("tournament", spec)
      BY <2>2, <2>4
    <3>3. QED
      BY <3>1, <3>2, EntryKeeps
  <2>5. QED
    BY <2>3, <2>4
<1>8. CASE FinishTuning \/ Interrupt
  BY <1>1, <1>8 DEF FinishTuning, Interrupt
<1>9. QED
  BY <1>3, <1>4, <1>5, <1>6, <1>7, <1>8 DEF CampaignNext

-----------------------------------------------------------------------------
(* Campaign: the theorems. *)

LEMMA CampaignStarts ==
  ASSUME CampaignInit
  PROVE  CampaignInv
<1>1. TrialsInv
  BY CampaignAssumption DEF CampaignInit, TrialsInv
<1>2. TuningInv /\ SelectionInv /\ HoldoutIsKept
  BY DEF CampaignInit, NoFile, TuningInv, SelectionInv, HoldoutIsKept
<1>3. QED
  BY <1>1, <1>2 DEF CampaignInv

LEMMA CampaignGoesOn ==
  ASSUME CampaignInv, [CampaignNext]_campaignVars
  PROVE  CampaignInv'
<1>1. CASE UNCHANGED campaignVars
  BY <1>1 DEF campaignVars, CampaignInv, TrialsInv, TuningInv, SelectionInv, HoldoutIsKept,
              Completed
<1>2. CASE CampaignNext
  <2>1. TrialsInv'
    <3>1. CASE Search
      BY <3>1, SearchStep DEF CampaignInv
    <3>2. CASE UNCHANGED trials
      BY <3>2 DEF CampaignInv, TrialsInv, Completed
    <3>3. CASE trials' = <<>>
      BY <3>3, CampaignAssumption DEF TrialsInv
    <3>4. QED
      BY <1>2, <3>1, <3>2, <3>3
         DEF CampaignNext, FinishTuning, Repair, Select, Study, RunTournament, Interrupt
  <2>2. TuningInv'
    <3>1. CASE FinishTuning
      BY <3>1, FinishStep DEF CampaignInv
    <3>2. CASE Repair
      BY <3>2, RepairStep DEF CampaignInv
    <3>3. CASE UNCHANGED tuning
      BY <3>3 DEF CampaignInv, TuningInv
    <3>4. QED
      BY <1>2, <3>1, <3>2, <3>3
         DEF CampaignNext, Search, Select, Study, RunTournament, Interrupt
  <2>3. SelectionInv'
    <3>1. CASE Select
      BY <3>1, SelectStep DEF CampaignInv
    <3>2. CASE UNCHANGED selection
      BY <3>2 DEF CampaignInv, SelectionInv
    <3>3. QED
      BY <1>2, <3>1, <3>2
         DEF CampaignNext, Search, FinishTuning, Repair, Study, RunTournament, Interrupt
  <2>4. HoldoutIsKept'
    BY <1>2, HoldoutStep DEF CampaignInv
  <2>5. QED
    BY <2>1, <2>2, <2>3, <2>4 DEF CampaignInv
<1>3. QED
  BY <1>1, <1>2

(***************************************************************************)
(* Trials are numbered through whatever is interrupted, the number in a    *)
(* manifest names the candidate and nothing else, also after repairs, and  *)
(* no tuning has seen the holdout (run_m12_tuning.py, run_m12_repair.py,   *)
(* m12_campaign_support.py:105-121, splits.py).                            *)
(***************************************************************************)
THEOREM CampaignInvariant == CampaignSpec => []CampaignInv
  BY CampaignStarts, CampaignGoesOn, PTL DEF CampaignSpec

(***************************************************************************)
(* No trial that leads is stopped early, for every history, and what is    *)
(* frozen is the best eligible trial of both searches (tuning.py:95-134,   *)
(* run_m12_tuning.py:112).                                                 *)
(***************************************************************************)
THEOREM SearchStaysSound == CampaignSpec => []SearchIsSound
<1>1. CampaignInv => SearchIsSound
  BY FrozenIsBest DEF CampaignInv, TrialsInv, SearchIsSound
<1>2. QED
  BY <1>1, CampaignInvariant, PTL

(***************************************************************************)
(* After any scripts in any order the two evidence files are of one        *)
(* candidate, which no holdout match has shaped (m12_campaign_support.py,  *)
(* run_m12_repair.py:63-103, run_m12_selection.py:29-64).                  *)
(***************************************************************************)
THEOREM CampaignStaysClean == CampaignSpec => []CampaignIsClean
<1>1. CampaignInv => CampaignIsClean
  <2> SUFFICES ASSUME CampaignInv PROVE CampaignIsClean
    OBVIOUS
  <2>1. tuning.kind = "tuning" => /\ LoadFreeze = tuning.candidate.point
                                  /\ tuning.confirmation.of = tuning.candidate.point
    BY LoadedIsCandidate DEF CampaignInv, TuningInv
  <2>2. QED
    BY <2>1 DEF CampaignInv, SelectionInv, CampaignIsClean, EvidenceIsOfOneCandidate
<1>2. QED
  BY <1>1, CampaignInvariant, PTL

==============================================================================
