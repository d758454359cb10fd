-------------------------- MODULE LiveSeriesProofs --------------------------
(***************************************************************************)
(* What LiveSeries guarantees for any number of games, any threshold and   *)
(* window, any number of repeated turns and audits whose copies land late, *)
(* and any crash, as long as the series is steady: one timer at most has   *)
(* expired on a peer that is only slow, and no copy of a turn has landed   *)
(* after its receiver had gone on to another game.  A greeting is not      *)
(* repeated.                                                               *)
(***************************************************************************)
EXTENDS LiveSeries, SequenceTheorems, FiniteSetTheorems, WellFoundedInduction,
        NaturalsInduction, TLAPS

-----------------------------------------------------------------------------
(* Types. *)

Turns ==
  [game : 1..Games, step : Nat, commit : (1..Games) \X Nat, claims : BOOLEAN,
   caught : BOOLEAN, win : {"none", "survival", "capture"}]
Claims == [kind : {"audit"}, game : 1..Games, claim : Outcomes]
Digests == [kind : {"consensus"}, sha : Seq(Outcomes)]
Rows == [outcome : Outcomes, agreed : BOOLEAN]

\* A copy that is still on its way, and what went wrong so far.
Copies == [box : {"turns"}, msg : Turns] \cup [box : {"audits"}, msg : Claims \cup Digests]
FaultTypes ==
  [duplicates : Nat, overtaken : Nat, timeouts : 0..MaxTimeouts, crashes : Nat,
   strays : SUBSET (1..Games)]

TypeInv ==
  /\ game \in [Peers -> 1..Games]
  /\ pc \in [Peers -> {"greet", "meet", "open", "play", "audit", "settle",
                       "settling", "done", "aborted", "crashed"}]
  /\ step \in [Peers -> Nat]
  /\ inbox = [p \in Peers |-> inbox[p]]
  /\ ready \in [Peers -> Seq(Turns)]
  /\ result \in [Peers -> Outcomes \cup {None}]
  /\ heard \in [Peers -> Outcomes \cup {None}]
  /\ reports \in [Peers -> Seq(Rows)]
  /\ peerSha \in [Peers -> Seq(Outcomes) \cup {None}]
  /\ mail \in [Peers -> [agreements : Seq(1..Games), turns : Seq(Turns),
                         audits : Seq(Claims \cup Digests), late : SUBSET Copies]]
  /\ faults \in FaultTypes

-----------------------------------------------------------------------------
(* Where a peer is. *)

Gone(p) == pc[p] \in {"aborted", "crashed"}
Fresh(p) == pc[p] \in {"greet", "meet"}
Playing(p) == pc[p] \in {"open", "play"}
InGame(p) == pc[p] \in {"open", "play", "audit"}
Over(p) == pc[p] \in {"settle", "settling", "done"}

Count(p) == Len(reports[p])
Alive(p) == ~Gone(p) /\ ~Gone(Opponent(p))
Same(p) == Alive(p) /\ Count(p) = Count(Opponent(p))
Ahead(p) == Alive(p) /\ Count(p) = Count(Opponent(p)) + 1

Final(m) == m.caught \/ m.win # "none"
Says(m) == IF m.caught \/ m.win = "capture" THEN "capture" ELSE m.win

\* The inbox of a peer that was sent no step ahead of its turn.
InOrder(b, g) ==
  /\ b.next \in Nat \ {0} /\ DOMAIN b.played = 1..b.next - 1
  /\ \A k \in DOMAIN b.played : b.played[k] = <<g, k>>
  /\ DOMAIN b.buffered = {}

\* What a peer knows by itself.
LocalInv(p) ==
  /\ ~Gone(p) => Count(p) = IF Over(p) THEN Games ELSE game[p] - 1
  /\ Over(p) => game[p] = Games
  /\ ~Gone(p) /\ (pc[p] # "play" \/ result[p] # None) => ready[p] = <<>>
  /\ InGame(p) /\ heard[p] # None => pc[p] # "open" /\ result[p] = heard[p]
  /\ pc[p] = "audit" => result[p] # None
  /\ pc[p] = "open" =>
       /\ result[p] = None /\ step[p] = 0 /\ Role(p, game[p]) = "thief"
       /\ inbox[p].next = 1
  /\ Playing(p) => InOrder(inbox[p], game[p])
  /\ pc[p] = "play" /\ result[p] = None =>
       /\ ready[p] = <<>> \/ (Len(ready[p]) = 1 /\ ready[p][1].step = inbox[p].next - 1)
       /\ step[p] = inbox[p].next - 1 - Len(ready[p])
                      + (IF Role(p, game[p]) = "thief" THEN 1 ELSE 0)

-----------------------------------------------------------------------------
(* The stream of turns from one peer to the other. *)

Awaited(p) == IF Fresh(p) THEN 1 ELSE inbox[p].next
Sent(p) == IF InGame(p) THEN step[p] ELSE 0
Listening(p) == Fresh(p) \/ (Playing(p) /\ result[p] = None)

\* No turn of an earlier game is left, and none is missing.
Follows(p, i) ==
  LET m == mail[p].turns[i]
  IN  \/ m.step <= Awaited(p)
      \/ \E j \in 1..i - 1 : mail[p].turns[j].step = m.step - 1

\* What is known of a turn that is on its way or ready.
Sound(p, m) ==
  /\ m.game = game[p] /\ m.step >= 1 /\ m.commit = <<m.game, m.step>>
  /\ m.caught \/ m.win = "capture" => m.game \in conceded /\ Role(p, game[p]) = "police"
  /\ m.win = "survival" => m.game \in survived
  /\ Final(m) /\ Same(p) => InGame(Opponent(p)) /\ result[Opponent(p)] = Says(m)

StreamInv(p) ==
  Listening(p) =>
    /\ \A i \in DOMAIN mail[p].turns : Follows(p, i) /\ Sound(p, mail[p].turns[i])
    /\ \A i \in DOMAIN ready[p] : Sound(p, ready[p][i])
    /\ Same(p) =>
         /\ \A i \in DOMAIN mail[p].turns : mail[p].turns[i].step <= Sent(Opponent(p))
         /\ Awaited(p) - 1 <= Sent(Opponent(p))
         /\ \/ Sent(Opponent(p)) <= Awaited(p) - 1
            \/ \E j \in DOMAIN mail[p].turns : mail[p].turns[j].step = Sent(Opponent(p))

-----------------------------------------------------------------------------
(* Claims and reports. *)

\* The opponent has reported this outcome, or is bound to.
Claimed(p, n, c) ==
  IF n <= Count(p) THEN n \in Reported(p) /\ reports[p][n].outcome = c
  ELSE n = game[p] /\ pc[p] \in {"audit", "crashed"} /\ result[p] = c

Honest(n, c) ==
  /\ c # "technical_loss"
  /\ c = "capture" => n \in conceded
  /\ c = "survival" => n \in survived

AuditClaims(p) == {a \in ToSet(mail[p].audits) : a.kind = "audit"}
DigestsTo(p) == {a \in ToSet(mail[p].audits) : a.kind = "consensus"}

ClaimInv(p) ==
  /\ \A a \in AuditClaims(p) :
       Claimed(Opponent(p), a.game, a.claim) /\ Honest(a.game, a.claim)
  /\ InGame(p) /\ heard[p] # None => Claimed(Opponent(p), game[p], heard[p])
  /\ InGame(p) /\ result[p] # None => Honest(game[p], result[p])
  /\ \A n \in Reported(p) :
       /\ Honest(n, reports[p][n].outcome)
       /\ reports[p][n].agreed => Claimed(Opponent(p), n, reports[p][n].outcome)

DigestInv(p) ==
  LET q == Opponent(p) IN
  /\ \A a \in DigestsTo(p) : Count(q) = Games /\ a.sha = Sha(q)
  /\ peerSha[p] # None => Count(q) = Games /\ peerSha[p] = Sha(q)
  /\ pc[q] \in {"settling", "done"} /\ ~Gone(p) => peerSha[p] # None \/ DigestsTo(p) # {}

-----------------------------------------------------------------------------
(* The two peers together. *)

Greeted(p) == IF pc[p] = "greet" THEN game[p] - 1 ELSE game[p]
Met(p) == IF Fresh(p) THEN game[p] - 1 ELSE game[p]

HasAudit(p) == \E a \in AuditClaims(p) : a.game = game[p]

\* A peer that will push no more turns in its game ...
Quiet(p) ==
  \/ pc[p] = "meet" /\ Role(p, game[p]) = "police" /\ HasAudit(p)
  \/ /\ pc[p] = "play" /\ result[p] = None /\ HasAudit(p)
     /\ \A i \in DOMAIN ready[p] : Final(ready[p][i])
  \/ pc[p] \in {"play", "audit"} /\ result[p] # None /\ (HasAudit(p) \/ heard[p] # None)

\* ... and one that has nothing to answer but the last turn.
Ended(p) ==
  \/ /\ pc[p] = "meet" /\ Role(p, game[p]) = "police"
     /\ \A i \in DOMAIN mail[p].turns : Final(mail[p].turns[i])
  \/ /\ pc[p] = "play" /\ result[p] = None
     /\ \A i \in DOMAIN ready[p] : Final(ready[p][i])
     /\ \A i \in DOMAIN mail[p].turns :
          mail[p].turns[i].step >= inbox[p].next => Final(mail[p].turns[i])
  \/ pc[p] \in {"play", "audit"} /\ result[p] # None

\* Every greeting was pushed once, and met or is in the mailbox.
GreetingsInv(p) ==
  Alive(p) => Len(mail[p].agreements) = Greeted(Opponent(p)) - Met(p)

\* A peer is at most one game ahead, and not pushed any turns then, but for copies of
\* the last game's that land once all games are over.
PaceInv(p) ==
  /\ Alive(p) => Count(p) <= Count(Opponent(p)) + 1
  /\ Ahead(p) => Quiet(Opponent(p)) /\ (Over(p) \/ mail[p].turns = <<>>)

\* A peer that waits for the opponent's audit was heard by the opponent.
ToldInv(p) ==
  LET q == Opponent(p) IN
  pc[p] = "audit" /\ Same(p) => HasAudit(q) \/ (InGame(q) /\ heard[q] # None)

\* A result found without a timeout ends the game for the opponent too.
EndInv(p) ==
  /\ faults.timeouts = 0 /\ Same(p)
  /\ pc[p] \in {"play", "audit"} /\ result[p] # None /\ heard[p] = None
  => Ended(Opponent(p))

PairInv(p) == GreetingsInv(p) /\ PaceInv(p) /\ ToldInv(p) /\ EndInv(p)

FaultlessInv(p) ==
  LET q == Opponent(p) IN
  Faultless =>
    /\ ~Gone(p)
    /\ \A n \in Reported(p) : reports[p][n].agreed
    /\ Same(p) /\ InGame(p) /\ InGame(q) /\ result[p] # None /\ result[q] # None =>
         result[p] = result[q]
    /\ pc[p] = "done" => peerSha[p] # None

\* What is still on its way.
LateTurns(p) == {c.msg : c \in {d \in mail[p].late : d.box = "turns"}}
LateAudits(p) == {c.msg : c \in {d \in mail[p].late : d.box = "audits"}}

\* A turn that tells a peer nothing it has not been told.
Repeated(p, m) == m.step < Awaited(p) \/ m \in ToSet(mail[p].turns)

LateTurnInv(p) ==
  \A m \in LateTurns(p) :
    /\ m.game <= game[p] /\ m.game <= game[Opponent(p)]
    /\ Listening(p) /\ m.game = game[p] => Sound(p, m) /\ Repeated(p, m)

\* The opponent stands by what it pushed.
Vouched(p, a) ==
  LET q == Opponent(p) IN
  /\ a.kind = "audit" => Claimed(q, a.game, a.claim) /\ Honest(a.game, a.claim)
  /\ a.kind = "consensus" => Count(q) = Games /\ a.sha = Sha(q)

LateAuditInv(p) == \A a \in LateAudits(p) : Vouched(p, a)

Half(p) ==
  /\ LocalInv(p) /\ StreamInv(p) /\ ClaimInv(p) /\ DigestInv(p)
  /\ PairInv(p) /\ FaultlessInv(p)

IInv ==
  /\ TypeInv /\ faults.strays = {}
  /\ \A p \in Peers : Half(p) /\ LateTurnInv(p) /\ LateAuditInv(p)

-----------------------------------------------------------------------------
(* Sequences, places in them, and the two peers. *)

LEMMA SmallestIndex ==
  ASSUME NEW I \in SUBSET Nat, I # {}
  PROVE  \E x \in I : \A y \in I : x <= y
<1>1. PICK x \in I : \A y \in I : ~(<<y, x>> \in OpToRel(<, Nat))
  BY NatLessThanWellFounded, WFMin, Zenon
<1>2. ASSUME NEW y \in I PROVE x <= y
  <2>1. <<y, x>> \notin {ss \in Nat \X Nat : ss[1] < ss[2]}
    BY <1>1, Zenon DEF OpToRel
  <2>2. x \in Nat /\ y \in Nat
    OBVIOUS
  <2>3. ~(y < x)
    BY <2>1, <2>2
  <2> QED BY <2>2, <2>3
<1> QED BY <1>2

LEMMA Opponents ==
  /\ \A p \in Peers : Opponent(p) \in Peers /\ Opponent(p) # p /\ Opponent(Opponent(p)) = p
  /\ \A p, r \in Peers : r = p \/ r = Opponent(p)
<1>1. PICK a, b \in Peers : a # b /\ Peers = {a, b}
  <2>1. PICK a : a \in Peers
    BY SeriesAssumption, FS_EmptySet
  <2>2. IsFiniteSet(Peers \ {a}) /\ Cardinality(Peers \ {a}) = 1
    BY <2>1, SeriesAssumption, FS_RemoveElement
  <2>3. PICK b : Peers \ {a} = {b}
    BY <2>2, FS_Singleton
  <2> QED BY <2>1, <2>3
<1> QED BY <1>1 DEF Opponent

\* A message is added to a mailbox.
Copied(s, x, t) == t = Append(s, x)

LEMMA Pushed ==
  ASSUME NEW S, NEW s \in Seq(S), NEW x \in S, NEW t, Copied(s, x, t)
  PROVE  /\ t \in Seq(S) /\ ToSet(t) = ToSet(s) \cup {x}
         /\ Len(t) > Len(s)
         /\ \A i \in DOMAIN s : i \in DOMAIN t /\ t[i] = s[i]
         /\ \A i \in DOMAIN t : i \in DOMAIN s \/ (i > Len(s) /\ t[i] = x)
<1>1. /\ t \in Seq(S) /\ Len(t) = Len(s) + 1
      /\ \A i \in 1..Len(s) : t[i] = s[i]
      /\ t[Len(s) + 1] = x
  BY DEF Copied
<1>2. DOMAIN s = 1..Len(s) /\ DOMAIN t = 1..Len(t) /\ Len(s) \in Nat /\ Len(t) \in Nat
  BY <1>1
<1>3. /\ \A i \in DOMAIN s : i \in DOMAIN t /\ t[i] = s[i]
      /\ \A i \in DOMAIN t : i \in DOMAIN s \/ (i > Len(s) /\ t[i] = x)
      /\ Len(s) + 1 \in DOMAIN t
  <2> DEFINE m == Len(s)  n == Len(t)
  <2>1. m \in Nat /\ n = m + 1
    BY <1>1, <1>2
  <2>2. /\ \A i \in 1..m : i \in 1..n
        /\ \A i \in 1..n : i \in 1..m \/ (i > m /\ i = m + 1)
        /\ m + 1 \in 1..n
    <3> HIDE DEF m, n
    <3> QED BY <2>1
  <2> QED BY <1>1, <1>2, <2>2, Zenon
<1>4. ToSet(t) = ToSet(s) \cup {x}
  <2>1. ToSet(s) \subseteq ToSet(t) /\ x \in ToSet(t)
    BY <1>1, <1>3, Zenon DEF ToSet
  <2>2. ToSet(t) \subseteq ToSet(s) \cup {x}
    BY <1>3, Zenon DEF ToSet
  <2> QED BY <2>1, <2>2
<1> QED BY <1>1, <1>3, <1>4

LEMMA Cut ==
  ASSUME NEW S, NEW s \in Seq(S), NEW k \in 0..Len(s)
  PROVE  /\ SubSeq(s, k + 1, Len(s)) \in Seq(S) /\ SubSeq(s, 1, k) \in Seq(S)
         /\ ToSet(s) = ToSet(SubSeq(s, 1, k)) \cup ToSet(SubSeq(s, k + 1, Len(s)))
<1> DEFINE l == SubSeq(s, 1, k)  r == SubSeq(s, k + 1, Len(s))
<1>1. l \in Seq(S) /\ Len(l) = k /\ \A i \in 1..k : l[i] = s[i]
  OBVIOUS
<1>2. r \in Seq(S) /\ Len(r) = Len(s) - k /\ \A i \in 1..Len(s) - k : r[i] = s[k + i]
  OBVIOUS
<1>3. DOMAIN s = 1..Len(s) /\ DOMAIN l = 1..k /\ DOMAIN r = 1..Len(s) - k
  BY <1>1, <1>2
<1>4. ASSUME NEW i \in 1..Len(s)
      PROVE  s[i] \in ToSet(l) \cup ToSet(r)
  <2>1. CASE i <= k
    <3>1. i \in 1..k /\ s[i] = l[i]
      BY <2>1, <1>1
    <3> QED BY <3>1, <1>3, Zenon DEF ToSet
  <2>2. CASE i > k
    <3>1. i - k \in 1..Len(s) - k /\ s[i] = r[i - k]
      BY <2>2, <1>2
    <3> QED BY <3>1, <1>3, Zenon DEF ToSet
  <2> QED BY <2>1, <2>2
<1>5. ToSet(l) \subseteq ToSet(s) /\ ToSet(r) \subseteq ToSet(s)
  <2>1. \A i \in 1..k : i \in 1..Len(s)
    OBVIOUS
  <2>2. \A i \in 1..Len(s) - k : k + i \in 1..Len(s)
    OBVIOUS
  <2> QED BY <1>1, <1>2, <1>3, <2>1, <2>2, ZenonT(30) DEF ToSet
<1>6. ToSet(s) \subseteq ToSet(l) \cup ToSet(r)
  BY <1>3, <1>4 DEF ToSet
<1> QED BY <1>1, <1>2, <1>5, <1>6

\* The audits of the running game in the mailbox are what AuditAt looks for.
LEMMA AuditPlace ==
  ASSUME TypeInv, NEW p \in Peers
  PROVE  /\ AuditAt(p) # 0 <=> HasAudit(p)
         /\ AuditAt(p) # 0 =>
              /\ AuditAt(p) \in 1..Len(mail[p].audits)
              /\ mail[p].audits[AuditAt(p)] \in AuditClaims(p)
              /\ mail[p].audits[AuditAt(p)].game = game[p]
<1> DEFINE s == mail[p].audits
           I == {i \in 1..Len(s) : s[i].kind = "audit" /\ s[i].game = game[p]}
<1>1. AuditAt(p) = IF I # {} THEN Min(I) ELSE 0
  BY DEF AuditAt, SelectInSeq
<1>2. s \in Seq(Claims \cup Digests) /\ DOMAIN s = 1..Len(s) /\ Len(s) \in Nat
  BY DEF TypeInv
<1>3. I # {} <=> HasAudit(p)
  BY <1>2 DEF HasAudit, AuditClaims, ToSet
<1>4. I # {} => Min(I) \in I
  <2>1. I \in SUBSET Nat
    BY <1>2
  <2> QED BY <2>1, SmallestIndex DEF Min
<1>5. \A i \in I : i # 0 /\ s[i] \in AuditClaims(p)
  BY <1>2 DEF AuditClaims, ToSet
<1> QED BY <1>1, <1>3, <1>4, <1>5

LEMMA AuditTypes ==
  ASSUME TypeInv, NEW p \in Peers
  PROVE  /\ \A a \in AuditClaims(p) : a.game \in 1..Games /\ a.claim \in Outcomes
         /\ \A a \in DigestsTo(p) : a.sha \in Seq(Outcomes)
<1>1. mail[p].audits \in Seq(Claims \cup Digests)
  BY DEF TypeInv
<1>2. \A a \in ToSet(mail[p].audits) : a \in Claims \cup Digests
  BY <1>1 DEF ToSet
<1> QED BY <1>2 DEF AuditClaims, DigestsTo, Claims, Digests

LEMMA ConsensusPlace ==
  ASSUME TypeInv, NEW p \in Peers
  PROVE  /\ ConsensusAt(p) # 0 <=> DigestsTo(p) # {}
         /\ ConsensusAt(p) # 0 =>
              /\ ConsensusAt(p) \in 1..Len(mail[p].audits)
              /\ mail[p].audits[ConsensusAt(p)] \in DigestsTo(p)
<1> DEFINE s == mail[p].audits
           I == {i \in 1..Len(s) : s[i].kind = "consensus"}
<1>1. ConsensusAt(p) = IF I # {} THEN Min(I) ELSE 0
  BY DEF ConsensusAt, SelectInSeq
<1>2. s \in Seq(Claims \cup Digests) /\ DOMAIN s = 1..Len(s) /\ Len(s) \in Nat
  BY DEF TypeInv
<1>3. I # {} <=> DigestsTo(p) # {}
  BY <1>2 DEF DigestsTo, ToSet
<1>4. I # {} => Min(I) \in I
  <2>1. I \in SUBSET Nat
    BY <1>2
  <2> QED BY <2>1, SmallestIndex DEF Min
<1>5. \A i \in I : i # 0 /\ s[i] \in DigestsTo(p)
  BY <1>2 DEF DigestsTo, ToSet
<1> QED BY <1>1, <1>3, <1>4, <1>5

\* No digest is lost when audits are popped: it is kept, or still in the mailbox.
Sorted(p, sha, rest) ==
  \/ \E a \in DigestsTo(p) : sha = a.sha
  \/ sha = peerSha[p] /\ DigestsTo(p) \subseteq ToSet(rest)

LEMMA DigestIsDeferred ==
  ASSUME TypeInv, NEW p \in Peers, NEW popped, NEW rest,
         ToSet(popped) \subseteq ToSet(mail[p].audits),
         DigestsTo(p) \subseteq ToSet(popped) \cup ToSet(rest)
  PROVE  Sorted(p, Deferred(p, popped), rest)
<1> DEFINE found == \E i \in DOMAIN popped : popped[i].kind = "consensus"
           any == CHOOSE a \in ToSet(popped) : a.kind = "consensus"
<1>1. CASE found
  <2>1. any \in ToSet(popped) /\ any.kind = "consensus"
    BY <1>1 DEF ToSet
  <2>2. any \in DigestsTo(p)
    BY <2>1 DEF DigestsTo
  <2>3. Deferred(p, popped) = any.sha
    BY <1>1 DEF Deferred
  <2> QED BY <2>2, <2>3 DEF Sorted
<1>2. CASE ~found
  <2>1. Deferred(p, popped) = peerSha[p]
    BY <1>2 DEF Deferred
  <2>2. \A a \in ToSet(popped) : a.kind # "consensus"
    BY <1>2 DEF ToSet
  <2> QED BY <2>1, <2>2 DEF Sorted, DigestsTo
<1> QED BY <1>1, <1>2

-----------------------------------------------------------------------------
(* What a step of p changes, q being its opponent. *)

Pair(p, q) ==
  /\ p \in Peers /\ q \in Peers /\ p # q
  /\ Opponent(p) = q /\ Opponent(q) = p /\ \A r \in Peers : r = p \/ r = q

LEMMA Pairs == \A p \in Peers : Pair(p, Opponent(p)) /\ Pair(Opponent(p), p)
BY Opponents DEF Pair

\* The variables of a peer's own.
Keeps(r) ==
  /\ game'[r] = game[r] /\ pc'[r] = pc[r] /\ step'[r] = step[r]
  /\ inbox'[r] = inbox[r] /\ ready'[r] = ready[r] /\ result'[r] = result[r]
  /\ heard'[r] = heard[r] /\ reports'[r] = reports[r] /\ peerSha'[r] = peerSha[r]

Grows ==
  /\ faults.timeouts <= faults'.timeouts /\ faults.crashes <= faults'.crashes
  /\ faults.overtaken <= faults'.overtaken
  /\ conceded \subseteq conceded' /\ survived \subseteq survived'

LEMMA GrowsUnchanged ==
  ASSUME TypeInv, UNCHANGED <<faults, conceded, survived>>
  PROVE  Grows
<1>1. faults.timeouts \in 0..MaxTimeouts /\ faults.crashes \in Nat /\ faults.overtaken \in Nat
  BY DEF TypeInv, FaultTypes
<1>2. /\ faults.timeouts <= faults.timeouts /\ faults.crashes <= faults.crashes
      /\ faults.overtaken <= faults.overtaken
  BY <1>1
<1> QED BY <1>2 DEF Grows

\* What all steps of p have in common.
Steps(q) == TypeInv' /\ Keeps(q) /\ Grows

\* p leaves the series.
Leaves(p) ==
  /\ Running(p) /\ pc'[p] \in {"aborted", "crashed"}
  /\ game'[p] = game[p] /\ reports'[p] = reports[p] /\ peerSha'[p] = peerSha[p]
  /\ pc[p] = "audit" => pc'[p] = "crashed" /\ result'[p] = result[p]
  /\ mail' = mail

\* A repeated push counts as a fault of the network only.
LEMMA FaultsAfterPush ==
  ASSUME TypeInv, NEW q \in Peers, NEW box, NEW msg, Push(q, box, msg)
  PROVE  /\ faults' \in FaultTypes
         /\ faults.timeouts <= faults'.timeouts /\ faults.crashes <= faults'.crashes
         /\ faults.overtaken <= faults'.overtaken
         /\ faults'.strays = Strays(q, box, msg)
<1>0. /\ faults.duplicates + 1 \in Nat /\ faults.timeouts \in Int /\ faults.crashes \in Int
      /\ faults.overtaken \in Int /\ Strays(q, box, msg) \in SUBSET (1..Games)
  BY DEF TypeInv, FaultTypes, Strays
<1>1. \/ faults' = [faults EXCEPT !.strays = Strays(q, box, msg)]
      \/ faults' = [faults EXCEPT !.strays = Strays(q, box, msg),
                                 !.duplicates = faults.duplicates + 1]
  BY DEF Push
<1>2. /\ faults' \in FaultTypes /\ faults'.timeouts = faults.timeouts
      /\ faults'.crashes = faults.crashes /\ faults'.overtaken = faults.overtaken
      /\ faults'.strays = Strays(q, box, msg)
  BY <1>0, <1>1 DEF TypeInv, FaultTypes
<1> QED BY <1>0, <1>2

MailTypeInv ==
  mail \in [Peers -> [agreements : Seq(1..Games), turns : Seq(Turns),
                      audits : Seq(Claims \cup Digests), late : SUBSET Copies]]

LEMMA MailAfterGreeting ==
  ASSUME "agreements" \notin Duplicable, TypeInv, NEW p, NEW q, Pair(p, q),
         Push(q, "agreements", game[p])
  PROVE  /\ mail'[p] = mail[p]
         /\ mail'[q].turns = mail[q].turns /\ mail'[q].audits = mail[q].audits
         /\ mail'[q].agreements = Append(mail[q].agreements, game[p])
         /\ mail'[q].late = mail[q].late
         /\ MailTypeInv'
<1> USE DEF Pair
<1>1. mail' = [mail EXCEPT ![q].agreements = Append(mail[q].agreements, game[p])]
  BY DEF Push
<1>2. Append(mail[q].agreements, game[p]) \in Seq(1..Games)
  BY DEF TypeInv
<1>3. PICK t \in Seq(1..Games) : /\ t = Append(mail[q].agreements, game[p])
                                 /\ mail' = [mail EXCEPT ![q].agreements = t]
  BY <1>1, <1>2
<1>4. /\ mail'[p] = mail[p] /\ mail'[q].agreements = t
      /\ mail'[q].turns = mail[q].turns /\ mail'[q].audits = mail[q].audits
      /\ mail'[q].late = mail[q].late
  BY <1>3, SMTT(30) DEF TypeInv
<1>5. MailTypeInv'
  <2>1. MailTypeInv
    BY DEF TypeInv, MailTypeInv
  <2> QED BY <1>3, <2>1, ZenonT(40) DEF MailTypeInv
<1> QED BY <1>3, <1>4, <1>5

LEMMA MailAfterTurn ==
  ASSUME TypeInv, NEW p, NEW q, Pair(p, q), NEW m \in Turns, Push(q, "turns", m)
  PROVE  /\ mail'[p] = mail[p]
         /\ mail'[q].agreements = mail[q].agreements /\ mail'[q].audits = mail[q].audits
         /\ Copied(mail[q].turns, m, mail'[q].turns)
         /\ mail'[q].late \subseteq mail[q].late \cup {[box |-> "turns", msg |-> m]}
         /\ MailTypeInv'
<1> USE DEF Pair
<1> DEFINE copy == [box |-> "turns", msg |-> m]
<1>1. PICK l \in {mail[q].late, mail[q].late \cup {copy}} :
        mail' = [mail EXCEPT ![q].turns = Append(mail[q].turns, m), ![q].late = l]
  <2>1. CASE mail' = [mail EXCEPT ![q].turns = Append(mail[q].turns, m)]
    <3>1. mail[q].late = mail[q].late /\ [mail EXCEPT ![q].turns = Append(mail[q].turns, m)]
            = [mail EXCEPT ![q].turns = Append(mail[q].turns, m), ![q].late = mail[q].late]
      BY DEF TypeInv
    <3> QED BY <2>1, <3>1
  <2>2. CASE mail' = [mail EXCEPT ![q].turns = Append(mail[q].turns, m),
                                  ![q].late = mail[q].late \cup {copy}]
    BY <2>2
  <2> QED BY <2>1, <2>2 DEF Push, TypeInv
<1>2. Append(mail[q].turns, m) \in Seq(Turns) /\ l \in SUBSET Copies
  BY DEF TypeInv, Copies
<1>3. PICK t \in Seq(Turns) :
        /\ Copied(mail[q].turns, m, t)
        /\ mail' = [mail EXCEPT ![q].turns = t, ![q].late = l]
  BY <1>1, <1>2 DEF Copied
<1>4. /\ mail'[p] = mail[p] /\ mail'[q].turns = t /\ mail'[q].late = l
      /\ mail'[q].agreements = mail[q].agreements /\ mail'[q].audits = mail[q].audits
  BY <1>3 DEF TypeInv
<1>5. MailTypeInv'
  <2> DEFINE half == [mail EXCEPT ![q].turns = t]
  <2>1. MailTypeInv /\ l \in SUBSET Copies
    BY <1>2 DEF TypeInv, MailTypeInv
  <2>2. half \in [Peers -> [agreements : Seq(1..Games), turns : Seq(Turns),
                             audits : Seq(Claims \cup Digests), late : SUBSET Copies]]
    BY <2>1 DEF MailTypeInv
  <2>3. mail' = [half EXCEPT ![q].late = l]
    BY <1>3
  <2> HIDE DEF half, copy
  <2> QED BY <2>1, <2>2, <2>3, ZenonT(40) DEF MailTypeInv
<1> QED BY <1>3, <1>4, <1>5

LEMMA MailAfterAudit ==
  ASSUME TypeInv, NEW p, NEW q, Pair(p, q),
         NEW m \in Claims \cup Digests, Push(q, "audits", m)
  PROVE  /\ mail'[p] = mail[p]
         /\ mail'[q].agreements = mail[q].agreements /\ mail'[q].turns = mail[q].turns
         /\ ToSet(mail'[q].audits) = ToSet(mail[q].audits) \cup {m}
         /\ mail'[q].late \subseteq mail[q].late \cup {[box |-> "audits", msg |-> m]}
         /\ MailTypeInv'
<1> USE DEF Pair
<1> DEFINE copy == [box |-> "audits", msg |-> m]
<1>1. PICK l \in {mail[q].late, mail[q].late \cup {copy}} :
        mail' = [mail EXCEPT ![q].audits = Append(mail[q].audits, m), ![q].late = l]
  <2>1. CASE mail' = [mail EXCEPT ![q].audits = Append(mail[q].audits, m)]
    <3>1. mail[q].late = mail[q].late /\ [mail EXCEPT ![q].audits = Append(mail[q].audits, m)]
            = [mail EXCEPT ![q].audits = Append(mail[q].audits, m), ![q].late = mail[q].late]
      BY DEF TypeInv
    <3> QED BY <2>1, <3>1
  <2>2. CASE mail' = [mail EXCEPT ![q].audits = Append(mail[q].audits, m),
                                  ![q].late = mail[q].late \cup {copy}]
    BY <2>2
  <2> QED BY <2>1, <2>2 DEF Push, TypeInv
<1>2. mail[q].audits \in Seq(Claims \cup Digests) /\ l \in SUBSET Copies
  BY DEF TypeInv, Copies
<1>3. Append(mail[q].audits, m) \in Seq(Claims \cup Digests)
  BY <1>2
<1>4. PICK t \in Seq(Claims \cup Digests) :
        /\ Copied(mail[q].audits, m, t)
        /\ mail' = [mail EXCEPT ![q].audits = t, ![q].late = l]
  BY <1>1, <1>3 DEF Copied
<1>5. ToSet(t) = ToSet(mail[q].audits) \cup {m}
  <2> DEFINE s == mail[q].audits  S == Claims \cup Digests
  <2>1. s \in Seq(S) /\ m \in S /\ Copied(s, m, t)
    BY <1>2, <1>4
  <2> HIDE DEF s, S
  <2>2. ToSet(t) = ToSet(s) \cup {m}
    BY <2>1, Pushed
  <2> QED BY <2>2 DEF s
<1>6. /\ mail'[p] = mail[p] /\ mail'[q].audits = t /\ mail'[q].late = l
      /\ mail'[q].agreements = mail[q].agreements /\ mail'[q].turns = mail[q].turns
  BY <1>4 DEF TypeInv
<1>7. MailTypeInv'
  <2> DEFINE half == [mail EXCEPT ![q].audits = t]
  <2>1. MailTypeInv /\ l \in SUBSET Copies
    BY <1>2 DEF TypeInv, MailTypeInv
  <2>2. half \in [Peers -> [agreements : Seq(1..Games), turns : Seq(Turns),
                             audits : Seq(Claims \cup Digests), late : SUBSET Copies]]
    BY <2>1 DEF MailTypeInv
  <2>3. mail' = [half EXCEPT ![q].late = l]
    BY <1>4
  <2> HIDE DEF half, copy
  <2> QED BY <2>1, <2>2, <2>3, ZenonT(40) DEF MailTypeInv
<1> QED BY <1>5, <1>6, <1>7

LEMMA CrashStep ==
  ASSUME TypeInv, NEW p, NEW q, Pair(p, q), Crash(p)
  PROVE  Steps(q) /\ Leaves(p) /\ ~Faultless'
<1>1. /\ faults \in FaultTypes
      /\ pc \in [Peers -> {"greet", "meet", "open", "play", "audit", "settle",
                           "settling", "done", "aborted", "crashed"}]
      /\ p \in Peers /\ q \in Peers /\ p # q
  BY DEF TypeInv, Pair
<1>2. /\ Running(p) /\ pc' = [pc EXCEPT ![p] = "crashed"]
      /\ faults' = [faults EXCEPT !.crashes = @ + 1]
      /\ UNCHANGED <<game, step, inbox, ready, result, heard, reports, peerSha, mail,
                     conceded, survived>>
  BY DEF Crash
<1>3. /\ faults' \in FaultTypes
      /\ faults'.timeouts = faults.timeouts /\ faults'.crashes = faults.crashes + 1
      /\ faults'.overtaken = faults.overtaken /\ faults.overtaken \in Int
      /\ faults.timeouts \in Int /\ faults.crashes \in Nat
  BY <1>1, <1>2 DEF FaultTypes
<1>4. TypeInv'
  BY <1>2, <1>3 DEF TypeInv
<1>5. pc'[q] = pc[q] /\ pc'[p] = "crashed"
  BY <1>1, <1>2
<1>6. Keeps(q) /\ Leaves(p)
  BY <1>2, <1>5 DEF Keeps, Leaves
<1>7. Grows /\ ~Faultless'
  BY <1>2, <1>3 DEF Grows, Faultless
<1> QED BY <1>4, <1>6, <1>7 DEF Steps

Greets(p, q) ==
  /\ pc[p] = "greet" /\ pc'[p] = "meet" /\ Reachable(q)
  /\ game'[p] = game[p] /\ step'[p] = step[p] /\ inbox'[p] = inbox[p]
  /\ ready'[p] = ready[p] /\ result'[p] = result[p] /\ heard'[p] = heard[p]
  /\ reports'[p] = reports[p] /\ peerSha'[p] = peerSha[p]
  /\ mail'[p] = mail[p]
  /\ mail'[q].turns = mail[q].turns /\ mail'[q].audits = mail[q].audits
  /\ mail'[q].agreements = Append(mail[q].agreements, game[p])

LEMMA GreetStep ==
  ASSUME "agreements" \notin Duplicable, TypeInv, NEW p, NEW q, Pair(p, q), Greet(p)
  PROVE  Steps(q) /\ (Greets(p, q) \/ (Leaves(p) /\ ~Reachable(q)))
<1> USE DEF Pair
<1>1. CASE ~Reachable(q)
  <2> USE <1>1 DEF TypeInv, Greet
  <2>1. TypeInv'
    OBVIOUS
  <2>2. Keeps(q) /\ Grows
    BY GrowsUnchanged DEF Keeps
  <2>3. Leaves(p)
    BY DEF Leaves, Running
  <2> QED BY <2>1, <2>2, <2>3 DEF Steps
<1>2. CASE Reachable(q)
  <2>1. Push(q, "agreements", game[p])
    BY <1>2 DEF Greet
  <2>2. /\ pc[p] = "greet" /\ pc' = [pc EXCEPT ![p] = "meet"]
        /\ UNCHANGED <<game, step, inbox, ready, result, heard, reports, peerSha,
                       conceded, survived>>
    BY <1>2 DEF Greet
  <2>3. TypeInv'
    <3>1. MailTypeInv' /\ faults' \in FaultTypes
      BY <2>1, MailAfterGreeting, FaultsAfterPush
    <3> QED BY <2>2, <3>1 DEF TypeInv, MailTypeInv
  <2>4. Keeps(q) /\ Grows
    <3>1. Grows
      BY <2>1, <2>2, FaultsAfterPush DEF Grows
    <3>2. Keeps(q)
      BY <2>2 DEF TypeInv, Keeps
    <3> QED BY <3>1, <3>2
  <2>5. Greets(p, q)
    <3>1. /\ mail'[p] = mail[p]
          /\ mail'[q].turns = mail[q].turns /\ mail'[q].audits = mail[q].audits
          /\ mail'[q].agreements = Append(mail[q].agreements, game[p])
      BY <2>1, MailAfterGreeting
    <3>2. pc'[p] = "meet"
      BY <2>2 DEF TypeInv
    <3> QED BY <1>2, <2>2, <3>1, <3>2 DEF Greets
  <2> QED BY <2>3, <2>4, <2>5 DEF Steps
<1> QED BY <1>1, <1>2

Meets(p, q) ==
  /\ pc[p] = "meet" /\ Len(mail[p].agreements) > 0
  /\ pc'[p] = IF Role(p, game[p]) = "thief" THEN "open" ELSE "play"
  /\ step'[p] = 0 /\ inbox'[p] = EmptyInbox /\ result'[p] = None /\ heard'[p] = None
  /\ game'[p] = game[p] /\ ready'[p] = ready[p]
  /\ reports'[p] = reports[p] /\ peerSha'[p] = peerSha[p]
  /\ mail'[q] = mail[q]
  /\ mail'[p].turns = mail[p].turns /\ mail'[p].audits = mail[p].audits
  /\ Len(mail'[p].agreements) = Len(mail[p].agreements) - 1

LEMMA MeetStep ==
  ASSUME TypeInv, NEW p, NEW q, Pair(p, q), Meet(p)
  PROVE  Steps(q) /\ Meets(p, q) /\ UNCHANGED <<faults, conceded, survived>>
<1> USE DEF Pair
<1>1. /\ mail[p].agreements # <<>> /\ mail[p].agreements \in Seq(1..Games)
      /\ mail' = [mail EXCEPT ![p].agreements = Tail(mail[p].agreements)]
  BY DEF Meet, TypeInv
<1>2. PICK t \in Seq(1..Games) :
        /\ Len(t) = Len(mail[p].agreements) - 1 /\ Len(mail[p].agreements) > 0
        /\ mail' = [mail EXCEPT ![p].agreements = t]
  <2> DEFINE s == mail[p].agreements
  <2>1. s \in Seq(1..Games) /\ s # <<>>
    BY <1>1
  <2>2. Tail(s) \in Seq(1..Games) /\ Len(Tail(s)) = Len(s) - 1 /\ Len(s) > 0
    <3> HIDE DEF s
    <3> QED BY <2>1
  <2> QED BY <1>1, <2>2
<1>3. /\ mail'[q] = mail[q] /\ mail'[p].agreements = t
      /\ mail'[p].turns = mail[p].turns /\ mail'[p].audits = mail[p].audits
  BY <1>2 DEF TypeInv
<1>4. MailTypeInv'
  <2>1. MailTypeInv
    BY DEF TypeInv, MailTypeInv
  <2> QED BY <1>2, <2>1 DEF MailTypeInv
<1>5. TypeInv'
  BY <1>4 DEF TypeInv, MailTypeInv, Meet
<1>6. Keeps(q) /\ Grows
  BY GrowsUnchanged DEF Meet, TypeInv, Keeps
<1>7. Meets(p, q)
  <2>1. /\ pc[p] = "meet"
        /\ pc'[p] = IF Role(p, game[p]) = "thief" THEN "open" ELSE "play"
        /\ step'[p] = 0 /\ inbox'[p] = EmptyInbox /\ result'[p] = None /\ heard'[p] = None
        /\ game' = game /\ ready' = ready /\ reports' = reports /\ peerSha' = peerSha
    BY DEF Meet, TypeInv
  <2> QED BY <1>2, <1>3, <2>1 DEF Meets
<1> QED BY <1>5, <1>6, <1>7 DEF Steps, Meet

\* A timer has run out: on a peer that stopped, or as one of the few that may.
Expired(q) ==
  \/ ~Running(q)
  \/ faults.timeouts < MaxTimeouts /\ faults'.timeouts = faults.timeouts + 1

LEMMA Expiry ==
  ASSUME TypeInv, NEW p, NEW q, Pair(p, q), Expires(p)
  PROVE  /\ Expired(q)
         /\ faults' \in FaultTypes /\ faults'.strays = faults.strays
         /\ faults.timeouts <= faults'.timeouts /\ faults.crashes <= faults'.crashes
         /\ faults.overtaken <= faults'.overtaken
<1> USE DEF Pair
<1>0. /\ faults.timeouts \in 0..MaxTimeouts /\ faults.timeouts \in Int
      /\ faults.crashes \in Int /\ faults.overtaken \in Int
  BY DEF TypeInv, FaultTypes
<1>1. CASE ~Running(q) /\ UNCHANGED faults
  <2>1. Expired(q) /\ faults' = faults
    BY <1>1 DEF Expired
  <2>2. faults' \in FaultTypes
    BY <2>1 DEF TypeInv
  <2>3. /\ faults.timeouts <= faults.timeouts /\ faults.crashes <= faults.crashes
        /\ faults.overtaken <= faults.overtaken
    BY <1>0
  <2> QED BY <2>1, <2>2, <2>3
<1>2. CASE /\ faults.timeouts < MaxTimeouts
           /\ faults' = [faults EXCEPT !.timeouts = faults.timeouts + 1]
  <2>1. faults.timeouts + 1 \in 0..MaxTimeouts
    BY <1>0, <1>2, SeriesAssumption
  <2>2. faults' \in FaultTypes
    BY <1>2, <2>1 DEF TypeInv, FaultTypes
  <2>3. /\ faults'.timeouts = faults.timeouts + 1 /\ faults'.crashes = faults.crashes
        /\ faults'.overtaken = faults.overtaken /\ faults'.strays = faults.strays
    BY <1>2 DEF TypeInv, FaultTypes
  <2> QED BY <1>0, <1>2, <2>2, <2>3 DEF Expired
<1> QED BY <1>1, <1>2 DEF Expires

LEMMA MeetTimeoutStep ==
  ASSUME TypeInv, NEW p, NEW q, Pair(p, q), MeetTimeout(p)
  PROVE  /\ Steps(q) /\ Leaves(p) /\ Expired(q)
         /\ pc[p] = "meet" /\ mail[p].agreements = <<>>
<1> USE DEF Pair
<1>1. /\ pc[p] = "meet" /\ mail[p].agreements = <<>> /\ Expires(p)
      /\ pc' = [pc EXCEPT ![p] = "aborted"]
      /\ UNCHANGED <<game, step, inbox, ready, result, heard, reports, peerSha, mail,
                     conceded, survived>>
  BY DEF MeetTimeout
<1>2. TypeInv'
  <2>1. faults' \in FaultTypes
    BY <1>1, Expiry
  <2> QED BY <1>1, <2>1 DEF TypeInv
<1>3. Grows
  BY <1>1, Expiry DEF Grows
<1>4. Keeps(q) /\ Leaves(p)
  BY <1>1 DEF TypeInv, Keeps, Leaves, Running
<1> QED BY <1>1, <1>2, <1>3, <1>4, Expiry DEF Steps

TimesOut(p) ==
  /\ pc[p] = "play" /\ result[p] = None /\ ready[p] = <<>> /\ mail[p].audits = <<>>
  /\ game'[p] = game[p] /\ pc'[p] = pc[p] /\ step'[p] = step[p]
  /\ inbox'[p] = inbox[p] /\ ready'[p] = ready[p] /\ result'[p] = "timeout"
  /\ heard'[p] = heard[p] /\ reports'[p] = reports[p] /\ peerSha'[p] = peerSha[p]
  /\ mail' = mail

LEMMA TurnTimeoutStep ==
  ASSUME TypeInv, NEW p, NEW q, Pair(p, q), TurnTimeout(p)
  PROVE  Steps(q) /\ TimesOut(p) /\ Expired(q) /\ UNCHANGED <<conceded, survived>>
<1> USE DEF Pair
<1>1. /\ Waiting(p) /\ mail[p].audits = <<>> /\ Expires(p)
      /\ result' = [result EXCEPT ![p] = "timeout"]
      /\ UNCHANGED <<game, pc, step, inbox, ready, heard, reports, peerSha, mail,
                     conceded, survived>>
  BY DEF TurnTimeout
<1>2. TypeInv'
  <2>1. faults' \in FaultTypes
    BY <1>1, Expiry
  <2> QED BY <1>1, <2>1 DEF TypeInv, Outcomes
<1>3. Grows
  BY <1>1, Expiry DEF Grows
<1>4. Keeps(q) /\ TimesOut(p)
  BY <1>1 DEF TypeInv, Keeps, TimesOut, Waiting
<1> QED BY <1>1, <1>2, <1>3, <1>4, Expiry DEF Steps

-----------------------------------------------------------------------------
(* Turns. *)

\* p has pushed the turn m.
Moves(p, q, m) ==
  /\ pc[p] \in {"open", "play"} /\ pc'[p] = "play" /\ Reachable(q)
  /\ result[p] = None
  /\ pc[p] = "play" => ready[p] # <<>> /\ ~Final(ready[p][1])
  /\ game'[p] = game[p] /\ inbox'[p] = inbox[p] /\ heard'[p] = heard[p]
  /\ reports'[p] = reports[p] /\ peerSha'[p] = peerSha[p]
  /\ step'[p] = step[p] + 1 /\ ready'[p] = <<>>
  /\ m \in Turns /\ m.game = game[p] /\ m.step = step[p] + 1
  /\ m.commit = <<m.game, m.step>>
  /\ result'[p] = IF Final(m) THEN Says(m) ELSE None
  /\ m.caught \/ m.win = "capture" =>
       game[p] \in conceded' /\ Role(p, game[p]) = "thief"
  /\ m.win = "survival" => game[p] \in survived'
  /\ mail'[p] = mail[p]
  /\ mail'[q].agreements = mail[q].agreements /\ mail'[q].audits = mail[q].audits
  /\ Copied(mail[q].turns, m, mail'[q].turns)

\* p has heard the last turn of the game.
Hears(p) ==
  /\ pc[p] = "play" /\ result[p] = None /\ ready[p] # <<>> /\ Final(ready[p][1])
  /\ result'[p] = Says(ready[p][1]) /\ ready'[p] = <<>>
  /\ game'[p] = game[p] /\ pc'[p] = pc[p] /\ step'[p] = step[p]
  /\ inbox'[p] = inbox[p] /\ heard'[p] = heard[p]
  /\ reports'[p] = reports[p] /\ peerSha'[p] = peerSha[p]
  /\ mail' = mail

\* TakeTurn and Hold: one turn m pushed, with the result o on p's own side.
Acts(p, m, o) ==
  /\ SendTurn(p, m)
  /\ m \in Turns /\ m.game = game[p] /\ m.step = step[p] + 1
  /\ m.commit = <<m.game, m.step>>
  /\ o = IF Final(m) THEN Says(m) ELSE None
  /\ m.caught \/ m.win = "capture" =>
       game[p] \in conceded' /\ Role(p, game[p]) = "thief"
  /\ m.win = "survival" => game[p] \in survived'
  /\ step' = [step EXCEPT ![p] = @ + 1]
  /\ result' = [result EXCEPT ![p] = o]
  /\ conceded \subseteq conceded' /\ survived \subseteq survived'

LEMMA TakeTurnActs ==
  ASSUME TypeInv, NEW p \in Peers, TakeTurn(p)
  PROVE  \E m, o : Acts(p, m, o)
<1> DEFINE m == Turn(p, step[p] + 1, Role(p, game[p]) = "police", FALSE,
                     IF Survives(p) THEN "survival" ELSE "none")
           o == IF Survives(p) THEN "survival" ELSE None
<1>1. /\ m.game = game[p] /\ m.step = step[p] + 1 /\ m.commit = <<game[p], step[p] + 1>>
      /\ m.caught = FALSE /\ m.win = IF Survives(p) THEN "survival" ELSE "none"
  BY DEF Turn
<1>2. m \in Turns
  BY DEF Turn, Turns, TypeInv
<1>3. /\ SendTurn(p, m)
      /\ step' = [step EXCEPT ![p] = @ + 1] /\ result' = [result EXCEPT ![p] = o]
      /\ survived' = IF Survives(p) THEN survived \cup {game[p]} ELSE survived
      /\ conceded' = conceded
  BY DEF TakeTurn
<1>4. o = IF Final(m) THEN Says(m) ELSE None
  BY <1>1 DEF Final, Says
<1> HIDE DEF m, o
<1> QED BY <1>1, <1>2, <1>3, <1>4 DEF Acts

LEMMA HoldActs ==
  ASSUME TypeInv, NEW p \in Peers, NEW caught \in BOOLEAN, NEW win \in {"none", "capture"},
         caught \/ win = "capture", Role(p, game[p]) = "thief", Hold(p, caught, win)
  PROVE  \E m, o : Acts(p, m, o)
<1> DEFINE m == Turn(p, step[p] + 1, FALSE, caught, win)
<1>1. /\ m.game = game[p] /\ m.step = step[p] + 1 /\ m.commit = <<game[p], step[p] + 1>>
      /\ m.caught = caught /\ m.win = win
  BY DEF Turn
<1>2. m \in Turns
  BY DEF Turn, Turns, TypeInv
<1>3. /\ SendTurn(p, m)
      /\ step' = [step EXCEPT ![p] = @ + 1] /\ result' = [result EXCEPT ![p] = "capture"]
      /\ conceded' = conceded \cup {game[p]} /\ survived' = survived
  BY DEF Hold
<1>4. "capture" = IF Final(m) THEN Says(m) ELSE None
  BY <1>1 DEF Final, Says
<1> HIDE DEF m
<1> QED BY <1>1, <1>2, <1>3, <1>4 DEF Acts

LEMMA ActsStep ==
  ASSUME TypeInv, NEW p, NEW q, Pair(p, q), NEW m, NEW o, Acts(p, m, o),
         pc[p] \in {"open", "play"}, result[p] = None,
         pc[p] = "play" => ready[p] # <<>> /\ ~Final(ready[p][1]),
         ready' \in [Peers -> Seq(Turns)], ready'[p] = <<>>, ready'[q] = ready[q],
         UNCHANGED <<game, inbox, heard, reports, peerSha>>
  PROVE  Steps(q) /\ (Moves(p, q, m) \/ (Leaves(p) /\ ~Reachable(q)))
<1> USE DEF Pair
<1>0. /\ step[p] + 1 \in Nat /\ faults.timeouts \in Int /\ faults.crashes \in Int
      /\ faults.overtaken \in Int
  <2>1. step[p] \in Nat
    BY DEF TypeInv
  <2>2. faults.timeouts \in 0..MaxTimeouts /\ faults.crashes \in Nat /\ faults.overtaken \in Nat
    BY DEF TypeInv, FaultTypes
  <2> QED BY <2>1, <2>2
<1>1. /\ step' = [step EXCEPT ![p] = @ + 1] /\ result' = [result EXCEPT ![p] = o]
      /\ o \in Outcomes \cup {None} /\ m \in Turns
      /\ conceded \subseteq conceded' /\ survived \subseteq survived'
  BY DEF Acts, Outcomes, Final, Says, Turns
<1>2. CASE Reachable(q)
  <2>1. Push(q, "turns", m) /\ pc' = [pc EXCEPT ![p] = "play"]
    BY <1>2 DEF Acts, SendTurn
  <2>2. /\ MailTypeInv'
        /\ faults' \in FaultTypes
    BY <1>1, <2>1, MailAfterTurn, FaultsAfterPush
  <2>3. TypeInv'
    <3>1. step' \in [Peers -> Nat] /\ result' \in [Peers -> Outcomes \cup {None}]
      BY <1>0, <1>1 DEF TypeInv
    <3>2. pc' \in [Peers -> {"greet", "meet", "open", "play", "audit", "settle",
                            "settling", "done", "aborted", "crashed"}]
      BY <2>1 DEF TypeInv
    <3> QED BY <2>2, <3>1, <3>2 DEF TypeInv, MailTypeInv
  <2>4. Grows
    BY <1>1, <2>1, FaultsAfterPush DEF Grows
  <2>5. Keeps(q)
    BY <1>1, <2>1 DEF TypeInv, Keeps
  <2>6. Moves(p, q, m)
    <3>1. /\ mail'[p] = mail[p]
          /\ mail'[q].agreements = mail[q].agreements /\ mail'[q].audits = mail[q].audits
          /\ Copied(mail[q].turns, m, mail'[q].turns)
      BY <1>1, <2>1, MailAfterTurn
    <3>2. pc'[p] = "play" /\ step'[p] = step[p] + 1 /\ result'[p] = o
      BY <1>1, <2>1 DEF TypeInv
    <3> QED BY <1>2, <3>1, <3>2 DEF Moves, Acts
  <2> QED BY <2>3, <2>4, <2>5, <2>6 DEF Steps
<1>3. CASE ~Reachable(q)
  <2>1. pc' = [pc EXCEPT ![p] = "aborted"] /\ UNCHANGED <<mail, faults>>
    BY <1>3 DEF Acts, SendTurn
  <2>2. TypeInv'
    <3>1. step' \in [Peers -> Nat] /\ result' \in [Peers -> Outcomes \cup {None}]
      BY <1>0, <1>1 DEF TypeInv
    <3>2. pc' \in [Peers -> {"greet", "meet", "open", "play", "audit", "settle",
                            "settling", "done", "aborted", "crashed"}]
      BY <2>1 DEF TypeInv
    <3> QED BY <2>1, <3>1, <3>2 DEF TypeInv
  <2>3. Keeps(q)
    BY <1>1, <2>1 DEF TypeInv, Keeps
  <2>5. Grows
    BY <1>0, <1>1, <2>1 DEF Grows
  <2>4. Leaves(p)
    BY <2>1 DEF TypeInv, Leaves, Running
  <2> QED BY <1>3, <2>2, <2>3, <2>4, <2>5 DEF Steps
<1> QED BY <1>2, <1>3

LEMMA OpenStep ==
  ASSUME TypeInv, NEW p, NEW q, Pair(p, q), LocalInv(p), Open(p)
  PROVE  Steps(q) /\ ((\E m : Moves(p, q, m)) \/ (Leaves(p) /\ ~Reachable(q)))
<1> USE DEF Pair
<1>1. /\ pc[p] = "open" /\ result[p] = None /\ ready[p] = <<>>
      /\ UNCHANGED <<game, inbox, ready, heard, reports, peerSha>>
  BY DEF Open, LocalInv, Gone
<1>2. PICK m, o : Acts(p, m, o)
  BY TakeTurnActs DEF Open
<1>3. ready' \in [Peers -> Seq(Turns)] /\ ready'[p] = <<>> /\ ready'[q] = ready[q]
  BY <1>1 DEF TypeInv
<1>4. Steps(q) /\ (Moves(p, q, m) \/ (Leaves(p) /\ ~Reachable(q)))
  BY <1>1, <1>2, <1>3, ActsStep
<1> QED BY <1>4

\* The head of the ready turns can be acted on: it is of this game, and no Thief
\* is told of a capture.
LEMMA ProcessStep ==
  ASSUME TypeInv, NEW p, NEW q, Pair(p, q), LocalInv(p), StreamInv(p), Process(p)
  PROVE  Steps(q) /\ \/ Hears(p) \/ \E m : Moves(p, q, m)
                     \/ Leaves(p) /\ ~Reachable(q)
<1> USE DEF Pair
<1> DEFINE h == ready[p][1]
<1>1. /\ pc[p] = "play" /\ ready[p] # <<>> /\ result[p] = None
      /\ Len(ready[p]) = 1 /\ ready[p] \in Seq(Turns)
      /\ UNCHANGED <<game, inbox, heard, reports, peerSha>>
      /\ ready' = [ready EXCEPT ![p] = IF result'[p] = None THEN Tail(@) ELSE <<>>]
  BY DEF Process, LocalInv, Gone, TypeInv
<1>2. h = Head(ready[p]) /\ h \in Turns /\ 1 \in DOMAIN ready[p] /\ Tail(ready[p]) = <<>>
  <2> DEFINE s == ready[p]
  <2>1. s \in Seq(Turns) /\ Len(s) = 1 /\ s # <<>>
    BY <1>1
  <2> HIDE DEF s
  <2>2. Head(s) = s[1] /\ DOMAIN s = 1..1 /\ s[1] \in Turns
    BY <2>1
  <2>3. Tail(s) \in Seq(Turns) /\ Len(Tail(s)) = 0
    BY <2>1
  <2>4. Tail(s) = <<>>
    BY <2>3, EmptySeq
  <2>5. 1 \in DOMAIN s
    BY <2>2
  <2> QED BY <2>2, <2>4, <2>5 DEF s
<1>3. ready' = [ready EXCEPT ![p] = <<>>]
  BY <1>1, <1>2
<1>4. ready' \in [Peers -> Seq(Turns)] /\ ready'[p] = <<>> /\ ready'[q] = ready[q]
  BY <1>3 DEF TypeInv
<1>5. h.caught \/ h.win = "capture" => Role(p, game[p]) = "police"
  BY <1>1, <1>2 DEF StreamInv, Listening, Playing, Sound
<1>6. h.caught \in BOOLEAN /\ h.win \in {"none", "survival", "capture"}
  BY <1>2 DEF Turns
<1>7. ASSUME NEW m, NEW o, Acts(p, m, o), ~Final(h)
      PROVE  Steps(q) /\ (Moves(p, q, m) \/ (Leaves(p) /\ ~Reachable(q)))
  BY <1>1, <1>4, <1>7, ActsStep
<1>8. ASSUME NEW o, o = Says(h), Final(h), Finds(p, o)
      PROVE  Steps(q) /\ Hears(p)
  <2>1. /\ result' = [result EXCEPT ![p] = o] /\ o \in Outcomes
        /\ UNCHANGED <<pc, step, mail, faults, conceded, survived>>
    BY <1>6, <1>8 DEF Finds, Says, Final, Outcomes
  <2>2. TypeInv'
    BY <1>1, <1>4, <2>1 DEF TypeInv
  <2>3. Keeps(q)
    BY <1>1, <1>4, <2>1 DEF TypeInv, Keeps
  <2>4. Grows
    <3>1. faults.timeouts \in 0..MaxTimeouts /\ faults.crashes \in Nat /\ faults.overtaken \in Nat
      BY DEF TypeInv, FaultTypes
    <3>2. /\ faults.timeouts <= faults.timeouts /\ faults.crashes <= faults.crashes
          /\ faults.overtaken <= faults.overtaken
      BY <3>1
    <3> QED BY <2>1, <3>2 DEF Grows
  <2>5. Hears(p)
    BY <1>1, <1>4, <1>8, <2>1 DEF TypeInv, Hears
  <2> QED BY <2>2, <2>3, <2>4, <2>5 DEF Steps
<1>9. CASE Role(p, game[p]) = "police"
  <2>1. PoliceReceives(p, h)
    BY <1>2, <1>9 DEF Process
  <2>2. CASE (h.caught \/ h.win = "capture") /\ Finds(p, "capture")
    BY <1>8, <2>2 DEF Final, Says
  <2>3. CASE ~h.caught /\ h.win = "survival" /\ Finds(p, "survival")
    BY <1>8, <2>3 DEF Final, Says
  <2>4. CASE ~h.caught /\ h.win = "none" /\ TakeTurn(p)
    <3>1. PICK m, o : Acts(p, m, o)
      BY <2>4, TakeTurnActs
    <3> QED BY <1>7, <2>4, <3>1 DEF Final
  <2> QED BY <2>1, <2>2, <2>3, <2>4 DEF PoliceReceives
<1>10. CASE Role(p, game[p]) = "thief"
  <2>1. ThiefReceives(p, h) /\ ~h.caught /\ h.win # "capture"
    BY <1>2, <1>5, <1>10 DEF Process
  <2>2. CASE h.win = "survival" /\ Finds(p, "survival")
    BY <1>8, <2>1, <2>2 DEF Final, Says
  <2>3. CASE h.win = "none" /\ h.claims /\ Hold(p, TRUE, "none")
    <3>1. PICK m, o : Acts(p, m, o)
      BY <1>10, <2>3, HoldActs
    <3> QED BY <1>7, <2>1, <2>3, <3>1 DEF Final
  <2>4. CASE h.win = "none" /\ h.claims /\ Hold(p, FALSE, "capture")
    <3>1. PICK m, o : Acts(p, m, o)
      BY <1>10, <2>4, HoldActs
    <3> QED BY <1>7, <2>1, <2>4, <3>1 DEF Final
  <2>5. CASE h.win = "none" /\ TakeTurn(p)
    <3>1. PICK m, o : Acts(p, m, o)
      BY <2>5, TakeTurnActs
    <3> QED BY <1>7, <2>1, <2>5, <3>1 DEF Final
  <2> QED BY <2>1, <2>2, <2>3, <2>4, <2>5 DEF ThiefReceives
<1> QED BY <1>9, <1>10 DEF Role

-----------------------------------------------------------------------------
(* Polling. *)

LEMMA OfferInOrder ==
  ASSUME NEW b, NEW g, InOrder(b, g), NEW m \in Turns,
         m.step >= 1, m.step <= b.next, m.commit = <<g, m.step>>
  PROVE  /\ ~Rejects(b, m)
         /\ m.step < b.next => Offered(b, m) = b /\ Ready(b, m) = <<>>
         /\ m.step = b.next =>
              /\ Ready(b, m) = <<m>> /\ InOrder(Offered(b, m), g)
              /\ Offered(b, m).next = b.next + 1
<1> DEFINE n == b.next
<1>1. n \in Nat \ {0} /\ m.step \in Nat /\ DOMAIN b.played = 1..n - 1
  BY DEF InOrder, Turns
<1>2. Seen(b, m) <=> m.step < n
  BY <1>1 DEF Seen
<1>3. Seen(b, m) => b.played[m.step] = m.commit
  BY DEF Seen, InOrder
<1>4. ~(m.step - n > Window) /\ ~(m.step > n)
  BY <1>1, WindowAssumption
<1>5. ~Rejects(b, m)
  BY <1>2, <1>3, <1>4 DEF Rejects, Equivocates, Violates
<1>6. ASSUME m.step < n PROVE Offered(b, m) = b /\ Ready(b, m) = <<>>
  BY <1>2, <1>4, <1>6 DEF Offered, Ready, Applies, Buffers
<1>7. ASSUME m.step = n
      PROVE  /\ Ready(b, m) = <<m>> /\ InOrder(Offered(b, m), g)
             /\ Offered(b, m).next = n + 1
  <2>1. Applies(b, m)
    BY <1>1, <1>2, <1>7 DEF Applies
  <2>2. Run(b, m.step) = {n}
    <3>1. (n + 1)..n = {}
      BY <1>1
    <3>2. n <= n
      BY <1>1
    <3> QED BY <1>7, <3>1, <3>2 DEF Run, InOrder
  <2>3. Cardinality(Run(b, m.step)) = 1
    BY <2>2, FS_Singleton
  <2>4. Ready(b, m) = [i \in 1..1 |-> IF i = 1 THEN m ELSE b.buffered[m.step + i - 1]]
    BY <2>1, <2>3 DEF Ready
  <2>5. Ready(b, m) = <<m>>
    BY <2>4
  <2>6. /\ Len(Ready(b, m)) = 1 /\ Ready(b, m)[1] = m
    BY <2>5
  <2>7. Offered(b, m) =
          [next     |-> n + 1,
           played   |-> [s \in DOMAIN b.played \cup {n} |->
                           IF s \in {n} THEN Ready(b, m)[s - n + 1].commit ELSE b.played[s]],
           buffered |-> Restrict(b.buffered, DOMAIN b.buffered \ {n})]
    <3>1. ~Buffers(b, m)
      BY <1>4 DEF Buffers
    <3>2. Offered(b, m) =
            [next     |-> m.step + Len(Ready(b, m)),
             played   |-> [s \in DOMAIN b.played \cup Run(b, m.step) |->
                             IF s \in Run(b, m.step)
                             THEN Ready(b, m)[s - m.step + 1].commit ELSE b.played[s]],
             buffered |-> Restrict(b.buffered, DOMAIN b.buffered \ Run(b, m.step))]
      BY <2>1, <3>1, Zenon DEF Offered
    <3> QED BY <1>7, <2>2, <2>6, <3>2
  <2>8. Offered(b, m).next = n + 1
    BY <2>7
  <2>9. DOMAIN Offered(b, m).buffered = {}
    BY <2>7 DEF Restrict, InOrder
  <2>10. DOMAIN Offered(b, m).played = 1..n
    <3>1. (1..n - 1) \cup {n} = 1..n
      BY <1>1
    <3> QED BY <1>1, <2>7, <3>1
  <2>11. ASSUME NEW k \in 1..n PROVE Offered(b, m).played[k] = <<g, k>>
    <3>1. Offered(b, m).played[k] =
            IF k = n THEN Ready(b, m)[k - n + 1].commit ELSE b.played[k]
      BY <2>7, <2>10
    <3>2. CASE k = n
      <4>1. k - n + 1 = 1
        BY <1>1, <3>2
      <4> QED BY <1>7, <2>6, <3>1, <3>2, <4>1
    <3>3. CASE k # n
      <4>1. k \in DOMAIN b.played
        BY <1>1, <3>3
      <4> QED BY <3>1, <3>3, <4>1 DEF InOrder
    <3> QED BY <3>2, <3>3
  <2>12. n + 1 \in Nat \ {0} /\ (n + 1) - 1 = n
    BY <1>1
  <2> QED BY <2>5, <2>8, <2>9, <2>10, <2>11, <2>12 DEF InOrder
<1> QED BY <1>5, <1>6, <1>7

LEMMA Absorbed ==
  ASSUME TypeInv, NEW p \in Peers
  PROVE  /\ AbsorbedMail(p) \in Seq(Claims \cup Digests)
         /\ ToSet(AbsorbedMail(p)) \subseteq ToSet(mail[p].audits)
         /\ Sorted(p, Deferred(p, mail[p].audits), AbsorbedMail(p))
         /\ AuditAt(p) # 0 =>
              Sorted(p, Deferred(p, SubSeq(mail[p].audits, 1, AuditAt(p))), AbsorbedMail(p))
<1> DEFINE s == mail[p].audits  k == AuditAt(p)
           S == Claims \cup Digests
<1>1. s \in Seq(S)
  BY DEF TypeInv
<1>2. CASE k = 0
  <2>1. AbsorbedMail(p) = <<>>
    BY <1>2 DEF AbsorbedMail
  <2>2. ToSet(<<>>) = {} /\ <<>> \in Seq(S)
    BY DEF ToSet
  <2>3. DigestsTo(p) \subseteq ToSet(s) \cup ToSet(<<>>)
    BY DEF DigestsTo
  <2>4. Sorted(p, Deferred(p, s), <<>>)
    BY <2>3, DigestIsDeferred
  <2> QED BY <1>2, <2>1, <2>2, <2>4
<1>3. CASE k # 0
  <2>1. k \in 1..Len(s) /\ AbsorbedMail(p) = SubSeq(s, k + 1, Len(s))
    BY <1>3, AuditPlace DEF AbsorbedMail
  <2>2. /\ SubSeq(s, k + 1, Len(s)) \in Seq(S)
        /\ ToSet(s) = ToSet(SubSeq(s, 1, k)) \cup ToSet(SubSeq(s, k + 1, Len(s)))
    <3>1. k \in 0..Len(s)
      BY <2>1
    <3> HIDE DEF s, k, S
    <3> QED BY <1>1, <3>1, Cut
  <2>3. DigestsTo(p) \subseteq ToSet(s)
    BY DEF DigestsTo
  <2>4. Sorted(p, Deferred(p, s), AbsorbedMail(p))
    BY <2>3, DigestIsDeferred
  <2>5. Sorted(p, Deferred(p, SubSeq(s, 1, k)), AbsorbedMail(p))
    BY <2>1, <2>2, <2>3, DigestIsDeferred
  <2> QED BY <2>1, <2>2, <2>4, <2>5
<1> QED BY <1>2, <1>3

\* What both kinds of poll do to the mailbox and leave alone.
Polls(p, q) ==
  /\ pc[p] = "play" /\ result[p] = None /\ ready[p] = <<>>
  /\ game'[p] = game[p] /\ pc'[p] = pc[p] /\ step'[p] = step[p]
  /\ reports'[p] = reports[p]
  /\ mail'[q] = mail[q] /\ mail'[p].agreements = mail[p].agreements
  /\ ToSet(mail'[p].audits) \subseteq ToSet(mail[p].audits)
  /\ Sorted(p, peerSha'[p], mail'[p].audits)
  /\ UNCHANGED <<faults, conceded, survived>>

\* An audit of this game was in the mailbox, and its claim is adopted.
Adopts(p) ==
  /\ \E a \in AuditClaims(p) :
       a.game = game[p] /\ result'[p] = a.claim /\ heard'[p] = a.claim
  /\ inbox'[p] = inbox[p] /\ ready'[p] = ready[p]

\* There was none, and the first turn, if any, is offered to the inbox.
Listens(p) ==
  /\ ~HasAudit(p) /\ result'[p] = result[p] /\ heard'[p] = heard[p]
  /\ \/ mail'[p].turns = mail[p].turns /\ inbox'[p] = inbox[p] /\ ready'[p] = ready[p]
     \/ /\ mail[p].turns # <<>> /\ mail'[p].turns = Tail(mail[p].turns)
        /\ \/ /\ mail[p].turns[1].step < inbox[p].next
              /\ inbox'[p] = inbox[p] /\ ready'[p] = ready[p]
           \/ /\ mail[p].turns[1].step = inbox[p].next
              /\ ready'[p] = <<mail[p].turns[1]>>
              /\ InOrder(inbox'[p], game[p])
              /\ inbox'[p].next = inbox[p].next + 1

LEMMA AdoptFacts ==
  ASSUME TypeInv, NEW p \in Peers, Adopt(p)
  PROVE  /\ Adopts(p) /\ UNCHANGED <<inbox, ready>>
         /\ \E c \in Outcomes : /\ result' = [result EXCEPT ![p] = c]
                                /\ heard' = [heard EXCEPT ![p] = c]
<1>1. /\ AuditAt(p) # 0 /\ UNCHANGED <<inbox, ready>>
      /\ result' = [result EXCEPT ![p] = AbsorbedClaim(p)]
      /\ heard' = [heard EXCEPT ![p] = AbsorbedClaim(p)]
  BY DEF Adopt
<1>2. PICK a \in AuditClaims(p) : a.game = game[p] /\ AbsorbedClaim(p) = a.claim
  BY <1>1, AuditPlace DEF AbsorbedClaim
<1>3. a \in Claims \cup Digests /\ a.kind = "audit"
  BY <1>2 DEF AuditClaims, ToSet, TypeInv
<1>4. a.claim \in Outcomes
  BY <1>3 DEF Claims, Digests
<1> QED BY <1>1, <1>2, <1>4 DEF Adopts, TypeInv

LEMMA AfterAbsorbFacts ==
  ASSUME TypeInv, NEW p, NEW q, Pair(p, q), NEW t \in Seq(Turns), AfterAbsorb(p, t)
  PROVE  /\ MailTypeInv' /\ mail'[q] = mail[q] /\ mail'[p].agreements = mail[p].agreements
         /\ mail'[p].turns = t
         /\ ToSet(mail'[p].audits) \subseteq ToSet(mail[p].audits)
         /\ Sorted(p, peerSha'[p], mail'[p].audits)
         /\ peerSha' = [peerSha EXCEPT ![p] = peerSha'[p]]
<1> USE DEF Pair
<1>1. PICK r \in Seq(Claims \cup Digests) :
        /\ r = AbsorbedMail(p)
        /\ mail' = [mail EXCEPT ![p] = [@ EXCEPT !.audits = r, !.turns = t]]
  BY Absorbed DEF AfterAbsorb
<1>2. /\ mail'[q] = mail[q] /\ mail'[p].agreements = mail[p].agreements
      /\ mail'[p].turns = t /\ mail'[p].audits = r
  BY <1>1 DEF TypeInv
<1>3. MailTypeInv'
  <2>1. MailTypeInv
    BY DEF TypeInv, MailTypeInv
  <2> QED BY <1>1, <2>1 DEF MailTypeInv
<1>4. peerSha' = [peerSha EXCEPT ![p] = Deferred(p, mail[p].audits)]
  BY DEF AfterAbsorb
<1>5. peerSha'[p] = Deferred(p, mail[p].audits)
  BY <1>4 DEF TypeInv
<1> QED BY <1>1, <1>2, <1>3, <1>4, <1>5, Absorbed

\* A digest or None.
LEMMA SortedType ==
  ASSUME TypeInv, NEW p \in Peers, NEW sha, NEW rest, Sorted(p, sha, rest)
  PROVE  sha \in Seq(Outcomes) \cup {None}
<1>1. CASE \E a \in DigestsTo(p) : sha = a.sha
  <2>1. PICK a \in DigestsTo(p) : sha = a.sha
    BY <1>1
  <2>2. a \in Claims \cup Digests /\ a.kind = "consensus"
    BY DEF DigestsTo, ToSet, TypeInv
  <2> QED BY <2>1, <2>2 DEF Claims, Digests
<1>2. CASE sha = peerSha[p]
  BY <1>2 DEF TypeInv
<1> QED BY <1>1, <1>2 DEF Sorted

\* The Inbox applies the first turn or knows it: it is never a violation.
LEMMA OfferFacts ==
  ASSUME TypeInv, NEW p \in Peers, LocalInv(p), StreamInv(p),
         Waiting(p), mail[p].turns # <<>>, Offer(p, Head(mail[p].turns))
  PROVE  /\ AuditAt(p) = 0 /\ UNCHANGED <<result, heard>>
         /\ \/ /\ mail[p].turns[1].step < inbox[p].next
               /\ UNCHANGED <<inbox, ready>>
            \/ /\ mail[p].turns[1].step = inbox[p].next
               /\ ready' = [ready EXCEPT ![p] = <<mail[p].turns[1]>>]
               /\ InOrder(inbox'[p], game[p])
               /\ inbox' = [inbox EXCEPT ![p] = inbox'[p]]
               /\ inbox'[p].next = inbox[p].next + 1
<1> DEFINE m == mail[p].turns[1]  b == inbox[p]
<1>1. m \in Turns /\ m = Head(mail[p].turns) /\ 1 \in DOMAIN mail[p].turns
  <2> DEFINE s == mail[p].turns
  <2>1. s \in Seq(Turns) /\ s # <<>>
    BY DEF TypeInv
  <2> HIDE DEF s
  <2>2. Head(s) = s[1] /\ s[1] \in Turns /\ 1 \in DOMAIN s
    BY <2>1
  <2> QED BY <2>2 DEF s
<1>2. InOrder(b, game[p]) /\ pc[p] = "play" /\ result[p] = None /\ ready[p] = <<>>
  BY DEF LocalInv, Playing, Waiting
<1>3. Sound(p, m) /\ Follows(p, 1)
  BY <1>1, <1>2 DEF StreamInv, Listening, Playing
<1>4. m.step >= 1 /\ m.commit = <<game[p], m.step>>
  BY <1>3 DEF Sound
<1>5. m.step <= b.next
  <2>1. 1..1 - 1 = {}
    OBVIOUS
  <2> QED BY <1>2, <1>3, <2>1 DEF Follows, Awaited, Fresh
<1>6. /\ ~Rejects(b, m)
      /\ m.step < b.next => Offered(b, m) = b /\ Ready(b, m) = <<>>
      /\ m.step = b.next =>
           /\ Ready(b, m) = <<m>> /\ InOrder(Offered(b, m), game[p])
           /\ Offered(b, m).next = b.next + 1
  BY <1>1, <1>2, <1>4, <1>5, OfferInOrder
<1>7. /\ AuditAt(p) = 0 /\ UNCHANGED <<result, heard>>
      /\ inbox' = [inbox EXCEPT ![p] = Offered(b, m)]
      /\ ready' = [ready EXCEPT ![p] = Ready(b, m)]
  BY <1>1, <1>6 DEF Offer
<1>8. m.step < b.next \/ m.step = b.next
  BY <1>1, <1>2, <1>5 DEF Turns, InOrder
<1>9. CASE m.step < b.next
  <2>1. inbox' = inbox /\ ready' = ready
    BY <1>2, <1>6, <1>7, <1>9 DEF TypeInv
  <2> QED BY <1>7, <1>9, <2>1
<1>10. CASE m.step = b.next
  <2>1. inbox'[p] = Offered(b, m)
    BY <1>7 DEF TypeInv
  <2> QED BY <1>6, <1>7, <1>10, <2>1
<1> QED BY <1>8, <1>9, <1>10

\* A poll that leaves the turns t, and sets the inbox, the ready turns, the
\* result and what was heard.
Sets(p, t, b, rd, o, h) ==
  /\ Waiting(p) /\ AfterAbsorb(p, t) /\ UNCHANGED faults
  /\ t \in Seq(Turns) /\ rd \in Seq(Turns)
  /\ o \in Outcomes \cup {None} /\ h \in Outcomes \cup {None}
  /\ inbox' = [inbox EXCEPT ![p] = b] /\ ready' = [ready EXCEPT ![p] = rd]
  /\ result' = [result EXCEPT ![p] = o] /\ heard' = [heard EXCEPT ![p] = h]

LEMMA PollStep ==
  ASSUME TypeInv, NEW p, NEW q, Pair(p, q),
         NEW t, NEW b, NEW rd, NEW o, NEW h, Sets(p, t, b, rd, o, h)
  PROVE  Steps(q) /\ Polls(p, q) /\ mail'[p].turns = t
<1> USE DEF Pair
<1>1. /\ MailTypeInv' /\ mail'[q] = mail[q] /\ mail'[p].agreements = mail[p].agreements
      /\ mail'[p].turns = t
      /\ ToSet(mail'[p].audits) \subseteq ToSet(mail[p].audits)
      /\ Sorted(p, peerSha'[p], mail'[p].audits)
      /\ peerSha' = [peerSha EXCEPT ![p] = peerSha'[p]]
  BY AfterAbsorbFacts, SMTT(30) DEF Sets
<1>2. peerSha'[p] \in Seq(Outcomes) \cup {None}
  BY <1>1, SortedType
<1>3. UNCHANGED <<game, pc, step, reports, conceded, survived, faults>>
  BY DEF AfterAbsorb, Sets
<1>4. TypeInv'
  <2>1. /\ inbox' = [r \in Peers |-> inbox'[r]] /\ ready' \in [Peers -> Seq(Turns)]
        /\ result' \in [Peers -> Outcomes \cup {None}]
        /\ heard' \in [Peers -> Outcomes \cup {None}]
    BY DEF TypeInv, Sets
  <2>2. peerSha' \in [Peers -> Seq(Outcomes) \cup {None}]
    BY <1>1, <1>2 DEF TypeInv
  <2> QED BY <1>1, <1>3, <2>1, <2>2 DEF TypeInv, MailTypeInv
<1>5. Keeps(q)
  <2>1. /\ inbox'[q] = inbox[q] /\ ready'[q] = ready[q]
        /\ result'[q] = result[q] /\ heard'[q] = heard[q]
    BY DEF TypeInv, Sets
  <2>2. peerSha'[q] = peerSha[q]
    BY <1>1 DEF TypeInv
  <2> QED BY <1>3, <2>1, <2>2 DEF Keeps
<1>6. Polls(p, q)
  BY <1>1, <1>3 DEF Polls, Waiting, Sets
<1> QED BY <1>1, <1>3, <1>4, <1>5, <1>6, GrowsUnchanged DEF Steps

LEMMA PollTurnStep ==
  ASSUME TypeInv, NEW p, NEW q, Pair(p, q), LocalInv(p), StreamInv(p), PollTurn(p)
  PROVE  Steps(q) /\ Polls(p, q) /\ (Adopts(p) \/ Listens(p))
<1> USE DEF Pair
<1>1. /\ Waiting(p) /\ mail[p].turns # <<>>
      /\ AfterAbsorb(p, Tail(mail[p].turns)) /\ UNCHANGED faults
      /\ Adopt(p) \/ Offer(p, Head(mail[p].turns))
  BY DEF PollTurn
<1>2. Tail(mail[p].turns) \in Seq(Turns) /\ mail[p].turns[1] \in Turns
  <2> DEFINE s == mail[p].turns
  <2>1. s \in Seq(Turns) /\ s # <<>>
    BY <1>1 DEF TypeInv
  <2> HIDE DEF s
  <2>2. Tail(s) \in Seq(Turns) /\ s[1] \in Turns
    BY <2>1
  <2> QED BY <2>2 DEF s
<1>8. PICK t \in Seq(Turns) : t = Tail(mail[p].turns) /\ AfterAbsorb(p, t)
  BY <1>1, <1>2
<1>3. /\ inbox = [inbox EXCEPT ![p] = inbox[p]] /\ ready = [ready EXCEPT ![p] = ready[p]]
      /\ result = [result EXCEPT ![p] = result[p]] /\ heard = [heard EXCEPT ![p] = heard[p]]
  BY DEF TypeInv
<1>7. /\ ready[p] \in Seq(Turns)
      /\ result[p] \in Outcomes \cup {None} /\ heard[p] \in Outcomes \cup {None}
  BY DEF TypeInv
<1>4. CASE Adopt(p)
  <2>1. PICK c \in Outcomes : /\ result' = [result EXCEPT ![p] = c]
                              /\ heard' = [heard EXCEPT ![p] = c]
    BY <1>4, AdoptFacts
  <2>2. UNCHANGED <<inbox, ready>> /\ Adopts(p)
    BY <1>4, AdoptFacts
  <2>3. c \in Outcomes \cup {None} /\ Sets(p, Tail(mail[p].turns), inbox[p], ready[p], c, c)
    BY <1>1, <1>2, <1>3, <1>7, <2>1, <2>2 DEF Sets
  <2>4. Steps(q) /\ Polls(p, q)
    BY <2>3, PollStep
  <2> QED BY <2>2, <2>4
<1>5. CASE Offer(p, Head(mail[p].turns))
  <2>1. /\ AuditAt(p) = 0 /\ UNCHANGED <<result, heard>>
        /\ \/ /\ mail[p].turns[1].step < inbox[p].next
              /\ UNCHANGED <<inbox, ready>>
           \/ /\ mail[p].turns[1].step = inbox[p].next
              /\ ready' = [ready EXCEPT ![p] = <<mail[p].turns[1]>>]
              /\ InOrder(inbox'[p], game[p])
              /\ inbox' = [inbox EXCEPT ![p] = inbox'[p]]
              /\ inbox'[p].next = inbox[p].next + 1
    BY <1>1, <1>5, OfferFacts
  <2>2. ~HasAudit(p)
    BY <2>1, AuditPlace
  <2>3. <<mail[p].turns[1]>> \in Seq(Turns)
    BY <1>2
  <2>4. Steps(q) /\ Polls(p, q) /\ mail'[p].turns = t
    <3>1. CASE UNCHANGED <<inbox, ready>>
      <4>1. Sets(p, t, inbox[p], ready[p], result[p], heard[p])
        BY <1>1, <1>7, <1>8, <1>3, <2>1, <3>1 DEF Sets
      <4> QED BY <4>1, PollStep
    <3>2. CASE /\ ready' = [ready EXCEPT ![p] = <<mail[p].turns[1]>>]
               /\ inbox' = [inbox EXCEPT ![p] = inbox'[p]]
      <4>1. Sets(p, t, inbox'[p], <<mail[p].turns[1]>>, result[p], heard[p])
        BY <1>1, <1>7, <1>8, <2>3, <1>3, <2>1, <3>2 DEF Sets
      <4> QED BY <4>1, PollStep
    <3> QED BY <2>1, <3>1, <3>2
  <2>5. ready' = [ready EXCEPT ![p] = <<mail[p].turns[1]>>] =>
          ready'[p] = <<mail[p].turns[1]>>
    BY DEF TypeInv
  <2>6. Listens(p)
    BY <1>1, <1>8, <2>1, <2>2, <2>4, <2>5 DEF Listens
  <2> QED BY <2>4, <2>6
<1> QED BY <1>1, <1>4, <1>5

LEMMA PollNothingStep ==
  ASSUME TypeInv, NEW p, NEW q, Pair(p, q), PollNothing(p)
  PROVE  Steps(q) /\ Polls(p, q) /\ (Adopts(p) \/ Listens(p))
<1> USE DEF Pair
<1>1. /\ Waiting(p) /\ AfterAbsorb(p, mail[p].turns) /\ UNCHANGED faults
      /\ Adopt(p) \/ (AuditAt(p) = 0 /\ UNCHANGED <<inbox, ready, result, heard>>)
  BY DEF PollNothing
<1>2. mail[p].turns \in Seq(Turns)
  BY DEF TypeInv
<1>3. /\ inbox = [inbox EXCEPT ![p] = inbox[p]] /\ ready = [ready EXCEPT ![p] = ready[p]]
      /\ result = [result EXCEPT ![p] = result[p]] /\ heard = [heard EXCEPT ![p] = heard[p]]
      /\ ready[p] \in Seq(Turns)
      /\ result[p] \in Outcomes \cup {None} /\ heard[p] \in Outcomes \cup {None}
  BY DEF TypeInv
<1>4. CASE Adopt(p)
  <2>1. PICK c \in Outcomes : /\ result' = [result EXCEPT ![p] = c]
                              /\ heard' = [heard EXCEPT ![p] = c]
    BY <1>4, AdoptFacts
  <2>2. UNCHANGED <<inbox, ready>> /\ Adopts(p)
    BY <1>4, AdoptFacts
  <2>3. c \in Outcomes \cup {None} /\ Sets(p, mail[p].turns, inbox[p], ready[p], c, c)
    BY <1>1, <1>2, <1>3, <2>1, <2>2 DEF Sets
  <2>4. Steps(q) /\ Polls(p, q)
    BY <2>3, PollStep
  <2> QED BY <2>2, <2>4
<1>5. CASE AuditAt(p) = 0 /\ UNCHANGED <<inbox, ready, result, heard>>
  <2>1. Steps(q) /\ Polls(p, q) /\ mail'[p].turns = mail[p].turns
    <3>1. Sets(p, mail[p].turns, inbox[p], ready[p], result[p], heard[p])
      BY <1>1, <1>2, <1>3, <1>5 DEF Sets
    <3> QED BY <3>1, PollStep
  <2>2. ~HasAudit(p)
    BY <1>5, AuditPlace
  <2> QED BY <1>5, <2>1, <2>2 DEF Listens
<1> QED BY <1>1, <1>4, <1>5

-----------------------------------------------------------------------------
(* Audits, reports and digests. *)

\* p has pushed a claim or a digest a, if its opponent can be reached.
Sends(p, q, a) ==
  /\ game'[p] = game[p] /\ step'[p] = step[p] /\ inbox'[p] = inbox[p]
  /\ ready'[p] = ready[p] /\ result'[p] = result[p] /\ heard'[p] = heard[p]
  /\ reports'[p] = reports[p] /\ peerSha'[p] = peerSha[p]
  /\ mail'[p] = mail[p]
  /\ mail'[q].agreements = mail[q].agreements /\ mail'[q].turns = mail[q].turns
  /\ ToSet(mail'[q].audits) =
       ToSet(mail[q].audits) \cup (IF Reachable(q) THEN {a} ELSE {})

LEMMA SendAuditStep ==
  ASSUME TypeInv, NEW p, NEW q, Pair(p, q), NEW a \in Claims \cup Digests,
         NEW next \in {"audit", "settling"}, SendAudit(p, a, next)
  PROVE  Steps(q) /\ Sends(p, q, a) /\ pc'[p] = next /\ UNCHANGED <<conceded, survived>>
<1> USE DEF Pair
<1>1. /\ pc' = [pc EXCEPT ![p] = next]
      /\ UNCHANGED <<game, step, inbox, ready, result, heard, reports, peerSha,
                     conceded, survived>>
      /\ (Reachable(q) /\ Push(q, "audits", a)) \/ (~Reachable(q) /\ UNCHANGED <<mail, faults>>)
  BY DEF SendAudit
<1>2. CASE Reachable(q) /\ Push(q, "audits", a)
  <2>1. /\ MailTypeInv'
        /\ faults' \in FaultTypes
    BY <1>2, MailAfterAudit, FaultsAfterPush
  <2>2. TypeInv'
    BY <1>1, <2>1 DEF TypeInv, MailTypeInv
  <2>3. Grows
    BY <1>1, <1>2, FaultsAfterPush DEF Grows
  <2>4. Keeps(q) /\ pc'[p] = next
    BY <1>1 DEF TypeInv, Keeps
  <2>5. /\ mail'[p] = mail[p]
        /\ mail'[q].agreements = mail[q].agreements /\ mail'[q].turns = mail[q].turns
        /\ ToSet(mail'[q].audits) = ToSet(mail[q].audits) \cup {a}
    BY <1>2, MailAfterAudit
  <2> QED BY <1>1, <1>2, <2>2, <2>3, <2>4, <2>5 DEF Steps, Sends
<1>3. CASE ~Reachable(q) /\ UNCHANGED <<mail, faults>>
  <2>1. TypeInv'
    BY <1>1, <1>3 DEF TypeInv
  <2>2. Grows
    BY <1>1, <1>3, GrowsUnchanged
  <2>3. Keeps(q) /\ pc'[p] = next
    BY <1>1 DEF TypeInv, Keeps
  <2> QED BY <1>1, <1>3, <2>1, <2>2, <2>3 DEF Steps, Sends
<1> QED BY <1>1, <1>2, <1>3

Closes(p, q) ==
  /\ pc[p] = "play" /\ pc'[p] = "audit" /\ result[p] # None
  /\ Sends(p, q, Audit(game[p], result[p]))

LEMMA CloseStep ==
  ASSUME TypeInv, NEW p, NEW q, Pair(p, q), Close(p)
  PROVE  Steps(q) /\ Closes(p, q) /\ UNCHANGED <<conceded, survived>>
<1> USE DEF Pair
<1>1. /\ pc[p] = "play" /\ result[p] # None
      /\ SendAudit(p, Audit(game[p], result[p]), "audit")
  BY DEF Close
<1>2. Audit(game[p], result[p]) \in Claims \cup Digests
  BY <1>1 DEF Audit, Claims, TypeInv
<1> QED BY <1>1, <1>2, SendAuditStep DEF Closes

Settles(p, q) ==
  /\ pc[p] = "settle" /\ pc'[p] = "settling"
  /\ Sends(p, q, Consensus(Sha(p)))

LEMMA ShaType ==
  ASSUME TypeInv, NEW p \in Peers
  PROVE  /\ Sha(p) \in [1..Count(p) -> Outcomes] /\ Sha(p) \in Seq(Outcomes)
         /\ Reported(p) = 1..Count(p) /\ Count(p) \in Nat
         /\ \A n \in Reported(p) : Sha(p)[n] = reports[p][n].outcome
<1>1. reports[p] \in Seq(Rows)
  BY DEF TypeInv
<1>2. /\ Len(reports[p]) \in Nat /\ DOMAIN reports[p] = 1..Len(reports[p])
      /\ \A n \in 1..Len(reports[p]) : reports[p][n] \in Rows
  BY <1>1
<1>3. \A n \in 1..Len(reports[p]) : reports[p][n].outcome \in Outcomes
  BY <1>2 DEF Rows
<1>4. Sha(p) = [n \in 1..Len(reports[p]) |-> reports[p][n].outcome]
  BY <1>2 DEF Sha
<1>5. Sha(p) \in [1..Len(reports[p]) -> Outcomes]
  BY <1>3, <1>4
<1>6. Sha(p) \in Seq(Outcomes)
  BY <1>2, <1>5, SeqDef
<1> QED BY <1>2, <1>4, <1>5, <1>6 DEF Count, Reported

LEMMA SettleStep ==
  ASSUME TypeInv, NEW p, NEW q, Pair(p, q), Settle(p)
  PROVE  Steps(q) /\ Settles(p, q) /\ UNCHANGED <<conceded, survived>>
<1> USE DEF Pair
<1>1. pc[p] = "settle" /\ SendAudit(p, Consensus(Sha(p)), "settling")
  BY DEF Settle
<1>2. Consensus(Sha(p)) \in Claims \cup Digests
  BY ShaType DEF Consensus, Digests
<1> QED BY <1>1, <1>2, SendAuditStep DEF Settles

\* p has reported the game, and whether the claim it heard was its own result.
Reports(p, q, agreed) ==
  /\ pc[p] = "audit" /\ agreed \in BOOLEAN
  /\ reports'[p] = Append(reports[p], [outcome |-> result[p], agreed |-> agreed])
  /\ IF game[p] < Games THEN game'[p] = game[p] + 1 /\ pc'[p] = "greet"
                        ELSE game'[p] = game[p] /\ pc'[p] = "settle"
  /\ step'[p] = step[p] /\ inbox'[p] = inbox[p] /\ ready'[p] = ready[p]
  /\ result'[p] = result[p] /\ heard'[p] = heard[p]
  /\ mail'[q] = mail[q] /\ mail'[p].agreements = mail[p].agreements
  /\ mail'[p].turns = <<>>
  /\ ToSet(mail'[p].audits) \subseteq ToSet(mail[p].audits)
  /\ Sorted(p, peerSha'[p], mail'[p].audits)
  /\ UNCHANGED <<conceded, survived>>

\* A report that leaves the audits s and the digest sha.
Leaving(p, claim, s, sha) ==
  /\ pc[p] = "audit" /\ Report(p, claim)
  /\ s \in Seq(Claims \cup Digests) /\ Sorted(p, sha, s)
  /\ ToSet(s) \subseteq ToSet(mail[p].audits)
  /\ mail' = [mail EXCEPT ![p] = [@ EXCEPT !.audits = s, !.turns = <<>>]]
  /\ peerSha' = [peerSha EXCEPT ![p] = sha]
  /\ faults' \in FaultTypes
  /\ faults.timeouts <= faults'.timeouts /\ faults.crashes <= faults'.crashes
  /\ faults.overtaken <= faults'.overtaken

LEMMA ReportStep ==
  ASSUME TypeInv, NEW p, NEW q, Pair(p, q), LocalInv(p),
         NEW claim, NEW s, NEW sha, Leaving(p, claim, s, sha)
  PROVE  Steps(q) /\ Reports(p, q, claim = result[p])
<1> USE DEF Pair, Leaving
<1> DEFINE row == [outcome |-> result[p], agreed |-> claim = result[p]]
<1>1. result[p] \in Outcomes
  BY DEF LocalInv, TypeInv
<1>2. row \in Rows
  BY <1>1 DEF Rows
<1>3. /\ reports' = [reports EXCEPT ![p] = Append(@, row)]
      /\ UNCHANGED <<step, inbox, ready, result, heard, conceded, survived>>
  BY DEF Report
<1>4. PICK rs \in Seq(Rows) : /\ rs = Append(reports[p], row)
                              /\ reports' = [reports EXCEPT ![p] = rs]
  <2>1. reports[p] \in Seq(Rows)
    BY DEF TypeInv
  <2>2. Append(reports[p], row) \in Seq(Rows)
    <3> HIDE DEF row
    <3> QED BY <1>2, <2>1
  <2> QED BY <1>3, <2>2
<1>5. PICK g \in 1..Games, x \in {"greet", "settle"} :
        /\ game' = [game EXCEPT ![p] = g] /\ pc' = [pc EXCEPT ![p] = x]
        /\ IF game[p] < Games THEN g = game[p] + 1 /\ x = "greet"
                              ELSE g = game[p] /\ x = "settle"
  <2>1. game[p] \in 1..Games /\ Games \in Nat
    BY SeriesAssumption DEF TypeInv
  <2>2. CASE game[p] < Games
    <3>1. game[p] + 1 \in 1..Games
      BY <2>1, <2>2
    <3> QED BY <2>2, <3>1 DEF Report
  <2>3. CASE ~(game[p] < Games)
    <3>1. game = [game EXCEPT ![p] = game[p]]
      BY DEF TypeInv
    <3> QED BY <2>1, <2>3, <3>1 DEF Report
  <2> QED BY <2>2, <2>3
<1>6. sha \in Seq(Outcomes) \cup {None}
  BY SortedType
<1>7. MailTypeInv'
  <2>1. MailTypeInv
    BY DEF TypeInv, MailTypeInv
  <2>2. <<>> \in Seq(Turns)
    OBVIOUS
  <2> QED BY <2>1, <2>2 DEF MailTypeInv
<1>8. TypeInv'
  <2>1. reports' \in [Peers -> Seq(Rows)] /\ peerSha' \in [Peers -> Seq(Outcomes) \cup {None}]
    BY <1>4, <1>6 DEF TypeInv
  <2>2. /\ game' \in [Peers -> 1..Games]
        /\ pc' \in [Peers -> {"greet", "meet", "open", "play", "audit", "settle",
                            "settling", "done", "aborted", "crashed"}]
    BY <1>5 DEF TypeInv
  <2> QED BY <1>3, <1>7, <2>1, <2>2 DEF TypeInv, MailTypeInv
<1>9. Grows
  BY <1>3 DEF Grows
<1>10. /\ mail'[q] = mail[q] /\ mail'[p].agreements = mail[p].agreements
       /\ mail'[p].turns = <<>> /\ mail'[p].audits = s
       /\ peerSha'[p] = sha /\ peerSha'[q] = peerSha[q]
  BY DEF TypeInv
<1>11. /\ reports'[p] = rs /\ game'[p] = g /\ pc'[p] = x
       /\ reports'[q] = reports[q] /\ game'[q] = game[q] /\ pc'[q] = pc[q]
  BY <1>4, <1>5 DEF TypeInv
<1>12. Keeps(q)
  BY <1>3, <1>10, <1>11 DEF Keeps
<1>13. Reports(p, q, claim = result[p])
  BY <1>3, <1>4, <1>5, <1>10, <1>11 DEF Reports
<1> QED BY <1>8, <1>9, <1>12, <1>13 DEF Steps

\* What the audit said is known early, read from the mailbox, or not heard at all.
HearsEarly(p, q) == heard[p] # None /\ Reports(p, q, heard[p] = result[p])

HearsNow(p, q) ==
  /\ heard[p] = None
  /\ \E a \in AuditClaims(p) : a.game = game[p] /\ Reports(p, q, a.claim = result[p])

HearsNothing(p, q) ==
  heard[p] = None /\ ~HasAudit(p) /\ Expired(q) /\ Reports(p, q, FALSE)

LEMMA FaultsUnchanged ==
  ASSUME TypeInv, UNCHANGED faults
  PROVE  /\ faults' \in FaultTypes
         /\ faults.timeouts <= faults'.timeouts /\ faults.crashes <= faults'.crashes
         /\ faults.overtaken <= faults'.overtaken
<1>1. faults.timeouts \in 0..MaxTimeouts /\ faults.crashes \in Nat /\ faults.overtaken \in Nat
  BY DEF TypeInv, FaultTypes
<1>2. /\ faults.timeouts <= faults.timeouts /\ faults.crashes <= faults.crashes
      /\ faults.overtaken <= faults.overtaken
  BY <1>1
<1> QED BY <1>2 DEF TypeInv

LEMMA HearEarlierStep ==
  ASSUME TypeInv, NEW p, NEW q, Pair(p, q), LocalInv(p), HearEarlier(p)
  PROVE  Steps(q) /\ HearsEarly(p, q)
<1> USE DEF Pair
<1>1. /\ pc[p] = "audit" /\ heard[p] # None /\ Report(p, heard[p])
      /\ mail' = [mail EXCEPT ![p].turns = <<>>] /\ UNCHANGED <<peerSha, faults>>
  BY DEF HearEarlier
<1>2. mail[p].audits \in Seq(Claims \cup Digests)
  BY DEF TypeInv
<1>3. mail' = [mail EXCEPT ![p] = [@ EXCEPT !.audits = mail[p].audits, !.turns = <<>>]]
  <2>1. mail[p] = [agreements |-> mail[p].agreements, turns |-> mail[p].turns,
                   audits |-> mail[p].audits, late |-> mail[p].late]
    BY DEF TypeInv
  <2>2. [mail[p] EXCEPT !.turns = <<>>] =
          [mail[p] EXCEPT !.audits = mail[p].audits, !.turns = <<>>]
    BY <2>1
  <2> QED BY <1>1, <2>2
<1>4. Sorted(p, peerSha[p], mail[p].audits)
  BY DEF Sorted, DigestsTo
<1>5. peerSha' = [peerSha EXCEPT ![p] = peerSha[p]]
  BY <1>1 DEF TypeInv
<1>6. Leaving(p, heard[p], mail[p].audits, peerSha[p])
  BY <1>1, <1>2, <1>3, <1>4, <1>5, FaultsUnchanged DEF Leaving
<1> QED BY <1>1, <1>6, ReportStep DEF HearsEarly

LEMMA HearAuditStep ==
  ASSUME TypeInv, NEW p, NEW q, Pair(p, q), LocalInv(p), HearAudit(p)
  PROVE  Steps(q) /\ HearsNow(p, q)
<1> USE DEF Pair
<1> DEFINE sha == Deferred(p, SubSeq(mail[p].audits, 1, AuditAt(p)))
<1>1. /\ pc[p] = "audit" /\ heard[p] = None /\ AuditAt(p) # 0
      /\ mail' = [mail EXCEPT ![p] = [@ EXCEPT !.audits = AbsorbedMail(p), !.turns = <<>>]]
      /\ peerSha' = [peerSha EXCEPT ![p] = sha]
      /\ Report(p, AbsorbedClaim(p)) /\ UNCHANGED faults
  BY DEF HearAudit
<1>2. PICK a \in AuditClaims(p) : a.game = game[p] /\ AbsorbedClaim(p) = a.claim
  BY <1>1, AuditPlace DEF AbsorbedClaim
<1>3. /\ AbsorbedMail(p) \in Seq(Claims \cup Digests)
      /\ ToSet(AbsorbedMail(p)) \subseteq ToSet(mail[p].audits)
      /\ Sorted(p, sha, AbsorbedMail(p))
  BY <1>1, Absorbed
<1>4. Leaving(p, a.claim, AbsorbedMail(p), sha)
  BY <1>1, <1>2, <1>3, FaultsUnchanged DEF Leaving
<1>5. Steps(q) /\ Reports(p, q, a.claim = result[p])
  BY <1>4, ReportStep
<1> QED BY <1>1, <1>2, <1>5 DEF HearsNow

LEMMA AuditTimeoutStep ==
  ASSUME TypeInv, NEW p, NEW q, Pair(p, q), LocalInv(p), AuditTimeout(p)
  PROVE  Steps(q) /\ HearsNothing(p, q)
<1> USE DEF Pair
<1> DEFINE sha == Deferred(p, mail[p].audits)
<1>1. /\ pc[p] = "audit" /\ heard[p] = None /\ AuditAt(p) = 0 /\ Expires(p)
      /\ mail' = [mail EXCEPT ![p] = [@ EXCEPT !.audits = <<>>, !.turns = <<>>]]
      /\ peerSha' = [peerSha EXCEPT ![p] = sha]
      /\ Report(p, None)
  BY DEF AuditTimeout
<1>2. ~HasAudit(p) /\ AbsorbedMail(p) = <<>>
  BY <1>1, AuditPlace DEF AbsorbedMail
<1>3. /\ <<>> \in Seq(Claims \cup Digests)
      /\ ToSet(<<>>) \subseteq ToSet(mail[p].audits)
      /\ Sorted(p, sha, <<>>)
  BY <1>2, Absorbed
<1>4. Leaving(p, None, <<>>, sha)
  BY <1>1, <1>3, Expiry DEF Leaving
<1>5. Steps(q) /\ Reports(p, q, None = result[p])
  BY <1>4, ReportStep
<1>6. (None = result[p]) = FALSE
  BY <1>1 DEF LocalInv
<1> QED BY <1>1, <1>2, <1>5, <1>6, Expiry DEF HearsNothing

\* p is done, with the opponent's digest or without.
Ends(p, q) ==
  /\ pc[p] = "settling" /\ pc'[p] = "done"
  /\ game'[p] = game[p] /\ step'[p] = step[p] /\ inbox'[p] = inbox[p]
  /\ ready'[p] = ready[p] /\ result'[p] = result[p] /\ heard'[p] = heard[p]
  /\ reports'[p] = reports[p]
  /\ mail'[q] = mail[q] /\ mail'[p].agreements = mail[p].agreements
  /\ mail'[p].turns = mail[p].turns
  /\ ToSet(mail'[p].audits) \subseteq ToSet(mail[p].audits)
  /\ Sorted(p, peerSha'[p], mail'[p].audits)
  /\ \/ peerSha[p] # None /\ peerSha'[p] = peerSha[p]
     \/ \E a \in DigestsTo(p) : peerSha'[p] = a.sha
     \/ DigestsTo(p) = {} /\ peerSha[p] = None /\ Expired(q)
  /\ UNCHANGED <<conceded, survived>>

LEMMA TakeConsensusStep ==
  ASSUME TypeInv, NEW p, NEW q, Pair(p, q), TakeConsensus(p)
  PROVE  Steps(q) /\ Ends(p, q)
<1> USE DEF Pair
<1>1. /\ pc[p] = "settling" /\ pc' = [pc EXCEPT ![p] = "done"]
      /\ UNCHANGED <<game, step, inbox, ready, result, heard, reports, faults,
                     conceded, survived>>
  BY DEF TakeConsensus
<1>2. Grows
  BY <1>1, GrowsUnchanged
<1>3. CASE peerSha[p] # None /\ UNCHANGED <<peerSha, mail>>
  <2>1. TypeInv'
    BY <1>1, <1>3 DEF TypeInv
  <2>2. Sorted(p, peerSha[p], mail[p].audits)
    BY DEF Sorted, DigestsTo
  <2>3. Keeps(q) /\ pc'[p] = "done"
    BY <1>1, <1>3 DEF Keeps, TypeInv
  <2> QED BY <1>1, <1>2, <1>3, <2>1, <2>2, <2>3 DEF Steps, Ends
<1>4. CASE /\ peerSha[p] = None /\ ConsensusAt(p) # 0
           /\ peerSha' = [peerSha EXCEPT ![p] = mail[p].audits[ConsensusAt(p)].sha]
           /\ mail' = [mail EXCEPT ![p].audits = SubSeq(@, ConsensusAt(p) + 1, Len(@))]
  <2> DEFINE s == mail[p].audits  k == ConsensusAt(p)  S == Claims \cup Digests
  <2>1. s \in Seq(S) /\ k \in 0..Len(s)
    <3>1. s \in Seq(S) /\ Len(s) \in Nat
      BY DEF TypeInv
    <3>2. k \in 1..Len(s)
      BY <1>4, ConsensusPlace
    <3> HIDE DEF s, k, S
    <3> QED BY <3>1, <3>2
  <2>2. /\ SubSeq(s, k + 1, Len(s)) \in Seq(S)
        /\ ToSet(SubSeq(s, k + 1, Len(s))) \subseteq ToSet(s)
    <3> HIDE DEF s, k, S
    <3> QED BY <2>1, Cut
  <2>3. PICK a \in DigestsTo(p) : a = s[k]
    BY <1>4, ConsensusPlace
  <2>4. PICK r \in Seq(S) : /\ ToSet(r) \subseteq ToSet(s)
                            /\ mail' = [mail EXCEPT ![p].audits = r]
    BY <1>4, <2>2
  <2>5. /\ mail'[q] = mail[q] /\ mail'[p].agreements = mail[p].agreements
        /\ mail'[p].turns = mail[p].turns /\ mail'[p].audits = r
    BY <2>4 DEF TypeInv
  <2>6. MailTypeInv'
    <3>1. MailTypeInv
      BY DEF TypeInv, MailTypeInv
    <3> QED BY <2>4, <3>1 DEF MailTypeInv
  <2>7. peerSha' = [peerSha EXCEPT ![p] = a.sha] /\ peerSha'[p] = a.sha
    BY <1>4, <2>3 DEF TypeInv
  <2>8. Sorted(p, a.sha, r)
    BY <2>3 DEF Sorted
  <2>9. peerSha' \in [Peers -> Seq(Outcomes) \cup {None}]
    <3>1. a.sha \in Seq(Outcomes) \cup {None}
      BY <2>8, SortedType
    <3> QED BY <2>7, <3>1 DEF TypeInv
  <2>10. TypeInv'
    BY <1>1, <2>6, <2>9 DEF TypeInv, MailTypeInv
  <2>11. Keeps(q) /\ pc'[p] = "done"
    BY <1>1, <2>7 DEF Keeps, TypeInv
  <2>12. Ends(p, q)
    BY <1>1, <2>3, <2>4, <2>5, <2>7, <2>8, <2>11 DEF Ends
  <2> QED BY <1>2, <2>10, <2>11, <2>12 DEF Steps
<1> QED BY <1>3, <1>4 DEF TakeConsensus

LEMMA ConsensusTimeoutStep ==
  ASSUME TypeInv, NEW p, NEW q, Pair(p, q), ConsensusTimeout(p)
  PROVE  Steps(q) /\ Ends(p, q)
<1> USE DEF Pair
<1>1. /\ pc[p] = "settling" /\ peerSha[p] = None /\ ConsensusAt(p) = 0 /\ Expires(p)
      /\ pc' = [pc EXCEPT ![p] = "done"]
      /\ UNCHANGED <<game, step, inbox, ready, result, heard, reports, peerSha, mail,
                     conceded, survived>>
  BY DEF ConsensusTimeout
<1>2. DigestsTo(p) = {}
  BY <1>1, ConsensusPlace
<1>3. TypeInv'
  <2>1. faults' \in FaultTypes
    BY <1>1, Expiry
  <2> QED BY <1>1, <2>1 DEF TypeInv
<1>4. Grows
  BY <1>1, Expiry DEF Grows
<1>5. Keeps(q) /\ pc'[p] = "done"
  BY <1>1 DEF TypeInv, Keeps
<1>6. Sorted(p, peerSha[p], mail[p].audits)
  BY DEF Sorted, DigestsTo
<1>7. Expired(q)
  BY <1>1, Expiry
<1>8. Ends(p, q)
  BY <1>1, <1>2, <1>5, <1>6, <1>7 DEF Ends
<1> QED BY <1>3, <1>4, <1>5, <1>8 DEF Steps

-----------------------------------------------------------------------------
(* How far apart the peers are. *)

LEMMA Pace ==
  ASSUME TypeInv, NEW p, NEW q, Pair(p, q),
         LocalInv(p), LocalInv(q), PairInv(p), PairInv(q)
  PROVE  /\ Alive(p) => Same(p) \/ Ahead(p) \/ Ahead(q)
         /\ Alive(p) /\ InGame(p) => ~Ahead(p)
         /\ Same(p) => /\ game[p] = game[q] /\ (Over(p) <=> Over(q))
                       /\ InGame(p) => pc[q] \in {"meet", "open", "play", "audit"}
<1> USE DEF Pair
<1>1. /\ game[p] \in 1..Games /\ game[q] \in 1..Games /\ Games \in Nat
      /\ Count(p) \in Nat /\ Count(q) \in Nat /\ Len(mail[p].agreements) \in Nat
      /\ Len(mail[q].agreements) \in Nat
      /\ pc[p] \in {"greet", "meet", "open", "play", "audit", "settle",
                    "settling", "done", "aborted", "crashed"}
      /\ pc[q] \in {"greet", "meet", "open", "play", "audit", "settle",
                    "settling", "done", "aborted", "crashed"}
  <2>1. reports[p] \in Seq(Rows) /\ reports[q] \in Seq(Rows)
    BY DEF TypeInv
  <2>2. mail[p].agreements \in Seq(1..Games) /\ mail[q].agreements \in Seq(1..Games)
    BY DEF TypeInv
  <2>3. /\ Count(p) \in Nat /\ Count(q) \in Nat /\ Len(mail[p].agreements) \in Nat
        /\ Len(mail[q].agreements) \in Nat
    BY <2>1, <2>2 DEF Count
  <2> QED BY <2>3, SeriesAssumption DEF TypeInv
<1>2. Alive(p) =>
        /\ Count(p) = IF Over(p) THEN Games ELSE game[p] - 1
        /\ Count(q) = IF Over(q) THEN Games ELSE game[q] - 1
        /\ Over(p) => game[p] = Games
        /\ Over(q) => game[q] = Games
        /\ pc[p] \notin {"aborted", "crashed"} /\ pc[q] \notin {"aborted", "crashed"}
  BY DEF LocalInv, Alive, Gone
<1>3. Alive(p) => /\ Greeted(q) - Met(p) \in Nat /\ Greeted(p) - Met(q) \in Nat
                  /\ Count(p) <= Count(q) + 1 /\ Count(q) <= Count(p) + 1
  BY <1>1 DEF PairInv, GreetingsInv, PaceInv, Alive
<1>4. Alive(p) => Same(p) \/ Ahead(p) \/ Ahead(q)
  BY <1>1, <1>3 DEF Same, Ahead, Alive
<1>5. Alive(p) /\ InGame(p) => ~Ahead(p)
  <2> SUFFICES ASSUME Alive(p), InGame(p), Ahead(p) PROVE FALSE
    OBVIOUS
  <2>1. Met(p) = game[p] /\ Count(p) = game[p] - 1
    BY <1>2 DEF Met, Fresh, InGame, Over
  <2>2. Greeted(q) <= game[q] /\ Greeted(q) \in Int
    BY <1>1 DEF Greeted
  <2>3. game[p] <= game[q]
    BY <1>1, <1>3, <2>1, <2>2
  <2>4. Count(p) = Count(q) + 1
    BY DEF Ahead
  <2>5. CASE Over(q)
    <3>1. Count(q) = Games
      BY <1>2, <2>5
    <3> QED BY <1>1, <2>1, <2>4, <3>1
  <2>6. CASE ~Over(q)
    <3>1. Count(q) = game[q] - 1
      BY <1>2, <2>6
    <3> QED BY <1>1, <2>1, <2>3, <2>4, <3>1
  <2> QED BY <2>5, <2>6
<1>6. Same(p) => game[p] = game[q] /\ (Over(p) <=> Over(q))
  BY <1>1, <1>2 DEF Same
<1>7. Same(p) /\ InGame(p) => pc[q] \in {"meet", "open", "play", "audit"}
  <2> SUFFICES ASSUME Same(p), InGame(p) PROVE pc[q] \in {"meet", "open", "play", "audit"}
    OBVIOUS
  <2>1. Alive(p)
    BY DEF Same
  <2>2. Met(p) = game[p] /\ ~Over(p)
    BY DEF Met, Fresh, InGame, Over
  <2>3. pc[q] # "greet"
    <3>1. pc[q] = "greet" => Greeted(q) = game[q] - 1
      BY DEF Greeted
    <3> QED BY <1>1, <1>3, <1>6, <2>1, <2>2, <3>1
  <2>4. ~Over(q)
    BY <1>6, <2>2
  <2> QED BY <1>1, <1>2, <2>1, <2>3, <2>4 DEF Over
<1> QED BY <1>4, <1>5, <1>6, <1>7

LEMMA Symmetry ==
  ASSUME NEW p, NEW q, Pair(p, q)
  PROVE  /\ Alive(p) <=> Alive(q)
         /\ Same(p) <=> Same(q)
BY DEF Pair, Alive, Same

LEMMA LocalOther ==
  ASSUME NEW p, NEW q, Pair(p, q), Keeps(q), LocalInv(q)
  PROVE  LocalInv(q)'
BY DEF Keeps, LocalInv, Gone, Over, InGame, Playing, Count

\* All that a step of p can be.
Effect(p, q) ==
  \/ /\ Leaves(p)
     /\ \/ ~Faultless' \/ ~Reachable(q)
        \/ pc[p] = "meet" /\ mail[p].agreements = <<>> /\ Expired(q)
  \/ Greets(p, q) \/ Meets(p, q)
  \/ \E m : Moves(p, q, m)
  \/ Hears(p)
  \/ Polls(p, q) /\ Adopts(p)
  \/ Polls(p, q) /\ Listens(p)
  \/ TimesOut(p) /\ Expired(q)
  \/ Closes(p, q) \/ Settles(p, q)
  \/ HearsEarly(p, q) \/ HearsNow(p, q) \/ HearsNothing(p, q)
  \/ Ends(p, q)

LEMMA StepHasEffect ==
  ASSUME "agreements" \notin Duplicable, TypeInv, NEW p, NEW q, Pair(p, q),
         LocalInv(p), StreamInv(p), Work(p) \/ Timers(p) \/ Crash(p)
  PROVE  Steps(q) /\ Effect(p, q)
<1>1. ASSUME Work(p) PROVE Steps(q) /\ Effect(p, q)
  <2>1. CASE Greet(p)
    BY <2>1, GreetStep DEF Effect
  <2>2. CASE Meet(p)
    BY <2>2, MeetStep DEF Effect
  <2>3. CASE Open(p)
    BY <2>3, OpenStep DEF Effect
  <2>4. CASE PollTurn(p)
    BY <2>4, PollTurnStep DEF Effect
  <2>5. CASE PollNothing(p)
    BY <2>5, PollNothingStep DEF Effect
  <2>6. CASE Process(p)
    BY <2>6, ProcessStep DEF Effect
  <2>7. CASE Close(p)
    BY <2>7, CloseStep DEF Effect
  <2>8. CASE HearEarlier(p)
    BY <2>8, HearEarlierStep DEF Effect
  <2>9. CASE HearAudit(p)
    BY <2>9, HearAuditStep DEF Effect
  <2>10. CASE Settle(p)
    BY <2>10, SettleStep DEF Effect
  <2>11. CASE TakeConsensus(p)
    BY <2>11, TakeConsensusStep DEF Effect
  <2> QED BY <1>1, <2>1, <2>2, <2>3, <2>4, <2>5, <2>6, <2>7, <2>8, <2>9, <2>10, <2>11 DEF Work
<1>2. ASSUME Timers(p) PROVE Steps(q) /\ Effect(p, q)
  <2>1. CASE MeetTimeout(p)
    BY <2>1, MeetTimeoutStep DEF Effect
  <2>2. CASE TurnTimeout(p)
    BY <2>2, TurnTimeoutStep DEF Effect
  <2>3. CASE AuditTimeout(p)
    BY <2>3, AuditTimeoutStep DEF Effect
  <2>4. CASE ConsensusTimeout(p)
    BY <2>4, ConsensusTimeoutStep DEF Effect
  <2> QED BY <1>2, <2>1, <2>2, <2>3, <2>4 DEF Timers
<1>3. ASSUME Crash(p) PROVE Steps(q) /\ Effect(p, q)
  BY <1>3, CrashStep DEF Effect
<1> QED BY <1>1, <1>2, <1>3

-----------------------------------------------------------------------------
(* LocalInv. *)

LEMMA LocalSelf ==
  ASSUME TypeInv, TypeInv', NEW p, NEW q, Pair(p, q), LocalInv(p), Effect(p, q)
  PROVE  LocalInv(p)'
<1> USE DEF Pair, LocalInv, Gone, Over, InGame, Playing, Count
<1>0. /\ step[p] \in Nat /\ game[p] \in 1..Games /\ Games \in Nat
      /\ ready[p] \in Seq(Turns) /\ Len(reports[p]) \in Nat
  <2>1. reports[p] \in Seq(Rows)
    BY DEF TypeInv
  <2> QED BY <2>1, SeriesAssumption DEF TypeInv
<1>1. CASE Leaves(p)
  BY <1>1 DEF Leaves
<1>2. CASE Greets(p, q)
  BY <1>2 DEF Greets
<1>3. CASE Meets(p, q)
  <2>1. EmptyInbox.next = 1 /\ InOrder(EmptyInbox, game[p])
    <3>1. DOMAIN EmptyInbox.played = {} /\ DOMAIN EmptyInbox.buffered = {}
      BY DEF EmptyInbox
    <3>2. EmptyInbox.next = 1 /\ 1..1 - 1 = {}
      BY DEF EmptyInbox
    <3> QED BY <3>1, <3>2 DEF InOrder
  <2>2. Role(p, game[p]) \in {"police", "thief"}
    BY DEF Role
  <2>3. ready[p] = <<>> /\ Len(ready[p]) = 0
    BY <1>3 DEF Meets
  <2> QED BY <1>3, <2>1, <2>2, <2>3 DEF Meets
<1>4. ASSUME NEW m, Moves(p, q, m) PROVE LocalInv(p)'
  <2>1. /\ pc'[p] = "play" /\ game'[p] = game[p] /\ inbox'[p] = inbox[p]
        /\ heard'[p] = heard[p] /\ reports'[p] = reports[p]
        /\ step'[p] = step[p] + 1 /\ ready'[p] = <<>> /\ result[p] = None
    BY <1>4 DEF Moves
  <2>2. heard[p] = None
    BY <1>4, <2>1 DEF Moves
  <2>3. InOrder(inbox[p], game[p]) /\ inbox[p].next \in Nat
    BY <1>4 DEF Moves, InOrder
  <2>4. step'[p] = inbox[p].next - 1 + (IF Role(p, game[p]) = "thief" THEN 1 ELSE 0)
    <3>1. CASE pc[p] = "open"
      BY <2>1, <3>1
    <3>2. CASE pc[p] = "play"
      <4>1. /\ Len(ready[p]) = 1
            /\ step[p] = inbox[p].next - 1 - Len(ready[p])
                           + (IF Role(p, game[p]) = "thief" THEN 1 ELSE 0)
        BY <1>4, <2>1, <3>2 DEF Moves
      <4>2. CASE Role(p, game[p]) = "thief"
        BY <2>1, <2>3, <4>1, <4>2
      <4>3. CASE Role(p, game[p]) # "thief"
        BY <2>1, <2>3, <4>1, <4>3
      <4> QED BY <4>2, <4>3
    <3> QED BY <1>4, <3>1, <3>2 DEF Moves
  <2>5. Len(<<>>) = 0
    OBVIOUS
  <2>6. Role(p, game[p])' = Role(p, game[p])
    BY <2>1 DEF Role
  <2>7. step'[p] = inbox'[p].next - 1 - Len(ready'[p])
                     + (IF Role(p, game'[p]) = "thief" THEN 1 ELSE 0)
    BY <2>1, <2>3, <2>4, <2>5, <2>6
  <2> QED BY <1>4, <2>1, <2>2, <2>3, <2>7 DEF Moves
<1>5. CASE Hears(p)
  <2>1. ready[p][1] \in Turns
    BY <1>0, <1>5 DEF Hears
  <2>2. result'[p] # None
    BY <1>5, <2>1, NoneAssumption DEF Hears, Says, Final, Turns, Outcomes
  <2>3. heard[p] = None
    BY <1>5 DEF Hears
  <2> QED BY <1>5, <2>2, <2>3 DEF Hears
<1>6. CASE Polls(p, q) /\ Adopts(p)
  <2>1. result'[p] = heard'[p] /\ result'[p] # None
    <3>1. PICK a \in AuditClaims(p) : result'[p] = a.claim /\ heard'[p] = a.claim
      BY <1>6 DEF Adopts
    <3>2. a.claim \in Outcomes
      BY AuditTypes
    <3> QED BY <3>1, <3>2, NoneAssumption
  <2> QED BY <1>6, <2>1 DEF Polls, Adopts
<1>7. CASE Polls(p, q) /\ Listens(p)
  <2>1. /\ pc[p] = "play" /\ result[p] = None /\ ready[p] = <<>> /\ Len(<<>>) = 0
        /\ game'[p] = game[p] /\ pc'[p] = pc[p] /\ step'[p] = step[p]
        /\ reports'[p] = reports[p] /\ result'[p] = result[p] /\ heard'[p] = heard[p]
    BY <1>7 DEF Polls, Listens
  <2>2. CASE inbox'[p] = inbox[p] /\ ready'[p] = ready[p]
    BY <2>1, <2>2 DEF Role
  <2>3. CASE /\ mail[p].turns # <<>> /\ mail[p].turns[1].step = inbox[p].next
             /\ ready'[p] = <<mail[p].turns[1]>>
             /\ InOrder(inbox'[p], game[p])
             /\ inbox'[p].next = inbox[p].next + 1
    <3>1. Len(ready'[p]) = 1 /\ ready'[p][1] = mail[p].turns[1]
      BY <2>3
    <3>2. inbox[p].next \in Nat
      BY <2>1 DEF InOrder
    <3>3. ready'[p][1].step = inbox'[p].next - 1
      BY <2>3, <3>1, <3>2
    <3>4. step'[p] = inbox'[p].next - 1 - Len(ready'[p])
                       + (IF Role(p, game'[p]) = "thief" THEN 1 ELSE 0)
      <4>1. step[p] = inbox[p].next - 1 - 0
                        + (IF Role(p, game[p]) = "thief" THEN 1 ELSE 0)
        BY <2>1
      <4>2. inbox[p].next - 1 - 0 = inbox'[p].next - 1 - 1
        BY <2>3, <3>2
      <4> QED BY <2>1, <3>1, <4>1, <4>2
    <3> QED BY <2>1, <2>3, <3>1, <3>3, <3>4
  <2> QED BY <1>7, <2>2, <2>3 DEF Listens
<1>8. CASE TimesOut(p) /\ Expired(q)
  BY <1>8, NoneAssumption DEF TimesOut, Outcomes
<1>9. CASE Closes(p, q)
  BY <1>9 DEF Closes, Sends
<1>10. CASE Settles(p, q)
  BY <1>10 DEF Settles, Sends
<1>11. ASSUME NEW agreed, Reports(p, q, agreed) PROVE LocalInv(p)'
  <2> DEFINE row == [outcome |-> result[p], agreed |-> agreed]
  <2>1. Len(reports'[p]) = Len(reports[p]) + 1
    <3>1. reports'[p] = Append(reports[p], row) /\ result[p] \in Outcomes
      BY <1>11 DEF Reports, TypeInv
    <3>2. row \in Rows /\ reports[p] \in Seq(Rows)
      BY <1>11, <3>1 DEF Reports, Rows, TypeInv
    <3> HIDE DEF row
    <3> QED BY <3>1, <3>2
  <2>2. Len(reports[p]) = game[p] - 1 /\ ready[p] = <<>>
    BY <1>11 DEF Reports
  <2>3. CASE game[p] < Games
    BY <1>0, <1>11, <2>1, <2>2, <2>3, SMTT(30) DEF Reports
  <2>4. CASE ~(game[p] < Games)
    <3>1. game[p] = Games
      BY <1>0, <2>4
    <3> QED BY <1>0, <1>11, <2>1, <2>2, <2>4, <3>1 DEF Reports
  <2> QED BY <2>3, <2>4
<1>12. CASE Ends(p, q)
  BY <1>12 DEF Ends
<1>13. CASE HearsEarly(p, q) \/ HearsNow(p, q) \/ HearsNothing(p, q)
  BY <1>11, <1>13 DEF HearsEarly, HearsNow, HearsNothing
<1> QED BY <1>1, <1>2, <1>3, <1>4, <1>5, <1>6, <1>7, <1>8, <1>9, <1>10, <1>12, <1>13 DEF Effect

-----------------------------------------------------------------------------
(* ClaimInv. *)

\* The state before a step of p, and what every such step does.
Acting(p, q) ==
  /\ TypeInv /\ TypeInv' /\ Pair(p, q) /\ Keeps(q) /\ Grows
  /\ Half(p) /\ Half(q) /\ Effect(p, q)

\* Most steps leave the reports and the game alone, and come from no peer that
\* awaits an audit.
Works(p) ==
  /\ pc[p] \notin {"audit", "done", "aborted", "crashed"}
  /\ pc'[p] \notin {"aborted", "crashed"}
  /\ game'[p] = game[p] /\ reports'[p] = reports[p]

LEMMA Kinds ==
  ASSUME NEW p, NEW q, Pair(p, q), Effect(p, q)
  PROVE  Leaves(p) \/ Works(p) \/ \E agreed \in BOOLEAN : Reports(p, q, agreed)
<1>1. CASE Greets(p, q) \/ Meets(p, q)
  BY <1>1 DEF Greets, Meets, Works
<1>2. CASE \E m : Moves(p, q, m)
  BY <1>2 DEF Moves, Works
<1>3. CASE Hears(p) \/ Polls(p, q) \/ TimesOut(p)
  BY <1>3 DEF Hears, Polls, TimesOut, Works
<1>4. CASE Closes(p, q) \/ Settles(p, q) \/ Ends(p, q)
  BY <1>4 DEF Closes, Settles, Sends, Ends, Works
<1>5. CASE HearsEarly(p, q) \/ HearsNow(p, q) \/ HearsNothing(p, q)
  BY <1>5 DEF HearsEarly, HearsNow, HearsNothing, Reports
<1> QED BY <1>1, <1>2, <1>3, <1>4, <1>5 DEF Effect

LEMMA RowAdded ==
  ASSUME TypeInv, TypeInv', NEW p, NEW q, Pair(p, q), LocalInv(p),
         NEW agreed \in BOOLEAN, Reports(p, q, agreed)
  PROVE  /\ Count(p) = game[p] - 1 /\ Count(p)' = game[p] /\ Count(p) \in Nat
         /\ game[p] \in 1..Games
         /\ Reported(p) = 1..Count(p) /\ Reported(p)' = 1..game[p]
         /\ \A n \in Reported(p) : reports'[p][n] = reports[p][n]
         /\ reports'[p][game[p]].outcome = result[p]
         /\ reports'[p][game[p]].agreed = agreed
<1> DEFINE row == [outcome |-> result[p], agreed |-> agreed]
           s == reports[p]
<1>1. s \in Seq(Rows) /\ game[p] \in 1..Games /\ game[p] \in Int
  BY DEF TypeInv, Pair
<1>2. reports'[p] = Append(s, row) /\ pc[p] = "audit"
  BY DEF Reports
<1>3. Len(s) = game[p] - 1
  BY <1>2 DEF LocalInv, Gone, Over, Count
<1>4. row.outcome = result[p] /\ row.agreed = agreed
  OBVIOUS
<1>5. row \in Rows
  BY <1>2 DEF Rows, LocalInv, TypeInv, Pair
<1>6. /\ Len(Append(s, row)) = Len(s) + 1 /\ Len(s) \in Nat /\ DOMAIN s = 1..Len(s)
      /\ DOMAIN Append(s, row) = 1..Len(s) + 1
      /\ Append(s, row)[Len(s) + 1] = row
      /\ \A n \in 1..Len(s) : Append(s, row)[n] = s[n]
  <2> HIDE DEF row, s
  <2> QED BY <1>1, <1>5
<1>7. Len(s) + 1 = game[p]
  BY <1>1, <1>3
<1> HIDE DEF row
<1> QED BY <1>1, <1>2, <1>3, <1>4, <1>6, <1>7 DEF Count, Reported

\* What a peer has claimed it will report, and goes on claiming.
LEMMA ClaimsStay ==
  ASSUME TypeInv, TypeInv', NEW p, NEW q, Pair(p, q), LocalInv(p), Effect(p, q),
         NEW n \in Nat, NEW c, Claimed(p, n, c)
  PROVE  Claimed(p, n, c)'
<1>1. CASE Leaves(p)
  BY <1>1 DEF Leaves, Running, Claimed, Count, Reported
<1>2. CASE Works(p)
  BY <1>2 DEF Works, Claimed, Count, Reported
<1>3. ASSUME NEW agreed \in BOOLEAN, Reports(p, q, agreed) PROVE Claimed(p, n, c)'
  <2>1. /\ Count(p) = game[p] - 1 /\ Count(p)' = game[p] /\ Count(p) \in Nat
        /\ game[p] \in 1..Games
        /\ Reported(p) = 1..Count(p) /\ Reported(p)' = 1..game[p]
        /\ \A k \in Reported(p) : reports'[p][k] = reports[p][k]
        /\ reports'[p][game[p]].outcome = result[p]
    BY <1>3, RowAdded
  <2>2. CASE n <= Count(p)
    <3>1. n \in Reported(p) /\ reports[p][n].outcome = c
      BY <2>2 DEF Claimed
    <3>2. n <= Count(p)' /\ n \in Reported(p)'
      BY <2>1, <2>2, <3>1
    <3>3. reports'[p][n].outcome = c
      BY <2>1, <3>1
    <3> QED BY <3>2, <3>3 DEF Claimed
  <2>3. CASE ~(n <= Count(p))
    <3>1. n = game[p] /\ result[p] = c
      BY <2>3 DEF Claimed
    <3>2. n <= Count(p)' /\ n \in Reported(p)'
      BY <2>1, <3>1
    <3> QED BY <2>1, <3>1, <3>2 DEF Claimed
  <2> QED BY <2>2, <2>3
<1> QED BY <1>1, <1>2, <1>3, Kinds

LEMMA ClaimsOfOther ==
  ASSUME NEW q, Keeps(q), NEW n, NEW c
  PROVE  Claimed(q, n, c)' <=> Claimed(q, n, c)
BY DEF Keeps, Claimed, Count, Reported

LEMMA HonestyStays ==
  ASSUME Grows, NEW n, NEW c, Honest(n, c)
  PROVE  Honest(n, c)'
BY DEF Grows, Honest

LEMMA AuditsLeft ==
  ASSUME NEW p, NEW q, Pair(p, q), Effect(p, q)
  PROVE  /\ AuditClaims(p)' \subseteq AuditClaims(p) /\ DigestsTo(p)' \subseteq DigestsTo(p)
         /\ HasAudit(p)' /\ game'[p] = game[p] => HasAudit(p)
<1>1. ToSet(mail'[p].audits) \subseteq ToSet(mail[p].audits)
  <2>1. CASE Leaves(p) \/ Greets(p, q) \/ Meets(p, q)
    BY <2>1 DEF Leaves, Greets, Meets
  <2>2. CASE \E m : Moves(p, q, m)
    BY <2>2 DEF Moves
  <2>3. CASE Hears(p) \/ Polls(p, q) \/ TimesOut(p)
    BY <2>3 DEF Hears, Polls, TimesOut
  <2>4. CASE Closes(p, q) \/ Settles(p, q) \/ Ends(p, q)
    BY <2>4 DEF Closes, Settles, Sends, Ends
  <2>5. CASE HearsEarly(p, q) \/ HearsNow(p, q) \/ HearsNothing(p, q)
    BY <2>5 DEF HearsEarly, HearsNow, HearsNothing, Reports
  <2> QED BY <2>1, <2>2, <2>3, <2>4, <2>5 DEF Effect
<1> QED BY <1>1 DEF AuditClaims, DigestsTo, HasAudit

\* Only a closing audit and a digest are pushed into that mailbox.
LEMMA AuditsPushed ==
  ASSUME NEW p, NEW q, Pair(p, q), Effect(p, q)
  PROVE  /\ \/ ToSet(mail'[q].audits) = ToSet(mail[q].audits)
            \/ Closes(p, q) \/ Settles(p, q)
         /\ ToSet(mail[q].audits) \subseteq ToSet(mail'[q].audits)
<1>1. CASE Leaves(p) \/ Greets(p, q) \/ Meets(p, q)
  BY <1>1 DEF Leaves, Greets, Meets
<1>2. CASE \E m : Moves(p, q, m)
  BY <1>2 DEF Moves
<1>3. CASE Hears(p) \/ Polls(p, q) \/ TimesOut(p) \/ Ends(p, q)
  BY <1>3 DEF Hears, Polls, TimesOut, Ends
<1>4. CASE HearsEarly(p, q) \/ HearsNow(p, q) \/ HearsNothing(p, q)
  BY <1>4 DEF HearsEarly, HearsNow, HearsNothing, Reports
<1>5. CASE Closes(p, q) \/ Settles(p, q)
  BY <1>5 DEF Closes, Settles, Sends
<1> QED BY <1>1, <1>2, <1>3, <1>4, <1>5 DEF Effect

LEMMA GameIsNatural ==
  ASSUME TypeInv, NEW p \in Peers
  PROVE  game[p] \in Nat /\ game[p] \in 1..Games
<1>1. game[p] \in 1..Games
  BY DEF TypeInv
<1> QED BY <1>1

\* What the invariant says of the peer that acts and of the other.
LEMMA Known ==
  ASSUME NEW p, NEW q, Acting(p, q)
  PROVE  /\ TypeInv /\ TypeInv' /\ Keeps(q) /\ Grows /\ Effect(p, q)
         /\ Pair(p, q) /\ Pair(q, p) /\ Opponent(p) = q /\ Opponent(q) = p
         /\ p \in Peers /\ q \in Peers /\ p # q
         /\ LocalInv(p) /\ StreamInv(p) /\ ClaimInv(p) /\ DigestInv(p)
         /\ PairInv(p) /\ FaultlessInv(p)
         /\ LocalInv(q) /\ StreamInv(q) /\ ClaimInv(q) /\ DigestInv(q)
         /\ PairInv(q) /\ FaultlessInv(q)
BY DEF Acting, Half, Pair

\* What p has found to be the result really happened.
LEMMA ResultIsHonest ==
  ASSUME NEW p, NEW q, Acting(p, q), InGame(p)', result'[p] # None
  PROVE  Honest(game[p], result[p])' /\ game'[p] = game[p]
<1> USE Known
<1>1. CASE InGame(p) /\ result'[p] = result[p] /\ game'[p] = game[p]
  BY <1>1, HonestyStays DEF ClaimInv
<1>2. ASSUME NEW m, Moves(p, q, m) PROVE Honest(game[p], result[p])' /\ game'[p] = game[p]
  <2>1. Final(m) /\ result'[p] = Says(m) /\ game'[p] = game[p]
    BY <1>2 DEF Moves
  <2>2. m.win \in {"none", "survival", "capture"}
    BY <1>2 DEF Moves, Turns
  <2> QED BY <1>2, <2>1, <2>2 DEF Moves, Says, Final, Honest
<1>3. CASE Hears(p)
  <2>1. ready[p] \in Seq(Turns) /\ ready[p] # <<>>
    BY <1>3 DEF Hears, TypeInv, Pair
  <2>2. 1 \in DOMAIN ready[p] /\ ready[p][1].win \in {"none", "survival", "capture"}
    <3>1. 1 \in DOMAIN ready[p] /\ ready[p][1] \in Turns
      BY <2>1
    <3> QED BY <3>1 DEF Turns
  <2>3. Sound(p, ready[p][1])
    BY <1>3, <2>2 DEF StreamInv, Listening, Playing, Hears
  <2>4. Honest(game[p], Says(ready[p][1]))
    BY <1>3, <2>2, <2>3 DEF Sound, Says, Final, Honest, Hears
  <2> QED BY <1>3, <2>4, HonestyStays DEF Hears
<1>4. CASE Polls(p, q) /\ Adopts(p)
  <2>1. PICK a \in AuditClaims(p) : a.game = game[p] /\ result'[p] = a.claim
    BY <1>4 DEF Adopts
  <2> QED BY <1>4, <2>1, HonestyStays DEF Polls, ClaimInv
<1>5. CASE TimesOut(p)
  BY <1>5 DEF TimesOut, Honest
<1>6. CASE Leaves(p) \/ Greets(p, q) \/ Settles(p, q) \/ Ends(p, q)
  BY <1>6 DEF Leaves, Greets, Settles, Ends, InGame
<1>7. CASE Meets(p, q)
  BY <1>7 DEF Meets
<1>8. CASE Polls(p, q) /\ Listens(p)
  BY <1>1, <1>8 DEF Polls, Listens, InGame
<1>9. CASE Closes(p, q)
  BY <1>1, <1>9 DEF Closes, Sends, InGame
<1>10. CASE HearsEarly(p, q) \/ HearsNow(p, q) \/ HearsNothing(p, q)
  BY <1>10 DEF HearsEarly, HearsNow, HearsNothing, Reports, InGame
<1> QED BY <1>2, <1>3, <1>4, <1>5, <1>6, <1>7, <1>8, <1>9, <1>10 DEF Effect

\* What p has heard early is what q has claimed.
LEMMA HeardIsClaimed ==
  ASSUME NEW p, NEW q, Acting(p, q), InGame(p)', heard'[p] # None
  PROVE  Claimed(q, game[p], heard[p])'
<1> USE Known
<1>0. Opponent(p) = q
  BY DEF Pair
<1>1. CASE InGame(p) /\ heard'[p] = heard[p] /\ game'[p] = game[p]
  BY <1>0, <1>1, ClaimsOfOther DEF ClaimInv
<1>2. CASE \E m : Moves(p, q, m)
  BY <1>1, <1>2 DEF Moves, InGame
<1>3. CASE Hears(p) \/ TimesOut(p) \/ (Polls(p, q) /\ Listens(p)) \/ Closes(p, q)
  BY <1>1, <1>3 DEF Hears, TimesOut, Polls, Listens, Closes, Sends, InGame
<1>4. CASE Polls(p, q) /\ Adopts(p)
  <2>1. PICK a \in AuditClaims(p) : a.game = game[p] /\ heard'[p] = a.claim
    BY <1>4 DEF Adopts
  <2>2. Claimed(q, game[p], a.claim)
    BY <1>0, <2>1 DEF ClaimInv
  <2> QED BY <1>4, <2>1, <2>2, ClaimsOfOther DEF Polls
<1>5. CASE Leaves(p) \/ Greets(p, q) \/ Settles(p, q) \/ Ends(p, q)
  BY <1>5 DEF Leaves, Greets, Settles, Ends, InGame
<1>6. CASE Meets(p, q)
  BY <1>6 DEF Meets
<1>7. CASE HearsEarly(p, q) \/ HearsNow(p, q) \/ HearsNothing(p, q)
  BY <1>7 DEF HearsEarly, HearsNow, HearsNothing, Reports, InGame
<1> QED BY <1>2, <1>3, <1>4, <1>5, <1>6, <1>7 DEF Effect

\* A claim that p counts as agreed is one that q has made.
LEMMA AgreedIsClaimed ==
  ASSUME NEW p, NEW q, Acting(p, q), NEW agreed \in BOOLEAN, Effect(p, q),
         Reports(p, q, agreed),
         HearsEarly(p, q) \/ HearsNow(p, q) \/ HearsNothing(p, q)
  PROVE  \E b \in BOOLEAN : /\ Reports(p, q, b)
                            /\ b => Claimed(q, game[p], result[p])
<1> USE Known
<1>0. Opponent(p) = q /\ InGame(p)
  BY DEF Pair, Reports, InGame
<1>1. CASE HearsEarly(p, q)
  BY <1>0, <1>1 DEF HearsEarly, ClaimInv
<1>2. CASE HearsNow(p, q)
  <2>1. PICK a \in AuditClaims(p) : a.game = game[p] /\ Reports(p, q, a.claim = result[p])
    BY <1>2 DEF HearsNow
  <2>2. Claimed(q, game[p], a.claim)
    BY <1>0, <2>1 DEF ClaimInv
  <2> QED BY <2>1, <2>2
<1>3. CASE HearsNothing(p, q)
  BY <1>3 DEF HearsNothing
<1> QED BY <1>1, <1>2, <1>3

LEMMA ClaimSelf ==
  ASSUME NEW p, NEW q, Acting(p, q)
  PROVE  ClaimInv(p)'
<1> USE Known
<1>1. ASSUME NEW a \in AuditClaims(p)'
      PROVE  Claimed(q, a.game, a.claim)' /\ Honest(a.game, a.claim)'
  <2>1. a \in AuditClaims(p)
    BY <1>1, AuditsLeft
  <2>2. Claimed(q, a.game, a.claim) /\ Honest(a.game, a.claim)
    BY <2>1 DEF ClaimInv
  <2> QED BY <2>2, ClaimsOfOther, HonestyStays
<1>2. ASSUME NEW n \in Reported(p)'
      PROVE  /\ Honest(n, reports[p][n].outcome)'
             /\ reports'[p][n].agreed => Claimed(q, n, reports[p][n].outcome)'
  <2>1. CASE reports'[p] = reports[p]
    <3>1. n \in Reported(p)
      BY <1>2, <2>1 DEF Reported
    <3>2. /\ Honest(n, reports[p][n].outcome)
          /\ reports[p][n].agreed => Claimed(q, n, reports[p][n].outcome)
      BY <3>1 DEF ClaimInv
    <3> QED BY <2>1, <3>2, ClaimsOfOther, HonestyStays
  <2>2. CASE HearsEarly(p, q) \/ HearsNow(p, q) \/ HearsNothing(p, q)
    <3>0. \E agreed \in BOOLEAN : Reports(p, q, agreed)
      BY <2>2 DEF HearsEarly, HearsNow, HearsNothing, Reports
    <3>1. PICK b \in BOOLEAN : Reports(p, q, b) /\ (b => Claimed(q, game[p], result[p]))
      BY <2>2, <3>0, AgreedIsClaimed
    <3>2. /\ Reported(p) = 1..Count(p) /\ Reported(p)' = 1..game[p]
          /\ Count(p) = game[p] - 1 /\ game[p] \in 1..Games
          /\ \A k \in Reported(p) : reports'[p][k] = reports[p][k]
          /\ reports'[p][game[p]].outcome = result[p]
          /\ reports'[p][game[p]].agreed = b
      BY <3>1, RowAdded
    <3>3. CASE n \in Reported(p)
      <4>1. /\ Honest(n, reports[p][n].outcome)
            /\ reports[p][n].agreed => Claimed(q, n, reports[p][n].outcome)
        BY <3>3 DEF ClaimInv
      <4> QED BY <3>2, <3>3, <4>1, ClaimsOfOther, HonestyStays
    <3>4. CASE n = game[p]
      <4>1. Honest(n, result[p])
        BY <3>1, <3>4 DEF ClaimInv, Reports, InGame, LocalInv
      <4> QED BY <3>1, <3>2, <3>4, <4>1, ClaimsOfOther, HonestyStays
    <3>5. n \in Reported(p) \/ n = game[p]
      BY <1>2, <3>2
    <3> QED BY <3>3, <3>4, <3>5
  <2>3. CASE Leaves(p) \/ Works(p)
    BY <2>1, <2>3 DEF Leaves, Works
  <2>4. Leaves(p) \/ Works(p) \/ HearsEarly(p, q) \/ HearsNow(p, q) \/ HearsNothing(p, q)
    BY Kinds DEF Effect, Works, Reports, Greets, Meets, Moves, Hears, Polls, TimesOut, Closes,
       Settles, Sends, Ends
  <2> QED BY <2>2, <2>3, <2>4
<1>3. InGame(p)' /\ heard'[p] # None => Claimed(q, game[p], heard[p])'
  BY HeardIsClaimed
<1>4. InGame(p)' /\ result'[p] # None => Honest(game[p], result[p])'
  BY ResultIsHonest
<1> QED BY <1>1, <1>2, <1>3, <1>4 DEF ClaimInv

LEMMA ClaimOther ==
  ASSUME NEW p, NEW q, Acting(p, q)
  PROVE  ClaimInv(q)'
<1> USE Known
<1>1. \A n \in Nat : \A c : Claimed(p, n, c) => Claimed(p, n, c)'
  BY ClaimsStay
<1>2. Opponent(q) = p
  OBVIOUS
<1>3. ASSUME NEW a \in AuditClaims(q)'
      PROVE  Claimed(p, a.game, a.claim)' /\ Honest(a.game, a.claim)'
  <2>1. CASE a \in AuditClaims(q)
    <3>1. Claimed(p, a.game, a.claim) /\ Honest(a.game, a.claim)
      BY <2>1 DEF ClaimInv
    <3>2. a.game \in Nat
      BY <2>1, AuditTypes
    <3> QED BY <1>1, <3>1, <3>2, HonestyStays
  <2>2. CASE a \notin AuditClaims(q)
    <3>1. ToSet(mail'[q].audits) # ToSet(mail[q].audits)
      BY <1>3, <2>2 DEF AuditClaims
    <3>2. CASE Closes(p, q)
      <4>1. a = Audit(game[p], result[p])
        BY <1>3, <2>2, <3>2 DEF Closes, Sends, AuditClaims
      <4>2. a.game = game[p] /\ a.claim = result[p]
        BY <4>1 DEF Audit
      <4>3. /\ pc[p] = "play" /\ pc'[p] = "audit" /\ result[p] # None
            /\ game'[p] = game[p] /\ result'[p] = result[p] /\ reports'[p] = reports[p]
        BY <3>2 DEF Closes, Sends
      <4>4. Honest(game[p], result[p])
        BY <4>3 DEF ClaimInv, InGame
      <4>5. Count(p) = game[p] - 1 /\ Count(p)' = Count(p)
        BY <4>3 DEF LocalInv, Gone, Over, Count
      <4>6. ~(game[p] <= Count(p)')
        BY <4>5, GameIsNatural
      <4>7. Claimed(p, game[p], result[p])'
        BY <4>3, <4>6 DEF Claimed
      <4> QED BY <4>2, <4>4, <4>7, <4>3, HonestyStays
    <3>3. CASE Settles(p, q)
      <4>1. a = Consensus(Sha(p))
        BY <1>3, <2>2, <3>3 DEF Settles, Sends, AuditClaims
      <4> QED BY <1>3, <4>1 DEF Consensus, AuditClaims
    <3> QED BY <3>1, <3>2, <3>3, AuditsPushed
  <2> QED BY <2>1, <2>2
<1>4. ASSUME NEW n \in Reported(q)'
      PROVE  /\ Honest(n, reports[q][n].outcome)'
             /\ reports'[q][n].agreed => Claimed(p, n, reports[q][n].outcome)'
  <2>1. reports'[q] = reports[q] /\ n \in Reported(q)
    BY <1>4 DEF Keeps, Reported
  <2>2. /\ Honest(n, reports[q][n].outcome)
        /\ reports[q][n].agreed => Claimed(p, n, reports[q][n].outcome)
    BY <2>1 DEF ClaimInv
  <2>3. n \in Nat
    BY <2>1, ShaType
  <2> QED BY <1>1, <2>1, <2>2, <2>3, HonestyStays
<1>5. /\ InGame(q)' /\ heard'[q] # None => Claimed(p, game[q], heard[q])'
      /\ InGame(q)' /\ result'[q] # None => Honest(game[q], result[q])'
  <2>1. /\ game'[q] = game[q] /\ pc'[q] = pc[q] /\ result'[q] = result[q]
        /\ heard'[q] = heard[q]
    BY DEF Keeps
  <2>2. game[q] \in Nat
    BY GameIsNatural
  <2> QED BY <1>1, <2>1, <2>2, HonestyStays DEF ClaimInv, InGame
<1> QED BY <1>3, <1>4, <1>5 DEF ClaimInv

-----------------------------------------------------------------------------
(* DigestInv. *)

LEMMA DigestsSorted ==
  ASSUME NEW p, NEW q, Pair(p, q), Effect(p, q), ~Gone(p)'
  PROVE  Sorted(p, peerSha'[p], mail'[p].audits) /\ ~Gone(p)
<1>0. peerSha'[p] = peerSha[p] /\ mail'[p].audits = mail[p].audits =>
        Sorted(p, peerSha'[p], mail'[p].audits)
  BY DEF Sorted, DigestsTo
<1>1. CASE Leaves(p)
  BY <1>1 DEF Leaves, Gone
<1>2. CASE Greets(p, q) \/ Meets(p, q) \/ \E m : Moves(p, q, m)
  BY <1>0, <1>2 DEF Greets, Meets, Moves, Gone
<1>3. CASE Hears(p) \/ TimesOut(p)
  BY <1>0, <1>3 DEF Hears, TimesOut, Gone
<1>4. CASE Polls(p, q)
  BY <1>4 DEF Polls, Gone
<1>5. CASE Closes(p, q) \/ Settles(p, q)
  BY <1>0, <1>5 DEF Closes, Settles, Sends, Gone
<1>6. CASE HearsEarly(p, q) \/ HearsNow(p, q) \/ HearsNothing(p, q)
  BY <1>6 DEF HearsEarly, HearsNow, HearsNothing, Reports, Gone
<1>7. CASE Ends(p, q)
  BY <1>7 DEF Ends, Gone
<1> QED BY <1>1, <1>2, <1>3, <1>4, <1>5, <1>6, <1>7 DEF Effect

LEMMA DigestKept ==
  ASSUME NEW p, NEW q, Pair(p, q), Effect(p, q)
  PROVE  peerSha'[p] = peerSha[p] \/ Sorted(p, peerSha'[p], mail'[p].audits)
<1>1. CASE Leaves(p)
  BY <1>1 DEF Leaves
<1>2. CASE Greets(p, q) \/ Meets(p, q) \/ \E m : Moves(p, q, m)
  BY <1>2 DEF Greets, Meets, Moves
<1>3. CASE Hears(p) \/ TimesOut(p) \/ Closes(p, q) \/ Settles(p, q)
  BY <1>3 DEF Hears, TimesOut, Closes, Settles, Sends
<1>4. CASE Polls(p, q) \/ Ends(p, q)
  BY <1>4 DEF Polls, Ends
<1>5. CASE HearsEarly(p, q) \/ HearsNow(p, q) \/ HearsNothing(p, q)
  BY <1>5 DEF HearsEarly, HearsNow, HearsNothing, Reports
<1> QED BY <1>1, <1>2, <1>3, <1>4, <1>5 DEF Effect

\* The digest of a whole series is not None.
LEMMA ShaOfAll ==
  ASSUME TypeInv, NEW q \in Peers, Count(q) = Games
  PROVE  Sha(q) # None
BY ShaType, NoneAssumption

LEMMA DigestSelf ==
  ASSUME NEW p, NEW q, Acting(p, q)
  PROVE  DigestInv(p)'
<1> USE Known
<1>1. Count(q)' = Count(q) /\ Sha(q)' = Sha(q) /\ pc'[q] = pc[q]
  BY DEF Keeps, Count, Sha
<1>2. \A a \in DigestsTo(p) : Count(q) = Games /\ a.sha = Sha(q)
  BY DEF DigestInv
<1>3. peerSha[p] # None => Count(q) = Games /\ peerSha[p] = Sha(q)
  BY DEF DigestInv
<1>4. \A a \in DigestsTo(p)' : Count(q)' = Games /\ a.sha = Sha(q)'
  BY <1>1, <1>2, AuditsLeft
<1>5. peerSha'[p] # None => Count(q)' = Games /\ peerSha'[p] = Sha(q)'
  BY <1>1, <1>2, <1>3, DigestKept DEF Sorted
<1>6. ASSUME pc'[q] \in {"settling", "done"}, ~Gone(p)'
      PROVE  peerSha'[p] # None \/ DigestsTo(p)' # {}
  <2>1. Sorted(p, peerSha'[p], mail'[p].audits) /\ ~Gone(p)
    BY <1>6, DigestsSorted
  <2>2. peerSha[p] # None \/ DigestsTo(p) # {}
    BY <1>1, <1>6, <2>1 DEF DigestInv
  <2>3. CASE \E a \in DigestsTo(p) : peerSha'[p] = a.sha
    BY <1>2, <2>3, ShaOfAll
  <2>4. CASE peerSha'[p] = peerSha[p] /\ DigestsTo(p) \subseteq ToSet(mail'[p].audits)
    <3>1. DigestsTo(p) \subseteq DigestsTo(p)'
      BY <2>4 DEF DigestsTo
    <3> QED BY <2>2, <2>4, <3>1
  <2> QED BY <2>1, <2>3, <2>4 DEF Sorted
<1> QED BY <1>4, <1>5, <1>6 DEF DigestInv

\* A series that was reported to the end is not reported any further.
LEMMA AllReported ==
  ASSUME NEW p, NEW q, Acting(p, q), Count(p) = Games
  PROVE  Count(p)' = Games /\ Sha(p)' = Sha(p)
<1> USE Known
<1>1. CASE Leaves(p) \/ Works(p)
  BY <1>1 DEF Leaves, Works, Count, Sha
<1>2. ASSUME NEW agreed \in BOOLEAN, Reports(p, q, agreed) PROVE FALSE
  <2>1. Count(p) = game[p] - 1 /\ game[p] \in 1..Games
    BY <1>2, RowAdded
  <2> QED BY <2>1, SeriesAssumption
<1> QED BY <1>1, <1>2, Kinds

LEMMA DigestOther ==
  ASSUME NEW p, NEW q, Acting(p, q)
  PROVE  DigestInv(q)'
<1> USE Known
<1>1. Count(p) = Games => Count(p)' = Games /\ Sha(p)' = Sha(p)
  BY AllReported
<1>2. pc'[q] = pc[q] /\ peerSha'[q] = peerSha[q]
  BY DEF Keeps
<1>3. \A a \in DigestsTo(q) : Count(p) = Games /\ a.sha = Sha(p)
  BY DEF DigestInv
<1>4. ASSUME Settles(p, q) PROVE Count(p) = Games
  BY <1>4 DEF Settles, LocalInv, Gone, Over
<1>5. DigestsTo(q) \subseteq DigestsTo(q)'
  <2>1. ToSet(mail[q].audits) \subseteq ToSet(mail'[q].audits)
    BY AuditsPushed
  <2> QED BY <2>1 DEF DigestsTo
<1>6. ASSUME NEW a \in DigestsTo(q)', a \notin DigestsTo(q)
      PROVE  Settles(p, q) /\ a.sha = Sha(p)
  <2>1. CASE Closes(p, q)
    <3>1. a = Audit(game[p], result[p])
      BY <1>6, <2>1 DEF Closes, Sends, DigestsTo
    <3> QED BY <1>6, <3>1 DEF DigestsTo, Audit
  <2>2. CASE Settles(p, q)
    <3>1. a = Consensus(Sha(p))
      BY <1>6, <2>2 DEF Settles, Sends, DigestsTo
    <3> QED BY <2>2, <3>1 DEF Consensus
  <2> QED BY <1>6, <2>1, <2>2, AuditsPushed DEF DigestsTo
<1>7. \A a \in DigestsTo(q)' : Count(p)' = Games /\ a.sha = Sha(p)'
  BY <1>1, <1>3, <1>4, <1>6
<1>8. peerSha'[q] # None => Count(p)' = Games /\ peerSha'[q] = Sha(p)'
  BY <1>1, <1>2 DEF DigestInv
<1>9. ASSUME pc'[p] \in {"settling", "done"}, ~Gone(q)'
      PROVE  peerSha'[q] # None \/ DigestsTo(q)' # {}
  <2>1. ~Gone(q)
    BY <1>2, <1>9 DEF Gone
  <2>2. CASE pc[p] \in {"settling", "done"}
    BY <1>2, <1>5, <2>1, <2>2 DEF DigestInv
  <2>3. CASE Settles(p, q)
    <3>1. Consensus(Sha(p)) \in ToSet(mail'[q].audits)
      BY <2>1, <2>3 DEF Settles, Sends, Reachable, Gone
    <3>2. Consensus(Sha(p)) \in DigestsTo(q)'
      BY <3>1 DEF DigestsTo, Consensus
    <3> QED BY <3>2
  <2>4. CASE \/ Leaves(p) \/ Greets(p, q) \/ Meets(p, q)
             \/ (\E m : Moves(p, q, m)) \/ Hears(p)
    BY <1>9, <2>4 DEF Leaves, Greets, Meets, Moves, Hears
  <2>5. CASE Polls(p, q) \/ TimesOut(p) \/ Closes(p, q)
    BY <1>9, <2>5 DEF Polls, TimesOut, Closes
  <2>6. CASE HearsEarly(p, q) \/ HearsNow(p, q) \/ HearsNothing(p, q)
    BY <1>9, <2>6 DEF HearsEarly, HearsNow, HearsNothing, Reports
  <2>7. CASE Ends(p, q)
    BY <2>2, <2>7 DEF Ends
  <2> QED BY <2>3, <2>4, <2>5, <2>6, <2>7 DEF Effect
<1> QED BY <1>7, <1>8, <1>9 DEF DigestInv

-----------------------------------------------------------------------------
(* Quiet and Ended. *)

\* What is left of the turns to p, and what is pushed to q.
LEMMA TurnsLeft ==
  ASSUME NEW p, NEW q, Pair(p, q), Effect(p, q)
  PROVE  \/ mail'[p].turns = mail[p].turns \/ mail'[p].turns = <<>>
         \/ Polls(p, q) /\ (Adopts(p) \/ Listens(p))
<1>1. CASE Leaves(p) \/ Greets(p, q) \/ Meets(p, q) \/ \E m : Moves(p, q, m)
  BY <1>1 DEF Leaves, Greets, Meets, Moves
<1>2. CASE Hears(p) \/ TimesOut(p) \/ Closes(p, q) \/ Settles(p, q) \/ Ends(p, q)
  BY <1>2 DEF Hears, TimesOut, Closes, Settles, Sends, Ends
<1>3. CASE HearsEarly(p, q) \/ HearsNow(p, q) \/ HearsNothing(p, q)
  BY <1>3 DEF HearsEarly, HearsNow, HearsNothing, Reports
<1> QED BY <1>1, <1>2, <1>3 DEF Effect

LEMMA TurnsPushed ==
  ASSUME NEW p, NEW q, Pair(p, q), Effect(p, q)
  PROVE  mail'[q].turns = mail[q].turns \/ \E m : Moves(p, q, m)
<1>1. CASE Leaves(p) \/ Greets(p, q) \/ Meets(p, q)
  BY <1>1 DEF Leaves, Greets, Meets
<1>2. CASE Hears(p) \/ TimesOut(p) \/ Polls(p, q)
  BY <1>2 DEF Hears, TimesOut, Polls
<1>3. CASE HearsEarly(p, q) \/ HearsNow(p, q) \/ HearsNothing(p, q)
  BY <1>3 DEF HearsEarly, HearsNow, HearsNothing, Reports
<1>4. CASE Closes(p, q) \/ Settles(p, q) \/ Ends(p, q)
  BY <1>4 DEF Closes, Settles, Sends, Ends
<1> QED BY <1>1, <1>2, <1>3, <1>4 DEF Effect

LEMMA AuditsStay ==
  ASSUME NEW p, NEW q, Acting(p, q)
  PROVE  /\ HasAudit(q) => HasAudit(q)'
         /\ AuditClaims(q) \subseteq AuditClaims(q)'
<1> USE Known
<1>1. ToSet(mail[q].audits) \subseteq ToSet(mail'[q].audits)
  BY AuditsPushed
<1>2. AuditClaims(q) \subseteq AuditClaims(q)'
  BY <1>1 DEF AuditClaims
<1> QED BY <1>2 DEF HasAudit, Keeps

LEMMA QuietOther ==
  ASSUME NEW p, NEW q, Acting(p, q), Quiet(q)
  PROVE  Quiet(q)'
<1> USE Known
<1>1. HasAudit(q) => HasAudit(q)'
  BY AuditsStay
<1> QED BY <1>1 DEF Quiet, Keeps, Role

LEMMA EndedOther ==
  ASSUME NEW q, Keeps(q), mail'[q].turns = mail[q].turns, Ended(q)
  PROVE  Ended(q)'
BY DEF Ended, Keeps, Role

LEMMA SameAudits ==
  ASSUME NEW p, mail'[p].audits = mail[p].audits, game'[p] = game[p], HasAudit(p)
  PROVE  HasAudit(p)'
BY DEF HasAudit, AuditClaims

\* A quiet peer makes no move, and stays quiet until it reports.
LEMMA QuietMakesNoMove ==
  ASSUME TypeInv, NEW p, NEW q, Pair(p, q), NEW m, Moves(p, q, m)
  PROVE  ~Quiet(p) /\ ~Ended(p)
<1>1. pc[p] \in {"open", "play"} /\ result[p] = None
  BY DEF Moves
<1>2. CASE pc[p] = "open"
  BY <1>2 DEF Quiet, Ended
<1>3. CASE pc[p] = "play"
  <2>1. ready[p] # <<>> /\ ~Final(ready[p][1])
    BY <1>3 DEF Moves
  <2>2. 1 \in DOMAIN ready[p]
    <3>1. ready[p] \in Seq(Turns)
      BY DEF TypeInv, Pair
    <3> QED BY <2>1, <3>1
  <2> QED BY <1>1, <1>3, <2>1, <2>2 DEF Quiet, Ended
<1> QED BY <1>1, <1>2, <1>3

LEMMA AdoptedIsOutcome ==
  ASSUME TypeInv, NEW p \in Peers, Adopts(p)
  PROVE  result'[p] = heard'[p] /\ heard'[p] # None
BY AuditTypes, NoneAssumption DEF Adopts

LEMMA HeardIsOutcome ==
  ASSUME TypeInv, NEW p \in Peers, Hears(p)
  PROVE  result'[p] # None
<1>1. ready[p] \in Seq(Turns) /\ ready[p] # <<>>
  BY DEF TypeInv, Hears
<1>2. ready[p][1] \in Turns
  BY <1>1
<1>3. Says(ready[p][1]) \in Outcomes
  BY <1>2 DEF Hears, Says, Final, Turns, Outcomes
<1> QED BY <1>3, NoneAssumption DEF Hears

LEMMA QuietSelf ==
  ASSUME NEW p, NEW q, Acting(p, q), Quiet(p)
  PROVE  Quiet(p)' \/ Leaves(p) \/ \E agreed \in BOOLEAN : Reports(p, q, agreed)
<1> USE Known
<1>0. result[p] = None \/ result[p] # None
  OBVIOUS
<1>1. CASE Meets(p, q)
  <2>1. /\ pc[p] = "meet" /\ Role(p, game[p]) = "police" /\ HasAudit(p)
        /\ pc'[p] = "play" /\ result'[p] = None
    BY <1>1 DEF Meets, Quiet
  <2>2. HasAudit(p)'
    BY <1>1, <2>1, SameAudits DEF Meets
  <2>3. ready'[p] = <<>>
    BY <1>1, <2>1 DEF Meets, LocalInv, Gone
  <2> QED BY <2>1, <2>2, <2>3 DEF Quiet
<1>2. CASE Hears(p) \/ TimesOut(p)
  <2>1. /\ pc'[p] = "play" /\ result[p] = None /\ mail'[p].audits = mail[p].audits
        /\ game'[p] = game[p] /\ pc[p] = "play"
    BY <1>2 DEF Hears, TimesOut
  <2>2. HasAudit(p)'
    BY <2>1, SameAudits DEF Quiet
  <2>3. result'[p] # None
    BY <1>2, HeardIsOutcome, NoneAssumption DEF TimesOut, Outcomes
  <2> QED BY <2>1, <2>2, <2>3 DEF Quiet
<1>3. CASE Polls(p, q) /\ Adopts(p)
  BY <1>3, AdoptedIsOutcome DEF Quiet, Polls
<1>4. CASE Polls(p, q) /\ Listens(p)
  BY <1>4 DEF Quiet, Polls, Listens
<1>5. CASE Closes(p, q)
  <2>1. /\ pc[p] = "play" /\ result[p] # None /\ pc'[p] = "audit" /\ result'[p] = result[p]
        /\ heard'[p] = heard[p] /\ mail'[p].audits = mail[p].audits /\ game'[p] = game[p]
    BY <1>5 DEF Closes, Sends
  <2> QED BY <2>1, SameAudits DEF Quiet
<1>6. CASE Greets(p, q) \/ Settles(p, q) \/ Ends(p, q)
  BY <1>6 DEF Greets, Settles, Ends, Quiet
<1>7. CASE \E m : Moves(p, q, m)
  BY <1>7, QuietMakesNoMove
<1>8. CASE HearsEarly(p, q) \/ HearsNow(p, q) \/ HearsNothing(p, q)
  BY <1>8 DEF HearsEarly, HearsNow, HearsNothing, Reports
<1> QED BY <1>1, <1>2, <1>3, <1>4, <1>5, <1>6, <1>7, <1>8 DEF Effect

LEMMA EndedSelf ==
  ASSUME NEW p, NEW q, Acting(p, q), Ended(p)
  PROVE  Ended(p)' \/ Leaves(p) \/ \E agreed \in BOOLEAN : Reports(p, q, agreed)
<1> USE Known
<1>1. CASE Meets(p, q)
  <2>1. /\ pc[p] = "meet" /\ pc'[p] = "play" /\ result'[p] = None
        /\ \A i \in DOMAIN mail[p].turns : Final(mail[p].turns[i])
        /\ mail'[p].turns = mail[p].turns
    BY <1>1 DEF Meets, Ended
  <2>2. ready'[p] = <<>>
    BY <1>1, <2>1 DEF Meets, LocalInv, Gone
  <2> QED BY <2>1, <2>2 DEF Ended
<1>2. CASE Hears(p) \/ TimesOut(p)
  BY <1>2, HeardIsOutcome, NoneAssumption DEF Hears, TimesOut, Outcomes, Ended
<1>3. CASE Polls(p, q) /\ Adopts(p)
  BY <1>3, AdoptedIsOutcome DEF Ended, Polls
<1>4. CASE Polls(p, q) /\ Listens(p)
  <2>1. /\ pc[p] = "play" /\ result[p] = None /\ pc'[p] = "play" /\ result'[p] = None
        /\ ready[p] = <<>>
        /\ \A i \in DOMAIN mail[p].turns :
             mail[p].turns[i].step >= inbox[p].next => Final(mail[p].turns[i])
    BY <1>4 DEF Polls, Listens, Ended
  <2>2. CASE mail'[p].turns = mail[p].turns /\ inbox'[p] = inbox[p] /\ ready'[p] = ready[p]
    BY <2>1, <2>2 DEF Ended
  <2>3. CASE mail[p].turns # <<>> /\ mail'[p].turns = Tail(mail[p].turns)
    <3> DEFINE s == mail[p].turns
    <3>1. s \in Seq(Turns) /\ s # <<>>
      BY <2>3 DEF TypeInv
    <3>2. /\ 1 \in DOMAIN s
          /\ \A i \in DOMAIN Tail(s) : i + 1 \in DOMAIN s /\ Tail(s)[i] = s[i + 1]
      <4> HIDE DEF s
      <4> QED BY <3>1
    <3>3. CASE inbox'[p] = inbox[p] /\ ready'[p] = ready[p]
      BY <2>1, <2>3, <3>2, <3>3 DEF Ended
    <3>4. CASE /\ s[1].step = inbox[p].next /\ ready'[p] = <<s[1]>>
               /\ inbox'[p].next = inbox[p].next + 1
      <4>1. inbox[p].next \in Nat
        BY <2>1 DEF LocalInv, Playing, InOrder
      <4>2. Final(s[1])
        BY <2>1, <3>2, <3>4, <4>1
      <4>3. DOMAIN <<s[1]>> = {1} /\ <<s[1]>>[1] = s[1]
        OBVIOUS
      <4>4. \A i \in DOMAIN ready'[p] : Final(ready'[p][i])
        <5>1. \A i \in DOMAIN ready'[p] : ready'[p][i] = s[1]
          BY <3>4, <4>3
        <5> QED BY <4>2, <5>1
      <4>5. ASSUME NEW i \in DOMAIN Tail(s), Tail(s)[i].step >= inbox'[p].next
            PROVE  Final(Tail(s)[i])
        <5>1. i + 1 \in DOMAIN s /\ Tail(s)[i] = s[i + 1]
          BY <3>2
        <5>2. s[i + 1] \in Turns
          BY <3>1, <5>1
        <5>3. s[i + 1].step \in Nat
          BY <5>2 DEF Turns
        <5>4. s[i + 1].step >= inbox[p].next
          BY <3>4, <4>1, <4>5, <5>1, <5>3
        <5> QED BY <2>1, <5>1, <5>4
      <4> QED BY <2>1, <2>3, <4>4, <4>5 DEF Ended
    <3> QED BY <1>4, <2>3, <3>3, <3>4, <2>1, <2>2 DEF Listens
  <2> QED BY <1>4, <2>2, <2>3 DEF Listens
<1>5. CASE Closes(p, q)
  BY <1>5 DEF Closes, Sends, Ended
<1>6. CASE Greets(p, q) \/ Settles(p, q) \/ Ends(p, q)
  BY <1>6 DEF Greets, Settles, Ends, Ended
<1>7. CASE \E m : Moves(p, q, m)
  BY <1>7, QuietMakesNoMove
<1>8. CASE HearsEarly(p, q) \/ HearsNow(p, q) \/ HearsNothing(p, q)
  BY <1>8 DEF HearsEarly, HearsNow, HearsNothing, Reports
<1> QED BY <1>1, <1>2, <1>3, <1>4, <1>5, <1>6, <1>7, <1>8 DEF Effect

-----------------------------------------------------------------------------
(* PairInv. *)

LEMMA Numbers ==
  ASSUME TypeInv, NEW p \in Peers
  PROVE  /\ game[p] \in 1..Games /\ game[p] \in Nat /\ Games \in Nat /\ Count(p) \in Nat
         /\ step[p] \in Nat /\ mail[p].agreements \in Seq(1..Games)
         /\ Len(mail[p].agreements) \in Nat
         /\ faults.timeouts \in 0..MaxTimeouts /\ faults.timeouts \in Nat
         /\ pc[p] \in {"greet", "meet", "open", "play", "audit", "settle",
                       "settling", "done", "aborted", "crashed"}
<1>1. reports[p] \in Seq(Rows) /\ mail[p].agreements \in Seq(1..Games)
  BY DEF TypeInv
<1>2. Len(reports[p]) \in Nat /\ Len(mail[p].agreements) \in Nat
  BY <1>1
<1>3. /\ game[p] \in 1..Games /\ step[p] \in Nat /\ faults.timeouts \in 0..MaxTimeouts
      /\ pc[p] \in {"greet", "meet", "open", "play", "audit", "settle",
                    "settling", "done", "aborted", "crashed"}
  BY DEF TypeInv, FaultTypes
<1> QED BY <1>1, <1>2, <1>3, SeriesAssumption DEF Count

\* A step that reports nothing leaves the distance between the peers.
LEMMA DistanceKept ==
  ASSUME NEW p, NEW q, Acting(p, q), Works(p)
  PROVE  /\ Alive(p)' => Alive(p) /\ Alive(q)
         /\ Same(p)' => Same(p) /\ Same(q)
         /\ Ahead(p)' => Ahead(p)
         /\ Ahead(q)' => Ahead(q)
         /\ Count(p)' = Count(p) /\ Count(q)' = Count(q)
<1> USE Known
<1>1. Count(p)' = Count(p) /\ Count(q)' = Count(q)
  BY DEF Works, Keeps, Count
<1>2. ~Gone(p) /\ (Gone(q)' <=> Gone(q))
  BY DEF Works, Keeps, Gone
<1> QED BY <1>1, <1>2 DEF Alive, Same, Ahead

\* A report is made by the peer that is behind, or by the first of two that are equal.
LEMMA DistanceAfterReport ==
  ASSUME NEW p, NEW q, Acting(p, q), NEW agreed \in BOOLEAN, Reports(p, q, agreed),
         Alive(p)'
  PROVE  /\ Same(p) \/ Ahead(q)
         /\ Same(p) => Ahead(p)' /\ ~Same(p)' /\ ~Ahead(q)'
         /\ Ahead(q) => Same(p)' /\ ~Ahead(p)' /\ ~Ahead(q)'
         /\ Same(p)' => Ahead(q)
         /\ Alive(p) /\ Count(p)' = Count(p) + 1 /\ Count(q)' = Count(q)
<1> USE Known
<1>0. /\ Count(p) \in Nat /\ Count(q) \in Nat /\ Count(p)' = Count(p) + 1
      /\ Count(q)' = Count(q)
  <2>1. Count(p) = game[p] - 1 /\ Count(p)' = game[p] /\ game[p] \in Nat
    BY RowAdded, Numbers
  <2>2. Count(q)' = Count(q)
    BY DEF Keeps, Count
  <2> QED BY <2>1, <2>2, Numbers
<1>1. pc[p] = "audit"
  BY DEF Reports
<1>2. Alive(p)
  BY <1>1 DEF Alive, Gone, Keeps
<1>3. Same(p) \/ Ahead(q)
  BY <1>1, <1>2, Pace DEF InGame
<1>4. Alive(q)'
  BY DEF Alive
<1> QED BY <1>0, <1>2, <1>3, <1>4 DEF Same, Ahead

LEMMA GreetingsKept ==
  ASSUME NEW p, NEW q, Acting(p, q)
  PROVE  GreetingsInv(p)' /\ GreetingsInv(q)'
<1> USE Known
<1> SUFFICES ASSUME Alive(p)'
             PROVE  /\ Len(mail'[p].agreements) = Greeted(q)' - Met(p)'
                    /\ Len(mail'[q].agreements) = Greeted(p)' - Met(q)'
  BY DEF GreetingsInv, Alive
<1>0. /\ game[p] \in Nat /\ game[q] \in Nat
      /\ Len(mail[p].agreements) \in Nat /\ Len(mail[q].agreements) \in Nat
      /\ mail[q].agreements \in Seq(1..Games) /\ game[p] \in 1..Games
  BY Numbers
<1>1. Greeted(q)' = Greeted(q) /\ Met(q)' = Met(q) /\ (Gone(q)' <=> Gone(q))
  BY DEF Keeps, Greeted, Met, Fresh, Gone
<1>2. ~Leaves(p)
  BY DEF Leaves, Alive, Gone
<1>3. Alive(p)
  <2>1. ~Gone(p)
    BY <1>2, Kinds DEF Works, Reports, Gone
  <2>2. ~Gone(q)
    BY <1>1 DEF Alive
  <2> QED BY <2>1, <2>2 DEF Alive
<1>4. /\ Len(mail[p].agreements) = Greeted(q) - Met(p)
      /\ Len(mail[q].agreements) = Greeted(p) - Met(q)
  BY <1>3 DEF PairInv, GreetingsInv, Alive
<1>5. /\ Greeted(p) \in Int /\ Greeted(q) \in Int /\ Met(p) \in Int /\ Met(q) \in Int
  BY <1>0 DEF Greeted, Met
<1>6. CASE Greets(p, q)
  <2>1. /\ mail'[p] = mail[p] /\ mail'[q].agreements = Append(mail[q].agreements, game[p])
        /\ Greeted(p) = game[p] - 1 /\ Greeted(p)' = game[p] /\ Met(p)' = Met(p)
    BY <1>6 DEF Greets, Greeted, Met, Fresh
  <2>2. Len(mail'[q].agreements) = Len(mail[q].agreements) + 1
    <3> DEFINE s == mail[q].agreements
    <3>1. Len(Append(s, game[p])) = Len(s) + 1
      <4>1. s \in Seq(1..Games)
        BY <1>0
      <4> HIDE DEF s
      <4> QED BY <4>1
    <3> QED BY <2>1, <3>1
  <2> QED BY <1>0, <1>1, <1>4, <1>5, <2>1, <2>2, SMTT(30)
<1>7. CASE Meets(p, q)
  <2>1. /\ mail'[q] = mail[q] /\ Len(mail'[p].agreements) = Len(mail[p].agreements) - 1
        /\ Met(p) = game[p] - 1 /\ Met(p)' = game[p] /\ Greeted(p)' = Greeted(p)
    BY <1>7 DEF Meets, Greeted, Met, Fresh
  <2> QED BY <1>0, <1>1, <1>4, <1>5, <2>1
<1>8. ASSUME NEW agreed \in BOOLEAN, Reports(p, q, agreed)
      PROVE  /\ Len(mail'[p].agreements) = Greeted(q)' - Met(p)'
             /\ Len(mail'[q].agreements) = Greeted(p)' - Met(q)'
  <2>1. /\ mail'[q] = mail[q] /\ mail'[p].agreements = mail[p].agreements
        /\ Greeted(p) = game[p] /\ Met(p) = game[p]
    BY <1>8 DEF Reports, Greeted, Met, Fresh
  <2>2. Greeted(p)' = game[p] /\ Met(p)' = game[p]
    <3>1. CASE game[p] < Games
      <4>1. game'[p] = game[p] + 1 /\ pc'[p] = "greet"
        BY <1>8, <3>1 DEF Reports
      <4>2. Greeted(p)' = game'[p] - 1 /\ Met(p)' = game'[p] - 1
        BY <4>1 DEF Greeted, Met, Fresh
      <4> QED BY <1>0, <4>1, <4>2
    <3>2. CASE ~(game[p] < Games)
      BY <1>8, <3>2 DEF Reports, Greeted, Met, Fresh
    <3> QED BY <3>1, <3>2
  <2> QED BY <1>1, <1>4, <2>1, <2>2
<1>9. CASE /\ mail'[q].agreements = mail[q].agreements
           /\ mail'[p].agreements = mail[p].agreements
           /\ Greeted(p)' = Greeted(p) /\ Met(p)' = Met(p)
  BY <1>1, <1>4, <1>9
<1>10. CASE \E m : Moves(p, q, m)
  BY <1>9, <1>10 DEF Moves, Greeted, Met, Fresh
<1>11. CASE Hears(p) \/ TimesOut(p)
  BY <1>9, <1>11 DEF Hears, TimesOut, Greeted, Met, Fresh
<1>12. CASE Polls(p, q)
  BY <1>9, <1>12 DEF Polls, Greeted, Met, Fresh
<1>13. CASE Closes(p, q) \/ Settles(p, q)
  BY <1>9, <1>13 DEF Closes, Settles, Sends, Greeted, Met, Fresh
<1>14. CASE Ends(p, q)
  BY <1>9, <1>14 DEF Ends, Greeted, Met, Fresh
<1>15. CASE HearsEarly(p, q) \/ HearsNow(p, q) \/ HearsNothing(p, q)
  <2>1. \E agreed \in BOOLEAN : Reports(p, q, agreed)
    BY <1>15 DEF HearsEarly, HearsNow, HearsNothing, Reports
  <2> QED BY <1>8, <2>1
<1> QED BY <1>2, <1>6, <1>7, <1>10, <1>11, <1>12, <1>13, <1>14, <1>15 DEF Effect

\* Whoever reports first leaves a quiet opponent behind.
LEMMA LeftQuiet ==
  ASSUME NEW p, NEW q, Acting(p, q), faults'.timeouts <= 1, Same(p),
         HearsEarly(p, q) \/ HearsNow(p, q) \/ HearsNothing(p, q)
  PROVE  Quiet(q)
<1> USE Known
<1>1. pc[p] = "audit" /\ InGame(p) /\ result[p] # None
  BY DEF HearsEarly, HearsNow, HearsNothing, Reports, InGame, LocalInv
<1>2. /\ game[p] = game[q] /\ pc[q] \in {"meet", "open", "play", "audit"}
      /\ ~Over(p)
  BY <1>1, Pace DEF Over
<1>3. HasAudit(q) \/ (InGame(q) /\ heard[q] # None)
  BY <1>1 DEF PairInv, ToldInv
<1>4. ASSUME NEW c, c # None, Claimed(q, game[p], c)
      PROVE  Quiet(q)
  <2>1. Count(q) = game[p] - 1
    BY <1>1, <1>2 DEF Same, Alive, LocalInv, Gone, Over
  <2>2. ~(game[p] <= Count(q))
    BY <2>1, Numbers
  <2>3. pc[q] = "audit" /\ result[q] # None
    BY <1>2, <1>4, <2>2 DEF Claimed
  <2> QED BY <1>3, <2>3 DEF Quiet
<1>5. CASE HearsEarly(p, q)
  <2>1. heard[p] # None /\ Claimed(q, game[p], heard[p])
    BY <1>1, <1>5 DEF HearsEarly, ClaimInv
  <2> QED BY <1>4, <2>1
<1>6. CASE HearsNow(p, q)
  <2>1. PICK a \in AuditClaims(p) : a.game = game[p]
    BY <1>6 DEF HearsNow
  <2>2. Claimed(q, game[p], a.claim)
    BY <2>1 DEF ClaimInv
  <2>3. a.claim # None
    BY AuditTypes, NoneAssumption
  <2> QED BY <1>4, <2>2, <2>3
<1>7. CASE HearsNothing(p, q)
  <2>1. faults.timeouts = 0
    <3>1. Running(q)
      BY <1>2 DEF Running
    <3>2. faults'.timeouts = faults.timeouts + 1 /\ faults.timeouts \in Nat
      BY <1>7, <3>1, Numbers DEF HearsNothing, Expired
    <3> QED BY <3>2
  <2>2. Ended(q)
    BY <1>1, <1>7, <2>1 DEF HearsNothing, PairInv, EndInv
  <2> QED BY <1>3, <2>2 DEF Ended, Quiet, LocalInv, InGame
<1> QED BY <1>5, <1>6, <1>7

LEMMA OverForGood ==
  ASSUME NEW p, NEW q, Acting(p, q), Works(p), Over(p)
  PROVE  Over(p)'
<1> USE Known DEF Over
<1>1. CASE Greets(p, q) \/ Meets(p, q) \/ Hears(p) \/ Polls(p, q) \/ TimesOut(p)
  BY <1>1 DEF Greets, Meets, Hears, Polls, TimesOut
<1>2. CASE \E m : Moves(p, q, m)
  BY <1>2 DEF Moves
<1>3. CASE Closes(p, q) \/ Settles(p, q) \/ Ends(p, q)
  BY <1>3 DEF Closes, Settles, Ends
<1>4. ~(HearsEarly(p, q) \/ HearsNow(p, q) \/ HearsNothing(p, q)) /\ ~Leaves(p)
  BY DEF Works, Leaves, HearsEarly, HearsNow, HearsNothing, Reports
<1> QED BY <1>1, <1>2, <1>3, <1>4 DEF Effect

LEMMA PaceKept ==
  ASSUME NEW p, NEW q, Acting(p, q), faults'.timeouts <= 1
  PROVE  PaceInv(p)' /\ PaceInv(q)'
<1> USE Known
<1>0. Count(p) \in Nat /\ Count(q) \in Nat
  BY Numbers
<1>1. CASE Leaves(p)
  BY <1>1 DEF Leaves, PaceInv, Ahead, Alive, Gone
<1>2. CASE Works(p)
  <2>1. /\ Alive(p)' => Alive(p) /\ Alive(q)
        /\ Ahead(p)' => Ahead(p)
        /\ Ahead(q)' => Ahead(q)
        /\ Count(p)' = Count(p) /\ Count(q)' = Count(q)
    BY <1>2, DistanceKept
  <2>2. Alive(p)' <=> Alive(q)'
    BY DEF Alive
  <2>3. /\ Alive(p)' => Count(p)' <= Count(q)' + 1
        /\ Alive(q)' => Count(q)' <= Count(p)' + 1
    BY <2>1, <2>2 DEF PairInv, PaceInv
  <2>4. Ahead(p)' => Quiet(q)' /\ (Over(p)' \/ mail'[p].turns = <<>>)
    <3>1. SUFFICES ASSUME Ahead(p) PROVE Quiet(q)' /\ (Over(p)' \/ mail'[p].turns = <<>>)
      BY <2>1
    <3>2. Quiet(q) /\ (Over(p) \/ mail[p].turns = <<>>)
      BY <3>1 DEF PairInv, PaceInv
    <3>3. ~(Polls(p, q) /\ (Adopts(p) \/ Listens(p)))
      BY <3>1, Pace DEF Polls, InGame, Ahead
    <3>4. Over(p) => Over(p)'
      BY <1>2, OverForGood
    <3> QED BY <3>2, <3>3, <3>4, QuietOther, TurnsLeft
  <2>5. Ahead(q)' => Quiet(p)' /\ (Over(q)' \/ mail'[q].turns = <<>>)
    <3>1. SUFFICES ASSUME Ahead(q) PROVE Quiet(p)' /\ (Over(q)' \/ mail'[q].turns = <<>>)
      BY <2>1
    <3>2. Quiet(p) /\ (Over(q) \/ mail[q].turns = <<>>)
      BY <3>1 DEF PairInv, PaceInv
    <3>3. Quiet(p)'
      BY <1>2, <3>2, QuietSelf DEF Works, Leaves, Reports
    <3>4. Over(q)' <=> Over(q)
      BY DEF Keeps, Over
    <3> QED BY <3>2, <3>3, <3>4, QuietMakesNoMove, TurnsPushed
  <2> QED BY <2>3, <2>4, <2>5 DEF PaceInv
<1>3. CASE HearsEarly(p, q) \/ HearsNow(p, q) \/ HearsNothing(p, q)
  <2> SUFFICES ASSUME Alive(p)' PROVE PaceInv(p)' /\ PaceInv(q)'
    BY DEF PaceInv, Ahead, Alive
  <2>1. PICK agreed \in BOOLEAN : Reports(p, q, agreed)
    BY <1>3 DEF HearsEarly, HearsNow, HearsNothing, Reports
  <2>2. /\ Same(p) \/ Ahead(q)
        /\ Same(p) => Ahead(p)' /\ ~Same(p)' /\ ~Ahead(q)'
        /\ Ahead(q) => Same(p)' /\ ~Ahead(p)' /\ ~Ahead(q)'
    BY <2>1, DistanceAfterReport
  <2>3. Count(p)' = Count(p) + 1 /\ Count(q)' = Count(q)
    BY <2>1, DistanceAfterReport
  <2>4. CASE Same(p)
    <3>1. Quiet(q)' /\ mail'[p].turns = <<>>
      BY <1>3, <2>1, <2>4, LeftQuiet, QuietOther DEF Reports
    <3>2. Count(p)' <= Count(q)' + 1 /\ Count(q)' <= Count(p)' + 1
      BY <1>0, <2>3, <2>4 DEF Same
    <3> QED BY <2>2, <2>4, <3>1, <3>2 DEF PaceInv
  <2>5. CASE Ahead(q)
    <3>1. Count(p)' <= Count(q)' + 1 /\ Count(q)' <= Count(p)' + 1
      BY <1>0, <2>3, <2>5 DEF Ahead
    <3> QED BY <2>2, <2>5, <3>1 DEF PaceInv
  <2> QED BY <2>2, <2>4, <2>5
<1>4. Leaves(p) \/ Works(p) \/ HearsEarly(p, q) \/ HearsNow(p, q) \/ HearsNothing(p, q)
  BY Kinds DEF Effect, Works, Reports, Greets, Meets, Moves, Hears, Polls, TimesOut, Closes,
     Settles, Sends, Ends
<1> QED BY <1>1, <1>2, <1>3, <1>4

LEMMA ToldSelf ==
  ASSUME NEW p, NEW q, Acting(p, q)
  PROVE  ToldInv(p)'
<1> USE Known
<1> SUFFICES ASSUME pc'[p] = "audit", Same(p)'
             PROVE  HasAudit(q)'
  BY DEF ToldInv
<1>1. Closes(p, q)
  <2>1. CASE Leaves(p) \/ Greets(p, q) \/ Meets(p, q) \/ \E m : Moves(p, q, m)
    BY <2>1 DEF Leaves, Greets, Meets, Moves
  <2>2. CASE Hears(p) \/ TimesOut(p) \/ Polls(p, q) \/ Settles(p, q) \/ Ends(p, q)
    BY <2>2 DEF Hears, TimesOut, Polls, Settles, Ends
  <2>3. CASE HearsEarly(p, q) \/ HearsNow(p, q) \/ HearsNothing(p, q)
    BY <2>3 DEF HearsEarly, HearsNow, HearsNothing, Reports
  <2> QED BY <2>1, <2>2, <2>3 DEF Effect
<1>2. Works(p)
  BY <1>1 DEF Closes, Sends, Works
<1>3. Same(p)
  BY <1>2, DistanceKept
<1>4. game[p] = game[q] /\ Reachable(q)
  <2>1. game[p] = game[q]
    BY <1>3, Pace
  <2>2. Reachable(q)
    BY <1>3 DEF Same, Alive, Gone, Reachable
  <2> QED BY <2>1, <2>2
<1>5. Audit(game[p], result[p]) \in ToSet(mail'[q].audits)
  BY <1>1, <1>4 DEF Closes, Sends
<1>6. game'[q] = game[q]
  BY DEF Keeps
<1> QED BY <1>4, <1>5, <1>6 DEF HasAudit, AuditClaims, Audit

LEMMA ToldOther ==
  ASSUME NEW p, NEW q, Acting(p, q)
  PROVE  ToldInv(q)'
<1> USE Known
<1> SUFFICES ASSUME pc'[q] = "audit", Same(q)'
             PROVE  HasAudit(p)' \/ (InGame(p)' /\ heard'[p] # None)
  BY DEF ToldInv
<1>1. Same(p)' /\ Alive(p)' /\ pc[q] = "audit"
  BY DEF Same, Alive, Keeps
<1>2. ASSUME NEW agreed \in BOOLEAN, Reports(p, q, agreed) PROVE FALSE
  <2>1. Ahead(q) /\ Alive(q)
    BY <1>1, <1>2, DistanceAfterReport DEF Ahead
  <2> QED BY <1>1, <2>1, Pace DEF InGame
<1>3. Works(p)
  BY <1>1, <1>2, Kinds DEF Leaves, Alive, Gone
<1>4. Same(q)
  BY <1>1, <1>3, DistanceKept
<1>5. HasAudit(p) \/ (InGame(p) /\ heard[p] # None)
  BY <1>1, <1>4 DEF PairInv, ToldInv
<1>6. pc[p] \in {"meet", "open", "play", "audit"}
  BY <1>1, <1>4, Pace DEF InGame
<1>7. CASE Greets(p, q) \/ Settles(p, q) \/ Ends(p, q)
  BY <1>6, <1>7 DEF Greets, Settles, Ends
<1>8. CASE Meets(p, q)
  <2>1. HasAudit(p)
    BY <1>5, <1>8 DEF Meets, InGame
  <2> QED BY <1>8, <2>1, SameAudits DEF Meets
<1>9. ASSUME NEW m, Moves(p, q, m)
      PROVE  HasAudit(p)' \/ (InGame(p)' /\ heard'[p] # None)
  <2>1. /\ mail'[p].audits = mail[p].audits /\ game'[p] = game[p]
        /\ heard'[p] = heard[p] /\ InGame(p)'
    BY <1>9 DEF Moves, InGame
  <2> QED BY <1>5, <2>1, SameAudits
<1>10. CASE Hears(p) \/ TimesOut(p) \/ Closes(p, q)
  <2>1. /\ mail'[p].audits = mail[p].audits /\ game'[p] = game[p]
        /\ heard'[p] = heard[p] /\ InGame(p)'
    BY <1>10 DEF Hears, TimesOut, Closes, Sends, InGame
  <2> QED BY <1>5, <2>1, SameAudits
<1>11. CASE Polls(p, q) /\ Adopts(p)
  BY <1>11, AdoptedIsOutcome DEF Polls, InGame
<1>12. CASE Polls(p, q) /\ Listens(p)
  BY <1>5, <1>12 DEF Polls, Listens, InGame
<1>13. CASE HearsEarly(p, q) \/ HearsNow(p, q) \/ HearsNothing(p, q)
  BY <1>2, <1>13 DEF HearsEarly, HearsNow, HearsNothing, Reports
<1>14. ~Leaves(p)
  BY <1>3 DEF Works, Leaves
<1> QED BY <1>7, <1>8, <1>9, <1>10, <1>11, <1>12, <1>13, <1>14 DEF Effect

\* Two peers in the same game hold opposite roles.
LEMMA OppositeRoles ==
  ASSUME NEW p, NEW q, Pair(p, q), NEW n
  PROVE  /\ Role(p, n) \in {"police", "thief"}
         /\ Role(p, n) = "thief" <=> Role(q, n) = "police"
<1>1. (p = Natural) # (q = Natural)
  BY SeriesAssumption DEF Pair
<1> QED BY <1>1 DEF Role

\* One token: when p is to answer a turn, its opponent has none to answer, and
\* all the turns on their way to the opponent are old ones.
LEMMA OneToken ==
  ASSUME NEW p, NEW q, Acting(p, q), Same(p), NEW m, Moves(p, q, m),
         pc[q] \in {"meet", "open", "play"}, pc[q] \in {"open", "play"} => result[q] = None
  PROVE  /\ pc[q] # "open"
         /\ pc[q] = "meet" => Role(q, game[q]) = "police"
         /\ ready[q] = <<>>
         /\ Awaited(q) - 1 = step[p] /\ Awaited(q) \in Nat
         /\ \A i \in DOMAIN mail[q].turns : mail[q].turns[i].step < Awaited(q)
<1> USE Known
<1>0. /\ step[p] \in Nat /\ step[q] \in Nat /\ game[p] = game[q] /\ Same(q)
      /\ Playing(p) /\ pc[p] \in {"open", "play"} /\ result[p] = None
      /\ Role(p, game[p]) = "thief" <=> Role(q, game[q]) = "police"
      /\ Role(p, game[p]) \in {"police", "thief"}
  <2>1. Playing(p) /\ pc[p] \in {"open", "play"} /\ result[p] = None
    BY DEF Moves, Playing
  <2>2. game[p] = game[q]
    BY Pace
  <2> QED BY <2>1, <2>2, Numbers, Symmetry, OppositeRoles
<1>1. Listening(p) /\ Listening(q)
  BY <1>0 DEF Listening, Playing, Fresh
<1>2. /\ Awaited(p) - 1 <= Sent(q) /\ Awaited(q) - 1 <= Sent(p)
      /\ \A i \in DOMAIN mail[q].turns : mail[q].turns[i].step <= Sent(p)
  BY <1>0, <1>1 DEF StreamInv
<1>3. /\ Awaited(p) = inbox[p].next /\ Sent(p) = step[p] /\ inbox[p].next \in Nat \ {0}
  BY <1>0 DEF Awaited, Sent, InGame, Fresh, LocalInv, InOrder, Playing
<1>4. Awaited(q) \in Nat \ {0}
  BY DEF Awaited, Fresh, LocalInv, InOrder, Playing
<1>5. /\ mail[q].turns \in Seq(Turns) /\ ready[q] \in Seq(Turns)
      /\ \A i \in DOMAIN mail[q].turns : mail[q].turns[i].step \in Nat
  <2>1. mail[q].turns \in Seq(Turns) /\ ready[q] \in Seq(Turns)
    BY DEF TypeInv
  <2>2. \A i \in DOMAIN mail[q].turns : mail[q].turns[i] \in Turns
    BY <2>1
  <2> QED BY <2>1, <2>2 DEF Turns
<1>6. pc[q] # "play" => ready[q] = <<>>
  BY DEF LocalInv, Gone
<1>7. pc[p] = "play" =>
        /\ step[p] = inbox[p].next - 2 + (IF Role(p, game[p]) = "thief" THEN 1 ELSE 0)
        /\ step[p] >= 0
  <2> SUFFICES ASSUME pc[p] = "play"
               PROVE  step[p] = inbox[p].next - 2
                                  + (IF Role(p, game[p]) = "thief" THEN 1 ELSE 0)
    BY <1>0
  <2>1. Len(ready[p]) = 1
    BY <1>0 DEF Moves, LocalInv
  <2>2. step[p] = inbox[p].next - 1 - Len(ready[p])
                    + (IF Role(p, game[p]) = "thief" THEN 1 ELSE 0)
    BY <1>0 DEF LocalInv
  <2>3. inbox[p].next - 1 - 1 = inbox[p].next - 2
    BY <1>3
  <2> QED BY <2>1, <2>2, <2>3
<1>8. pc[p] = "open" => step[p] = 0 /\ Role(p, game[p]) = "thief" /\ inbox[p].next = 1
  BY DEF LocalInv
<1>9. pc[q] = "play" =>
        /\ Awaited(q) = inbox[q].next
        /\ Sent(q) = step[q]
        /\ ready[q] = <<>> \/ (Len(ready[q]) = 1 /\ ready[q][1].step = inbox[q].next - 1)
        /\ step[q] = inbox[q].next - 1 - Len(ready[q])
                      + (IF Role(q, game[q]) = "thief" THEN 1 ELSE 0)
  BY DEF LocalInv, Awaited, Sent, Fresh, InGame
<1>10. pc[q] = "open" => Sent(q) = 0 /\ Role(q, game[q]) = "thief"
  BY DEF LocalInv, Sent, InGame
<1>11. pc[q] = "meet" => Sent(q) = 0 /\ Awaited(q) = 1
  BY DEF Sent, InGame, Awaited, Fresh
<1>12. CASE pc[p] = "open"
  <2>1. Awaited(q) = 1
    BY <1>2, <1>3, <1>4, <1>8, <1>12
  <2>2. ready[q] = <<>>
    <3> SUFFICES ASSUME ready[q] # <<>> PROVE FALSE
      OBVIOUS
    <3>1. pc[q] = "play"
      BY <1>6
    <3>2. ready[q][1].step = 0
      BY <1>9, <2>1, <3>1
    <3>3. 1 \in DOMAIN ready[q]
      BY <1>5
    <3>4. ready[q][1].step >= 1
      BY <1>1, <3>3 DEF StreamInv, Sound
    <3> QED BY <3>2, <3>4
  <2>3. \A i \in DOMAIN mail[q].turns : mail[q].turns[i].step < Awaited(q)
    BY <1>2, <1>3, <1>5, <1>8, <1>12, <2>1
  <2> QED BY <1>0, <1>3, <1>8, <1>10, <1>12, <2>1, <2>2, <2>3
<1>13. CASE pc[p] = "play"
  <2>1. inbox[p].next >= 1 /\ inbox[p].next - 1 <= Sent(q)
    BY <1>2, <1>3
  <2>2. CASE pc[q] # "play"
    <3>1. inbox[p].next = 1
      BY <1>3, <1>10, <1>11, <2>1, <2>2
    <3>2. step[p] = 0 /\ Role(p, game[p]) = "thief"
      BY <1>0, <1>7, <1>13, <3>1
    <3>3. pc[q] = "meet" /\ Awaited(q) = 1 /\ ready[q] = <<>>
      BY <1>0, <1>6, <1>10, <1>11, <2>2, <3>2
    <3>4. \A i \in DOMAIN mail[q].turns : mail[q].turns[i].step < Awaited(q)
      BY <1>2, <1>3, <1>5, <3>2, <3>3
    <3> QED BY <1>0, <3>2, <3>3, <3>4
  <2>3. CASE pc[q] = "play"
    <3> DEFINE r == Len(ready[q])  a == inbox[p].next  b == inbox[q].next
               d == IF Role(p, game[p]) = "thief" THEN 1 ELSE 0
               e == IF Role(q, game[q]) = "thief" THEN 1 ELSE 0
    <3>1. r \in Nat /\ a \in Nat /\ b \in Nat /\ d \in Nat /\ e \in Nat /\ d + e = 1
      BY <1>0, <1>3, <1>4, <1>5, <1>9, <2>3, OppositeRoles
    <3>2. a - 1 <= step[q] /\ b - 1 <= step[p]
      BY <1>2, <1>3, <1>9, <2>3
    <3>3. step[p] = a - 2 + d /\ step[q] = b - 1 - r + e
      BY <1>7, <1>9, <1>13, <2>3
    <3>4. r = 0 /\ b - 1 = step[p]
      <4> HIDE DEF r, a, b, d, e
      <4> QED BY <1>0, <3>1, <3>2, <3>3
    <3>5. ready[q] = <<>>
      BY <1>5, <3>4
    <3>6. \A i \in DOMAIN mail[q].turns : mail[q].turns[i].step < Awaited(q)
      BY <1>0, <1>2, <1>3, <1>4, <1>5, <1>9, <2>3, <3>4
    <3> QED BY <1>9, <2>3, <3>1, <3>4, <3>5, <3>6
  <2> QED BY <2>2, <2>3
<1> QED BY <1>0, <1>12, <1>13

LEMMA EndSelf ==
  ASSUME NEW p, NEW q, Acting(p, q)
  PROVE  EndInv(p)'
<1> USE Known
<1> SUFFICES ASSUME faults'.timeouts = 0, Same(p)', pc'[p] \in {"play", "audit"},
                    result'[p] # None, heard'[p] = None
             PROVE  Ended(q)'
  BY DEF EndInv
<1>1. faults.timeouts = 0
  <2>1. faults.timeouts <= faults'.timeouts /\ faults.timeouts \in Nat
    BY Numbers DEF Grows
  <2> QED BY <2>1
<1>2. CASE Works(p)
  <2>1. Same(p)
    BY <1>2, DistanceKept
  <2>2. ASSUME NEW m, Moves(p, q, m) PROVE Ended(q)'
    <3>1. Final(m)
      BY <2>2 DEF Moves
    <3>2. pc[q] \in {"meet", "open", "play", "audit"}
      BY <2>1, <2>2, Pace DEF Moves, InGame
    <3>3. CASE pc[q] \in {"open", "play", "audit"} /\ result[q] # None
      BY <3>3 DEF Ended, Keeps, LocalInv
    <3>4. CASE pc[q] = "audit"
      BY <3>4 DEF Ended, Keeps, LocalInv
    <3>5. CASE pc[q] = "meet" \/ (pc[q] \in {"open", "play"} /\ result[q] = None)
      <4>1. /\ pc[q] # "open"
            /\ pc[q] = "meet" => Role(q, game[q]) = "police"
            /\ ready[q] = <<>>
            /\ Awaited(q) - 1 = step[p] /\ Awaited(q) \in Nat
            /\ \A i \in DOMAIN mail[q].turns : mail[q].turns[i].step < Awaited(q)
        BY <2>1, <2>2, <3>5, OneToken
      <4>2. mail[q].turns \in Seq(Turns) /\ Copied(mail[q].turns, m, mail'[q].turns)
        BY <2>2 DEF Moves, TypeInv
      <4>3. m \in Turns
        BY <2>2 DEF Moves
      <4>4. \A i \in DOMAIN mail'[q].turns :
              \/ i \in DOMAIN mail[q].turns /\ mail'[q].turns[i] = mail[q].turns[i]
              \/ mail'[q].turns[i] = m
        <5> DEFINE s == mail[q].turns  t == mail'[q].turns
        <5>1. s \in Seq(Turns) /\ Copied(s, m, t)
          BY <4>2
        <5> HIDE DEF s, t
        <5>2. /\ \A i \in DOMAIN s : i \in DOMAIN t /\ t[i] = s[i]
              /\ \A i \in DOMAIN t : i \in DOMAIN s \/ (i > Len(s) /\ t[i] = m)
          BY <4>3, <5>1, Pushed
        <5>3. \A i \in DOMAIN t : (i \in DOMAIN s /\ t[i] = s[i]) \/ t[i] = m
          BY <5>2
        <5> QED BY <5>3 DEF s, t
      <4>5. \A i \in DOMAIN mail[q].turns : mail[q].turns[i].step \in Nat
        <5>1. \A i \in DOMAIN mail[q].turns : mail[q].turns[i] \in Turns
          BY <4>2
        <5> QED BY <5>1 DEF Turns
      <4>6. CASE pc[q] = "meet"
        <5>1. Awaited(q) = 1
          BY <4>6 DEF Awaited, Fresh
        <5>2. \A i \in DOMAIN mail[q].turns : mail[q].turns[i].step >= 1
          BY <2>1, <4>6 DEF StreamInv, Listening, Fresh, Sound
        <5>3. \A i \in DOMAIN mail[q].turns : FALSE
          BY <4>1, <4>5, <5>1, <5>2
        <5>4. \A i \in DOMAIN mail'[q].turns : Final(mail'[q].turns[i])
          BY <3>1, <4>4, <5>3
        <5>5. pc'[q] = "meet" /\ Role(q, game[q])' = "police"
          BY <4>1, <4>6 DEF Keeps, Role
        <5> QED BY <5>4, <5>5 DEF Ended
      <4>7. CASE pc[q] = "play" /\ result[q] = None
        <5>1. Awaited(q) = inbox[q].next
          BY <4>7 DEF Awaited, Fresh
        <5>2. \A i \in DOMAIN mail'[q].turns :
                mail'[q].turns[i].step >= inbox[q].next => Final(mail'[q].turns[i])
          <6>1. \A i \in DOMAIN mail[q].turns : ~(mail[q].turns[i].step >= inbox[q].next)
            BY <4>1, <4>5, <5>1
          <6> QED BY <3>1, <4>4, <6>1
        <5> QED BY <4>1, <4>7, <5>2 DEF Ended, Keeps
      <4> QED BY <3>5, <4>1, <4>6, <4>7
    <3> QED BY <3>2, <3>3, <3>4, <3>5
  <2>3. CASE Hears(p)
    <3>1. ready[p] \in Seq(Turns) /\ ready[p] # <<>> /\ Final(ready[p][1])
      BY <2>3 DEF Hears, TypeInv
    <3>2. 1 \in DOMAIN ready[p] /\ ready[p][1] \in Turns
      BY <3>1
    <3>3. Listening(p)
      BY <2>3 DEF Hears, Listening, Playing
    <3>4. InGame(q) /\ result[q] = Says(ready[p][1])
      BY <2>1, <3>1, <3>2, <3>3 DEF StreamInv, Sound
    <3>5. result[q] # None
      BY <2>3, <3>4, HeardIsOutcome DEF Hears
    <3> QED BY <3>4, <3>5 DEF Ended, Keeps, InGame, LocalInv
  <2>4. CASE Polls(p, q) /\ Adopts(p)
    BY <2>4, AdoptedIsOutcome
  <2>5. CASE TimesOut(p) /\ Expired(q)
    <3>1. Running(q)
      BY <2>1, <2>5, Pace DEF TimesOut, InGame, Running
    <3> QED BY <1>1, <2>5, <3>1 DEF Expired
  <2>6. CASE Closes(p, q)
    <3>1. Ended(q)
      BY <1>1, <2>1, <2>6 DEF Closes, Sends, PairInv, EndInv
    <3> QED BY <2>6, <3>1, EndedOther DEF Closes, Sends
  <2>7. CASE Greets(p, q) \/ Meets(p, q) \/ Settles(p, q) \/ Ends(p, q)
    BY <2>7 DEF Greets, Meets, Settles, Ends
  <2>8. CASE Polls(p, q) /\ Listens(p)
    BY <2>8 DEF Polls, Listens
  <2>9. ~(HearsEarly(p, q) \/ HearsNow(p, q) \/ HearsNothing(p, q)) /\ ~Leaves(p)
    BY <1>2 DEF Works, Leaves, HearsEarly, HearsNow, HearsNothing, Reports
  <2> QED BY <2>2, <2>3, <2>4, <2>5, <2>6, <2>7, <2>8, <2>9 DEF Effect
<1>3. CASE Leaves(p) \/ \E agreed \in BOOLEAN : Reports(p, q, agreed)
  BY <1>3 DEF Leaves, Reports
<1> QED BY <1>2, <1>3, Kinds

LEMMA EndOther ==
  ASSUME NEW p, NEW q, Acting(p, q)
  PROVE  EndInv(q)'
<1> USE Known
<1> SUFFICES ASSUME faults'.timeouts = 0, Same(q)', pc'[q] \in {"play", "audit"},
                    result'[q] # None, heard'[q] = None
             PROVE  Ended(p)'
  BY DEF EndInv
<1>1. faults.timeouts = 0
  <2>1. faults.timeouts <= faults'.timeouts /\ faults.timeouts \in Nat
    BY Numbers DEF Grows
  <2> QED BY <2>1
<1>2. /\ Same(p)' /\ Alive(p)' /\ pc[q] \in {"play", "audit"}
      /\ result[q] # None /\ heard[q] = None
  BY DEF Same, Alive, Keeps
<1>3. ASSUME NEW agreed \in BOOLEAN, Reports(p, q, agreed) PROVE FALSE
  <2>1. Ahead(q) /\ Alive(q)
    BY <1>2, <1>3, DistanceAfterReport DEF Ahead
  <2> QED BY <1>2, <2>1, Pace DEF InGame
<1>4. ~Leaves(p)
  BY <1>2 DEF Leaves, Alive, Gone
<1>5. Works(p)
  BY <1>3, <1>4, Kinds
<1>6. Same(q)
  BY <1>2, <1>5, DistanceKept
<1>7. Ended(p)
  BY <1>1, <1>2, <1>6 DEF PairInv, EndInv
<1> QED BY <1>3, <1>4, <1>7, EndedSelf

LEMMA PairKept ==
  ASSUME NEW p, NEW q, Acting(p, q), faults'.timeouts <= 1
  PROVE  PairInv(p)' /\ PairInv(q)'
BY GreetingsKept, PaceKept, ToldSelf, ToldOther, EndSelf, EndOther DEF PairInv

-----------------------------------------------------------------------------
(* StreamInv. *)

LEMMA SoundSelf ==
  ASSUME NEW p, NEW q, Acting(p, q), game'[p] = game[p], Same(p)' => Same(p),
         NEW m, Sound(p, m)
  PROVE  Sound(p, m)'
<1> USE Known
<1>1. /\ InGame(q)' <=> InGame(q)
      /\ result'[q] = result[q] /\ Role(p, game[p])' = Role(p, game[p])
  BY DEF Keeps, InGame, Role
<1>2. conceded \subseteq conceded' /\ survived \subseteq survived'
  BY DEF Grows
<1> QED BY <1>1, <1>2 DEF Sound

\* The parts of StreamInv.
Streams(p, s, w, r) ==
  /\ \A i \in DOMAIN s :
       /\ s[i].step <= w \/ \E j \in 1..i - 1 : s[j].step = s[i].step - 1
       /\ Sound(p, s[i])
  /\ \A i \in DOMAIN r : Sound(p, r[i])

Keeping(s, w, n) ==
  /\ \A i \in DOMAIN s : s[i].step <= n
  /\ w - 1 <= n
  /\ n <= w - 1 \/ \E j \in DOMAIN s : s[j].step = n

LEMMA StreamParts ==
  ASSUME NEW p
  PROVE  StreamInv(p) <=>
           (Listening(p) => /\ Streams(p, mail[p].turns, Awaited(p), ready[p])
                            /\ Same(p) => Keeping(mail[p].turns, Awaited(p),
                                                  Sent(Opponent(p))))
BY DEF StreamInv, Streams, Keeping, Follows

LEMMA TailStreams ==
  ASSUME NEW s \in Seq(Turns), s # <<>>, NEW w \in Nat, NEW v \in Nat, w <= v,
         s[1].step < v, NEW p, NEW r, Streams(p, s, w, r)
  PROVE  /\ Streams(p, Tail(s), v, r)
         /\ \A n \in Nat : Keeping(s, w, n) /\ v - 1 <= n => Keeping(Tail(s), v, n)
<1>1. /\ DOMAIN s = 1..Len(s) /\ DOMAIN Tail(s) = 1..Len(s) - 1 /\ Len(s) \in Nat
      /\ 1 \in DOMAIN s
      /\ \A i \in DOMAIN Tail(s) : i + 1 \in DOMAIN s /\ Tail(s)[i] = s[i + 1]
  OBVIOUS
<1>2. \A i \in DOMAIN s : s[i].step \in Nat
  <2>1. \A i \in DOMAIN s : s[i] \in Turns
    OBVIOUS
  <2> QED BY <2>1 DEF Turns
<1>3. ASSUME NEW i \in DOMAIN Tail(s)
      PROVE  /\ \/ Tail(s)[i].step <= v
                \/ \E j \in 1..i - 1 : Tail(s)[j].step = Tail(s)[i].step - 1
             /\ Sound(p, Tail(s)[i])
  <2>1. i + 1 \in DOMAIN s /\ Tail(s)[i] = s[i + 1] /\ i \in Nat
    BY <1>1
  <2>2. Sound(p, s[i + 1])
    BY <2>1 DEF Streams
  <2>3. s[i + 1].step <= w \/ \E j \in 1..(i + 1) - 1 : s[j].step = s[i + 1].step - 1
    BY <2>1 DEF Streams
  <2>4. CASE s[i + 1].step <= w
    BY <1>2, <2>1, <2>2, <2>4
  <2>5. ASSUME NEW j \in 1..(i + 1) - 1, s[j].step = s[i + 1].step - 1
        PROVE  \/ Tail(s)[i].step <= v
               \/ \E k \in 1..i - 1 : Tail(s)[k].step = Tail(s)[i].step - 1
    <3>1. CASE j = 1
      <4>1. s[1].step \in Nat /\ s[i + 1].step \in Nat
        BY <1>1, <1>2, <2>1
      <4> QED BY <2>1, <2>5, <3>1, <4>1
    <3>2. CASE j # 1
      <4>1. j - 1 \in 1..i - 1 /\ j - 1 \in DOMAIN Tail(s) /\ (j - 1) + 1 = j
        BY <1>1, <2>1, <3>2
      <4>2. Tail(s)[j - 1] = s[j]
        BY <1>1, <4>1
      <4> QED BY <2>1, <2>5, <4>1, <4>2
    <3> QED BY <3>1, <3>2
  <2> QED BY <2>1, <2>2, <2>3, <2>4, <2>5
<1>4. ASSUME NEW n \in Nat, Keeping(s, w, n), v - 1 <= n
      PROVE  Keeping(Tail(s), v, n)
  <2>1. \A i \in DOMAIN Tail(s) : Tail(s)[i].step <= n
    BY <1>1, <1>4 DEF Keeping
  <2>2. CASE n <= w - 1
    <3>1. n <= v - 1
      BY <2>2
    <3> QED BY <1>4, <2>1, <3>1 DEF Keeping
  <2>3. ASSUME NEW j \in DOMAIN s, s[j].step = n
        PROVE  n <= v - 1 \/ \E k \in DOMAIN Tail(s) : Tail(s)[k].step = n
    <3>1. CASE j = 1
      BY <2>3, <3>1
    <3>2. CASE j # 1
      <4>1. j - 1 \in DOMAIN Tail(s) /\ (j - 1) + 1 = j
        BY <1>1, <3>2
      <4>2. Tail(s)[j - 1] = s[j]
        BY <1>1, <4>1
      <4> QED BY <2>3, <4>1, <4>2
    <3> QED BY <3>1, <3>2
  <2> QED BY <1>4, <2>1, <2>2, <2>3 DEF Keeping
<1> QED BY <1>3, <1>4 DEF Streams

\* The other peer has not moved, so what is known of its turns still holds.
LEMMA StreamsCarried ==
  ASSUME NEW p, NEW q, Acting(p, q), Works(p),
         Streams(p, mail'[p].turns, Awaited(p)', ready'[p]),
         Same(p) => Keeping(mail'[p].turns, Awaited(p)', Sent(q))
  PROVE  StreamInv(p)'
<1> USE Known
<1>1. game'[p] = game[p] /\ (Same(p)' => Same(p))
  BY DistanceKept DEF Works
<1>2. \A m : Sound(p, m) => Sound(p, m)'
  BY <1>1, SoundSelf
<1>3. Sent(q)' = Sent(q)
  BY DEF Keeps, Sent, InGame
<1>4. Streams(p, mail[p].turns, Awaited(p), ready[p])'
  BY <1>2 DEF Streams
<1>5. Same(p)' => Keeping(mail[p].turns, Awaited(p), Sent(q))'
  BY <1>1, <1>3 DEF Keeping
<1>6. StreamInv(p)' <=>
           (Listening(p)' => /\ Streams(p, mail[p].turns, Awaited(p), ready[p])'
                             /\ Same(p)' => Keeping(mail[p].turns, Awaited(p), Sent(q))')
  BY DEF StreamInv, Streams, Keeping, Follows
<1> QED BY <1>4, <1>5, <1>6

LEMMA StreamSelf ==
  ASSUME NEW p, NEW q, Acting(p, q)
  PROVE  StreamInv(p)'
<1> USE Known
<1> DEFINE s == mail[p].turns
<1>1. ASSUME Listening(p)
      PROVE  /\ Streams(p, s, Awaited(p), ready[p])
             /\ Same(p) => Keeping(s, Awaited(p), Sent(q))
  BY <1>1, StreamParts
<1>2. ASSUME Listening(p), Works(p), mail'[p].turns = s, Awaited(p)' = Awaited(p),
             ready'[p] = ready[p] \/ ready'[p] = <<>>
      PROVE  StreamInv(p)'
  <2>1. Streams(p, s, Awaited(p), ready'[p])
    BY <1>1, <1>2 DEF Streams
  <2> QED BY <1>1, <1>2, <2>1, StreamsCarried
<1>3. CASE Greets(p, q)
  <2>1. /\ Listening(p) /\ Works(p) /\ mail'[p].turns = s /\ ready'[p] = ready[p]
        /\ Awaited(p)' = Awaited(p)
    BY <1>3 DEF Greets, Listening, Fresh, Works, Awaited
  <2> QED BY <1>2, <2>1
<1>4. CASE Meets(p, q)
  <2>1. /\ Listening(p) /\ Works(p) /\ mail'[p].turns = s /\ ready'[p] = ready[p]
        /\ Awaited(p)' = Awaited(p)
    BY <1>4 DEF Meets, Listening, Fresh, Works, Awaited, EmptyInbox
  <2> QED BY <1>2, <2>1
<1>5. ASSUME NEW m, Moves(p, q, m) PROVE StreamInv(p)'
  <2>1. /\ Listening(p) /\ Works(p) /\ mail'[p].turns = s /\ ready'[p] = <<>>
        /\ Awaited(p)' = Awaited(p)
    BY <1>5 DEF Moves, Listening, Playing, Fresh, Works, Awaited
  <2> QED BY <1>2, <2>1
<1>6. CASE ~Listening(p)'
  BY <1>6 DEF StreamInv
<1>7. CASE Hears(p)
  BY <1>6, <1>7, HeardIsOutcome DEF Hears, Listening, Fresh
<1>8. CASE TimesOut(p)
  BY <1>6, <1>8, NoneAssumption DEF TimesOut, Listening, Fresh, Outcomes
<1>9. CASE Polls(p, q) /\ Adopts(p)
  BY <1>6, <1>9, AdoptedIsOutcome DEF Polls, Listening, Fresh
<1>10. CASE Polls(p, q) /\ Listens(p)
  <2>1. /\ Listening(p) /\ Works(p) /\ ready[p] = <<>>
        /\ Awaited(p) = inbox[p].next /\ Awaited(p)' = inbox'[p].next
    BY <1>10 DEF Polls, Listening, Playing, Fresh, Works, Awaited
  <2>2. CASE mail'[p].turns = s /\ inbox'[p] = inbox[p] /\ ready'[p] = ready[p]
    BY <1>2, <2>1, <2>2
  <2>3. CASE s # <<>> /\ mail'[p].turns = Tail(s)
    <3> DEFINE w == inbox[p].next  v == inbox'[p].next
    <3>1. s \in Seq(Turns)
      BY DEF TypeInv
    <3>2. 1 \in DOMAIN s /\ s[1].step \in Nat
      <4>1. 1 \in DOMAIN s /\ s[1] \in Turns
        BY <2>3, <3>1
      <4> QED BY <4>1 DEF Turns
    <3>3. w \in Nat \ {0}
      BY <1>10 DEF Polls, LocalInv, Playing, InOrder
    <3>4. CASE s[1].step < w /\ inbox'[p] = inbox[p] /\ ready'[p] = ready[p]
      <4>1. /\ Streams(p, Tail(s), v, ready[p])
            /\ \A n \in Nat : Keeping(s, w, n) /\ v - 1 <= n => Keeping(Tail(s), v, n)
        <5>1. w \in Nat /\ v = w /\ w <= v /\ Streams(p, s, w, ready[p])
          BY <1>1, <2>1, <3>3, <3>4
        <5> HIDE DEF s, w, v
        <5> QED BY <2>3, <3>1, <3>4, <5>1, TailStreams
      <4>2. Same(p) => Keeping(Tail(s), v, Sent(q))
        <5>1. Sent(q) \in Nat
          BY Numbers DEF Sent
        <5>2. Same(p) => Keeping(s, w, Sent(q))
          BY <1>1, <2>1
        <5>3. Same(p) => v - 1 <= Sent(q)
          BY <3>4, <5>2 DEF Keeping
        <5> QED BY <4>1, <5>1, <5>2, <5>3
      <4> QED BY <2>1, <2>3, <3>4, <4>1, <4>2, StreamsCarried
    <3>5. CASE s[1].step = w /\ ready'[p] = <<s[1]>> /\ v = w + 1
      <4>1. /\ Streams(p, Tail(s), v, ready[p])
            /\ \A n \in Nat : Keeping(s, w, n) /\ v - 1 <= n => Keeping(Tail(s), v, n)
        <5>1. w \in Nat /\ v \in Nat /\ w <= v /\ s[1].step < v
          BY <3>3, <3>5
        <5>2. Streams(p, s, w, ready[p])
          BY <1>1, <2>1
        <5> HIDE DEF s, w, v
        <5> QED BY <2>3, <3>1, <5>1, <5>2, TailStreams
      <4>2. Streams(p, Tail(s), v, ready'[p])
        <5>1. Sound(p, s[1])
          BY <1>1, <2>1, <3>2 DEF Streams
        <5>2. DOMAIN <<s[1]>> = {1} /\ <<s[1]>>[1] = s[1]
          OBVIOUS
        <5>3. \A i \in DOMAIN ready'[p] : Sound(p, ready'[p][i])
          BY <3>5, <5>1, <5>2
        <5> QED BY <4>1, <5>3 DEF Streams
      <4>3. Same(p) => Keeping(Tail(s), v, Sent(q))
        <5>1. Sent(q) \in Nat
          BY Numbers DEF Sent
        <5>2. Same(p) => Keeping(s, w, Sent(q))
          BY <1>1, <2>1
        <5>3. Same(p) => v - 1 <= Sent(q)
          <6>1. Same(p) => s[1].step <= Sent(q)
            BY <3>2, <5>2 DEF Keeping
          <6>2. v - 1 = s[1].step
            BY <3>3, <3>5
          <6> QED BY <6>1, <6>2
        <5> QED BY <4>1, <5>1, <5>2, <5>3
      <4> QED BY <2>1, <2>3, <4>2, <4>3, StreamsCarried
    <3> QED BY <1>10, <2>2, <2>3, <3>4, <3>5 DEF Listens
  <2> QED BY <1>10, <2>2, <2>3 DEF Listens
<1>11. CASE Closes(p, q) \/ Settles(p, q) \/ Ends(p, q) \/ Leaves(p)
  BY <1>6, <1>11 DEF Closes, Settles, Ends, Leaves, Listening, Fresh, Playing
<1>12. ASSUME NEW agreed \in BOOLEAN, Reports(p, q, agreed) PROVE StreamInv(p)'
  <2> SUFFICES ASSUME Listening(p)' PROVE StreamInv(p)'
    BY DEF StreamInv
  <2>1. pc'[p] = "greet" /\ mail'[p].turns = <<>> /\ ready'[p] = <<>>
    BY <1>12 DEF Reports, Listening, Fresh, Playing, LocalInv, Gone
  <2>2. Awaited(p)' = 1
    BY <2>1 DEF Awaited, Fresh
  <2>3. Same(p)' => Sent(q)' = 0
    <3> SUFFICES ASSUME Same(p)' PROVE Sent(q)' = 0
      OBVIOUS
    <3>1. Alive(p)'
      BY DEF Same
    <3>2. Ahead(q)
      BY <1>12, <3>1, DistanceAfterReport
    <3>3. ~InGame(q)
      BY <3>2, Pace DEF Ahead
    <3> QED BY <3>3 DEF Sent, Keeps, InGame
  <2>4. DOMAIN <<>> = {}
    OBVIOUS
  <2> QED BY <2>1, <2>2, <2>3, <2>4 DEF StreamInv
<1>13. CASE HearsEarly(p, q) \/ HearsNow(p, q) \/ HearsNothing(p, q)
  BY <1>12, <1>13 DEF HearsEarly, HearsNow, HearsNothing, Reports
<1> QED BY <1>3, <1>4, <1>5, <1>7, <1>8, <1>9, <1>10, <1>11, <1>13 DEF Effect

LEMMA SaysOutcome ==
  ASSUME NEW m \in Turns, Final(m)
  PROVE  Says(m) # None
<1>1. Says(m) \in Outcomes
  BY DEF Says, Final, Turns, Outcomes
<1> QED BY <1>1, NoneAssumption

\* What the opponent knows of the turns of p holds after a step of p, for the
\* last turn is followed by no other.
LEMMA SoundOther ==
  ASSUME NEW p, NEW q, Acting(p, q), Listening(q), NEW m \in Turns, Sound(q, m)
  PROVE  Sound(q, m)' \/ (Same(q)' /\ ~Works(p) /\ Ahead(q))
<1> USE Known
<1>1. /\ game'[q] = game[q] /\ Role(q, game[q])' = Role(q, game[q])
      /\ conceded \subseteq conceded' /\ survived \subseteq survived'
  BY DEF Keeps, Role, Grows
<1>2. CASE ~Same(q)' \/ ~Final(m)
  BY <1>1, <1>2 DEF Sound
<1>3. ASSUME Same(q)', Final(m), Works(p) PROVE Sound(q, m)'
  <2>1. Same(q) /\ Same(p)'
    BY <1>3, DistanceKept DEF Same, Alive
  <2>2. InGame(p) /\ result[p] = Says(m) /\ result[p] # None
    BY <1>3, <2>1, SaysOutcome DEF Sound
  <2>3. InGame(p)' /\ result'[p] = result[p]
    <3>1. CASE Greets(p, q) \/ Meets(p, q) \/ Settles(p, q) \/ Ends(p, q)
      BY <2>2, <3>1 DEF Greets, Meets, Settles, Ends, InGame
    <3>2. CASE Hears(p) \/ TimesOut(p) \/ Polls(p, q) \/ \E n : Moves(p, q, n)
      BY <2>2, <3>2 DEF Hears, TimesOut, Polls, Moves
    <3>3. CASE Closes(p, q)
      BY <3>3 DEF Closes, Sends, InGame
    <3>4. ~(HearsEarly(p, q) \/ HearsNow(p, q) \/ HearsNothing(p, q)) /\ ~Leaves(p)
      BY <1>3 DEF Works, Leaves, HearsEarly, HearsNow, HearsNothing, Reports
    <3> QED BY <3>1, <3>2, <3>3, <3>4 DEF Effect
  <2> QED BY <1>1, <2>2, <2>3 DEF Sound
<1>4. ASSUME Same(q)', NEW agreed \in BOOLEAN, Reports(p, q, agreed)
      PROVE  ~Works(p) /\ Ahead(q)
  <2>1. Same(p)' /\ Alive(p)'
    BY <1>4 DEF Same, Alive
  <2> QED BY <1>4, <2>1, DistanceAfterReport DEF Works, Reports
<1>5. CASE Leaves(p)
  BY <1>2, <1>5 DEF Leaves, Same, Alive, Gone
<1> QED BY <1>2, <1>3, <1>4, <1>5, Kinds

LEMMA SentKept ==
  ASSUME NEW p, NEW q, Acting(p, q), Works(p), \A m : ~Moves(p, q, m)
  PROVE  Sent(p)' = Sent(p)
<1> USE Known
<1>1. CASE Greets(p, q) \/ Meets(p, q) \/ Settles(p, q) \/ Ends(p, q)
  BY <1>1 DEF Greets, Meets, Settles, Sends, Ends, Sent, InGame
<1>2. CASE Hears(p) \/ TimesOut(p) \/ Polls(p, q) \/ Closes(p, q)
  BY <1>2 DEF Hears, TimesOut, Polls, Closes, Sends, Sent, InGame
<1>3. ~(HearsEarly(p, q) \/ HearsNow(p, q) \/ HearsNothing(p, q)) /\ ~Leaves(p)
  BY DEF Works, Leaves, HearsEarly, HearsNow, HearsNothing, Reports
<1> QED BY <1>1, <1>2, <1>3 DEF Effect

LEMMA StreamOther ==
  ASSUME NEW p, NEW q, Acting(p, q)
  PROVE  StreamInv(q)'
<1> USE Known
<1> SUFFICES ASSUME Listening(q)' PROVE StreamInv(q)'
  BY DEF StreamInv
<1> DEFINE s == mail[q].turns  t == mail'[q].turns
<1>1. /\ Listening(q) /\ ready'[q] = ready[q] /\ Awaited(q)' = Awaited(q)
      /\ game'[q] = game[q] /\ pc'[q] = pc[q] /\ result'[q] = result[q]
  BY DEF Keeps, Listening, Fresh, Playing, Awaited
<1>2. /\ Streams(q, s, Awaited(q), ready[q])
      /\ Same(q) => Keeping(s, Awaited(q), Sent(p))
  BY <1>1, StreamParts
<1>3. /\ s \in Seq(Turns) /\ ready[q] \in Seq(Turns)
      /\ \A i \in DOMAIN s : s[i] \in Turns
      /\ \A i \in DOMAIN ready[q] : ready[q][i] \in Turns
  <2>1. s \in Seq(Turns) /\ ready[q] \in Seq(Turns)
    BY DEF TypeInv
  <2> QED BY <2>1
<1>4. StreamInv(q)' <=>
           (Listening(q)' => /\ Streams(q, mail[q].turns, Awaited(q), ready[q])'
                             /\ Same(q)' => Keeping(mail[q].turns, Awaited(q), Sent(p))')
  BY DEF StreamInv, Streams, Keeping, Follows
<1>5. ASSUME Works(p), t = s, \A m : ~Moves(p, q, m)
      PROVE  StreamInv(q)'
  <2>1. \A m \in Turns : Sound(q, m) => Sound(q, m)'
    BY <1>1, <1>5, SoundOther
  <2>2. Streams(q, mail[q].turns, Awaited(q), ready[q])'
    BY <1>1, <1>2, <1>3, <1>5, <2>1 DEF Streams
  <2>3. Same(q)' => Keeping(mail[q].turns, Awaited(q), Sent(p))'
    <3>1. Same(q)' => Same(q)
      BY <1>5, DistanceKept DEF Same, Alive
    <3>2. Sent(p)' = Sent(p)
      BY <1>5, SentKept
    <3> QED BY <1>1, <1>2, <1>5, <3>1, <3>2 DEF Keeping
  <2> QED BY <1>4, <2>2, <2>3
<1>6. ASSUME NEW agreed \in BOOLEAN, Reports(p, q, agreed)
      PROVE  StreamInv(q)'
  <2>1. t = s
    BY <1>6 DEF Reports
  <2>2. CASE ~Same(q)'
    <3>1. \A m \in Turns : Sound(q, m) => Sound(q, m)'
      BY <1>1, <2>2, SoundOther
    <3>2. Streams(q, mail[q].turns, Awaited(q), ready[q])'
      BY <1>1, <1>2, <1>3, <2>1, <3>1 DEF Streams
    <3> QED BY <1>4, <2>2, <3>2
  <2>3. CASE Same(q)'
    <3>1. Same(p)' /\ Alive(p)'
      BY <2>3 DEF Same, Alive
    <3>2. Ahead(q)
      BY <1>6, <3>1, DistanceAfterReport
    <3>3. ~InGame(q)
      BY <3>2, Pace DEF Ahead
    <3>4. s = <<>> /\ Fresh(q)
      BY <1>1, <3>2, <3>3 DEF PairInv, PaceInv, Listening, Playing, Fresh, InGame, Over
    <3>5. ready[q] = <<>> /\ Awaited(q) = 1
      BY <3>4 DEF Fresh, LocalInv, Gone, Awaited
    <3>6. Sent(p)' = 0
      BY <1>6 DEF Reports, Sent, InGame
    <3>7. Streams(q, mail[q].turns, Awaited(q), ready[q])'
      BY <1>1, <2>1, <3>4, <3>5 DEF Streams
    <3>8. Keeping(mail[q].turns, Awaited(q), Sent(p))'
      BY <1>1, <2>1, <3>4, <3>5, <3>6 DEF Keeping
    <3> QED BY <1>4, <3>7, <3>8
  <2> QED BY <2>2, <2>3
<1>7. CASE Leaves(p)
  <2>1. ~Same(q)' /\ t = s
    BY <1>7 DEF Leaves, Same, Alive, Gone
  <2>2. \A m \in Turns : Sound(q, m) => Sound(q, m)'
    BY <1>1, <2>1, SoundOther
  <2>3. Streams(q, mail[q].turns, Awaited(q), ready[q])'
    BY <1>1, <1>2, <1>3, <2>1, <2>2 DEF Streams
  <2> QED BY <1>4, <2>1, <2>3
<1>8. ASSUME NEW m, Moves(p, q, m) PROVE StreamInv(q)'
  <2>1. /\ m \in Turns /\ m.game = game[p] /\ m.step = step[p] + 1
        /\ m.commit = <<m.game, m.step>> /\ pc[p] \in {"open", "play"} /\ Playing(p)
        /\ result[p] = None /\ Copied(s, m, t) /\ Reachable(q)
        /\ pc'[p] = "play" /\ step'[p] = step[p] + 1 /\ step[p] \in Nat
        /\ Works(p)
    BY <1>8, Numbers DEF Moves, Playing, Works
  <2>2. Same(p) /\ Same(q)
    <3>1. Alive(p)
      BY <2>1 DEF Alive, Gone, Reachable
    <3>2. ~Ahead(p) /\ ~Ahead(q)
      BY <1>8, <2>1, <3>1, Pace, QuietMakesNoMove DEF InGame, PairInv, PaceInv
    <3> QED BY <3>1, <3>2, Pace, Symmetry
  <2>3. pc[q] \in {"meet", "open", "play"} /\ game[p] = game[q]
        /\ (pc[q] \in {"open", "play"} => result[q] = None)
    BY <1>1, <2>1, <2>2, Pace DEF InGame, Listening, Fresh, Playing
  <2>4. /\ ready[q] = <<>>
        /\ Awaited(q) - 1 = step[p] /\ Awaited(q) \in Nat
        /\ \A i \in DOMAIN s : s[i].step < Awaited(q)
    BY <1>8, <2>2, <2>3, OneToken
  <2>5. /\ m \in ToSet(t) /\ Len(t) > Len(s)
        /\ \A i \in DOMAIN s : i \in DOMAIN t /\ t[i] = s[i]
        /\ \A i \in DOMAIN t : i \in DOMAIN s \/ (i > Len(s) /\ t[i] = m)
    <3> HIDE DEF s, t
    <3>1. s \in Seq(Turns) /\ m \in Turns /\ Copied(s, m, t)
      BY <1>3, <2>1
    <3> QED BY <3>1, Pushed
  <2>6. \A n \in Turns : Sound(q, n) => Sound(q, n)'
    BY <1>1, <2>1, SoundOther
  <2>7. Sound(q, m)'
    <3>1. m.step >= 1 /\ m.game = game'[q]
      BY <1>1, <2>1, <2>3
    <3>2. m.caught \/ m.win = "capture" => m.game \in conceded' /\ Role(q, game[q])' = "police"
      <4>1. m.caught \/ m.win = "capture" =>
              game[p] \in conceded' /\ Role(p, game[p]) = "thief"
        BY <1>8 DEF Moves
      <4>2. Role(p, game[p]) = "thief" <=> Role(q, game[p]) = "police"
        BY OppositeRoles
      <4> QED BY <1>1, <2>1, <2>3, <4>1, <4>2 DEF Role
    <3>3. m.win = "survival" => m.game \in survived'
      BY <1>8 DEF Moves
    <3>4. Final(m) => InGame(p)' /\ result'[p] = Says(m)
      BY <1>8 DEF Moves, InGame
    <3> QED BY <2>1, <3>1, <3>2, <3>3, <3>4 DEF Sound
  <2>8. ASSUME NEW i \in DOMAIN t
        PROVE  /\ t[i].step <= Awaited(q) \/ \E j \in 1..i - 1 : t[j].step = t[i].step - 1
               /\ Sound(q, s[i])'
    <3>1. CASE i \in DOMAIN s
      <4>1. t[i] = s[i] /\ s[i] \in Turns
        BY <1>3, <2>5, <3>1
      <4>2. s[i].step \in Nat
        BY <4>1 DEF Turns
      <4>3. Sound(q, s[i]) /\ s[i].step < Awaited(q)
        BY <1>2, <2>4, <3>1 DEF Streams
      <4> QED BY <2>4, <2>6, <4>1, <4>2, <4>3
    <3>2. CASE t[i] = m
      BY <2>1, <2>4, <2>7, <3>2
    <3> QED BY <2>5, <3>1, <3>2
  <2>9. Streams(q, mail[q].turns, Awaited(q), ready[q])'
    <3>1. DOMAIN <<>> = {}
      OBVIOUS
    <3> QED BY <1>1, <2>4, <2>8, <3>1 DEF Streams
  <2>10. Sent(p)' = step[p] + 1
    BY <2>1 DEF Sent, InGame
  <2>11. Keeping(mail[q].turns, Awaited(q), Sent(p))'
    <3>1. \A i \in DOMAIN t : t[i].step <= step[p] + 1
      <4> SUFFICES ASSUME NEW i \in DOMAIN t PROVE t[i].step <= step[p] + 1
        OBVIOUS
      <4>1. CASE i \in DOMAIN s
        <5>1. t[i] = s[i] /\ s[i] \in Turns /\ s[i].step < Awaited(q)
          BY <1>3, <2>4, <2>5, <4>1
        <5>2. s[i].step \in Nat
          BY <5>1 DEF Turns
        <5> QED BY <2>1, <2>4, <5>1, <5>2
      <4>2. CASE t[i] = m
        BY <2>1, <4>2
      <4> QED BY <2>5, <4>1, <4>2
    <3>2. \E j \in DOMAIN t : t[j].step = step[p] + 1
      BY <2>1, <2>5 DEF ToSet
    <3>3. Awaited(q) - 1 <= step[p] + 1
      BY <2>1, <2>4
    <3> QED BY <1>1, <2>10, <3>1, <3>2, <3>3 DEF Keeping
  <2> QED BY <1>4, <2>9, <2>11
<1> QED BY <1>5, <1>6, <1>7, <1>8, Kinds, TurnsPushed

-----------------------------------------------------------------------------
(* FaultlessInv. *)

LEMMA FaultsStay ==
  ASSUME NEW p, NEW q, Acting(p, q), Faultless'
  PROVE  /\ Faultless /\ Alive(p) /\ Alive(q) /\ (Expired(q) => pc[q] = "done")
<1> USE Known
<1>1. /\ faults.timeouts <= faults'.timeouts /\ faults.crashes <= faults'.crashes
      /\ faults.overtaken <= faults'.overtaken
      /\ faults.timeouts \in Nat /\ faults.crashes \in Nat /\ faults.overtaken \in Nat
  <2>1. faults.crashes \in Nat /\ faults.overtaken \in Nat
    BY DEF TypeInv, FaultTypes
  <2> QED BY <2>1, Numbers DEF Grows
<1>2. Faultless
  BY <1>1 DEF Faultless
<1>3. ~Gone(p) /\ ~Gone(q)
  BY <1>2 DEF FaultlessInv
<1>4. ASSUME Expired(q) PROVE ~Running(q)
  <2>1. ~(faults'.timeouts = faults.timeouts + 1)
    BY <1>1 DEF Faultless
  <2> QED BY <1>4, <2>1 DEF Expired
<1> QED BY <1>2, <1>3, <1>4 DEF Alive, Gone, Running

\* A peer that is in a game while the other is done is one behind, and was told.
LEMMA BehindTheLast ==
  ASSUME NEW p, NEW q, Acting(p, q), Alive(p), pc[q] = "done", ~Over(p)
  PROVE  Ahead(q) /\ game[p] = game[q] /\ Quiet(p)
<1> USE Known
<1>1. Count(q) = Games /\ game[q] = Games /\ Count(p) = game[p] - 1
  BY DEF LocalInv, Alive, Gone, Over
<1>2. game[p] \in 1..Games /\ Games \in Nat
  BY Numbers
<1>3. ~Same(p) /\ ~Ahead(p)
  <2>1. Count(q) > Count(p)
    BY <1>1, <1>2
  <2> QED BY <1>1, <1>2, <2>1 DEF Same, Ahead
<1>4. Ahead(q)
  BY <1>3, Pace
<1>5. game[p] = game[q]
  BY <1>1, <1>2, <1>4 DEF Ahead
<1> QED BY <1>4, <1>5 DEF PairInv, PaceInv

LEMMA FaultlessStaysIn ==
  ASSUME NEW p, NEW q, Acting(p, q), Faultless'
  PROVE  ~Leaves(p)
<1> USE Known
<1>1. Faultless /\ Alive(p) /\ Alive(q) /\ (Expired(q) => pc[q] = "done")
  BY FaultsStay
<1>2. SUFFICES ASSUME Leaves(p) PROVE FALSE
  OBVIOUS
<1>3. \/ ~Reachable(q)
      \/ pc[p] = "meet" /\ mail[p].agreements = <<>> /\ Expired(q)
  <2>1. Running(p) /\ pc'[p] \in {"aborted", "crashed"}
    BY <1>2 DEF Leaves
  <2>2. ~Works(p) /\ \A m : ~Moves(p, q, m)
    BY <2>1 DEF Works, Moves
  <2>3. /\ ~Greets(p, q) /\ ~Meets(p, q) /\ ~Hears(p) /\ ~Polls(p, q) /\ ~TimesOut(p)
        /\ ~Closes(p, q) /\ ~Settles(p, q) /\ ~Ends(p, q)
        /\ ~HearsEarly(p, q) /\ ~HearsNow(p, q) /\ ~HearsNothing(p, q)
    BY <2>1 DEF Greets, Meets, Hears, Polls, TimesOut, Closes, Settles, Ends,
                HearsEarly, HearsNow, HearsNothing, Reports
  <2> QED BY <2>2, <2>3 DEF Effect
<1>4. Reachable(q)
  BY <1>1 DEF Alive, Gone, Reachable
<1>5. pc[p] = "meet" /\ mail[p].agreements = <<>> /\ pc[q] = "done"
  BY <1>1, <1>3, <1>4
<1>6. game[p] = game[q]
  BY <1>1, <1>5, BehindTheLast DEF Over
<1>7. Len(mail[p].agreements) = game[q] - (game[p] - 1)
  BY <1>1, <1>5 DEF PairInv, GreetingsInv, Greeted, Met, Fresh
<1>8. Len(<<>>) = 0
  OBVIOUS
<1> QED BY <1>5, <1>6, <1>7, <1>8, Numbers

\* Without a fault p reports only what q agrees to.
LEMMA FaultlessAgreed ==
  ASSUME NEW p, NEW q, Acting(p, q), Faultless',
         HearsEarly(p, q) \/ HearsNow(p, q) \/ HearsNothing(p, q)
  PROVE  Reports(p, q, TRUE)
<1> USE Known
<1>1. /\ Faultless /\ Alive(p) /\ Alive(q)
      /\ (Expired(q) => pc[q] = "done")
  BY FaultsStay
<1>2. pc[p] = "audit" /\ InGame(p) /\ ~Over(p) /\ result[p] # None
  BY DEF HearsEarly, HearsNow, HearsNothing, Reports, InGame, Over, LocalInv
<1>3. Count(p) = game[p] - 1
  BY <1>1, <1>2 DEF LocalInv, Alive
<1>4. CASE HearsEarly(p, q)
  <2>1. heard[p] = result[p] /\ Reports(p, q, heard[p] = result[p])
    BY <1>2, <1>4 DEF HearsEarly, LocalInv
  <2> QED BY <2>1
<1>5. CASE HearsNow(p, q)
  <2>1. PICK a \in AuditClaims(p) : a.game = game[p] /\ Reports(p, q, a.claim = result[p])
    BY <1>5 DEF HearsNow
  <2>2. Claimed(q, game[p], a.claim)
    BY <2>1 DEF ClaimInv
  <2>3. a.claim = result[p]
    <3>1. CASE game[p] <= Count(q)
      <4>1. game[p] \in Reported(q) /\ reports[q][game[p]].outcome = a.claim
        BY <2>2, <3>1 DEF Claimed
      <4>2. reports[q][game[p]].agreed
        BY <1>1, <4>1 DEF FaultlessInv
      <4>3. Claimed(p, game[p], a.claim)
        BY <4>1, <4>2 DEF ClaimInv
      <4>4. ~(game[p] <= Count(p))
        BY <1>3, Numbers
      <4> QED BY <4>3, <4>4 DEF Claimed
    <3>2. CASE ~(game[p] <= Count(q))
      <4>1. game[q] = game[p] /\ pc[q] = "audit" /\ result[q] = a.claim
        BY <1>1, <2>2, <3>2 DEF Claimed, Alive, Gone
      <4>2. InGame(q) /\ result[q] # None /\ Count(q) = game[q] - 1
        BY <1>1, <4>1 DEF InGame, LocalInv, Alive, Over
      <4>3. Same(p)
        BY <1>1, <1>3, <4>1, <4>2 DEF Same
      <4> QED BY <1>1, <1>2, <4>1, <4>2, <4>3 DEF FaultlessInv
    <3> QED BY <3>1, <3>2
  <2> QED BY <2>1, <2>3
<1>6. CASE HearsNothing(p, q)
  <2>1. pc[q] = "done" /\ heard[p] = None /\ ~HasAudit(p)
    BY <1>1, <1>6 DEF HearsNothing
  <2>2. Quiet(p)
    BY <1>1, <1>2, <2>1, BehindTheLast
  <2> QED BY <1>2, <2>1, <2>2 DEF Quiet
<1> QED BY <1>4, <1>5, <1>6

\* Without a fault both peers find the same result.
LEMMA FaultlessResults ==
  ASSUME NEW p, NEW q, Acting(p, q), Faultless', Same(p)', InGame(p)', InGame(q)',
         result'[p] # None, result'[q] # None
  PROVE  result'[p] = result'[q]
<1> USE Known
<1>1. /\ Faultless /\ Alive(p) /\ Alive(q) /\ (Expired(q) => pc[q] = "done")
      /\ ~Leaves(p) /\ faults.timeouts = 0
  BY FaultsStay, FaultlessStaysIn DEF Faultless
<1>2. InGame(q) /\ result[q] # None /\ result'[q] = result[q] /\ pc[q] # "open"
  BY DEF Keeps, InGame, LocalInv
<1>3. Works(p)
  BY <1>1, Kinds DEF Reports, InGame
<1>4. Same(p) /\ Same(q) /\ game[p] = game[q]
  BY <1>3, DistanceKept, Pace
<1>5. CASE InGame(p) /\ result'[p] = result[p]
  BY <1>1, <1>2, <1>4, <1>5 DEF FaultlessInv
<1>6. ASSUME NEW m, Moves(p, q, m) PROVE FALSE
  <2>1. pc[p] \in {"open", "play"} /\ ~Over(p)
    BY <1>6 DEF Moves, Over
  <2>2. heard[q] = None
    <3>1. SUFFICES ASSUME heard[q] # None PROVE FALSE
      OBVIOUS
    <3>2. Claimed(p, game[p], heard[q])
      BY <1>2, <1>4, <3>1 DEF ClaimInv
    <3>3. Count(p) = game[p] - 1
      BY <1>1, <2>1 DEF LocalInv, Alive
    <3>4. ~(game[p] <= Count(p))
      BY <3>3, Numbers
    <3> QED BY <2>1, <3>2, <3>4 DEF Claimed
  <2>3. Ended(p)
    BY <1>1, <1>2, <1>4, <2>2 DEF PairInv, EndInv, InGame
  <2> QED BY <1>6, <2>3, QuietMakesNoMove
<1>7. CASE Hears(p)
  <2>1. ready[p] \in Seq(Turns) /\ ready[p] # <<>> /\ Final(ready[p][1])
    BY <1>7 DEF Hears, TypeInv
  <2>2. 1 \in DOMAIN ready[p]
    BY <2>1
  <2>3. Listening(p)
    BY <1>7 DEF Hears, Listening, Playing
  <2>4. result[q] = Says(ready[p][1])
    BY <1>4, <2>1, <2>2, <2>3 DEF StreamInv, Sound
  <2> QED BY <1>2, <1>7, <2>4 DEF Hears
<1>8. CASE Polls(p, q) /\ Adopts(p)
  <2>1. PICK a \in AuditClaims(p) : a.game = game[p] /\ result'[p] = a.claim
    BY <1>8 DEF Adopts
  <2>2. Claimed(q, game[q], a.claim)
    BY <1>4, <2>1 DEF ClaimInv
  <2>3. Count(q) = game[q] - 1
    BY <1>1, <1>2 DEF LocalInv, Alive, InGame, Over
  <2>4. ~(game[q] <= Count(q))
    BY <2>3, Numbers
  <2> QED BY <1>2, <2>1, <2>2, <2>4 DEF Claimed
<1>9. CASE TimesOut(p) /\ Expired(q)
  BY <1>1, <1>2, <1>9 DEF InGame
<1>10. CASE Greets(p, q) \/ Meets(p, q) \/ Settles(p, q) \/ Ends(p, q)
  BY <1>10 DEF Greets, Meets, Settles, Ends, InGame
<1>11. CASE (Polls(p, q) /\ Listens(p)) \/ Closes(p, q)
  BY <1>5, <1>11 DEF Polls, Listens, Closes, Sends, InGame
<1>12. ~(HearsEarly(p, q) \/ HearsNow(p, q) \/ HearsNothing(p, q))
  BY <1>3 DEF Works, HearsEarly, HearsNow, HearsNothing, Reports
<1> QED BY <1>1, <1>6, <1>7, <1>8, <1>9, <1>10, <1>11, <1>12 DEF Effect

LEMMA FaultlessSelf ==
  ASSUME NEW p, NEW q, Acting(p, q)
  PROVE  FaultlessInv(p)'
<1> USE Known
<1> SUFFICES ASSUME Faultless' PROVE FaultlessInv(p)'
  BY DEF FaultlessInv
<1>1. /\ Faultless /\ Alive(p) /\ Alive(q) /\ (Expired(q) => pc[q] = "done") /\ ~Leaves(p)
  BY FaultsStay, FaultlessStaysIn
<1>2. ~Gone(p)'
  BY <1>1, Kinds DEF Works, Reports, Gone
<1>3. ASSUME NEW n \in Reported(p)' PROVE reports'[p][n].agreed
  <2>1. \A k \in Reported(p) : reports[p][k].agreed
    BY <1>1 DEF FaultlessInv
  <2>2. CASE reports'[p] = reports[p]
    BY <1>3, <2>1, <2>2 DEF Reported
  <2>3. CASE HearsEarly(p, q) \/ HearsNow(p, q) \/ HearsNothing(p, q)
    <3>1. Reports(p, q, TRUE)
      BY <2>3, FaultlessAgreed
    <3>2. /\ Reported(p) = 1..Count(p) /\ Reported(p)' = 1..game[p]
          /\ Count(p) = game[p] - 1 /\ game[p] \in 1..Games
          /\ \A k \in Reported(p) : reports'[p][k] = reports[p][k]
          /\ reports'[p][game[p]].agreed = TRUE
      BY <3>1, RowAdded
    <3>3. n \in Reported(p) \/ n = game[p]
      BY <1>3, <3>2
    <3> QED BY <2>1, <3>2, <3>3
  <2>4. Works(p) \/ HearsEarly(p, q) \/ HearsNow(p, q) \/ HearsNothing(p, q)
    BY <1>1, Kinds DEF Effect, Works, Reports, Greets, Meets, Moves, Hears, Polls, TimesOut,
       Closes, Settles, Sends, Ends
  <2> QED BY <2>2, <2>3, <2>4 DEF Works
<1>4. Same(p)' /\ InGame(p)' /\ InGame(q)' /\ result'[p] # None /\ result'[q] # None =>
        result'[p] = result'[q]
  BY FaultlessResults
<1>5. ASSUME pc'[p] = "done" PROVE peerSha'[p] # None
  <2>1. Ends(p, q)
    <3>1. CASE Greets(p, q) \/ Meets(p, q) \/ \E m : Moves(p, q, m)
      BY <1>5, <3>1 DEF Greets, Meets, Moves
    <3>2. CASE Hears(p) \/ TimesOut(p) \/ Polls(p, q) \/ Closes(p, q) \/ Settles(p, q)
      BY <1>5, <3>2 DEF Hears, TimesOut, Polls, Closes, Settles
    <3>3. CASE HearsEarly(p, q) \/ HearsNow(p, q) \/ HearsNothing(p, q)
      BY <1>5, <3>3 DEF HearsEarly, HearsNow, HearsNothing, Reports
    <3> QED BY <1>1, <3>1, <3>2, <3>3 DEF Effect
  <2>2. CASE peerSha[p] # None /\ peerSha'[p] = peerSha[p]
    BY <2>2
  <2>3. ASSUME NEW a \in DigestsTo(p), peerSha'[p] = a.sha PROVE peerSha'[p] # None
    <3>1. Count(q) = Games /\ a.sha = Sha(q)
      BY DEF DigestInv
    <3> QED BY <2>3, <3>1, ShaOfAll
  <2>4. CASE DigestsTo(p) = {} /\ peerSha[p] = None /\ Expired(q)
    BY <1>1, <2>4 DEF DigestInv, Alive
  <2> QED BY <2>1, <2>2, <2>3, <2>4 DEF Ends
<1> QED BY <1>2, <1>3, <1>4, <1>5 DEF FaultlessInv

LEMMA FaultlessOther ==
  ASSUME NEW p, NEW q, Acting(p, q)
  PROVE  FaultlessInv(q)'
<1> USE Known
<1> SUFFICES ASSUME Faultless' PROVE FaultlessInv(q)'
  BY DEF FaultlessInv
<1>1. Faultless /\ Alive(p) /\ Alive(q) /\ ~Leaves(p)
  BY FaultsStay, FaultlessStaysIn
<1>2. /\ ~Gone(q)' /\ \A n \in Reported(q)' : reports'[q][n].agreed
      /\ pc'[q] = "done" => peerSha'[q] # None
  BY <1>1 DEF FaultlessInv, Keeps, Gone, Reported
<1>3. Same(q)' /\ InGame(p)' /\ InGame(q)' /\ result'[p] # None /\ result'[q] # None =>
        result'[q] = result'[p]
  <2>1. Same(q)' => Same(p)'
    BY DEF Same, Alive
  <2> QED BY <2>1, FaultlessResults
<1> QED BY <1>2, <1>3 DEF FaultlessInv

-----------------------------------------------------------------------------
(* The copies that are still on their way. *)

\* A step of p leaves the copies on their way to p, and those on their way to q but
\* for a copy of what it pushes. Only a turn can stray.
Pushes(p, q) ==
  /\ mail'[p].late = mail[p].late
  /\ \/ mail'[q].late = mail[q].late /\ faults'.strays = faults.strays
     \/ \E m \in Turns : Push(q, "turns", m)
     \/ \E a \in Claims \cup Digests : Push(q, "audits", a)

\* Only a turn can be foreign.
LEMMA StraysAfterPush ==
  ASSUME TypeInv, NEW q \in Peers, NEW box, NEW m, Push(q, box, m),
         box # "turns" \/ m.game = game[q]
  PROVE  faults'.strays = faults.strays
<1>1. faults'.strays = Strays(q, box, m)
  BY FaultsAfterPush
<1>2. Strays(q, box, m) = faults.strays
  BY DEF Strays, Foreign
<1> QED BY <1>1, <1>2

LEMMA SendTurnPushes ==
  ASSUME TypeInv, NEW p, NEW q, Pair(p, q), NEW m \in Turns, SendTurn(p, m)
  PROVE  Pushes(p, q)
<1>1. CASE Push(q, "turns", m)
  BY <1>1, MailAfterTurn DEF Pushes
<1>2. CASE UNCHANGED <<mail, faults>>
  BY <1>2 DEF Pushes
<1> QED BY <1>1, <1>2 DEF SendTurn, Pair

LEMMA SendAuditPushes ==
  ASSUME TypeInv, NEW p, NEW q, Pair(p, q), NEW a \in Claims \cup Digests,
         NEW next, SendAudit(p, a, next)
  PROVE  Pushes(p, q)
<1>1. CASE Push(q, "audits", a)
  BY <1>1, MailAfterAudit DEF Pushes
<1>2. CASE UNCHANGED <<mail, faults>>
  BY <1>2 DEF Pushes
<1> QED BY <1>1, <1>2 DEF SendAudit, Pair

LEMMA TurnsSent ==
  ASSUME TypeInv, NEW p, NEW q, Pair(p, q), Open(p) \/ Process(p)
  PROVE  Pushes(p, q)
<1> USE DEF Pair
<1>0. step[p] + 1 \in Nat /\ game[p] \in 1..Games
  BY DEF TypeInv
<1>1. ASSUME TakeTurn(p) PROVE Pushes(p, q)
  <2>1. PICK m, o : Acts(p, m, o)
    BY <1>1, TakeTurnActs
  <2> QED BY <2>1, SendTurnPushes DEF Acts
<1>2. ASSUME NEW caught \in BOOLEAN, NEW win \in {"none", "capture"}, Hold(p, caught, win)
      PROVE  Pushes(p, q)
  <2> DEFINE m == Turn(p, step[p] + 1, FALSE, caught, win)
  <2>1. m \in Turns
    BY <1>0 DEF Turn, Turns
  <2>2. SendTurn(p, m)
    BY <1>2 DEF Hold
  <2> HIDE DEF m
  <2> QED BY <2>1, <2>2, SendTurnPushes
<1>3. ASSUME NEW o, Finds(p, o) PROVE Pushes(p, q)
  BY <1>3 DEF Finds, Pushes
<1>4. CASE Open(p)
  BY <1>1, <1>4 DEF Open
<1>5. ASSUME NEW h, PoliceReceives(p, h) PROVE Pushes(p, q)
  BY <1>1, <1>3, <1>5 DEF PoliceReceives
<1>6. ASSUME NEW h, ThiefReceives(p, h) PROVE Pushes(p, q)
  BY <1>1, <1>2, <1>3, <1>6 DEF ThiefReceives
<1>7. CASE Process(p)
  BY <1>5, <1>6, <1>7 DEF Process
<1> QED BY <1>4, <1>7

LEMMA CopiesAfter ==
  ASSUME "agreements" \notin Duplicable, TypeInv, NEW p, NEW q, Pair(p, q),
         Work(p) \/ Timers(p) \/ Crash(p)
  PROVE  Pushes(p, q)
<1> USE DEF Pair
<1>1. CASE Greet(p)
  <2>1. CASE Push(q, "agreements", game[p])
    <3>1. mail'[p] = mail[p] /\ mail'[q].late = mail[q].late
      BY <2>1, MailAfterGreeting
    <3>2. faults'.strays = faults.strays
      <4>1. "agreements" # "turns"
        OBVIOUS
      <4> QED BY <2>1, <4>1, StraysAfterPush
    <3> QED BY <3>1, <3>2 DEF Pushes
  <2>2. CASE UNCHANGED <<mail, faults>>
    BY <2>2 DEF Pushes
  <2> QED BY <1>1, <2>1, <2>2 DEF Greet
<1>2. CASE Meet(p)
  BY <1>2 DEF Meet, TypeInv, Pushes
<1>3. CASE Open(p) \/ Process(p)
  BY <1>3, TurnsSent
<1>4. ASSUME NEW t, AfterAbsorb(p, t), UNCHANGED faults PROVE Pushes(p, q)
  BY <1>4 DEF AfterAbsorb, TypeInv, Pushes
<1>5. CASE PollTurn(p) \/ PollNothing(p)
  BY <1>4, <1>5 DEF PollTurn, PollNothing
<1>6. CASE Close(p)
  <2>1. Audit(game[p], result[p]) \in Claims \cup Digests
    BY <1>6 DEF Close, Audit, Claims, TypeInv
  <2> QED BY <1>6, <2>1, SendAuditPushes DEF Close
<1>7. CASE Settle(p)
  <2>1. Consensus(Sha(p)) \in Claims \cup Digests
    BY ShaType DEF Consensus, Digests
  <2> QED BY <1>7, <2>1, SendAuditPushes DEF Settle
<1>8. CASE HearEarlier(p) \/ HearAudit(p)
  <2>1. UNCHANGED faults /\ mail'[p].late = mail[p].late /\ mail'[q].late = mail[q].late
    <3>1. CASE HearEarlier(p)
      BY <1>8, <3>1 DEF HearEarlier, TypeInv
    <3>2. CASE HearAudit(p)
      BY <1>8, <3>2 DEF HearAudit, TypeInv
    <3> QED BY <1>8, <3>1, <3>2
  <2> QED BY <2>1 DEF Pushes
<1>9. CASE AuditTimeout(p)
  <2>1. faults'.strays = faults.strays
    BY <1>9, Expiry DEF AuditTimeout
  <2> QED BY <1>9, <2>1 DEF AuditTimeout, TypeInv, Pushes
<1>10. CASE TakeConsensus(p)
  BY <1>10 DEF TakeConsensus, TypeInv, Pushes
<1>11. CASE MeetTimeout(p) \/ TurnTimeout(p) \/ ConsensusTimeout(p)
  <2>1. Expires(p) /\ UNCHANGED mail
    BY <1>11 DEF MeetTimeout, TurnTimeout, ConsensusTimeout
  <2> QED BY <2>1, Expiry DEF Pushes
<1>12. CASE Crash(p)
  <2>1. faults' = [faults EXCEPT !.crashes = @ + 1] /\ UNCHANGED mail
    BY <1>12 DEF Crash
  <2>2. faults'.strays = faults.strays
    BY <2>1 DEF TypeInv, FaultTypes
  <2> QED BY <2>1, <2>2 DEF Pushes
<1> QED BY <1>1, <1>2, <1>3, <1>5, <1>6, <1>7, <1>8, <1>9, <1>10, <1>11, <1>12
        DEF Work, Timers

\* A peer that pushes a turn is in the game of the other.
LEMMA PushedTogether ==
  ASSUME NEW p, NEW q, Acting(p, q), NEW m \in Turns, Push(q, "turns", m)
  PROVE  /\ Works(p) /\ Same(p) /\ m.game = game[p] /\ game[p] = game[q]
         /\ m \in ToSet(mail'[q].turns)
<1> USE Known
<1> DEFINE s == mail[q].turns  t == mail'[q].turns
<1>1. s \in Seq(Turns) /\ Copied(s, m, t)
  BY MailAfterTurn DEF TypeInv
<1>2. Len(t) > Len(s) /\ m \in ToSet(t)
  <2> HIDE DEF s, t
  <2> QED BY <1>1, Pushed
<1>3. PICK n : Moves(p, q, n)
  <2>1. ~(t = s)
    BY <1>1, <1>2
  <2> QED BY <2>1, TurnsPushed
<1>4. n \in Turns /\ Copied(s, n, t) /\ n.game = game[p] /\ Works(p) /\ Reachable(q)
      /\ pc[p] \in {"open", "play"}
  BY <1>3 DEF Moves, Works
<1>5. m = n
  <2> HIDE DEF s, t
  <2>1. Append(s, m)[Len(s) + 1] = m /\ Append(s, n)[Len(s) + 1] = n
    BY <1>1, <1>4
  <2> QED BY <1>1, <1>4, <2>1 DEF Copied
<1>6. Same(p)
  <2>1. Alive(p) /\ InGame(p)
    BY <1>4 DEF Alive, Gone, Reachable, InGame
  <2>2. ~Ahead(p) /\ ~Ahead(q)
    BY <1>3, <2>1, Pace, QuietMakesNoMove DEF PairInv, PaceInv
  <2> QED BY <2>1, <2>2, Pace
<1>7. game[p] = game[q]
  BY <1>6, Pace
<1> QED BY <1>2, <1>4, <1>5, <1>6, <1>7

LEMMA NothingStrays ==
  ASSUME NEW p, NEW q, Acting(p, q), Pushes(p, q), faults.strays = {}
  PROVE  faults'.strays = {}
<1> USE Known
<1>1. ASSUME NEW m \in Turns, Push(q, "turns", m) PROVE faults'.strays = {}
  <2>1. m.game = game[q]
    BY <1>1, PushedTogether
  <2> QED BY <1>1, <2>1, StraysAfterPush
<1>2. ASSUME NEW a, Push(q, "audits", a) PROVE faults'.strays = {}
  <2>1. "audits" # "turns"
    OBVIOUS
  <2> QED BY <1>2, <2>1, StraysAfterPush
<1> QED BY <1>1, <1>2 DEF Pushes

LEMMA LateTypes ==
  ASSUME TypeInv, NEW p \in Peers
  PROVE  /\ LateTurns(p) \subseteq Turns /\ LateAudits(p) \subseteq Claims \cup Digests
         /\ \A m \in LateTurns(p) : m.game \in Nat /\ m.step \in Nat
<1>1. mail[p].late \subseteq Copies
  BY DEF TypeInv
<1>2. LateTurns(p) \subseteq Turns
  BY <1>1 DEF LateTurns, Copies
<1>3. LateAudits(p) \subseteq Claims \cup Digests
  BY <1>1 DEF LateAudits, Copies
<1>4. \A m \in Turns : m.game \in Nat /\ m.step \in Nat
  BY DEF Turns
<1> QED BY <1>2, <1>3, <1>4

\* What is on its way to q after a step of p was so before, or is in the mailbox too.
LEMMA LateFrom ==
  ASSUME NEW p, NEW q, Acting(p, q), Pushes(p, q)
  PROVE  /\ LateTurns(p)' = LateTurns(p) /\ LateAudits(p)' = LateAudits(p)
         /\ \A m \in LateTurns(q)' : \/ m \in LateTurns(q)
                                     \/ m \in Turns /\ Push(q, "turns", m)
         /\ \A a \in LateAudits(q)' : a \in LateAudits(q) \/ a \in ToSet(mail'[q].audits)
<1> USE Known
<1>1. LateTurns(p)' = LateTurns(p) /\ LateAudits(p)' = LateAudits(p)
  BY DEF Pushes, LateTurns, LateAudits
<1>2. CASE mail'[q].late = mail[q].late
  BY <1>1, <1>2 DEF LateTurns, LateAudits
<1>3. ASSUME NEW m \in Turns, Push(q, "turns", m)
      PROVE  /\ LateTurns(q)' \subseteq LateTurns(q) \cup {m}
             /\ LateAudits(q)' \subseteq LateAudits(q)
  <2>1. mail'[q].late \subseteq mail[q].late \cup {[box |-> "turns", msg |-> m]}
    BY <1>3, MailAfterTurn
  <2> QED BY <2>1 DEF LateTurns, LateAudits
<1>4. ASSUME NEW a \in Claims \cup Digests, Push(q, "audits", a)
      PROVE  /\ LateTurns(q)' \subseteq LateTurns(q)
             /\ LateAudits(q)' \subseteq LateAudits(q) \cup {a}
             /\ a \in ToSet(mail'[q].audits)
  <2>1. /\ mail'[q].late \subseteq mail[q].late \cup {[box |-> "audits", msg |-> a]}
        /\ a \in ToSet(mail'[q].audits)
    BY <1>4, MailAfterAudit
  <2> QED BY <2>1 DEF LateTurns, LateAudits
<1> QED BY <1>1, <1>2, <1>3, <1>4 DEF Pushes

\* A peer that goes on listening forgets no turn.
LEMMA StillKnown ==
  ASSUME NEW p, NEW q, Acting(p, q), Works(p), Listening(p)', NEW m \in Turns
  PROVE  Listening(p) /\ (Repeated(p, m) => Repeated(p, m)')
<1> USE Known
<1>1. CASE Greets(p, q)
  BY <1>1 DEF Greets, Listening, Fresh, Awaited, Repeated
<1>2. CASE Meets(p, q)
  BY <1>2 DEF Meets, Listening, Fresh, Awaited, Repeated, EmptyInbox
<1>3. CASE \E n : Moves(p, q, n)
  BY <1>3 DEF Moves, Listening, Playing, Fresh, Awaited, Repeated
<1>4. CASE Hears(p)
  <2>1. ready[p][1] \in Turns
    <3>1. ready[p] \in Seq(Turns) /\ ready[p] # <<>>
      BY <1>4 DEF Hears, TypeInv
    <3> QED BY <3>1
  <2>2. result'[p] # None
    BY <1>4, <2>1, SaysOutcome DEF Hears
  <2> QED BY <1>4, <2>2 DEF Hears, Listening, Fresh
<1>5. CASE TimesOut(p)
  BY <1>5, NoneAssumption DEF TimesOut, Listening, Fresh, Outcomes
<1>6. CASE Polls(p, q) /\ Adopts(p)
  BY <1>6, AdoptedIsOutcome DEF Polls, Listening, Fresh
<1>7. CASE Polls(p, q) /\ Listens(p)
  <2> DEFINE s == mail[p].turns
  <2>1. /\ pc[p] = "play" /\ pc'[p] = "play" /\ result[p] = None
        /\ s \in Seq(Turns) /\ m.step \in Nat /\ inbox[p].next \in Nat
    BY <1>7 DEF Polls, TypeInv, Turns, LocalInv, Playing, InOrder
  <2>2. Listening(p) /\ Awaited(p) = inbox[p].next /\ Awaited(p)' = inbox'[p].next
    BY <2>1 DEF Listening, Playing, Awaited, Fresh
  <2>3. CASE mail'[p].turns = s /\ inbox'[p] = inbox[p]
    BY <2>2, <2>3 DEF Repeated
  <2>4. ASSUME s # <<>>, mail'[p].turns = Tail(s), s[1].step < inbox'[p].next,
               inbox[p].next <= inbox'[p].next, inbox'[p].next \in Nat, Repeated(p, m)
        PROVE  Repeated(p, m)'
    <3>1. m \in ToSet(s) => m = s[1] \/ m \in ToSet(Tail(s))
      <4> HIDE DEF s
      <4>1. /\ DOMAIN s = 1..Len(s) /\ DOMAIN Tail(s) = 1..Len(s) - 1 /\ Len(s) \in Nat
            /\ \A i \in DOMAIN Tail(s) : Tail(s)[i] = s[i + 1]
        BY <2>1, <2>4
      <4>2. ASSUME NEW i \in DOMAIN s, i # 1 PROVE s[i] \in ToSet(Tail(s))
        <5>1. i - 1 \in DOMAIN Tail(s) /\ Tail(s)[i - 1] = s[i]
          BY <4>1, <4>2
        <5> QED BY <5>1 DEF ToSet
      <4> QED BY <4>2 DEF ToSet
    <3>2. CASE m.step < inbox[p].next
      BY <2>1, <2>2, <2>4, <3>2 DEF Repeated
    <3>3. CASE m \in ToSet(s)
      BY <2>2, <2>4, <3>1, <3>3 DEF Repeated
    <3> QED BY <2>2, <2>4, <3>2, <3>3 DEF Repeated
  <2>5. CASE /\ s # <<>> /\ mail'[p].turns = Tail(s)
             /\ s[1].step < inbox[p].next /\ inbox'[p] = inbox[p]
    BY <2>1, <2>2, <2>4, <2>5
  <2>6. CASE /\ s # <<>> /\ mail'[p].turns = Tail(s)
             /\ s[1].step = inbox[p].next /\ inbox'[p].next = inbox[p].next + 1
    BY <2>1, <2>2, <2>4, <2>6
  <2> QED BY <1>7, <2>3, <2>5, <2>6 DEF Listens
<1>8. CASE Closes(p, q) \/ Settles(p, q) \/ Ends(p, q)
  BY <1>8 DEF Closes, Settles, Ends, Listening, Fresh, Playing
<1>9. ~(HearsEarly(p, q) \/ HearsNow(p, q) \/ HearsNothing(p, q)) /\ ~Leaves(p)
  BY DEF Works, Leaves, HearsEarly, HearsNow, HearsNothing, Reports
<1> QED BY <1>1, <1>2, <1>3, <1>4, <1>5, <1>6, <1>7, <1>8, <1>9 DEF Effect

LEMMA GameGrows ==
  ASSUME NEW p, NEW q, Acting(p, q)
  PROVE  /\ game[p] <= game'[p] /\ game'[q] = game[q]
         /\ game[p] \in Nat /\ game'[p] \in Nat /\ game[q] \in Nat
         /\ Listening(p)' /\ game'[p] = game[p] => Works(p)
<1> USE Known
<1>0. game[p] \in Nat /\ game'[p] \in Nat /\ game[q] \in Nat
  <2>1. game[p] \in 1..Games /\ game'[p] \in 1..Games /\ game[q] \in 1..Games
    BY DEF TypeInv
  <2> QED BY <2>1
<1>1. game[p] \in Nat /\ game'[q] = game[q]
  BY Numbers DEF Keeps
<1>2. CASE Leaves(p)
  BY <1>0, <1>1, <1>2 DEF Leaves, Listening, Fresh, Playing
<1>3. CASE Works(p)
  BY <1>0, <1>1, <1>3 DEF Works
<1>4. ASSUME NEW agreed \in BOOLEAN, Reports(p, q, agreed)
      PROVE  game[p] <= game'[p] /\ (Listening(p)' /\ game'[p] = game[p] => Works(p))
  <2>1. CASE game'[p] = game[p] + 1
    BY <1>1, <2>1
  <2>2. CASE game'[p] = game[p] /\ pc'[p] = "settle"
    BY <1>1, <2>2 DEF Listening, Fresh, Playing
  <2> QED BY <1>4, <2>1, <2>2 DEF Reports
<1> QED BY <1>0, <1>1, <1>2, <1>3, <1>4, Kinds

LEMMA LateTurnsSelf ==
  ASSUME NEW p, NEW q, Acting(p, q), Pushes(p, q), LateTurnInv(p)
  PROVE  LateTurnInv(p)'
<1> USE Known
<1> SUFFICES ASSUME NEW m \in LateTurns(p)'
             PROVE  /\ m.game <= game'[p] /\ m.game <= game'[q]
                    /\ Listening(p)' /\ m.game = game'[p] =>
                         Sound(p, m)' /\ Repeated(p, m)'
  BY DEF LateTurnInv
<1>1. m \in LateTurns(p) /\ m \in Turns /\ m.game \in Nat
  BY LateFrom, LateTypes
<1>2. /\ m.game <= game[p] /\ m.game <= game[q]
      /\ Listening(p) /\ m.game = game[p] => Sound(p, m) /\ Repeated(p, m)
  BY <1>1 DEF LateTurnInv
<1>3. /\ game[p] <= game'[p] /\ game'[q] = game[q] /\ game[p] \in Nat /\ game'[p] \in Nat
      /\ Listening(p)' /\ game'[p] = game[p] => Works(p)
  BY GameGrows
<1>4. ASSUME Listening(p)', m.game = game'[p] PROVE Sound(p, m)' /\ Repeated(p, m)'
  <2>1. game'[p] = game[p] /\ m.game = game[p]
    BY <1>1, <1>2, <1>3, <1>4
  <2>2. Works(p)
    BY <1>3, <1>4, <2>1
  <2>3. Listening(p) /\ (Repeated(p, m) => Repeated(p, m)')
    BY <1>1, <1>4, <2>2, StillKnown
  <2>4. Same(p)' => Same(p)
    BY <2>2, DistanceKept
  <2> QED BY <1>2, <2>1, <2>3, <2>4, SoundSelf
<1> QED BY <1>1, <1>2, <1>3, <1>4

LEMMA LateTurnsOther ==
  ASSUME NEW p, NEW q, Acting(p, q), Pushes(p, q), LateTurnInv(q), StreamInv(q)'
  PROVE  LateTurnInv(q)'
<1> USE Known
<1> SUFFICES ASSUME NEW m \in LateTurns(q)'
             PROVE  /\ m.game <= game'[q] /\ m.game <= game'[p]
                    /\ Listening(q)' /\ m.game = game'[q] =>
                         Sound(q, m)' /\ Repeated(q, m)'
  BY DEF LateTurnInv
<1>1. game[p] <= game'[p] /\ game'[q] = game[q] /\ game[p] \in Nat /\ game'[p] \in Nat
      /\ game[q] \in Nat
  BY GameGrows
<1>2. ASSUME m \in LateTurns(q)
      PROVE  /\ m.game <= game'[q] /\ m.game <= game'[p]
             /\ Listening(q)' /\ m.game = game'[q] => Sound(q, m)' /\ Repeated(q, m)'
  <2>1. /\ m.game <= game[p] /\ m.game <= game[q] /\ m \in Turns /\ m.game \in Nat
        /\ Listening(q) /\ m.game = game[q] => Sound(q, m) /\ Repeated(q, m)
    BY <1>2, LateTypes DEF LateTurnInv
  <2>2. ASSUME Listening(q)', m.game = game'[q] PROVE Sound(q, m)' /\ Repeated(q, m)'
    <3>1. Listening(q) /\ Awaited(q)' = Awaited(q)
      BY <2>2 DEF Keeps, Listening, Fresh, Playing, Awaited
    <3>2. Sound(q, m) /\ Repeated(q, m)
      BY <1>1, <2>1, <2>2, <3>1
    <3>3. Sound(q, m)'
      <4> SUFFICES ASSUME Same(q)', ~Works(p), Ahead(q) PROVE FALSE
        BY <2>1, <3>1, <3>2, SoundOther
      <4>1. pc[p] = "audit"
        <5>1. ~Leaves(p)
          BY DEF Leaves, Same, Alive, Gone
        <5> QED BY <5>1, Kinds DEF Reports
      <4>2. Count(p) = game[p] - 1 /\ Count(q) = game[q] - 1
        BY <3>1, <4>1 DEF LocalInv, Gone, Over, Listening, Fresh, Playing
      <4>3. Count(q) = Count(p) + 1
        BY DEF Ahead
      <4> QED BY <1>1, <2>1, <2>2, <4>2, <4>3
    <3>4. ToSet(mail[q].turns) \subseteq ToSet(mail'[q].turns)
      <4>1. CASE mail'[q].turns = mail[q].turns
        BY <4>1
      <4>2. ASSUME NEW n, Moves(p, q, n) PROVE ToSet(mail[q].turns) \subseteq ToSet(mail'[q].turns)
        <5> DEFINE s == mail[q].turns  t == mail'[q].turns
        <5>1. s \in Seq(Turns) /\ n \in Turns /\ Copied(s, n, t)
          BY <4>2 DEF Moves, TypeInv
        <5> HIDE DEF s, t
        <5>2. ToSet(t) = ToSet(s) \cup {n}
          BY <5>1, Pushed
        <5> QED BY <5>2 DEF s, t
      <4> QED BY <4>1, <4>2, TurnsPushed
    <3> QED BY <3>1, <3>2, <3>3, <3>4 DEF Repeated
  <2> QED BY <1>1, <2>1, <2>2
<1>3. ASSUME m \in Turns, Push(q, "turns", m)
      PROVE  /\ m.game <= game'[q] /\ m.game <= game'[p]
             /\ Listening(q)' /\ m.game = game'[q] => Sound(q, m)' /\ Repeated(q, m)'
  <2>1. m.game = game[p] /\ game[p] = game[q] /\ m \in ToSet(mail'[q].turns)
    BY <1>3, PushedTogether
  <2>2. Listening(q)' => Sound(q, m)' /\ Repeated(q, m)'
    BY <2>1 DEF StreamInv, Repeated, ToSet
  <2> QED BY <1>1, <2>1, <2>2
<1> QED BY <1>2, <1>3, LateFrom

LEMMA LateAuditsSelf ==
  ASSUME NEW p, NEW q, Acting(p, q), Pushes(p, q), LateAuditInv(p)
  PROVE  LateAuditInv(p)'
<1> USE Known
<1>1. LateAudits(p)' = LateAudits(p)
  BY LateFrom
<1>2. Count(q)' = Count(q) /\ Sha(q)' = Sha(q)
  BY DEF Keeps, Count, Sha
<1>3. ASSUME NEW a, Vouched(p, a) PROVE Vouched(p, a)'
  <2>1. a.kind = "audit" => Claimed(q, a.game, a.claim)' /\ Honest(a.game, a.claim)'
    BY <1>3, ClaimsOfOther, HonestyStays DEF Vouched
  <2> QED BY <1>2, <1>3, <2>1 DEF Vouched
<1> QED BY <1>1, <1>3 DEF LateAuditInv

LEMMA LateAuditsOther ==
  ASSUME NEW p, NEW q, Acting(p, q), Pushes(p, q), LateAuditInv(q),
         ClaimInv(q)', DigestInv(q)'
  PROVE  LateAuditInv(q)'
<1> USE Known
<1>1. ASSUME NEW a \in LateAudits(q) PROVE Vouched(q, a)'
  <2>1. Vouched(q, a) /\ a \in Claims \cup Digests
    BY LateTypes DEF LateAuditInv
  <2>2. a.kind = "audit" => a.game \in Nat
    BY <2>1 DEF Claims, Digests
  <2>3. a.kind = "audit" => Claimed(p, a.game, a.claim)' /\ Honest(a.game, a.claim)'
    BY <2>1, <2>2, ClaimsStay, HonestyStays DEF Vouched
  <2>4. a.kind = "consensus" => Count(p)' = Games /\ a.sha = Sha(p)'
    BY <2>1, AllReported DEF Vouched
  <2> QED BY <2>3, <2>4 DEF Vouched
<1>2. ASSUME NEW a \in ToSet(mail'[q].audits) PROVE Vouched(q, a)'
  BY <1>2 DEF ClaimInv, DigestInv, AuditClaims, DigestsTo, Vouched
<1> QED BY <1>1, <1>2, LateFrom DEF LateAuditInv

-----------------------------------------------------------------------------
(* A copy lands: nothing changes but the mailbox it lands in. *)

AtRest ==
  UNCHANGED <<game, pc, step, inbox, ready, result, heard, reports, peerSha, faults,
              conceded, survived>>

Settling(p, q) ==
  /\ AtRest /\ ~Gone(p) /\ mail'[q] = mail[q]
  /\ mail'[p].agreements = mail[p].agreements /\ mail'[p].late \subseteq mail[p].late

TurnLands(p, q, m) ==
  /\ Settling(p, q) /\ m \in LateTurns(p) /\ m.game = game[p]
  /\ mail'[p].audits = mail[p].audits
  /\ Copied(mail[p].turns, m, mail'[p].turns)

AuditLands(p, q, a) ==
  /\ Settling(p, q) /\ a \in LateAudits(p)
  /\ mail'[p].turns = mail[p].turns
  /\ Copied(mail[p].audits, a, mail'[p].audits)

\* A turn that its receiver has overtaken is counted, and is not meant here.
LEMMA LandHasEffect ==
  ASSUME TypeInv, NEW p, NEW q, Pair(p, q), Land(p), faults'.overtaken = 0
  PROVE  TypeInv' /\ ((\E m : TurnLands(p, q, m)) \/ (\E a : AuditLands(p, q, a)))
<1> USE DEF Pair
<1>1. PICK c \in mail[p].late :
        /\ mail' = [mail EXCEPT ![p][c.box] = Append(@, c.msg), ![p].late = @ \ {c}]
        /\ faults' = [faults EXCEPT
             !.strays = Strays(p, c.box, c.msg),
             !.overtaken = IF Foreign(p, c.box, c.msg) THEN @ + 1 ELSE @]
  BY DEF Land
<1>2. ~Foreign(p, c.box, c.msg) /\ faults' = faults
  <2>1. faults \in FaultTypes /\ faults.overtaken \in Nat
    BY DEF TypeInv, FaultTypes
  <2>2. ~Foreign(p, c.box, c.msg)
    <3>1. Foreign(p, c.box, c.msg) => faults'.overtaken = faults.overtaken + 1
      BY <1>1, <2>1 DEF FaultTypes
    <3> QED BY <2>1, <3>1
  <2>3. Strays(p, c.box, c.msg) = faults.strays
    BY <2>2 DEF Strays
  <2>4. faults' = [faults EXCEPT !.strays = faults.strays, !.overtaken = faults.overtaken]
    BY <1>1, <2>2, <2>3
  <2> QED BY <2>1, <2>2, <2>4 DEF FaultTypes
<1>3. AtRest /\ ~Gone(p)
  BY <1>2 DEF Land, AtRest, Reachable, Gone
<1>4. c \in Copies
  BY DEF TypeInv
<1>5. MailTypeInv
  BY DEF TypeInv, MailTypeInv
<1>6. CASE c.box = "turns" /\ c.msg \in Turns
  <2> DEFINE m == c.msg
  <2>1. mail' = [mail EXCEPT ![p].turns = Append(mail[p].turns, m),
                             ![p].late = mail[p].late \ {c}]
    BY <1>1, <1>6
  <2>2. Append(mail[p].turns, m) \in Seq(Turns) /\ mail[p].late \ {c} \in SUBSET Copies
    BY <1>5, <1>6 DEF MailTypeInv
  <2>3. /\ MailTypeInv' /\ mail'[q] = mail[q]
        /\ mail'[p].agreements = mail[p].agreements /\ mail'[p].audits = mail[p].audits
        /\ mail'[p].turns = Append(mail[p].turns, m)
        /\ mail'[p].late = mail[p].late \ {c}
    BY <1>5, <2>1, <2>2 DEF MailTypeInv
  <2>4. m \in LateTurns(p) /\ m.game = game[p]
    BY <1>2, <1>6 DEF LateTurns, Foreign
  <2>5. TypeInv'
    BY <1>3, <2>3 DEF TypeInv, MailTypeInv, AtRest
  <2>6. TurnLands(p, q, m)
    BY <1>3, <2>3, <2>4 DEF TurnLands, Settling, Copied
  <2> QED BY <2>5, <2>6
<1>7. CASE c.box = "audits" /\ c.msg \in Claims \cup Digests
  <2> DEFINE a == c.msg
  <2>1. mail' = [mail EXCEPT ![p].audits = Append(mail[p].audits, a),
                             ![p].late = mail[p].late \ {c}]
    BY <1>1, <1>7
  <2>2. /\ Append(mail[p].audits, a) \in Seq(Claims \cup Digests)
        /\ mail[p].late \ {c} \in SUBSET Copies
    BY <1>5, <1>7 DEF MailTypeInv
  <2>3. /\ MailTypeInv' /\ mail'[q] = mail[q]
        /\ mail'[p].agreements = mail[p].agreements /\ mail'[p].turns = mail[p].turns
        /\ mail'[p].audits = Append(mail[p].audits, a)
        /\ mail'[p].late = mail[p].late \ {c}
    BY <1>5, <2>1, <2>2 DEF MailTypeInv
  <2>4. a \in LateAudits(p)
    BY <1>7 DEF LateAudits
  <2>5. TypeInv'
    BY <1>3, <2>3 DEF TypeInv, MailTypeInv, AtRest
  <2>6. AuditLands(p, q, a)
    BY <1>3, <2>3, <2>4 DEF AuditLands, Settling, Copied
  <2> QED BY <2>5, <2>6
<1> QED BY <1>4, <1>6, <1>7 DEF Copies

LEMMA OnlyMail ==
  ASSUME AtRest, NEW r
  PROVE  /\ Gone(r)' <=> Gone(r)
         /\ Fresh(r)' <=> Fresh(r)
         /\ InGame(r)' <=> InGame(r)
         /\ Playing(r)' <=> Playing(r)
         /\ Over(r)' <=> Over(r)
         /\ Same(r)' <=> Same(r)
         /\ Ahead(r)' <=> Ahead(r)
         /\ Alive(r)' <=> Alive(r)
         /\ Listening(r)' <=> Listening(r)
         /\ Count(r)' = Count(r) /\ Reported(r)' = Reported(r) /\ Sha(r)' = Sha(r)
         /\ Greeted(r)' = Greeted(r) /\ Met(r)' = Met(r)
         /\ Awaited(r)' = Awaited(r) /\ Sent(r)' = Sent(r)
         /\ LocalInv(r)' <=> LocalInv(r)
         /\ Faultless' <=> Faultless
<1> USE DEF AtRest
<1>1. /\ Gone(r)' <=> Gone(r)
      /\ Fresh(r)' <=> Fresh(r)
      /\ InGame(r)' <=> InGame(r)
      /\ Playing(r)' <=> Playing(r)
      /\ Over(r)' <=> Over(r)
      /\ Count(r)' = Count(r) /\ Reported(r)' = Reported(r) /\ Sha(r)' = Sha(r)
  BY DEF Gone, Fresh, InGame, Playing, Over, Count, Reported, Sha
<1>2. /\ Gone(Opponent(r))' <=> Gone(Opponent(r))
      /\ Count(Opponent(r))' = Count(Opponent(r))
  BY DEF Gone, Count
<1>3. Alive(r)' <=> Alive(r)
  BY <1>1, <1>2 DEF Alive
<1>4. /\ Same(r)' <=> Same(r)
      /\ Ahead(r)' <=> Ahead(r)
  BY <1>1, <1>2, <1>3 DEF Same, Ahead
<1>5. /\ Listening(r)' <=> Listening(r)
      /\ Greeted(r)' = Greeted(r) /\ Met(r)' = Met(r)
      /\ Awaited(r)' = Awaited(r) /\ Sent(r)' = Sent(r)
  BY <1>1 DEF Listening, Greeted, Met, Awaited, Sent
<1>6. LocalInv(r)' <=> LocalInv(r)
  BY <1>1 DEF LocalInv, Role
<1>7. Faultless' <=> Faultless
  BY DEF Faultless
<1> QED BY <1>1, <1>3, <1>4, <1>5, <1>6, <1>7

LEMMA SaidAlike ==
  ASSUME AtRest, NEW r
  PROVE  /\ \A m : Sound(r, m)' <=> Sound(r, m)
         /\ \A n, c : /\ Claimed(r, n, c)' <=> Claimed(r, n, c)
                      /\ Honest(n, c)' <=> Honest(n, c)
         /\ \A a : Vouched(r, a)' <=> Vouched(r, a)
<1>1. \A m : Sound(r, m)' <=> Sound(r, m)
  <2>1. InGame(Opponent(r))' <=> InGame(Opponent(r))
    BY OnlyMail
  <2>2. Same(r)' <=> Same(r)
    BY OnlyMail
  <2> QED BY <2>1, <2>2 DEF Sound, Role, AtRest
<1>2. ASSUME NEW s, NEW n, NEW c
      PROVE  /\ Claimed(s, n, c)' <=> Claimed(s, n, c)
             /\ Honest(n, c)' <=> Honest(n, c)
  <2>1. Count(s)' = Count(s) /\ Reported(s)' = Reported(s)
    BY OnlyMail
  <2> QED BY <2>1 DEF Claimed, Honest, AtRest
<1>3. ASSUME NEW a PROVE Vouched(r, a)' <=> Vouched(r, a)
  <2> DEFINE q == Opponent(r)
  <2>1. Count(q)' = Count(q) /\ Sha(q)' = Sha(q)
    BY OnlyMail
  <2>2. /\ Claimed(q, a.game, a.claim)' <=> Claimed(q, a.game, a.claim)
        /\ Honest(a.game, a.claim)' <=> Honest(a.game, a.claim)
    BY <1>2
  <2> HIDE DEF q
  <2>3. Vouched(r, a) <=>
          /\ a.kind = "audit" => Claimed(q, a.game, a.claim) /\ Honest(a.game, a.claim)
          /\ a.kind = "consensus" => Count(q) = Games /\ a.sha = Sha(q)
    BY DEF Vouched, q
  <2>4. Vouched(r, a)' <=>
          /\ a.kind = "audit" => Claimed(q, a.game, a.claim)' /\ Honest(a.game, a.claim)'
          /\ a.kind = "consensus" => Count(q)' = Games /\ a.sha = Sha(q)'
    BY DEF Vouched, q
  <2> QED BY <2>1, <2>2, <2>3, <2>4
<1> QED BY <1>1, <1>2, <1>3

\* What a peer is told by audits ...
LEMMA ToldAlike ==
  ASSUME AtRest, NEW r, mail'[r].audits = mail[r].audits
  PROVE  /\ AuditClaims(r)' = AuditClaims(r) /\ DigestsTo(r)' = DigestsTo(r)
         /\ (HasAudit(r)' <=> HasAudit(r)) /\ (Quiet(r)' <=> Quiet(r))
         /\ (ClaimInv(r)' <=> ClaimInv(r)) /\ (DigestInv(r)' <=> DigestInv(r))
<1>1. AuditClaims(r)' = AuditClaims(r) /\ DigestsTo(r)' = DigestsTo(r)
  BY DEF AuditClaims, DigestsTo
<1>2. HasAudit(r)' <=> HasAudit(r)
  BY <1>1 DEF HasAudit, AtRest
<1>3. Quiet(r)' <=> Quiet(r)
  BY <1>2 DEF Quiet, Role, AtRest
<1>4. ClaimInv(r)' <=> ClaimInv(r)
  <2>1. (InGame(r)' <=> InGame(r)) /\ Reported(r)' = Reported(r)
    BY OnlyMail
  <2>2. \A n, c : /\ Claimed(Opponent(r), n, c)' <=> Claimed(Opponent(r), n, c)
                  /\ Honest(n, c)' <=> Honest(n, c)
    BY SaidAlike
  <2> QED BY <1>1, <2>1, <2>2 DEF ClaimInv, AtRest
<1>5. DigestInv(r)' <=> DigestInv(r)
  <2>1. Count(Opponent(r))' = Count(Opponent(r)) /\ Sha(Opponent(r))' = Sha(Opponent(r))
    BY OnlyMail
  <2>2. Gone(r)' <=> Gone(r)
    BY OnlyMail
  <2> QED BY <1>1, <2>1, <2>2 DEF DigestInv, AtRest
<1> QED BY <1>1, <1>2, <1>3, <1>4, <1>5

\* ... and by turns.
LEMMA PlayedAlike ==
  ASSUME AtRest, NEW r, mail'[r].turns = mail[r].turns
  PROVE  /\ StreamInv(r)' <=> StreamInv(r)
         /\ Ended(r)' <=> Ended(r)
         /\ \A m : Repeated(r, m)' <=> Repeated(r, m)
<1>1. /\ Awaited(r)' = Awaited(r) /\ Sent(Opponent(r))' = Sent(Opponent(r))
      /\ Listening(r)' <=> Listening(r)
      /\ Same(r)' <=> Same(r)
  BY OnlyMail
<1>2. \A m : Sound(r, m)' <=> Sound(r, m)
  BY SaidAlike
<1>3. StreamInv(r)' <=> StreamInv(r)
  BY <1>1, <1>2 DEF StreamInv, Follows, AtRest
<1>4. Ended(r)' <=> Ended(r)
  BY DEF Ended, Role, AtRest
<1>5. \A m : Repeated(r, m)' <=> Repeated(r, m)
  BY <1>1 DEF Repeated
<1> QED BY <1>3, <1>4, <1>5

LEMMA LandFaultless ==
  ASSUME AtRest, NEW r, FaultlessInv(r)
  PROVE  FaultlessInv(r)'
<1> DEFINE q == Opponent(r)
<1>1. /\ Gone(r)' <=> Gone(r)
      /\ Same(r)' <=> Same(r)
      /\ InGame(r)' <=> InGame(r)
      /\ InGame(q)' <=> InGame(q)
      /\ Faultless' <=> Faultless
      /\ Reported(r)' = Reported(r)
  BY OnlyMail
<1> QED BY <1>1 DEF FaultlessInv, AtRest

\* The copies of turns that are left.
LEMMA LeftTurns ==
  ASSUME AtRest, NEW r, LateTurnInv(r), mail'[r].late \subseteq mail[r].late,
         \A m : Repeated(r, m) => Repeated(r, m)'
  PROVE  LateTurnInv(r)'
<1>1. LateTurns(r)' \subseteq LateTurns(r)
  BY DEF LateTurns
<1>2. Listening(r)' <=> Listening(r)
  BY OnlyMail
<1>3. \A m : Sound(r, m)' <=> Sound(r, m)
  BY SaidAlike
<1> QED BY <1>1, <1>2, <1>3 DEF LateTurnInv, AtRest

LEMMA LeftAudits ==
  ASSUME AtRest, NEW r, LateAuditInv(r), mail'[r].late \subseteq mail[r].late
  PROVE  LateAuditInv(r)'
<1>1. LateAudits(r)' \subseteq LateAudits(r)
  BY DEF LateAudits
<1>2. \A a : Vouched(r, a)' <=> Vouched(r, a)
  BY SaidAlike
<1> QED BY <1>1, <1>2 DEF LateAuditInv

\* All that is assumed of the two peers when a copy lands.
Resting(p, q) ==
  /\ TypeInv /\ Pair(p, q) /\ Half(p) /\ Half(q)
  /\ LateTurnInv(p) /\ LateTurnInv(q) /\ LateAuditInv(p) /\ LateAuditInv(q)

\* A turn that is known already fits into the stream at its end.
LEMMA RepeatStreams ==
  ASSUME NEW s \in Seq(Turns), NEW m \in Turns, NEW t, Copied(s, m, t), NEW w \in Nat,
         NEW p, NEW r, Streams(p, s, w, r), Sound(p, m), m.step < w \/ m \in ToSet(s)
  PROVE  /\ Streams(p, t, w, r)
         /\ \A n \in Nat : Keeping(s, w, n) => Keeping(t, w, n)
<1>1. /\ DOMAIN s = 1..Len(s) /\ Len(s) \in Nat /\ m.step \in Nat
      /\ \A i \in DOMAIN s : i \in DOMAIN t /\ t[i] = s[i]
      /\ \A i \in DOMAIN t : i \in DOMAIN s \/ (i > Len(s) /\ t[i] = m)
      /\ DOMAIN t \subseteq Nat
  <2>1. m.step \in Nat
    BY DEF Turns
  <2>2. t \in Seq(Turns)
    BY Pushed
  <2>3. DOMAIN s = 1..Len(s) /\ Len(s) \in Nat /\ DOMAIN t \subseteq Nat
    BY <2>2
  <2> QED BY <2>1, <2>3, Pushed
<1>2. m.step < w \/ \E j \in DOMAIN s : s[j] = m
  BY DEF ToSet
<1>3. ASSUME NEW i \in DOMAIN t
      PROVE  t[i].step <= w \/ \E j \in 1..i - 1 : t[j].step = t[i].step - 1
  <2>1. ASSUME NEW k \in DOMAIN s, k <= i, t[i] = s[k]
        PROVE  t[i].step <= w \/ \E j \in 1..i - 1 : t[j].step = t[i].step - 1
    <3>1. CASE s[k].step <= w
      BY <2>1, <3>1
    <3>2. ASSUME NEW j \in 1..k - 1, s[j].step = s[k].step - 1
          PROVE  \E l \in 1..i - 1 : t[l].step = t[i].step - 1
      <4>1. j \in DOMAIN s /\ j \in 1..i - 1
        BY <1>1, <2>1
      <4>2. t[j] = s[j]
        BY <1>1, <4>1
      <4> QED BY <2>1, <3>2, <4>1, <4>2
    <3> QED BY <2>1, <3>1, <3>2 DEF Streams
  <2>2. CASE i \in DOMAIN s
    <3>1. i <= i /\ t[i] = s[i]
      BY <1>1, <2>2
    <3> QED BY <2>1, <2>2, <3>1
  <2>3. CASE i > Len(s) /\ t[i] = m
    <3>1. CASE m.step < w
      BY <1>1, <2>3, <3>1
    <3>2. ASSUME NEW k \in DOMAIN s, s[k] = m
          PROVE  t[i].step <= w \/ \E j \in 1..i - 1 : t[j].step = t[i].step - 1
      <4>1. k <= i
        BY <1>1, <2>3
      <4> QED BY <2>1, <2>3, <3>2, <4>1
    <3> QED BY <1>2, <3>1, <3>2
  <2> QED BY <1>1, <2>2, <2>3
<1>4. \A i \in DOMAIN t : Sound(p, t[i])
  BY <1>1 DEF Streams
<1>5. ASSUME NEW n \in Nat, Keeping(s, w, n) PROVE Keeping(t, w, n)
  <2>1. /\ \A i \in DOMAIN s : s[i].step <= n
        /\ w - 1 <= n
        /\ n <= w - 1 \/ \E j \in DOMAIN s : s[j].step = n
    BY <1>5 DEF Keeping
  <2>2. m.step <= n
    BY <1>1, <1>2, <2>1
  <2>3. \A i \in DOMAIN t : t[i].step <= n
    BY <1>1, <2>1, <2>2
  <2>4. n <= w - 1 \/ \E j \in DOMAIN t : t[j].step = n
    BY <1>1, <2>1
  <2> QED BY <2>1, <2>3, <2>4 DEF Keeping
<1> QED BY <1>3, <1>4, <1>5 DEF Streams

LEMMA TurnLandsInStream ==
  ASSUME NEW p, NEW q, NEW m, Resting(p, q), TurnLands(p, q, m)
  PROVE  StreamInv(p)'
<1> SUFFICES ASSUME Listening(p)' PROVE StreamInv(p)'
  BY DEF StreamInv
<1> DEFINE s == mail[p].turns  t == mail'[p].turns
<1>0. AtRest /\ TypeInv /\ p \in Peers /\ q \in Peers /\ Opponent(p) = q
      /\ LocalInv(p) /\ LocalInv(q) /\ StreamInv(p) /\ LateTurnInv(p)
  BY DEF TurnLands, Settling, Resting, Half, Pair
<1>1. /\ Listening(p) /\ Awaited(p)' = Awaited(p) /\ Sent(q)' = Sent(q)
      /\ Same(p)' <=> Same(p)
  BY <1>0, OnlyMail
<1>2. m \in Turns /\ Sound(p, m) /\ Repeated(p, m)
  <2>1. m \in LateTurns(p) /\ m.game = game[p]
    BY DEF TurnLands
  <2> QED BY <1>0, <1>1, <2>1, LateTypes DEF LateTurnInv
<1>3. s \in Seq(Turns) /\ Copied(s, m, t)
  BY <1>0 DEF TypeInv, TurnLands
<1>4. Awaited(p) \in Nat /\ Sent(q) \in Nat
  BY <1>0, <1>1 DEF Awaited, Sent, Listening, LocalInv, InOrder, TypeInv
<1>5. /\ Streams(p, s, Awaited(p), ready[p])
      /\ Same(p) => Keeping(s, Awaited(p), Sent(q))
  BY <1>0, <1>1, StreamParts
<1>6. /\ Streams(p, t, Awaited(p), ready[p])
      /\ Same(p) => Keeping(t, Awaited(p), Sent(q))
  <2>1. m.step < Awaited(p) \/ m \in ToSet(s)
    BY <1>2 DEF Repeated
  <2> HIDE DEF s, t
  <2> QED BY <1>2, <1>3, <1>4, <1>5, <2>1, RepeatStreams
<1>7. \A n : Sound(p, n)' <=> Sound(p, n)
  BY <1>0, SaidAlike
<1>8. Streams(p, mail[p].turns, Awaited(p), ready[p])'
  BY <1>0, <1>1, <1>6, <1>7 DEF Streams, AtRest
<1>9. Same(p)' => Keeping(mail[p].turns, Awaited(p), Sent(q))'
  BY <1>1, <1>6 DEF Keeping
<1>10. StreamInv(p)' <=>
         (Listening(p)' => /\ Streams(p, mail[p].turns, Awaited(p), ready[p])'
                           /\ Same(p)' => Keeping(mail[p].turns, Awaited(p), Sent(q))')
  BY <1>0 DEF StreamInv, Streams, Keeping, Follows
<1> QED BY <1>8, <1>9, <1>10

\* It ends the game for nobody who had not heard the end already.
LEMMA TurnLandsOnEnded ==
  ASSUME NEW p, NEW q, NEW m, Resting(p, q), TurnLands(p, q, m), Ended(p)
  PROVE  Ended(p)'
<1> DEFINE s == mail[p].turns  t == mail'[p].turns
<1>0. AtRest /\ TypeInv /\ p \in Peers /\ LocalInv(p) /\ LateTurnInv(p)
  BY DEF TurnLands, Settling, Resting, Half, Pair
<1>1. Role(p, game[p])' = Role(p, game[p])
  BY <1>0 DEF AtRest, Role
<1>2. m \in Turns /\ (Listening(p) => Sound(p, m) /\ Repeated(p, m))
  <2>1. m \in LateTurns(p) /\ m.game = game[p]
    BY DEF TurnLands
  <2> QED BY <1>0, <2>1, LateTypes DEF LateTurnInv
<1>3. \A i \in DOMAIN t : (i \in DOMAIN s /\ t[i] = s[i]) \/ t[i] = m
  <2>1. s \in Seq(Turns) /\ Copied(s, m, t)
    BY <1>0 DEF TypeInv, TurnLands
  <2> HIDE DEF s, t
  <2> QED BY <1>2, <2>1, Pushed
<1>4. CASE /\ pc[p] = "meet" /\ Role(p, game[p]) = "police"
           /\ \A i \in DOMAIN s : Final(s[i])
  <2>1. Listening(p) /\ Awaited(p) = 1
    BY <1>4 DEF Listening, Fresh, Awaited
  <2>2. m.step \in Nat /\ m.step >= 1 /\ (m.step < 1 \/ m \in ToSet(s))
    BY <1>2, <2>1 DEF Sound, Repeated, Turns
  <2>3. Final(m)
    BY <1>4, <2>2 DEF ToSet
  <2>4. \A i \in DOMAIN t : Final(t[i])
    BY <1>3, <1>4, <2>3
  <2> QED BY <1>0, <1>1, <1>4, <2>4 DEF Ended, AtRest
<1>5. CASE /\ pc[p] = "play" /\ result[p] = None
           /\ \A i \in DOMAIN ready[p] : Final(ready[p][i])
           /\ \A i \in DOMAIN s : s[i].step >= inbox[p].next => Final(s[i])
  <2>1. Listening(p) /\ Awaited(p) = inbox[p].next /\ inbox[p].next \in Nat
    BY <1>0, <1>5 DEF Listening, Playing, Fresh, Awaited, LocalInv, InOrder
  <2>2. m.step \in Nat /\ (m.step < inbox[p].next \/ m \in ToSet(s))
    BY <1>2, <2>1 DEF Repeated, Turns
  <2>3. m.step >= inbox[p].next => Final(m)
    BY <1>5, <2>1, <2>2 DEF ToSet
  <2>4. \A i \in DOMAIN t : t[i].step >= inbox[p].next => Final(t[i])
    BY <1>3, <1>5, <2>3
  <2> QED BY <1>0, <1>5, <2>4 DEF Ended, AtRest
<1>6. CASE pc[p] \in {"play", "audit"} /\ result[p] # None
  BY <1>0, <1>6 DEF Ended, AtRest
<1> QED BY <1>4, <1>5, <1>6 DEF Ended

\* Nor does it land at a peer that plays a game ahead.
LEMMA NotAheadOfTurn ==
  ASSUME NEW p, NEW q, NEW m, Resting(p, q), TurnLands(p, q, m), Ahead(p)
  PROVE  Over(p)
<1> SUFFICES ASSUME ~Over(p) PROVE FALSE
  OBVIOUS
<1>1. /\ TypeInv /\ p \in Peers /\ q \in Peers /\ Opponent(p) = q
      /\ LocalInv(p) /\ LocalInv(q) /\ LateTurnInv(p)
  BY DEF Resting, Half, Pair
<1>2. /\ game[p] \in 1..Games /\ game[q] \in 1..Games /\ Games \in Nat
      /\ Count(p) \in Nat /\ Count(q) \in Nat
  BY <1>1, Numbers
<1>3. ~Gone(p) /\ ~Gone(q) /\ Count(p) = Count(q) + 1
  BY <1>1 DEF Ahead, Alive
<1>4. Count(p) = game[p] - 1 /\ (Count(q) = Games \/ Count(q) = game[q] - 1)
  BY <1>1, <1>3 DEF LocalInv
<1>5. game[p] <= game[q]
  BY <1>1 DEF TurnLands, LateTurnInv
<1> QED BY <1>2, <1>3, <1>4, <1>5

LEMMA TurnLandsKept ==
  ASSUME NEW p, NEW q, NEW m, Resting(p, q), TurnLands(p, q, m)
  PROVE  /\ Half(p)' /\ Half(q)' /\ LateTurnInv(p)' /\ LateTurnInv(q)'
         /\ LateAuditInv(p)' /\ LateAuditInv(q)'
<1>0. /\ AtRest /\ TypeInv /\ Pair(p, q) /\ Pair(q, p) /\ Opponent(p) = q /\ Opponent(q) = p
      /\ Half(p) /\ Half(q) /\ mail'[q] = mail[q] /\ mail'[p].agreements = mail[p].agreements
      /\ mail'[p].audits = mail[p].audits /\ mail'[p].late \subseteq mail[p].late
      /\ Copied(mail[p].turns, m, mail'[p].turns) /\ p \in Peers /\ q \in Peers
      /\ m \in LateTurns(p)
  BY DEF TurnLands, Settling, Resting, Pair
<1>1. /\ LocalInv(p) /\ StreamInv(p) /\ ClaimInv(p) /\ DigestInv(p)
      /\ PairInv(p) /\ FaultlessInv(p)
      /\ LocalInv(q) /\ StreamInv(q) /\ ClaimInv(q) /\ DigestInv(q)
      /\ PairInv(q) /\ FaultlessInv(q)
  BY <1>0 DEF Half
<1>2. mail'[q].audits = mail[q].audits /\ mail'[q].turns = mail[q].turns
      /\ mail'[q].agreements = mail[q].agreements /\ mail'[q].late \subseteq mail[q].late
  BY <1>0
<1>3. LocalInv(p)' /\ LocalInv(q)'
  BY <1>0, <1>1, OnlyMail
<1>4. ClaimInv(p)' /\ ClaimInv(q)' /\ DigestInv(p)' /\ DigestInv(q)'
  BY <1>0, <1>1, <1>2, ToldAlike
<1>5. FaultlessInv(p)' /\ FaultlessInv(q)'
  BY <1>0, <1>1, LandFaultless
<1>6. StreamInv(p)' /\ StreamInv(q)'
  BY <1>0, <1>1, <1>2, TurnLandsInStream, PlayedAlike
<1>7. /\ HasAudit(p)' <=> HasAudit(p)
      /\ HasAudit(q)' <=> HasAudit(q)
      /\ Quiet(p)' <=> Quiet(p)
      /\ Quiet(q)' <=> Quiet(q)
  BY <1>0, <1>2, ToldAlike
<1>8. /\ Ahead(p)' <=> Ahead(p)
      /\ Ahead(q)' <=> Ahead(q)
      /\ Alive(p)' <=> Alive(p)
      /\ Alive(q)' <=> Alive(q)
      /\ Same(p)' <=> Same(p)
      /\ Same(q)' <=> Same(q)
      /\ Over(p)' <=> Over(p)
      /\ Over(q)' <=> Over(q)
      /\ InGame(p)' <=> InGame(p)
      /\ InGame(q)' <=> InGame(q)
      /\ Count(p)' = Count(p) /\ Count(q)' = Count(q)
      /\ Greeted(p)' = Greeted(p) /\ Greeted(q)' = Greeted(q)
      /\ Met(p)' = Met(p) /\ Met(q)' = Met(q)
  BY <1>0, OnlyMail
<1>9. PairInv(p)'
  <2>1. GreetingsInv(p)'
    BY <1>0, <1>1, <1>8 DEF PairInv, GreetingsInv
  <2>2. PaceInv(p)'
    <3>1. Ahead(p) => Over(p)
      BY NotAheadOfTurn
    <3> QED BY <1>0, <1>1, <1>7, <1>8, <3>1 DEF PairInv, PaceInv
  <2>3. ToldInv(p)'
    BY <1>0, <1>1, <1>7, <1>8 DEF PairInv, ToldInv, AtRest
  <2>4. EndInv(p)'
    <3>1. Ended(q)' <=> Ended(q)
      BY <1>0, <1>2, PlayedAlike
    <3> QED BY <1>0, <1>1, <1>8, <3>1 DEF PairInv, EndInv, AtRest
  <2> QED BY <2>1, <2>2, <2>3, <2>4 DEF PairInv
<1>10. PairInv(q)'
  <2>1. GreetingsInv(q)'
    BY <1>0, <1>1, <1>2, <1>8 DEF PairInv, GreetingsInv
  <2>2. PaceInv(q)'
    BY <1>0, <1>1, <1>2, <1>7, <1>8 DEF PairInv, PaceInv
  <2>3. ToldInv(q)'
    BY <1>0, <1>1, <1>7, <1>8 DEF PairInv, ToldInv, AtRest
  <2>4. EndInv(q)'
    <3>1. Ended(p) => Ended(p)'
      BY TurnLandsOnEnded
    <3> QED BY <1>0, <1>1, <1>8, <3>1 DEF PairInv, EndInv, AtRest
  <2> QED BY <2>1, <2>2, <2>3, <2>4 DEF PairInv
<1>11. Half(p)' /\ Half(q)'
  BY <1>3, <1>4, <1>5, <1>6, <1>9, <1>10 DEF Half
<1>12. ASSUME NEW k, Repeated(p, k) PROVE Repeated(p, k)'
  <2>1. Awaited(p)' = Awaited(p)
    BY <1>0, OnlyMail
  <2>2. ToSet(mail[p].turns) \subseteq ToSet(mail'[p].turns)
    <3> DEFINE s == mail[p].turns  t == mail'[p].turns
    <3>1. s \in Seq(Turns) /\ m \in Turns /\ Copied(s, m, t)
      BY <1>0, LateTypes DEF TypeInv
    <3> HIDE DEF s, t
    <3>2. ToSet(t) = ToSet(s) \cup {m}
      BY <3>1, Pushed
    <3> QED BY <3>2 DEF s, t
  <2> QED BY <1>12, <2>1, <2>2 DEF Repeated
<1>13. LateTurnInv(p)' /\ LateTurnInv(q)'
  <2>1. \A k : Repeated(q, k)' <=> Repeated(q, k)
    BY <1>0, <1>2, PlayedAlike
  <2>2. LateTurnInv(p) /\ LateTurnInv(q)
    BY DEF Resting
  <2>3. LateTurnInv(p)'
    BY <1>0, <1>12, <2>2, LeftTurns
  <2> QED BY <1>0, <1>2, <2>1, <2>2, <2>3, LeftTurns
<1>14. LateAuditInv(p)' /\ LateAuditInv(q)'
  BY <1>0, <1>2, LeftAudits DEF Resting
<1> QED BY <1>11, <1>13, <1>14

\* What an audit tells, the opponent stands by.
LEMMA AuditLandsKept ==
  ASSUME NEW p, NEW q, NEW a, Resting(p, q), AuditLands(p, q, a)
  PROVE  /\ Half(p)' /\ Half(q)' /\ LateTurnInv(p)' /\ LateTurnInv(q)'
         /\ LateAuditInv(p)' /\ LateAuditInv(q)'
<1>0. /\ AtRest /\ TypeInv /\ Pair(p, q) /\ Pair(q, p) /\ Opponent(p) = q /\ Opponent(q) = p
      /\ Half(p) /\ Half(q) /\ mail'[q] = mail[q] /\ mail'[p].agreements = mail[p].agreements
      /\ mail'[p].turns = mail[p].turns /\ mail'[p].late \subseteq mail[p].late
      /\ Copied(mail[p].audits, a, mail'[p].audits) /\ p \in Peers /\ q \in Peers
      /\ a \in LateAudits(p)
  BY DEF AuditLands, Settling, Resting, Pair
<1>1. /\ LocalInv(p) /\ StreamInv(p) /\ ClaimInv(p) /\ DigestInv(p)
      /\ PairInv(p) /\ FaultlessInv(p)
      /\ LocalInv(q) /\ StreamInv(q) /\ ClaimInv(q) /\ DigestInv(q)
      /\ PairInv(q) /\ FaultlessInv(q)
  BY <1>0 DEF Half
<1>2. mail'[q].audits = mail[q].audits /\ mail'[q].turns = mail[q].turns
      /\ mail'[q].agreements = mail[q].agreements /\ mail'[q].late \subseteq mail[q].late
  BY <1>0
<1>3. ToSet(mail'[p].audits) = ToSet(mail[p].audits) \cup {a}
  <2> DEFINE s == mail[p].audits  t == mail'[p].audits
  <2>1. s \in Seq(Claims \cup Digests) /\ a \in Claims \cup Digests /\ Copied(s, a, t)
    BY <1>0, LateTypes DEF TypeInv
  <2> HIDE DEF s, t
  <2>2. ToSet(t) = ToSet(s) \cup {a}
    BY <2>1, Pushed
  <2> QED BY <2>2 DEF s, t
<1>4. /\ Vouched(p, a)
      /\ \A n, c : /\ Claimed(q, n, c)' <=> Claimed(q, n, c)
                   /\ Honest(n, c)' <=> Honest(n, c)
      /\ Count(q)' = Count(q) /\ Sha(q)' = Sha(q)
  <2>1. Vouched(p, a)
    BY <1>0 DEF Resting, LateAuditInv
  <2>2. \A n, c : /\ Claimed(q, n, c)' <=> Claimed(q, n, c)
                  /\ Honest(n, c)' <=> Honest(n, c)
    BY <1>0, SaidAlike
  <2>3. Count(q)' = Count(q) /\ Sha(q)' = Sha(q)
    BY <1>0, OnlyMail
  <2> QED BY <2>1, <2>2, <2>3
<1>5. LocalInv(p)' /\ LocalInv(q)' /\ FaultlessInv(p)' /\ FaultlessInv(q)'
  BY <1>0, <1>1, OnlyMail, LandFaultless
<1>6. StreamInv(p)' /\ StreamInv(q)'
  BY <1>0, <1>1, <1>2, PlayedAlike
<1>7. /\ Ahead(p)' <=> Ahead(p)
      /\ Ahead(q)' <=> Ahead(q)
      /\ Alive(p)' <=> Alive(p)
      /\ Alive(q)' <=> Alive(q)
      /\ Same(p)' <=> Same(p)
      /\ Same(q)' <=> Same(q)
      /\ Over(p)' <=> Over(p)
      /\ Over(q)' <=> Over(q)
      /\ Gone(p)' <=> Gone(p)
      /\ InGame(p)' <=> InGame(p)
      /\ InGame(q)' <=> InGame(q)
      /\ Count(p)' = Count(p) /\ Count(q)' = Count(q) /\ Reported(p)' = Reported(p)
      /\ Greeted(p)' = Greeted(p) /\ Greeted(q)' = Greeted(q)
      /\ Met(p)' = Met(p) /\ Met(q)' = Met(q)
  BY <1>0, OnlyMail
<1>8. /\ ClaimInv(q)' /\ DigestInv(q)'
      /\ HasAudit(q)' <=> HasAudit(q)
      /\ Quiet(q)' <=> Quiet(q)
  BY <1>0, <1>1, <1>2, ToldAlike
<1>9. /\ AuditClaims(p) \subseteq AuditClaims(p)'
      /\ \A b \in AuditClaims(p)' : b \in AuditClaims(p) \/ (b = a /\ a.kind = "audit")
      /\ DigestsTo(p) \subseteq DigestsTo(p)'
      /\ \A b \in DigestsTo(p)' : b \in DigestsTo(p) \/ (b = a /\ a.kind = "consensus")
  BY <1>3 DEF AuditClaims, DigestsTo
<1>10. ClaimInv(p)'
  <2>1. \A b \in AuditClaims(p)' : Claimed(q, b.game, b.claim)' /\ Honest(b.game, b.claim)'
    BY <1>0, <1>1, <1>4, <1>9 DEF ClaimInv, Vouched
  <2> QED BY <1>0, <1>1, <1>4, <1>7, <2>1 DEF ClaimInv, AtRest
<1>11. DigestInv(p)'
  <2>1. \A b \in DigestsTo(p)' : Count(q)' = Games /\ b.sha = Sha(q)'
    BY <1>0, <1>1, <1>4, <1>9 DEF DigestInv, Vouched
  <2> QED BY <1>0, <1>1, <1>4, <1>7, <1>9, <2>1 DEF DigestInv, AtRest
<1>12. (HasAudit(p) => HasAudit(p)') /\ (Quiet(p) => Quiet(p)')
  <2>1. HasAudit(p) => HasAudit(p)'
    BY <1>0, <1>9 DEF HasAudit, AtRest
  <2>2. Role(p, game[p])' = Role(p, game[p])
    BY <1>0 DEF AtRest, Role
  <2> QED BY <1>0, <2>1, <2>2 DEF Quiet, AtRest
<1>13. (Ended(p)' <=> Ended(p)) /\ (Ended(q)' <=> Ended(q))
  BY <1>0, <1>2, PlayedAlike
<1>14. PairInv(p)'
  <2>1. GreetingsInv(p)'
    BY <1>0, <1>1, <1>7 DEF PairInv, GreetingsInv
  <2>2. PaceInv(p)'
    BY <1>0, <1>1, <1>7, <1>8 DEF PairInv, PaceInv
  <2>3. ToldInv(p)'
    BY <1>0, <1>1, <1>7, <1>8 DEF PairInv, ToldInv, AtRest
  <2>4. EndInv(p)'
    BY <1>0, <1>1, <1>7, <1>13 DEF PairInv, EndInv, AtRest
  <2> QED BY <2>1, <2>2, <2>3, <2>4 DEF PairInv
<1>15. PairInv(q)'
  <2>1. GreetingsInv(q)'
    BY <1>0, <1>1, <1>2, <1>7 DEF PairInv, GreetingsInv
  <2>2. PaceInv(q)'
    BY <1>0, <1>1, <1>2, <1>7, <1>12 DEF PairInv, PaceInv
  <2>3. ToldInv(q)'
    BY <1>0, <1>1, <1>7, <1>12 DEF PairInv, ToldInv, AtRest
  <2>4. EndInv(q)'
    BY <1>0, <1>1, <1>7, <1>13 DEF PairInv, EndInv, AtRest
  <2> QED BY <2>1, <2>2, <2>3, <2>4 DEF PairInv
<1>16. Half(p)' /\ Half(q)'
  BY <1>5, <1>6, <1>8, <1>10, <1>11, <1>14, <1>15 DEF Half
<1>17. LateTurnInv(p)' /\ LateTurnInv(q)'
  <2>1. \A k : /\ Repeated(p, k)' <=> Repeated(p, k)
               /\ Repeated(q, k)' <=> Repeated(q, k)
    BY <1>0, <1>2, PlayedAlike
  <2>2. LateTurnInv(p) /\ LateTurnInv(q)
    BY DEF Resting
  <2> QED BY <1>0, <1>2, <2>1, <2>2, LeftTurns
<1>18. LateAuditInv(p)' /\ LateAuditInv(q)'
  BY <1>0, <1>2, LeftAudits DEF Resting
<1> QED BY <1>16, <1>17, <1>18

-----------------------------------------------------------------------------
(* The invariant, and what it says of the reports. *)

LEMMA Initially == Init => IInv
<1> SUFFICES ASSUME Init PROVE IInv
  OBVIOUS
<1>0. <<>> \in Seq(Turns) /\ <<>> \in Seq(Rows) /\ <<>> \in Seq(1..Games)
      /\ <<>> \in Seq(Claims \cup Digests) /\ Len(<<>>) = 0 /\ DOMAIN <<>> = {}
      /\ 1 \in 1..Games /\ 0 \in 0..MaxTimeouts
  BY SeriesAssumption
<1>1. TypeInv
  <2>1. mail \in [Peers -> [agreements : Seq(1..Games), turns : Seq(Turns),
                            audits : Seq(Claims \cup Digests), late : SUBSET Copies]]
    BY <1>0 DEF Init
  <2>2. /\ ready \in [Peers -> Seq(Turns)] /\ reports \in [Peers -> Seq(Rows)]
        /\ game \in [Peers -> 1..Games]
        /\ faults \in FaultTypes
    BY <1>0 DEF Init, FaultTypes
  <2> QED BY <2>1, <2>2 DEF Init, TypeInv
<1>2. ASSUME NEW p \in Peers
      PROVE  /\ game[p] = 1 /\ pc[p] = "greet" /\ step[p] = 0 /\ ready[p] = <<>>
             /\ result[p] = None /\ heard[p] = None /\ reports[p] = <<>>
             /\ peerSha[p] = None /\ mail[p].agreements = <<>> /\ mail[p].turns = <<>>
             /\ mail[p].audits = <<>> /\ Opponent(p) \in Peers
  BY Opponents DEF Init
<1>3. ASSUME NEW p \in Peers
      PROVE  /\ ~Gone(p) /\ Fresh(p) /\ ~InGame(p) /\ ~Over(p) /\ ~Playing(p)
             /\ Count(p) = 0 /\ Reported(p) = {} /\ Greeted(p) = 0 /\ Met(p) = 0
             /\ Awaited(p) = 1 /\ Sent(p) = 0 /\ AuditClaims(p) = {} /\ DigestsTo(p) = {}
  <2>1. Count(p) = 0 /\ Reported(p) = {} /\ AuditClaims(p) = {} /\ DigestsTo(p) = {}
    BY <1>0, <1>2 DEF Count, Reported, AuditClaims, DigestsTo, ToSet
  <2> QED BY <1>2, <2>1 DEF Gone, Fresh, InGame, Over, Playing, Greeted, Met, Awaited, Sent
<1>4. ASSUME NEW p \in Peers PROVE Half(p)
  <2>1. LocalInv(p)
    BY <1>2, <1>3 DEF LocalInv
  <2>2. StreamInv(p)
    BY <1>0, <1>2, <1>3 DEF StreamInv
  <2>3. ClaimInv(p)
    BY <1>2, <1>3 DEF ClaimInv
  <2>4. DigestInv(p)
    BY <1>2, <1>3 DEF DigestInv
  <2>5. PairInv(p)
    <3>1. Opponent(p) \in Peers
      BY <1>2
    <3>2. ~Ahead(p)
      BY <1>3, <3>1 DEF Ahead
    <3>3. GreetingsInv(p) /\ PaceInv(p)
      BY <1>0, <1>2, <1>3, <3>1, <3>2 DEF GreetingsInv, PaceInv
    <3> QED BY <1>2, <3>3 DEF PairInv, ToldInv, EndInv
  <2>6. FaultlessInv(p)
    BY <1>2, <1>3 DEF FaultlessInv
  <2> QED BY <2>1, <2>2, <2>3, <2>4, <2>5, <2>6 DEF Half
<1>5. ASSUME NEW p \in Peers PROVE LateTurnInv(p) /\ LateAuditInv(p)
  <2>1. mail[p].late = {}
    BY DEF Init
  <2> QED BY <2>1 DEF LateTurnInv, LateAuditInv, LateTurns, LateAudits
<1>6. faults.strays = {}
  BY DEF Init
<1> QED BY <1>1, <1>4, <1>5, <1>6 DEF IInv

LEMMA Stuttering == IInv /\ UNCHANGED vars => IInv'
<1> SUFFICES ASSUME IInv, UNCHANGED vars PROVE IInv'
  OBVIOUS
<1>1. AtRest /\ UNCHANGED mail
  BY DEF vars, AtRest
<1>2. TypeInv' /\ faults'.strays = {}
  BY <1>1 DEF IInv, TypeInv, AtRest
<1>3. ASSUME NEW p \in Peers PROVE Half(p)' /\ LateTurnInv(p)' /\ LateAuditInv(p)'
  <2> DEFINE q == Opponent(p)
  <2>0. Half(p) /\ LateTurnInv(p) /\ LateAuditInv(p)
    BY DEF IInv
  <2>1. LocalInv(p)' /\ FaultlessInv(p)'
    BY <1>1, <2>0, OnlyMail, LandFaultless DEF Half
  <2>2. StreamInv(p)' /\ ClaimInv(p)' /\ DigestInv(p)'
    BY <1>1, <2>0, ToldAlike, PlayedAlike DEF Half
  <2>3. /\ Same(p)' <=> Same(p)
        /\ Alive(p)' <=> Alive(p)
        /\ Ahead(p)' <=> Ahead(p)
        /\ Over(p)' <=> Over(p)
        /\ InGame(q)' <=> InGame(q)
        /\ Count(p)' = Count(p) /\ Count(q)' = Count(q)
        /\ Greeted(q)' = Greeted(q) /\ Met(p)' = Met(p)
    BY <1>1, OnlyMail
  <2>4. /\ HasAudit(q)' <=> HasAudit(q)
        /\ Quiet(q)' <=> Quiet(q)
        /\ Ended(q)' <=> Ended(q)
    BY <1>1, ToldAlike, PlayedAlike
  <2>5. PairInv(p)'
    <3>1. GreetingsInv(p)' /\ PaceInv(p)'
      BY <1>1, <2>0, <2>3, <2>4 DEF Half, PairInv, GreetingsInv, PaceInv
    <3>2. ToldInv(p)' /\ EndInv(p)'
      BY <1>1, <2>0, <2>3, <2>4 DEF Half, PairInv, ToldInv, EndInv, AtRest
    <3> QED BY <3>1, <3>2 DEF PairInv
  <2>6. \A m : Repeated(p, m)' <=> Repeated(p, m)
    BY <1>1, PlayedAlike
  <2>7. LateTurnInv(p)' /\ LateAuditInv(p)'
    BY <1>1, <2>0, <2>6, LeftTurns, LeftAudits
  <2> QED BY <2>1, <2>2, <2>5, <2>7 DEF Half
<1> QED BY <1>2, <1>3 DEF IInv

\* What a step of a peer keeps ...
LEMMA WorkKept ==
  ASSUME "agreements" \notin Duplicable, IInv, Steady',
         NEW p \in Peers, Work(p) \/ Timers(p) \/ Crash(p)
  PROVE  IInv'
<1> DEFINE q == Opponent(p)
<1>1. /\ Pair(p, q) /\ TypeInv /\ Half(p) /\ Half(q) /\ faults.strays = {}
      /\ LateTurnInv(p) /\ LateTurnInv(q) /\ LateAuditInv(p) /\ LateAuditInv(q)
  BY Pairs DEF IInv, Pair
<1>2. Steps(q) /\ Effect(p, q) /\ Pushes(p, q)
  BY <1>1, StepHasEffect, CopiesAfter DEF Half
<1>3. Acting(p, q)
  BY <1>1, <1>2 DEF Acting, Steps
<1> HIDE DEF q
<1>4. LocalInv(p)' /\ LocalInv(q)'
  <2>1. /\ TypeInv /\ TypeInv' /\ Keeps(q) /\ Effect(p, q) /\ Pair(p, q)
        /\ LocalInv(p) /\ LocalInv(q)
    BY <1>3, Known
  <2> QED BY <2>1, LocalSelf, LocalOther
<1>5. StreamInv(p)' /\ StreamInv(q)' /\ ClaimInv(p)' /\ ClaimInv(q)'
  BY <1>3, StreamSelf, StreamOther, ClaimSelf, ClaimOther
<1>6. DigestInv(p)' /\ DigestInv(q)' /\ FaultlessInv(p)' /\ FaultlessInv(q)'
  BY <1>3, DigestSelf, DigestOther, FaultlessSelf, FaultlessOther
<1>7. PairInv(p)' /\ PairInv(q)'
  BY <1>3, PairKept DEF Steady
<1>8. Half(p)' /\ Half(q)'
  BY <1>4, <1>5, <1>6, <1>7 DEF Half
<1>9. LateTurnInv(p)' /\ LateTurnInv(q)'
  BY <1>1, <1>2, <1>3, <1>5, LateTurnsSelf, LateTurnsOther
<1>10. LateAuditInv(p)' /\ LateAuditInv(q)'
  BY <1>1, <1>2, <1>3, <1>5, <1>6, LateAuditsSelf, LateAuditsOther
<1>11. faults'.strays = {}
  BY <1>1, <1>2, <1>3, NothingStrays
<1>12. \A r \in Peers : r = p \/ r = q
  BY <1>1 DEF Pair
<1>13. TypeInv'
  BY <1>2 DEF Steps
<1> QED BY <1>8, <1>9, <1>10, <1>11, <1>12, <1>13 DEF IInv

\* ... and what the landing of a copy does.
LEMMA LandKept ==
  ASSUME IInv, Steady', NEW p \in Peers, Land(p)
  PROVE  IInv'
<1> DEFINE q == Opponent(p)
<1>1. Resting(p, q) /\ Pair(p, q) /\ TypeInv /\ faults.strays = {}
  BY Pairs DEF IInv, Pair, Resting
<1>2. TypeInv' /\ ((\E m : TurnLands(p, q, m)) \/ (\E a : AuditLands(p, q, a)))
  BY <1>1, LandHasEffect DEF Steady
<1> HIDE DEF q
<1>3. /\ Half(p)' /\ Half(q)' /\ LateTurnInv(p)' /\ LateTurnInv(q)'
      /\ LateAuditInv(p)' /\ LateAuditInv(q)'
  BY <1>1, <1>2, TurnLandsKept, AuditLandsKept
<1>4. faults'.strays = {}
  BY <1>1, <1>2 DEF TurnLands, AuditLands, Settling, AtRest
<1>5. \A r \in Peers : r = p \/ r = q
  BY <1>1 DEF Pair
<1> QED BY <1>2, <1>3, <1>4, <1>5 DEF IInv

LEMMA Inductive ==
  ASSUME "agreements" \notin Duplicable, IInv, Steady', [Next]_vars
  PROVE  IInv'
<1>1. CASE UNCHANGED vars
  BY <1>1, Stuttering
<1>2. CASE Next
  BY <1>2, WorkKept, LandKept DEF Next
<1> QED BY <1>1, <1>2

-----------------------------------------------------------------------------
(* What went wrong is never forgotten: a series that is steady was so all along. *)

Counters == {"duplicates", "overtaken", "timeouts", "crashes", "strays"}

CountInv ==
  /\ faults = [c \in Counters |-> faults[c]]
  /\ faults.overtaken \in Nat /\ faults.timeouts \in Nat

\* All that a step does to the counters.
Counts ==
  /\ faults' = [c \in Counters |-> faults'[c]]
  /\ faults'.overtaken \in {faults.overtaken, faults.overtaken + 1}
  /\ faults'.timeouts \in {faults.timeouts, faults.timeouts + 1}

LEMMA CountsKept ==
  ASSUME CountInv, Counts
  PROVE  CountInv' /\ (Steady' => Steady)
<1>1. /\ faults.overtaken \in Nat /\ faults.timeouts \in Nat
      /\ faults'.overtaken \in {faults.overtaken, faults.overtaken + 1}
      /\ faults'.timeouts \in {faults.timeouts, faults.timeouts + 1}
  BY DEF CountInv, Counts
<1>2. /\ faults.overtaken <= faults'.overtaken /\ faults.timeouts <= faults'.timeouts
      /\ faults'.overtaken \in Nat /\ faults'.timeouts \in Nat
  BY <1>1
<1>3. CountInv'
  BY <1>2 DEF CountInv, Counts
<1>4. Steady' => Steady
  BY <1>1, <1>2 DEF Steady
<1> QED BY <1>3, <1>4

\* Changing a counter leaves the others.
LEMMA OneCounter ==
  ASSUME NEW f, f = [c \in Counters |-> f[c]], NEW g, NEW k \in Counters, NEW x,
         g = [f EXCEPT ![k] = x]
  PROVE  /\ g = [c \in Counters |-> g[c]] /\ g[k] = x
         /\ \A c \in Counters \ {k} : g[c] = f[c]
<1>1. DOMAIN f = Counters
  OBVIOUS
<1>2. g = [c \in Counters |-> IF c = k THEN x ELSE f[c]]
  BY <1>1
<1> QED BY <1>2

LEMMA Counted ==
  ASSUME CountInv
  PROVE  /\ UNCHANGED faults => Counts
         /\ \A q, box, m : Push(q, box, m) => Counts
         /\ \A p : Expires(p) \/ Crash(p) \/ Land(p) => Counts
<1> DEFINE f == faults  g == faults'
<1>0. f = [c \in Counters |-> f[c]]
  BY DEF CountInv
<1>1. UNCHANGED faults => Counts
  BY <1>0 DEF Counts
<1>2. ASSUME NEW k \in Counters, NEW x, g = [f EXCEPT ![k] = x],
             k = "overtaken" => x \in {f["overtaken"], f["overtaken"] + 1},
             k = "timeouts" => x = f["timeouts"] + 1
      PROVE  Counts
  <2> HIDE DEF f, g
  <2>1. /\ g = [c \in Counters |-> g[c]] /\ g[k] = x
        /\ \A c \in Counters \ {k} : g[c] = f[c]
    BY <1>0, <1>2, OneCounter
  <2>2. "overtaken" \in Counters /\ "timeouts" \in Counters
    BY DEF Counters
  <2>3. g["overtaken"] \in {f["overtaken"], f["overtaken"] + 1}
    BY <1>2, <2>1, <2>2
  <2>4. g["timeouts"] \in {f["timeouts"], f["timeouts"] + 1}
    BY <1>2, <2>1, <2>2
  <2> QED BY <2>1, <2>3, <2>4 DEF Counts, f, g
<1>3. ASSUME NEW k \in {"duplicates", "overtaken"}, NEW x, NEW y,
             g = [f EXCEPT !["strays"] = x, ![k] = y],
             k = "overtaken" => y \in {f["overtaken"], f["overtaken"] + 1}
      PROVE  Counts
  <2> DEFINE h == [f EXCEPT !["strays"] = x]
  <2>1. /\ h = [c \in Counters |-> h[c]]
        /\ \A c \in Counters \ {"strays"} : h[c] = f[c]
    <3> HIDE DEF f
    <3>1. "strays" \in Counters
      BY DEF Counters
    <3> QED BY <1>0, <3>1, OneCounter
  <2>2. g = [h EXCEPT ![k] = y]
    BY <1>3
  <2> HIDE DEF f, g, h
  <2>3. /\ g = [c \in Counters |-> g[c]] /\ g[k] = y
        /\ \A c \in Counters \ {k} : g[c] = h[c]
    <3>1. k \in Counters
      BY DEF Counters
    <3> QED BY <2>1, <2>2, <3>1, OneCounter
  <2>4. "overtaken" \in Counters \ {"strays"} /\ "timeouts" \in Counters \ {"strays", k}
    BY DEF Counters
  <2>5. g["overtaken"] \in {f["overtaken"], f["overtaken"] + 1}
    BY <1>3, <2>1, <2>3, <2>4
  <2>6. g["timeouts"] \in {f["timeouts"], f["timeouts"] + 1}
    BY <2>1, <2>3, <2>4
  <2> QED BY <2>3, <2>5, <2>6 DEF Counts, f, g
<1>4. /\ "strays" \in Counters /\ "timeouts" \in Counters /\ "crashes" \in Counters
      /\ "strays" # "overtaken" /\ "strays" # "timeouts"
      /\ "crashes" # "overtaken" /\ "crashes" # "timeouts"
      /\ "timeouts" # "overtaken" /\ "duplicates" # "overtaken"
  BY DEF Counters
<1>5. ASSUME NEW q, NEW box, NEW m, Push(q, box, m) PROVE Counts
  <2>1. ASSUME NEW x, g = [f EXCEPT !["strays"] = x] PROVE Counts
    BY <1>2, <1>4, <2>1
  <2>2. ASSUME NEW x, NEW y, g = [f EXCEPT !["strays"] = x, !["duplicates"] = y]
        PROVE  Counts
    BY <1>3, <1>4, <2>2
  <2>3. \E x, y : \/ g = [f EXCEPT !["strays"] = x]
                  \/ g = [f EXCEPT !["strays"] = x, !["duplicates"] = y]
    BY <1>5 DEF Push
  <2> QED BY <2>1, <2>2, <2>3
<1>6. ASSUME NEW p, Expires(p) PROVE Counts
  <2>1. CASE g = [f EXCEPT !["timeouts"] = f["timeouts"] + 1]
    BY <1>2, <1>4, <2>1
  <2> QED BY <1>1, <1>6, <2>1 DEF Expires
<1>7. ASSUME NEW p, Crash(p) PROVE Counts
  <2>1. g = [f EXCEPT !["crashes"] = f["crashes"] + 1]
    BY <1>7 DEF Crash
  <2> QED BY <1>2, <1>4, <2>1
<1>8. ASSUME NEW p, Land(p) PROVE Counts
  <2>1. \E x, y : /\ g = [f EXCEPT !["strays"] = x, !["overtaken"] = y]
                  /\ y \in {f["overtaken"], f["overtaken"] + 1}
    <3>1. PICK c \in mail[p].late :
            g = [f EXCEPT
                   !["strays"] = Strays(p, c.box, c.msg),
                   !["overtaken"] = IF Foreign(p, c.box, c.msg) THEN f["overtaken"] + 1
                                                                ELSE f["overtaken"]]
      BY <1>8 DEF Land
    <3>2. (IF Foreign(p, c.box, c.msg) THEN f["overtaken"] + 1 ELSE f["overtaken"])
            \in {f["overtaken"], f["overtaken"] + 1}
      OBVIOUS
    <3> QED BY <3>1, <3>2
  <2> QED BY <1>3, <2>1
<1> QED BY <1>1, <1>5, <1>6, <1>7, <1>8

LEMMA EveryStepCounts ==
  ASSUME CountInv, NEW p, Work(p) \/ Timers(p) \/ Crash(p) \/ Land(p)
  PROVE  Counts
<1>1. ASSUME NEW m, SendTurn(p, m) PROVE Counts
  BY <1>1, Counted DEF SendTurn
<1>2. ASSUME TakeTurn(p) PROVE Counts
  BY <1>1, <1>2 DEF TakeTurn
<1>3. ASSUME NEW c, NEW w, Hold(p, c, w) PROVE Counts
  BY <1>1, <1>3 DEF Hold
<1>4. ASSUME NEW o, Finds(p, o) PROVE Counts
  BY <1>4, Counted DEF Finds
<1>5. ASSUME NEW h, PoliceReceives(p, h) \/ ThiefReceives(p, h) PROVE Counts
  BY <1>2, <1>3, <1>4, <1>5 DEF PoliceReceives, ThiefReceives
<1>6. CASE Open(p) \/ Process(p)
  BY <1>2, <1>5, <1>6 DEF Open, Process
<1>7. ASSUME NEW a, NEW n, SendAudit(p, a, n) PROVE Counts
  BY <1>7, Counted DEF SendAudit
<1>8. CASE Close(p) \/ Settle(p)
  BY <1>7, <1>8 DEF Close, Settle
<1>9. CASE Greet(p)
  BY <1>9, Counted DEF Greet
<1>10. CASE Meet(p) \/ PollTurn(p) \/ PollNothing(p) \/ HearEarlier(p) \/ HearAudit(p)
            \/ TakeConsensus(p)
  <2>1. UNCHANGED faults
    BY <1>10 DEF Meet, PollTurn, PollNothing, HearEarlier, HearAudit, TakeConsensus
  <2> QED BY <2>1, Counted
<1>11. CASE Timers(p) \/ Crash(p) \/ Land(p)
  <2>1. Expires(p) \/ Crash(p) \/ Land(p)
    BY <1>11 DEF Timers, MeetTimeout, TurnTimeout, AuditTimeout, ConsensusTimeout
  <2> QED BY <2>1, Counted
<1> QED BY <1>6, <1>8, <1>9, <1>10, <1>11 DEF Work

LEMMA CountsInductive ==
  ASSUME CountInv, [Next]_vars
  PROVE  CountInv' /\ (Steady' => Steady)
<1>1. CASE UNCHANGED vars
  <2>1. UNCHANGED faults
    BY <1>1 DEF vars
  <2> QED BY <2>1, Counted, CountsKept
<1>2. CASE Next
  BY <1>2, EveryStepCounts, CountsKept DEF Next
<1> QED BY <1>1, <1>2

(***************************************************************************)
(* The invariant holds as long as the series is steady, when greetings are *)
(* not repeated: whatever is repeated, and whenever a copy of it lands     *)
(* while its receiver still plays that game.  Copies are carried by the    *)
(* invariant, as the messages in the mailboxes are: one that is on its way *)
(* tells its receiver nothing that the first did not (LateTurnInv,         *)
(* LateAuditInv).                                                          *)
(***************************************************************************)
THEOREM SeriesInvariant ==
  ASSUME "agreements" \notin Duplicable
  PROVE  Spec => [](Steady => IInv)
<1>1. Init => CountInv /\ IInv
  <2>1. Init => CountInv
    <3> SUFFICES ASSUME Init PROVE CountInv
      OBVIOUS
    <3>1. faults = [duplicates |-> 0, overtaken |-> 0, timeouts |-> 0, crashes |-> 0,
                    strays |-> {}]
      BY DEF Init
    <3>2. faults = [c \in Counters |-> faults[c]]
      BY <3>1 DEF Counters
    <3>3. faults.overtaken = 0 /\ faults.timeouts = 0
      BY <3>1
    <3> QED BY <3>2, <3>3 DEF CountInv
  <2> QED BY <2>1, Initially
<1>2. CountInv /\ (Steady => IInv) /\ [Next]_vars => CountInv' /\ (Steady' => IInv')
  BY CountsInductive, Inductive
<1>3. Init => CountInv /\ (Steady => IInv)
  BY <1>1
<1> QED BY <1>2, <1>3, PTL DEF Spec

LEMMA ClaimsAreReports ==
  ASSUME IInv, NEW p \in Peers, NEW n \in Reported(p), n \in Reported(Opponent(p)),
         reports[p][n].agreed
  PROVE  reports[p][n].outcome = reports[Opponent(p)][n].outcome
<1>1. TypeInv /\ ClaimInv(p) /\ Opponent(p) \in Peers
  BY Opponents DEF IInv, Half
<1>2. Claimed(Opponent(p), n, reports[p][n].outcome)
  BY <1>1 DEF ClaimInv
<1>3. n <= Count(Opponent(p))
  BY <1>1, ShaType
<1> QED BY <1>2, <1>3 DEF Claimed

LEMMA SettledAlike ==
  ASSUME IInv
  PROVE  SettledTogether
<1> SUFFICES ASSUME NEW p \in Peers, pc[p] = "done"
             PROVE  /\ ShasMatch(p) => \A n \in Reported(p) :
                         n \in Reported(Opponent(p)) =>
                           reports[p][n].outcome = reports[Opponent(p)][n].outcome
                    /\ Faultless => ShasMatch(p)
  BY DEF SettledTogether
<1> DEFINE q == Opponent(p)
<1>1. /\ TypeInv /\ q \in Peers /\ LocalInv(p) /\ DigestInv(p) /\ FaultlessInv(p)
  BY Opponents DEF IInv, Half
<1> HIDE DEF q
<1>2. Count(p) = Games
  BY <1>1 DEF LocalInv, Gone, Over
<1>3. peerSha[p] # None => Count(q) = Games /\ peerSha[p] = Sha(q)
  BY <1>1 DEF DigestInv, q
<1>4. /\ Sha(p) # None /\ Reported(p) = 1..Games
      /\ Sha(p) \in [1..Games -> Outcomes]
      /\ \A n \in Reported(p) : Sha(p)[n] = reports[p][n].outcome
      /\ Count(q) = Games => /\ Reported(q) = 1..Games
                             /\ Sha(q) \in [1..Games -> Outcomes]
      /\ \A n \in Reported(q) : Sha(q)[n] = reports[q][n].outcome
  BY <1>1, <1>2, ShaType, ShaOfAll
<1>5. ShasMatch(p) => \A n \in Reported(p) :
        n \in Reported(q) => reports[p][n].outcome = reports[q][n].outcome
  BY <1>3, <1>4 DEF ShasMatch
<1>6. ASSUME Faultless PROVE ShasMatch(p)
  <2>1. peerSha[p] # None /\ \A n \in Reported(p) : reports[p][n].agreed
    BY <1>1, <1>6 DEF FaultlessInv
  <2>2. Count(q) = Games /\ peerSha[p] = Sha(q)
    BY <1>3, <2>1
  <2>3. \A n \in 1..Games : Sha(p)[n] = Sha(q)[n]
    <3> SUFFICES ASSUME NEW n \in 1..Games PROVE Sha(p)[n] = Sha(q)[n]
      OBVIOUS
    <3>1. n \in Reported(p) /\ n \in Reported(q)
      BY <1>4, <2>2
    <3>2. reports[p][n].outcome = reports[q][n].outcome
      BY <2>1, <3>1, ClaimsAreReports DEF q
    <3> QED BY <1>4, <3>1, <3>2
  <2>4. Sha(p) = Sha(q)
    <3> DEFINE f == Sha(p)  g == Sha(q)
    <3>1. /\ f \in [1..Games -> Outcomes] /\ g \in [1..Games -> Outcomes]
          /\ \A n \in 1..Games : f[n] = g[n]
      BY <1>4, <2>2, <2>3
    <3> HIDE DEF f, g
    <3>2. f = [n \in 1..Games |-> f[n]] /\ g = [n \in 1..Games |-> g[n]]
      BY <3>1
    <3>3. f = g
      BY <3>1, <3>2
    <3> QED BY <3>3 DEF f, g
  <2> QED BY <2>2, <2>4 DEF ShasMatch
<1> QED BY <1>5, <1>6 DEF q

(***************************************************************************)
(* Peers that agree on a game in their reports, or on the digest of the    *)
(* series, have the same outcomes, and without a fault they do agree       *)
(* (runtime_audit.py:63-113, series_consensus.py).                         *)
(***************************************************************************)
THEOREM ReportsAgree ==
  ASSUME "agreements" \notin Duplicable
  PROVE  Spec => [](Steady => PeersAgree)
<1>1. ASSUME IInv PROVE AgreedMeansSameOutcome
  <2> SUFFICES ASSUME NEW p \in Peers, NEW q \in Peers,
                      NEW n \in Reported(p) \cap Reported(q), reports[p][n].agreed
               PROVE  reports[p][n].outcome = reports[q][n].outcome
    BY DEF AgreedMeansSameOutcome
  <2>1. q = p \/ q = Opponent(p)
    BY Opponents
  <2> QED BY <1>1, <2>1, ClaimsAreReports
<1>2. IInv => PeersAgree
  BY <1>1, SettledAlike DEF PeersAgree
<1> QED BY <1>2, SeriesInvariant, PTL

(***************************************************************************)
(* A turn gets into another sub-game than its own only if a copy of it was *)
(* overtaken by its receiver, or if two timers expired on a living         *)
(* opponent; and but for these two, whatever is repeated, delayed or lost  *)
(* in a crash, no peer that runs this code is convicted by the other       *)
(* (delivery.py, client.py:96-120, runtime.py:76-103,143).                 *)
(***************************************************************************)
THEOREM NobodyIsConvicted ==
  ASSUME "agreements" \notin Duplicable
  PROVE  Spec => [](Steady => HonestPeerNotConvicted /\ HonestPeerNeverConvicted)
<1>1. IInv => faults.strays = {} /\ HonestPeerNeverConvicted
  BY DEF IInv, Half, ClaimInv, Honest, HonestPeerNeverConvicted
<1>2. IInv => HonestPeerNotConvicted /\ HonestPeerNeverConvicted
  BY <1>1 DEF HonestPeerNotConvicted, HonestPeerNeverConvicted, StraysHaveCause
<1> QED BY <1>2, SeriesInvariant, PTL

(***************************************************************************)
(* In a steady series a reported capture or survival is one that happened  *)
(* on the Thief's board (engine.py, runtime.py:63-150).                    *)
(***************************************************************************)
THEOREM ReportedOutcomesHappened ==
  ASSUME "agreements" \notin Duplicable
  PROVE  Spec => [](Steady => OutcomesHappened)
<1>1. IInv => OutcomesHappened
  BY DEF IInv, Half, ClaimInv, Honest, OutcomesHappened
<1> QED BY <1>1, SeriesInvariant, PTL
=============================================================================
