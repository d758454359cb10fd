---------------------------- MODULE PeerRecovery ----------------------------
(***************************************************************************)
(* How two peers survive a crash: the hash-chained journal of              *)
(* orchestration/journal.py, persist_before_ack, the session checkpoints   *)
(* and the recovery handshake of orchestration/checkpoint.py, over the     *)
(* atomic files of adapters/persistence.                                   *)
(*                                                                         *)
(* Both peers journal and acknowledge the mutations 1, 2, ... of a         *)
(* session.  A mutation both have acknowledged may be checkpointed.  A     *)
(* peer may crash between any two steps, and its file may be damaged while *)
(* it is down.  A digest is collision free: the hash of a record is the    *)
(* sequence of the events it stands for.                                   *)
(***************************************************************************)
EXTENDS Integers, Sequences, SequencesExt, FiniteSets

CONSTANTS
  Peers,       \* the two peers of a session
  MaxStep,     \* mutations of the session
  MaxStops     \* bound on the crashes explored

ASSUME PeersAssumption == \E p, q \in Peers : p # q /\ Peers = {p, q}

VARIABLES
  status,      \* "running", "down", "recovering", "agreed" or "refused"
  at,          \* where persist_before_ack stands: "idle", "staged", "journaled"
  records,     \* OrchestrationJournal._records
  disk,        \* the journal's file
  staged,      \* the flushed temporary file of a save under way
  ckpt,        \* the stored SessionCheckpoint
  step,        \* the mutations the peer's session counts
  offer,       \* the checkpoint digest the other peer has sent
  told,        \* the mutation this session has acknowledged last
  heard,       \* the mutation the other peer has acknowledged last
  acked,       \* history: every mutation ever acknowledged
  saved,       \* history: the last journal saved
  damaged,      \* history: the file was damaged
  stops        \* crashes so far

journal == <<records, disk, staged>>
counters == <<step, told, heard>>
history == <<acked, saved, damaged, stops>>
recoveryVars == <<status, at, journal, ckpt, counters, offer, history>>

Other(p) == CHOOSE q \in Peers : q # p

Genesis == <<>>
Record(i, event, previous) ==
  [sequence |-> i, event |-> event, previous |-> previous,
   hash |-> Append(previous, event)]

HeadHash(js) == IF js = <<>> THEN Genesis ELSE Last(js).hash

Appended(js, event) == Append(js, Record(Len(js) + 1, event, HeadHash(js)))

\* Mutant: the links are checked, the records themselves are not hashed again.
LinkedChain(js) ==
  \A i \in DOMAIN js :
    /\ js[i].sequence = i
    /\ js[i].previous = (IF i = 1 THEN Genesis ELSE js[i - 1].hash)

ValidChain(js) ==
  \A i \in DOMAIN js :
    /\ js[i].sequence = i
    /\ js[i].previous = (IF i = 1 THEN Genesis ELSE js[i - 1].hash)
    /\ js[i].hash = Append(js[i].previous, js[i].event)

Checkpoint(n, js) == [step |-> n, sequence |-> Len(js), head |-> HeadHash(js)]
NoCheckpoint == Checkpoint(0, <<>>)
NoOffer == [step |-> -1]

RecoveryInit ==
  /\ status = [p \in Peers |-> "running"]
  /\ at = [p \in Peers |-> "idle"]
  /\ records = [p \in Peers |-> <<>>]
  /\ disk = records
  /\ staged = records
  /\ ckpt = [p \in Peers |-> NoCheckpoint]
  /\ step = [p \in Peers |-> 0]
  /\ offer = [p \in Peers |-> NoOffer]
  /\ told = step
  /\ heard = step
  /\ acked = [p \in Peers |-> {}]
  /\ saved = records
  /\ damaged = [p \in Peers |-> FALSE]
  /\ stops = 0

-----------------------------------------------------------------------------
\* append builds the next record and save flushes it to a temporary file.
Stage(p) ==
  /\ status[p] = "running" /\ at[p] = "idle" /\ step[p] < MaxStep
  /\ told[p] = step[p]
  /\ staged' = [staged EXCEPT ![p] = Appended(records[p], step[p] + 1)]
  /\ at' = [at EXCEPT ![p] = "staged"]
  /\ UNCHANGED <<status, records, disk, ckpt, counters, offer, history>>

\* Mutant: the memory of the journal is updated, the file is not.
KeepInMemory(p) ==
  /\ at[p] = "staged"
  /\ records' = [records EXCEPT ![p] = staged[p]]
  /\ at' = [at EXCEPT ![p] = "journaled"]
  /\ UNCHANGED <<status, disk, staged, ckpt, counters, offer, history>>

\* The atomic replacement of the file, then the journal's own records.
Replace(p) ==
  /\ at[p] = "staged"
  /\ disk' = [disk EXCEPT ![p] = staged[p]]
  /\ records' = [records EXCEPT ![p] = staged[p]]
  /\ saved' = [saved EXCEPT ![p] = staged[p]]
  /\ at' = [at EXCEPT ![p] = "journaled"]
  /\ UNCHANGED <<status, staged, ckpt, counters, offer, acked, damaged, stops>>

\* A write that raises: the temporary file goes, nothing was appended.
SaveRaises(p) ==
  /\ at[p] = "staged"
  /\ staged' = [staged EXCEPT ![p] = <<>>]
  /\ at' = [at EXCEPT ![p] = "idle"]
  /\ UNCHANGED <<status, records, disk, ckpt, counters, offer, history>>

\* acknowledge(): the other peer hears it only while it runs.
Ack(p) ==
  /\ at[p] = "journaled"
  /\ acked' = [acked EXCEPT ![p] = @ \cup {step[p] + 1}]
  /\ told' = [told EXCEPT ![p] = step[p] + 1]
  /\ heard' = IF status[Other(p)] = "running"
                THEN [heard EXCEPT ![Other(p)] = step[p] + 1] ELSE heard
  /\ at' = [at EXCEPT ![p] = "idle"]
  /\ UNCHANGED <<status, journal, ckpt, step, offer, saved, damaged, stops>>

\* The mutation both sides have acknowledged is the new safe state.
SaveCheckpoint(p) ==
  /\ status[p] = "running" /\ at[p] = "idle"
  /\ told[p] > step[p] /\ heard[p] > step[p]
  /\ step' = [step EXCEPT ![p] = @ + 1]
  /\ ckpt' = [ckpt EXCEPT ![p] = Checkpoint(step[p] + 1, records[p])]
  /\ UNCHANGED <<status, at, journal, offer, told, heard, history>>

-----------------------------------------------------------------------------
\* The session's counters start again at a safe state.
CountFrom(p, n) ==
  /\ step' = [step EXCEPT ![p] = n]
  /\ told' = [told EXCEPT ![p] = n]
  /\ heard' = [heard EXCEPT ![p] = n]

\* What a process loses with its memory.
Forgets(p) ==
  /\ at' = [at EXCEPT ![p] = "idle"]
  /\ records' = [records EXCEPT ![p] = <<>>]
  /\ staged' = [staged EXCEPT ![p] = <<>>]
  /\ CountFrom(p, 0)
  /\ offer' = [q \in Peers |-> NoOffer]

Crash(p) ==
  /\ status[p] \in {"running", "recovering", "agreed"} /\ stops < MaxStops
  /\ stops' = stops + 1
  /\ status' = [status EXCEPT ![p] = "down"]
  /\ Forgets(p)
  /\ UNCHANGED <<disk, ckpt, acked, saved, damaged>>

\* What may become of a file: one record altered or lost.
Damages(js) ==
  {[js EXCEPT ![i].event = 0] : i \in DOMAIN js}
    \cup {RemoveAt(js, i) : i \in DOMAIN js}

DamageJournal(p) ==
  /\ status[p] = "down" /\ ~damaged[p]
  /\ \E js \in Damages(disk[p]) : disk' = [disk EXCEPT ![p] = js]
  /\ damaged' = [damaged EXCEPT ![p] = TRUE]
  /\ UNCHANGED <<status, at, records, staged, ckpt, counters, offer, acked, saved, stops>>

\* A new process reads and validates the journal, then the checkpoint.
Reload(p) ==
  /\ status[p] = "down"
  /\ IF ValidChain(disk[p])
       THEN /\ status' = [status EXCEPT ![p] = "recovering"]
            /\ records' = [records EXCEPT ![p] = disk[p]]
       ELSE /\ status' = [status EXCEPT ![p] = "refused"]
            /\ UNCHANGED records
  /\ UNCHANGED <<at, disk, staged, ckpt, counters, offer, history>>

\* The peer of a crashed process gives its session up and recovers as well.
Suspend(p) ==
  /\ status[p] \in {"running", "agreed"} /\ at[p] = "idle"
  /\ status[Other(p)] = "recovering"
  /\ status' = [status EXCEPT ![p] = "recovering"]
  /\ CountFrom(p, 0)
  /\ offer' = [offer EXCEPT ![p] = NoOffer]
  /\ UNCHANGED <<at, journal, ckpt, history>>

SendDigest(p) ==
  /\ status[p] = "recovering"
  /\ status[Other(p)] \in {"recovering", "agreed"}
  /\ offer[Other(p)] = NoOffer
  /\ offer' = [offer EXCEPT ![Other(p)] = ckpt[p]]
  /\ UNCHANGED <<status, at, journal, ckpt, counters, history>>

\* Mutant: the peer resumes its own checkpoint whatever the other one sent.
ResumeOwn(p) ==
  /\ status[p] = "recovering" /\ offer[p] # NoOffer
  /\ status' = [status EXCEPT ![p] = "agreed"]
  /\ CountFrom(p, ckpt[p].step)
  /\ UNCHANGED <<at, journal, ckpt, offer, history>>

\* agree_recovery: the exact mutual checkpoint, or no resumption.
Agree(p) ==
  /\ status[p] = "recovering" /\ offer[p] # NoOffer
  /\ IF offer[p] = ckpt[p]
       THEN /\ status' = [status EXCEPT ![p] = "agreed"]
            /\ CountFrom(p, ckpt[p].step)
       ELSE /\ status' = [status EXCEPT ![p] = "refused"]
            /\ UNCHANGED <<step, told, heard>>
  /\ UNCHANGED <<at, journal, ckpt, offer, history>>

\* Both have agreed: the session goes on.
Resume(p) ==
  /\ status[p] = "agreed" /\ status[Other(p)] \in {"agreed", "running"}
  /\ status' = [status EXCEPT ![p] = "running"]
  /\ offer' = [offer EXCEPT ![p] = NoOffer]
  /\ UNCHANGED <<at, journal, ckpt, counters, history>>

RecoveryNext == \E p \in Peers :
  \/ Stage(p) \/ Replace(p) \/ SaveRaises(p) \/ Ack(p) \/ SaveCheckpoint(p)
  \/ Crash(p) \/ DamageJournal(p) \/ Reload(p) \/ Suspend(p) \/ SendDigest(p)
  \/ Agree(p) \/ Resume(p)

RecoverySpec == RecoveryInit /\ [][RecoveryNext]_recoveryVars

-----------------------------------------------------------------------------
Events(js) == {js[i].event : i \in DOMAIN js}

(***************************************************************************)
(* persist_before_ack: whatever crashes and failed writes there were, a    *)
(* mutation that was acknowledged is in the file a restart will read.      *)
(***************************************************************************)
AckedIsJournaled ==
  \A p \in Peers : ~damaged[p] => acked[p] \subseteq Events(disk[p])

(***************************************************************************)
(* A journal a process works on is one that was saved, or a part of it     *)
(* with its last records missing: no altered or missing record gets past   *)
(* _validate.                                                              *)
(***************************************************************************)
LoadedIsAppended == \A p \in Peers : IsPrefix(records[p], saved[p])

(***************************************************************************)
(* The journal loses nothing that was acknowledged and invents nothing     *)
(* (journal.py:57-114, persistence.py:9-35; the two parts above).          *)
(***************************************************************************)
JournalIsTrue == AckedIsJournaled /\ LoadedIsAppended

(***************************************************************************)
(* agree_recovery neither invents nor rolls back: two peers that agreed    *)
(* are at one step, two that work are never more than one apart, and each  *)
(* has acknowledged every mutation the other one counts.                   *)
(***************************************************************************)
ResumedTogether ==
  \A p, q \in Peers :
    status[p] \in {"agreed", "running"} /\ status[q] \in {"agreed", "running"} =>
      /\ step[p] - step[q] \in -1..1
      /\ status[p] = "agreed" /\ status[q] = "agreed" => ckpt[p] = ckpt[q]
      /\ 1..step[p] \subseteq acked[q]
=============================================================================
