------------------------------- MODULE Campaign -------------------------------
(***************************************************************************)
(* The campaign that makes the candidate (scripts/run_m12_tuning.py,       *)
(* run_m12_repair.py, run_m12_selection.py, run_tournament.py with         *)
(* m12_campaign_support.py, m12_repair_support.py and the splits of        *)
(* services/experiments).  The scripts are run one after the other, in any *)
(* order and as often as one likes, and meet in two evidence files; a      *)
(* script may be interrupted, also while it writes its file.               *)
(*                                                                         *)
(* A report comes out of Tournament; a script that raises leaves nothing   *)
(* behind, so it is a script that is not run.                              *)
(***************************************************************************)
EXTENDS Tournament

CONSTANTS
  RandomTrials, SurrogateTrials,   \* 12 and 5 in the code
  MinHistory,                      \* _MIN_HISTORY
  TrialResults,                    \* records with objective and reliable
  Reports,       \* what a tournament may report
  Safe,          \* SAFE_COMPUTE
  Patches,       \* CANDIDATES: settings by key
  MaxScripts     \* bound on the scripts run

ASSUME CampaignAssumption ==
  /\ RandomTrials \in 1..10000 /\ SurrogateTrials \in Nat \ {0} /\ MinHistory \in Nat \ {0}
  /\ TrialResults \subseteq [objective : Int, reliable : BOOLEAN]

VARIABLES
  trials,        \* the attempted trials of a search, in order
  tuning,        \* m12_tuning.json
  selection,     \* m12_selection.json
  studies,       \* m12_studies.json
  tournaments,   \* history: the tournaments played, by script
  scripts        \* scripts started

campaignVars == <<trials, tuning, selection, studies, tournaments, scripts>>

-----------------------------------------------------------------------------
(***************************************************************************)
(* The search for a candidate (tuning.py, surrogate.py and the main of     *)
(* run_m12_tuning.py): a random search, then a surrogate search that goes  *)
(* on from its trials.  A point is screened first and evaluated in full    *)
(* unless it is unreliable or clearly inferior, and the best trial of the  *)
(* two is frozen.                                                          *)
(*                                                                         *)
(* What an evaluation finds is given.  Two samples of the spaces are       *)
(* never the same point, and which of them the surrogate prefers is left   *)
(* open: the point of a trial is its number among the draws.               *)
(***************************************************************************)

NoResult == [reliable |-> FALSE]

Trial(id, method, point, screening, full, reason) ==
  [id |-> id, method |-> method, point |-> point, screening |-> screening,
   full |-> full, reason |-> reason]

Completed(t) == t.full # NoResult
Deepest(t) == IF Completed(t) THEN t.full ELSE t.screening
Objective(t) == Deepest(t).objective

\* The k-th smallest of a history.
Nth(history, k) ==
  Min({history[i] : i \in {j \in DOMAIN history :
        Cardinality({x \in DOMAIN history : history[x] <= history[j]}) >= k}})

\* screening_threshold: twice the median of the history.
ScreeningThreshold(history) ==
  LET n == Len(history)
  IN  IF n % 2 = 1 THEN 2 * Nth(history, (n + 1) \div 2)
      ELSE Nth(history, n \div 2) + Nth(history, n \div 2 + 1)

\* Mutant: a trial must be better than the median.
InferiorOrEqual(screening, history) ==
  /\ Len(history) >= MinHistory
  /\ 2 * screening.objective <= ScreeningThreshold(history)

Inferior(screening, history) ==
  /\ Len(history) >= MinHistory
  /\ 2 * screening.objective < ScreeningThreshold(history)

\* evaluate_trial: the trials a point may come to.
EvaluateTrial(id, method, point, screening, history) ==
  LET stopped(reason) == {Trial(id, method, point, screening, NoResult, reason)}
  IN  IF ~screening.reliable THEN stopped("RELIABILITY_GATE")
      ELSE IF Inferior(screening, history) THEN stopped("BELOW_MEDIAN_SCREEN")
      ELSE {Trial(id, method, point, screening, full, "COMPLETED") : full \in TrialResults}

Eligible(ts) == {t \in ts : Completed(t) /\ t.full.reliable}

\* Mutant: the best attempt, whether it was evaluated or not.
BestAttempt(ts) ==
  CHOOSE t \in ts :
    \A u \in ts : \/ Objective(t) > Objective(u)
                  \/ Objective(t) = Objective(u) /\ t.id <= u.id

\* SearchOutcome.best
BestOf(ts) ==
  LET pool == IF Eligible(ts) # {} THEN Eligible(ts) ELSE ts
  IN  CHOOSE t \in pool :
        \A u \in pool : \/ Objective(t) > Objective(u)
                        \/ Objective(t) = Objective(u) /\ t.id <= u.id

\* Every trial that has been screened counts, of the prior search as well.
History == [i \in DOMAIN trials |-> trials[i].screening.objective]

\* Mutant: the second search numbers its trials from the start.
FirstIdZero == 0

FirstId == RandomTrials

Attempt(method, id) ==
  \E screening \in TrialResults :
    \E t \in EvaluateTrial(id, method, Len(trials) + 1, screening, History) :
      trials' = Append(trials, t)

RandomTrial ==
  /\ Len(trials) < RandomTrials
  /\ Attempt("random", Len(trials))

SurrogateTrial ==
  /\ Len(trials) \in RandomTrials..RandomTrials + SurrogateTrials - 1
  /\ Attempt("surrogate", FirstId + (Len(trials) - RandomTrials))

Searched == Len(trials) = RandomTrials + SurrogateTrials
Broad == {trials[i] : i \in 1..RandomTrials}
Refined == {trials[i] : i \in RandomTrials + 1..Len(trials)}

\* The better one of the two bests, the first one if they are equal.
Frozen ==
  LET broad == BestOf(Broad)
      refined == BestOf(Refined)
  IN  IF Objective(refined) > Objective(broad) THEN refined ELSE broad

-----------------------------------------------------------------------------
(* The splits *)

Splits == {"train", "validation", "holdout", "rehearsal"}

SeedsOf(split) ==
  CASE split = "train" -> 10000..10023
    [] split = "validation" -> 20000..20015
    [] split = "holdout" -> 32000..32011
    [] OTHER -> 40001..40006

OpponentsOf(split) ==
  CASE split = "train" -> {"BL-REF", "BL-RND", "BL-SCR"}
    [] split = "validation" ->
         {"BL-POST", "BL-ADV-CORNER", "BL-ADV-CYCLE", "BL-ADV-LIAR", "BL-ADV-TRUST"}
    [] split = "holdout" -> {"BL-REF", "BL-ADV-BOUNDARY", "BL-ADV-SWITCH", "BL-PREV"}
    [] OTHER -> {"BL-REF"}

FixturesOf(split) ==
  CASE split = "train" -> {"train-default-7", "train-corner-7", "train-wide-9"}
    [] split = "validation" ->
         {"validation-offset-7", "validation-quota-8", "validation-long-9"}
    [] split = "holdout" ->
         {"holdout-bottom-index-7", "holdout-origin-8", "holdout-dense-10"}
    [] OTHER -> {"rehearsal-default-7"}

\* The first n seeds of a split.
FirstSeeds(split, n) == {s \in SeedsOf(split) : s < Min(SeedsOf(split)) + n}

\* Mutant: the seeds are taken as they are given.
PlanSpecUnchecked(split, opponents, seeds) ==
  [split |-> split, opponents |-> opponents, fixtures |-> FixturesOf(split),
   seeds |-> seeds, repetitions |-> 1, budget |-> 250]

\* SplitPlan.spec; seeds of another split are refused.
PlanSpec(split, opponents, seeds) ==
  IF seeds \subseteq SeedsOf(split)
    THEN [split |-> split, opponents |-> opponents, fixtures |-> FixturesOf(split),
          seeds |-> seeds, repetitions |-> 1, budget |-> 250]
    ELSE Rejected

ProbeSpec == PlanSpec("validation", OpponentsOf("holdout"), FirstSeeds("validation", 2))

\* The splits whose seeds or boards a tournament has seen.
Seen(spec) == {s \in Splits : spec.seeds \cap SeedsOf(s) # {}
                              \/ spec.fixtures \cap FixturesOf(s) # {}}

Entry(script, spec) == [script |-> script, seen |-> Seen(spec)]

\* assert_tunable
Tunable(split) == split \in Splits \ {"holdout"}

-----------------------------------------------------------------------------
(* The evidence *)

NoFile == [kind |-> "none"]
Torn == [kind |-> "torn"]

\* CandidateFreeze; its digest is the freeze itself.
CandidateFreeze(split, point, objective, id) ==
  [split |-> split, point |-> point, objective |-> objective, id |-> id]

\* SealedHoldout.open: for one freeze only, as long as the process runs.
Unopened == [error |-> "unopened"]
Open(seal, freeze) == IF seal \in {Unopened, freeze} THEN freeze ELSE Rejected

\* load_freeze: the point of the trial the manifest names.
LoadFreeze ==
  IF tuning.kind # "tuning" THEN Rejected
  ELSE LET named == {i \in DOMAIN tuning.trials : tuning.trials[i].id = tuning.candidate.id}
       IN  IF named = {} THEN Rejected ELSE tuning.trials[Min(named)].point

\* write_evidence is not atomic: interrupted, it leaves a file of no use.
Written(document) == {document, Torn}

Confirmation(point, report) == [of |-> point, share |-> report.share]

TuningEvidence(listed, candidate, confirmation) ==
  [kind |-> "tuning", trials |-> listed, candidate |-> candidate,
   confirmation |-> confirmation]

\* merged: the patch goes over the safe settings, and both over the point.
Merged(point, patch) == patch @@ Safe @@ point

\* repair_score over a common denominator, as numerator and denominator.
RepairScore(r) ==
  IF r.misses > 0 THEN <<-1000 - r.misses, 1>>
  ELSE <<10000 * r.thief[1] * r.share[2] + r.share[1] * r.thief[2],
         100 * r.thief[2] * r.share[2]>>
Scores(x, y) == x[1] * y[2] > y[1] * x[2]

\* The first patch of the best score.
BestPatch(reports) ==
  CHOOSE i \in DOMAIN reports :
    \A j \in DOMAIN reports :
      \/ Scores(RepairScore(reports[i]), RepairScore(reports[j]))
      \/ ~Scores(RepairScore(reports[j]), RepairScore(reports[i])) /\ i <= j

-----------------------------------------------------------------------------
CampaignInit ==
  /\ trials = <<>>
  /\ tuning = NoFile
  /\ selection = NoFile
  /\ studies = NoFile
  /\ tournaments = {}
  /\ scripts = 0

\* A script starts when the one before it has ended.
Starts == trials = <<>> /\ scripts < MaxScripts /\ scripts' = scripts + 1

\* The search of run_m12_tuning, trial by trial, on the training split.
Search ==
  /\ \/ RandomTrial /\ IF trials = <<>> THEN Starts ELSE UNCHANGED scripts
     \/ SurrogateTrial /\ UNCHANGED scripts
  /\ tournaments' = tournaments \cup
       {Entry("tuning", PlanSpec("train", OpponentsOf("train"), FirstSeeds("train", 1)))}
  /\ UNCHANGED <<tuning, selection, studies>>

Point(t) == [draw |-> t.point]

\* It freezes the best trial, confirms it and writes its evidence.
FinishTuning ==
  /\ Searched
  /\ \E r \in Reports :
       tuning' \in Written(TuningEvidence([i \in DOMAIN trials |-> [id |-> trials[i].id,
                                                  point |-> Point(trials[i])]],
                              CandidateFreeze("train", Point(Frozen), Objective(Frozen),
                                              Frozen.id),
                              Confirmation(Point(Frozen), r)))
  /\ trials' = <<>>
  /\ UNCHANGED <<selection, studies, tournaments, scripts>>

\* Mutant: the training report of the candidate before the repair is kept.
ConfirmedBefore(point, report) == tuning.confirmation

ConfirmedNow(point, report) == Confirmation(point, report)

\* run_m12_repair: the frozen point is patched, probed against the opponents
\* of the holdout on boards of the validation split, and frozen again.
Repair ==
  /\ Starts /\ LoadFreeze # Rejected
  /\ \E reports \in [DOMAIN Patches -> Reports], r \in Reports :
       LET best == BestPatch(reports)
           point == Merged(LoadFreeze, Patches[best])
           repaired == [id |-> 10000, point |-> point]
       IN  tuning' \in Written(
             TuningEvidence(Append(SubSeq(tuning.trials, 1, RandomTrials), repaired),
                            CandidateFreeze("train", point, reports[best].thief, 10000),
                            ConfirmedNow(point, r)))
  /\ tournaments' = tournaments \cup
       {Entry("repair", ProbeSpec),
        Entry("repair", PlanSpec("train", OpponentsOf("train"), FirstSeeds("train", 3)))}
  /\ UNCHANGED <<trials, selection, studies>>

\* run_m12_selection: validation, the gates, and then the sealed holdout,
\* which a process opens for one freeze, whatever the gates have said.
Select ==
  /\ Starts /\ LoadFreeze # Rejected
  /\ \E validation \in Reports, holdout \in Reports :
       LET point == LoadFreeze
           train == tuning.confirmation.share
           freeze == CandidateFreeze("validation", point, validation.lower,
                                     tuning.candidate.id)
           failures == PromotionFailures(validation) \cup PromotionFailures(holdout)
                         \cup GeneralizationFailures(train, validation.share)
       IN  selection' \in Written(
             [kind |-> "selection", freeze |-> freeze, openedFor |-> Open(Unopened, freeze),
              validated |-> point, trainedOn |-> tuning.confirmation,
              validation |-> validation, holdout |-> holdout,
              result |-> IF failures = {} THEN "PASS" ELSE "FAIL"])
  /\ tournaments' = tournaments \cup
       {Entry("selection", PlanSpec("validation", OpponentsOf("validation"),
                                    FirstSeeds("validation", 2))),
        Entry("selection", PlanSpec("holdout", OpponentsOf("holdout"),
                                    FirstSeeds("holdout", 2)))}
  /\ UNCHANGED <<trials, tuning, studies>>

\* run_m12_studies: the frozen point under ablations and degraded conditions.
Study ==
  /\ Starts /\ LoadFreeze # Rejected
  /\ \E degraded \in SUBSET Reports \ {{}} :
       studies' \in Written([kind |-> "studies", of |-> LoadFreeze,
                             failures |-> DegradedFailures({r.share : r \in degraded})])
  /\ tournaments' = tournaments \cup
       {Entry("studies", PlanSpec("validation", OpponentsOf("validation"),
                                  FirstSeeds("validation", 1)))}
  /\ UNCHANGED <<trials, tuning, selection>>

\* run_tournament of the stored profile; the holdout needs --allow-holdout.
RunTournament ==
  /\ Starts
  /\ \E split \in Splits, asked \in Splits, allowHoldout \in BOOLEAN :
       LET spec == PlanSpec(split, OpponentsOf(split), SeedsOf(asked))
       IN  /\ Tunable(split) \/ allowHoldout
           /\ spec # Rejected
           /\ tournaments' = tournaments \cup
                {Entry(IF allowHoldout THEN "allowed" ELSE "tournament", spec)}
  /\ UNCHANGED <<trials, tuning, selection, studies>>

\* An interrupted search is gone.
Interrupt ==
  /\ trials # <<>>
  /\ trials' = <<>>
  /\ UNCHANGED <<tuning, selection, studies, tournaments, scripts>>

CampaignNext ==
  Search \/ FinishTuning \/ Repair \/ Select \/ Study \/ RunTournament \/ Interrupt

CampaignSpec == CampaignInit /\ [][CampaignNext]_campaignVars

(***************************************************************************)
(* Stopping early costs nothing that matters (tuning.py:116-131): a        *)
(* reliable trial that screens as well as all before it is always          *)
(* evaluated in full; and what is frozen (tuning.py:95-98,                 *)
(* run_m12_tuning.py:112), when both searches have an eligible trial, is   *)
(* reliable and the best of all the eligible ones.                         *)
(***************************************************************************)
SearchIsSound ==
  /\ \A i \in DOMAIN trials :
       /\ trials[i].screening.reliable
       /\ \A j \in 1..i - 1 :
            trials[j].screening.objective <= trials[i].screening.objective
       => Completed(trials[i])
  /\ Searched /\ Eligible(Broad) # {} /\ Eligible(Refined) # {} =>
       /\ Frozen \in Eligible(Broad \cup Refined)
       /\ \A t \in Eligible(Broad \cup Refined) : Objective(t) <= Objective(Frozen)

(***************************************************************************)
(* An evidence file is about one candidate (m12_campaign_support.py:121,   *)
(* run_m12_repair.py:63-103, run_m12_selection.py:29-64), whatever scripts *)
(* ran before it and were interrupted: the point that load_freeze finds by *)
(* its trial number is the point that was frozen and confirmed, and the    *)
(* training share a selection compares with is that of the candidate it    *)
(* validates and opens the holdout for.                                    *)
(***************************************************************************)
EvidenceIsOfOneCandidate ==
  /\ tuning.kind = "tuning" =>
       /\ LoadFreeze = tuning.candidate.point
       /\ tuning.confirmation.of = tuning.candidate.point
  /\ selection.kind = "selection" =>
       /\ selection.trainedOn.of = selection.validated
       /\ selection.freeze.point = selection.validated
       /\ selection.result = "PASS" =>
            Within(selection.validation.share, selection.trainedOn.share, 8)

(***************************************************************************)
(* The seeds and boards of the holdout are seen by a selection, or by a    *)
(* tournament that was told so, and by nothing that tunes or repairs a     *)
(* candidate (splits.py:84-125, m12_campaign_support.py:105-107).          *)
(***************************************************************************)
HoldoutIsKept ==
  \A e \in tournaments : "holdout" \in e.seen => e.script \in {"selection", "allowed"}

(***************************************************************************)
(* The evidence of a campaign is worth something: it is of one candidate   *)
(* throughout, which no holdout match has shaped (the two parts above).    *)
(***************************************************************************)
CampaignIsClean == EvidenceIsOfOneCandidate /\ HoldoutIsKept
==============================================================================
