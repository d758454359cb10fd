# A TLA+ model of the police-and-thief peer-to-peer game

The repository plays a hidden-information pursuit game between two peers, Police
and Thief, which share no server. It holds two ways to play it:

- the **SDK stack** (`services/*` behind `adapters/mcp`): one peer answers versioned
  tools (`propose_match_v1`, `commit_step_v1`, ...) through a durable pipeline that
  promises exactly-once effects, and calls the other peer through a Gatekeeper;
- the **live stack** (`adapters/amireman`): two peers push turns, audits and digests
  into each other's mailboxes over a wire shared with other groups, with timers
  instead of durable state.

Around them are the offline laboratory (`services/experiments`, `scripts/`), which plays
the same games in one process to choose a candidate, and the official documents of a
series (`services/artifacts`, `services/reporting`).

Paths below are relative to `src/src/police_thief_p2p/` unless they begin with `docs/`,
`scripts/` or `tests/`, which are in `src/`.

## Inventory

| component | state | operations | talks to | correct when |
|---|---|---|---|---|
| inbound pipeline (`services/protocol`) | session snapshot, receipts (both durable), the registry's cache | `handle` | record store; called by the MCP server | OK answers are durable, effects happen once and in order, a retry gets the stored answer |
| negotiation (`services/protocol/negotiation*.py`) | the session of one match; the league ledger | propose, accept, record a counted match | the pipeline | both peers hold the same terms of the same match, and no rematch is counted |
| MCP link (`adapters/mcp`, `shared/gatekeeper.py`) | semaphores | `send`, `execute`, tool handlers | the other peer | a retried request gets through, late attempts do no harm |
| record store (`adapters/persistence`) | one file per key | `load`, `save` | pipeline, journal, outbox, quota | a save is all or nothing |
| live series (`adapters/amireman/series.py`, `runtime*.py`, `engine.py`, `series_consensus.py`) | sub-game number, step, result, absorbed audit, summaries, digests | `run_series`, `run`, `_process`, `_finish`, `exchange_consensus` | the other peer's mailboxes | both peers report the same outcomes, honest peers are never convicted, the series ends |
| live game (`half*.py`, `capture.py`, `scent.py`, `*_policy.py`, `strategy.py`) | own cell, barriers, scent, notes about the opponent, support of the session's hypotheses | `act`, `receive`, `choose` | the other half, by turns | the result each half concludes is the one a referee of both cells would give |
| turn inbox (`adapters/amireman/delivery.py`) | next step, played, buffered | `offer` | live series | each step is processed once, in order |
| lifecycle (`services/orchestration`) | phase, journal, checkpoint, heartbeats | `run_series`, `transition`, `append`, `persist_before_ack`, `agree_recovery`, watchdog | workflow port, record store | every run ends in a terminal phase, recovery resumes at an agreed step |
| circuit and gateway (`orchestration/circuit.py`, `gateway.py`) | breaker state, failures, probe | `allow`, `success`, `failure`, `execute` | Gatekeeper | one probe at a time, and a provider that recovered is used again |
| Gatekeeper (`services/gatekeeper`) | semaphore, waiters, bucket, durable quota, anomaly window | `execute`, `acquire`, `release`, `consume` | providers | limits hold, no slot or token is lost |
| outbox (`services/reporting`) | one durable item per report | `enqueue`, `dispatch`, recovery | Gatekeeper, provider | a report is sent, and recorded as sent once |
| sealed steps (`services/crypto/store.py`) | commitments, nonces | `seal`, `acknowledge`, `reveal`, `final_manifest` | audit | nothing is revealed before it is locked, no nonce before the end |
| audit and replay (`services/audit`, `services/replay`) | none | replay and verify a revealed game | sealed steps, domain | a tampered log is found, an honest one passes |
| domain (`domain`) | board, positions, barriers, scores | `transition`, `resolve_verified_terminal`, `aggregate_series` | everything | rules and scores are those of the game |
| artifacts (`services/artifacts`) | files written once, manifest, archive | `write`, `verify_manifest`, `build_report` | audit, outbox | a misstated or damaged document is noticed, an honest series is one set that a process with its time stamp can always complete and report, also after a crash |
| belief (`services/belief`) | a grid of probabilities, trust in hints, the own scent field with its durable history | `update`, `emit_after_action`, `complete_turn` | strategy | the true cell is never ruled out, the field is the one of the path |
| strategy (`services/strategy`) | search cache, counters | `decide`, the brains, `iterative_search`, hints | belief, domain | a decision is legal, in time, and the best of a complete depth |
| experiments (`services/experiments`, `scripts/`) | evidence files, trials, the sealed holdout | matches, tournaments, search, repair, selection, gates | strategy, domain | a candidate is promoted on its own evidence, and never chosen on the holdout |
| SDK, GUI, CLI, mail, config | files, wiring | formats, input and output | everything | not about protocol order |

What is hard here: the pipeline writes three files per request and may die between any
two of them, or have one of the writes raise; senders retry, and the late first attempt
races the retry; the live peers have no durable state at all and every disagreement
between their timers shows in their reports; no live peer sees both cells, and yet both
must conclude the same result; breaker probes and semaphore slots are handed over across
awaits; two journals, two checkpoints and two ledgers must agree after a crash of either
peer; the evidence of a campaign lies in files that several scripts rewrite.
`PROJECT.json` lists each of these hazards at its line, with the property that covers it
or the reason why none does.

## Modules

| module | what it is |
|---|---|
| `ProtocolPhases` | the tables of `phases.py` and the response of `apply` |
| `CommandLog` | abstract specification: a durable log of requests, each applied once, in order, in a phase that allows it; answers come from the log |
| `PeerProtocol` | `ProtocolRuntime.handle`: the cached session, the receipts, the four saves, crashes, raising saves, cache eviction |
| `PeerProtocolProofs` | theorems about `PeerProtocol`, checked by TLAPS |
| `PeerLink` | composes `PeerProtocol` with the other peer's retrying sender and the network |
| `LiveSeries` | two live peers: greetings, turns, timers, audits, consensus, with the reorder buffer of `delivery.py` as pure operators |
| `LiveSeriesProofs` | theorems about `LiveSeries` and its inbox, checked by TLAPS |
| `LiveBoard`, `LivePolicies` | the live board; its scent, the two hand-written policies as functions of what a half knows, and the hypotheses of a session by their support |
| `LiveGame` | one live sub-game of two halves on the board, from the first turn to both results |
| `LiveGameProofs` | theorems about `LiveGame` and its refinement of `RecoveryArena`, checked by TLAPS |
| `RecoveryArena` | abstract specification of a game with a referee: the offline arena of the live stack |
| `ReportLedger` | abstract specification: what the outbox promises, one content and at most one outcome per report |
| `Outbox` | `OutboxDispatcher.dispatch` over `DurableOutbox`, the posts of a Gatekeeper call, the mail provider, restarts |
| `OutboxProofs` | theorems about `Outbox`, checked by TLAPS |
| `CircuitBreaker` | `circuit.py` as a value and pure operators |
| `Gatekeeper` | `FullGatekeeper.execute` for one provider: `PrioritySemaphore`, `ProtectedExecutor.run`, quota, bucket, cancellation, restart; uses `CircuitBreaker` |
| `GatekeeperProofs` | theorems about `Gatekeeper`, checked by TLAPS |
| `OrchestratedGateway` | `gateway.py`: retries, deadline, cancellation and a breaker around the Gatekeeper; uses `CircuitBreaker` |
| `PeerLifecycle` | the phase machine and `run_series` over that gateway, a watchdog and another task |
| `PeerLifecycleProofs` | theorems about `PeerLifecycle` and its gateway, checked by TLAPS |
| `PeerRecovery` | two peers' hash-chained journals, `persist_before_ack`, checkpoints and the recovery handshake, with crashes and damaged files |
| `GameDomain` | the rules of `domain/`: board, actions, one peer's local state, the order of terminal reasons; the scent a player leaves and the frame an opponent sees |
| `BoardGraph` | the questions of `graph.py`, with the reference definitions they must answer to |
| `SeriesScoring` | points per reason, the balanced schedule, totals and tie award |
| `ArenaGame` | the referee of `experiments/arena.py`, with the guard of `StrategyService` |
| `SealedSteps` | the sealed-step store |
| `GameAudit` | what a log is made of (bodies, commitments, live reveals, the event journal, signatures and bindings), its audit, and the second verifier, the one of the replay application |
| `PairedGame` | composes these: a game that is sealed, played, journalled and audited |
| `Beliefs`, `Brains` | the update of a belief and the hints; what each of the roster's brains may pick |
| `MindGame` | composes `ArenaGame` with them: an offline game whose players decide from what they believe, over a channel that delays and loses frames |
| `DecisionSearch` | one `StrategyService.decide`: the iterative search, its cache, its clock readings and the guard around it |
| `ScentHistory` | `OwnScentEngine` with its durable history, raising saves and restarts |
| `MatchNegotiation` | two groups that propose and accept matches over a channel that loses, repeats and reorders, with the ledger of counted matches |
| `MatchArtifacts` | the documents of a series, their writer, the manifest and every check up to the report |
| `Tournament` | the matches of a tournament, its report and the promotion gates |
| `Campaign` | random and surrogate search with early stopping; the scripts that make a candidate, their two evidence files and the sealed holdout |
| `RecordsProofs` | theorems about `PeerRecovery`, `MatchNegotiation` and `Campaign`, checked by TLAPS |
| `PlayProofs` | theorems about `PairedGame`, with its referee and its store, `DecisionSearch` and `ScentHistory`, checked by TLAPS |
| `MCPeerProtocol`, `MCPeerLink`, `MCPairedGame`, `MCLiveGame`, `MCMind`, `MCRecords` | instances for TLC; the last two check several independent machines in one run |

A module that a proof is about, and every module it uses, is free of `RECURSIVE`.

### PeerProtocol and the code

`handle` has no `await`, so two requests never interleave in one process; the model keeps
one `handler` record, which names the save the request has reached. An action is the code
from one save to the next one:

| action | code |
|---|---|
| `Deliver` | `handle` on a known game up to its first save or its answer: `Refuse`, `Replay` (a COMPLETED receipt), `Repair` (an effect without one), `Execute` |
| `Propose`, `SaveCreated` | `resolve_session` on an unknown game; `SessionRegistry.create` |
| `SaveIntent` | `persist_intent`, then `apply` and the in-memory mutations |
| `SaveSession` | `SessionRegistry.persist` |
| `SaveReceipt` | `persist_result` and the OK answer |
| `SaveFails` | the save at hand raises; `handle` answers INTERNAL_FAILURE and keeps the session object as it is |
| `Crash` | the process dies; the cache and the request are gone, the files stay |
| `Evict` | `_cache` makes room for another game |

`saved` and `receipts` are the files, `cached` is the registry's object, `acked` records
the OK answers given. One session is modelled: sessions share nothing but the cache limit,
and that is `Evict`. A digest is the request itself. Envelopes the parser refuses, and
`peer_status_v1`, change nothing and are left out. A save of one key is one step
(`atomic_files.py` writes a temporary file and replaces).

### LiveSeries and the code

Every peer is a thread that runs `run_series`; `pc` is the place in it. The mailboxes are the
queues the server tools fill. A push is retried until the server has answered. An attempt that
was given up at its deadline (`client.py:85-94`) may still be handled by the opponent's server,
at once, after the opponent has gone on to another sub-game, or never: such a push leaves a
second copy on its way (`mail[p].late`), which `Land` puts into the mailbox at any later time.
Timers (`MeetTimeout`, `TurnTimeout`, `AuditTimeout`, `ConsensusTimeout`) expire freely on an
opponent that has stopped and up to `MaxTimeouts` times on one that is only slow. A crashed peer
does not come back: nothing in the live stack is durable. `conceded` and `survived` are history:
what happened on the board, for the properties to compare with what is reported. So are
`faults.strays`, the sub-games that a turn of another one got into, and `faults.overtaken`,
which counts the copies that did.

Abstractions: the board is a choice (a claim finds the Thief or not, the Thief is enclosed or
not); a push leaves at most one copy on its way, and at most `MaxDuplicates` pushes leave one; a
greeting is its sub-game number and both peers hold equal terms; the check of an audit's records
against the commitments changes only the fields `passed` and `failed_steps`, which no decision
of the series reads, and is left out (`LiveGame` has it); the sub-game in a turn is there for
the properties and inside the commitment, never read by the code.

### LiveGame and the code

`half[role]` is a `PeerHalf` with its engine: cell, barriers, scent, notes, records and the
unanswered claim. `Process(role)` takes the oldest turn of a mailbox and does all of
`SubGameRuntime._process`: receive, conclude, answer with a turn, a closing hold or nothing;
`Open` is the Thief's first turn. A brain is one of the two policies of the wire, which are
functions (`LivePolicies`), or a session, whose weights are floating
point: of the cells that its hypotheses may have reached, `_resample` keeps any of at most
`ParticleCount` (which hypotheses are the heaviest is a matter of weights, and several share a
cell, so that few cells may be cut too; `cut` remembers it), and its choice is any option the
masks and vetoes leave. `Hold` is `concede`, which gives the pending answer, and
`report_enclosure`, which leaves it pending. Scent keeps the exact decimals of the code for the
default decay up to six decays. Timers and lost turns are those of `LiveSeries`.

`Truth` is what a referee of both cells would say. The game refines `RecoveryArena`, the
referee the session is trained with, but for one case, which `WalkedIn` names: a Thief that
steps onto the Police is captured in the arena (`compatibility_turn.py:94`), and on the wire
only if the Police then stays and claims the cell (`half_receive.py:66-74`).

### Outbox and the code

All items are one durable record; `get` and each `transition` hold its lock, so these are
the steps of a dispatch, and anything else in the process runs between them:

| action | code |
|---|---|
| `Enqueue` | `DurableOutbox.enqueue` of a new report (the same bytes again change nothing, others raise) |
| `Begin` | `dispatch` up to its first transition, or its receipt when the report is final |
| `Validate`, `StartSending`, `Settle` | the three transitions of `dispatch`; an illegal one raises |
| `Post`, `TimedOut`, `GiveUp` | the attempts of `ProtectedExecutor.run`, seen from outside |
| `Take`, `Answered`, `Refused` | the provider (external) and what `gmail.py` makes of its answers |
| `Raise` | a save, or the Gatekeeper, raises out of `dispatch` |
| `Restart` | the process dies; the next one runs `_recover_interrupted` |

`taken` and `told` are history: the mails the provider sent and the final receipts callers
hold. A post that timed out stays in `posts`, since `asyncio.to_thread` cannot recall it.
The model assumes what the code does: one process owns the record, for nothing locks the
file between processes. A retry time is not modelled; a waiting report may be due at any
look. An answer that says success but cannot be read makes the report FAILED_PERMANENT
although it was mailed: `Answered` has that choice, so a `failed` outcome does not mean
that no mail went out, and `ReportLedger` does not promise it.

### Gatekeeper and the code

One event loop runs all calls, so code between two awaits is not interrupted by other
calls. It is split over several actions all the same (`Allow`, `Consume`, `TakeToken`,
`Leave`) and `running` names the call that has the loop. Only `Restart` and `Refill` (a
clock) come in between. `Execute` is `execute` up to its first await; `Resume` the waiter
whose future `release` completed; `AfterWait`, `Answer` and `Retry` the three other awaits.
`Cancel` cancels a call in an await named in `Cancels`; a cancelled waiter is still in the
heap until `Withdraw`, and `Releases` passes it by. The bucket holds whole tokens, the
circuit a bit that says its cooldown has passed, deadlines have passed or not as the code
looks. A call whose deadline passes just before the executor is called counts in `made`,
which only makes `MadeWithinQuota` harder to keep.

### PeerLifecycle, PeerRecovery and the code

`OrchestratedGateway` interleaves several calls at the two awaits of `execute`: `Check` is the
head of the loop, `Succeeds`, `Fails` and `Raises` what the Gatekeeper makes of an attempt,
`Wake` the end of the backoff. The last attempt's failure, and every semantic one, is never told
to the breaker; `unjudged` records that. RETRY_EXHAUSTED (`gateway.py:98`) cannot be reached,
since the loop always returns before. `PeerLifecycle` runs the phases of `run_series`; the
repository has only the port of the workflow and test doubles, so the workflow is the one of
the soak test: it journals each phase and performs it by one gateway call. A machine that is
not in CREATED at the start loses technically, one that has already ended raises.

`PeerRecovery` is `persist_before_ack` in its steps (`Stage`, `KeepInMemory`, `Replace`, `Ack`),
so that `Crash` finds each of the four crash points; `SaveRaises` leaves memory ahead of the
file; `DamageJournal` alters, swaps, drops or cuts what is on disk while the process is down and
`Reload` validates it. `SaveCheckpoint`, `SendDigest`, `Agree` and `Resume` are the handshake of
`agree_recovery`. Hashes are the events they stand for, so that a chain is its content.

### PairedGame and the code

`ArenaGame` is the loop of `play`: `Apply` is one side's decision, its transition, the scent it
leaves, the referee's answer and the copy of its barriers to the opponent, with the exact
order of the code (the terminal check comes before the copy). `Decisions` is what
`StrategyService.decide` lets through, whatever the brain answers and whether it is late.
`SealedSteps` has one operator per method of the store; a method that raises is not enabled.
`PairedGame` composes them the way the helpers of the audit's own tests do, since no code in
`src/` does yet: `SealDecision`, `ReplaceDecision`, `AcknowledgeStep`, `RevealStep` (which
plays the action and journals the reveal) and `DiscloseNonces`.

A commitment is the pair of its body and nonce, so that hashes are injective. A replaced
step's nonce is forgotten by the store and may be drawn again; a replacement the store refuses
has already deleted the step (`store.py`), although CRY-AC-004 (`docs/PRD_CRYPTO_AUDIT.md:97`)
wants an illegal order to fail without mutation: `Seal` and `ReplaceBeforeAck` have exactly
that effect. `Audit` is a function of the evidence bundle: preflight, replay of every step
against both local states and both scent fields, findings, sanction, verdict, where `Raised` is
an exception that leaves `audit_sub_game`. The invariants ask it at the end of every game about
the honest evidence, about every evidence with one thing changed, and about every history
resealed at one step; the second verifier is asked the same questions. Commitments do not bind the
global sequence number of a step; the audit finds a changed one by its own count.

### MindGame, DecisionSearch, ScentHistory and the code

`MindGame` is `ArenaMatch` with everything `play` does around a decision: `Play(r)` lets the
side's brain pick (`Brains`, from its own state, belief and history), passes it through the
guard of `StrategyService`, applies it as `ArenaGame` does, submits the frame and the hint to
the opponent's channel and, at the end of a turn, delivers what is due (`Observe`: predict,
mask, scent, hint, trust). A belief keeps whole-number weights scaled at every update instead of
probabilities: which cells are possible is exact, and so is the order of weights that differ by
more than rounding. A brain with a random source may pick whatever it can draw. Of the advanced
brains `Brains` keeps the candidates, features and objectives in integers; which scores they
lead to in a search is left open in `DecisionSearch`, where any of `Scores` may come out.

`DecisionSearch` runs one `decide`: `Ask`, then for every depth `LoopCheck`, `Evaluate`,
`CompleteDepth`, then `Answer` and `Guard`; `Tick` lets time pass between any two readings of
the clock. `ScentHistory` calls the engine as the composition root does, with each save made,
refused, or followed by the death of the process.

### MatchNegotiation, MatchArtifacts and the code

Two groups each `Send` a proposal made from their own ledger, `ReceiveProposal` validates it as
`negotiation.py` does (bytes, links, schedule, league), `Accept` and `ReceiveAcceptance` bind the
two; messages are a set, so they are lost, repeated and reordered freely. `Play` records a
counted match in both ledgers, of which one write may be lost. The contexts differ in canonical
configuration, raw bytes, scent settings and protocol version.

`MatchArtifacts` builds the documents of a six-game series from one record of it, with at most
one field misstated (`Slips`), writes them in the code's order (`Write` refuses to replace
another content), may crash and build them again under the same time stamp or another one, may
damage a file, and then makes the manifest and the report (`Prepare`). A digest is the document.
`HonestSeriesIsReported` says that the files of an honest series are at every moment the beginning
of one set under one time stamp. A process that builds them with this stamp never raises and is
never refused a report, so the set can be completed after any number of crashes. A process with
another stamp raises at the first config on file and leaves the set as it is; nothing in `src/`
keeps the stamp for it, which is a matter for the program that calls the writer.

### Tournament, Campaign and the code

`PlayMatch` adds an outcome; `TournamentReport` computes shares, role summaries, reliability and
the 95th percentile as fractions, with the bootstrap's bound any value it may come to, and
`PromotionFailures` are the ten gates. The search of `Campaign` gives every trial any
screening and full result; the rest is one action per script's `main` (`Search` and `FinishTuning`,
`Repair`, `Select`, `Study`, `RunTournament`); `Written` leaves a complete document or a torn one, since
`write_evidence` is not atomic, and `Interrupt` stops a script half-way.

## What the runs check

| run | bounds | shows |
|---|---|---|
| `protocol_inbound` | all requests of `MCPeerProtocol` (two message IDs per sequence number where that matters, a reused ID, a wrong sender, a wrong role, wrong terms), two faults | every answer is durable at every crash point (`AckedIsDurable`), and the pipeline implements `CommandLog` |
| `protocol_failed_save` | the same with the session's save raising | **finding**: an effect answered OK that no file holds |
| `protocol_link` | a script from proposal to reveal, two faults, any loss, repetition and reordering | the script completes (liveness) |
| `live_series` | three sub-games, threshold 2, one repeated push whose copy lands at any time, one timer on a slow peer, one crash | peers that agree report the same and settle together; in a sub-game that no foreign turn got into no honest peer is convicted and reported outcomes happened; a turn gets into a foreign sub-game only as a late copy; every series ends (liveness) |
| `live_series_late_copy` | two sub-games, one repeated turn, no timer, no crash | **finding**: a copy that lands after the drain convicts its honest sender |
| `live_game` | a 3x3 board, two starts, two barriers, three turns, 16 hypotheses (the least `particle_count`), every pairing of policies and sessions | results are true, records answer to commitments, knowledge keeps up but for what truncation drops, a free Thief is not taken, the game refines the arena's and ends on both sides (liveness) |
| `outbox` | one report with two possible contents, two dispatches at a time, two posts a call, at most two dispatches sent, two faults | one sender, no post after a final receipt, and refinement of `ReportLedger` |
| `gatekeeper` | three calls of two priorities, one slot, two waiters, one retry, one token, two units a day and one a session, threshold 1, one midnight or session reset | no slot leaks, is doubled or idles while a call waits, the quota bounds the calls made, an urgent call is served (liveness) |
| `peer_lifecycle` | two sub-games of at most two steps, two attempts a call, threshold 1, two callers | the result tells what happened, no probe is lost but in the one known way, and `run_series` ends (liveness) |
| `sealed_game` | a 3x3 board, Police in the middle, Thief in a corner, two turns, two barriers, four nonces, one replaced decision | the referee misses no end and the audit agrees with it, nonces stay secret and locked payloads locked, every damage and every resealed history is found, the two verifiers agree; the graph questions on boards up to 5x5 and the scores of all series of three reasons |
| `mind_game` | a 4x4 board, three turns, delays of none or one turn, one late decision, one lost frame; a search of two depths over three candidates; three own actions and two restarts of the scent history; questions about beliefs, brains and hints on boards of up to nine | no brain is overruled, truth stays possible, evidence comes once and in order, a decision is the best the time allowed, the history is its path, and brains, beliefs, hints and routes are what they mean |
| `records` | two peers, two mutations, two crashes or damages; two groups, four contexts, two proposals, two matches; a series of six games with 64 possible slips, two crashes, each followed by either of two stamps; eight matches with at most one technical failure, and the random numbers of three more specs of up to eight seeds and 100 repetitions; two random and two surrogate trials; three scripts and two interruptions | journals are true, peers resume together, matches bind both, flaws are found and honest series reported, promotions are earned, the search loses nothing, evidence is of one candidate and the holdout is kept |

`mind_game` and `records` hold several machines that share nothing: a variable `part` chooses
one at the start and the others stand still, so a run explores their sum and not their product.

Why these bounds are enough. In `PeerProtocol` a request meets at most four saves, and two
faults cover a fault during a request and another during its retry's repair; the requests reach
every refusal. `LiveSeries` needs two games for a message of one to be met in the next, three
for a peer to have both roles twice over with a game in the middle; a threshold of 2 lets both
peers act, claim, concede and survive. One repeated push, its copy landing anywhere, one timeout
and one crash in any place and any combination are 1.06 million states; the copy that lands a
game too late is a finding, the second timeout a divergence. Reports share only the record,
which every operation rewrites under one lock, so one ID with two contents is enough in
`Outbox`; two dispatches give every race between `get` and the transitions (the proofs hold for
any number), two posts a call a retry with a late first post, two faults a restart and an error
in its wake. In `Gatekeeper` three calls are one that holds the slot and two in the queue, where
priority and cancellation show; with these limits each one is met: quota, token, retry,
threshold. The queue is never full there, as a fourth call would need; that refusal changes no
state.

In `PairedGame` two turns let a barrier, an enclosure, a capture and a survival end the game,
and one replacement meets every stage of a step; a third turn adds longer logs of the same
steps. In `LiveGame` a Thief reaches every cell of the board from the two starts and meets
claims, barriers, enclosure, a walk into the Police and the closing hold within three turns, and
truncation can drop the Thief's cell in the first of them; the decays are exact. In `MindGame` three turns deliver a frame that was delayed by one
and judge a hint given before it; larger boards only add cells, which the questions ask about.
In `PeerLifecycle` two sub-games have a first, a next and a last one, two attempts a
retried and an exhausted one, and a threshold of 1 opens the breaker at every failure. In
`PeerRecovery` two mutations let one peer be a step ahead and be stopped in each step of the
second; in a search two random trials are the history that the screening rule needs before it
may stop one (`MinHistory`; the code's constant is larger and a larger history has the same
comparisons with a median). A campaign of three scripts has every pair of writers before a
reader; in it every trial is complete and reliable, and what else a trial
may come to is explored in a search of its own, another part of the run.

`CHECK_DEADLOCK` is off where the system really stops: a script that is done, a series that
has ended, an outbox whose reports are final, a game that is over, documents that were
reported.

Fairness. `PeerLifecycle`: the thread of `run_series` goes on, each attempt is answered (the
Gatekeeper has a timeout of its own) and each backoff ends; the watchdog and the other task need
none. `PeerLink`: the event loop runs a handler it has started to its end, the caller retries as
long as it has no answer (`docs/PROTOCOL.md` section 7), and an attempt that is retried for ever
arrives in the end (strong fairness on arrival; loss is otherwise free). Faults are bounded, not
unfair. `LiveSeries`: each peer is a running thread, and every wait of it has a deadline; a
timer is only ever due on a peer that is gone or up to the bound. `Land` has none: a copy may
never land. `LiveGame`: a runtime polls its mailbox until it has a result, so a turn that waits
is processed (weak fairness of the next step, written with `Ready`, which says when there is
one, because the enabledness of `Next` would have TLC compute every policy again). `Gatekeeper`:
tokens are refilled by time (weak fairness), and a call that can go on goes on: the loop runs
ready calls in turn and every await but that of the queue has a deadline. It is strong fairness
because a step of one call is disabled while another has the loop. Waiters of the same priority
are served in turn by the heap, not by fairness (the mutant `JumpedQueue` breaks that and
starves a call).

### Findings

1. `services/protocol/runtime.py:99-113`. The session object in the cache is changed before
   it is saved. If that save raises, the peer answers a failure but its next look at the
   session finds the effect as *recovered*, completes the receipt and answers OK. No file
   holds the effect; after a restart the peer has lost a request it acknowledged.
2. `adapters/amireman/client.py:107`. A turn is pushed again when an attempt is given up, and the
   attempt that was given up may be handled after its receiver has closed the sub-game and drained
   its mailbox (`runtime.py:143`). Steps start at 1 again and a turn names no sub-game, so the copy
   is played in the next one, and its honest sender's own turn with that step is an equivocation
   and the game a technical loss. If the copy ends a game (a survival, a capture), the next
   sub-game ends with it: `OutcomesHappened` therefore leaves out the sub-games that a foreign
   turn got into, and `StraysHaveCause` says that nothing else brings one there.

### Known divergences

Met while modelling; the models have these steps, and the properties say what holds beside
them, naming the exception where there is one.

- The second way for a turn to get into a foreign sub-game (`adapters/amireman/runtime.py:76-91`):
  two timers that expire on a peer that is only slow let the other one drain its mailbox and
  begin the next sub-game before the slow peer's turn is pushed. `LiveSeries` finds it under
  `Games = 2`, `MaxTimeouts = 2`, no copies and no crash, as a violation of
  `HonestPeerNeverConvicted`; the runs stop at one timer, as `Steady` does.
- The dispatcher promises exactly-once dispatch (`services/reporting/dispatcher.py:37`), but a
  Gatekeeper call posts again after a timeout and the timed-out post may have been taken: the
  provider mails the report twice, with no crash. What holds is that one dispatch at a time
  sends, nothing is posted after a final receipt, and a report has one content and one outcome.
- A half-open probe of the Gatekeeper's circuit that is stopped by the quota, a token deadline,
  a permanent error or a cancellation says nothing to the circuit (`gatekeeper/execution.py:72`),
  which then refuses every call until it is reset by hand. The gateway loses its probe the same
  way on a last or semantic failure, which `ProbeIsAccountedFor` names.
- The audit of an honest game that ended with a barrier placed on the Thief leaves
  `audit_sub_game` by an exception (`services/audit/replay.py:122`: the barrier is copied into a
  state that `state.py:82` refuses), and a game in which the Thief played the last turn is found
  to have gone on after its end. `AuditMatchesReferee` says so, and what holds otherwise.
- A waiter that is cancelled between `release` and its own turn takes the slot with it
  (`priority.py:61-67`), which is why the run's `Cancels` leaves out "woken". A save that raises
  in a transition, or the `RuntimeError` of two calls that waited for one token, leaves a report
  SENDING, and `dispatch` then raises for it until the next restart.
- After a crash with a record in the journal that no checkpoint has, journalling the mutation
  again makes the two peers' journals and digests differ, and every later recovery is refused.
  `agree_recovery` never compares a checkpoint with the journal beside it; a journal that lost its
  tail is a valid chain, which `JournalIsTrue` states.
- The terminal reason and audit status of a log are not compared with the result, optional
  reference fields are not checked when they are absent, and `archive.py:48` reads the bytes again
  after they were verified. A restart that stamps its documents anew cannot finish the set it
  has begun; it is refused, never mixed.
- `scripts/run_m12_tuning.py:112` compares the two bests by objective alone, so an ineligible
  refined trial may replace an eligible broad one: `SearchIsSound` asks that both searches have an
  eligible trial. Unreliable and stopped trials count in the screening history.
- `SealedHoldout` lives in memory: each selection opens a fresh seal, so nothing enforces that the
  holdout is opened once (`docs/EXPERIMENTS.md:25`), and a selection opens it whatever its
  validation gates say. `run_m12_repair.py` plays the holdout's opponents on validation seeds and
  records `selection_split="train"`; `SplitPlan.spec` looks at the seeds only, and BL-REF is an
  opponent of both splits. `HoldoutIsKept` is therefore about seeds and boards.
- `_resample` keeps the `particle_count` heaviest hypotheses (`compatibility_filter.py:113-116`):
  64 of up to 320 at the first observation already. They need not include one on the Thief's
  cell, and only a step of another hypothesis can then lead back to it, since a Thief claims
  nothing.
  `KnowledgeKeepsUp` says that this is the only way to lose it.
- Match seeds are not all different (`runner.py:79`): with 30 or more repetitions the matches as
  Thief under one seed meet those as Police under the seed two below it (101·2 + 1 = 7·29), and
  with 73 or more those as Police meet those as Thief five below. `PromotionIsEarned` claims what is
  left: the matches of one seed differ, the matches in one role differ under any legal spec, and
  all do up to 29 repetitions.
- `complete_turn` restores nothing: a restart between the first frame and `complete_turn(1)` loses
  that turn's decay. `recompute_scent_history` emits at a barrier's step and the engine does not.
  `HistoryIsTrue` names both.
- A map area with a word that no hint may contain makes `realize_hint` raise in the brain and in
  the fallback alike, so `decide` raises. The search cache's key has the depth in it and so never
  hits. A search that times out counts as an exception and not as a missed deadline. The Thief's
  search keeps it off the Police's cell at depths 1 and 2; at 3 a near tie may step there; an honest
  CENTER hint does not cover some inner cells of boards of size 8 and 10; a Police on its own
  barrier is masked out of the Thief's belief.

## What is proved

`PeerProtocolProofs`, for every set of requests, any set of valid proposals, any number of
faults:

- `TypeCorrect`: `Spec => []TypeOK`, with no further assumption. `TypeOK` alone is not
  inductive, since the receipt that `SaveIntent` writes and the session that `SaveSession`
  writes come from `handler` and `cached`; `StagesChecked` adds that a handler at "create"
  has a valid proposal, and that one at a later stage has a session in the cache.
- `AnswersAreDurable`, `ReceiptsAreSound`, `CacheIsSound`: under
  `SessionSaveHolds`, that the save of the session does not raise (it may crash before or
  after; without the assumption the first finding refutes them). The inductive invariant
  `DurableInv` says what each stage may rely on: at "intent" the cache is the file and the
  file has no effect of this request; at "session" the cache is the file with exactly this
  request's effect appended and its intent is durable; at "receipt" the file holds the
  response about to be answered. `ReceiptInv` and `SessionInv` tie receipts, effects,
  sequence numbers and the phase together.
- `PipelineImplementsLog`: under the same assumption `Spec` implements `CommandLog` with
  `log` the effects of the session file and `answered` the answers. `SaveSession` is the
  only step that appends, and `Replay` and `SaveReceipt` are the ones that answer; the
  invariant makes each of them a legal step of the log, and all others stutter.

`OutboxProofs`, for every set of reports, contents and dispatches, any number of posts per
call and any number of faults, with no assumption but those of the module:

- `Types`: `Spec => []TypeOK`, by `TypeInv`, which adds `Known`: a dispatch under way
  is of a report that is queued.
- `SingleSender`: `Spec => []OneSender`. The invariant is inductive on top of `TypeInv`: the
  SENDING transition is legal only from VALIDATED, so that a dispatch enters its call only
  when no other one can be in it, and nobody but it moves a SENDING item.
- `NoLatePost`: `Spec => NoPostOnceTold`. `Truthful` says that a told outcome is the state of
  the item, which is final; a dispatch that could post holds a SENDING item by `OneSender`.
- `OutboxImplementsLedger`: `Spec => ImplementsLedger`. `SameContent` ties every post and mail
  to the content queued, `SeenTaken` a coming SENT to a mail that was taken. `Enqueue` is
  `Queue`, `Take` is `Take`, `Settle` to a final state is `Decide`, `Begin` on a final report
  is `Tell`, and all others stutter.

The inductive invariant `OutboxInv` is the conjunction of all these parts.

`LiveSeriesProofs`, for any number of games, any threshold and window, any number of repeated
turns and audits, any time their copies land, and any crash:

- `SeriesInvariant`: `Spec => [](Steady => IInv)`, from which `ReportsAgree` (`PeersAgree`: an
  outcome both report as agreed is the same outcome, equal digests mean equal series, and without a
  fault the digests are equal), `NobodyIsConvicted` (`HonestPeerNeverConvicted` while the series is
  steady, and `StraysHaveCause`) and `ReportedOutcomesHappened` (`OutcomesHappened`) follow.
- `Steady` is part of what is stated: at most one timer has expired on a peer that is only slow, and
  no copy of a turn has landed in another sub-game. Both are needed: the run
  `live_series_late_copy` refutes the property with one copy and no timer, and two timers refute it
  with no copy (see the divergences). A copy that lands while its receiver still plays that sub-game, an
  audit's copy that lands in any, and copies that never land are all within it.
- One hypothesis. `"agreements" \notin Duplicable`: no greeting is repeated. The code does not
  exclude that (`negotiate.py:76` takes a second greeting for the next sub-game's), and nothing is
  claimed for it, neither by a run nor by a proof.
- None of the properties is inductive: what a peer reports depends on what is in six
  mailboxes, on what is on its way and on where the opponent is. `IInv` says, for each half: what it
  knows by itself (`LocalInv`: counters against reports, an inbox without gaps); that the turns on
  their way follow each other, belong to the game being played and end where the opponent's counter is
  (`StreamInv`, which is why the reorder window is never left); that a copy still to land tells its
  receiver nothing it has not been told (`LateTurnInv`, `LateAuditInv`: a turn that was played is
  absorbed, one that was not is in the mailbox too); that every
  claim, audit and agreed report is one the opponent made or is bound to make (`ClaimInv`) and the
  same for digests (`DigestInv`); and how far apart the two may be (`PairInv`: greetings pushed and
  met, at most one game ahead, a peer that waits for an audit was heard, a result found without a
  timeout ends the game for both). The one timeout is what `PairInv` is about: after it a peer may be
  ahead, and its opponent is then quiet, with nothing left in the mailbox to meet in a later game.
  `FaultlessInv` is the same without faults, where results are equal. What went wrong is never
  forgotten (`CountsInductive`), so a steady state has steady states behind it only, and the
  invariant needs to be kept by steps between steady states alone.
- What holds of a series that is not steady any more (`HonestPeerNotConvicted`, `OutcomesHappened`
  outside `faults.strays`, `PeersAgree`) is model-checked only.

`GatekeeperProofs`, for any finite set of calls, limits, quotas and cancellations:

- `GatekeeperInvariant`: types; the heap holds each queued call once and otherwise only cancelled
  ones that have not left; `active` is at least the number of calls that hold a slot;
  `made` and the calls that are charged and not made are within the day's units and the slots.
- `NobodyWaitsForNothing`: no call waits while a slot is free, even if a woken waiter is cancelled: its
  slot is then leaked, and a leaked slot counts as taken.
- `SlotsAreAlwaysKept`: `SlotsAreKept`, where a waiter just woken is not cancelled
  (`"woken" \notin Cancels`; the divergence above at `priority.py:61` is what happens otherwise).
- `QuotaIsNeverExceeded`: `MadeWithinQuota`, through midnight, restarts and retries. The bound has
  the slots in it since units taken before midnight may be used after it.

`RecordsProofs`, on `PeerRecovery`, for any two peers, any number of mutations, crashes and damaged files:

- `RecoveryInvariant`; `JournalStaysTrue` (`JournalIsTrue`): the file is what was saved or that with
  one record altered, swapped or lost, and of these only a lost tail is a valid chain (the lemmas
  about `ValidChain`), so that nothing acknowledged is missing from a file that was not damaged.
- `PeersResumeTogether` (`ResumedTogether`): an offer is the other's checkpoint as long as it
  matters, peers that agreed are at one checkpoint until both run again, and are one step apart from
  then on. `CountInv` ties each counter to what its owner acknowledged.

On `MatchNegotiation`, for any groups, contexts, ledgers and number of messages:

- `NegotiationInvariant`; `AgreementsAreBinding` (`MatchIsBinding`). A session only ever holds a
  proposal that is valid against its own configuration and ledger, an acceptance on its way is of
  the proposal its sender holds, and the counted match is in at least one ledger. The last needs
  `MaxLost <= 1`: of the two writes of a match at most one is lost; if both groups lost it, nobody
  knows of the match and a rematch is allowed.

On `Campaign`, for every history of results, any number of trials and any order of scripts,
interrupted anywhere:

- `CampaignInvariant`; `SearchStaysSound` (`SearchIsSound`); `CampaignStaysClean`
  (`CampaignIsClean`). The properties alone are not inductive, since a later script reads what an
  earlier one left in a file. `TrialsInv` says that trials are numbered through and that a reliable
  one that leads has run in full; `TuningInv` that the number in a manifest names its candidate and
  no other point, and that the confirmation is of that candidate, a repair included; `SelectionInv`
  that a selection validated and froze one point, trained on its own reports. The median of the
  screening is the n-th of the sorted results (`Nth`): one that as many are below as above.

`LiveGameProofs`, for any board, any set of starting cells, both brains, any length of game and
number of barriers:

- `GameInvariant`. What a half concludes depends on turns that are still on the wire, so the
  invariant is a case per place of the game: `Opening`, `PoliceToAct`, `ThiefToAct`, `PoliceToHear`
  (the Thief has answered a claim or reported an enclosure) and `Done`. Each says which turn, if any,
  is on the wire and from which state it was made, what either half knows of the barriers, that the
  hypotheses of a session, if none was ever cut, contain the opponent's cell (a Thief's session
  holds the Police's cell and no other, cut or not), and which result has been concluded on which
  ground.
- `ResultsStayTrue` (`ResultsAreTrue`), `KnowledgeStaysCurrent` (`KnowledgeKeepsUp`),
  `FreeThiefGetsAway` (`FreeThiefIsNotTaken`), which follow in each of the cases. The last rests on
  lemmas about the two policies: the first of the greatest is among the candidates, and a Thief that
  has an option out of reach weighs it above every other.
- `GameImplementsArena` (`PlaysLikeTheArena`): `LiveGame` implements `RecoveryArena`. An action of
  a half is the referee's move, with the referee's outcome; hearing a turn stutters.

`PlayProofs`, on `PairedGame`, for any board, starting cells, length of game, number of barriers,
nonces and replacements:

- `SealsHold` (`SealsAreKept`): `Spec => SealsAreKept`. The invariant adds that nonces are
  disclosed only when the game is over and every step was acknowledged and revealed, after which
  nothing is sealed.
- `RefereeMissesNothing`: `Spec => [](LocalStatesValid /\ SidesInStep /\ NoMissedOutcome)`. The
  referee looks with the actor's own barriers and after its action only; that this is enough needs
  all three together, and that the Thief never stands on a barrier while the game goes on. On one
  cell alone the two could not start apart, which is why the Thief always has a neighbour at the
  start.
- `AuditIsRight` (`AuditMatchesReferee`). The audit replays the evidence from nothing, so the
  invariant (`EvidenceInv`) has to remember the whole game: `JournalInv` chains the entries,
  `RevealsInv` ties each to one sealed step, `PlansInv` says that what is sealed for the turn is
  what the mover's state makes of its action, and `CourseInv` that there is a course of positions
  and scent fields (`Course`) from the start to the present, each the one before with the next
  entry played; after the game, one to the last step but one, and that step with the referee's
  verdict (`Ends`). Then the preflight finds nothing (`PreflightPasses`), no check of a step that was
  played fails (`ReplayPlays`), so that the replay runs along the course (`HonestReplay`), and
  `LastStep` compares the two verdicts, with both exceptions. The course is unrolled without
  induction: of two courses that part there would be a first place where they do (`SameCourse`).

`PlayProofs`, on `DecisionSearch`, for all candidates, scores, caches, horizons and deadlines:

- `DecidedInTime` (`BestInTime`). The invariant says that the candidates of a request are distinct
  and legal, that exactly those of the depths before and the first ones of this depth are scored,
  that every key in the cache is one of them (which is why a cache whose key has the depth in it is
  never hit), and that `best` is near the greatest score of the depth before. A depth that is cut
  short has a candidate that is not scored, hence nothing deeper was complete.

`PlayProofs`, on `ScentHistory`, for every walk and any number of crashes:

- `HistoryStaysTrue` (`HistoryIsTrue`). The invariant (`RecordsInv`) says of the store and of the
  engine's memory alike that a record tells its path (`TellsItsPath`) and is ahead of what the
  caller saw by at most the call that raised or was lost (`IsUpToDate`), except after a restart
  that lost the first decay, when the record still has turn 0 and the engine refuses every later
  turn. `FramesInv` says that every frame shown is the trail of the walk with a decay after every
  step before it, which is what the audit recomputes as long as no barrier was placed
  (`TrailsAlike`). That a trail goes on by one step (`TrailGoesOn`) is proved from its courses.

`PeerLifecycleProofs`, for any number of sub-games, steps and attempts:

- `LifecycleInvariant`; `ResultIsTrue` (`ResultTellsTheTruth`); `ProbeIsNeverMislaid`
  (`ProbeIsAccountedFor`). `LoopsStand` says where the two loops of `run_series` are in each
  phase and `JournalIsCounted` that a phase is journalled when it is entered and counted when it is
  left; the lemmas on `TRANSITIONS` show that the chain only branches where a loop ends and into a failure.

Assumptions. The theorems rest on the named assumptions of the modules, which the runs evaluate on
their instances: there are two peers or groups (`PeersAssumption`, `GroupsAssumption`,
`SeriesAssumption`), the calls are finitely many (`CallersAssumption`), the two sides of a game
start on different cells (`StartAssumption`, `StartsAssumption`), a random search has at most as
many trials as the number 10000 that a repair is given (`CampaignAssumption`), movements are some
and barriers none of them (`SearchAssumption`), a nonce that was generated is well formed
(`NoncesAssumption`), a walk is a sequence of moves and barriers (`HistoryAssumption`), limits and bounds are numbers of the range the constructors check
(`RulesAssumption`, `LimitsAssumption`, `LedgersAssumption`, `AttemptsAssumption`,
`ThresholdAssumption`, ...), a configuration is a record of its four parts (`ContextsAssumption`),
and `None` is no outcome (`NoneAssumption`).

Only model-checked:

- what holds of a live series that is not `Steady` any more;
- liveness (`ScriptCompletes`, `SeriesEnds`, `UrgentIsServed`, `SeriesReturns`, `GameEnds`), which
  needs fairness and `ENABLED`;
- everything over `BoardGraph`, `Beliefs`, `Brains` and `MindGame`, whose reference definitions are
  recursive, which the prover cannot use: `AnswersMatchDefinitions`, `AnswersAreSound`,
  `NoBrainIsOverruled`, `TruthStaysPossible`, `EvidenceInOrder`;
- `PairedGame`'s `TamperingIsFound` and `VerifiersAgree`, which run the audit on every changed
  bundle and a second replay on logs that were changed;
- `MatchArtifacts` (`HonestSeriesIsReported`), whose report selects and adds up over documents, and
  `Tournament` (`PromotionIsEarned`), whose gates compare sums over all matches: each would be an
  induction over data.

## What is not modelled

- Envelope parsing and limits: a rejected envelope changes no state.
- The bounded work queue, a sequential heap nothing in these paths uses; shutdown hooks; the
  anomaly detector and metrics of the Gatekeeper, which refuse a call before it touches any state.
- The archive copy of the documents and the schema checks of their loader.
- The numbers of beliefs, evaluators and hypotheses beyond their supports, order and integer
  weights; the learned opponent profiles and the catalogue of arena opponents; the bootstrap,
  which is any bound.
- Argument parsing, mail, OAuth, viewer, command line, resource measurement, configuration
  loading and the wiring of the SDK facade: input, output and formats at the edges.

Hashes are injective by assumption.

## Plan

Written in this order, since a wrong answer or a lost effect is worse than a lost call; all of
it is done but the last point.

1. `ProtocolPhases`, `CommandLog`, `PeerProtocol`, `PeerLink`, `LiveSeries`, and the proofs about
   `PeerProtocol`.
2. `ReportLedger`, `Outbox` and its proofs; `CircuitBreaker`, `Gatekeeper`,
   `OrchestratedGateway`, `PeerLifecycle`.
3. `GameDomain` to `PairedGame`: the rules, sealed steps, audit and replay.
4. `LiveBoard` to `LiveGame`: the live game on the board, against the arena's referee.
5. `PeerRecovery`, `MatchNegotiation`, `MatchArtifacts`: what two groups agree on, keep and sign.
6. `Beliefs`, `Brains`, `MindGame`, `DecisionSearch`, `ScentHistory`; `Tournament`,
   `Campaign`.
7. The proofs about `Gatekeeper`, `PeerRecovery`, `MatchNegotiation`, `PeerLifecycle` and
   `LiveSeries`.
8. The proofs about `LiveGame` and its arena, `Campaign`, the store, the referee and the audit of
   `PairedGame`, and `DecisionSearch`.
9. Open: a duplicated greeting in `LiveSeries`, and the cancelled waiter as a run of its own.
