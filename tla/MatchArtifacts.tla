--------------------------- MODULE MatchArtifacts ---------------------------
(***************************************************************************)
(* The official documents of a finished series (services/artifacts): the   *)
(* writer that seals them one after the other, the manifest that links     *)
(* them by digest, and the checks between the manifest and a report        *)
(* (verify_manifest, verify_token_accounting, verify_result_totals,        *)
(* build_report).                                                          *)
(*                                                                         *)
(* The documents come from one honest record of the series, except that    *)
(* the program building them may have got one field of one document wrong, *)
(* and that a file may be damaged.  The process may crash and build them   *)
(* again, with another time stamp.  A digest is collision free, so the     *)
(* digest of a document is the document.                                   *)
(***************************************************************************)
EXTENDS SeriesScoring, SequencesExt

CONSTANTS
  Groups,       \* <<initiating, opponent>>
  Reasons,      \* the terminal reason of each sub-game
  Tokens,       \* tokens spent in each sub-game, by group
  Slips,        \* the fields that may be wrong: <<name, field>>
  NoSlip,
  Wrong,        \* a value nothing is equal to
  MaxCrashes

VARIABLES
  slip,      \* what the program building the documents gets wrong
  stamp,     \* the time stamp of this process's documents
  official,  \* the official directory: the documents by name
  refs,      \* the ArtifactReferences this process holds, in order
  verdict,   \* "none", "accepted", "rejected" or, for a raising write, "raised"
  harmed,    \* history: a file was damaged
  crashes

artifactVars == <<slip, stamp, official, refs, verdict, harmed, crashes>>

Numbers == 1..NumGames
GroupSet == {Groups[1], Groups[2]}
Schedule == BalancedSchedule(Groups[1], Groups[2])

\* artifact_filename: the sub-game number is there for configs and logs only.
Name(kind, n) == <<kind, n>>
Order ==
  <<Name("declaration", 0)>>
    \o [i \in 1..2 * NumGames |->
          Name(IF i % 2 = 1 THEN "config" ELSE "log", (i + 1) \div 2)]
    \o <<Name("result", 0), Name("manifest", 0)>>

-----------------------------------------------------------------------------
(* The documents *)

\* What a slip makes of a value.
Altered(field, v) ==
  CASE field \in {"score", "wins", "ties", "spent"} -> v + 1
    [] field = "number" -> (v % NumGames) + 1
    [] field = "roles" -> [police |-> v.thief, thief |-> v.police]
    [] field = "winner" -> CHOOSE g \in GroupSet : g # v
    [] field = "entries" -> <<1, 3>>
    [] field \in {"scores", "tokens"} ->
         [g \in GroupSet |-> v[CHOOSE h \in GroupSet : h # g]]
    [] field \in {"tie", "seriesTie"} -> ~v
    [] OTHER -> Wrong

Slipped(name, doc) ==
  IF slip # NoSlip /\ slip[1] = name
    THEN [doc EXCEPT ![slip[2]] = Altered(slip[2], @)]
    ELSE doc

Base == [game |-> "game", uid |-> "uid"]
Terms == [config |-> "config", commits |-> "commits"]
With(r, s) == [f \in DOMAIN r \cup DOMAIN s |-> IF f \in DOMAIN s THEN s[f] ELSE r[f]]

SeriesDeclaration ==
  Slipped(Name("declaration", 0),
          With(Base, [config |-> Terms.config, groups |-> GroupSet]))

PlayedConfig(n) ==
  Slipped(Name("config", n),
          With(With(Base, Terms),
               [number |-> n, roles |-> Schedule[n], agreedAt |-> stamp]))

\* finalize_log refuses entries that are not numbered 1, 2, ...
SubGameLog(n) ==
  Slipped(Name("log", n),
          With(With(Base, Terms),
               [number |-> n, roles |-> Schedule[n], journal |-> "journal",
                audit |-> <<"audit", n>>, entries |-> <<1, 2>>]))

Contiguous(entries) == entries = [i \in 1..Len(entries) |-> i]

Score(n, g) ==
  LET points == ScoreTerminal(Reasons[n])
  IN  IF Schedule[n].police = g THEN points.police ELSE points.thief

IsTie(n) == Score(n, Groups[1]) = Score(n, Groups[2])
Winner(n) ==
  IF IsTie(n) THEN "none"
  ELSE CHOOSE g \in GroupSet : \A h \in GroupSet : Score(n, g) >= Score(n, h)

\* The digest of a log is that of the log on file.
SubGameResult(n, logs) ==
  Slipped(Name("sub_game", n),
          [number |-> n, roles |-> Schedule[n], winner |-> Winner(n),
           tie |-> IsTie(n), scores |-> [g \in GroupSet |-> Score(n, g)],
           tokens |-> [g \in GroupSet |-> Tokens[n][g]], config |-> Terms.config,
           logSha |-> logs[n], audit |-> <<"audit", n>>, commits |-> Terms.commits,
           configFile |-> Name("config", n), logFile |-> Name("log", n)])

Total(f(_)) == FoldFunction(LAMBDA x, y : x + y, 0, [n \in Numbers |-> f(n)])

GroupResult(g) ==
  Slipped(Name("group", g),
          [score |-> Total(LAMBDA n : Score(n, g)),
           wins |-> Cardinality({n \in Numbers : Winner(n) = g}),
           ties |-> Cardinality({n \in Numbers : IsTie(n)}),
           spent |-> Total(LAMBDA n : Tokens[n][g])])

FinalResult(declaration, logs) ==
  LET score(g) == Total(LAMBDA n : Score(n, g))
      tied == score(Groups[1]) = score(Groups[2])
  IN  Slipped(Name("result", 0),
        With(Base,
             [subGames |-> [n \in Numbers |-> SubGameResult(n, logs)],
              groups |-> [g \in GroupSet |-> GroupResult(g)],
              seriesTie |-> tied,
              winner |-> IF tied THEN "none"
                         ELSE IF score(Groups[1]) > score(Groups[2])
                                THEN Groups[1] ELSE Groups[2],
              declarationFile |-> Name("declaration", 0),
              declarationSha |-> declaration,
              auditManifest |-> "audits", signers |-> GroupSet,
              agreed |-> "result"]))

-----------------------------------------------------------------------------
(* Verification *)

Of(manifest, kind) == SelectSeq(manifest.entries, LAMBDA r : r.kind = kind)
NumbersOf(rs) == {rs[i].number : i \in DOMAIN rs}

ValidManifest(manifest) == IsInjective([i \in DOMAIN manifest.entries |->
                                          manifest.entries[i].filename])

VerifyReference(manifest, r, doc) ==
  /\ doc.game = manifest.game /\ doc.uid = manifest.uid
  /\ r.number # 0 => doc.number = r.number
  /\ r.number # 0 => doc.config = r.config /\ r.config = manifest.config
  /\ r.kind = "log" => doc.journal = r.journal /\ doc.audit = r.audit

\* Mutant: the roles of the log are taken on trust.
VerifySubGameLoosely(manifest, files, s) ==
  LET config == Name("config", s.number)
      log == Name("log", s.number)
  IN  /\ s.number \in NumbersOf(Of(manifest, "config"))
      /\ files[config].commits = manifest.commits
      /\ files[log].commits = manifest.commits
      /\ files[log].journal = manifest.journal
      /\ s.logSha = files[log] /\ s.audit = files[log].audit
      /\ s.configFile = config /\ s.logFile = log
      /\ s.config = files[config].config
      /\ s.roles = files[config].roles /\ s.commits = files[config].commits

VerifySubGame(manifest, files, s) ==
  LET config == Name("config", s.number)
      log == Name("log", s.number)
  IN  /\ s.number \in NumbersOf(Of(manifest, "config"))
      /\ files[config].commits = manifest.commits
      /\ files[log].commits = manifest.commits
      /\ files[log].journal = manifest.journal
      /\ s.logSha = files[log] /\ s.audit = files[log].audit
      /\ s.configFile = config /\ s.logFile = log
      /\ s.config = files[config].config
      /\ s.roles = files[config].roles /\ s.commits = files[config].commits
      /\ s.roles = files[log].roles

VerifyGraph(manifest, files) ==
  LET declaration == Of(manifest, "declaration")[1]
      result == files[Of(manifest, "result")[1].filename]
  IN  /\ files[declaration.filename].config = manifest.config
      /\ result.declarationFile = declaration.filename
      /\ result.declarationSha = declaration.sha
      /\ result.auditManifest = manifest.auditManifest
      /\ result.subGames # Wrong
      /\ \A n \in DOMAIN result.subGames :
           VerifySubGame(manifest, files, result.subGames[n])

VerifyManifest(manifest, files) ==
  /\ Len(Of(manifest, "declaration")) = 1 /\ Len(Of(manifest, "result")) = 1
  /\ Len(Of(manifest, "config")) = NumGames /\ Len(Of(manifest, "log")) = NumGames
  /\ NumbersOf(Of(manifest, "config")) = NumbersOf(Of(manifest, "log"))
  /\ \A i \in DOMAIN manifest.entries :
       LET r == manifest.entries[i]
       IN  /\ r.filename \in DOMAIN files /\ files[r.filename] = r.sha
           /\ VerifyReference(manifest, r, files[r.filename])
  /\ VerifyGraph(manifest, files)

VerifyTokenAccounting(result) ==
  \A g \in GroupSet :
    result.groups[g].spent = Total(LAMBDA n : result.subGames[n].tokens[g])

VerifyResultTotals(result) ==
  LET games == result.subGames
      score(g) == Total(LAMBDA n : games[n].scores[g])
      tied == score(Groups[1]) = score(Groups[2])
  IN  /\ {games[n].number : n \in Numbers} = Numbers
      /\ \A n \in Numbers : games[n].tie \/ games[n].winner \in GroupSet
      /\ \A g \in GroupSet :
           /\ result.groups[g].score = score(g)
           /\ result.groups[g].wins =
                Cardinality({n \in Numbers : ~games[n].tie /\ games[n].winner = g})
           /\ result.groups[g].ties = Cardinality({n \in Numbers : games[n].tie})
      /\ result.seriesTie = tied
      /\ result.winner =
           IF tied THEN "none"
           ELSE CHOOSE g \in GroupSet : \A h \in GroupSet : score(g) >= score(h)

\* The agreed digest covers the result, its own field left out.
BuildReport(result) ==
  /\ VerifyTokenAccounting(result) /\ VerifyResultTotals(result)
  /\ result.agreed = "result"
  /\ result.signers = DOMAIN result.groups

PrepareReport(manifest, files) ==
  /\ ValidManifest(manifest)
  /\ VerifyManifest(manifest, files)
  /\ BuildReport(files[Of(manifest, "result")[1].filename])

-----------------------------------------------------------------------------
(* Writing, crashing and reporting *)

Held(name) == refs[CHOOSE i \in DOMAIN refs : refs[i].filename = name].sha

Manifest ==
  With(With(Base, Terms),
       [journal |-> "journal", auditManifest |-> "audits", entries |-> refs])

Document(name) ==
  CASE name[1] = "declaration" -> SeriesDeclaration
    [] name[1] = "config" -> PlayedConfig(name[2])
    [] name[1] = "log" -> SubGameLog(name[2])
    [] name[1] = "result" ->
         FinalResult(Held(Name("declaration", 0)),
                     [n \in Numbers |-> Held(Name("log", n))])
    [] OTHER -> Manifest

Reference(name, doc) ==
  [filename |-> name, kind |-> name[1], number |-> name[2], sha |-> doc,
   config |-> Terms.config, journal |-> "journal", audit |-> <<"audit", name[2]>>]

ArtifactInit ==
  /\ slip \in Slips \cup {NoSlip}
  /\ stamp = 1
  /\ official = <<>>
  /\ refs = <<>>
  /\ verdict = "none"
  /\ harmed = FALSE
  /\ crashes = 0

NextName == Order[Len(refs) + 1]

Filed(name, doc) == [n \in DOMAIN official \cup {name} |->
                       IF n = name THEN doc ELSE official[n]]

\* Mutant: an existing file is left alone without a look at it.
WriteUncompared ==
  /\ verdict = "none" /\ Len(refs) < Len(Order)
  /\ LET name == NextName
         doc == Document(name)
     IN  IF name[1] = "log" /\ ~Contiguous(doc.entries)
           THEN verdict' = "raised" /\ UNCHANGED <<official, refs>>
           ELSE /\ official' = IF name \in DOMAIN official THEN official ELSE Filed(name, doc)
                /\ refs' = Append(refs, Reference(name, doc))
                /\ UNCHANGED verdict
  /\ UNCHANGED <<slip, stamp, harmed, crashes>>

(***************************************************************************)
(* ArtifactWriter.write of the next document, its file created in one step *)
(* or, when it is there, compared: an official document is immutable.      *)
(***************************************************************************)
Write ==
  /\ verdict = "none" /\ Len(refs) < Len(Order)
  /\ LET name == NextName
         doc == Document(name)
     IN  IF \/ name[1] = "log" /\ ~Contiguous(doc.entries)
            \/ name \in DOMAIN official /\ official[name] # doc
           THEN verdict' = "raised" /\ UNCHANGED <<official, refs>>
           ELSE /\ official' = Filed(name, doc)
                /\ refs' = Append(refs, Reference(name, doc))
                /\ UNCHANGED verdict
  /\ UNCHANGED <<slip, stamp, harmed, crashes>>

Restart ==
  /\ crashes < MaxCrashes
  /\ verdict \in {"none", "raised"}
  /\ crashes' = crashes + 1
  /\ refs' = <<>>
  /\ stamp' \in 1..2
  /\ verdict' = "none"
  /\ UNCHANGED <<slip, official, harmed>>

Damage ==
  /\ ~harmed
  /\ \E name \in DOMAIN official :
       official' = [official EXCEPT ![name].game = Wrong]
  /\ harmed' = TRUE
  /\ UNCHANGED <<slip, stamp, refs, verdict, crashes>>

Prepare ==
  /\ verdict = "none"
  /\ Name("manifest", 0) \in DOMAIN official
  /\ LET manifest == official[Name("manifest", 0)]
     IN  verdict' = IF PrepareReport(manifest, official) THEN "accepted" ELSE "rejected"
  /\ UNCHANGED <<slip, stamp, official, refs, harmed, crashes>>

ArtifactNext == Write \/ Restart \/ Damage \/ Prepare

-----------------------------------------------------------------------------
(***************************************************************************)
(* A document that contradicts the record of the series in one field, or   *)
(* a damaged file, is found before a report is built (linkage.py,          *)
(* accounting.py, report.py:46-58).                                        *)
(***************************************************************************)
FlawsAreFound == [][verdict' = "accepted" /\ verdict # verdict' =>
                      slip = NoSlip /\ ~harmed]_artifactVars

\* The time stamps of the documents on file.
StampsOnFile ==
  {official[name].agreedAt : name \in {m \in DOMAIN official : m[1] = "config"}}

(***************************************************************************)
(* Honest, undamaged documents can always be completed and reported,       *)
(* however often the process writing them crashed.  What is on file is the *)
(* beginning of one set, written under one time stamp: a process that      *)
(* builds its documents with this stamp finds every one of them equal,     *)
(* never raises and ends with an accepted report.  Only a process with     *)
(* another stamp raises, over the first config on file: an official        *)
(* document is immutable (writer.py:83, linkage.py:33).                    *)
(***************************************************************************)
HonestSeriesIsReported ==
  slip = NoSlip /\ ~harmed =>
    /\ verdict # "rejected"
    /\ verdict = "raised" => stamp \notin StampsOnFile /\ StampsOnFile # {}
    /\ Cardinality(StampsOnFile) <= 1
    /\ \E k \in 0..Len(Order) : DOMAIN official = {Order[i] : i \in 1..k}
    /\ stamp \in StampsOnFile =>
         \A i \in DOMAIN refs : official[refs[i].filename] = refs[i].sha
=============================================================================
