---------------------------- MODULE Evidence_proofs ----------------------------
(***************************************************************************)
(* Theorems about evaluation runs, for any number of plugins, findings and *)
(* runs, and about the lock that keeps two runs apart (last section).      *)
(***************************************************************************)
EXTENDS Evidence, RunLock, FindingRows_proofs, SequenceTheorems, TLAPS

-----------------------------------------------------------------------------
(* The run in progress.  While plugins are being executed, what the run    *)
(* says of a plugin so far, in plugin_summaries, and what it has written   *)
(* for that plugin agree; this is what makes the roster true when the run  *)
(* completes.                                                              *)

RunsForm ==
  /\ runs \in Seq(RunRow)
  /\ run \in RunVars
  /\ run.phase # "idle" => Len(runs) > 0

\* Each plugin has its turn at most once, and only if its file was loaded.
TurnsTaken ==
  /\ run.phase # "plugins" => run.pending = {}
  /\ \A p \in Plugins :
       /\ p \in run.pending \/ run.roster[p] # None => run.file[p] = "loaded"
       /\ p \in run.pending => run.roster[p] = None /\ TracesOf(p, RunId) = {}

\* Only a plugin recorded by the run has rows opened by it; one that counts
\* as not looked at has no trace of it at all; and the open rows of a
\* recorded one are what it is listed with.
WrittenSoFar ==
  \A p \in Plugins :
    /\ run.roster[p] \notin {"pass", "fail"} => \A f \in RowsOf(facts, p) : f.from # RunId
    /\ run.filtered \/ run.roster[p] \in {"error", "not_assessed"} \/ run.file[p] = "broken"
         => TracesOf(p, RunId) = {}
    /\ ~run.filtered /\ run.roster[p] = "pass" => OpenRows(RowsOf(facts, p)) = {}
    /\ ~run.filtered /\ run.roster[p] = "fail" => OpenRows(RowsOf(facts, p)) # {}

RunInProgress ==
  run.phase # "idle" =>
    /\ runs[RunId] = [status |-> "running", filtered |-> run.filtered, roster |-> NoRoster]
    /\ TurnsTaken
    /\ WrittenSoFar

EvidenceInv ==
  /\ WellFormed(facts, Len(runs))
  /\ RunsForm
  /\ RunInProgress
  /\ UnassessedKept
  /\ RosterTrue

LEMMA InitEvidence == Init => EvidenceInv
<1> SUFFICES ASSUME Init PROVE EvidenceInv
  OBVIOUS
<1>1. facts = {} /\ runs = <<>> /\ run = Idle /\ Len(runs) = 0 /\ DOMAIN runs = {}
  BY DEF Init
<1>2. Idle \in RunVars /\ Idle.phase = "idle"
  BY DEF Idle, RunVars, NoRoster, Result, FileState
<1>3. runs \in Seq(RunRow)
  BY <1>1
<1>4. WellFormed(facts, Len(runs))
  BY <1>1 DEF WellFormed, OneVersion
<1>5. UnassessedKept /\ RosterTrue
  BY <1>1 DEF UnassessedKept, RosterTrue, CompleteRuns
<1> QED
  BY <1>1, <1>2, <1>3, <1>4, <1>5 DEF EvidenceInv, RunsForm, RunInProgress

LEMMA InvImpliesTypeOK == EvidenceInv => TypeOK
  BY DEF EvidenceInv, WellFormed, RunsForm, TypeOK

\* Writing to the table leaves what was known of the other runs true.
LEMMA WritingKeepsHistory ==
  ASSUME EvidenceInv, run.phase # "idle", runs' = runs,
         WellFormed(facts', RunId), WrittenBy(RunId, facts, facts'),
         run.filtered => facts' = facts
  PROVE  UnassessedKept' /\ RosterTrue' /\ ReplayStep
<1>1. /\ RunId \in Nat \ {0} /\ DOMAIN runs = 1..RunId
      /\ runs[RunId].status = "running"
      /\ runs[RunId].filtered = run.filtered
      /\ \A p \in Plugins : runs[RunId].roster[p] = None
  <2>1. runs \in Seq(RunRow) /\ RunId > 0
    BY DEF EvidenceInv, RunsForm, RunId
  <2>2. runs[RunId] = [status |-> "running", filtered |-> run.filtered, roster |-> NoRoster]
    BY DEF EvidenceInv, RunInProgress
  <2> QED
    BY <2>1, <2>2, LenProperties DEF RunId, NoRoster
<1>2. WellFormed(facts, RunId)
  BY DEF EvidenceInv, RunId
<1>3. \A s \in 1..RunId : s # RunId =>
        /\ {<<f.plugin, f.object, f.content, f.from>> : f \in OpenAt(facts', s)} =
             {<<f.plugin, f.object, f.content, f.from>> : f \in OpenAt(facts, s)}
        /\ \A p : RowsOf(OpenAt(facts', s), p) = {} <=> RowsOf(OpenAt(facts, s), p) = {}
        /\ \A p : {f \in RowsOf(facts, p) : s \in {f.from, f.to}} = {} =>
                    {f \in RowsOf(facts', p) : s \in {f.from, f.to}} = {}
  <2> TAKE s \in 1..RunId
  <2> HAVE s # RunId
  <2>1. s \in Nat /\ s < RunId
    BY <1>1
  <2> QED
    BY <1>1, <1>2, <2>1, EarlierRunsKept
<1>4. UnassessedKept'
  <2> SUFFICES ASSUME NEW s \in 1..RunId, NEW p \in Plugins,
                      runs[s].filtered \/ runs[s].roster[p] \in {"error", "not_assessed"}
               PROVE  {f \in RowsOf(facts', p) : s \in {f.from, f.to}} = {}
    BY <1>1 DEF UnassessedKept, TracesOf
  <2>1. {f \in RowsOf(facts, p) : s \in {f.from, f.to}} = {}
    BY <1>1 DEF EvidenceInv, UnassessedKept, TracesOf
  <2>2. CASE s # RunId
    BY <1>3, <2>1, <2>2
  <2>3. CASE s = RunId
    <3>1. run.filtered
      BY <1>1, <2>3, ResultsAssumption
    <3> QED
      BY <2>1, <3>1
  <2> QED
    BY <2>2, <2>3
<1>5. CompleteRuns \subseteq (1..RunId) \ {RunId}
  BY <1>1 DEF CompleteRuns
<1>6. RosterTrue'
  <2>1. CompleteRuns' = CompleteRuns
    BY DEF CompleteRuns
  <2> QED
    BY <1>3, <1>5, <2>1 DEF EvidenceInv, RosterTrue
<1>7. ReplayStep
  BY <1>3, <1>5 DEF ReplayStep
<1> QED
  BY <1>4, <1>6, <1>7

LEMMA StartKeeps == EvidenceInv /\ Start => EvidenceInv' /\ ReplayStep
<1> SUFFICES ASSUME EvidenceInv, Start PROVE EvidenceInv' /\ ReplayStep
  OBVIOUS
<1>1. PICK file \in [Plugins -> FileState], filtered \in BOOLEAN, selected \in SUBSET Plugins :
        /\ \A p \in selected : file[p] = "loaded"
        /\ run' = [Idle EXCEPT !.phase = "plugins", !.filtered = filtered, !.file = file,
                               !.pending = selected, !.before = facts]
        /\ runs' = Append(runs, [status |-> "running", filtered |-> filtered,
                                 roster |-> NoRoster])
        /\ facts' = facts
  <2>1. PICK file \in [Plugins -> FileState], filtered \in BOOLEAN :
          \E selected \in IF filtered THEN SUBSET {p \in Plugins : file[p] = "loaded"}
                          ELSE {{p \in Plugins : file[p] = "loaded"}} :
            /\ run' = [Idle EXCEPT !.phase = "plugins", !.filtered = filtered, !.file = file,
                                   !.pending = selected, !.before = facts]
            /\ runs' = Append(runs, [status |-> "running", filtered |-> filtered,
                                     roster |-> NoRoster])
    BY DEF Start
  <2>2. \A selected \in IF filtered THEN SUBSET {p \in Plugins : file[p] = "loaded"}
                        ELSE {{p \in Plugins : file[p] = "loaded"}} :
          selected \in SUBSET Plugins /\ \A p \in selected : file[p] = "loaded"
    OBVIOUS
  <2>3. facts' = facts
    BY DEF Start
  <2> QED
    BY <2>1, <2>2, <2>3
<1> DEFINE row == [status |-> "running", filtered |-> filtered, roster |-> NoRoster]
<1>2. row \in RunRow
  BY DEF RunRow, NoRoster, Result
<1>3. /\ runs \in Seq(RunRow)
      /\ runs' \in Seq(RunRow)
      /\ Len(runs') = Len(runs) + 1
      /\ \A s \in 1..Len(runs) : runs'[s] = runs[s]
      /\ runs'[Len(runs) + 1] = row
  BY <1>1, <1>2, AppendProperties DEF EvidenceInv, RunsForm
<1>4. /\ Len(runs) \in Nat
      /\ DOMAIN runs = 1..Len(runs)
      /\ DOMAIN runs' = 1..(Len(runs) + 1)
  BY <1>3, LenProperties
<1>5. \A f \in facts : /\ f.from \in Nat /\ f.from <= Len(runs)
                       /\ f.to # None => f.to \in Nat /\ f.to <= Len(runs)
  BY DEF EvidenceInv, WellFormed, Row
<1>6. \A p : {f \in RowsOf(facts, p) : Len(runs) + 1 \in {f.from, f.to}} = {}
  BY <1>4, <1>5, RowValuesAssumption DEF RowsOf
<1>7. /\ run' \in RunVars
      /\ run'.phase = "plugins" /\ run'.pending = selected
      /\ run'.file = file /\ run'.filtered = filtered
      /\ \A p \in Plugins : run'.roster[p] = None
  <2>1. facts \in SUBSET Row
    BY DEF EvidenceInv, WellFormed
  <2>2. NoRoster \in [Plugins -> Result] /\ \A p \in Plugins : NoRoster[p] = None
    BY DEF NoRoster, Result
  <2> QED
    BY <1>1, <2>1, <2>2 DEF RunVars, Idle
<1>8. WellFormed(facts, Len(runs))' /\ RunsForm'
  <2>1. WellFormed(facts, Len(runs) + 1)
    BY <1>4, <1>5 DEF EvidenceInv, WellFormed
  <2> QED
    BY <1>1, <1>3, <1>4, <1>7, <2>1 DEF RunsForm
<1>9. RunInProgress'
  <2>1. RunId' = Len(runs) + 1
    BY <1>3 DEF RunId
  <2>2. TurnsTaken'
    BY <1>1, <1>6, <1>7, <2>1 DEF TurnsTaken, TracesOf
  <2>3. \A p : \A f \in RowsOf(facts, p) : f.from # Len(runs) + 1
    BY <1>4, <1>5 DEF RowsOf
  <2>4. WrittenSoFar'
    BY <1>1, <1>6, <1>7, <2>1, <2>3, ResultsAssumption DEF WrittenSoFar, TracesOf
  <2> QED
    BY <1>3, <1>7, <2>1, <2>2, <2>4 DEF RunInProgress
<1>10. UnassessedKept'
  <2> SUFFICES ASSUME NEW s \in 1..(Len(runs) + 1), NEW p \in Plugins,
                      runs'[s].filtered \/ runs'[s].roster[p] \in {"error", "not_assessed"}
               PROVE  {f \in RowsOf(facts, p) : s \in {f.from, f.to}} = {}
    BY <1>1, <1>4 DEF UnassessedKept, TracesOf
  <2>1. CASE s = Len(runs) + 1
    BY <1>6, <2>1
  <2>2. CASE s # Len(runs) + 1
    <3>1. s \in DOMAIN runs /\ runs'[s] = runs[s]
      BY <1>3, <1>4, <2>2
    <3> QED
      BY <1>1, <3>1 DEF EvidenceInv, UnassessedKept, TracesOf
  <2> QED
    BY <2>1, <2>2
<1>11. CompleteRuns' = CompleteRuns /\ \A s \in CompleteRuns : runs'[s] = runs[s]
  BY <1>3, <1>4 DEF CompleteRuns
<1>12. RosterTrue'
  BY <1>1, <1>11 DEF EvidenceInv, RosterTrue
<1>13. ReplayStep
  BY <1>1 DEF ReplayStep
<1> QED
  BY <1>8, <1>9, <1>10, <1>12, <1>13 DEF EvidenceInv

LEMMA TurnTaken ==
  ASSUME EvidenceInv, NEW p \in Plugins, NEW result \in Result, Turn(p, result)
  PROVE  /\ RunsForm' /\ runs' = runs /\ RunId' = RunId /\ RunId \in Nat \ {0}
         /\ run.phase = "plugins" /\ run'.phase = "plugins"
         /\ p \in run.pending /\ run'.pending = run.pending \ {p}
         /\ run.roster[p] = None /\ run'.roster[p] = result
         /\ \A q \in Plugins \ {p} : run'.roster[q] = run.roster[q]
         /\ run'.file = run.file /\ run'.filtered = run.filtered
         /\ run'.before = run.before
<1>1. /\ run.phase = "plugins" /\ p \in run.pending /\ runs' = runs
      /\ run' = [run EXCEPT !.pending = @ \ {p}, !.roster[p] = result]
  BY DEF Turn
<1>2. run \in RunVars /\ runs \in Seq(RunRow) /\ Len(runs) > 0
  BY <1>1 DEF EvidenceInv, RunsForm
<1>3. run.roster[p] = None
  BY <1>1 DEF EvidenceInv, RunInProgress, TurnsTaken
<1>4. /\ run' \in RunVars
      /\ run'.phase = "plugins"
      /\ run'.pending = run.pending \ {p}
      /\ run'.roster[p] = result
      /\ \A q \in Plugins \ {p} : run'.roster[q] = run.roster[q]
      /\ run'.file = run.file /\ run'.filtered = run.filtered
      /\ run'.before = run.before
  BY <1>1, <1>2 DEF RunVars
<1>5. RunId' = RunId /\ RunId \in Nat \ {0}
  BY <1>1, <1>2, LenProperties DEF RunId
<1> QED
  BY <1>1, <1>2, <1>3, <1>4, <1>5 DEF RunsForm

\* A plugin that is not recorded leaves the table as it was.
LEMMA TurnWithoutRecording ==
  ASSUME EvidenceInv, NEW p \in Plugins, PluginErrors(p) \/ NotAssessed(p)
  PROVE  EvidenceInv' /\ ReplayStep
<1>1. PICK result \in {"error", "not_assessed"} : Turn(p, result)
  BY DEF PluginErrors, NotAssessed
<1>2. facts' = facts
  BY DEF PluginErrors, NotAssessed
<1>3. /\ RunsForm' /\ runs' = runs /\ RunId' = RunId /\ RunId \in Nat \ {0}
      /\ run.phase = "plugins" /\ run'.phase = "plugins"
      /\ p \in run.pending /\ run'.pending = run.pending \ {p}
      /\ run.roster[p] = None /\ run'.roster[p] = result
      /\ \A q \in Plugins \ {p} : run'.roster[q] = run.roster[q]
      /\ run'.file = run.file /\ run'.filtered = run.filtered
  BY <1>1, TurnTaken DEF Result
<1>4. /\ runs[RunId] = [status |-> "running", filtered |-> run.filtered, roster |-> NoRoster]
      /\ TurnsTaken /\ WrittenSoFar
  BY <1>3 DEF EvidenceInv, RunInProgress
<1>5. TurnsTaken'
  BY <1>2, <1>3, <1>4, ResultsAssumption DEF TurnsTaken, TracesOf
<1>6. WrittenSoFar'
  <2> SUFFICES ASSUME NEW q \in Plugins
               PROVE  /\ run'.roster[q] \notin {"pass", "fail"} =>
                           \A f \in RowsOf(facts, q) : f.from # RunId
                      /\ run.filtered \/ run'.roster[q] \in {"error", "not_assessed"}
                           \/ run.file[q] = "broken"
                           => TracesOf(q, RunId) = {}
                      /\ ~run.filtered /\ run'.roster[q] = "pass" =>
                           OpenRows(RowsOf(facts, q)) = {}
                      /\ ~run.filtered /\ run'.roster[q] = "fail" =>
                           OpenRows(RowsOf(facts, q)) # {}
    BY <1>2, <1>3 DEF WrittenSoFar, TracesOf
  <2>1. CASE q = p
    BY <1>3, <1>4, <2>1, ResultsAssumption DEF TurnsTaken, WrittenSoFar
  <2>2. CASE q # p
    BY <1>3, <1>4, <2>2 DEF WrittenSoFar
  <2> QED
    BY <2>1, <2>2
<1>7. RunInProgress'
  BY <1>3, <1>4, <1>5, <1>6 DEF RunInProgress
<1>8. (WellFormed(facts, Len(runs)) /\ UnassessedKept /\ RosterTrue)'
  BY <1>2, <1>3 DEF EvidenceInv, UnassessedKept, RosterTrue, TracesOf, CompleteRuns
<1>9. ReplayStep
  BY <1>2 DEF ReplayStep
<1> QED
  BY <1>3, <1>7, <1>8, <1>9 DEF EvidenceInv

LEMMA TurnWithRecording ==
  ASSUME EvidenceInv, NEW p \in Plugins, Record(p)
  PROVE  EvidenceInv' /\ ReplayStep
<1>1. PICK found \in Found :
        /\ Turn(p, IF found = Nothing THEN "pass" ELSE "fail")
        /\ facts' = IF run.filtered THEN facts ELSE Synced(facts, p, found, RunId)
  BY DEF Record
<1> DEFINE result == IF found = Nothing THEN "pass" ELSE "fail"
<1>2. /\ RunsForm' /\ runs' = runs /\ RunId' = RunId /\ RunId \in Nat \ {0}
      /\ run.phase = "plugins" /\ run'.phase = "plugins"
      /\ p \in run.pending /\ run'.pending = run.pending \ {p}
      /\ run.roster[p] = None /\ run'.roster[p] = result
      /\ \A q \in Plugins \ {p} : run'.roster[q] = run.roster[q]
      /\ run'.file = run.file /\ run'.filtered = run.filtered
  <2>1. result \in Result
    BY DEF Result
  <2> QED
    BY <1>1, <2>1, TurnTaken
<1>3. /\ runs[RunId] = [status |-> "running", filtered |-> run.filtered, roster |-> NoRoster]
      /\ TurnsTaken /\ WrittenSoFar
  BY <1>2 DEF EvidenceInv, RunInProgress
<1>4. WellFormed(facts, RunId)
  BY DEF EvidenceInv, RunId
<1>5. run.file[p] = "loaded" /\ TracesOf(p, RunId) = {}
  BY <1>2, <1>3 DEF TurnsTaken
<1>6. /\ WellFormed(facts', RunId) /\ WrittenBy(RunId, facts, facts')
      /\ \A q \in Plugins \ {p} : RowsOf(facts', q) = RowsOf(facts, q)
      /\ ~run.filtered => (found = Nothing <=> OpenRows(RowsOf(facts', p)) = {})
  <2>1. CASE run.filtered
    BY <1>1, <1>4, <2>1 DEF WrittenBy
  <2>2. CASE ~run.filtered
    <3>1. \A f \in RowsOf(facts, p) : f.from # RunId
      BY <1>5 DEF TracesOf
    <3>2. facts' = Synced(facts, p, found, RunId)
      BY <1>1, <2>2
    <3> QED
      BY <1>2, <1>4, <3>1, <3>2, Recording
  <2> QED
    BY <2>1, <2>2
<1>7. UnassessedKept' /\ RosterTrue' /\ ReplayStep
  <2>1. run.filtered => facts' = facts
    BY <1>1
  <2> QED
    BY <1>2, <1>6, <2>1, WritingKeepsHistory
<1>8. TurnsTaken'
  BY <1>2, <1>3, <1>6 DEF TurnsTaken, TracesOf
<1>9. WrittenSoFar'
  <2> SUFFICES ASSUME NEW q \in Plugins
               PROVE  /\ run'.roster[q] \notin {"pass", "fail"} =>
                           \A f \in RowsOf(facts', q) : f.from # RunId
                      /\ run.filtered \/ run'.roster[q] \in {"error", "not_assessed"}
                           \/ run.file[q] = "broken"
                           => {f \in RowsOf(facts', q) : RunId \in {f.from, f.to}} = {}
                      /\ ~run.filtered /\ run'.roster[q] = "pass" =>
                           OpenRows(RowsOf(facts', q)) = {}
                      /\ ~run.filtered /\ run'.roster[q] = "fail" =>
                           OpenRows(RowsOf(facts', q)) # {}
    BY <1>2 DEF WrittenSoFar, TracesOf
  <2>1. CASE q = p
    <3>1. run.filtered => {f \in RowsOf(facts', p) : RunId \in {f.from, f.to}} = {}
      BY <1>1, <1>5 DEF TracesOf
    <3> QED
      BY <1>2, <1>5, <1>6, <2>1, <3>1
  <2>2. CASE q # p
    BY <1>2, <1>3, <1>6, <2>2 DEF WrittenSoFar, TracesOf
  <2> QED
    BY <2>1, <2>2
<1>10. RunInProgress'
  BY <1>2, <1>3, <1>8, <1>9 DEF RunInProgress
<1>11. WellFormed(facts, Len(runs))'
  BY <1>2, <1>6 DEF RunId
<1> QED
  BY <1>2, <1>7, <1>10, <1>11 DEF EvidenceInv

\* Closing at the end of the run the findings of plugins it does not list.
LEMMA ClosingKeeps ==
  ASSUME EvidenceInv, run.phase \in {"plugins", "retired"}, run.pending = {},
         NEW ps \in SUBSET Plugins,
         \A p \in ps : run.roster[p] = None /\ run.file[p] # "broken",
         NEW why \in {"remediated", "retired"}, NEW closes \in BOOLEAN, closes => ~run.filtered,
         facts' = IF closes THEN ClosedFor(facts, ps, RunId, why) ELSE facts,
         NEW phase \in {"retired", "stale"}, run' = [run EXCEPT !.phase = phase], runs' = runs
  PROVE  EvidenceInv' /\ ReplayStep
<1>1. run \in RunVars /\ runs \in Seq(RunRow) /\ Len(runs) > 0
  BY DEF EvidenceInv, RunsForm
<1>2. /\ run' \in RunVars /\ run'.phase = phase
      /\ run'.pending = {} /\ run'.roster = run.roster
      /\ run'.file = run.file /\ run'.filtered = run.filtered
  BY <1>1 DEF RunVars
<1>3. RunId' = RunId /\ RunId \in Nat \ {0}
  BY <1>1, LenProperties DEF RunId
<1>4. /\ runs[RunId] = [status |-> "running", filtered |-> run.filtered, roster |-> NoRoster]
      /\ TurnsTaken /\ WrittenSoFar
  BY DEF EvidenceInv, RunInProgress
<1>5. WellFormed(facts, RunId)
  BY DEF EvidenceInv, RunId
<1>6. /\ WellFormed(facts', RunId) /\ WrittenBy(RunId, facts, facts')
      /\ \A q \in Plugins \ ps : RowsOf(facts', q) = RowsOf(facts, q)
      /\ \A f \in facts' : \E g \in facts : SameVersion(f, g)
  <2>1. CASE ~closes
    BY <1>5, <2>1 DEF WrittenBy, SameVersion
  <2>2. CASE closes
    <3>1. \A p \in ps : \A f \in RowsOf(facts, p) : f.from # RunId
      BY <1>4, ResultsAssumption DEF WrittenSoFar
    <3>2. facts' = ClosedFor(facts, ps, RunId, why)
      BY <2>2
    <3> QED
      BY <1>3, <1>5, <3>1, <3>2, Closing
  <2> QED
    BY <2>1, <2>2
<1>7. UnassessedKept' /\ RosterTrue' /\ ReplayStep
  BY <1>6, WritingKeepsHistory
<1>8. TurnsTaken'
  BY <1>2, <1>4 DEF TurnsTaken
<1>9. WrittenSoFar'
  <2> SUFFICES ASSUME NEW q \in Plugins
               PROVE  /\ run.roster[q] \notin {"pass", "fail"} =>
                           \A f \in RowsOf(facts', q) : f.from # RunId
                      /\ run.filtered \/ run.roster[q] \in {"error", "not_assessed"}
                           \/ run.file[q] = "broken"
                           => {f \in RowsOf(facts', q) : RunId \in {f.from, f.to}} = {}
                      /\ ~run.filtered /\ run.roster[q] = "pass" =>
                           OpenRows(RowsOf(facts', q)) = {}
                      /\ ~run.filtered /\ run.roster[q] = "fail" =>
                           OpenRows(RowsOf(facts', q)) # {}
    BY <1>2, <1>3 DEF WrittenSoFar, TracesOf
  <2>1. CASE q \notin ps
    BY <1>4, <1>6, <2>1 DEF WrittenSoFar, TracesOf
  <2>2. CASE q \in ps
    <3>1. run.roster[q] = None /\ run.file[q] # "broken"
      BY <2>2
    <3>2. \A f \in RowsOf(facts, q) : f.from # RunId
      BY <1>4, <3>1, ResultsAssumption DEF WrittenSoFar
    <3>3. \A f \in RowsOf(facts', q) : f.from # RunId
      BY <1>6, <3>2 DEF RowsOf, SameVersion
    <3>4. run.filtered => {f \in RowsOf(facts', q) : RunId \in {f.from, f.to}} = {}
      BY <1>4 DEF WrittenSoFar, TracesOf
    <3> QED
      BY <3>1, <3>3, <3>4, ResultsAssumption
  <2> QED
    BY <2>1, <2>2
<1>10. RunInProgress'
  BY <1>3, <1>2, <1>4, <1>8, <1>9 DEF RunInProgress
<1>11. WellFormed(facts, Len(runs))' /\ RunsForm'
  BY <1>1, <1>2, <1>6 DEF RunId, RunsForm
<1> QED
  BY <1>7, <1>10, <1>11 DEF EvidenceInv

\* The row a run leaves.
RosterToLeave ==
  IF run.filtered THEN NoRoster
  ELSE [p \in Plugins |-> IF run.file[p] = "broken" THEN "error" ELSE run.roster[p]]
RowToLeave(status, roster) == [status |-> status, filtered |-> run.filtered, roster |-> roster]

LEMMA CompletedRow ==
  ASSUME EvidenceInv, Complete
  PROVE  /\ runs' = [runs EXCEPT ![RunId] = RowToLeave("complete", RosterToLeave)]
         /\ RowToLeave("complete", RosterToLeave) \in RunRow
<1> DEFINE row == RowToLeave("complete", RosterToLeave)
<1>1. run \in RunVars /\ runs \in Seq(RunRow) /\ Len(runs) > 0
  BY DEF EvidenceInv, RunsForm, Complete
<1>2. runs[RunId] = [status |-> "running", filtered |-> run.filtered, roster |-> NoRoster]
  BY DEF EvidenceInv, RunInProgress, Complete
<1>3. RunId \in DOMAIN runs
  BY <1>1, LenProperties DEF RunId
<1>4. runs' = [runs EXCEPT ![RunId] = [runs[RunId] EXCEPT !.status = "complete",
                                                          !.roster = RosterToLeave]]
  BY <1>1, <1>3 DEF Complete, RosterToLeave
<1>5. [runs[RunId] EXCEPT !.status = "complete", !.roster = RosterToLeave] = row
  <2>1. [runs[RunId] EXCEPT !.status = "complete"]
          = [status |-> "complete", filtered |-> run.filtered, roster |-> NoRoster]
    BY <1>2
  <2>2. [[status |-> "complete", filtered |-> run.filtered, roster |-> NoRoster]
           EXCEPT !.roster = RosterToLeave] = row
    BY DEF RowToLeave
  <2> QED
    BY <2>1, <2>2
<1>6. RosterToLeave \in [Plugins -> Result]
  BY <1>1 DEF RosterToLeave, RunVars, NoRoster, Result
<1>7. row \in RunRow
  BY <1>1, <1>6 DEF RunRow, RunVars, RowToLeave
<1> QED
  BY <1>4, <1>5, <1>7

LEMMA AbortedRow ==
  ASSUME EvidenceInv, Abort
  PROVE  \E status \in {"aborted", "running"} :
           /\ runs' = [runs EXCEPT ![RunId] = RowToLeave(status, NoRoster)]
           /\ RowToLeave(status, NoRoster) \in RunRow
<1>1. PICK status \in {"aborted", "running"} : runs' = [runs EXCEPT ![RunId].status = status]
  BY DEF Abort
<1>2. run \in RunVars /\ runs \in Seq(RunRow) /\ Len(runs) > 0
  BY DEF EvidenceInv, RunsForm, Abort
<1>3. runs[RunId] = [status |-> "running", filtered |-> run.filtered, roster |-> NoRoster]
  BY DEF EvidenceInv, RunInProgress, Abort
<1>4. RunId \in DOMAIN runs
  BY <1>2, LenProperties DEF RunId
<1>5. runs' = [runs EXCEPT ![RunId] = [runs[RunId] EXCEPT !.status = status]]
  BY <1>1, <1>2, <1>4
<1>6. [runs[RunId] EXCEPT !.status = status] = RowToLeave(status, NoRoster)
  BY <1>3 DEF RowToLeave
<1>7. RowToLeave(status, NoRoster) \in RunRow
  BY <1>2 DEF RunRow, RunVars, NoRoster, Result, RowToLeave
<1> QED
  BY <1>5, <1>6, <1>7

LEMMA CompleteKeeps == EvidenceInv /\ Complete => EvidenceInv' /\ ReplayStep
<1> SUFFICES ASSUME EvidenceInv, Complete PROVE EvidenceInv' /\ ReplayStep
  OBVIOUS
<1> DEFINE roster == IF run.filtered THEN NoRoster
                     ELSE [p \in Plugins |-> IF run.file[p] = "broken" THEN "error"
                                             ELSE run.roster[p]]
           row == [status |-> "complete", filtered |-> run.filtered, roster |-> roster]
<1>1. run \in RunVars /\ runs \in Seq(RunRow) /\ Len(runs) > 0
  BY DEF EvidenceInv, RunsForm, Complete
<1>2. /\ runs[RunId] = [status |-> "running", filtered |-> run.filtered, roster |-> NoRoster]
      /\ TurnsTaken /\ WrittenSoFar
  BY DEF EvidenceInv, RunInProgress, Complete
<1>3. RunId \in Nat \ {0} /\ DOMAIN runs = 1..RunId /\ RunId = Len(runs)
  BY <1>1, LenProperties DEF RunId
<1>4. runs' = [runs EXCEPT ![RunId] = row]
  BY CompletedRow DEF RowToLeave, RosterToLeave
<1>5. row \in RunRow
  BY CompletedRow DEF RowToLeave, RosterToLeave
<1>6. /\ runs' \in Seq(RunRow) /\ Len(runs') = RunId /\ DOMAIN runs' = 1..RunId
      /\ runs'[RunId] = row
      /\ \A s \in 1..RunId : s # RunId => runs'[s] = runs[s]
  <2> HIDE DEF row
  <2>1. runs' \in Seq(RunRow) /\ Len(runs') = RunId
    BY <1>1, <1>3, <1>4, <1>5, ExceptSeq
  <2>2. DOMAIN runs' = 1..RunId
    BY <2>1, LenProperties
  <2>3. RunId \in DOMAIN runs
    BY <1>3
  <2>4. runs'[RunId] = row /\ \A s \in DOMAIN runs : s # RunId => runs'[s] = runs[s]
    BY <1>4, <2>3
  <2> QED
    BY <1>3, <2>1, <2>2, <2>4
<1>7. facts' = facts /\ run' = Idle /\ Idle.phase = "idle" /\ Idle \in RunVars
  BY DEF Complete, Idle, RunVars, NoRoster, Result, FileState
<1>8. (WellFormed(facts, Len(runs)) /\ RunsForm /\ RunInProgress)'
  BY <1>3, <1>6, <1>7 DEF EvidenceInv, RunsForm, RunInProgress
<1>9. \A p \in Plugins :
        row.filtered \/ row.roster[p] \in {"error", "not_assessed"} => TracesOf(p, RunId) = {}
  BY <1>2 DEF WrittenSoFar
<1>10. UnassessedKept'
  <2> SUFFICES ASSUME NEW s \in 1..RunId, NEW p \in Plugins,
                      runs'[s].filtered \/ runs'[s].roster[p] \in {"error", "not_assessed"}
               PROVE  TracesOf(p, s) = {}
    BY <1>6, <1>7 DEF UnassessedKept, TracesOf
  <2>1. CASE s = RunId
    BY <1>6, <1>9, <2>1
  <2>2. CASE s # RunId
    BY <1>3, <1>6, <2>2 DEF EvidenceInv, UnassessedKept
  <2> QED
    BY <2>1, <2>2
<1>11. \A p : RowsOf(OpenAt(facts, RunId), p) = OpenRows(RowsOf(facts, p))
  <2>1. \A f \in facts : /\ f.from \in Nat /\ f.from <= RunId
                         /\ f.to # None => f.to \in Nat /\ f.to <= RunId
    BY <1>3 DEF EvidenceInv, WellFormed, Row
  <2> QED
    BY <1>3, <2>1 DEF RowsOf, OpenAt, OpenRows
<1>12. \A p \in Plugins :
         /\ row.roster[p] = "pass" => RowsOf(OpenAt(facts, RunId), p) = {}
         /\ row.roster[p] = "fail" => RowsOf(OpenAt(facts, RunId), p) # {}
  BY <1>2, <1>11, ResultsAssumption DEF WrittenSoFar, NoRoster
<1>13. RosterTrue'
  <2> SUFFICES ASSUME NEW s \in 1..RunId, runs'[s].status = "complete", NEW p \in Plugins
               PROVE  /\ runs'[s].roster[p] = "pass" => RowsOf(OpenAt(facts, s), p) = {}
                      /\ runs'[s].roster[p] = "fail" => RowsOf(OpenAt(facts, s), p) # {}
    BY <1>6, <1>7 DEF RosterTrue, CompleteRuns
  <2>1. CASE s = RunId
    BY <1>6, <1>12, <2>1
  <2>2. CASE s # RunId
    BY <1>3, <1>6, <2>2 DEF EvidenceInv, RosterTrue, CompleteRuns
  <2> QED
    BY <2>1, <2>2
<1>14. ReplayStep
  BY <1>7 DEF ReplayStep
<1> QED
  BY <1>8, <1>10, <1>13, <1>14 DEF EvidenceInv

LEMMA AbortKeeps == EvidenceInv /\ Abort => EvidenceInv' /\ ReplayStep
<1> SUFFICES ASSUME EvidenceInv, Abort PROVE EvidenceInv' /\ ReplayStep
  OBVIOUS
<1>1. PICK status \in {"aborted", "running"} :
        /\ runs' = [runs EXCEPT ![RunId] = RowToLeave(status, NoRoster)]
        /\ RowToLeave(status, NoRoster) \in RunRow
  BY AbortedRow
<1> DEFINE row == [status |-> status, filtered |-> run.filtered, roster |-> NoRoster]
<1>2. run \in RunVars /\ runs \in Seq(RunRow) /\ Len(runs) > 0
  BY DEF EvidenceInv, RunsForm, Abort
<1>3. runs[RunId] = [status |-> "running", filtered |-> run.filtered, roster |-> NoRoster]
  BY DEF EvidenceInv, RunInProgress, Abort
<1>4. RunId \in Nat \ {0} /\ DOMAIN runs = 1..RunId /\ RunId = Len(runs)
  BY <1>2, LenProperties DEF RunId
<1>5. runs' = [runs EXCEPT ![RunId] = row]
  BY <1>1 DEF RowToLeave
<1>6. row \in RunRow
  BY <1>1 DEF RowToLeave
<1>7. /\ runs' \in Seq(RunRow) /\ Len(runs') = RunId /\ DOMAIN runs' = 1..RunId
      /\ runs'[RunId] = row
      /\ \A s \in 1..RunId : s # RunId => runs'[s] = runs[s]
  <2> HIDE DEF row
  <2>1. runs' \in Seq(RunRow) /\ Len(runs') = RunId
    BY <1>2, <1>4, <1>5, <1>6, ExceptSeq
  <2>2. DOMAIN runs' = 1..RunId
    BY <2>1, LenProperties
  <2>3. RunId \in DOMAIN runs
    BY <1>4
  <2>4. runs'[RunId] = row /\ \A s \in DOMAIN runs : s # RunId => runs'[s] = runs[s]
    BY <1>5, <2>3
  <2> QED
    BY <1>4, <2>1, <2>2, <2>4
<1>8. facts' = facts /\ run' = Idle /\ Idle.phase = "idle" /\ Idle \in RunVars
  BY DEF Abort, Idle, RunVars, NoRoster, Result, FileState
<1>9. (WellFormed(facts, Len(runs)) /\ RunsForm /\ RunInProgress)'
  BY <1>4, <1>7, <1>8 DEF EvidenceInv, RunsForm, RunInProgress
<1>10. \A s \in 1..RunId : runs'[s].filtered = runs[s].filtered /\ runs'[s].roster = runs[s].roster
  BY <1>3, <1>7
<1>11. UnassessedKept'
  BY <1>4, <1>7, <1>8, <1>10 DEF EvidenceInv, UnassessedKept, TracesOf
<1>12. CompleteRuns' = CompleteRuns
  <2>1. runs'[RunId].status # "complete" /\ runs[RunId].status # "complete"
    BY <1>3, <1>7
  <2> QED
    BY <1>4, <1>7, <2>1 DEF CompleteRuns
<1>13. RosterTrue'
  BY <1>4, <1>8, <1>10, <1>12 DEF EvidenceInv, RosterTrue, CompleteRuns
<1>14. ReplayStep
  BY <1>8 DEF ReplayStep
<1> QED
  BY <1>9, <1>11, <1>13, <1>14 DEF EvidenceInv

\* A retired plugin was not executed.
LEMMA RetiredNotListed ==
  ASSUME EvidenceInv, CloseRetired
  PROVE  \A p \in Retired : run.roster[p] = None /\ run.file[p] # "broken"
<1>1. \A p \in Plugins : run.roster[p] # None => run.file[p] = "loaded"
  BY DEF CloseRetired, EvidenceInv, RunInProgress, TurnsTaken
<1> QED
  BY <1>1 DEF Retired

LEMMA EvidenceStep == EvidenceInv /\ [Next]_vars => EvidenceInv' /\ [ReplayStep]_facts
<1> SUFFICES ASSUME EvidenceInv, [Next]_vars PROVE EvidenceInv' /\ [ReplayStep]_facts
  OBVIOUS
<1>1. CASE Start
  BY <1>1, StartKeeps
<1>2. ASSUME NEW p \in Plugins, PluginErrors(p) \/ NotAssessed(p) \/ Record(p)
      PROVE  EvidenceInv' /\ ReplayStep
  BY <1>2, TurnWithoutRecording, TurnWithRecording
<1>3. CASE CloseRetired
  <2>1. Retired \in SUBSET Plugins
    BY DEF Retired
  <2>2. \A p \in Retired : run.roster[p] = None /\ run.file[p] # "broken"
    BY <1>3, RetiredNotListed
  <2>3. DEFINE closes == ~run.filtered
  <2>4. run.filtered \in BOOLEAN
    BY <1>3 DEF EvidenceInv, RunsForm, RunVars
  <2>5. facts' = IF closes THEN ClosedFor(facts, Retired, RunId, "retired") ELSE facts
    BY <1>3 DEF CloseRetired
  <2> QED
    BY <1>3, <2>1, <2>2, <2>4, <2>5, ClosingKeeps DEF CloseRetired
<1>4. CASE CloseStale
  <2>1. Stale \in SUBSET Plugins /\ \A p \in Stale : run.roster[p] = None /\ run.file[p] # "broken"
    BY DEF Stale
  <2>2. run.pending = {}
    BY <1>4 DEF CloseStale, EvidenceInv, RunInProgress, TurnsTaken
  <2>3. PICK closes \in BOOLEAN :
          /\ closes => ~run.filtered
          /\ facts' = IF closes THEN ClosedFor(facts, Stale, RunId, "remediated") ELSE facts
    BY <1>4 DEF CloseStale
  <2> QED
    BY <1>4, <2>1, <2>2, <2>3, ClosingKeeps DEF CloseStale
<1>5. CASE Complete
  BY <1>5, CompleteKeeps
<1>6. CASE Abort
  BY <1>6, AbortKeeps
<1>7. CASE UNCHANGED vars
  BY <1>7 DEF vars, EvidenceInv, WellFormed, RunsForm, RunInProgress, TurnsTaken, WrittenSoFar,
              UnassessedKept, RosterTrue, TracesOf, CompleteRuns, RunId
<1> QED
  BY <1>1, <1>2, <1>3, <1>4, <1>5, <1>6, <1>7 DEF Next

-----------------------------------------------------------------------------
(* Findings, implemented.  A run is invisible to others until it ends, and *)
(* then every plugin's rows must be what one outcome makes of the rows it  *)
(* had when the run began.                                                 *)

HatFacts == IF run.phase = "idle" THEN facts ELSE run.before
HatRuns == IF run.phase = "idle" THEN runs ELSE SubSeq(runs, 1, Len(runs) - 1)

\* What Findings says of a plugin's result.
ResultOf(out) ==
  CASE out.how = "evaluated" -> Journal!Rollup(out.found)
    [] out.how \in {"error", "not_assessed"} -> out.how
    [] OTHER -> None

\* What the run would list the plugin with if it completed now.
Listed(p) == IF run.file[p] = "broken" THEN "error" ELSE run.roster[p]

\* The rows of a plugin are what this outcome makes of those it had.
HasBecome(p, out) ==
  /\ ResultOf(out) = Listed(p)
  /\ RowsOf(facts, p) = Journal!PluginAfter(RowsOf(run.before, p), p, out, RunId)

Untouched(p) == RowsOf(facts, p) = RowsOf(run.before, p)

OutcomesSoFar ==
  \A p \in Plugins :
    /\ \E out \in Journal!Outcome : HasBecome(p, out)
    /\ run.phase = "plugins" /\ run.roster[p] = None => Untouched(p)

JournalInv ==
  /\ Len(runs) <= MaxRuns
  /\ run.phase # "idle" => IF run.filtered THEN facts = run.before ELSE OutcomesSoFar

\* An outcome of Findings, case by case.
LEMMA PluginAfterCases ==
  ASSUME NEW rows, NEW p, NEW r, NEW out \in Journal!Outcome
  PROVE  /\ out.how = "evaluated" =>
              /\ Journal!PluginAfter(rows, p, out, r) = Synced(rows, p, out.found, r)
              /\ ResultOf(out) = IF out.found = Nothing THEN "pass" ELSE "fail"
         /\ out.how = "retired" =>
              /\ Journal!PluginAfter(rows, p, out, r) = ClosedOwn(rows, p, r, "retired")
              /\ ResultOf(out) = None
         /\ out.how = "removed" =>
              /\ Journal!PluginAfter(rows, p, out, r) = ClosedOwn(rows, p, r, "remediated")
              /\ ResultOf(out) = None
         /\ out.how = "unlisted" =>
              Journal!PluginAfter(rows, p, out, r) = rows /\ ResultOf(out) = None
         /\ out.how \in {"error", "not_assessed"} =>
              Journal!PluginAfter(rows, p, out, r) = rows /\ ResultOf(out) = out.how
         /\ out.how \in {"evaluated", "error", "not_assessed", "unlisted", "retired", "removed"}
<1>1. Journal!Nothing = Nothing
  BY DEF Journal!Nothing, Nothing
<1>2. Journal!Synced(rows, p, out.found, r) = Synced(rows, p, out.found, r)
  BY DEF Journal!Synced, Synced, Journal!OpenRows, OpenRows, Journal!RowsOf, RowsOf,
         Journal!ClosedAt, ClosedAt, Journal!Opened, Opened
<1>3. \A why : Journal!ClosedFor(rows, {p}, r, why) = ClosedOwn(rows, p, r, why)
  BY DEF Journal!ClosedFor, ClosedOwn, ClosedFor, Journal!OpenRows, OpenRows, Journal!ClosedAt, ClosedAt
<1>4. out.how \in {"evaluated", "error", "not_assessed", "unlisted", "retired", "removed"}
  BY DEF Journal!Outcome
<1> QED
  BY <1>1, <1>2, <1>3, <1>4 DEF Journal!PluginAfter, ClosedOwn, ResultOf, Journal!Rollup

\* Outcomes to choose from.
LEMMA OutcomesNamed ==
  /\ \A found \in Found : [how |-> "evaluated", found |-> found] \in Journal!Outcome
  /\ \A how \in {"error", "not_assessed", "unlisted", "retired", "removed"} :
       [how |-> how, found |-> Nothing] \in Journal!Outcome
<1>1. Journal!Found = Found /\ Journal!Nothing = Nothing
  BY DEF Journal!Found, Found, Journal!Nothing, Nothing
<1> QED
  BY <1>1 DEF Journal!Outcome

\* A plugin that was left alone is one that is not listed, errored or not
\* assessed.
LEMMA UntouchedBecomes ==
  ASSUME NEW how \in {"error", "not_assessed", "unlisted"}, NEW before, NEW p, NEW r
  PROVE  \E out \in Journal!Outcome :
           /\ ResultOf(out) = IF how = "unlisted" THEN None ELSE how
           /\ before = Journal!PluginAfter(before, p, out, r)
<1> DEFINE out == [how |-> how, found |-> Nothing]
<1>1. out \in Journal!Outcome /\ out.how = how
  BY OutcomesNamed
<1> HIDE DEF out
<1>2. ResultOf(out) = IF how = "unlisted" THEN None ELSE how
  BY <1>1, PluginAfterCases
<1>3. Journal!PluginAfter(before, p, out, r) = before
  BY <1>1, PluginAfterCases
<1> QED
  BY <1>1, <1>2, <1>3

LEMMA StartHidden ==
  ASSUME EvidenceInv, JournalInv, Start, Len(runs) < MaxRuns
  PROVE  JournalInv' /\ HatFacts' = HatFacts /\ HatRuns' = HatRuns
<1>1. PICK file \in [Plugins -> FileState], filtered \in BOOLEAN :
        /\ \E selected : run' = [Idle EXCEPT !.phase = "plugins", !.filtered = filtered,
                                             !.file = file, !.pending = selected, !.before = facts]
        /\ runs' = Append(runs, [status |-> "running", filtered |-> filtered,
                                 roster |-> NoRoster])
        /\ facts' = facts /\ run.phase = "idle"
  BY DEF Start
<1> DEFINE row == [status |-> "running", filtered |-> filtered, roster |-> NoRoster]
<1>2. run'.phase = "plugins" /\ run'.before = facts /\ run'.file = file /\ run'.roster = NoRoster
  BY <1>1 DEF Idle
<1>3. runs \in Seq(RunRow) /\ row \in RunRow
  BY <1>1 DEF EvidenceInv, RunsForm, RunRow, NoRoster, Result
<1>4. /\ Len(runs) \in Nat /\ runs' \in Seq(RunRow) /\ Len(runs') = Len(runs) + 1
      /\ \A s \in 1..Len(runs) : runs'[s] = runs[s]
  BY <1>1, <1>3, AppendProperties, LenProperties
<1>5. HatRuns' = HatRuns
  <2>1. SubSeq(runs', 1, Len(runs)) = runs
    <3>1. 1 \in 1..(Len(runs') + 1) /\ Len(runs) \in 0..Len(runs')
      BY <1>4
    <3>2. /\ SubSeq(runs', 1, Len(runs)) \in Seq(RunRow)
          /\ Len(SubSeq(runs', 1, Len(runs))) = Len(runs)
          /\ \A s \in 1..Len(runs) : SubSeq(runs', 1, Len(runs))[s] = runs'[s]
      BY <1>4, <3>1, SubSeqProperties
    <3> QED
      BY <1>3, <1>4, <3>2, SeqEqual
  <2> QED
    BY <1>1, <1>2, <1>4, <2>1 DEF HatRuns
<1>6. HatFacts' = HatFacts
  BY <1>1, <1>2 DEF HatFacts
<1>7. OutcomesSoFar'
  <2> SUFFICES ASSUME NEW p \in Plugins
               PROVE  (\E out \in Journal!Outcome : HasBecome(p, out))' /\ Untouched(p)'
    BY DEF OutcomesSoFar
  <2>1. RowsOf(facts', p) = RowsOf(run'.before, p)
    BY <1>1, <1>2
  <2> DEFINE how == IF file[p] = "broken" THEN "error" ELSE "unlisted"
  <2>2. PICK out \in Journal!Outcome :
          /\ ResultOf(out) = IF how = "unlisted" THEN None ELSE how
          /\ RowsOf(run'.before, p) = Journal!PluginAfter(RowsOf(run'.before, p), p, out, RunId')
    BY UntouchedBecomes
  <2>3. Listed(p)' = IF file[p] = "broken" THEN "error" ELSE None
    BY <1>2 DEF Listed, NoRoster
  <2>4. ResultOf(out) = Listed(p)'
    BY <2>2, <2>3
  <2>5. HasBecome(p, out)'
    BY <2>1, <2>2, <2>4 DEF HasBecome
  <2> QED
    BY <2>1, <2>5 DEF Untouched
<1>8. Len(runs') <= MaxRuns
  BY <1>4, MaxRunsAssumption
<1>9. facts' = run'.before
  BY <1>1, <1>2
<1> QED
  BY <1>5, <1>6, <1>7, <1>8, <1>9 DEF JournalInv

\* A step of the run that leaves the rows of the others alone, and gives one
\* plugin an outcome if it writes.
LEMMA TurnHidden ==
  ASSUME EvidenceInv, JournalInv, NEW p \in Plugins, NEW result \in Result, Turn(p, result),
         run.filtered => facts' = facts,
         ~run.filtered => /\ \A q \in Plugins \ {p} : RowsOf(facts', q) = RowsOf(facts, q)
                          /\ Untouched(p) =>
                               \E out \in Journal!Outcome :
                                 /\ ResultOf(out) = result
                                 /\ RowsOf(facts', p) =
                                      Journal!PluginAfter(RowsOf(run.before, p), p, out, RunId),
         result # None
  PROVE  JournalInv' /\ HatFacts' = HatFacts /\ HatRuns' = HatRuns
<1>1. /\ runs' = runs /\ RunId' = RunId
      /\ run.phase = "plugins" /\ run'.phase = "plugins"
      /\ p \in run.pending /\ run.roster[p] = None /\ run'.roster[p] = result
      /\ \A q \in Plugins \ {p} : run'.roster[q] = run.roster[q]
      /\ run'.file = run.file /\ run'.filtered = run.filtered /\ run'.before = run.before
  BY TurnTaken
<1>2. run.file[p] = "loaded"
  BY <1>1 DEF EvidenceInv, RunInProgress, TurnsTaken
<1>3. ASSUME ~run.filtered PROVE OutcomesSoFar'
  <2>1. OutcomesSoFar
    BY <1>1, <1>3 DEF JournalInv
  <2> SUFFICES ASSUME NEW q \in Plugins
               PROVE  /\ (\E out \in Journal!Outcome : HasBecome(q, out))'
                      /\ run'.roster[q] = None => Untouched(q)'
    BY DEF OutcomesSoFar
  <2>2. CASE q = p
    <3>1. Untouched(p)
      BY <1>1, <2>1 DEF OutcomesSoFar
    <3>2. PICK out \in Journal!Outcome :
            /\ ResultOf(out) = result
            /\ RowsOf(facts', p) = Journal!PluginAfter(RowsOf(run.before, p), p, out, RunId)
      BY <1>3, <3>1
    <3>3. Listed(p)' = result
      BY <1>1, <1>2 DEF Listed
    <3>4. HasBecome(p, out)'
      BY <1>1, <3>2, <3>3 DEF HasBecome
    <3> QED
      BY <1>1, <2>2, <3>4
  <2>3. CASE q # p
    <3>1. PICK out \in Journal!Outcome : HasBecome(q, out)
      BY <2>1 DEF OutcomesSoFar
    <3>2. Listed(q)' = Listed(q)
      BY <1>1, <2>3 DEF Listed
    <3>3. HasBecome(q, out)'
      BY <1>1, <1>3, <2>3, <3>1, <3>2 DEF HasBecome
    <3>4. run.roster[q] = None => Untouched(q)
      BY <1>1, <2>1 DEF OutcomesSoFar
    <3>5. run'.roster[q] = None => Untouched(q)'
      BY <1>1, <1>3, <2>3, <3>4 DEF Untouched
    <3> QED
      BY <3>3, <3>5
  <2> QED
    BY <2>2, <2>3
<1>4. JournalInv'
  BY <1>1, <1>3 DEF JournalInv
<1> QED
  BY <1>1, <1>4 DEF HatFacts, HatRuns

LEMMA TurnsHidden ==
  ASSUME EvidenceInv, JournalInv, NEW p \in Plugins,
         PluginErrors(p) \/ NotAssessed(p) \/ Record(p)
  PROVE  JournalInv' /\ HatFacts' = HatFacts /\ HatRuns' = HatRuns
<1>1. ASSUME NEW result \in {"error", "not_assessed"}, Turn(p, result), facts' = facts
      PROVE  JournalInv' /\ HatFacts' = HatFacts /\ HatRuns' = HatRuns
  <2>1. Untouched(p) =>
          \E out \in Journal!Outcome :
            /\ ResultOf(out) = result
            /\ RowsOf(facts', p) = Journal!PluginAfter(RowsOf(run.before, p), p, out, RunId)
    <3>1. PICK out \in Journal!Outcome :
            /\ ResultOf(out) = IF result = "unlisted" THEN None ELSE result
            /\ RowsOf(run.before, p) = Journal!PluginAfter(RowsOf(run.before, p), p, out, RunId)
      BY UntouchedBecomes
    <3> QED
      BY <1>1, <3>1 DEF Untouched
  <2>2. result \in Result /\ result # None
    BY ResultsAssumption DEF Result
  <2>3. \A q \in Plugins \ {p} : RowsOf(facts', q) = RowsOf(facts, q)
    BY <1>1
  <2> QED
    BY <1>1, <2>1, <2>2, <2>3, TurnHidden
<1>2. CASE Record(p)
  <2>1. PICK found \in Found :
          /\ Turn(p, IF found = Nothing THEN "pass" ELSE "fail")
          /\ facts' = IF run.filtered THEN facts ELSE Synced(facts, p, found, RunId)
    BY <1>2 DEF Record
  <2> DEFINE result == IF found = Nothing THEN "pass" ELSE "fail"
  <2>2. result \in Result /\ result # None
    BY ResultsAssumption DEF Result
  <2>3. RunId \in Nat \ {0} /\ TracesOf(p, RunId) = {}
    <3>1. run.phase = "plugins" /\ p \in run.pending
      BY <2>1 DEF Turn
    <3>2. TracesOf(p, RunId) = {}
      BY <3>1 DEF EvidenceInv, RunInProgress, TurnsTaken
    <3> QED
      BY <2>1, <2>2, <3>2, TurnTaken
  <2>4. WellFormed(facts, RunId) /\ facts \in SUBSET Row
    BY DEF EvidenceInv, WellFormed, RunId
  <2>5. ASSUME ~run.filtered
        PROVE  \A q \in Plugins \ {p} : RowsOf(facts', q) = RowsOf(facts, q)
    <3>1. \A f \in RowsOf(facts, p) : f.from # RunId
      BY <2>3 DEF TracesOf
    <3>2. facts' = Synced(facts, p, found, RunId)
      BY <2>1, <2>5
    <3> QED
      BY <2>3, <2>4, <3>1, <3>2, Recording
  <2>6. ASSUME ~run.filtered, Untouched(p)
        PROVE  \E out \in Journal!Outcome :
                 /\ ResultOf(out) = result
                 /\ RowsOf(facts', p) = Journal!PluginAfter(RowsOf(run.before, p), p, out, RunId)
    <3>1. PICK out \in Journal!Outcome : out.how = "evaluated" /\ out.found = found
      BY OutcomesNamed
    <3>2. RowsOf(facts', p) = Synced(RowsOf(facts, p), p, found, RunId)
      BY <2>1, <2>3, <2>4, <2>6, SyncedByPlugin
    <3>3. Journal!PluginAfter(RowsOf(run.before, p), p, out, RunId)
            = Synced(RowsOf(run.before, p), p, found, RunId)
      BY <3>1, PluginAfterCases
    <3>4. ResultOf(out) = result
      BY <3>1, PluginAfterCases
    <3> QED
      BY <2>6, <3>2, <3>3, <3>4 DEF Untouched
  <2>7. run.filtered => facts' = facts
    BY <2>1
  <2>8. Turn(p, result)
    BY <2>1
  <2> HIDE DEF result
  <2> QED
    BY <2>2, <2>5, <2>6, <2>7, <2>8, TurnHidden
<1> QED
  BY <1>1, <1>2 DEF PluginErrors, NotAssessed

LEMMA ClosingHidden ==
  ASSUME EvidenceInv, JournalInv, run.phase \in {"plugins", "retired"}, run.pending = {},
         NEW ps \in SUBSET Plugins,
         \A p \in ps : run.roster[p] = None /\ run.file[p] # "broken",
         NEW why \in {"remediated", "retired"}, NEW closes \in BOOLEAN, closes => ~run.filtered,
         facts' = IF closes THEN ClosedFor(facts, ps, RunId, why) ELSE facts,
         NEW phase \in {"retired", "stale"}, run' = [run EXCEPT !.phase = phase], runs' = runs
  PROVE  JournalInv' /\ HatFacts' = HatFacts /\ HatRuns' = HatRuns
<1>1. run \in RunVars /\ runs \in Seq(RunRow) /\ Len(runs) > 0 /\ facts \in SUBSET Row
  BY DEF EvidenceInv, RunsForm, WellFormed
<1>2. /\ run'.phase = phase /\ run'.roster = run.roster /\ run'.file = run.file
      /\ run'.filtered = run.filtered /\ run'.before = run.before
  BY <1>1 DEF RunVars
<1>3. RunId' = RunId /\ RunId \in Nat \ {0}
  BY <1>1, LenProperties DEF RunId
<1>4. ASSUME ~run.filtered PROVE OutcomesSoFar'
  <2>1. OutcomesSoFar
    BY <1>4 DEF JournalInv
  <2> SUFFICES ASSUME NEW p \in Plugins
               PROVE  (\E out \in Journal!Outcome : HasBecome(p, out))'
    BY <1>2 DEF OutcomesSoFar
  <2>2. PICK out \in Journal!Outcome : HasBecome(p, out)
    BY <2>1 DEF OutcomesSoFar
  <2>3. Listed(p)' = Listed(p)
    BY <1>2 DEF Listed
  <2>4. CASE RowsOf(facts', p) = RowsOf(facts, p)
    BY <1>2, <1>3, <2>2, <2>3, <2>4 DEF HasBecome
  <2>5. CASE RowsOf(facts', p) # RowsOf(facts, p)
    <3>1. closes /\ facts' = ClosedFor(facts, ps, RunId, why)
      BY <2>5
    <3>2. RowsOf(facts', p) = ClosedOwn(RowsOf(facts, p), p, RunId, why) /\ p \in ps
      <4>1. RowsOf(ClosedFor(facts, ps, RunId, why), p) =
              IF p \in ps THEN ClosedOwn(RowsOf(facts, p), p, RunId, why) ELSE RowsOf(facts, p)
        BY <1>1, <1>3, ClosedByPlugin
      <4> QED
        BY <2>5, <3>1, <4>1
    <3>3. ResultOf(out) = None
      BY <2>2, <3>2 DEF HasBecome, Listed
    <3> DEFINE rows == RowsOf(run.before, p)
    <3>4. rows \in SUBSET Row /\ \A f \in rows : f.plugin = p
      BY <1>1 DEF RunVars, RowsOf
    <3>5. out.how \in {"unlisted", "retired", "removed"}
      <4>1. out.how = "evaluated" => ResultOf(out) \in {"pass", "fail"}
        BY PluginAfterCases
      <4>2. out.how \in {"error", "not_assessed"} => ResultOf(out) = out.how
        BY PluginAfterCases
      <4>3. out.how \in {"evaluated", "error", "not_assessed", "unlisted", "retired", "removed"}
        BY PluginAfterCases
      <4> QED
        BY <3>3, <4>1, <4>2, <4>3, ResultsAssumption
    <3>6. RowsOf(facts, p) = Journal!PluginAfter(rows, p, out, RunId)
      BY <2>2 DEF HasBecome
    <3>7. CASE out.how = "unlisted"
      <4>1. PICK now \in Journal!Outcome :
              now.how = IF why = "retired" THEN "retired" ELSE "removed"
        BY OutcomesNamed
      <4>2. Journal!PluginAfter(rows, p, out, RunId) = rows
        BY <3>7 DEF Journal!PluginAfter
      <4>3. /\ Journal!PluginAfter(rows, p, now, RunId) = ClosedOwn(rows, p, RunId, why)
            /\ ResultOf(now) = None
        BY <4>1, PluginAfterCases
      <4>4. HasBecome(p, now)'
        BY <1>2, <1>3, <2>2, <2>3, <3>2, <3>3, <3>6, <4>2, <4>3 DEF HasBecome
      <4> QED
        BY <4>4
    <3>8. CASE out.how \in {"retired", "removed"}
      <4>1. PICK w \in {"remediated", "retired"} :
              Journal!PluginAfter(rows, p, out, RunId) = ClosedOwn(rows, p, RunId, w)
        BY <3>8, PluginAfterCases
      <4> HIDE DEF rows
      <4>2. ClosedOwn(ClosedOwn(rows, p, RunId, w), p, RunId, why)
              = ClosedOwn(rows, p, RunId, w)
        BY <1>3, <3>4, ClosedTwice
      <4> QED
        BY <2>5, <3>2, <3>6, <4>1, <4>2
    <3> QED
      BY <3>5, <3>7, <3>8
  <2> QED
    BY <2>4, <2>5
<1>5. JournalInv'
  <2>1. run.filtered => facts' = run'.before
    BY <1>2 DEF JournalInv
  <2> QED
    BY <1>2, <1>4, <2>1 DEF JournalInv
<1> QED
  BY <1>2, <1>5 DEF HatFacts, HatRuns

\* Plugin by plugin, the outcomes make one of the whole table.
LEMMA AllOutcomes ==
  ASSUME EvidenceInv, OutcomesSoFar
  PROVE  \E outcome \in [Plugins -> Journal!Outcome] :
           /\ Journal!RosterOf(outcome) = [p \in Plugins |-> Listed(p)]
           /\ facts = Journal!After(run.before, outcome, RunId)
<1> DEFINE outcome == [p \in Plugins |-> CHOOSE out \in Journal!Outcome : HasBecome(p, out)]
<1>1. \A p \in Plugins : outcome[p] \in Journal!Outcome /\ HasBecome(p, outcome[p])
  BY DEF OutcomesSoFar
<1>2. outcome \in [Plugins -> Journal!Outcome]
  BY <1>1
<1> HIDE DEF outcome
<1>3. Journal!RosterOf(outcome) = [p \in Plugins |-> Listed(p)]
  <2>1. Journal!RosterOf(outcome) = [p \in Plugins |-> ResultOf(outcome[p])]
    BY DEF Journal!RosterOf, ResultOf
  <2> QED
    BY <1>1, <2>1 DEF HasBecome
<1>4. Journal!After(run.before, outcome, RunId) = UNION {RowsOf(facts, p) : p \in Plugins}
  <2>1. Journal!After(run.before, outcome, RunId) =
          UNION {Journal!PluginAfter(RowsOf(run.before, p), p, outcome[p], RunId) : p \in Plugins}
    BY DEF Journal!After, Journal!RowsOf, RowsOf
  <2> QED
    BY <1>1, <2>1 DEF HasBecome
<1>5. facts = UNION {RowsOf(facts, p) : p \in Plugins}
  <2>1. \A f \in facts : f.plugin \in Plugins
    BY DEF EvidenceInv, WellFormed, Row
  <2> QED
    BY <2>1 DEF RowsOf
<1> QED
  BY <1>2, <1>3, <1>4, <1>5

\* The run ends: its row appears, as the last.
LEMMA RunAppears ==
  ASSUME EvidenceInv, run.phase # "idle", NEW row \in RunRow,
         runs' = [runs EXCEPT ![RunId] = row], run' = Idle
  PROVE  /\ HatRuns' = Append(HatRuns, row)
         /\ RunId \in Nat \ {0} /\ Len(HatRuns) = RunId - 1 /\ Len(runs') = RunId
<1>1. runs \in Seq(RunRow) /\ Len(runs) > 0
  BY DEF EvidenceInv, RunsForm
<1>2. RunId \in Nat \ {0} /\ RunId = Len(runs) /\ DOMAIN runs = 1..RunId
  BY <1>1, LenProperties DEF RunId
<1>3. HatRuns' = runs'
  BY DEF HatRuns, Idle
<1>4. HatRuns = SubSeq(runs, 1, RunId - 1)
  BY <1>2 DEF HatRuns
<1>5. /\ HatRuns \in Seq(RunRow) /\ Len(HatRuns) = RunId - 1
      /\ \A s \in 1..(RunId - 1) : HatRuns[s] = runs[s]
  <2>1. 1 \in 1..(Len(runs) + 1) /\ RunId - 1 \in 0..Len(runs)
    BY <1>2
  <2>2. 1 <= 1 /\ RunId - 1 - 1 + 1 = RunId - 1
    BY <1>2
  <2> QED
    BY <1>1, <1>2, <1>4, <2>1, <2>2, SubSeqProperties
<1>6. /\ runs' \in Seq(RunRow) /\ Len(runs') = RunId /\ runs'[RunId] = row
      /\ \A s \in 1..RunId : s # RunId => runs'[s] = runs[s]
  <2>1. runs' \in Seq(RunRow) /\ Len(runs') = RunId
    BY <1>1, <1>2, ExceptSeq
  <2> QED
    BY <1>2, <2>1
<1>7. /\ Append(HatRuns, row) \in Seq(RunRow) /\ Len(Append(HatRuns, row)) = RunId
      /\ \A s \in 1..(RunId - 1) : Append(HatRuns, row)[s] = runs[s]
      /\ Append(HatRuns, row)[RunId] = row
  <2> DEFINE hat == HatRuns
  <2>1. hat \in Seq(RunRow) /\ Len(hat) = RunId - 1
    BY <1>5
  <2> HIDE DEF hat
  <2>2. /\ Append(hat, row) \in Seq(RunRow) /\ Len(Append(hat, row)) = Len(hat) + 1
        /\ \A s \in 1..Len(hat) : Append(hat, row)[s] = hat[s]
        /\ Append(hat, row)[Len(hat) + 1] = row
    BY <2>1, AppendProperties
  <2> QED
    BY <1>2, <1>5, <2>1, <2>2 DEF hat
<1>8. runs' = Append(HatRuns, row)
  <2> DEFINE new == Append(HatRuns, row)
  <2>1. \A s \in 1..RunId : runs'[s] = new[s]
    BY <1>2, <1>6, <1>7
  <2>2. new \in Seq(RunRow) /\ Len(new) = RunId
    BY <1>7
  <2> HIDE DEF new
  <2>3. runs' = new
    BY <1>6, <2>1, <2>2, SeqEqual
  <2> QED
    BY <2>3 DEF new
<1> QED
  BY <1>2, <1>3, <1>5, <1>6, <1>8


\* A run that ends is one step of Findings.
LEMMA EndingImplements ==
  ASSUME EvidenceInv, JournalInv, Complete \/ Abort
  PROVE  JournalInv' /\ Journal!Next
<1>1. run' = Idle /\ facts' = facts /\ run.phase # "idle" /\ run \in RunVars
  BY DEF Complete, Abort, EvidenceInv, RunsForm
<1>2. PICK row \in RunRow :
        /\ runs' = [runs EXCEPT ![RunId] = row]
        /\ \/ Complete /\ row = RowToLeave("complete", RosterToLeave)
           \/ Abort /\ \E status \in {"aborted", "running"} : row = RowToLeave(status, NoRoster)
  BY CompletedRow, AbortedRow
<1>3. /\ HatRuns' = Append(HatRuns, row)
      /\ RunId \in Nat \ {0} /\ Len(HatRuns) = RunId - 1 /\ Len(runs') = RunId
  BY <1>1, <1>2, RunAppears
<1>4. RunId <= MaxRuns
  BY DEF JournalInv, RunId
<1>5. JournalInv'
  BY <1>1, <1>3, <1>4 DEF JournalInv, Idle
<1>6. HatFacts = run.before /\ HatFacts' = facts
  BY <1>1 DEF HatFacts, Idle
<1>7. Len(HatRuns) < MaxRuns /\ Len(HatRuns) + 1 = RunId
  BY <1>3, <1>4, MaxRunsAssumption
<1>8. Journal!Evaluate \/ Journal!Stop \/ Journal!Diagnose
  <2>1. CASE run.filtered
    <3>1. HatFacts' = HatFacts
      BY <1>1, <1>6, <2>1 DEF JournalInv
    <3>2. PICK status \in {"complete", "aborted", "running"} :
            row = [status |-> status, filtered |-> TRUE, roster |-> NoRoster]
      BY <1>1, <1>2, <2>1 DEF RowToLeave, RosterToLeave, RunVars
    <3>3. Journal!Diagnose
      BY <1>3, <3>1, <3>2
      DEF Journal!Diagnose, Journal!Ended, Journal!NoRoster, NoRoster, HatFacts, HatRuns
    <3> QED
      BY <3>3
  <2>2. CASE ~run.filtered
    <3>1. PICK outcome \in [Plugins -> Journal!Outcome] :
            /\ Journal!RosterOf(outcome) = [p \in Plugins |-> Listed(p)]
            /\ facts = Journal!After(run.before, outcome, RunId)
      BY <1>1, <2>2, AllOutcomes DEF JournalInv
    <3>2. HatFacts' = Journal!After(HatFacts, outcome, Len(HatRuns) + 1)
      BY <1>6, <1>7, <3>1
    <3>3. run.filtered = FALSE
      BY <1>1, <2>2 DEF RunVars
    <3>4. CASE row = RowToLeave("complete", RosterToLeave)
      <4>1. RosterToLeave = [p \in Plugins |-> Listed(p)]
        BY <2>2 DEF RosterToLeave, Listed
      <4>2. RosterToLeave \in [Plugins -> Journal!Result]
        BY <3>4 DEF RunRow, RowToLeave, Journal!Result, Result
      <4>3. row = [status |-> "complete", filtered |-> FALSE, roster |-> RosterToLeave]
        BY <3>3, <3>4 DEF RowToLeave
      <4>4. Journal!Ended("complete", FALSE, RosterToLeave)
        BY <1>3, <4>3 DEF Journal!Ended, HatRuns
      <4>5. Journal!Evaluate
        BY <3>1, <3>2, <4>1, <4>2, <4>4 DEF Journal!Evaluate, HatFacts, HatRuns
      <4> QED
        BY <4>5
    <3>5. ASSUME NEW status \in {"aborted", "running"}, row = RowToLeave(status, NoRoster)
          PROVE  Journal!Stop
      <4>1. row = [status |-> status, filtered |-> FALSE, roster |-> Journal!NoRoster]
        BY <3>3, <3>5 DEF RowToLeave, NoRoster, Journal!NoRoster
      <4>2. Journal!Ended(status, FALSE, Journal!NoRoster)
        BY <1>3, <4>1 DEF Journal!Ended, HatRuns
      <4> QED
        BY <3>1, <3>2, <4>2 DEF Journal!Stop, HatFacts, HatRuns
    <3> QED
      BY <1>2, <3>4, <3>5
  <2> QED
    BY <2>1, <2>2
<1> QED
  BY <1>5, <1>7, <1>8 DEF Journal!Next, HatRuns

LEMMA JournalStep ==
  EvidenceInv /\ JournalInv /\ [Next]_vars => JournalInv' /\ [Journal!Next]_(Journal!fVars)
<1> SUFFICES ASSUME EvidenceInv, JournalInv, [Next]_vars
             PROVE  JournalInv' /\ (Journal!Next \/ (HatFacts' = HatFacts /\ HatRuns' = HatRuns))
  BY DEF Journal!fVars, HatFacts, HatRuns
<1>1. CASE Len(runs) < MaxRuns /\ Start
  BY <1>1, StartHidden
<1>2. ASSUME NEW p \in Plugins, PluginErrors(p) \/ NotAssessed(p) \/ Record(p)
      PROVE  JournalInv' /\ HatFacts' = HatFacts /\ HatRuns' = HatRuns
  BY <1>2, TurnsHidden
<1>3. CASE CloseRetired
  <2>1. Retired \in SUBSET Plugins
    BY DEF Retired
  <2>2. \A p \in Retired : run.roster[p] = None /\ run.file[p] # "broken"
    BY <1>3, RetiredNotListed
  <2>3. PICK closes \in BOOLEAN :
          /\ closes => ~run.filtered
          /\ facts' = IF closes THEN ClosedFor(facts, Retired, RunId, "retired") ELSE facts
    BY <1>3 DEF CloseRetired
  <2> QED
    BY <1>3, <2>1, <2>2, <2>3, ClosingHidden DEF CloseRetired
<1>4. CASE CloseStale
  <2>1. Stale \in SUBSET Plugins /\ \A p \in Stale : run.roster[p] = None /\ run.file[p] # "broken"
    BY DEF Stale
  <2>2. run.pending = {}
    BY <1>4 DEF CloseStale, EvidenceInv, RunInProgress, TurnsTaken
  <2>3. PICK closes \in BOOLEAN :
          /\ closes => ~run.filtered
          /\ facts' = IF closes THEN ClosedFor(facts, Stale, RunId, "remediated") ELSE facts
    BY <1>4 DEF CloseStale
  <2> QED
    BY <1>4, <2>1, <2>2, <2>3, ClosingHidden DEF CloseStale
<1>5. CASE Complete \/ Abort
  BY <1>5, EndingImplements
<1>6. CASE UNCHANGED vars
  BY <1>6 DEF vars, JournalInv, OutcomesSoFar, HasBecome, Untouched, Listed, RunId, HatFacts, HatRuns
<1> QED
  BY <1>1, <1>2, <1>3, <1>4, <1>5, <1>6 DEF Next

LEMMA InitJournal == Init => JournalInv /\ Journal!Init
<1> SUFFICES ASSUME Init PROVE JournalInv /\ Journal!Init
  OBVIOUS
<1>1. run.phase = "idle" /\ facts = {} /\ runs = <<>> /\ Len(runs) = 0
  BY DEF Init, Idle
<1> QED
  BY <1>1, MaxRunsAssumption DEF JournalInv, Journal!Init

-----------------------------------------------------------------------------
(* Theorems.                                                               *)

LEMMA EvidenceInvHolds == Spec => []EvidenceInv
<1>1. EvidenceInv /\ [Next]_vars => EvidenceInv'
  BY EvidenceStep
<1> QED
  BY <1>1, InitEvidence, PTL DEF Spec

\* The table stays well formed: at most one version of a finding open, and
\* at most one in the eyes of any run, whatever failed, was retired, removed
\* or interrupted before.
THEOREM EvidenceTypeCorrect == Spec => []TypeOK
  BY EvidenceInvHolds, InvImpliesTypeOK, PTL

\* No run closes or opens a finding of a plugin it could not assess, and a
\* filtered run none at all.
THEOREM UnassessedAlwaysKept == Spec => []UnassessedKept
<1>1. EvidenceInv => UnassessedKept
  BY DEF EvidenceInv
<1> QED
  BY <1>1, EvidenceInvHolds, PTL

\* The roster a complete run leaves is true of the findings it left open.
THEOREM RosterAlwaysTrue == Spec => []RosterTrue
<1>1. EvidenceInv => RosterTrue
  BY DEF EvidenceInv
<1> QED
  BY <1>1, EvidenceInvHolds, PTL

\* No later run changes what a complete run had found.
THEOREM ReplayAlwaysExact == Spec => ReplayExact
<1>1. EvidenceInv /\ [Next]_vars => [ReplayStep]_facts
  BY EvidenceStep
<1> QED
  BY <1>1, EvidenceInvHolds, PTL DEF Spec, ReplayExact

\* A run that commits after every plugin, and may stop half way, is for
\* everybody else one step: the findings go from what they were to what its
\* roster says of each plugin.
THEOREM EvidenceImplementsFindings == Spec => ImplementsFindings
<1>1. Spec => [](EvidenceInv /\ JournalInv)
  <2>1. EvidenceInv /\ JournalInv /\ [Next]_vars => (EvidenceInv /\ JournalInv)'
    BY EvidenceStep, JournalStep
  <2> QED
    BY <2>1, InitEvidence, InitJournal, PTL DEF Spec
<1> QED
  BY <1>1, InitJournal, JournalStep, PTL DEF Spec, ImplementsFindings, Journal!Spec

-----------------------------------------------------------------------------
(* The run lock, by which the run in progress is the only one: module      *)
(* RunLock, for any number of processes and any bounds.  The strengthening *)
(* is that the advisory lock has at most one holder: with LockTypeOK (a    *)
(* process that works holds it) this gives OneAtATime, and with OneAtATime *)
(* a commit disturbs no base but the committing process'.                  *)

OneHolder == \A p, q \in Holder : p = q

LockInv == LockTypeOK /\ OneHolder /\ NothingChangesUnderneath

LEMMA LockInvInit == LockInit => LockInv
BY DEF LockInit, LockInv, LockTypeOK, OneHolder, Holder, NothingChangesUnderneath

\* Every process of a state that satisfies LockInv and works is the only one.
LEMMA WorkingAlone == LockInv => OneAtATime
BY DEF LockInv, LockTypeOK, OneHolder, Holder, OneAtATime

LEMMA LockInvNext == LockInv /\ [LockNext]_lockVars => LockInv'
<1> SUFFICES ASSUME LockInv, [LockNext]_lockVars PROVE LockInv'
  OBVIOUS
<1> USE DEF LockInv, LockTypeOK, OneHolder, Holder, NothingChangesUnderneath
<1>1. CASE UNCHANGED lockVars
  BY <1>1 DEF lockVars
<1>2. ASSUME NEW p \in Processes, Connect(p) PROVE LockInv'
  BY <1>2 DEF Connect
<1>3. ASSUME NEW p \in Processes, Acquire(p) PROVE LockInv'
  <2>1. LockTypeOK'
    BY <1>3 DEF Acquire
  <2>2. OneHolder'
    BY <1>3 DEF Acquire, Free
  <2>3. NothingChangesUnderneath'
    BY <1>3 DEF Acquire
  <2>4. QED BY <2>1, <2>2, <2>3
<1>4. ASSUME NEW p \in Processes, RefuseLocked(p) PROVE LockInv'
  BY <1>4 DEF RefuseLocked
<1>5. ASSUME NEW p \in Processes, CommitData(p) PROVE LockInv'
  <2>1. LockTypeOK'
    BY <1>5 DEF CommitData
  <2>2. OneHolder'
    BY <1>5 DEF CommitData
  <2>3. NothingChangesUnderneath'
    <3>1. \A q \in Processes : pc[q] = "working" => q = p
      BY <1>5, WorkingAlone DEF CommitData, OneAtATime
    <3>2. QED BY <1>5, <3>1 DEF CommitData
  <2>4. QED BY <2>1, <2>2, <2>3
<1>6. ASSUME NEW p \in Processes, RunPlugin(p) PROVE LockInv'
  BY <1>6 DEF RunPlugin
<1>7. ASSUME NEW p \in Processes, Exit(p) PROVE LockInv'
  BY <1>7 DEF Exit
<1>8. ASSUME NEW p \in Processes, CloseSession(p) PROVE LockInv'
  BY <1>8 DEF CloseSession
<1> QED
  BY <1>1, <1>2, <1>3, <1>4, <1>5, <1>6, <1>7, <1>8 DEF LockNext

\* Sessions match the phases of their processes, whatever order processes
\* start, end and are killed in.
THEOREM LockTypeCorrect == LockSpec => []LockTypeOK
<1>1. LockInv => LockTypeOK
  BY DEF LockInv
<1> QED BY LockInvInit, LockInvNext, <1>1, PTL DEF LockSpec

\* run_lock.py's promise, for any number of processes.
THEOREM MutualExclusion == LockSpec => []OneAtATime
BY LockInvInit, LockInvNext, WorkingAlone, PTL DEF LockSpec

\* What the scripts rely on it for: the data a run started from stays what
\* it is, apart from the run's own commits.
THEOREM DataStable == LockSpec => []NothingChangesUnderneath
<1>1. LockInv => NothingChangesUnderneath
  BY DEF LockInv
<1> QED BY LockInvInit, LockInvNext, <1>1, PTL DEF LockSpec
=============================================================================
