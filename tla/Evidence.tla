------------------------------- MODULE Evidence -------------------------------
(***************************************************************************)
(* adaudit.py: one evaluation run after another over the collected data.   *)
(* A run loads the plugin files, executes the finding plugins one by one,  *)
(* records each one's findings in a transaction of its own, closes those   *)
(* of retired and of removed plugins in two more, and then records its     *)
(* roster and that it is complete.  It can fail or be killed between any   *)
(* two of these.                                                           *)
(*                                                                         *)
(* What the queries return is external (it is the collected data that      *)
(* decides), and so is the state of the plugin files; both are chosen when *)
(* they are read.  The run lock keeps collectors and other runs away.      *)
(***************************************************************************)
EXTENDS FindingRows, Sequences

CONSTANT MaxRuns  \* bound: rows of control_evidence_run
ASSUME MaxRunsAssumption == MaxRuns \in Nat
ASSUME ResultsAssumption == None \notin {"pass", "fail", "error", "not_assessed"}

VARIABLES
  facts,  \* control_evidence_fact
  runs,   \* control_evidence_run and its rosters, in evidence_run_id order
  run     \* the variables of main()

vars == <<facts, runs, run>>

Result == {"pass", "fail", "error", "not_assessed", None}
NoRoster == [p \in Plugins |-> None]

\* What discover_plugins() makes of a plugin's file: loaded, failed with a
\* known plugin_id, failed without one, a retired stub, no such file.
FileState == {"loaded", "broken", "anonymous", "retired", "gone"}

\* roster is plugin_summaries.  before (history): facts when the run began.
Idle == [phase |-> "idle", filtered |-> FALSE, file |-> [p \in Plugins |-> "gone"],
         pending |-> {}, roster |-> NoRoster, before |-> {}]

RunId == Len(runs)

\* The run's row is committed before anything else; a filter may leave any
\* of the loaded plugins.
Start ==
  /\ run.phase = "idle"
  /\ \E file \in [Plugins -> FileState], filtered \in BOOLEAN :
       LET loaded == {p \in Plugins : file[p] = "loaded"} IN
       \E selected \in IF filtered THEN SUBSET loaded ELSE {loaded} :
         /\ run' = [Idle EXCEPT !.phase = "plugins", !.filtered = filtered, !.file = file,
                                !.pending = selected, !.before = facts]
         /\ runs' = Append(runs, [status |-> "running", filtered |-> filtered,
                                  roster |-> NoRoster])
  /\ UNCHANGED facts

\* The next plugin's turn has come, and ends with this result.
Turn(p, result) ==
  /\ run.phase = "plugins"
  /\ p \in run.pending
  /\ run' = [run EXCEPT !.pending = @ \ {p}, !.roster[p] = result]
  /\ runs' = runs

\* The query fails, a row breaks the contract, or recording the findings
\* fails (two rows with one identity, a clock set back): rolled back to the
\* plugin's savepoint.
PluginErrors(p) == Turn(p, "error") /\ facts' = facts

\* Slip: the result stays what rollup_status() says of zero rows.
NotAssessedPassed(p) == Turn(p, "pass") /\ facts' = facts

\* Zero rows from a plugin whose source data was not collected: the findings
\* stay open, and so says the roster.
NotAssessed(p) == Turn(p, "not_assessed") /\ facts' = facts

\* Slip: a filtered run writes (before v0.10.0).
RecordAlways(p) ==
  \E found \in Found :
    /\ Turn(p, IF found = Nothing THEN "pass" ELSE "fail")
    /\ facts' = Synced(facts, p, found, RunId)

\* sync_evidence(), persisted only by unfiltered runs; rollup_status().
Record(p) ==
  \E found \in Found :
    /\ Turn(p, IF found = Nothing THEN "pass" ELSE "fail")
    /\ facts' = IF run.filtered THEN facts ELSE Synced(facts, p, found, RunId)

\* close_retired_plugin_evidence().  Its docstring says it "runs on every
\* invocation, filtered or not"; since v0.10.0 the call is guarded, and a filtered
\* run closes nothing.
Retired == {p \in Plugins : run.file[p] = "retired"}

CloseRetired ==
  /\ run.phase = "plugins"
  /\ run.pending = {}
  /\ facts' = IF run.filtered THEN facts ELSE ClosedFor(facts, Retired, RunId, "retired")
  /\ run' = [run EXCEPT !.phase = "retired"]
  /\ runs' = runs

\* Slip: a plugin that errored does not count as executed.
StaleUnlessGood ==
  {p \in Plugins : run.roster[p] \in {None, "error"} /\ run.file[p] # "broken"}

\* Not executed in this run, and its file did not fail to load.
Stale == {p \in Plugins : run.roster[p] = None /\ run.file[p] # "broken"}

\* close_stale_plugin_evidence(), not called in filtered runs nor when some
\* broken file could be any plugin's.
CloseStale ==
  /\ run.phase = "retired"
  /\ facts' = IF run.filtered \/ \E p \in Plugins : run.file[p] = "anonymous"
              THEN facts
              ELSE ClosedFor(facts, Stale, RunId, "remediated")
  /\ run' = [run EXCEPT !.phase = "stale"]
  /\ runs' = runs

\* record_run_roster() adds the files that failed to load; then the run's
\* status.  Two commits, but nothing reads the roster of a run that is not
\* complete, or of a filtered one, which is left out here.
Complete ==
  /\ run.phase = "stale"
  /\ runs' = [runs EXCEPT
       ![RunId].status = "complete",
       ![RunId].roster = IF run.filtered THEN NoRoster
                         ELSE [p \in Plugins |-> IF run.file[p] = "broken" THEN "error"
                                                 ELSE run.roster[p]]]
  /\ run' = Idle
  /\ UNCHANGED facts

\* An error, Ctrl-C (mark_run_aborted()), or the end of the process: what is
\* committed stays.
Abort ==
  /\ run.phase # "idle"
  /\ \E status \in {"aborted", "running"} : runs' = [runs EXCEPT ![RunId].status = status]
  /\ run' = Idle
  /\ UNCHANGED facts

-----------------------------------------------------------------------------
Init == facts = {} /\ runs = <<>> /\ run = Idle

Next ==
  \/ Len(runs) < MaxRuns /\ Start
  \/ \E p \in Plugins : PluginErrors(p) \/ NotAssessed(p) \/ Record(p)
  \/ CloseRetired
  \/ CloseStale
  \/ Complete
  \/ Abort

Spec == Init /\ [][Next]_vars

-----------------------------------------------------------------------------
(* What must hold.                                                         *)

RunRow == [status : {"running", "complete", "aborted"}, filtered : BOOLEAN,
           roster : [Plugins -> Result]]

RunVars == [phase : {"idle", "plugins", "retired", "stale"}, filtered : BOOLEAN,
            file : [Plugins -> FileState], pending : SUBSET Plugins,
            roster : [Plugins -> Result], before : SUBSET Row]

\* Types, and the constraints of the table: one open version per finding,
\* closed with a reason and by a run after the one that opened it.
TypeOK ==
  /\ facts \subseteq Row
  /\ \A f \in facts : /\ f.from <= Len(runs)
                      /\ f.to = None <=> f.change = None
                      /\ f.to # None => f.from < f.to /\ f.to <= Len(runs)
  /\ OneVersion(facts)
  /\ runs \in Seq(RunRow)
  /\ run \in RunVars
  /\ run.phase # "idle" => Len(runs) > 0

CompleteRuns == {r \in DOMAIN runs : runs[r].status = "complete"}
TracesOf(p, r) == {f \in RowsOf(facts, p) : r \in {f.from, f.to}}

\* A plugin a run lists as errored or not assessed kept every finding it
\* had, and a filtered run left no trace at all: nothing is called fixed, or
\* new, because a query failed, a file did not load, data was missing or the
\* user looked at a part only.  For filtered runs this is what the comment on the
\* call of close_retired_plugin_evidence() says ("writes no findings history, so
\* it closes nothing"), against that function's own docstring.
UnassessedKept ==
  \A r \in DOMAIN runs, p \in Plugins :
    runs[r].filtered \/ runs[r].roster[p] \in {"error", "not_assessed"} => TracesOf(p, r) = {}

\* A plugin on a complete run's roster as clean had no finding open when the
\* run ended, and one listed with findings had some: the API closes the
\* findings of clean plugins on the strength of this.
RosterTrue ==
  \A r \in CompleteRuns, p \in Plugins :
    /\ runs[r].roster[p] = "pass" => RowsOf(OpenAt(facts, r), p) = {}
    /\ runs[r].roster[p] = "fail" => RowsOf(OpenAt(facts, r), p) # {}

\* What a complete run found can be reconstructed at any later time: no
\* later run, complete, filtered or aborted half way, changes what was open
\* when it ended.  (Runs are pushed from this reconstruction, sometimes
\* days later.)
ReplayStep ==
  \A r \in CompleteRuns :
    {<<f.plugin, f.object, f.content, f.from>> : f \in OpenAt(facts', r)} =
      {<<f.plugin, f.object, f.content, f.from>> : f \in OpenAt(facts, r)}
ReplayExact == [][ReplayStep]_facts

\* An evaluation run is atomic for everybody else, although it commits after
\* every plugin: it implements Findings, with a run in progress hidden.
Journal == INSTANCE Findings WITH
             facts <- IF run.phase = "idle" THEN facts ELSE run.before,
             runs <- IF run.phase = "idle" THEN runs ELSE SubSeq(runs, 1, Len(runs) - 1)
ImplementsFindings == Journal!Spec
==============================================================================
