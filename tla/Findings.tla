------------------------------- MODULE Findings -------------------------------
(***************************************************************************)
(* What adaudit.py promises of its evaluation runs, without saying how:    *)
(* each run is one step, and what it does to a plugin's findings is what   *)
(* the roster it leaves says of that plugin.                               *)
(***************************************************************************)
EXTENDS FindingRows, Sequences

CONSTANT MaxRuns  \* bound: evaluation runs
ASSUME MaxRunsAssumption == MaxRuns \in Nat

VARIABLES facts,  \* control_evidence_fact
          runs    \* control_evidence_run with control_evidence_run_plugin

fVars == <<facts, runs>>

\* What can become of a plugin in a run.
Outcome ==
  [how : {"evaluated"}, found : Found] \cup
  [how : {"error", "not_assessed", "unlisted", "retired", "removed"}, found : {Nothing}]

\* A plugin that did not run, whatever the reason, keeps its findings; a
\* retired one does not count as fixed.
PluginAfter(rows, p, out, r) ==
  CASE out.how = "evaluated" -> Synced(rows, p, out.found, r)
    [] out.how = "retired"   -> ClosedFor(rows, {p}, r, "retired")
    [] out.how = "removed"   -> ClosedFor(rows, {p}, r, "remediated")
    [] OTHER                 -> rows

After(rows, outcome, r) ==
  UNION {PluginAfter(RowsOf(rows, p), p, outcome[p], r) : p \in Plugins}

\* None: the plugin is not on the roster.
Result == {"pass", "fail", "error", "not_assessed", None}
NoRoster == [p \in Plugins |-> None]

Rollup(found) == IF found = Nothing THEN "pass" ELSE "fail"

RosterOf(outcome) ==
  [p \in Plugins |->
     CASE outcome[p].how = "evaluated" -> Rollup(outcome[p].found)
       [] outcome[p].how \in {"error", "not_assessed"} -> outcome[p].how
       [] OTHER -> None]

Ended(status, filtered, roster) ==
  runs' = Append(runs, [status |-> status, filtered |-> filtered, roster |-> roster])

Evaluate ==
  \E roster \in [Plugins -> Result] :
    /\ Ended("complete", FALSE, roster)
    /\ \E outcome \in [Plugins -> Outcome] :
         /\ RosterOf(outcome) = roster
         /\ facts' = After(facts, outcome, Len(runs) + 1)

\* What the plugins before the interruption found stays.
Stop ==
  /\ \E status \in {"aborted", "running"} : Ended(status, FALSE, NoRoster)
  /\ \E outcome \in [Plugins -> Outcome] : facts' = After(facts, outcome, Len(runs) + 1)

\* A filtered run changes no findings, however it ends.
Diagnose ==
  \E status \in {"complete", "aborted", "running"} :
    /\ Ended(status, TRUE, NoRoster)
    /\ UNCHANGED facts

Init == facts = {} /\ runs = <<>>

Next == Len(runs) < MaxRuns /\ (Evaluate \/ Stop \/ Diagnose)

Spec == Init /\ [][Next]_fVars
==============================================================================
