----------------------------- MODULE FindingRows -----------------------------
(***************************************************************************)
(* The table control_evidence_fact as a set of rows, and the statements    *)
(* that change it.  A row is one version of a finding, kept forever; it is *)
(* open while no run has closed it.  from and to are evaluation runs       *)
(* (evidence_run_id_valid_from and _to).                                   *)
(***************************************************************************)
EXTENDS Naturals

CONSTANTS
  Plugins,   \* finding plugins (control_test)
  Objects,   \* what tells findings of one plugin apart (identity_guid)
  Contents,  \* the rest of a finding: status, severities, summary, references
  None       \* SQL NULL

ASSUME RowValuesAssumption ==
  None \notin Contents \cup Nat \cup {"changed", "remediated", "retired"}

Row == [plugin : Plugins, object : Objects, content : Contents, from : Nat \ {0},
        to : Nat \cup {None}, change : {"changed", "remediated", "retired", None}]

\* What a plugin's query returned: at most one finding per object.
Found == [Objects -> Contents \cup {None}]
Nothing == [o \in Objects |-> None]

OpenRows(rows) == {f \in rows : f.to = None}
RowsOf(rows, p) == {f \in rows : f.plugin = p}

\* Slip: a version ends with the last run that still saw it.
ClosedAtPrevious(f, r, why) == [f EXCEPT !.to = r - 1, !.change = why]

\* insert_evidence_version() and close_evidence_version()
Opened(p, o, c, r) == [plugin |-> p, object |-> o, content |-> c, from |-> r,
                       to |-> None, change |-> None]
ClosedAt(f, r, why) == [f EXCEPT !.to = r, !.change = why]

\* Slip: a changed finding gets a new version, the old one stays open.
SyncedKeepingOld(rows, p, found, r) ==
  LET open == OpenRows(RowsOf(rows, p))
      gone == {f \in open : found[f.object] = None}
      fresh == {o \in Objects : found[o] # None
                                /\ \A f \in open : <<f.object, f.content>> # <<o, found[o]>>}
  IN (rows \ gone) \cup {ClosedAt(f, r, "remediated") : f \in gone}
                   \cup {Opened(p, o, found[o], r) : o \in fresh}

\* sync_evidence() of one plugin: what is as it was stays untouched, what
\* differs is closed as changed and opened again, what is not there any more
\* is closed as remediated.
Synced(rows, p, found, r) ==
  LET open == OpenRows(RowsOf(rows, p))
      same == {f \in open : found[f.object] = f.content}
      fresh == {o \in Objects : found[o] # None /\ \A f \in same : f.object # o}
  IN (rows \ (open \ same))
       \cup {ClosedAt(f, r, IF found[f.object] = None THEN "remediated" ELSE "changed")
               : f \in open \ same}
       \cup {Opened(p, o, found[o], r) : o \in fresh}

\* The UPDATE of close_retired_plugin_evidence() and of
\* close_stale_plugin_evidence(): every open row of these plugins.
ClosedFor(rows, ps, r, why) ==
  LET mine == {f \in OpenRows(rows) : f.plugin \in ps}
  IN (rows \ mine) \cup {ClosedAt(f, r, why) : f \in mine}

\* Slip: a row closed by the run itself counts as open.
OpenAtClosing(rows, r) ==
  {f \in rows : f.from <= r /\ (f.to = None \/ f.to >= r)}

\* _open_at(): the findings open when run r ended.
OpenAt(rows, r) == {f \in rows : f.from <= r /\ (f.to = None \/ f.to > r)}

\* At most one open version of each finding (idx_cef_one_open_version), and
\* at most one in any run's eyes.
OneVersion(rows) ==
  \A f, g \in rows :
    f.plugin = g.plugin /\ f.object = g.object /\ f # g =>
      \/ f.to # None /\ f.to <= g.from
      \/ g.to # None /\ g.to <= f.from
==============================================================================
