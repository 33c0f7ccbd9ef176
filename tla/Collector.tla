------------------------------ MODULE Collector ------------------------------
(***************************************************************************)
(* adprofiler.py: one collection run after another, each reading Active    *)
(* Directory over LDAP while the directory changes, and writing versioned  *)
(* (SCD2) rows to PostgreSQL in one transaction.                           *)
(*                                                                         *)
(* The directory, its domain controllers and the process' environment are  *)
(* external; everything the collector keeps is in db (committed), tx (the  *)
(* run's own view of its open transaction), runs (table sync_run, written  *)
(* in transactions of its own) and run (the variables of main()).          *)
(*                                                                         *)
(* One entry of db or tx stands for all of an object's rows:               *)
(*   first, confirmed, deleted   directory_object (first = 0: no row)      *)
(*   attr, from, by              its open directory_object_version         *)
(*   typed                       its open typed row (ad_user, ad_site...)  *)
(* Closed versions only matter through valid_to > valid_from, which is a   *)
(* condition on writing the next one.                                      *)
(***************************************************************************)
EXTENDS Naturals, Sequences

CONSTANTS
  Users,      \* objects of the domain partition: deletion leaves a tombstone
  Sites,      \* objects of other partitions: deletion is found by absence
  Attrs,      \* contents of an object that change detection tells apart
  Dcs,        \* domain controllers
  Hosting,    \* the controllers that hold the partition of Sites
  OptionalClasses, \* sets of objects enumerated together whose enumeration may
              \* fail without failing the run: KDS keys, AD FS DKM, PKI
              \* stores, DNS zones; OUs, GPOs, trusts, templates, subnets and
              \* the schema for some errors
  UsnBase,    \* each controller numbers the same changes from its own base
  Started,    \* how run r may be started: Started[r], a set of records of the
              \* controller, whether its identity can be read, the clock (it
              \* need not go forward), --full-rescan
  Unrecorded, \* the statuses an unsuccessful run may be left with
  None,       \* SQL NULL, Python None
  IsDeleted,  \* attributes_full of a 'deleted' version
  MaxUsn,     \* bound: directory changes
  MaxRuns     \* bound: rows of sync_run

Objects == Users \cup Sites

ASSUME UsersSitesDisjoint == Users \cap Sites = {}
ASSUME NumbersAssumption ==
  /\ Started \in [1..MaxRuns -> SUBSET [dc : Dcs, known : BOOLEAN,
                                     ts : Nat \ {0}, full : BOOLEAN]]
  /\ UsnBase \in [Dcs -> Nat \ {0}]
  /\ MaxUsn \in Nat
  /\ MaxRuns \in Nat
ASSUME ValuesAssumption ==
  /\ None \notin Attrs
  /\ IsDeleted \notin Attrs
  /\ None # IsDeleted
  /\ None \notin Dcs
  /\ None \notin Nat
ASSUME HostingAssumption == Hosting \subseteq Dcs
ASSUME OptionalAssumption == OptionalClasses \subseteq SUBSET Objects
ASSUME UnrecordedAssumption == Unrecorded \subseteq {"aborted", "failed", "running"}

VARIABLES
  dir,     \* the directory: [Objects -> [st, attr, usn]]
  usn,     \* changes made to the directory so far
  db,      \* committed rows: [Objects -> Entry]
  tx,      \* the same rows as the run's transaction sees them
  runs,    \* sync_run, in run_id order
  run,     \* the running collector's variables
  window   \* history: states each object had since the run bound

vars == <<dir, usn, db, tx, runs, run, window>>
dirVars == <<dir, usn>>

-----------------------------------------------------------------------------
(* The rows.                                                               *)

NoEntry == [first |-> 0, confirmed |-> 0, deleted |-> FALSE,
            attr |-> None, from |-> 0, by |-> 0, typed |-> None]

\* Slip: the MERGE's INSERT branch leaves last_confirmed_run_id out.
UpsertedUnconfirmed(e, r) ==
  IF e.first = 0 THEN [e EXCEPT !.first = r] ELSE [e EXCEPT !.confirmed = r]

\* upsert_directory_object(): MERGE on object_guid; is_deleted is left alone.
Upserted(e, r) ==
  [e EXCEPT !.first = IF e.first = 0 THEN r ELSE e.first, !.confirmed = r]

\* write_object_version(): closes the open version at the run's timestamp
\* and opens one that starts there.
Versioned(e, r, ts, a) == [e EXCEPT !.attr = a, !.from = ts, !.by = r]

\* Slip: no such constraint.
MayVersionAnytime(e, ts) == TRUE

\* CHECK (valid_to > valid_from) of the version being closed.
MayVersion(e, ts) == e.attr = None \/ ts > e.from

\* write_typed_row() and close_typed_row_if_open().
TypedAs(e, a) == [e EXCEPT !.typed = a]

\* The statements collect_deleted_objects() and reconcile_absent_objects()
\* run on a deleted object.
MarkedDeleted(e, r, ts) ==
  TypedAs([Versioned(e, r, ts, IsDeleted) EXCEPT !.deleted = TRUE], None)

\* Slip: the flag is cleared on every object.
ClearedOnAll(e, r) == [e EXCEPT !.deleted = FALSE]

\* clear_deleted_flag_on_restored_objects()
Cleared(e, r) == IF e.deleted /\ e.confirmed = r
                 THEN [e EXCEPT !.deleted = FALSE]
                 ELSE e

\* repair_orphaned_deleted_typed_rows()
Repaired(e) == IF e.deleted THEN TypedAs(e, None) ELSE e

\* What every plugin sees of an object: its open typed row.
Reported(e) == e.typed

-----------------------------------------------------------------------------
(* The directory.  Every controller shows the same objects; each numbers   *)
(* the changes from a base of its own.                                     *)

Visible(x) == IF x.st = "live" THEN x.attr ELSE None
UsnAt(d, n) == UsnBase[d] + n

Reading == run.phase \in {"bound", "collecting", "reconciled", "searched"}

\* An object that comes back while a run is reading can be missed by both of
\* its searches, the enumeration being past it already and its tombstone gone
\* when the run looks for one: what the database says of it stays.
SetObject(o, x) ==
  /\ usn < MaxUsn
  /\ usn' = usn + 1
  /\ dir' = [dir EXCEPT ![o] = [x EXCEPT !.usn = usn + 1]]
  /\ window' = IF Reading
               THEN [window EXCEPT ![o] =
                       @ \cup {Visible(dir'[o])}
                         \cup (IF Visible(dir[o]) = None THEN {Reported(db[o])} ELSE {})]
               ELSE window
  /\ UNCHANGED <<db, tx, runs, run>>

CreateObject(o) ==
  /\ dir[o].st = "absent"
  /\ \E a \in Attrs : SetObject(o, [dir[o] EXCEPT !.st = "live", !.attr = a])

ModifyObject(o) ==
  /\ dir[o].st = "live"
  /\ \E a \in Attrs \ {dir[o].attr} : SetObject(o, [dir[o] EXCEPT !.attr = a])

DeleteObject(o) ==
  /\ dir[o].st = "live"
  /\ SetObject(o, [dir[o] EXCEPT !.st = "deleted"])

\* Undelete from the Recycle Bin: same objectGUID.
RestoreObject(o) ==
  /\ dir[o].st = "deleted"
  /\ SetObject(o, [dir[o] EXCEPT !.st = "live"])

\* The tombstone is garbage-collected.  Assumed to outlive the interval
\* between successful runs (60 to 180 days against a weekly schedule): some
\* run that bound after the deletion has succeeded.
PurgeTombstone(o) ==
  /\ dir[o].st = "deleted"
  /\ \E r \in DOMAIN runs : runs[r].status = "succeeded" /\ runs[r].start >= dir[o].usn
  /\ dir' = [dir EXCEPT ![o].st = "purged", ![o].attr = None]
  /\ UNCHANGED <<usn, db, tx, runs, run, window>>

-----------------------------------------------------------------------------
(* The run.                                                                *)

Idle == [phase |-> "idle", dc |-> None, start |-> 0, high |-> None,
         ident |-> None, prior |-> None, ts |-> 0, full |-> FALSE, pending |-> {}, seen |-> {},
         unread |-> {}]

RunId == Len(runs)

\* Does the controller the run is bound to hold the object's partition?
Served(o) == o \in Users \/ run.dc \in Hosting

Succeeded == {r \in DOMAIN runs : runs[r].status = "succeeded"}
Latest(r) == \A s \in Succeeded : s <= r

\* connect_ldap(), get_rootdse_info() and read_dc_identity(): RootDSE,
\* highestCommittedUSN with it, is read once, when the connection binds.
Bind(c) ==
  /\ run.phase = "idle"
  /\ run' = [Idle EXCEPT !.phase = "bound", !.dc = c.dc, !.ts = c.ts, !.full = c.full,
                         !.ident = IF c.known THEN c.dc ELSE None,
                         !.start = usn, !.high = UsnAt(c.dc, usn)]
  /\ window' = [o \in Objects |->
                  {Visible(dir[o])} \cup
                  (IF o \in Sites /\ c.dc \notin Hosting THEN {Reported(db[o])} ELSE {})]
  /\ UNCHANGED <<dirVars, db, tx, runs>>

\* The watermark of the last successful run, kept only on the controller it
\* was read from; 0 (every tombstone) on another or an unidentified one.
PriorWatermark(ident) ==
  IF Succeeded = {} THEN {None}
  ELSE {IF ident = None \/ runs[r].ident = None \/ runs[r].ident # ident
        THEN 0 ELSE runs[r].watermark : r \in {s \in Succeeded : Latest(s)}}

\* The previous run's row is looked up, then create_sync_run().
OpenRun ==
  /\ run.phase = "bound"
  /\ \E prior \in PriorWatermark(run.ident) :
         run' = [run EXCEPT !.phase = "collecting", !.prior = prior, !.pending = Objects]
  /\ runs' = Append(runs, [status |-> "running", ident |-> run.ident,
                           watermark |-> None, start |-> run.start])
  /\ UNCHANGED <<dirVars, db, tx, window>>

\* collect_object_class() when the enumeration reaches the place of an object
\* that is not there (or whose partition this controller does not hold).
VisitMissing(o) ==
  /\ run.phase = "collecting"
  /\ o \in run.pending
  /\ ~(Served(o) /\ dir[o].st = "live")
  /\ run' = [run EXCEPT !.pending = @ \ {o}]
  /\ UNCHANGED <<dirVars, db, tx, runs, window>>

Visit(o) ==
  /\ run.phase = "collecting"
  /\ o \in run.pending
  /\ Served(o) /\ dir[o].st = "live"
  /\ run' = [run EXCEPT !.pending = @ \ {o}, !.seen = @ \cup {o}]
  /\ UNCHANGED <<dirVars, runs, window>>

\* diff_attributes() found nothing new: the row is confirmed, no version is
\* written.
VisitUnchanged(o) ==
  /\ Visit(o)
  /\ tx[o].attr = dir[o].attr
  /\ ~run.full
  /\ tx' = [tx EXCEPT ![o] = Upserted(@, RunId)]
  /\ db' = db

\* Slip: each changed object is committed at once.
VisitChangedCommitting(o) ==
  /\ Visit(o)
  /\ tx' = [tx EXCEPT ![o] =
              TypedAs(Versioned(Upserted(@, RunId), RunId, run.ts, dir[o].attr),
                      dir[o].attr)]
  /\ db' = tx'

\* created, modified or (--full-rescan, or a collector upgrade) rescanned.
VisitChanged(o) ==
  /\ Visit(o)
  /\ tx[o].attr # dir[o].attr \/ run.full
  /\ MayVersion(tx[o], run.ts)
  /\ tx' = [tx EXCEPT ![o] =
              TypedAs(Versioned(Upserted(@, RunId), RunId, run.ts, dir[o].attr),
                      dir[o].attr)]
  /\ db' = db

\* The enumeration of an optional class, or the read of its container that
\* comes before its reconciliation, fails after any number of its objects: the
\* error is logged, what was written of the class stays, it is not reconciled,
\* and the run goes on and may succeed.
EnumerationFails(c) ==
  /\ run.phase = "collecting"
  /\ ~(c \subseteq run.unread)
  /\ run' = [run EXCEPT !.pending = @ \ c, !.unread = @ \cup c]
  /\ window' = [o \in Objects |-> IF o \in c \ run.seen
                                 THEN window[o] \cup {Reported(db[o])} ELSE window[o]]
  /\ UNCHANGED <<dirVars, db, tx, runs>>

\* Slip: reconciliation is not inside the class' try block.
AbsentOrUnread == {o \in Sites : /\ run.dc \in Hosting
                                 /\ tx[o].typed # None
                                 /\ ~tx[o].deleted
                                 /\ o \notin run.seen}

\* reconcile_absent_objects(), for the classes whose enumeration is complete
\* and only if the container answers on this controller.
Absent == {o \in Sites : /\ run.dc \in Hosting
                         /\ tx[o].typed # None
                         /\ ~tx[o].deleted
                         /\ o \notin run.seen \cup run.unread}

ReconcileAbsent ==
  /\ run.phase = "collecting"
  /\ run.pending = {}
  /\ \A o \in Absent : MayVersion(tx[o], run.ts)
  /\ tx' = [o \in Objects |-> IF o \in Absent
                              THEN MarkedDeleted(tx[o], RunId, run.ts) ELSE tx[o]]
  /\ run' = [run EXCEPT !.phase = "reconciled"]
  /\ UNCHANGED <<dirVars, db, runs, window>>

\* Tombstones that answer the search filter: (isDeleted=TRUE) alone for
\* watermark 0, with uSNChanged>=watermark otherwise; no search at all on a
\* baseline run.
Tombstones ==
  {o \in Users : /\ run.prior # None
                 /\ dir[o].st = "deleted"
                 /\ run.prior # 0 => UsnAt(run.dc, dir[o].usn) >= run.prior}

\* The UPDATE's WHERE: known, not yet marked, not seen live by this run.
NewlyDeleted == {o \in Tombstones : /\ tx[o].first # 0
                                    /\ ~tx[o].deleted
                                    /\ tx[o].confirmed # RunId}

\* collect_deleted_objects()
CollectDeleted ==
  /\ run.phase = "reconciled"
  /\ \A o \in NewlyDeleted : MayVersion(tx[o], run.ts)
  /\ tx' = [o \in Objects |-> IF o \in NewlyDeleted
                              THEN MarkedDeleted(tx[o], RunId, run.ts) ELSE tx[o]]
  /\ run' = [run EXCEPT !.phase = "searched"]
  /\ UNCHANGED <<dirVars, db, runs, window>>

\* clear_deleted_flag_on_restored_objects(), repair_orphaned_deleted_typed_
\* rows(), then the commit of the data.
Commit ==
  /\ run.phase = "searched"
  /\ db' = [o \in Objects |-> Repaired(Cleared(tx[o], RunId))]
  /\ tx' = db'
  /\ run' = [run EXCEPT !.phase = "committed"]
  /\ UNCHANGED <<dirVars, runs, window>>

EndRun == /\ run' = Idle
          /\ window' = [o \in Objects |-> {}]

\* Slip: the watermark is read when the run ends.
FinalizeSucceededLate ==
  /\ run.phase = "committed"
  /\ runs' = [runs EXCEPT ![RunId].status = "succeeded",
                          ![RunId].watermark = UsnAt(run.dc, usn)]
  /\ EndRun
  /\ UNCHANGED <<dirVars, db, tx>>

\* finalize_sync_run('succeeded'), in a transaction of its own.
FinalizeSucceeded ==
  /\ run.phase = "committed"
  /\ runs' = [runs EXCEPT ![RunId].status = "succeeded",
                          ![RunId].watermark = run.high]
  /\ EndRun
  /\ UNCHANGED <<dirVars, db, tx>>

\* The run ends between the commit and finalize_sync_run(): Ctrl-C
\* ('aborted'), an error such as a lost database connection or an unreadable
\* highestCommittedUSN, which sync_run_check2 refuses ('failed'), or the end
\* of the process ('running').
LoseFinalize ==
  /\ run.phase = "committed"
  /\ \E s \in Unrecorded :
        runs' = [runs EXCEPT ![RunId].status = s]
  /\ EndRun
  /\ UNCHANGED <<dirVars, db, tx>>

\* The same, in a run that had an earlier successful one to go by.
LoseFinalizeDelta == run.prior # None /\ LoseFinalize

\* Any other end: LDAPCollectionError, a refused write, Ctrl-C, a crash.  The
\* transaction is rolled back; before OpenRun there is no sync_run row.
RollBack ==
  /\ Reading
  /\ \/ run.phase = "bound" /\ runs' = runs
     \/ /\ run.phase # "bound"
        /\ \E s \in Unrecorded :
              runs' = [runs EXCEPT ![RunId].status = s]
  /\ tx' = db
  /\ EndRun
  /\ UNCHANGED <<dirVars, db>>

-----------------------------------------------------------------------------
Init ==
  /\ dir = [o \in Objects |-> [st |-> "absent", attr |-> None, usn |-> 0]]
  /\ usn = 0
  /\ db = [o \in Objects |-> NoEntry]
  /\ tx = db
  /\ runs = <<>>
  /\ run = Idle
  /\ window = [o \in Objects |-> {}]

Directory ==
  \E o \in Objects : \/ CreateObject(o) \/ ModifyObject(o) \/ DeleteObject(o)
                     \/ RestoreObject(o) \/ PurgeTombstone(o)

Collect ==
  \/ Len(runs) < MaxRuns /\ \E c \in Started[Len(runs) + 1] : Bind(c)
  \/ OpenRun
  \/ \E o \in Objects : VisitMissing(o) \/ VisitUnchanged(o) \/ VisitChanged(o)
  \/ \E c \in OptionalClasses : EnumerationFails(c)
  \/ ReconcileAbsent
  \/ CollectDeleted
  \/ Commit
  \/ FinalizeSucceeded
  \/ RollBack

\* A run keeps to one controller, and a first run's success is recorded.
Next == Directory \/ Collect \/ LoseFinalizeDelta
Spec == Init /\ [][Next]_vars

\* The success of any run may go unrecorded.
SpecAnyEnd == Init /\ [][Directory \/ Collect \/ LoseFinalize]_vars

-----------------------------------------------------------------------------
(* What must hold.                                                         *)

Entry == [first : Nat, confirmed : Nat, deleted : BOOLEAN,
          attr : Attrs \cup {None, IsDeleted}, from : Nat, by : Nat,
          typed : Attrs \cup {None}]

DirEntry == [st : {"absent", "live", "deleted", "purged"}, attr : Attrs \cup {None}, usn : Nat]

SyncRun == [status : {"running", "succeeded", "failed", "aborted"},
            ident : Dcs \cup {None}, watermark : Nat \cup {None}, start : Nat]

RunVars == [phase : {"idle", "bound", "collecting", "reconciled", "searched", "committed"},
            dc : Dcs \cup {None}, start : Nat, high : Nat \cup {None},
            ident : Dcs \cup {None}, prior : Nat \cup {None}, ts : Nat,
            full : BOOLEAN, pending : SUBSET Objects, seen : SUBSET Objects,
            unread : SUBSET Objects]

DirOK ==
  /\ dir \in [Objects -> DirEntry]
  /\ \A o \in Objects : dir[o].st \in {"live", "deleted"} => dir[o].attr \in Attrs
  /\ usn \in Nat

\* directory_object_check1; both ids are those of rows of sync_run.
RowsOK(rows) ==
  /\ rows \in [Objects -> Entry]
  /\ \A o \in Objects : /\ rows[o].first <= rows[o].confirmed
                        /\ rows[o].confirmed <= Len(runs)

\* sync_run_check2
RunsOK ==
  /\ runs \in Seq(SyncRun)
  /\ \A r \in DOMAIN runs : runs[r].status = "succeeded" => runs[r].watermark # None

RunOK ==
  /\ run \in RunVars
  /\ run.phase # "idle" => run.dc # None /\ run.high # None
  /\ run.phase \notin {"idle", "bound"} => Len(runs) > 0

\* Types, and the CHECK constraints of directory_object and sync_run: a row
\* is confirmed no earlier than first seen, by a run that exists, and a run
\* succeeds only with a watermark.
TypeOK ==
  /\ DirOK
  /\ RowsOK(db)
  /\ RowsOK(tx)
  /\ RunsOK
  /\ RunOK
  /\ window \in [Objects -> SUBSET (Attrs \cup {None})]

\* The three places that say whether an object exists agree in every state
\* another session can read: directory_object.is_deleted, the current
\* version ({"isDeleted": true} or attributes) and the typed row the plugins
\* query.  Each is written by a different statement of a different step, and
\* restoring, deleting again and repairing all touch only some of them.
Agree(e) ==
  /\ e.first = 0 <=> e.attr = None
  /\ e.deleted <=> e.attr = IsDeleted
  /\ e.typed # None <=> (e.first # 0 /\ ~e.deleted)
  /\ e.typed # None => e.typed = e.attr

RowsAgree == \A o \in Objects : Agree(db[o])

\* A user the database still shows although its tombstone is already in the
\* directory will be found: its USN is not behind the watermark of any run a
\* later run could start from.  (Deletions during a run, objects the run saw
\* live first, runs that failed, runs against other controllers.)
NoDeletionBehindWatermark ==
  \A o \in Users :
    db[o].typed # None /\ dir[o].st \in {"deleted", "purged"} =>
      /\ dir[o].st = "deleted"
      /\ \A r \in Succeeded : runs[r].ident # None =>
            UsnAt(runs[r].ident, dir[o].usn) >= runs[r].watermark

\* Once a run's data is committed, the plugins see each object in a state it
\* really had at some moment of that run: no account that was gone before
\* the run began, none missing that was there throughout (restored ones
\* included), no outdated attributes.  What may keep its earlier report, and
\* nothing but that: an object restored while the run was reading, one of a
\* partition the controller does not hold, and one the run did not get to in
\* an optional class whose enumeration failed.  The docstring of
\* reconcile_absent_objects() and the comment on the retry policy know no such
\* class ("any LDAP failure aborts the run"); the code has several.
MirrorsDirectory ==
  run.phase = "committed" => \A o \in Objects : Reported(db[o]) \in window[o]

\* Committed history is only added to, also when the server's clock is set
\* back between runs: an object keeps the run that first saw it, and a
\* version starts later than the one it replaces.
HistoryStep ==
  \A o \in Objects : /\ db[o].first # 0 => db'[o].first = db[o].first
                     /\ db'[o].by # db[o].by => db'[o].from > db[o].from
HistoryKept == [][HistoryStep]_db

\* The collector implements DirectoryMirror: what is reported changes only
\* when a run publishes, all at once, and a run that fails, however far it
\* came, changes nothing of it.
Mirror == INSTANCE DirectoryMirror WITH
            Optional <- Sites \cup UNION OptionalClasses,
            Values <- Attrs \cup {None},
            Gone <- None,
            actual <- [o \in Objects |-> Visible(dir[o])],
            report <- [o \in Objects |-> Reported(db[o])],
            window <- [o \in Objects |-> IF Reading THEN window[o] ELSE {}],
            running <- Reading
ImplementsMirror == Mirror!Spec

\* schema_init.sql on sync_run: "A failed run still gets a row
\* (status=failed) with full diagnostic detail, but writes no version/edge
\* data."
FailedRunWritesNoData ==
  \A o \in Objects : db[o].by # 0 => runs[db[o].by].status # "failed"

=============================================================================
