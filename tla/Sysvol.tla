------------------------------- MODULE Sysvol --------------------------------
(***************************************************************************)
(* sysvol_collector.py and adprofiler.py's collect_sysvol_step(): what     *)
(* Group Policy objects set, read over SMB.  A run asked to (--sysvol)     *)
(* enumerates the GPOs by LDAP, reads the folder of each and NETLOGON file *)
(* by file, and syncs its tables behind a savepoint.  Whatever part of it  *)
(* fails, the run goes on and commits what else it has collected.          *)
(*                                                                         *)
(* gpo_setting_edge, gpo_preference_item_edge and sysvol_script_edge are   *)
(* one table here: they are carried forward and synced alike.  The run's   *)
(* variables and tables have the names they have in Edges.                 *)
(***************************************************************************)
EXTENDS EdgeRows, Sequences

CONSTANTS
  Gpos,
  Netlogon,    \* the other share, read after the folders of all GPOs
  Files,       \* pairs of a GPO or Netlogon and what a file in it sets
  Settings,    \* values: value_type and setting_value and the like
  MaxChanges,  \* bound: changes in the directory and the shares
  MaxRuns      \* bound: runs

VARIABLES
  ad,       \* exists: the GPOs in LDAP; content: what the files say
  changes,  \* changes made to it so far
  db,       \* committed rows: setting, folder (read_status of ad_gpo_sysvol),
            \* first (first_read_run_id), status of sysvol_collection_status
  tx,       \* the same as the run's transaction sees them
  runs,     \* runs begun
  run,      \* the running collector's variables
  held      \* history: values each file has had since the run began


-----------------------------------------------------------------------------
(* The directory and the shares.                                           *)

Change(d) ==
  /\ changes < MaxChanges
  /\ changes' = changes + 1
  /\ ad' = d
  /\ held' = IF run.at = 0 THEN held ELSE [k \in Files |-> held[k] \cup {d.content[k]}]
  /\ UNCHANGED <<db, tx, runs, run>>

CreateGpo(g) == g \notin ad.exists /\ Change([ad EXCEPT !.exists = @ \cup {g}])

\* With its folder.
DeleteGpo(g) ==
  /\ g \in ad.exists
  /\ Change([exists |-> ad.exists \ {g},
             content |-> [k \in Files |-> IF k[1] = g THEN None ELSE ad.content[k]]])

EditFile(k) ==
  /\ k[1] \in ad.exists \cup {Netlogon}
  /\ \E v \in (Settings \cup {None}) \ {ad.content[k]} : Change([ad EXCEPT !.content[k] = v])

-----------------------------------------------------------------------------
(* The run.                                                                *)

Order == <<"gpos", "share", "folders", "sync", "commit">>

NoSettings == [k \in Files |-> None]
NoneHeld == [k \in Files |-> {}]

Idle == [at |-> 0, sysvol |-> FALSE, found |-> {}, toRead |-> {}, desired |-> NoSettings,
         unreadable |-> {}, synced |-> FALSE]

At(step) == run.at > 0 /\ Order[run.at] = step
ToCommit == Len(Order)

Failed == [run |-> runs, how |-> "failed", read |-> FALSE, netlogon |-> FALSE]

Start ==
  /\ run.at = 0
  /\ runs < MaxRuns
  /\ runs' = runs + 1
  /\ \E asked \in BOOLEAN : run' = [Idle EXCEPT !.at = 1, !.sysvol = asked]
  /\ tx' = db
  /\ held' = [k \in Files |-> {ad.content[k]}]
  /\ UNCHANGED <<ad, changes, db>>

\* The LDAP collection of GPOs; without --sysvol there is nothing more to do.
EnumerateGpos ==
  /\ At("gpos")
  /\ run' = [run EXCEPT !.found = ad.exists, !.at = IF run.sysvol THEN @ + 1 ELSE ToCommit]
  /\ UNCHANGED <<ad, changes, db, tx, runs, held>>

\* Slip: the GPOs that were read before the failure, or none, are taken for
\* all there are (before v1.0.4).
FailureUnnoticed ==
  /\ At("gpos") /\ run.sysvol
  /\ run' = [run EXCEPT !.at = @ + 1]
  /\ UNCHANGED <<ad, changes, db, tx, runs, held>>

\* It fails (gpo_collection_failed).
EnumerateGposFails ==
  /\ At("gpos")
  /\ tx' = IF run.sysvol THEN [tx EXCEPT !.status = Failed] ELSE tx
  /\ run' = [run EXCEPT !.at = ToCommit]
  /\ UNCHANGED <<ad, changes, db, runs, held>>

\* SmbSysvolReader()
Connect ==
  /\ At("share")
  /\ run' = [run EXCEPT !.at = @ + 1,
                        !.toRead = {k \in Files : k[1] \in run.found \cup {Netlogon}}]
  /\ UNCHANGED <<ad, changes, db, tx, runs, held>>

ShareUnreachable ==
  /\ At("share")
  /\ tx' = [tx EXCEPT !.status = Failed]
  /\ run' = [run EXCEPT !.at = ToCommit]
  /\ UNCHANGED <<ad, changes, db, runs, held>>

After(rest) == IF rest = {} THEN run.at + 1 ELSE run.at

\* The folders of the GPOs come first.
Turn(k) == k[1] = Netlogon => \A j \in run.toRead : j[1] = Netlogon

\* One file of read_gpo_folder() or of NETLOGON; one that is not there says
\* nothing.
ReadFile(k) ==
  /\ At("folders") /\ k \in run.toRead /\ Turn(k)
  /\ run' = [run EXCEPT !.toRead = @ \ {k}, !.at = After(run.toRead \ {k}),
                        !.desired[k] = ad.content[k]]
  /\ UNCHANGED <<ad, changes, db, tx, runs, held>>

\* _GpoReadFailed: of a GPO with such a file nothing is used, of NETLOGON what
\* was read until then.
FileUnreadable(k) ==
  /\ At("folders") /\ k \in run.toRead /\ Turn(k)
  /\ LET rest == {j \in run.toRead : j[1] # k[1]} IN
       run' = [run EXCEPT !.toRead = rest, !.at = After(rest),
                          !.unreadable = @ \cup {k[1]},
                          !.desired = [j \in Files |-> IF j[1] = k[1] /\ k[1] # Netlogon THEN None
                                                       ELSE @[j]]]
  /\ UNCHANGED <<ad, changes, db, tx, runs, held>>

\* first_read_run_id of the row written for g, 0 if it is NULL or there is none.
FirstRead(g) ==
  IF g \notin run.found THEN 0
  ELSE IF tx.first[g] = 0 /\ g \notin run.unreadable THEN runs ELSE tx.first[g]

\* The rest of collect_sysvol().
SyncSysvol ==
  /\ At("sync")
  /\ LET unread == {k \in Files : k[1] \in run.unreadable /\ run.desired[k] = None}
         Status(g) == IF g \notin run.found THEN "no row"
                      ELSE IF g \in run.unreadable THEN "unreadable" ELSE "ok"
     IN  tx' = [setting |-> SyncEdges(tx.setting, Carried(tx.setting, run.desired, unread), runs),
                folder |-> [g \in Gpos |-> Status(g)],
                first |-> [g \in Gpos |-> FirstRead(g)],
                status |-> [run |-> runs, how |-> IF run.unreadable = {} THEN "ok" ELSE "partial",
                            read |-> \E g \in Gpos : Status(g) = "ok",
                            netlogon |-> Netlogon \notin run.unreadable]]
  /\ run' = [run EXCEPT !.at = @ + 1, !.synced = TRUE]
  /\ UNCHANGED <<ad, changes, db, runs, held>>

\* Any other exception, of the database or not: back to the savepoint, where
\* even the status may fail to be written.
SysvolFails ==
  /\ At("folders") \/ At("sync")
  /\ tx' \in {[tx EXCEPT !.status = Failed], tx}
  /\ run' = [run EXCEPT !.at = ToCommit, !.toRead = {}]
  /\ UNCHANGED <<ad, changes, db, runs, held>>

Commit ==
  /\ At("commit")
  /\ db' = tx
  /\ run' = Idle
  /\ held' = NoneHeld
  /\ UNCHANGED <<ad, changes, tx, runs>>

RollBack ==
  /\ run.at > 0
  /\ tx' = db
  /\ run' = Idle
  /\ held' = NoneHeld
  /\ UNCHANGED <<ad, changes, db, runs>>

-----------------------------------------------------------------------------
Empty == [setting |-> NoSettings, folder |-> [g \in Gpos |-> "no row"], first |-> [g \in Gpos |-> 0],
          status |-> [run |-> 0, how |-> "failed", read |-> FALSE, netlogon |-> FALSE]]

Init ==
  /\ \E e \in SUBSET Gpos, v \in Settings :
        ad = [exists |-> e,
              content |-> [k \in Files |-> IF k[1] \in e \cup {Netlogon} THEN v ELSE None]]
  /\ changes = 0
  /\ db = Empty
  /\ tx = db
  /\ runs = 0
  /\ run = Idle
  /\ held = NoneHeld

Directory ==
  \/ \E g \in Gpos : CreateGpo(g) \/ DeleteGpo(g)
  \/ \E k \in Files : EditFile(k)

Collect ==
  \/ Start
  \/ EnumerateGpos
  \/ EnumerateGposFails
  \/ Connect
  \/ ShareUnreachable
  \/ \E k \in Files : ReadFile(k) \/ FileUnreadable(k)
  \/ SyncSysvol
  \/ SysvolFails
  \/ Commit
  \/ RollBack

Next == Directory \/ Collect

-----------------------------------------------------------------------------
(* What must hold.                                                         *)

SysvolRows ==
  [setting : [Files -> EdgesOf(Settings) \cup {None}],
   folder : [Gpos -> {"no row", "ok", "unreadable"}],
   first : [Gpos -> Nat],
   status : [run : Nat, how : {"ok", "partial", "failed"}, read : BOOLEAN, netlogon : BOOLEAN]]

\* What is known of a GPO was first read by some run, and no later one is
\* taken for it: "appeared since" (plugin 11021) compares the two.
FirstReadBefore(rows) ==
  \A k \in Files : rows.setting[k] # None /\ k[1] \in Gpos =>
    rows.first[k[1]] \in 1..rows.setting[k].since

\* Types, and the dates of settings.
TypeOK ==
  /\ ad.exists \subseteq Gpos /\ ad.content \in [Files -> Settings \cup {None}]
  /\ db \in SysvolRows /\ FirstReadBefore(db)
  /\ tx \in SysvolRows /\ FirstReadBefore(tx)
  /\ runs \in 0..MaxRuns
  /\ run.at \in 0..Len(Order)
  /\ run.toRead \subseteq Files
  /\ run.desired \in [Files -> Settings \cup {None}]

\* Not reading is not losing: a run without --sysvol, one that did not come
\* to the shares or failed there keeps everything; a GPO with one unreadable
\* file keeps all it had, NETLOGON all it was not found to have otherwise.
UnreadKept ==
  Commit =>
    \A k \in Files :
      /\ ~run.synced => db'.setting[k] = db.setting[k]
      /\ k[1] \in run.unreadable =>
           \/ db'.setting[k] = db.setting[k]
           \/ k[1] = Netlogon /\ FlagOf(db'.setting[k]) \in held[k]

\* adaudit.py's probe of the data source: the run it evaluates has read it.
Assessed(rows) ==
  /\ rows.status.run = runs
  /\ rows.status.how = "ok" \/ (rows.status.how = "partial" /\ rows.status.read)

SaidToBeRead(rows, f) ==
  IF f = Netlogon THEN rows.status.netlogon ELSE rows.folder[f] # "unreadable"

\* What is assessed is what the shares said during the run, but for the
\* folders ad_gpo_sysvol and the status declare unread: nothing collected by
\* an earlier run passes for today's.
Mirrored ==
  Commit =>
    (Assessed(db') =>
       \A k \in Files : SaidToBeRead(db', k[1]) => FlagOf(db'.setting[k]) \in held[k])

\* What was set all through the run is not re-dated, nor is the run forgotten
\* that first read a GPO that is still there.
NotFalselyNew ==
  Commit =>
    /\ Kept(db.setting, db'.setting, held, Files)
    /\ \A g \in run.found : db.first[g] # 0 => db'.first[g] = db.first[g]

=============================================================================
