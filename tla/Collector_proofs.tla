--------------------------- MODULE Collector_proofs ---------------------------
(***************************************************************************)
(* Theorems about the collector, for any number of objects, controllers,   *)
(* runs and directory changes.                                             *)
(***************************************************************************)
EXTENDS Collector, SequenceTheorems, TLAPS

-----------------------------------------------------------------------------
(* What the operators on rows give back.                                   *)

LEMMA RowTypes ==
  ASSUME NEW e \in Entry, NEW r \in Nat, NEW ts \in Nat
  PROVE  /\ NoEntry \in Entry
         /\ MarkedDeleted(e, r, ts) \in Entry
         /\ Repaired(Cleared(e, r)) \in Entry
  BY DEF Entry, NoEntry, Versioned, TypedAs, MarkedDeleted, Repaired, Cleared

\* An upserted row is confirmed by the run, never before it was first seen.
LEMMA UpsertedIds ==
  ASSUME NEW e \in Entry, NEW r \in Nat, e.first <= e.confirmed, e.confirmed <= r
  PROVE  /\ Upserted(e, r) \in Entry
         /\ Upserted(e, r).first = IF e.first = 0 THEN r ELSE e.first
         /\ Upserted(e, r).confirmed = r
         /\ Upserted(e, r).first <= r
<1> DEFINE f == IF e.first = 0 THEN r ELSE e.first
<1>1. f \in Nat /\ f <= r
  BY DEF Entry
<1>2. Upserted(e, r) = [e EXCEPT !.first = f, !.confirmed = r]
  BY DEF Upserted
<1> HIDE DEF f
<1>3. /\ Upserted(e, r) \in Entry
      /\ Upserted(e, r).first = f
      /\ Upserted(e, r).confirmed = r
  BY <1>1, <1>2 DEF Entry
<1> QED
  BY <1>1, <1>3 DEF f

\* The other statements leave those two columns alone.
LEMMA KeptIds ==
  ASSUME NEW e \in Entry, NEW r \in Nat, NEW ts \in Nat, NEW a
  PROVE  /\ \A x \in {TypedAs(Versioned(e, r, ts, a), a), MarkedDeleted(e, r, ts),
                      Repaired(Cleared(e, r))} :
              x.first = e.first /\ x.confirmed = e.confirmed
  BY DEF Entry, Versioned, TypedAs, MarkedDeleted, Repaired, Cleared

LEMMA WindowTypes ==
  ASSUME TypeOK, NEW o \in Objects
  PROVE  /\ Visible(dir[o]) \in Attrs \cup {None}
         /\ Reported(db[o]) \in Attrs \cup {None}
  BY DEF TypeOK, DirOK, RowsOK, DirEntry, Entry, Visible, Reported

LEMMA TypeInit == Init => TypeOK
<1> SUFFICES ASSUME Init PROVE TypeOK
  OBVIOUS
<1>1. DirOK
  BY DEF Init, DirOK, DirEntry
<1>2. RowsOK(db) /\ RowsOK(tx)
  BY DEF Init, RowsOK, Entry, NoEntry
<1>3. RunsOK /\ RunOK
  BY DEF Init, RunsOK, RunOK, RunVars, Idle
<1> QED
  BY <1>1, <1>2, <1>3 DEF Init, TypeOK

\* A change of the directory keeps the types of everything.
LEMMA TypeSetObject ==
  ASSUME TypeOK, NEW o \in Objects, NEW st \in {"live", "deleted"}, NEW a \in Attrs,
         SetObject(o, [dir[o] EXCEPT !.st = st, !.attr = a])
  PROVE  TypeOK'
<1> DEFINE x == [dir[o] EXCEPT !.st = st, !.attr = a, !.usn = usn + 1]
<1>0. dir' = [dir EXCEPT ![o] = x] /\ usn' = usn + 1
  BY DEF SetObject, TypeOK, DirOK, DirEntry
<1>1. x \in DirEntry /\ x.st = st /\ x.attr = a
  <2>1. dir[o] \in DirEntry /\ usn + 1 \in Nat
    BY DEF TypeOK, DirOK
  <2> QED
    BY <2>1 DEF DirEntry
<1>2. DirOK'
  BY <1>0, <1>1 DEF TypeOK, DirOK
<1>3. /\ Visible(x) \in Attrs \cup {None}
      /\ Reported(db[o]) \in Attrs \cup {None}
  BY <1>1, WindowTypes DEF Visible
<1>4. window' \in [Objects -> SUBSET (Attrs \cup {None})]
  <2>1. dir'[o] = x
    BY <1>0 DEF TypeOK, DirOK
  <2> QED
    BY <1>3, <2>1 DEF SetObject, TypeOK
<1>5. (RowsOK(db) /\ RowsOK(tx) /\ RunsOK /\ RunOK)'
  BY DEF SetObject, TypeOK, RowsOK, RunsOK, RunOK
<1> QED
  BY <1>2, <1>4, <1>5 DEF TypeOK

LEMMA TypeDirectory == TypeOK /\ Directory => TypeOK'
<1> SUFFICES ASSUME TypeOK, NEW o \in Objects,
                    \/ CreateObject(o) \/ ModifyObject(o) \/ DeleteObject(o)
                    \/ RestoreObject(o) \/ PurgeTombstone(o)
             PROVE  TypeOK'
  BY DEF Directory
<1> USE DEF TypeOK, DirOK, DirEntry
<1>1. CASE CreateObject(o)
  BY <1>1, TypeSetObject DEF CreateObject
<1>2. CASE ModifyObject(o)
  <2>1. PICK a \in Attrs : SetObject(o, [dir[o] EXCEPT !.attr = a])
    BY <1>2 DEF ModifyObject
  <2>2. [dir[o] EXCEPT !.attr = a] = [dir[o] EXCEPT !.st = "live", !.attr = a]
    BY <1>2 DEF ModifyObject
  <2> QED
    BY <2>1, <2>2, TypeSetObject
<1>3. CASE DeleteObject(o)
  <2>1. [dir[o] EXCEPT !.st = "deleted"]
          = [dir[o] EXCEPT !.st = "deleted", !.attr = dir[o].attr]
    OBVIOUS
  <2> QED
    BY <1>3, <2>1, TypeSetObject DEF DeleteObject
<1>4. CASE RestoreObject(o)
  <2>1. [dir[o] EXCEPT !.st = "live"]
          = [dir[o] EXCEPT !.st = "live", !.attr = dir[o].attr]
    OBVIOUS
  <2> QED
    BY <1>4, <2>1, TypeSetObject DEF RestoreObject
<1>5. CASE PurgeTombstone(o)
  <2>1. DirOK'
    BY <1>5 DEF PurgeTombstone
  <2>2. (RowsOK(db) /\ RowsOK(tx) /\ RunsOK /\ RunOK)'
    BY <1>5 DEF PurgeTombstone, RowsOK, RunsOK, RunOK
  <2> QED
    BY <1>5, <2>1, <2>2 DEF PurgeTombstone
<1> QED
  BY <1>1, <1>2, <1>3, <1>4, <1>5

\* Ending the last run, or starting one, leaves sync_run well typed.
LEMMA RunsExcept ==
  ASSUME RunsOK, Len(runs) > 0,
         NEW s \in SyncRun, s.status = "succeeded" => s.watermark # None,
         runs' = [runs EXCEPT ![RunId] = s]
  PROVE  RunsOK' /\ Len(runs') = Len(runs)
<1>1. RunId \in 1..Len(runs) /\ DOMAIN runs = 1..Len(runs)
  BY DEF RunsOK, RunId
<1>2. runs' \in Seq(SyncRun) /\ Len(runs') = Len(runs)
  BY <1>1, ExceptSeq DEF RunsOK
<1>3. \A r \in DOMAIN runs' : runs'[r].status = "succeeded" => runs'[r].watermark # None
  BY <1>1 DEF RunsOK
<1> QED
  BY <1>2, <1>3 DEF RunsOK

LEMMA RunsAppend ==
  ASSUME RunsOK, NEW s \in SyncRun, s.status # "succeeded", runs' = Append(runs, s)
  PROVE  RunsOK' /\ Len(runs') = Len(runs) + 1
<1>1. /\ runs' \in Seq(SyncRun)
      /\ Len(runs') = Len(runs) + 1
      /\ \A r \in 1..Len(runs) : runs'[r] = runs[r]
      /\ runs'[Len(runs) + 1] = s
      /\ Len(runs) \in Nat
  BY AppendProperties, LenProperties DEF RunsOK
<1>2. DOMAIN runs' = 1..(Len(runs) + 1) /\ DOMAIN runs = 1..Len(runs)
  BY <1>1 DEF RunsOK
<1>3. \A r \in DOMAIN runs' : runs'[r].status = "succeeded" => runs'[r].watermark # None
  <2> SUFFICES ASSUME NEW r \in 1..(Len(runs) + 1), runs'[r].status = "succeeded"
               PROVE  runs'[r].watermark # None
    BY <1>2
  <2>1. CASE r = Len(runs) + 1
    BY <2>1, <1>1
  <2>2. CASE r \in 1..Len(runs)
    BY <2>2, <1>1, <1>2 DEF RunsOK
  <2> QED
    BY <1>1, <2>1, <2>2
<1> QED
  BY <1>1, <1>3 DEF RunsOK

\* The three places a run's row of sync_run is written at its end.
LEMMA RunsStatus ==
  ASSUME RunsOK, Len(runs) > 0, NEW st \in Unrecorded,
         runs' = [runs EXCEPT ![RunId].status = st]
  PROVE  RunsOK' /\ Len(runs') = Len(runs)
<1> DEFINE s == [runs[RunId] EXCEPT !.status = st]
<1>1. runs[RunId] \in SyncRun
  BY DEF RunsOK, RunId
<1>2. s \in SyncRun /\ s.status = st
  BY <1>1, UnrecordedAssumption DEF SyncRun
<1>3. runs' = [runs EXCEPT ![RunId] = s]
  OBVIOUS
<1> QED
  BY <1>2, <1>3, RunsExcept, UnrecordedAssumption

LEMMA RunsSucceeded ==
  ASSUME RunsOK, Len(runs) > 0, run.high \in Nat,
         runs' = [runs EXCEPT ![RunId].status = "succeeded",
                              ![RunId].watermark = run.high]
  PROVE  RunsOK' /\ Len(runs') = Len(runs)
<1> DEFINE s == [runs[RunId] EXCEPT !.status = "succeeded", !.watermark = run.high]
<1>1. runs[RunId] \in SyncRun /\ RunId \in DOMAIN runs
  BY DEF RunsOK, RunId
<1>2. s \in SyncRun /\ s.watermark = run.high
  BY <1>1 DEF SyncRun
<1>3. runs' = [runs EXCEPT ![RunId] = s]
  BY <1>1 DEF RunsOK
<1> QED
  BY <1>2, <1>3, RunsExcept, ValuesAssumption

\* A run that ends leaves no variables and no window behind.
LEMMA EndTypes ==
  ASSUME EndRun, RunsOK, Len(runs) \in Nat
  PROVE  RunOK' /\ window' \in [Objects -> SUBSET (Attrs \cup {None})]
  BY DEF EndRun, RunOK, RunVars, Idle

\* Committed rows stay well typed while sync_run does not shrink.
LEMMA RowsStay ==
  ASSUME RowsOK(db), RowsOK(tx), RunsOK, RunsOK', Len(runs) <= Len(runs'), UNCHANGED db
  PROVE  RowsOK(db)' /\ (tx' = tx => RowsOK(tx)') /\ (tx' = db => RowsOK(tx)')
<1>1. Len(runs) \in Nat /\ Len(runs') \in Nat
  BY LenProperties DEF RunsOK
<1>2. \A o \in Objects : /\ db[o].confirmed \in Nat
                         /\ tx[o].confirmed \in Nat
  BY DEF RowsOK, Entry
<1> QED
  BY <1>1, <1>2 DEF RowsOK

LEMMA TypeVisit ==
  ASSUME TypeOK, NEW o \in Objects, VisitMissing(o) \/ VisitUnchanged(o) \/ VisitChanged(o)
  PROVE  TypeOK'
<1>0. RunId \in Nat /\ run.ts \in Nat /\ RunId = Len(runs)
  BY LenProperties DEF TypeOK, RunsOK, RunOK, RunVars, RunId
<1>1. (DirOK /\ RunsOK /\ RowsOK(db))' /\ runs' = runs
  BY DEF VisitMissing, VisitUnchanged, VisitChanged, Visit, dirVars, TypeOK, DirOK, RunsOK,
         RowsOK
<1>2. RunOK' /\ window' = window
  <2>1. window' = window /\ run \in RunVars
    BY DEF VisitMissing, VisitUnchanged, VisitChanged, Visit, TypeOK, RunOK
  <2>2. PICK p \in SUBSET Objects, s \in SUBSET Objects :
          run' = [run EXCEPT !.pending = p, !.seen = s]
    <3>1. CASE VisitMissing(o)
      <4>1. run' = [run EXCEPT !.pending = run.pending \ {o}, !.seen = run.seen]
        BY <3>1, <2>1 DEF VisitMissing, RunVars
      <4> QED
        BY <4>1, <2>1 DEF RunVars
    <3>2. CASE Visit(o)
      BY <3>2, <2>1 DEF Visit, RunVars
    <3> QED
      BY <3>1, <3>2 DEF VisitUnchanged, VisitChanged
  <2> QED
    BY <2>1, <2>2, <1>1 DEF TypeOK, RunOK, RunVars
<1>3. tx[o] \in Entry /\ tx[o].first <= tx[o].confirmed /\ tx[o].confirmed <= RunId
  BY <1>0 DEF TypeOK, RowsOK
<1>4. CASE VisitMissing(o)
  BY <1>4, <1>1, <1>2 DEF VisitMissing, TypeOK, RowsOK
<1>5. CASE VisitUnchanged(o)
  <2> DEFINE e == Upserted(tx[o], RunId)
  <2>1. e \in Entry /\ e.first <= e.confirmed /\ e.confirmed <= RunId
    BY <1>0, <1>3, UpsertedIds
  <2>2. tx' = [tx EXCEPT ![o] = e]
    BY <1>5 DEF VisitUnchanged
  <2> HIDE DEF e
  <2>3. RowsOK(tx)'
    BY <2>1, <2>2, <1>0, <1>1 DEF TypeOK, RowsOK
  <2> QED
    BY <2>3, <1>1, <1>2 DEF TypeOK
<1>6. CASE VisitChanged(o)
  <2> DEFINE u == Upserted(tx[o], RunId)
             e == TypedAs(Versioned(u, RunId, run.ts, dir[o].attr), dir[o].attr)
  <2>0. dir[o].attr \in Attrs
    BY <1>6 DEF VisitChanged, Visit, TypeOK, DirOK
  <2>1. u \in Entry /\ u.first <= u.confirmed /\ u.confirmed <= RunId
    BY <1>0, <1>3, UpsertedIds
  <2>2. tx' = [tx EXCEPT ![o] = e]
    BY <1>6 DEF VisitChanged
  <2> HIDE DEF u
  <2>3. e \in Entry /\ e.first = u.first /\ e.confirmed = u.confirmed
    BY <2>0, <2>1, <1>0 DEF Entry, Versioned, TypedAs
  <2> HIDE DEF e
  <2>4. RowsOK(tx)'
    BY <2>1, <2>2, <2>3, <1>0, <1>1 DEF TypeOK, RowsOK
  <2> QED
    BY <2>4, <1>1, <1>2 DEF TypeOK
<1> QED
  BY <1>4, <1>5, <1>6

\* The steps that rewrite the rows of all objects at once keep their types.
LEMMA TypeRewrite ==
  ASSUME TypeOK, NEW f \in [Objects -> Entry],
         \A o \in Objects : f[o].first = tx[o].first /\ f[o].confirmed = tx[o].confirmed,
         tx' = f, db' \in {db, f}, NEW ph \in {"reconciled", "searched", "committed"},
         run.phase \notin {"idle", "bound"}, run' = [run EXCEPT !.phase = ph],
         UNCHANGED <<dirVars, runs, window>>
  PROVE  TypeOK'
<1>1. RowsOK(tx)' /\ RowsOK(db)'
  BY DEF TypeOK, RowsOK
<1>2. RunOK'
  BY DEF TypeOK, RunOK, RunVars
<1> QED
  BY <1>1, <1>2 DEF TypeOK, DirOK, RunsOK, dirVars

\* An enumeration that fails costs the run its view of the class' objects and
\* nothing else.
LEMMA FailsEffect ==
  ASSUME TypeOK, NEW c \in OptionalClasses, EnumerationFails(c)
  PROVE  /\ UNCHANGED <<dir, usn, db, tx, runs>> /\ RunId' = RunId
         /\ c \subseteq Objects
         /\ run.phase = "collecting" /\ run' \in RunVars
         /\ run' = [run EXCEPT !.pending = run.pending \ c, !.unread = run.unread \cup c]
         /\ run'.phase = run.phase /\ run'.dc = run.dc /\ run'.start = run.start
         /\ run'.high = run.high /\ run'.ident = run.ident /\ run'.prior = run.prior
         /\ run'.ts = run.ts /\ run'.seen = run.seen
         /\ run'.pending = run.pending \ c /\ run'.unread = run.unread \cup c
         /\ window' = [o \in Objects |-> IF o \in c \ run.seen
                                        THEN window[o] \cup {Reported(db[o])} ELSE window[o]]
<1>1. c \subseteq Objects
  BY OptionalAssumption
<1>2. run \in RunVars
  BY DEF TypeOK, RunOK
<1>3. run' = [run EXCEPT !.pending = run.pending \ c, !.unread = run.unread \cup c]
  BY DEF EnumerationFails
<1>4. run' \in RunVars
  BY <1>1, <1>2, <1>3 DEF RunVars
<1> QED
  BY <1>1, <1>2, <1>3, <1>4 DEF EnumerationFails, dirVars, RunVars, RunId

LEMMA TypeFails ==
  ASSUME TypeOK, NEW c \in OptionalClasses, EnumerationFails(c)
  PROVE  TypeOK'
<1>0. /\ UNCHANGED <<dir, usn, db, tx, runs>>
      /\ window' = [o \in Objects |-> IF o \in c \ run.seen
                                     THEN window[o] \cup {Reported(db[o])} ELSE window[o]]
  BY FailsEffect
<1>1. window' \in [Objects -> SUBSET (Attrs \cup {None})]
  <2>1. \A o \in Objects : /\ window[o] \in SUBSET (Attrs \cup {None})
                           /\ Reported(db[o]) \in Attrs \cup {None}
    BY WindowTypes DEF TypeOK
  <2> HIDE DEF TypeOK
  <2> QED
    BY <1>0, <2>1
<1>2. RunOK'
  BY FailsEffect DEF TypeOK, RunOK
<1>3. (DirOK /\ RowsOK(db) /\ RowsOK(tx) /\ RunsOK)'
  BY <1>0 DEF TypeOK, DirOK, RowsOK, RunsOK
<1> QED
  BY <1>1, <1>2, <1>3 DEF TypeOK

LEMMA TypeCollect == TypeOK /\ (Collect \/ LoseFinalizeDelta) => TypeOK'
<1> SUFFICES ASSUME TypeOK, Collect \/ LoseFinalizeDelta
             PROVE  TypeOK'
  OBVIOUS
<1>0. /\ Len(runs) \in Nat /\ RunId = Len(runs) /\ RunsOK /\ run \in RunVars
      /\ run.ts \in Nat
      /\ run.phase \notin {"idle", "bound"} => Len(runs) > 0
      /\ \A o \in Objects : tx[o] \in Entry /\ db[o] \in Entry
  BY LenProperties DEF TypeOK, RunsOK, RunOK, RowsOK, RunId, RunVars
<1>1. ASSUME Len(runs) < MaxRuns, NEW c \in Started[Len(runs) + 1], Bind(c)
      PROVE  TypeOK'
  <2>1. c \in [dc : Dcs, known : BOOLEAN, ts : Nat \ {0}, full : BOOLEAN]
    BY <1>0, <1>1, NumbersAssumption
  <2>2. UsnAt(c.dc, usn) \in Nat /\ UsnAt(c.dc, usn) # None
    BY <2>1, NumbersAssumption, ValuesAssumption DEF UsnAt, TypeOK, DirOK
  <2>3. RunOK'
    BY <1>1, <2>1, <2>2, ValuesAssumption DEF Bind, Idle, TypeOK, DirOK, RunOK, RunVars
  <2>4. window' \in [Objects -> SUBSET (Attrs \cup {None})]
    BY <1>1, WindowTypes DEF Bind
  <2> QED
    BY <1>1, <2>3, <2>4 DEF Bind, TypeOK, DirOK, RunsOK, RowsOK, dirVars
<1>2. CASE OpenRun
  <2>1. PICK prior \in PriorWatermark(run.ident) :
          run' = [run EXCEPT !.phase = "collecting", !.prior = prior, !.pending = Objects]
    BY <1>2 DEF OpenRun
  <2>2. prior \in Nat \cup {None}
    <3>1. \A r \in Succeeded : runs[r].watermark \in Nat \cup {None}
      <4>1. \A r \in DOMAIN runs : runs[r] \in SyncRun
        BY <1>0 DEF RunsOK
      <4> QED
        BY <4>1 DEF Succeeded, SyncRun
    <3> QED
      BY <3>1 DEF PriorWatermark
  <2> DEFINE s == [status |-> "running", ident |-> run.ident, watermark |-> None,
                   start |-> run.start]
  <2>3. s \in SyncRun /\ s.status # "succeeded" /\ runs' = Append(runs, s)
    BY <1>0, <1>2 DEF OpenRun, SyncRun, RunVars
  <2>4. RunsOK' /\ Len(runs') = Len(runs) + 1
    BY <1>0, <2>3, RunsAppend
  <2>5. (RowsOK(db) /\ RowsOK(tx))'
    BY <1>0, <1>2, <2>4, RowsStay DEF OpenRun, TypeOK
  <2>6. RunOK'
    <3>1. run.phase = "bound" /\ run.dc # None /\ run.high # None
      BY <1>2 DEF OpenRun, TypeOK, RunOK
    <3>2. run' \in RunVars /\ run'.dc = run.dc /\ run'.high = run.high
      BY <1>0, <2>1, <2>2 DEF RunVars
    <3> QED
      BY <1>0, <2>4, <3>1, <3>2 DEF RunOK
  <2> QED
    BY <1>2, <2>4, <2>5, <2>6 DEF OpenRun, TypeOK, DirOK, dirVars
<1>3. ASSUME NEW o \in Objects, VisitMissing(o) \/ VisitUnchanged(o) \/ VisitChanged(o)
      PROVE  TypeOK'
  BY <1>3, TypeVisit
<1>4. CASE ReconcileAbsent
  <2> DEFINE f == [o \in Objects |-> IF o \in Absent
                                     THEN MarkedDeleted(tx[o], RunId, run.ts) ELSE tx[o]]
  <2>1. f \in [Objects -> Entry]
    BY <1>0, RowTypes
  <2>2. \A o \in Objects : f[o].first = tx[o].first /\ f[o].confirmed = tx[o].confirmed
    BY <1>0, KeptIds
  <2>3. tx' = f /\ db' = db /\ run' = [run EXCEPT !.phase = "reconciled"]
    BY <1>4 DEF ReconcileAbsent
  <2> HIDE DEF f
  <2> QED
    BY <1>4, <2>1, <2>2, <2>3, TypeRewrite DEF ReconcileAbsent
<1>5. CASE CollectDeleted
  <2> DEFINE f == [o \in Objects |-> IF o \in NewlyDeleted
                                     THEN MarkedDeleted(tx[o], RunId, run.ts) ELSE tx[o]]
  <2>1. f \in [Objects -> Entry]
    BY <1>0, RowTypes
  <2>2. \A o \in Objects : f[o].first = tx[o].first /\ f[o].confirmed = tx[o].confirmed
    BY <1>0, KeptIds
  <2>3. tx' = f /\ db' = db /\ run' = [run EXCEPT !.phase = "searched"]
    BY <1>5 DEF CollectDeleted
  <2> HIDE DEF f
  <2> QED
    BY <1>5, <2>1, <2>2, <2>3, TypeRewrite DEF CollectDeleted
<1>6. CASE Commit
  <2> DEFINE f == [o \in Objects |-> Repaired(Cleared(tx[o], RunId))]
  <2>1. f \in [Objects -> Entry]
    BY <1>0, RowTypes
  <2>2. \A o \in Objects : f[o].first = tx[o].first /\ f[o].confirmed = tx[o].confirmed
    BY <1>0, KeptIds
  <2>3. tx' = f /\ db' = f /\ run' = [run EXCEPT !.phase = "committed"]
    BY <1>6 DEF Commit
  <2> HIDE DEF f
  <2> QED
    BY <1>6, <2>1, <2>2, <2>3, TypeRewrite DEF Commit
<1>7. CASE FinalizeSucceeded
  <2>1. run.high \in Nat
    BY <1>0, <1>7 DEF FinalizeSucceeded, TypeOK, RunOK, RunVars
  <2>2. RunsOK' /\ Len(runs') = Len(runs)
    BY <1>0, <1>7, <2>1, RunsSucceeded DEF FinalizeSucceeded
  <2> QED
    BY <1>0, <1>7, <2>2, EndTypes, RowsStay DEF FinalizeSucceeded, TypeOK, DirOK, dirVars
<1>8. CASE LoseFinalizeDelta
  <2>1. RunsOK' /\ Len(runs') = Len(runs)
    BY <1>0, <1>8, RunsStatus DEF LoseFinalizeDelta, LoseFinalize
  <2> QED
    BY <1>0, <1>8, <2>1, EndTypes, RowsStay
    DEF LoseFinalizeDelta, LoseFinalize, TypeOK, DirOK, dirVars
<1>9. CASE RollBack
  <2>1. RunsOK' /\ Len(runs') = Len(runs)
    <3>1. CASE runs' = runs
      BY <1>0, <3>1 DEF RunsOK
    <3>2. CASE run.phase # "bound" /\ \E s \in Unrecorded :
                 runs' = [runs EXCEPT ![RunId].status = s]
      BY <1>0, <1>9, <3>2, RunsStatus DEF RollBack, Reading
    <3> QED
      BY <1>9, <3>1, <3>2 DEF RollBack
  <2> QED
    BY <1>0, <1>9, <2>1, EndTypes, RowsStay DEF RollBack, TypeOK, DirOK, dirVars
<1>10. ASSUME NEW c \in OptionalClasses, EnumerationFails(c)
       PROVE  TypeOK'
  BY <1>10, TypeFails
<1> QED
  BY <1>1, <1>2, <1>3, <1>4, <1>5, <1>6, <1>7, <1>8, <1>9, <1>10 DEF Collect

LEMMA TypeNext == TypeOK /\ [Next]_vars => TypeOK'
<1> SUFFICES ASSUME TypeOK, [Next]_vars PROVE TypeOK'
  OBVIOUS
<1>1. CASE UNCHANGED vars
  BY <1>1 DEF vars, TypeOK, DirOK, RowsOK, RunsOK, RunOK
<1> QED
  BY <1>1, TypeDirectory, TypeCollect DEF Next

\* Every variable keeps its type, and the rows the CHECK constraints of the
\* schema: the row constraints never refuse what the collector writes.
THEOREM TypeCorrect == Spec => []TypeOK
  BY TypeInit, TypeNext, PTL DEF Spec

-----------------------------------------------------------------------------
(* The rows agree, and history is kept.  In the middle of a run an object  *)
(* that has come back is still flagged deleted while its version and typed *)
(* row are live again: RowsAgree is about committed rows, and needs to be  *)
(* strengthened by what the run's own transaction may look like.           *)

InProgress == run.phase \in {"collecting", "reconciled", "searched"}

\* An uncommitted row e of an object whose committed row is d, in run r.
InTx(e, d, r) ==
  /\ e.first = 0 <=> e.attr = None
  /\ e.typed # None <=> (e.attr # None /\ e.attr # IsDeleted)
  /\ e.typed # None => e.typed = e.attr
  /\ e.attr = IsDeleted => e.deleted /\ e.confirmed # r
  /\ e.deleted => e.attr = IsDeleted \/ e.confirmed = r
  /\ e.attr = None => e.from = 0
  /\ d.first # 0 => e.first = d.first
  /\ (e.by = d.by /\ e.from = d.from) \/ e.from > d.from

Committed(d) ==
  /\ Agree(d)
  /\ d.attr = None => d.from = 0

RowsInv ==
  /\ \A o \in Objects : Committed(db[o])
  /\ ~InProgress => tx = db
  /\ InProgress => \A o \in Objects : /\ InTx(tx[o], db[o], RunId)
                                      /\ tx[o].confirmed = RunId => o \in run.seen
  /\ run.phase # "idle" => run.ts > 0

\* A transaction starts from the committed rows, none confirmed by its run.
LEMMA InTxStart ==
  ASSUME NEW d \in Entry, Committed(d), NEW r \in Nat, d.confirmed < r
  PROVE  InTx(d, d, r)
  BY ValuesAssumption DEF Entry, Committed, Agree, InTx

\* A row confirmed with the contents it has.
LEMMA InTxUpserted ==
  ASSUME NEW e \in Entry, NEW d \in Entry, NEW r \in Nat, InTx(e, d, r),
         e.first <= e.confirmed, e.confirmed <= r, e.attr \in Attrs
  PROVE  InTx(Upserted(e, r), d, r)
<1> DEFINE u == Upserted(e, r)
<1>1. /\ u.first = IF e.first = 0 THEN r ELSE e.first
      /\ u.confirmed = r
  BY UpsertedIds
<1>2. /\ u.attr = e.attr /\ u.typed = e.typed /\ u.deleted = e.deleted
      /\ u.from = e.from /\ u.by = e.by
  BY DEF Upserted, Entry
<1>3. e.first # 0
  BY ValuesAssumption DEF InTx
<1> HIDE DEF u
<1>4. InTx(u, d, r)
  BY <1>1, <1>2, <1>3, ValuesAssumption DEF InTx
<1> QED
  BY <1>4 DEF u

\* MayVersion makes the new version start later than the one it closes.
LEMMA MayVersionLater ==
  ASSUME NEW e \in Entry, NEW d \in Entry, NEW r, InTx(e, d, r), NEW ts \in Nat, ts > 0,
         MayVersion(e, ts)
  PROVE  ts > e.from /\ ts > d.from
  BY DEF Entry, InTx, MayVersion

\* A new version of an object that is there.
LEMMA InTxVersioned ==
  ASSUME NEW e \in Entry, NEW d \in Entry, NEW r \in Nat, InTx(e, d, r), r > 0,
         e.first <= e.confirmed, e.confirmed <= r, NEW a \in Attrs,
         NEW ts \in Nat, ts > 0, MayVersion(e, ts)
  PROVE  InTx(TypedAs(Versioned(Upserted(e, r), r, ts, a), a), d, r)
<1> DEFINE u == Upserted(e, r)
           v == TypedAs(Versioned(u, r, ts, a), a)
<1>1. /\ u \in Entry
      /\ u.first = IF e.first = 0 THEN r ELSE e.first
      /\ u.confirmed = r
  BY UpsertedIds
<1> HIDE DEF u
<1>2. /\ v.first = u.first /\ v.confirmed = r /\ v.attr = a /\ v.typed = a
      /\ v.from = ts /\ v.by = r
  BY <1>1 DEF Entry, Versioned, TypedAs
<1>3. ts > d.from
  BY MayVersionLater
<1>4. d.first # 0 => v.first = d.first
  BY <1>1, <1>2 DEF InTx
<1>5. v.first # 0
  BY <1>1, <1>2 DEF Entry
<1> HIDE DEF v
<1>6. InTx(v, d, r)
  BY <1>2, <1>3, <1>4, <1>5, ValuesAssumption DEF InTx
<1> QED
  BY <1>6 DEF u, v

\* The deletion of an object this run has not confirmed.
LEMMA InTxDeleted ==
  ASSUME NEW e \in Entry, NEW d \in Entry, NEW r \in Nat, InTx(e, d, r),
         e.confirmed # r, e.first # 0, NEW ts \in Nat, ts > 0, MayVersion(e, ts)
  PROVE  InTx(MarkedDeleted(e, r, ts), d, r)
<1> DEFINE m == MarkedDeleted(e, r, ts)
<1>1. /\ m.first = e.first /\ m.confirmed = e.confirmed /\ m.attr = IsDeleted
      /\ m.typed = None /\ m.from = ts /\ m.by = r /\ m.deleted = TRUE
  BY DEF Entry, MarkedDeleted, Versioned, TypedAs
<1>2. ts > d.from
  BY MayVersionLater
<1> HIDE DEF m
<1>3. InTx(m, d, r)
  BY <1>1, <1>2, ValuesAssumption DEF InTx
<1> QED
  BY <1>3 DEF m

\* What the commit makes of an uncommitted row, and how it continues the
\* committed one.
LEMMA InTxCommitted ==
  ASSUME NEW e \in Entry, NEW d \in Entry, NEW r \in Nat, InTx(e, d, r)
  PROVE  LET c == Repaired(Cleared(e, r))
         IN  /\ Committed(c)
             /\ d.first # 0 => c.first = d.first
             /\ c.by # d.by => c.from > d.from
<1> DEFINE c == Repaired(Cleared(e, r))
<1>1. /\ c.first = e.first /\ c.attr = e.attr /\ c.from = e.from /\ c.by = e.by
      /\ c.deleted = (e.deleted /\ e.confirmed # r)
      /\ c.typed = IF e.deleted /\ e.confirmed # r THEN None ELSE e.typed
  BY DEF Entry, Repaired, Cleared, TypedAs
<1>2. c.deleted <=> c.attr = IsDeleted
  BY <1>1 DEF InTx
<1>3. c.typed # None <=> (c.first # 0 /\ ~c.deleted)
  BY <1>1, <1>2 DEF InTx
<1>4. c.typed # None => c.typed = c.attr
  BY <1>1 DEF InTx
<1> HIDE DEF c
<1>5. Committed(c)
  BY <1>1, <1>2, <1>3, <1>4 DEF Committed, Agree, InTx
<1>6. d.first # 0 => c.first = d.first
  BY <1>1 DEF InTx
<1>7. c.by # d.by => c.from > d.from
  BY <1>1 DEF InTx
<1> QED
  BY <1>5, <1>6, <1>7 DEF c

LEMMA RowsInit == Init => RowsInv
  BY ValuesAssumption DEF Init, RowsInv, Committed, Agree, NoEntry, Idle, InProgress

LEMMA RowsVisit ==
  ASSUME TypeOK, RowsInv, NEW o \in Objects,
         VisitMissing(o) \/ VisitUnchanged(o) \/ VisitChanged(o)
  PROVE  RowsInv' /\ db' = db
<1>0. /\ Len(runs) \in Nat \ {0} /\ RunId = Len(runs) /\ run \in RunVars
      /\ run.ts \in Nat /\ run.ts > 0 /\ run.phase = "collecting"
      /\ tx[o] \in Entry /\ db[o] \in Entry
      /\ tx[o].first <= tx[o].confirmed /\ tx[o].confirmed <= RunId
      /\ InTx(tx[o], db[o], RunId)
  <2>1. run.phase = "collecting"
    BY DEF VisitMissing, VisitUnchanged, VisitChanged, Visit
  <2>2. Len(runs) \in Nat \ {0} /\ run \in RunVars /\ RunId = Len(runs)
    BY <2>1, LenProperties DEF TypeOK, RunsOK, RunOK, RunId
  <2> QED
    BY <2>1, <2>2 DEF TypeOK, RowsOK, RunVars, RowsInv, InProgress
<1>1. /\ db' = db /\ runs' = runs
      /\ run'.phase = "collecting" /\ run'.ts = run.ts
  BY <1>0 DEF VisitMissing, VisitUnchanged, VisitChanged, Visit, RunVars
<1>2. run.seen \subseteq run'.seen
  BY <1>0 DEF VisitMissing, VisitUnchanged, VisitChanged, Visit, RunVars
<1>3. CASE VisitMissing(o)
  BY <1>0, <1>1, <1>2, <1>3 DEF VisitMissing, RowsInv, InProgress, RunId
<1>4. CASE Visit(o)
  <2>1. o \in run'.seen /\ dir[o].attr \in Attrs
    BY <1>0, <1>4 DEF Visit, RunVars, TypeOK, DirOK
  <2>2. PICK e : tx' = [tx EXCEPT ![o] = e] /\ InTx(e, db[o], RunId)
    <3>1. CASE VisitUnchanged(o)
      <4>1. InTx(Upserted(tx[o], RunId), db[o], RunId)
        BY <1>0, <2>1, <3>1, InTxUpserted DEF VisitUnchanged
      <4> QED
        BY <3>1, <4>1 DEF VisitUnchanged
    <3>2. CASE VisitChanged(o)
      <4> DEFINE v == TypedAs(Versioned(Upserted(tx[o], RunId), RunId, run.ts, dir[o].attr),
                              dir[o].attr)
      <4>1. InTx(v, db[o], RunId)
        BY <1>0, <2>1, <3>2, InTxVersioned DEF VisitChanged
      <4> QED
        BY <3>2, <4>1 DEF VisitChanged
    <3>3. CASE VisitMissing(o)
      BY <1>4, <3>3 DEF VisitMissing, Visit
    <3> QED
      BY <3>1, <3>2, <3>3
  <2>3. \A q \in Objects : /\ InTx(tx'[q], db[q], RunId)
                           /\ tx'[q].confirmed = RunId => q \in run'.seen
    BY <1>0, <1>2, <2>1, <2>2 DEF TypeOK, RowsOK, RowsInv, InProgress
  <2>4. RunId' = RunId /\ run'.ts > 0 /\ (\A q \in Objects : Committed(db[q]))'
    BY <1>0, <1>1 DEF RowsInv, RunId
  <2>5. (\A q \in Objects : /\ InTx(tx[q], db[q], RunId)
                            /\ tx[q].confirmed = RunId => q \in run.seen)'
    BY <1>1, <2>3, <2>4 DEF InTx
  <2> QED
    BY <1>1, <2>4, <2>5 DEF RowsInv, InProgress
<1> QED
  BY <1>3, <1>4 DEF VisitUnchanged, VisitChanged

\* Both ways of finding deletions mark known objects this run did not confirm.
LEMMA RowsMark ==
  ASSUME TypeOK, RowsInv, InProgress, NEW D \in SUBSET Objects,
         \A o \in D : /\ MayVersion(tx[o], run.ts)
                      /\ tx[o].first # 0
                      /\ tx[o].confirmed # RunId,
         tx' = [o \in Objects |-> IF o \in D THEN MarkedDeleted(tx[o], RunId, run.ts)
                                             ELSE tx[o]],
         NEW ph \in {"reconciled", "searched"}, run' = [run EXCEPT !.phase = ph],
         UNCHANGED <<db, runs>>
  PROVE  RowsInv'
<1>0. /\ RunId \in Nat /\ run \in RunVars /\ run.ts \in Nat /\ run.ts > 0
      /\ \A o \in Objects : /\ tx[o] \in Entry /\ db[o] \in Entry
                            /\ InTx(tx[o], db[o], RunId)
                            /\ tx[o].confirmed = RunId => o \in run.seen
  BY LenProperties DEF TypeOK, RunsOK, RunOK, RowsOK, RunVars, RunId, RowsInv, InProgress
<1>1. run'.phase = ph /\ run'.seen = run.seen /\ run'.ts = run.ts /\ RunId' = RunId
  BY <1>0 DEF RunVars, RunId
<1>2. \A o \in Objects : /\ InTx(tx'[o], db[o], RunId)
                         /\ tx'[o].confirmed = RunId => o \in run.seen
  <2> SUFFICES ASSUME NEW o \in Objects
               PROVE  /\ InTx(tx'[o], db[o], RunId)
                      /\ tx'[o].confirmed = RunId => o \in run.seen
    OBVIOUS
  <2>1. CASE o \in D
    <3> DEFINE m == MarkedDeleted(tx[o], RunId, run.ts)
    <3>1. tx'[o] = m
      BY <2>1
    <3>2. InTx(m, db[o], RunId) /\ m.confirmed = tx[o].confirmed
      BY <1>0, <2>1, InTxDeleted, KeptIds
    <3> HIDE DEF m
    <3> QED
      BY <2>1, <3>1, <3>2
  <2>2. CASE o \notin D
    BY <1>0, <2>2
  <2> QED
    BY <2>1, <2>2
<1>3. (\A o \in Objects : /\ InTx(tx[o], db[o], RunId)
                          /\ tx[o].confirmed = RunId => o \in run.seen)'
  BY <1>1, <1>2 DEF InTx
<1>4. run'.ts > 0 /\ InProgress' /\ (\A o \in Objects : Committed(db[o]))'
  BY <1>0, <1>1 DEF RowsInv, InProgress
<1> QED
  BY <1>3, <1>4 DEF RowsInv, InProgress

\* Whatever ends a run leaves the transaction equal to the committed rows.
LEMMA RowsEnd ==
  ASSUME RowsInv, EndRun, tx' = db, db' = db
  PROVE  RowsInv'
  BY DEF RowsInv, EndRun, Idle, InProgress

LEMMA RowsNext == TypeOK /\ RowsInv /\ [Next]_vars => RowsInv' /\ (HistoryStep \/ db' = db)
<1> SUFFICES ASSUME TypeOK, RowsInv, [Next]_vars
             PROVE  RowsInv' /\ (HistoryStep \/ db' = db)
  OBVIOUS
<1>0. /\ Len(runs) \in Nat /\ RunId = Len(runs) /\ run \in RunVars
      /\ run.ts \in Nat
      /\ \A o \in Objects : /\ tx[o] \in Entry /\ db[o] \in Entry
                            /\ db[o].confirmed <= Len(runs)
  BY LenProperties DEF TypeOK, RunsOK, RunOK, RowsOK, RunId, RunVars
<1>1. CASE UNCHANGED <<db, tx, runs, run>>
  BY <1>1 DEF RowsInv, InProgress, RunId
<1>2. CASE Directory
  <2>1. UNCHANGED <<db, tx, runs, run>>
    BY <1>2 DEF Directory, CreateObject, ModifyObject, DeleteObject, RestoreObject,
                PurgeTombstone, SetObject
  <2> QED
    BY <1>1, <2>1
<1>3. ASSUME Len(runs) < MaxRuns, NEW c \in Started[Len(runs) + 1], Bind(c)
      PROVE  RowsInv' /\ db' = db
  <2>1. c.ts > 0
    BY <1>0, <1>3, NumbersAssumption
  <2>2. run'.phase = "bound" /\ run'.ts = c.ts /\ tx' = tx /\ db' = db
    BY <1>3 DEF Bind, Idle
  <2>3. ~InProgress /\ ~InProgress'
    BY <1>3, <2>2 DEF Bind, InProgress
  <2> QED
    BY <2>1, <2>2, <2>3 DEF RowsInv
<1>4. CASE OpenRun
  <2>1. /\ run'.phase = "collecting" /\ run'.ts = run.ts /\ run.phase = "bound"
        /\ tx' = tx /\ db' = db /\ tx = db
    BY <1>0, <1>4 DEF OpenRun, RunVars, RowsInv, InProgress
  <2>2. RunId' = RunId + 1
    <3>1. Len(runs') = Len(runs) + 1
      BY <1>4, AppendProperties DEF OpenRun, TypeOK, RunsOK
    <3> QED
      BY <1>0, <3>1 DEF RunId
  <2>3. \A o \in Objects : InTx(tx[o], db[o], RunId') /\ tx[o].confirmed # RunId'
    BY <1>0, <2>1, <2>2, InTxStart DEF RowsInv, Entry
  <2> QED
    BY <2>1, <2>3 DEF RowsInv, InProgress
<1>5. ASSUME NEW o \in Objects, VisitMissing(o) \/ VisitUnchanged(o) \/ VisitChanged(o)
      PROVE  RowsInv' /\ db' = db
  BY <1>5, RowsVisit
<1>6. CASE ReconcileAbsent
  <2>1. \A o \in Absent : tx[o].first # 0 /\ tx[o].confirmed # RunId
    BY <1>6 DEF ReconcileAbsent, Absent, Objects, RowsInv, InProgress, InTx
  <2> QED
    BY <1>6, <2>1, RowsMark DEF ReconcileAbsent, Absent, Objects, InProgress
<1>7. CASE CollectDeleted
  <2>1. NewlyDeleted \subseteq Objects
    BY DEF NewlyDeleted, Tombstones, Objects
  <2>2. \A o \in NewlyDeleted : tx[o].first # 0 /\ tx[o].confirmed # RunId
    BY DEF NewlyDeleted
  <2> QED
    BY <1>7, <2>1, <2>2, RowsMark DEF CollectDeleted, InProgress
<1>8. CASE Commit
  <2>1. \A o \in Objects : /\ Committed(db'[o])
                           /\ db[o].first # 0 => db'[o].first = db[o].first
                           /\ db'[o].by # db[o].by => db'[o].from > db[o].from
    BY <1>0, <1>8, InTxCommitted DEF Commit, RowsInv, InProgress
  <2>2. run'.phase = "committed" /\ run'.ts = run.ts /\ run.phase = "searched" /\ tx' = db'
    BY <1>0, <1>8 DEF Commit, RunVars
  <2>3. (\A o \in Objects : Committed(db[o]))'
    BY <2>1 DEF Committed, Agree
  <2>4. HistoryStep
    BY <2>1 DEF HistoryStep
  <2> QED
    BY <2>2, <2>3, <2>4 DEF RowsInv, InProgress
<1>9. CASE FinalizeSucceeded \/ LoseFinalizeDelta \/ RollBack
  <2>1. EndRun /\ tx' = db /\ db' = db
    BY <1>9 DEF FinalizeSucceeded, LoseFinalizeDelta, LoseFinalize, RollBack, RowsInv,
                InProgress
  <2> QED
    BY <2>1, RowsEnd
<1>10. ASSUME NEW c \in OptionalClasses, EnumerationFails(c)
       PROVE  RowsInv' /\ db' = db
  BY <1>10, FailsEffect DEF RowsInv, InProgress
<1> QED
  BY <1>1, <1>2, <1>3, <1>4, <1>5, <1>6, <1>7, <1>8, <1>9, <1>10 DEF Next, Collect, vars

\* The flag, the current version and the typed row of an object agree in every
\* committed state, for any number of objects, runs and controllers.
THEOREM RowsAlwaysAgree == Spec => []RowsAgree
<1>1. Init => RowsInv
  BY RowsInit
<1>2. TypeOK /\ RowsInv /\ [Next]_vars => RowsInv'
  BY RowsNext
<1>3. RowsInv => RowsAgree
  BY DEF RowsInv, Committed, RowsAgree
<1> QED
  BY <1>1, <1>2, <1>3, TypeCorrect, PTL DEF Spec

\* Committed history is only added to, whatever the server's clock does.
THEOREM HistoryAlwaysKept == Spec => HistoryKept
<1>1. Init => RowsInv
  BY RowsInit
<1>2. TypeOK /\ RowsInv /\ [Next]_vars => RowsInv'
  BY RowsNext
<1>3. TypeOK /\ RowsInv /\ [Next]_vars => [HistoryStep]_db
  BY RowsNext
<1> QED
  BY <1>1, <1>2, <1>3, TypeCorrect, PTL DEF Spec, HistoryKept

-----------------------------------------------------------------------------
(* The database mirrors the directory, and no deletion gets behind the     *)
(* watermark.  Three invariants lead there: what is known of the recorded  *)
(* runs and of the one in progress; what is still shown of objects that    *)
(* are deleted; and what the run may have seen of each object.             *)

\* A recorded watermark is the USN its controller had when the run bound; runs
\* bound one after the other; the run in progress is the last row and goes by
\* the latest success.
StartsInv ==
  /\ \A r \in DOMAIN runs : runs[r].start <= usn
  /\ \A r \in Succeeded :
       runs[r].ident # None => runs[r].watermark = UsnAt(runs[r].ident, runs[r].start)
  /\ run.phase # "idle" =>
       /\ run.start <= usn
       /\ \A r \in Succeeded : runs[r].start <= run.start
       /\ run.high = UsnAt(run.dc, run.start)
       /\ run.ident \in {run.dc, None}
  /\ run.phase = "bound" => run.seen = {} /\ run.unread = {}
  /\ run.phase \notin {"idle", "bound"} =>
       /\ runs[RunId] = [status |-> "running", ident |-> run.ident,
                         watermark |-> None, start |-> run.start]
       /\ run.prior \in PriorWatermark(run.ident)

\* What the directory's steps do, and what they leave alone.
ChangedNow(o) ==
  /\ usn' = usn + 1
  /\ dir'[o].st \in {"live", "deleted"} /\ dir'[o].usn = usn + 1
  /\ window' = IF Reading
               THEN [window EXCEPT ![o] =
                       @ \cup {Visible(dir'[o])}
                         \cup (IF Visible(dir[o]) = None THEN {Reported(db[o])} ELSE {})]
               ELSE window

PurgedNow(o) ==
  /\ usn' = usn /\ window' = window
  /\ dir[o].st = "deleted" /\ dir'[o].st = "purged"
  /\ \E r \in Succeeded : runs[r].start >= dir[o].usn

LEMMA DirectoryEffect ==
  ASSUME TypeOK, Directory
  PROVE  /\ UNCHANGED <<db, tx, runs, run>>
         /\ \E o \in Objects : /\ \A q \in Objects \ {o} : dir'[q] = dir[q]
                               /\ ChangedNow(o) \/ PurgedNow(o)
<1>1. PICK o \in Objects : \/ CreateObject(o) \/ ModifyObject(o) \/ DeleteObject(o)
                           \/ RestoreObject(o) \/ PurgeTombstone(o)
  BY DEF Directory
<1>2. dir \in [Objects -> DirEntry] /\ dir[o] \in DirEntry
  BY DEF TypeOK, DirOK
<1>3. ASSUME NEW x \in DirEntry, x.st \in {"live", "deleted"}, SetObject(o, x)
      PROVE  /\ UNCHANGED <<db, tx, runs, run>>
             /\ \A q \in Objects \ {o} : dir'[q] = dir[q]
             /\ ChangedNow(o)
  <2>1. dir' = [dir EXCEPT ![o] = [x EXCEPT !.usn = usn + 1]]
    BY <1>3 DEF SetObject
  <2>2. dir'[o].st \in {"live", "deleted"} /\ dir'[o].usn = usn + 1
    BY <1>2, <1>3, <2>1 DEF DirEntry
  <2>3. \A q \in Objects \ {o} : dir'[q] = dir[q]
    BY <1>2, <2>1
  <2> QED
    BY <1>3, <2>2, <2>3 DEF SetObject, ChangedNow
<1>4. CASE CreateObject(o)
  <2>1. PICK a \in Attrs : SetObject(o, [dir[o] EXCEPT !.st = "live", !.attr = a])
    BY <1>4 DEF CreateObject
  <2> DEFINE x == [dir[o] EXCEPT !.st = "live", !.attr = a]
  <2>2. x \in DirEntry /\ x.st = "live"
    BY <1>2 DEF DirEntry
  <2> HIDE DEF x
  <2>3. SetObject(o, x)
    BY <2>1 DEF x
  <2> QED
    BY <1>3, <2>2, <2>3
<1>5. CASE ModifyObject(o)
  <2>1. PICK a \in Attrs : SetObject(o, [dir[o] EXCEPT !.attr = a])
    BY <1>5 DEF ModifyObject
  <2> DEFINE x == [dir[o] EXCEPT !.attr = a]
  <2>2. x \in DirEntry /\ x.st = "live"
    BY <1>2, <1>5 DEF DirEntry, ModifyObject
  <2> HIDE DEF x
  <2>3. SetObject(o, x)
    BY <2>1 DEF x
  <2> QED
    BY <1>3, <2>2, <2>3
<1>6. ASSUME NEW s \in {"live", "deleted"}, SetObject(o, [dir[o] EXCEPT !.st = s])
      PROVE  /\ UNCHANGED <<db, tx, runs, run>>
             /\ \A q \in Objects \ {o} : dir'[q] = dir[q]
             /\ ChangedNow(o)
  <2> DEFINE x == [dir[o] EXCEPT !.st = s]
  <2>1. x \in DirEntry /\ x.st = s
    BY <1>2 DEF DirEntry
  <2> HIDE DEF x
  <2>2. SetObject(o, x)
    BY <1>6 DEF x
  <2> QED
    BY <1>3, <2>1, <2>2
<1>7. CASE PurgeTombstone(o)
  <2>1. dir' = [dir EXCEPT ![o] = [dir[o] EXCEPT !.st = "purged", !.attr = None]]
    BY <1>2, <1>7 DEF PurgeTombstone
  <2>2. dir'[o].st = "purged" /\ \A q \in Objects \ {o} : dir'[q] = dir[q]
    BY <1>2, <2>1 DEF DirEntry
  <2>3. PurgedNow(o)
    BY <1>7, <2>2 DEF PurgeTombstone, PurgedNow, Succeeded
  <2> QED
    BY <1>7, <2>2, <2>3 DEF PurgeTombstone
<1> QED
  BY <1>1, <1>4, <1>5, <1>6, <1>7 DEF DeleteObject, RestoreObject

\* Between opening its row and ending, a run leaves the rows of sync_run alone.
Proceeding ==
  \/ \E o \in Objects : VisitMissing(o) \/ VisitUnchanged(o) \/ VisitChanged(o)
  \/ ReconcileAbsent \/ CollectDeleted \/ Commit

LEMMA ProceedingEffect ==
  ASSUME TypeOK, Proceeding
  PROVE  /\ UNCHANGED <<dir, usn, runs, window>> /\ RunId' = RunId
         /\ run'.start = run.start /\ run'.high = run.high /\ run'.dc = run.dc
         /\ run'.ident = run.ident /\ run'.prior = run.prior
         /\ InProgress
         /\ run'.phase \in {"collecting", "reconciled", "searched", "committed"}
<1>1. run \in RunVars
  BY DEF TypeOK, RunOK
<1>2. ASSUME NEW o \in Objects, VisitMissing(o) \/ Visit(o)
      PROVE  /\ UNCHANGED <<dir, usn, runs, window>>
             /\ run'.start = run.start /\ run'.high = run.high /\ run'.dc = run.dc
             /\ run'.ident = run.ident /\ run'.prior = run.prior
             /\ run.phase = "collecting" /\ run'.phase = "collecting"
  BY <1>1, <1>2 DEF VisitMissing, Visit, dirVars, RunVars
<1>3. ASSUME NEW ph, run' = [run EXCEPT !.phase = ph]
      PROVE  /\ run'.start = run.start /\ run'.high = run.high /\ run'.dc = run.dc
             /\ run'.ident = run.ident /\ run'.prior = run.prior /\ run'.phase = ph
  BY <1>1, <1>3 DEF RunVars
<1>4. CASE \E o \in Objects : VisitMissing(o) \/ VisitUnchanged(o) \/ VisitChanged(o)
  BY <1>2, <1>4 DEF VisitUnchanged, VisitChanged, RunId, InProgress
<1>5. CASE ReconcileAbsent
  BY <1>3, <1>5 DEF ReconcileAbsent, RunId, InProgress, dirVars
<1>6. CASE CollectDeleted
  BY <1>3, <1>6 DEF CollectDeleted, RunId, InProgress, dirVars
<1>7. CASE Commit
  BY <1>3, <1>7 DEF Commit, RunId, InProgress, dirVars
<1> QED
  BY <1>4, <1>5, <1>6, <1>7 DEF Proceeding

\* The ends of a run.
LEMMA EndUnrecorded ==
  ASSUME TypeOK, RowsInv, StartsInv, LoseFinalizeDelta \/ RollBack
  PROVE  /\ UNCHANGED <<dir, usn, db>> /\ tx' = db /\ run' = Idle
         /\ DOMAIN runs' = DOMAIN runs
         /\ \A r \in DOMAIN runs : runs'[r].start = runs[r].start
         /\ Succeeded' = Succeeded
         /\ \A r \in Succeeded : runs'[r] = runs[r]
         /\ window' = [o \in Objects |-> {}]
<1>1. UNCHANGED <<dir, usn, db>> /\ tx' = db /\ run' = Idle /\ window' = [o \in Objects |-> {}]
  BY DEF LoseFinalizeDelta, LoseFinalize, RollBack, EndRun, dirVars, RowsInv, InProgress
<1>2. CASE runs' = runs
  BY <1>1, <1>2 DEF Succeeded
<1>3. ASSUME run.phase \notin {"idle", "bound"}, NEW s \in Unrecorded,
             runs' = [runs EXCEPT ![RunId].status = s]
      PROVE  /\ DOMAIN runs' = DOMAIN runs
             /\ \A r \in DOMAIN runs : runs'[r].start = runs[r].start
             /\ Succeeded' = Succeeded
             /\ \A r \in Succeeded : runs'[r] = runs[r]
  <2>1. runs \in Seq(SyncRun) /\ RunId \in DOMAIN runs
    <3>1. runs \in Seq(SyncRun) /\ Len(runs) > 0
      BY <1>3 DEF TypeOK, RunsOK, RunOK
    <3> QED
      BY <3>1, LenProperties DEF RunId
  <2>2. runs[RunId].status = "running"
    BY <1>3 DEF StartsInv
  <2>3. s # "succeeded"
    BY UnrecordedAssumption
  <2>4. /\ DOMAIN runs' = DOMAIN runs
        /\ runs'[RunId] = [runs[RunId] EXCEPT !.status = s]
        /\ \A r \in DOMAIN runs \ {RunId} : runs'[r] = runs[r]
    BY <1>3, <2>1
  <2>5. runs[RunId] \in SyncRun
    BY <2>1, ElementOfSeq, LenProperties
  <2>6. runs'[RunId].status = s /\ runs'[RunId].start = runs[RunId].start
    BY <2>4, <2>5 DEF SyncRun
  <2>7. \A r \in Succeeded : r \in DOMAIN runs \ {RunId}
    BY <2>2 DEF Succeeded
  <2>8. Succeeded' = Succeeded
    BY <2>2, <2>3, <2>4, <2>6 DEF Succeeded
  <2> QED
    BY <2>4, <2>6, <2>7, <2>8
<1> QED
  BY <1>1, <1>2, <1>3 DEF LoseFinalizeDelta, LoseFinalize, RollBack, Reading

LEMMA EndSucceeded ==
  ASSUME TypeOK, StartsInv, FinalizeSucceeded
  PROVE  /\ UNCHANGED <<dir, usn, db, tx>> /\ run' = Idle
         /\ DOMAIN runs' = DOMAIN runs
         /\ \A r \in DOMAIN runs : runs'[r].start = runs[r].start
         /\ Succeeded' = Succeeded \cup {RunId}
         /\ \A r \in Succeeded : runs'[r] = runs[r]
         /\ runs'[RunId].start = run.start
         /\ runs'[RunId].ident = run.ident
         /\ runs'[RunId].watermark = run.high
         /\ window' = [o \in Objects |-> {}]
<1>1. /\ UNCHANGED <<dir, usn, db, tx>> /\ run' = Idle /\ window' = [o \in Objects |-> {}]
      /\ run.phase = "committed"
  BY DEF FinalizeSucceeded, EndRun, dirVars
<1>2. runs \in Seq(SyncRun) /\ RunId \in DOMAIN runs
  <2>1. runs \in Seq(SyncRun) /\ Len(runs) > 0
    BY <1>1 DEF TypeOK, RunsOK, RunOK
  <2> QED
    BY <2>1, LenProperties DEF RunId
<1>3. runs[RunId] = [status |-> "running", ident |-> run.ident,
                     watermark |-> None, start |-> run.start]
  BY <1>1 DEF StartsInv
<1>4. /\ DOMAIN runs' = DOMAIN runs
      /\ runs'[RunId] = [runs[RunId] EXCEPT !.status = "succeeded", !.watermark = run.high]
      /\ \A r \in DOMAIN runs \ {RunId} : runs'[r] = runs[r]
  BY <1>2 DEF FinalizeSucceeded
<1>5. /\ runs'[RunId].status = "succeeded" /\ runs'[RunId].start = run.start
      /\ runs'[RunId].ident = run.ident /\ runs'[RunId].watermark = run.high
  BY <1>3, <1>4
<1>6. \A r \in Succeeded : r \in DOMAIN runs \ {RunId}
  BY <1>3 DEF Succeeded
<1>7. Succeeded' = Succeeded \cup {RunId}
  BY <1>2, <1>4, <1>5 DEF Succeeded
<1>8. \A r \in DOMAIN runs : runs'[r].start = runs[r].start
  BY <1>3, <1>4, <1>5
<1> QED
  BY <1>1, <1>4, <1>5, <1>6, <1>7, <1>8

LEMMA OpenRunEffect ==
  ASSUME TypeOK, OpenRun
  PROVE  /\ UNCHANGED <<dir, usn, db, tx, window>>
         /\ run.phase = "bound" /\ run'.phase = "collecting"
         /\ run'.start = run.start /\ run'.high = run.high /\ run'.dc = run.dc
         /\ run'.ident = run.ident /\ run'.prior \in PriorWatermark(run.ident)
         /\ run'.pending = Objects /\ run'.seen = run.seen /\ run'.unread = run.unread
         /\ RunId' = Len(runs) + 1 /\ Len(runs) \in Nat
         /\ DOMAIN runs = 1..Len(runs) /\ DOMAIN runs' = 1..RunId'
         /\ \A r \in DOMAIN runs : runs'[r] = runs[r]
         /\ runs'[RunId'] = [status |-> "running", ident |-> run.ident,
                             watermark |-> None, start |-> run.start]
         /\ Succeeded' = Succeeded
<1>1. PICK prior \in PriorWatermark(run.ident) :
        run' = [run EXCEPT !.phase = "collecting", !.prior = prior, !.pending = Objects]
  BY DEF OpenRun
<1>2. run \in RunVars /\ runs \in Seq(SyncRun)
  BY DEF TypeOK, RunOK, RunsOK
<1> DEFINE row == [status |-> "running", ident |-> run.ident,
                   watermark |-> None, start |-> run.start]
<1>3. row \in SyncRun /\ runs' = Append(runs, row)
  BY <1>2 DEF OpenRun, SyncRun, RunVars
<1> HIDE DEF row
<1>4. /\ Len(runs') = Len(runs) + 1 /\ Len(runs) \in Nat /\ runs' \in Seq(SyncRun)
      /\ \A r \in 1..Len(runs) : runs'[r] = runs[r]
      /\ runs'[Len(runs) + 1] = row
  BY <1>2, <1>3, AppendProperties, LenProperties
<1>5. DOMAIN runs = 1..Len(runs) /\ DOMAIN runs' = 1..(Len(runs) + 1)
  BY <1>2, <1>4, LenProperties
<1>6. Succeeded' = Succeeded
  <2>1. row.status # "succeeded"
    BY DEF row
  <2> QED
    BY <1>4, <1>5, <2>1 DEF Succeeded
<1>7. RunId' = Len(runs) + 1
  BY <1>4 DEF RunId
<1> QED
  BY <1>1, <1>2, <1>4, <1>5, <1>6, <1>7 DEF OpenRun, dirVars, RunVars, row

LEMMA BindEffect ==
  ASSUME TypeOK, Len(runs) < MaxRuns, NEW c \in Started[Len(runs) + 1], Bind(c)
  PROVE  /\ UNCHANGED <<dir, usn, db, tx, runs>>
         /\ run.phase = "idle" /\ run'.phase = "bound"
         /\ run'.start = usn /\ run'.dc = c.dc /\ c.dc \in Dcs /\ run'.high = UsnAt(run'.dc, usn)
         /\ run'.ident \in {run'.dc, None} /\ run'.seen = {} /\ run'.unread = {}
         /\ window' = [o \in Objects |->
                         {Visible(dir[o])} \cup
                         (IF o \in Sites /\ c.dc \notin Hosting THEN {Reported(db[o])} ELSE {})]
<1>1. c.dc \in Dcs
  <2>1. Len(runs) \in Nat
    BY LenProperties DEF TypeOK, RunsOK
  <2> QED
    BY <2>1, NumbersAssumption
<1> QED
  BY <1>1 DEF Bind, Idle, dirVars

LEMMA StartsInit == Init => StartsInv
  BY DEF Init, StartsInv, Idle, Succeeded

LEMMA StartsNext == TypeOK /\ RowsInv /\ StartsInv /\ [Next]_vars => StartsInv'
<1> SUFFICES ASSUME TypeOK, RowsInv, StartsInv, [Next]_vars PROVE StartsInv'
  OBVIOUS
<1>0. usn \in Nat /\ run.start \in Nat /\ \A r \in DOMAIN runs : runs[r].start \in Nat
  <2>1. runs \in Seq(SyncRun) /\ run \in RunVars
    BY DEF TypeOK, RunsOK, RunOK
  <2>2. \A r \in DOMAIN runs : runs[r] \in SyncRun
    BY <2>1, ElementOfSeq, LenProperties
  <2> QED
    BY <2>1, <2>2 DEF TypeOK, DirOK, SyncRun, RunVars
<1>1. CASE UNCHANGED vars
  BY <1>1 DEF vars, StartsInv, Succeeded, PriorWatermark, Latest, RunId
<1>2. CASE Directory
  <2>1. UNCHANGED <<runs, run>> /\ usn' \in Nat /\ usn <= usn'
    BY <1>0, <1>2, DirectoryEffect DEF ChangedNow, PurgedNow
  <2> QED
    BY <1>0, <2>1 DEF StartsInv, Succeeded, PriorWatermark, Latest, RunId
<1>3. ASSUME Len(runs) < MaxRuns, NEW c \in Started[Len(runs) + 1], Bind(c)
      PROVE  StartsInv'
  <2>1. Succeeded' = Succeeded /\ \A r \in Succeeded : r \in DOMAIN runs
    BY <1>3, BindEffect DEF Succeeded
  <2> QED
    BY <1>0, <1>3, <2>1, BindEffect DEF StartsInv
<1>4. CASE OpenRun
  <2>1. \A r \in Succeeded : r \in DOMAIN runs
    BY DEF Succeeded
  <2>2. run'.prior \in PriorWatermark(run.ident)'
    BY <1>4, <2>1, OpenRunEffect DEF PriorWatermark, Latest
  <2>3. \A r \in DOMAIN runs' : r \in DOMAIN runs \/ r = RunId'
    BY <1>4, OpenRunEffect
  <2>4. run.start <= usn
    BY <1>4, OpenRunEffect DEF StartsInv
  <2>5. \A r \in DOMAIN runs' : runs'[r].start <= usn'
    BY <1>4, <2>3, <2>4, OpenRunEffect DEF StartsInv
  <2>6. \A r \in Succeeded' : /\ runs'[r].ident # None =>
                                   runs'[r].watermark = UsnAt(runs'[r].ident, runs'[r].start)
                              /\ runs'[r].start <= run'.start
    BY <1>4, <2>1, OpenRunEffect DEF StartsInv
  <2> QED
    BY <1>4, <2>2, <2>4, <2>5, <2>6, OpenRunEffect DEF StartsInv
<1>5. CASE Proceeding
  BY <1>5, ProceedingEffect DEF StartsInv, Succeeded, PriorWatermark, Latest, InProgress
<1>6. CASE LoseFinalizeDelta \/ RollBack
  <2>1. \A r \in Succeeded : r \in DOMAIN runs
    BY DEF Succeeded
  <2> QED
    BY <1>6, <2>1, EndUnrecorded DEF StartsInv, Idle
<1>7. CASE FinalizeSucceeded
  <2>1. \A r \in DOMAIN runs' : runs'[r].start <= usn'
    BY <1>7, EndSucceeded DEF StartsInv
  <2>2. run.high = UsnAt(run.dc, run.start) /\ run.ident \in {run.dc, None}
    BY <1>7 DEF StartsInv, FinalizeSucceeded
  <2>3. \A r \in Succeeded' : runs'[r].ident # None =>
          runs'[r].watermark = UsnAt(runs'[r].ident, runs'[r].start)
    BY <1>7, <2>2, EndSucceeded DEF StartsInv
  <2> QED
    BY <1>7, <2>1, <2>3, EndSucceeded DEF StartsInv, Idle
<1>8. ASSUME NEW c \in OptionalClasses, EnumerationFails(c)
      PROVE  StartsInv'
  <2>1. /\ UNCHANGED <<usn, runs>> /\ RunId' = RunId /\ run'.phase = run.phase
        /\ run'.start = run.start /\ run'.high = run.high /\ run'.dc = run.dc
        /\ run'.ident = run.ident /\ run'.prior = run.prior /\ run.phase = "collecting"
    BY <1>8, FailsEffect
  <2> QED
    BY <2>1 DEF StartsInv, Succeeded, PriorWatermark, Latest
<1> QED
  BY <1>1, <1>2, <1>3, <1>4, <1>5, <1>6, <1>7, <1>8 DEF Next, Collect, Proceeding

-----------------------------------------------------------------------------
(* Deletions.                                                              *)

Tombstoned(o) == dir[o].st \in {"deleted", "purged"}
DeletedSince(o, n) == dir[o].st = "deleted" /\ dir[o].usn > n

\* What is shown although it is deleted was deleted after every recorded run
\* had bound, and its tombstone is still there ...
ToBeFound(rows) ==
  \A o \in Users :
    rows[o].typed # None /\ Tombstoned(o) =>
      dir[o].st = "deleted" /\ \A r \in Succeeded : dir[o].usn > runs[r].start

\* ... and after this run had, once it has looked for tombstones.
ShownSince(rows) ==
  \A o \in Users : rows[o].typed # None /\ Tombstoned(o) => DeletedSince(o, run.start)

\* As long as no run is recorded there is nothing to show but what the run in
\* progress has seen: it does not look for tombstones at all.
TombstonesInv ==
  /\ ToBeFound(db)
  /\ ToBeFound(tx)
  /\ InProgress => \A o \in run.seen : Tombstoned(o) => DeletedSince(o, run.start)
  /\ run.phase \in {"searched", "committed"} => ShownSince(tx)
  /\ Succeeded = {} =>
       /\ run.phase # "committed" => \A o \in Objects : db[o].typed = None
       /\ InProgress => \A o \in Objects \ run.seen : tx[o].typed = None

LEMMA TombstonesInit == Init => TombstonesInv
  BY DEF Init, TombstonesInv, ToBeFound, Idle, InProgress, NoEntry, Objects

\* A deletion happens after all that went before; a purge only hits what some
\* recorded run has found deleted.
LEMMA TombstonesDirectory ==
  ASSUME TypeOK, StartsInv, TombstonesInv, Directory
  PROVE  TombstonesInv'
<1>1. UNCHANGED <<db, tx, runs, run>>
  BY DirectoryEffect
<1>2. PICK o \in Objects : /\ \A q \in Objects \ {o} : dir'[q] = dir[q]
                           /\ ChangedNow(o) \/ PurgedNow(o)
  BY DirectoryEffect
<1>3. /\ usn \in Nat /\ run.start \in Nat /\ run.seen \subseteq Objects
      /\ \A r \in Succeeded : runs[r].start \in Nat /\ runs[r].start <= usn
      /\ run.phase # "idle" => run.start <= usn
      /\ dir[o].usn \in Nat
  <2>1. runs \in Seq(SyncRun) /\ run \in RunVars
    BY DEF TypeOK, RunsOK, RunOK
  <2>2. \A r \in DOMAIN runs : runs[r] \in SyncRun
    BY <2>1, ElementOfSeq, LenProperties
  <2> QED
    BY <2>1, <2>2 DEF TypeOK, DirOK, SyncRun, RunVars, DirEntry, StartsInv, Succeeded
<1>4. Succeeded' = Succeeded
  BY <1>1 DEF Succeeded
<1>5. Users \subseteq Objects
  BY DEF Objects
<1>6. CASE ChangedNow(o)
  <2>1. dir'[o].st \in {"live", "deleted"} /\ dir'[o].usn = usn + 1
    BY <1>6 DEF ChangedNow
  <2>2. ToBeFound(db)' /\ ToBeFound(tx)'
    BY <1>1, <1>2, <1>3, <1>4, <1>5, <2>1 DEF TombstonesInv, ToBeFound, Tombstoned
  <2>3. (InProgress => \A q \in run.seen : Tombstoned(q) => DeletedSince(q, run.start))'
    BY <1>1, <1>2, <1>3, <2>1 DEF TombstonesInv, Tombstoned, DeletedSince, InProgress
  <2>4. (run.phase \in {"searched", "committed"} => ShownSince(tx))'
    BY <1>1, <1>2, <1>3, <1>5, <2>1 DEF TombstonesInv, ShownSince, Tombstoned, DeletedSince
  <2> QED
    BY <1>1, <1>4, <2>2, <2>3, <2>4 DEF TombstonesInv, InProgress
<1>7. CASE PurgedNow(o)
  <2>1. PICK r \in Succeeded : runs[r].start >= dir[o].usn
    BY <1>7 DEF PurgedNow
  <2>2. dir[o].st = "deleted" /\ dir'[o].st = "purged"
    BY <1>7 DEF PurgedNow
  <2>3. o \in Users => db[o].typed = None /\ tx[o].typed = None
    BY <1>3, <2>1, <2>2 DEF TombstonesInv, ToBeFound, Tombstoned
  <2>4. InProgress => o \notin run.seen
    <3>1. run.phase # "idle" => runs[r].start <= run.start
      BY DEF StartsInv
    <3> QED
      BY <1>3, <2>1, <2>2, <3>1 DEF TombstonesInv, Tombstoned, DeletedSince, InProgress
  <2>5. ToBeFound(db)' /\ ToBeFound(tx)'
    BY <1>1, <1>2, <1>4, <1>5, <2>3 DEF TombstonesInv, ToBeFound, Tombstoned
  <2>6. (InProgress => \A q \in run.seen : Tombstoned(q) => DeletedSince(q, run.start))'
    BY <1>1, <1>2, <1>3, <2>4 DEF TombstonesInv, Tombstoned, DeletedSince, InProgress
  <2>7. (run.phase \in {"searched", "committed"} => ShownSince(tx))'
    BY <1>1, <1>2, <1>5, <2>3 DEF TombstonesInv, ShownSince, Tombstoned, DeletedSince
  <2> QED
    BY <1>1, <1>4, <2>5, <2>6, <2>7 DEF TombstonesInv, InProgress
<1> QED
  BY <1>2, <1>6, <1>7

\* Only what is there is visited.
LEMMA VisitEffect ==
  ASSUME TypeOK, NEW o \in Objects, VisitMissing(o) \/ VisitUnchanged(o) \/ VisitChanged(o)
  PROVE  /\ run.phase = "collecting" /\ run'.phase = "collecting" /\ db' = db
         /\ o \in run.pending /\ run'.pending = run.pending \ {o}
         /\ run'.unread = run.unread
         /\ \A q \in Objects \ {o} : tx'[q] = tx[q]
         /\ \/ /\ Served(o) /\ dir[o].st = "live" /\ run'.seen = run.seen \cup {o}
               /\ tx'[o].confirmed = RunId
               /\ tx'[o].typed = dir[o].attr \/ (tx[o].attr = dir[o].attr /\ tx'[o].typed = tx[o].typed)
            \/ ~(Served(o) /\ dir[o].st = "live") /\ run'.seen = run.seen /\ tx' = tx
<1>1. run \in RunVars /\ tx \in [Objects -> Entry] /\ tx[o] \in Entry
  BY DEF TypeOK, RunOK, RowsOK
<1>2. CASE VisitMissing(o)
  BY <1>1, <1>2 DEF VisitMissing, RunVars
<1>3. CASE VisitUnchanged(o)
  <2>1. tx' = [tx EXCEPT ![o] = Upserted(tx[o], RunId)]
    BY <1>3 DEF VisitUnchanged
  <2>2. Upserted(tx[o], RunId).confirmed = RunId /\ Upserted(tx[o], RunId).typed = tx[o].typed
    BY <1>1 DEF Upserted, Entry
  <2>3. tx'[o] = Upserted(tx[o], RunId) /\ \A q \in Objects \ {o} : tx'[q] = tx[q]
    BY <1>1, <2>1
  <2> QED
    BY <1>1, <1>3, <2>2, <2>3 DEF VisitUnchanged, Visit, RunVars
<1>4. CASE VisitChanged(o)
  <2> DEFINE v == TypedAs(Versioned(Upserted(tx[o], RunId), RunId, run.ts, dir[o].attr),
                          dir[o].attr)
  <2>1. tx' = [tx EXCEPT ![o] = v]
    BY <1>4 DEF VisitChanged
  <2>2. v.confirmed = RunId /\ v.typed = dir[o].attr
    BY <1>1 DEF Upserted, Versioned, TypedAs, Entry
  <2> HIDE DEF v
  <2>3. tx'[o] = v /\ \A q \in Objects \ {o} : tx'[q] = tx[q]
    BY <1>1, <2>1
  <2> QED
    BY <1>1, <1>4, <2>2, <2>3 DEF VisitChanged, Visit, RunVars
<1> QED
  BY <1>2, <1>3, <1>4

LEMMA MarkEffect ==
  ASSUME TypeOK, ReconcileAbsent \/ CollectDeleted
  PROVE  /\ db' = db /\ run'.seen = run.seen /\ run'.pending = run.pending
         /\ run'.unread = run.unread
         /\ InProgress /\ InProgress'
         /\ \A o \in Objects : tx'[o] = tx[o] \/ tx'[o].typed = None
         /\ ReconcileAbsent =>
              /\ run.phase = "collecting" /\ run'.phase = "reconciled" /\ run.pending = {}
              /\ \A o \in Objects : IF o \in Absent THEN tx'[o].typed = None ELSE tx'[o] = tx[o]
         /\ CollectDeleted =>
              /\ run.phase = "reconciled" /\ run'.phase = "searched"
              /\ \A o \in Objects :
                   IF o \in NewlyDeleted THEN tx'[o].typed = None ELSE tx'[o] = tx[o]
         /\ \A o \in Objects : tx'[o].confirmed = tx[o].confirmed
<1>1. run \in RunVars /\ tx \in [Objects -> Entry]
  BY DEF TypeOK, RunOK, RowsOK
<1>2. \A o \in Objects : /\ MarkedDeleted(tx[o], RunId, run.ts).typed = None
                         /\ MarkedDeleted(tx[o], RunId, run.ts).confirmed = tx[o].confirmed
  <2> TAKE o \in Objects
  <2>1. tx[o] \in Entry
    BY <1>1
  <2> QED
    BY <2>1 DEF MarkedDeleted, TypedAs, Versioned, Entry
<1>3. CASE ReconcileAbsent
  BY <1>1, <1>2, <1>3 DEF ReconcileAbsent, CollectDeleted, RunVars, InProgress
<1>4. CASE CollectDeleted
  BY <1>1, <1>2, <1>4 DEF ReconcileAbsent, CollectDeleted, RunVars, InProgress
<1> QED
  BY <1>3, <1>4

LEMMA CommitEffect ==
  ASSUME TypeOK, Commit
  PROVE  /\ tx' = db' /\ run.phase = "searched" /\ run'.phase = "committed"
         /\ \A o \in Objects :
              db'[o].typed = IF tx[o].deleted /\ tx[o].confirmed # RunId THEN None ELSE tx[o].typed
<1>1. run \in RunVars /\ tx \in [Objects -> Entry]
  BY DEF TypeOK, RunOK, RowsOK
<1>2. \A o \in Objects :
        Repaired(Cleared(tx[o], RunId)).typed =
          IF tx[o].deleted /\ tx[o].confirmed # RunId THEN None ELSE tx[o].typed
  <2> TAKE o \in Objects
  <2>1. tx[o] \in Entry
    BY <1>1
  <2> QED
    BY <2>1 DEF Repaired, Cleared, TypedAs, Entry
<1> QED
  BY <1>1, <1>2 DEF Commit, RunVars

\* A tombstone the search passes by is older than the run before: an object
\* shown all the same has been seen live by this run.
LEMMA SearchFindsAll ==
  ASSUME TypeOK, RowsInv, StartsInv, TombstonesInv, CollectDeleted,
         NEW o \in Users, o \notin NewlyDeleted, tx[o].typed # None, Tombstoned(o)
  PROVE  o \in run.seen
<1>1. InProgress /\ run.phase = "reconciled" /\ o \in Objects
  BY DEF CollectDeleted, InProgress, Objects
<1>3. dir[o].st = "deleted" /\ \A r \in Succeeded : dir[o].usn > runs[r].start
  BY DEF TombstonesInv, ToBeFound
<1>4. InTx(tx[o], db[o], RunId) /\ (tx[o].confirmed = RunId => o \in run.seen)
  BY <1>1 DEF RowsInv
<1>5. SUFFICES ASSUME o \notin run.seen PROVE FALSE
  OBVIOUS
<1>6. tx[o].first # 0 /\ ~tx[o].deleted /\ tx[o].confirmed # RunId
  BY <1>4, <1>5 DEF InTx
<1>7. o \notin Tombstones
  BY <1>6 DEF NewlyDeleted
<1>8. Succeeded # {}
  BY <1>1, <1>5 DEF TombstonesInv
<1>9. PICK r \in Succeeded :
        run.prior = IF run.ident = None \/ runs[r].ident = None \/ runs[r].ident # run.ident
                    THEN 0 ELSE runs[r].watermark
  BY <1>1, <1>8 DEF StartsInv, PriorWatermark
<1>10. runs[r].watermark # None
  BY DEF TypeOK, RunsOK, Succeeded
<1>11. run.prior # None
  BY <1>9, <1>10, ValuesAssumption
<1>12. run.prior # 0 /\ ~(UsnAt(run.dc, dir[o].usn) >= run.prior)
  BY <1>3, <1>7, <1>11 DEF Tombstones
<1>13. run.ident # None /\ runs[r].ident = run.ident /\ run.prior = runs[r].watermark
  BY <1>9, <1>12
<1>14. run.ident = run.dc /\ run.dc \in Dcs
  BY <1>1, <1>13 DEF StartsInv, TypeOK, RunOK, RunVars
<1>15. run.prior = UsnAt(run.dc, runs[r].start)
  BY <1>13, <1>14 DEF StartsInv
<1>16. UsnBase[run.dc] \in Nat
  BY <1>14, NumbersAssumption
<1>17. dir[o].usn \in Nat
  BY <1>1 DEF TypeOK, DirOK, DirEntry
<1>18. runs[r].start \in Nat
  <2>1. runs \in Seq(SyncRun) /\ r \in DOMAIN runs
    BY DEF TypeOK, RunsOK, Succeeded
  <2>2. runs[r] \in SyncRun
    BY <2>1, ElementOfSeq, LenProperties
  <2> QED
    BY <2>2 DEF SyncRun
<1> QED
  BY <1>3, <1>12, <1>15, <1>16, <1>17, <1>18 DEF UsnAt

LEMMA TombstonesNext ==
  TypeOK /\ RowsInv /\ StartsInv /\ TombstonesInv /\ [Next]_vars => TombstonesInv'
<1> SUFFICES ASSUME TypeOK, RowsInv, StartsInv, TombstonesInv, [Next]_vars
             PROVE  TombstonesInv'
  OBVIOUS
<1>1. CASE UNCHANGED vars
  BY <1>1 DEF vars, TombstonesInv, ToBeFound, Tombstoned, DeletedSince, ShownSince,
              Succeeded, InProgress
<1>2. CASE Directory
  BY <1>2, TombstonesDirectory
<1>3. ASSUME Len(runs) < MaxRuns, NEW c \in Started[Len(runs) + 1], Bind(c)
      PROVE  TombstonesInv'
  <2>1. ~InProgress' /\ run'.phase = "bound" /\ Succeeded' = Succeeded
        /\ UNCHANGED <<dir, db, tx, runs>> /\ run.phase = "idle"
    BY <1>3, BindEffect DEF InProgress, Succeeded
  <2> QED
    BY <2>1 DEF TombstonesInv, ToBeFound, Tombstoned
<1>4. CASE OpenRun
  <2>1. /\ UNCHANGED <<dir, db, tx>> /\ run.phase = "bound" /\ run'.phase = "collecting"
        /\ Succeeded' = Succeeded /\ run'.seen = {} /\ tx = db
        /\ \A r \in Succeeded : runs'[r] = runs[r]
    BY <1>4, OpenRunEffect DEF StartsInv, RowsInv, InProgress, Succeeded
  <2> QED
    BY <2>1 DEF TombstonesInv, ToBeFound, Tombstoned
<1>5. ASSUME NEW o \in Objects, VisitMissing(o) \/ VisitUnchanged(o) \/ VisitChanged(o)
      PROVE  TombstonesInv'
  <2>1. /\ UNCHANGED <<dir, runs>> /\ Succeeded' = Succeeded /\ run'.start = run.start
        /\ InProgress /\ InProgress'
    BY <1>5, ProceedingEffect, VisitEffect DEF Proceeding, Succeeded, InProgress
  <2>2. /\ db' = db /\ run.phase = "collecting" /\ run'.phase = "collecting"
        /\ \A q \in Objects \ {o} : tx'[q] = tx[q]
        /\ \/ run'.seen = run.seen \cup {o} /\ ~Tombstoned(o)
           \/ run'.seen = run.seen /\ tx' = tx
    BY <1>5, VisitEffect DEF Tombstoned
  <2>3. Users \subseteq Objects
    BY DEF Objects
  <2> QED
    BY <2>1, <2>2, <2>3 DEF TombstonesInv, ToBeFound, Tombstoned, DeletedSince
<1>6. CASE ReconcileAbsent \/ CollectDeleted
  <2>1. /\ UNCHANGED <<dir, runs>> /\ Succeeded' = Succeeded /\ run'.start = run.start
    BY <1>6, ProceedingEffect DEF Proceeding, Succeeded
  <2>2. /\ db' = db /\ run'.seen = run.seen /\ InProgress /\ InProgress'
        /\ \A o \in Objects : tx'[o] = tx[o] \/ tx'[o].typed = None
        /\ run'.phase \in {"searched", "committed"} => CollectDeleted
        /\ run.phase # "committed"
    BY <1>6, MarkEffect DEF InProgress
  <2>3. Users \subseteq Objects
    BY DEF Objects
  <2>4. ASSUME CollectDeleted PROVE ShownSince(tx)'
    <3>1. \A o \in Objects : tx'[o].typed # None => o \notin NewlyDeleted /\ tx'[o] = tx[o]
      BY <2>4, MarkEffect
    <3> QED
      BY <2>1, <2>2, <2>3, <2>4, <3>1, SearchFindsAll
         DEF ShownSince, Tombstoned, DeletedSince, TombstonesInv
  <2> QED
    BY <2>1, <2>2, <2>3, <2>4 DEF TombstonesInv, ToBeFound, Tombstoned, DeletedSince
<1>7. CASE Commit
  <2>1. /\ UNCHANGED <<dir, runs>> /\ Succeeded' = Succeeded /\ run'.start = run.start
    BY <1>7, ProceedingEffect DEF Proceeding, Succeeded
  <2>2. /\ tx' = db' /\ run.phase = "searched" /\ run'.phase = "committed"
        /\ \A o \in Objects : db'[o].typed # None => db'[o].typed = tx[o].typed
    BY <1>7, CommitEffect
  <2>3. Users \subseteq Objects
    BY DEF Objects
  <2> QED
    BY <2>1, <2>2, <2>3 DEF TombstonesInv, ToBeFound, Tombstoned, DeletedSince, ShownSince,
                            InProgress
<1>8. CASE LoseFinalizeDelta \/ RollBack
  <2>1. /\ UNCHANGED <<dir, db>> /\ tx' = db /\ run'.phase = "idle" /\ Succeeded' = Succeeded
        /\ \A r \in Succeeded : runs'[r] = runs[r]
    BY <1>8, EndUnrecorded DEF Idle
  <2>2. Succeeded = {} => run.phase # "committed"
    <3>1. CASE RollBack
      BY <3>1 DEF RollBack, Reading
    <3>2. CASE LoseFinalizeDelta
      <4>1. run.prior # None /\ run.prior \in PriorWatermark(run.ident)
        BY <3>2 DEF LoseFinalizeDelta, LoseFinalize, StartsInv
      <4> QED
        BY <4>1 DEF PriorWatermark
    <3> QED
      BY <1>8, <3>1, <3>2
  <2> QED
    BY <2>1, <2>2 DEF TombstonesInv, ToBeFound, Tombstoned, InProgress
<1>9. CASE FinalizeSucceeded
  <2>1. /\ UNCHANGED <<dir, db, tx>> /\ run'.phase = "idle"
        /\ Succeeded' = Succeeded \cup {RunId}
        /\ \A r \in Succeeded : runs'[r] = runs[r]
        /\ runs'[RunId].start = run.start
    BY <1>9, EndSucceeded DEF Idle
  <2>2. tx = db /\ ShownSince(tx)
    BY <1>9 DEF FinalizeSucceeded, RowsInv, InProgress, TombstonesInv
  <2>3. ToBeFound(db)'
    BY <2>1, <2>2 DEF TombstonesInv, ToBeFound, Tombstoned, ShownSince, DeletedSince
  <2> QED
    BY <2>1, <2>2, <2>3 DEF TombstonesInv, ToBeFound, Tombstoned, InProgress
<1>10. ASSUME NEW c \in OptionalClasses, EnumerationFails(c)
       PROVE  TombstonesInv'
  <2>1. /\ UNCHANGED <<dir, db, tx, runs>> /\ run'.phase = run.phase
        /\ run'.start = run.start /\ run'.seen = run.seen
    BY <1>10, FailsEffect
  <2> QED
    BY <2>1
    DEF TombstonesInv, ToBeFound, Tombstoned, DeletedSince, ShownSince, Succeeded, InProgress
<1> QED
  BY <1>1, <1>2, <1>3, <1>4, <1>5, <1>6, <1>7, <1>8, <1>9, <1>10 DEF Next, Collect

\* What the database shows and the directory has deleted is still going to be
\* found, whatever runs failed, on whatever controllers, in between.
THEOREM NoDeletionEverBehindWatermark == Spec => []NoDeletionBehindWatermark
<1>1. TypeOK /\ StartsInv /\ TombstonesInv => NoDeletionBehindWatermark
  <2> SUFFICES ASSUME TypeOK, StartsInv, TombstonesInv, NEW o \in Users,
                      db[o].typed # None, dir[o].st \in {"deleted", "purged"},
                      NEW r \in Succeeded, runs[r].ident # None
               PROVE  /\ dir[o].st = "deleted"
                      /\ UsnAt(runs[r].ident, dir[o].usn) >= runs[r].watermark
    BY DEF NoDeletionBehindWatermark, TombstonesInv, ToBeFound, Tombstoned
  <2>1. dir[o].st = "deleted" /\ dir[o].usn > runs[r].start
    BY DEF TombstonesInv, ToBeFound, Tombstoned
  <2>2. runs[r].watermark = UsnAt(runs[r].ident, runs[r].start)
    BY DEF StartsInv
  <2>3. runs[r] \in SyncRun
    <3>1. runs \in Seq(SyncRun) /\ r \in DOMAIN runs
      BY DEF TypeOK, RunsOK, Succeeded
    <3> QED
      BY <3>1, ElementOfSeq, LenProperties
  <2>4. runs[r].start \in Nat /\ UsnBase[runs[r].ident] \in Nat
    BY <2>3, NumbersAssumption DEF SyncRun
  <2>5. dir[o].usn \in Nat
    BY DEF TypeOK, DirOK, DirEntry, Objects
  <2> QED
    BY <2>1, <2>2, <2>4, <2>5 DEF UsnAt
<1> QED
  BY <1>1, TypeCorrect, RowsInit, RowsNext, StartsInit, StartsNext, TombstonesInit,
     TombstonesNext, PTL DEF Spec

-----------------------------------------------------------------------------
(* What a run may have seen of each object.                                *)

\* An object the enumeration has passed by, and what may be said of it: that
\* it is not there, and what was said before if it has come back since.
PassedBy(o) ==
  /\ None \in window[o]
  /\ Visible(dir[o]) # None => Reported(db[o]) \in window[o]

\* What is reported in the run's own transaction is, of what the run has dealt
\* with, in the window; of the rest, what was reported before.  So it is of
\* what the run could not read, and there the window allows for it.
WindowInv ==
  /\ \A o \in Objects : dir[o].st = "absent" => db[o].typed = None /\ tx[o].typed = None
  /\ Reading =>
       \A o \in Objects : /\ Visible(dir[o]) \in window[o]
                          /\ ~Served(o) => Reported(db[o]) \in window[o]
  /\ InProgress =>
       \A o \in Objects :
         /\ o \in run.seen => /\ o \notin run.pending
                              /\ tx[o].confirmed = RunId
                              /\ Reported(tx[o]) \in window[o]
         /\ o \notin run.seen \cup run.pending \cup run.unread /\ Served(o) => PassedBy(o)
         /\ o \in run.unread \ run.seen => Reported(db[o]) \in window[o]
  /\ run.phase = "collecting" =>
       \A o \in Objects \ run.seen : Reported(tx[o]) = Reported(db[o])
  /\ run.phase \in {"reconciled", "searched"} => run.pending = {}
  /\ run.phase = "reconciled" =>
       /\ \A o \in Users \ run.seen : Reported(tx[o]) = Reported(db[o])
       /\ \A o \in Sites : Reported(tx[o]) \in window[o]
  /\ run.phase = "searched" => \A o \in Objects : Reported(tx[o]) \in window[o]
  /\ MirrorsDirectory

LEMMA WindowInit == Init => WindowInv
  BY DEF Init, WindowInv, Idle, NoEntry, Reading, InProgress, MirrorsDirectory

LEMMA WindowDirectory ==
  ASSUME TypeOK, WindowInv, Directory
  PROVE  WindowInv'
<1>1. UNCHANGED <<db, tx, runs, run>> /\ RunId' = RunId
  BY DirectoryEffect DEF RunId
<1>2. PICK o \in Objects : /\ \A q \in Objects \ {o} : dir'[q] = dir[q]
                           /\ ChangedNow(o) \/ PurgedNow(o)
  BY DirectoryEffect
<1>3. /\ \A q \in Objects \ {o} : Visible(dir'[q]) = Visible(dir[q])
      /\ dir'[o].st # "absent"
      /\ PurgedNow(o) => Visible(dir'[o]) = None /\ Visible(dir[o]) = None
  BY <1>2 DEF ChangedNow, PurgedNow, Visible
<1>4. /\ \A q \in Objects : \A v : v \in window[q] => v \in window'[q]
      /\ Reading => \/ Visible(dir'[o]) = None /\ Visible(dir[o]) = None
                    \/ /\ Visible(dir'[o]) \in window'[o]
                       /\ Visible(dir[o]) = None => Reported(db[o]) \in window'[o]
  <2>1. window \in [Objects -> SUBSET (Attrs \cup {None})]
    BY DEF TypeOK
  <2> QED
    BY <1>2, <1>3, <2>1 DEF ChangedNow, PurgedNow
<1>5. \A q \in Objects : Served(q)' = Served(q) /\ Reported(tx'[q]) = Reported(tx[q])
                         /\ Reported(db'[q]) = Reported(db[q])
  BY <1>1 DEF Served
<1>6. \A q \in Objects : dir'[q].st = "absent" => db'[q].typed = None /\ tx'[q].typed = None
  BY <1>1, <1>2, <1>3 DEF WindowInv
<1>7. (Reading => \A q \in Objects :
          /\ Visible(dir[q]) \in window[q]
          /\ ~Served(q) => Reported(db[q]) \in window[q])'
  BY <1>1, <1>3, <1>4, <1>5 DEF WindowInv, Reading
<1>8. (InProgress => \A q \in Objects :
         q \notin run.seen \cup run.pending \cup run.unread /\ Served(q) => PassedBy(q))'
  <2> SUFFICES ASSUME InProgress, NEW q \in Objects,
                      q \notin run.seen \cup run.pending \cup run.unread, Served(q)
               PROVE  PassedBy(q)'
    BY <1>1, <1>5 DEF InProgress
  <2>1. PassedBy(q) /\ Reading
    BY DEF WindowInv, InProgress, Reading
  <2> QED
    BY <1>1, <1>3, <1>4, <2>1 DEF PassedBy
<1>9. (InProgress => \A q \in Objects :
         /\ q \in run.seen => /\ q \notin run.pending
                             /\ tx[q].confirmed = RunId
                             /\ Reported(tx[q]) \in window[q]
         /\ q \in run.unread \ run.seen => Reported(db[q]) \in window[q])'
  BY <1>1, <1>4 DEF WindowInv, InProgress
<1>10. /\ (run.phase = "reconciled" => \A q \in Sites : Reported(tx[q]) \in window[q])'
       /\ (run.phase = "searched" => \A q \in Objects : Reported(tx[q]) \in window[q])'
       /\ MirrorsDirectory'
  BY <1>1, <1>4 DEF WindowInv, MirrorsDirectory, Objects
<1> QED
  BY <1>1, <1>6, <1>7, <1>8, <1>9, <1>10 DEF WindowInv

LEMMA WindowVisit ==
  ASSUME TypeOK, RowsInv, WindowInv,
         NEW o \in Objects, VisitMissing(o) \/ VisitUnchanged(o) \/ VisitChanged(o)
  PROVE  WindowInv'
<1>1. /\ UNCHANGED <<dir, runs, window, db>> /\ RunId' = RunId /\ run'.dc = run.dc
      /\ InProgress /\ Reading /\ run.phase = "collecting" /\ run'.phase = "collecting"
      /\ run'.unread = run.unread
  BY ProceedingEffect, VisitEffect DEF Proceeding, InProgress, Reading
<1>2. \A q \in Objects : Served(q)' = Served(q)
  BY <1>1 DEF Served
<1>3. o \in run.pending /\ run'.pending = run.pending \ {o} /\ o \notin run.seen
  BY <1>1, VisitEffect DEF WindowInv
<1>4. CASE ~(Served(o) /\ dir[o].st = "live") /\ run'.seen = run.seen /\ tx' = tx
  <2>1. Served(o) => Visible(dir[o]) = None /\ None \in window[o]
    BY <1>1, <1>4 DEF WindowInv, Visible
  <2> QED
    BY <1>1, <1>2, <1>3, <1>4, <2>1
    DEF WindowInv, PassedBy, InProgress, Reading, MirrorsDirectory
<1>5. CASE /\ Served(o) /\ dir[o].st = "live" /\ run'.seen = run.seen \cup {o}
           /\ tx'[o].confirmed = RunId
           /\ \/ tx'[o].typed = dir[o].attr
              \/ tx[o].attr = dir[o].attr /\ tx'[o].typed = tx[o].typed
  <2>1. dir[o].attr \in Attrs
    BY <1>5 DEF TypeOK, DirOK
  <2>2. InTx(tx[o], db[o], RunId)
    BY <1>1 DEF RowsInv
  <2>3. tx'[o].typed = dir[o].attr
    BY <1>5, <2>1, <2>2, ValuesAssumption DEF InTx
  <2>4. Reported(tx'[o]) \in window[o]
    BY <1>1, <1>5, <2>3 DEF WindowInv, Reported, Visible
  <2>5. \A q \in Objects \ {o} : tx'[q] = tx[q]
    BY VisitEffect
  <2> QED
    BY <1>1, <1>2, <1>3, <1>5, <2>4, <2>5
    DEF WindowInv, PassedBy, InProgress, Reading, MirrorsDirectory
<1> QED
  BY <1>4, <1>5, VisitEffect

\* An object of a partition the controller holds, and of a class the run could
\* read, that the run has not come across is absent, or is not reported any more.
LEMMA WindowReconcile ==
  ASSUME TypeOK, RowsInv, WindowInv, ReconcileAbsent
  PROVE  WindowInv'
<1>1. /\ UNCHANGED <<dir, runs, window, db>> /\ RunId' = RunId /\ run'.dc = run.dc
      /\ InProgress /\ Reading /\ run.phase = "collecting" /\ run'.phase = "reconciled"
      /\ run'.seen = run.seen /\ run'.pending = run.pending /\ run.pending = {}
      /\ run'.unread = run.unread
      /\ \A o \in Objects : /\ IF o \in Absent THEN tx'[o].typed = None ELSE tx'[o] = tx[o]
                            /\ tx'[o].confirmed = tx[o].confirmed
  BY ProceedingEffect, MarkEffect DEF Proceeding, InProgress, Reading
<1>2. \A o \in Objects : Served(o)' = Served(o)
  BY <1>1 DEF Served
<1>3. \A o \in Users \ run.seen : o \in Objects /\ Reported(tx'[o]) = Reported(db[o])
  BY <1>1, UsersSitesDisjoint DEF WindowInv, Absent, Objects
<1>4. ASSUME NEW o \in Sites PROVE Reported(tx'[o]) \in window[o]
  <2>1. o \in Objects
    BY DEF Objects
  <2>2. CASE o \in run.seen
    BY <1>1, <2>1, <2>2 DEF WindowInv, Absent
  <2>3. CASE o \notin run.seen /\ run.dc \notin Hosting
    <3>1. ~Served(o) /\ o \notin Absent
      BY <2>3, UsersSitesDisjoint DEF Served, Absent
    <3> QED
      BY <1>1, <2>1, <2>3, <3>1 DEF WindowInv
  <2>4. CASE o \in run.unread \ run.seen
    <3>1. tx'[o] = tx[o] /\ Reported(tx[o]) = Reported(db[o])
      BY <1>1, <2>1, <2>4 DEF WindowInv, Absent
    <3> QED
      BY <1>1, <2>1, <2>4, <3>1 DEF WindowInv
  <2>5. CASE o \notin run.seen \cup run.unread /\ run.dc \in Hosting
    <3>1. None \in window[o]
      BY <1>1, <2>1, <2>5 DEF WindowInv, Served, PassedBy
    <3>2. InTx(tx[o], db[o], RunId) /\ tx[o].confirmed # RunId
      BY <1>1, <2>1, <2>5 DEF RowsInv
    <3>3. tx'[o].typed = None
      BY <1>1, <2>1, <2>5, <3>2 DEF Absent, InTx
    <3> QED
      BY <3>1, <3>3 DEF Reported
  <2> QED
    BY <2>2, <2>3, <2>4, <2>5
<1>5. \A o \in Objects : /\ dir[o].st = "absent" => tx'[o].typed = None
                         /\ o \in run.seen => Reported(tx'[o]) \in window[o]
  BY <1>1 DEF WindowInv, Absent
<1> QED
  BY <1>1, <1>2, <1>3, <1>4, <1>5
  DEF WindowInv, PassedBy, InProgress, Reading, MirrorsDirectory

\* After the search for tombstones nothing is left to what was reported before
\* but what could not be read.
LEMMA WindowSearch ==
  ASSUME TypeOK, RowsInv, StartsInv, TombstonesInv, WindowInv, CollectDeleted
  PROVE  WindowInv'
<1>1. /\ UNCHANGED <<dir, runs, window, db>> /\ RunId' = RunId /\ run'.dc = run.dc
      /\ InProgress /\ Reading /\ run.phase = "reconciled" /\ run'.phase = "searched"
      /\ run'.seen = run.seen /\ run'.pending = run.pending /\ run.pending = {}
      /\ run'.unread = run.unread
      /\ \A o \in Objects :
           /\ IF o \in NewlyDeleted THEN tx'[o].typed = None ELSE tx'[o] = tx[o]
           /\ tx'[o].confirmed = tx[o].confirmed
  <2>1. run.phase = "reconciled" /\ run'.phase = "searched"
    BY MarkEffect
  <2>2. run.pending = {}
    BY <2>1 DEF WindowInv
  <2> QED
    BY <2>1, <2>2, ProceedingEffect, MarkEffect DEF Proceeding, InProgress, Reading
<1>2. \A o \in Objects : Served(o)' = Served(o)
  BY <1>1 DEF Served
<1>3. ASSUME NEW o \in Objects PROVE Reported(tx'[o]) \in window[o]
  <2>1. CASE o \in run.seen
    BY <1>1, <2>1 DEF WindowInv, NewlyDeleted
  <2>2. CASE o \in Sites
    BY <1>1, <2>2, UsersSitesDisjoint DEF WindowInv, NewlyDeleted, Tombstones
  <2>3. CASE o \in Users \ (run.seen \cup run.unread)
    <3>1. PassedBy(o) /\ Reported(tx[o]) = Reported(db[o])
      BY <1>1, <2>3 DEF WindowInv, Served
    <3>2. CASE o \in NewlyDeleted \/ tx[o].typed = None \/ Visible(dir[o]) # None
      BY <1>1, <3>1, <3>2 DEF PassedBy, Reported
    <3>3. CASE o \notin NewlyDeleted /\ tx[o].typed # None /\ Visible(dir[o]) = None
      <4>1. dir[o].st # "live"
        BY <3>3, ValuesAssumption DEF TypeOK, DirOK, Visible
      <4>2. dir[o].st # "absent"
        BY <3>3 DEF WindowInv
      <4>3. Tombstoned(o)
        BY <4>1, <4>2 DEF TypeOK, DirOK, DirEntry, Tombstoned
      <4> QED
        BY <2>3, <3>3, <4>3, SearchFindsAll
    <3> QED
      BY <3>2, <3>3
  <2>4. CASE o \in Users /\ o \in run.unread \ run.seen
    <3>1. Reported(tx[o]) = Reported(db[o]) /\ Reported(db[o]) \in window[o]
      BY <1>1, <2>4 DEF WindowInv
    <3>2. o \in NewlyDeleted => Visible(dir[o]) = None /\ Visible(dir[o]) \in window[o]
      BY <1>1 DEF WindowInv, NewlyDeleted, Tombstones, Visible
    <3> QED
      BY <1>1, <3>1, <3>2 DEF Reported
  <2> QED
    BY <2>1, <2>2, <2>3, <2>4 DEF Objects
<1>4. \A o \in Objects : dir[o].st = "absent" => tx'[o].typed = None
  BY <1>1 DEF WindowInv
<1> QED
  BY <1>1, <1>2, <1>3, <1>4
  DEF WindowInv, PassedBy, InProgress, Reading, MirrorsDirectory

\* The window grows by what is reported of the objects that cannot be read.
LEMMA WindowFails ==
  ASSUME TypeOK, WindowInv, NEW c \in OptionalClasses, EnumerationFails(c)
  PROVE  WindowInv'
<1>1. /\ InProgress /\ InProgress' /\ Reading /\ Reading' /\ UNCHANGED <<dir, db, tx>>
      /\ \A o \in Objects : Served(o)' = Served(o)
      /\ RunId' = RunId /\ run'.phase = "collecting" /\ run.phase = "collecting"
      /\ run'.seen = run.seen /\ run'.pending = run.pending \ c
      /\ run'.unread = run.unread \cup c
  BY FailsEffect DEF InProgress, Reading, Served
<1>2. \A o \in Objects : /\ window[o] \subseteq window'[o]
                         /\ o \in c \ run.seen => Reported(db[o]) \in window'[o]
  <2>1. window' = [o \in Objects |-> IF o \in c \ run.seen
                                    THEN window[o] \cup {Reported(db[o])} ELSE window[o]]
    BY FailsEffect
  <2> QED
    BY <2>1
<1>3. \A o \in Objects : PassedBy(o) => PassedBy(o)'
  BY <1>1, <1>2 DEF PassedBy
<1>4. \A o \in Objects :
        /\ o \in run'.seen => /\ o \notin run'.pending
                              /\ tx[o].confirmed = RunId
                              /\ Reported(tx[o]) \in window'[o]
        /\ o \notin run'.seen \cup run'.pending \cup run'.unread /\ Served(o) => PassedBy(o)'
        /\ o \in run'.unread \ run'.seen => Reported(db[o]) \in window'[o]
  BY <1>1, <1>2, <1>3 DEF WindowInv
<1>5. \A o \in Objects : /\ Visible(dir[o]) \in window'[o]
                         /\ ~Served(o) => Reported(db[o]) \in window'[o]
  BY <1>1, <1>2 DEF WindowInv
<1> QED
  BY <1>1, <1>4, <1>5 DEF WindowInv, MirrorsDirectory

\* The commit changes nothing of what the transaction reports.
LEMMA CommitReports ==
  ASSUME TypeOK, RowsInv, Commit, NEW o \in Objects
  PROVE  Reported(db'[o]) = Reported(tx[o])
<1>1. InTx(tx[o], db[o], RunId)
  BY CommitEffect DEF RowsInv, InProgress
<1> QED
  BY <1>1, CommitEffect DEF InTx, Reported

LEMMA WindowNext ==
  TypeOK /\ RowsInv /\ StartsInv /\ TombstonesInv /\ WindowInv /\ [Next]_vars => WindowInv'
<1> SUFFICES ASSUME TypeOK, RowsInv, StartsInv, TombstonesInv, WindowInv, [Next]_vars
             PROVE  WindowInv'
  OBVIOUS
<1>1. CASE UNCHANGED vars
  BY <1>1 DEF vars, WindowInv, PassedBy, Reading, InProgress, Served, RunId, MirrorsDirectory
<1>2. ASSUME Len(runs) < MaxRuns, NEW c \in Started[Len(runs) + 1], Bind(c)
      PROVE  WindowInv'
  <2>1. /\ UNCHANGED <<dir, db, tx>> /\ run'.phase = "bound" /\ ~InProgress'
        /\ window' = [o \in Objects |->
                        {Visible(dir[o])} \cup
                        (IF o \in Sites /\ c.dc \notin Hosting THEN {Reported(db[o])} ELSE {})]
        /\ run'.dc = c.dc
    BY <1>2, BindEffect DEF InProgress
  <2>2. \A o \in Objects : Served(o)' <=> o \in Users \/ c.dc \in Hosting
    BY <2>1 DEF Served
  <2>3. \A o \in Objects : /\ Visible(dir'[o]) \in window'[o]
                           /\ ~Served(o)' => Reported(db'[o]) \in window'[o]
    BY <2>1, <2>2 DEF Objects
  <2> QED
    BY <2>1, <2>3 DEF WindowInv, MirrorsDirectory
<1>3. CASE OpenRun
  <2>1. /\ UNCHANGED <<dir, db, tx, window>> /\ run.phase = "bound" /\ run'.phase = "collecting"
        /\ run'.dc = run.dc /\ run'.seen = {} /\ run'.pending = Objects /\ tx = db
        /\ run'.unread = {}
    BY <1>3, OpenRunEffect DEF StartsInv, RowsInv, InProgress
  <2>2. \A o \in Objects : Served(o)' = Served(o)
    BY <2>1 DEF Served
  <2> QED
    BY <2>1, <2>2 DEF WindowInv, MirrorsDirectory, Reading
<1>4. CASE Commit
  <2>1. /\ UNCHANGED <<dir, window>> /\ tx' = db' /\ run.phase = "searched"
        /\ run'.phase = "committed"
    BY <1>4, CommitEffect, ProceedingEffect DEF Proceeding
  <2>2. \A o \in Objects : Reported(db'[o]) = Reported(tx[o])
    BY <1>4, CommitReports
  <2> QED
    BY <2>1, <2>2 DEF WindowInv, MirrorsDirectory, Reading, InProgress, Reported
<1>5. CASE FinalizeSucceeded \/ LoseFinalizeDelta \/ RollBack
  <2>1. UNCHANGED <<dir, db>> /\ tx' \in {tx, db} /\ run'.phase = "idle"
    BY <1>5, EndSucceeded, EndUnrecorded DEF Idle
  <2> QED
    BY <2>1 DEF WindowInv, MirrorsDirectory, Reading, InProgress
<1> QED
  BY <1>1, <1>2, <1>3, <1>4, <1>5, WindowDirectory, WindowVisit, WindowFails,
     WindowReconcile, WindowSearch
  DEF Next, Collect

\* Whatever happens to the directory meanwhile, and whichever optional classes
\* fail, the report a run commits is, of every object, a state it was in during
\* that run, or what was reported of it before where the run could not see it.
THEOREM AlwaysMirrorsDirectory == Spec => []MirrorsDirectory
<1>1. WindowInv => MirrorsDirectory
  BY DEF WindowInv
<1> QED
  BY <1>1, TypeCorrect, RowsInit, RowsNext, StartsInit, StartsNext, TombstonesInit,
     TombstonesNext, WindowInit, WindowNext, PTL DEF Spec

-----------------------------------------------------------------------------
(* The collector implements DirectoryMirror.                               *)

\* The abstract directory, report and window, as the collector has them.
ActualNow == [o \in Objects |-> Visible(dir[o])]
ReportNow == [o \in Objects |-> Reported(db[o])]
WindowNow == [o \in Objects |-> IF Reading THEN window[o] ELSE {}]

LEMMA MirrorInit == Init => Mirror!Init
  BY DEF Init, Mirror!Init, Idle, Reading, NoEntry, Reported, Visible

\* A change of the directory is one there, and a purge is invisible.
LEMMA DirectoryMirrored ==
  ASSUME TypeOK, TypeOK', Directory
  PROVE  [Mirror!Next]_(Mirror!vars)
<1>1. UNCHANGED <<db, tx, runs, run>>
  BY DirectoryEffect
<1>2. PICK o \in Objects : /\ \A q \in Objects \ {o} : dir'[q] = dir[q]
                           /\ ChangedNow(o) \/ PurgedNow(o)
  BY DirectoryEffect
<1>3. ReportNow' = ReportNow /\ Reading' = Reading
  BY <1>1 DEF ReportNow, Reading
<1>4. CASE ChangedNow(o)
  <2> DEFINE v == Visible(dir'[o])
  <2>1. v \in Attrs \cup {None}
    BY DEF TypeOK, DirOK, DirEntry, Visible
  <2>2. ActualNow' = [ActualNow EXCEPT ![o] = v]
    BY <1>2 DEF ActualNow
  <2>3. ActualNow'[o] = v /\ ActualNow[o] = Visible(dir[o]) /\ ReportNow[o] = Reported(db[o])
    BY DEF ActualNow, ReportNow
  <2> HIDE DEF v
  <2>4. WindowNow' = IF Reading
                     THEN [WindowNow EXCEPT ![o] =
                             @ \cup {ActualNow'[o]}
                               \cup (IF ActualNow[o] = None THEN {ReportNow[o]} ELSE {})]
                     ELSE WindowNow
    <3>1. window \in [Objects -> SUBSET (Attrs \cup {None})]
      BY DEF TypeOK
    <3>2. CASE ~Reading
      BY <1>3, <1>4, <3>2 DEF WindowNow, ChangedNow
    <3>3. CASE Reading
      <4>1. WindowNow = window /\ WindowNow' = window'
        <5>1. window' = [window EXCEPT ![o] = @ \cup {Visible(dir'[o])}
                           \cup (IF Visible(dir[o]) = None THEN {Reported(db[o])} ELSE {})]
          BY <1>4, <3>3 DEF ChangedNow
        <5>2. window' = [q \in Objects |-> window'[q]]
          BY <3>1, <5>1
        <5> QED
          BY <1>3, <3>1, <3>3, <5>2 DEF WindowNow
      <4> QED
        BY <1>4, <2>3, <3>3, <4>1 DEF ChangedNow, v
    <3> QED
      BY <3>2, <3>3
  <2>5. Mirror!Change(o)
    BY <1>3, <2>1, <2>2, <2>4 DEF Mirror!Change, ActualNow, ReportNow, WindowNow
  <2> QED
    BY <2>5 DEF Mirror!Next
<1>5. CASE PurgedNow(o)
  <2>1. ActualNow' = ActualNow
    BY <1>2, <1>5 DEF ActualNow, PurgedNow, Visible
  <2>2. WindowNow' = WindowNow
    BY <1>3, <1>5 DEF WindowNow, PurgedNow
  <2> QED
    BY <1>3, <2>1, <2>2 DEF Mirror!vars, ActualNow, ReportNow, WindowNow
<1> QED
  BY <1>2, <1>4, <1>5

LEMMA BindMirrored ==
  ASSUME TypeOK, Len(runs) < MaxRuns, NEW c \in Started[Len(runs) + 1], Bind(c)
  PROVE  Mirror!Begin
<1>1. /\ UNCHANGED <<dir, db>> /\ ~Reading /\ Reading'
      /\ window' = [o \in Objects |->
                      {Visible(dir[o])} \cup
                      (IF o \in Sites /\ c.dc \notin Hosting THEN {Reported(db[o])} ELSE {})]
  BY BindEffect DEF Reading
<1> DEFINE kept == IF c.dc \in Hosting THEN {} ELSE Sites
<1>2. kept \in SUBSET (Sites \cup UNION OptionalClasses) /\ \A o \in Objects : o \in kept <=> o \in Sites /\ c.dc \notin Hosting
  OBVIOUS
<1> HIDE DEF kept
<1>3. WindowNow' = [o \in Objects |->
                      {ActualNow[o]} \cup (IF o \in kept THEN {ReportNow[o]} ELSE {})]
  BY <1>1, <1>2 DEF WindowNow, ActualNow, ReportNow
<1>4. UNCHANGED <<ActualNow, ReportNow>> /\ ~Reading /\ Reading' = TRUE
  BY <1>1 DEF ActualNow, ReportNow, Reading
<1> QED
  BY <1>2, <1>3, <1>4 DEF Mirror!Begin, ActualNow, ReportNow, WindowNow

LEMMA FailsMirrored ==
  ASSUME TypeOK, NEW c \in OptionalClasses, EnumerationFails(c)
  PROVE  Mirror!Miss
<1>1. UNCHANGED <<dir, db>> /\ Reading /\ Reading'
  BY FailsEffect DEF Reading
<1> DEFINE missed == c \ run.seen
<1>2. missed \in SUBSET (Sites \cup UNION OptionalClasses)
  OBVIOUS
<1>3. window' = [o \in Objects |-> IF o \in missed THEN window[o] \cup {Reported(db[o])}
                                                  ELSE window[o]]
  BY FailsEffect
<1> HIDE DEF missed
<1>4. WindowNow' = [o \in Objects |->
                      WindowNow[o] \cup (IF o \in missed THEN {ReportNow[o]} ELSE {})]
  BY <1>1, <1>3 DEF WindowNow, ReportNow
<1>5. UNCHANGED <<ActualNow, ReportNow, Reading>> /\ Reading
  BY <1>1 DEF ActualNow, ReportNow, Reading
<1> QED
  BY <1>2, <1>4, <1>5 DEF Mirror!Miss, ActualNow, ReportNow, WindowNow

LEMMA CommitMirrored ==
  ASSUME TypeOK, TypeOK', RowsInv, WindowInv, Commit
  PROVE  Mirror!Publish
<1>1. /\ UNCHANGED <<dir, window>> /\ run.phase = "searched" /\ run'.phase = "committed"
  BY CommitEffect, ProceedingEffect DEF Proceeding
<1>2. Reading /\ Reading' = FALSE
  BY <1>1 DEF Reading
<1>3. \A o \in Objects : Reported(db'[o]) \in window[o]
  BY <1>1, CommitReports DEF WindowInv
<1>4. ReportNow' \in [Objects -> Attrs \cup {None}]
  BY DEF TypeOK, RowsOK, Entry, ReportNow, Reported
<1>5. \A o \in Objects : ReportNow'[o] \in WindowNow[o]
  BY <1>2, <1>3 DEF ReportNow, WindowNow
<1>6. ActualNow' = ActualNow /\ WindowNow' = [o \in Objects |-> {}]
  BY <1>1, <1>2 DEF ActualNow, WindowNow
<1> QED
  BY <1>2, <1>4, <1>5, <1>6 DEF Mirror!Publish, ActualNow, ReportNow, WindowNow

\* A step of the collector is a step of the mirror, or nothing there.
LEMMA MirrorStep ==
  ASSUME TypeOK, TypeOK', RowsInv, StartsInv, WindowInv, [Next]_vars
  PROVE  [Mirror!Next]_(Mirror!vars)
<1>1. ASSUME UNCHANGED <<dir, db, window>>, Reading' = Reading
      PROVE  UNCHANGED Mirror!vars
  BY <1>1 DEF Mirror!vars
<1>2. CASE UNCHANGED vars
  BY <1>1, <1>2 DEF vars, Reading
<1>3. ASSUME Len(runs) < MaxRuns, NEW c \in Started[Len(runs) + 1], Bind(c)
      PROVE  Mirror!Next
  BY <1>3, BindMirrored DEF Mirror!Next
<1>4. CASE OpenRun
  BY <1>1, <1>4, OpenRunEffect DEF Reading
<1>5. ASSUME NEW o \in Objects, VisitMissing(o) \/ VisitUnchanged(o) \/ VisitChanged(o)
      PROVE  UNCHANGED Mirror!vars
  <2>1. UNCHANGED <<dir, db, window>> /\ Reading' = Reading
    BY <1>5, ProceedingEffect, VisitEffect DEF Proceeding, Reading
  <2> QED
    BY <1>1, <2>1
<1>6. CASE ReconcileAbsent \/ CollectDeleted
  BY <1>1, <1>6, ProceedingEffect, MarkEffect DEF Proceeding, Reading, InProgress
<1>7. CASE Commit
  BY <1>7, CommitMirrored DEF Mirror!Next
<1>8. CASE FinalizeSucceeded \/ LoseFinalizeDelta
  <2>1. UNCHANGED <<dir, db>> /\ ~Reading /\ ~Reading'
    BY <1>8, EndSucceeded, EndUnrecorded
    DEF Idle, Reading, FinalizeSucceeded, LoseFinalizeDelta, LoseFinalize
  <2>2. UNCHANGED <<ActualNow, ReportNow, WindowNow, Reading>>
    BY <2>1 DEF ActualNow, ReportNow, WindowNow, Reading
  <2> QED
    BY <2>2 DEF Mirror!vars, ActualNow, ReportNow, WindowNow
<1>9. CASE RollBack
  <2>1. UNCHANGED <<dir, db>> /\ Reading /\ Reading' = FALSE
    BY <1>9, EndUnrecorded DEF Idle, Reading, RollBack
  <2>2. UNCHANGED <<ActualNow, ReportNow>> /\ WindowNow' = [o \in Objects |-> {}]
    BY <2>1 DEF ActualNow, ReportNow, WindowNow
  <2>3. Mirror!GiveUp
    BY <2>1, <2>2 DEF Mirror!GiveUp, ActualNow, ReportNow, WindowNow
  <2> QED
    BY <2>3 DEF Mirror!Next
<1>10. ASSUME NEW c \in OptionalClasses, EnumerationFails(c)
       PROVE  Mirror!Next
  BY <1>10, FailsMirrored DEF Mirror!Next
<1> QED
  BY <1>2, <1>3, <1>4, <1>5, <1>6, <1>7, <1>8, <1>9, <1>10, DirectoryMirrored
  DEF Next, Collect

\* Nobody sees half of a run: the report changes when a run commits, whole, and
\* then to what every object was, or was last reported to be, during that run.
THEOREM CollectorImplementsMirror == Spec => ImplementsMirror
<1>1. Spec => [](TypeOK /\ RowsInv /\ StartsInv /\ TombstonesInv /\ WindowInv)
  BY TypeCorrect, RowsInit, RowsNext, StartsInit, StartsNext, TombstonesInit,
     TombstonesNext, WindowInit, WindowNext, PTL DEF Spec
<1> QED
  BY <1>1, MirrorInit, MirrorStep, PTL DEF Spec, ImplementsMirror, Mirror!Spec
=============================================================================
