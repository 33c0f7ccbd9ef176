--------------------------- MODULE DirectoryMirror ---------------------------
(***************************************************************************)
(* What the collector promises, without saying how: a database that, for   *)
(* every directory object, reports a state the object really had while the *)
(* run that last published was reading the directory.  A run that gives up *)
(* publishes nothing.  Objects restored in the middle of a run, and        *)
(* objects of partitions or of supplementary classes it could not read,    *)
(* may keep their earlier report.                                          *)
(*                                                                         *)
(* Two objects of one report may show different moments: a collection is   *)
(* not a snapshot of the directory, only of each object in it.             *)
(***************************************************************************)
CONSTANTS Objects,   \* directory objects (objectGUID)
          Optional,  \* objects a run may fail to read and still publish: those
                     \* of partitions its controller need not host, and those
                     \* of classes it can do without
          Values,    \* the states of an object a report tells apart
          Gone       \* the state of an object that is not there

VARIABLES actual,    \* the directory: [Objects -> Values]
          report,    \* what the database shows: [Objects -> Values]
          window,    \* states each object had since the current run bound
          running    \* a run is reading the directory

vars == <<actual, report, window, running>>

Init ==
  /\ actual = [o \in Objects |-> Gone]
  /\ report = [o \in Objects |-> Gone]
  /\ window = [o \in Objects |-> {}]
  /\ running = FALSE

\* The directory changes under the run's feet.  An object that comes back
\* may be missed, and what was reported before is kept.
Change(o) ==
  /\ \E v \in Values : actual' = [actual EXCEPT ![o] = v]
  /\ window' = IF running
               THEN [window EXCEPT ![o] =
                       @ \cup {actual'[o]}
                         \cup (IF actual[o] = Gone THEN {report[o]} ELSE {})]
               ELSE window
  /\ UNCHANGED <<report, running>>

\* A run starts.  For the objects of a partition its domain controller does
\* not host it may keep what was reported before.
Begin ==
  /\ ~running
  /\ running' = TRUE
  /\ \E kept \in SUBSET Optional :
        window' = [o \in Objects |->
                     {actual[o]} \cup (IF o \in kept THEN {report[o]} ELSE {})]
  /\ UNCHANGED <<actual, report>>

\* Some of them turn out to be unreadable while the run goes on.
Miss ==
  /\ running
  /\ UNCHANGED <<actual, report, running>>
  /\ \E missed \in SUBSET Optional :
        window' = [o \in Objects |->
                     window[o] \cup (IF o \in missed THEN {report[o]} ELSE {})]

\* The run's report replaces the old one, whole.
Publish ==
  /\ running
  /\ running' = FALSE
  /\ report' \in [Objects -> Values]
  /\ \A o \in Objects : report'[o] \in window[o]
  /\ window' = [o \in Objects |-> {}]
  /\ UNCHANGED actual

GiveUp ==
  /\ running
  /\ running' = FALSE
  /\ window' = [o \in Objects |-> {}]
  /\ UNCHANGED <<actual, report>>

Next ==
  \/ Begin
  \/ Miss
  \/ Publish
  \/ GiveUp
  \/ \E o \in Objects : Change(o)

Spec == Init /\ [][Next]_vars
=============================================================================
