------------------------------ MODULE EdgeRows -------------------------------
(***************************************************************************)
(* adprofiler.py: what all edge tables share.  A table is a function from  *)
(* keys to its open rows; an open row says what it says besides its key    *)
(* (flag) and which run opened it (since).  A run collects what it wants   *)
(* to be open and syncs the table once, as sync_edges() compares with all  *)
(* open rows of the client.                                                *)
(***************************************************************************)
EXTENDS Naturals

CONSTANTS
  None,        \* no such edge
  Unrecorded   \* inherit_only IS NULL: a row written before schema v34

EdgesOf(values) == [flag : values, since : Nat]

\* Slip: what is only filled in for the first time counts as a change.
PayloadReopened(open, desired) ==
  [k \in DOMAIN open |->
     IF open[k] # None /\ desired[k] # None /\ open[k].flag # desired[k] THEN None
     ELSE open[k]]

\* The first half of sync_edges(payload_cols), and
\* reconcile_acl_edge_inheritance(): an open edge that says something else
\* is closed; one that says nothing yet is filled in, not re-dated.
PayloadReconciled(open, desired) ==
  [k \in DOMAIN open |->
     IF open[k] = None \/ desired[k] = None \/ open[k].flag = desired[k] THEN open[k]
     ELSE IF open[k].flag = Unrecorded THEN [open[k] EXCEPT !.flag = desired[k]]
     ELSE None]

\* The second half of sync_edges(), over the whole table: what is wanted and
\* not open is opened, what is open and not wanted is closed.
Synced(open, desired, n) ==
  [k \in DOMAIN open |->
     IF desired[k] = None THEN None
     ELSE IF open[k] = None THEN [flag |-> desired[k], since |-> n] ELSE open[k]]

SyncEdges(open, desired, n) == Synced(PayloadReconciled(open, desired), desired, n)

\* Slip: nothing is carried forward (before v0.5.13).
CarriedNone(open, desired, unread) == desired

\* carry_forward_unreadable_acl_edges() and its like: the open edges under
\* keys that could not be read are wanted as they are.
Carried(open, desired, unread) ==
  [k \in DOMAIN open |-> IF k \in unread /\ open[k] # None THEN open[k].flag ELSE desired[k]]

-----------------------------------------------------------------------------
(* What is said of rows.                                                   *)

FlagOf(e) == IF e = None THEN None ELSE e.flag

\* The edge said all along what the directory said.
SameGrant(e, values) ==
  e # None /\ values # {None} /\ (values = {e.flag} \/ (e.flag = Unrecorded /\ None \notin values))

\* Nothing is re-dated that the directory, whose values of a run are held,
\* said all through the run.
Kept(old, new, held, keys) ==
  \A k \in keys : SameGrant(old[k], held[k]) => new[k] # None /\ new[k].since = old[k].since

=============================================================================
