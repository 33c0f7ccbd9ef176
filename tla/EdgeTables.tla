----------------------------- MODULE EdgeTables ------------------------------
(***************************************************************************)
(* The edge tables of adprofiler.py and sysvol_collector.py, one part of   *)
(* them at a time: the parts share the directory, the run and the          *)
(* transaction, and sync_edges(), but no row.                              *)
(***************************************************************************)
EXTENDS Naturals

CONSTANTS
  None, Unrecorded, MaxChanges, MaxRuns,      \* of all parts
  Ous, Gpos, Zones, AclKeys, Flags,           \* of Edges
  Accounts, Foreign, Groups, Rodcs, Names,    \* of Memberships
  Netlogon, Files, Settings                   \* of Sysvol, with Gpos

ASSUME BoundsAssumption == MaxChanges \in Nat /\ MaxRuns \in Nat
ASSUME KindsAssumption ==
  /\ Ous \cap Gpos = {} /\ Ous \cap Zones = {} /\ Gpos \cap Zones = {}
  /\ \A k \in AclKeys : k[1] \in Ous \cup Gpos \cup Zones
  /\ Accounts \cap Foreign = {} /\ Names \cap Foreign = {}
  /\ Netlogon \notin Gpos /\ \A k \in Files : k[1] \in Gpos \cup {Netlogon}
ASSUME ValuesAssumption ==
  /\ None # Unrecorded
  /\ {None, Unrecorded} \cap (Flags \cup Settings \cup {"direct", "primary"}) = {}
  /\ None \notin Names \cup Accounts \cup Foreign \cup Groups
  /\ None \notin [flag : Flags \cup Settings \cup {Unrecorded, "direct", "primary"}, since : Nat]

VARIABLES
  part,     \* which tables: constant over a behaviour
  ad, changes, db, tx, runs, run, held   \* of the part

vars == <<part, ad, changes, db, tx, runs, run, held>>

E == INSTANCE Edges
M == INSTANCE Memberships
S == INSTANCE Sysvol

Acl == part = "acl"
Membership == part = "membership"
PolicyContent == part = "policy content"

Init ==
  \/ part = "acl" /\ E!Init
  \/ part = "membership" /\ M!Init
  \/ part = "policy content" /\ S!Init

Next ==
  /\ UNCHANGED part
  /\ \/ Acl /\ E!Next
     \/ Membership /\ M!Next
     \/ PolicyContent /\ S!Next

Spec == Init /\ [][Next]_vars

\* The controller may not hold the DNS partition.
SpecAnyDc == Acl /\ E!Init /\ [][UNCHANGED part /\ (E!Next \/ E!ZonesUnserved)]_vars

-----------------------------------------------------------------------------
(* What must hold.                                                         *)

\* Types, the foreign keys of the edge tables, and that no setting of a
\* Group Policy object is older than the first run that read it.
TypeOK ==
  /\ Acl => E!TypeOK
  /\ Membership => M!TypeOK
  /\ PolicyContent => S!TypeOK

\* "Unknown is not empty": what a run could not read - a descriptor or a whole
\* class, the policy of a controller, a folder, a share - keeps the edges it
\* had, with the runs they were opened by, as long as it is not known to be gone.
UnreadKeepsEdges ==
  [][/\ Acl => E!UnreadKept
     /\ Membership => M!UnreadKept
     /\ PolicyContent => S!UnreadKept]_vars

\* What a run has read is reported as it was at some moment of the run:
\* nothing outdated stays open or is assessed, nothing that was there
\* throughout is missing, nobody is taken for another.
EdgesMirrorDirectory ==
  [][/\ Acl => E!Mirrored
     /\ Membership => M!Mirrored
     /\ PolicyContent => S!Mirrored]_vars

\* No false "newly granted": an edge that says what the directory said all
\* through the run stays the edge it was, dated by the run that opened it,
\* whatever else could not be read (unless it is of a restored object).
NothingFalselyNew ==
  [][/\ Acl => E!NotFalselyNew
     /\ Membership => M!NotFalselyNew
     /\ PolicyContent => S!NotFalselyNew]_vars

\* reconcile_absent_objects(): a referral "returns zero entries, which must
\* not be read as 'everything was deleted'" - of the ACL edges of the zones.
UnservedKeepsEdges == [][E!UnservedKept]_vars

=============================================================================
