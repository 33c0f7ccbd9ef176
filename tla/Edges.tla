-------------------------------- MODULE Edges --------------------------------
(***************************************************************************)
(* adprofiler.py: the edges of ACLs and policy links.  One run after       *)
(* another reads security descriptors (acl_edge) and gPLink                *)
(* (gpo_link_edge), some of them in vain, collects what it wants to be     *)
(* open and syncs each table once.                                         *)
(*                                                                         *)
(* Three kinds of objects stand for the classes whose reads fail in        *)
(* different ways: OUs (with links), GPOs (what the links lead to, by DN)  *)
(* and DNS zones (in a partition not every controller serves).             *)
(* A class is enumerated in one step; PagedSearch and Collector have the   *)
(* interleavings within an enumeration.                                    *)
(***************************************************************************)
EXTENDS EdgeRows, Sequences

CONSTANTS
  Ous, Gpos, Zones,
  AclKeys,     \* pairs of an object and a trustee
  Flags,       \* what an edge says besides its key: inherit_only and the like
               \* of an ACE, link_order, link_enabled, link_enforced of a link
  MaxChanges,  \* bound: directory changes
  MaxRuns      \* bound: runs

Objects == Ous \cup Gpos \cup Zones
LinkKeys == Ous \X Gpos

VARIABLES
  ad,       \* the directory: exists, acl, link
  changes,  \* changes made to it so far
  db,       \* committed rows: known, live, acl, link
  tx,       \* the same as the run's transaction sees them
  runs,     \* runs begun
  run,      \* the running collector's variables
  held      \* history: values each key has had in ad since the run began

dirVars == <<ad, changes>>

-----------------------------------------------------------------------------
(* The directory.                                                          *)

Change(d) ==
  /\ changes < MaxChanges
  /\ changes' = changes + 1
  /\ ad' = d
  /\ held' = IF run.at = 0 THEN held
             ELSE [acl |-> [k \in AclKeys |-> held.acl[k] \cup {d.acl[k]}],
                   link |-> [k \in LinkKeys |-> held.link[k] \cup {d.link[k]}]]
  /\ UNCHANGED <<db, tx, runs, run>>

CreateObject(o) == o \notin ad.exists /\ Change([ad EXCEPT !.exists = @ \cup {o}])

\* A link may go on naming a GPO that is gone: gPLink holds its DN as text.
DeleteObject(o) ==
  /\ o \in ad.exists
  /\ Change([exists |-> ad.exists \ {o},
             acl |-> [k \in AclKeys |-> IF k[1] = o THEN None ELSE ad.acl[k]],
             link |-> [k \in LinkKeys |-> IF k[1] = o THEN None ELSE ad.link[k]]])

SetAce(k) ==
  /\ k[1] \in ad.exists
  /\ \E f \in (Flags \cup {None}) \ {ad.acl[k]} : Change([ad EXCEPT !.acl[k] = f])
SetLink(k) ==
  /\ k[1] \in ad.exists
  /\ \E f \in (Flags \cup {None}) \ {ad.link[k]} : Change([ad EXCEPT !.link[k] = f])

-----------------------------------------------------------------------------
(* The run: main()'s steps in their order.                                 *)

Order == <<"ou", "gpo", "links", "zone", "acl", "commit">>

ClassOf == [ou |-> Ous, gpo |-> Gpos, zone |-> Zones]

NoneHeld == [acl |-> [k \in AclKeys |-> {}], link |-> [k \in LinkKeys |-> {}]]
NoAces == [k \in AclKeys |-> None]

Idle == [at |-> 0, seen |-> {}, toRead |-> {}, gplink |-> [k \in LinkKeys |-> None],
         desired |-> NoAces, unreadable |-> {}, unserved |-> {}, unreadScopes |-> {},
         unreadLinks |-> {}]

At(step) == run.at > 0 /\ Order[run.at] = step
Class == ClassOf[Order[run.at]]

Start ==
  /\ run.at = 0
  /\ runs < MaxRuns
  /\ runs' = runs + 1
  /\ run' = [Idle EXCEPT !.at = 1]
  /\ tx' = db
  /\ held' = [acl |-> [k \in AclKeys |-> {ad.acl[k]}],
              link |-> [k \in LinkKeys |-> {ad.link[k]}]]
  /\ UNCHANGED <<dirVars, db>>

Enumerating(step) == At(step) /\ run.toRead = {} /\ Class \cap run.seen = {}

\* collect_object_class(), and for zones reconcile_absent_objects(); gPLink
\* is one of the attributes read.  The descriptors are read afterwards.
Enumerate(step) ==
  /\ Enumerating(step)
  /\ LET found == Class \cap ad.exists IN
       /\ run' = [run EXCEPT !.seen = @ \cup found,
                             !.toRead = found,
                             !.at = IF found = {} THEN @ + 1 ELSE @,
                             !.gplink = [k \in LinkKeys |->
                                IF k[1] \in found THEN ad.link[k] ELSE @[k]]]
       /\ tx' = [tx EXCEPT !.known = @ \cup found,
                           !.live = IF step = "zone" THEN (@ \ Zones) \cup found
                                    ELSE @ \cup found]
  /\ UNCHANGED <<dirVars, db, runs, held>>

\* The enumeration fails, after some of its objects or none: not fatal, its
\* scope is noted as not read and what was read of it is not used.
EnumerateFails(step) ==
  /\ Enumerating(step)
  /\ \E got \in SUBSET (Class \cap ad.exists) :
       /\ tx' = [tx EXCEPT !.known = @ \cup got, !.live = @ \cup got]
       /\ run' = [run EXCEPT !.at = @ + 1,
                             !.seen = @ \cup got,
                             !.unreadScopes = @ \cup {step},
                             !.unreadLinks = IF step = "ou" THEN tx'.live \cap Ous ELSE @]
  /\ UNCHANGED <<dirVars, db, runs, held>>

\* The controller does not hold the zones' partition: noSuchObject or a
\* referral, so no entries and no error; reconcile_absent_objects() skips.
ZonesUnserved ==
  /\ Enumerating("zone")
  /\ run' = [run EXCEPT !.at = @ + 1, !.unserved = Zones]
  /\ UNCHANGED <<dirVars, db, tx, runs, held>>

AfterReading(o) == IF run.toRead = {o} THEN run.at + 1 ELSE run.at

\* build_acl_desired_edges() of a descriptor that was read ...
ReadDescriptor(o) ==
  /\ o \in run.toRead /\ o \in ad.exists
  /\ run' = [run EXCEPT !.toRead = @ \ {o},
                        !.at = AfterReading(o),
                        !.desired = [k \in AclKeys |-> IF k[1] = o THEN ad.acl[k] ELSE @[k]]]
  /\ UNCHANGED <<dirVars, db, tx, runs, held>>

\* ... and of one that was not: refused, unparsable, or the object is gone.
DescriptorUnreadable(o) ==
  /\ o \in run.toRead
  /\ run' = [run EXCEPT !.toRead = @ \ {o},
                        !.at = AfterReading(o),
                        !.unreadable = @ \cup {o}]
  /\ UNCHANGED <<dirVars, db, tx, runs, held>>

\* Slip: a linked GPO is taken for a collected one.
ResolvableAlways(g) == TRUE

\* dn_to_guid of this run, or resolve_dns_from_database().
Resolvable(g) == g \in run.seen \/ g \in tx.live

\* resolve_gpo_links()
ResolveGpoLinks ==
  /\ At("links")
  /\ LET wanted == [k \in LinkKeys |-> IF Resolvable(k[2]) THEN run.gplink[k] ELSE None]
         desired == Carried(tx.link, wanted, {k \in LinkKeys : k[1] \in run.unreadLinks})
     IN  tx' = [tx EXCEPT !.link = SyncEdges(@, desired, runs)]
  /\ run' = [run EXCEPT !.at = @ + 1]
  /\ UNCHANGED <<dirVars, db, runs, held>>

\* unread_scope_guids() of the failed collections, less what another
\* collection has read.
ScopeUnread ==
  {o \in tx.live : /\ \E step \in run.unreadScopes : o \in ClassOf[step]
                   /\ o \notin run.unreadable
                   /\ \A k \in AclKeys : k[1] = o => run.desired[k] = None}

\* The one sync of acl_edge.
SyncAcl ==
  /\ At("acl")
  /\ LET unread == {k \in AclKeys : k[1] \in run.unreadable \cup ScopeUnread}
         desired == Carried(tx.acl, run.desired, unread)
     IN  tx' = [tx EXCEPT !.acl = SyncEdges(@, desired, runs)]
  /\ run' = [run EXCEPT !.at = @ + 1]
  /\ UNCHANGED <<dirVars, db, runs, held>>

\* The tombstones of OUs and GPOs are found at the end, then the commit.
Commit ==
  /\ At("commit")
  /\ db' = [tx EXCEPT !.live = @ \ ((Ous \cup Gpos) \ (ad.exists \cup run.seen))]
  /\ tx' = db'
  /\ run' = Idle
  /\ held' = NoneHeld
  /\ UNCHANGED <<dirVars, runs>>

\* LDAPCollectionError and every other failure.
RollBack ==
  /\ run.at > 0
  /\ tx' = db
  /\ run' = Idle
  /\ held' = NoneHeld
  /\ UNCHANGED <<dirVars, db, runs>>

-----------------------------------------------------------------------------
(* A new database, or one whose ACL edges were collected before schema v34. *)
Empty == [known |-> {}, live |-> {}, acl |-> NoAces, link |-> [k \in LinkKeys |-> None]]

CollectedBefore34 ==
  [Empty EXCEPT !.known = ad.exists, !.live = ad.exists,
                !.acl = [k \in AclKeys |-> IF ad.acl[k] = None THEN None
                                            ELSE [flag |-> Unrecorded, since |-> 0]],
                !.link = [k \in LinkKeys |-> IF {k[1], k[2]} \subseteq ad.exists
                                             THEN [flag |-> ad.link[k], since |-> 0]
                                             ELSE None]]

Init ==
  /\ \E e \in SUBSET Objects, f \in Flags :
        ad = [exists |-> e,
              acl |-> [k \in AclKeys |-> IF k[1] \in e THEN f ELSE None],
              link |-> [k \in LinkKeys |-> IF k[1] \in e THEN f ELSE None]]
  /\ changes = 0
  /\ db \in {Empty, CollectedBefore34}
  /\ tx = db
  /\ runs = 0
  /\ run = Idle
  /\ held = NoneHeld

Directory ==
  \/ \E o \in Objects : CreateObject(o) \/ DeleteObject(o)
  \/ \E k \in AclKeys : SetAce(k)
  \/ \E k \in LinkKeys : SetLink(k)

Collect ==
  \/ Start
  \/ \E step \in {"ou", "gpo", "zone"} : Enumerate(step) \/ EnumerateFails(step)
  \/ \E o \in Objects : ReadDescriptor(o) \/ DescriptorUnreadable(o)
  \/ ResolveGpoLinks
  \/ SyncAcl
  \/ Commit
  \/ RollBack

Next == Directory \/ Collect

-----------------------------------------------------------------------------
(* What must hold.                                                         *)

Edge == EdgesOf(Flags \cup {Unrecorded})

Rows == [known : SUBSET Objects, live : SUBSET Objects,
         acl : [AclKeys -> Edge \cup {None}], link : [LinkKeys -> Edge \cup {None}]]

\* Foreign keys: both ends of an open edge have a row in directory_object.
EndsKnown(rows) ==
  /\ \A k \in AclKeys : rows.acl[k] # None => k[1] \in rows.known
  /\ \A k \in LinkKeys : rows.link[k] # None => {k[1], k[2]} \subseteq rows.known

\* Types, and the foreign keys of both edge tables.
TypeOK ==
  /\ ad.exists \subseteq Objects
  /\ ad.acl \in [AclKeys -> Flags \cup {None}]
  /\ ad.link \in [LinkKeys -> Flags \cup {None}]
  /\ db \in Rows /\ EndsKnown(db)
  /\ tx \in Rows /\ EndsKnown(tx)
  /\ runs \in 0..MaxRuns
  /\ run.at \in 0..Len(Order)
  /\ run.seen \subseteq Objects /\ run.toRead \subseteq run.seen
  /\ run.desired \in [AclKeys -> Flags \cup {None}]
  /\ run.unreadable \subseteq run.seen

\* Was o read by the run that is about to commit, and its ACL?
Read(o) == o \in run.seen /\ \A step \in run.unreadScopes : o \notin ClassOf[step]
AclRead(o) == Read(o) /\ o \notin run.unreadable

\* "Unknown is not empty": an object the run could not read, because its
\* descriptor was refused or its whole class failed, keeps the edges it had,
\* with the runs they were opened by, as long as it is not known to be gone.
UnreadKept ==
  Commit =>
     /\ \A k \in AclKeys :
          (\/ k[1] \in run.unreadable
           \/ \E step \in run.unreadScopes : k[1] \in ClassOf[step] \cap db.live)
          => db'.acl[k] = db.acl[k]
     /\ \A k \in LinkKeys :
          "ou" \in run.unreadScopes /\ k[1] \in db.live => db'.link[k] = db.link[k]

\* What a run has read is reported as it was at some moment of the run:
\* nothing outdated stays open, nothing that was there throughout is missing.
Mirrored ==
  Commit =>
     /\ \A k \in AclKeys : AclRead(k[1]) => FlagOf(db'.acl[k]) \in held.acl[k]
     /\ \A k \in LinkKeys :
          Read(k[1]) /\ k[2] \in run.seen => FlagOf(db'.link[k]) \in held.link[k]

\* No false "newly granted": an edge that says what the directory said all
\* through the run stays the edge it was, dated by the run that opened it,
\* whatever else could not be read, and also when the row is of a version
\* that did not record its flags yet.  Not so of objects that were known to be
\* deleted: unread_scope_guids() and resolve_dns_from_database() go by live
\* rows, so that a restored object whose class fails again loses its edges.
NotFalselyNew ==
  Commit =>
     /\ Kept(db.acl, db'.acl, held.acl, {k \in AclKeys : k[1] \in db.live})
     /\ Kept(db.link, db'.link, held.link, {k \in LinkKeys : {k[1], k[2]} \subseteq db.live})

\* reconcile_absent_objects(): a referral "returns zero entries, which must
\* not be read as 'everything was deleted'" - of the ACL edges of the zones.
UnservedKept ==
  Commit =>
     \A k \in AclKeys :
        k[1] \in run.unserved \cap db'.live => db'.acl[k] = db.acl[k]

=============================================================================
