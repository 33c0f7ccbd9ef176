--------------------------- MODULE EdgeTables_proofs --------------------------
(***************************************************************************)
(* Proofs about the edge tables.  Each part has an inductive invariant of  *)
(* its own: what the run holds of every key it has dealt with, compared    *)
(* with the values the key has had since the run began (held), and what    *)
(* its transaction holds of the tables it has synced.                      *)
(***************************************************************************)
EXTENDS EdgeTables, Sequences, TLAPS

\* What sync_edges() makes of the open row of one key.
RowAfter(e, f, n) ==
  IF f = None THEN None
  ELSE IF e = None THEN [flag |-> f, since |-> n]
  ELSE IF e.flag = f THEN e
  ELSE IF e.flag = Unrecorded THEN [e EXCEPT !.flag = f]
  ELSE [flag |-> f, since |-> n]

-----------------------------------------------------------------------------
(* ACL and policy link edges.                                              *)

AclRuns ==
  [at : 0..6, seen : SUBSET E!Objects, toRead : SUBSET E!Objects,
   gplink : [E!LinkKeys -> Flags \cup {None}], desired : [AclKeys -> Flags \cup {None}],
   unreadable : SUBSET E!Objects, unserved : SUBSET Zones,
   unreadScopes : SUBSET {"ou", "gpo", "zone"}, unreadLinks : SUBSET Ous]

AclTypes ==
  /\ ad \in [exists : SUBSET E!Objects, acl : [AclKeys -> Flags \cup {None}],
             link : [E!LinkKeys -> Flags \cup {None}]]
  /\ \A k \in AclKeys : ad.acl[k] # None => k[1] \in ad.exists
  /\ \A k \in E!LinkKeys : ad.link[k] # None => k[1] \in ad.exists
  /\ db \in E!Rows /\ E!EndsKnown(db) /\ db.live \subseteq db.known
  /\ tx \in E!Rows /\ E!EndsKnown(tx) /\ tx.live \subseteq tx.known
  /\ runs \in 0..MaxRuns
  /\ run \in AclRuns
  /\ held \in [acl : [AclKeys -> SUBSET (Flags \cup {None})],
               link : [E!LinkKeys -> SUBSET (Flags \cup {None})]]

\* The place of an object's class in the order of the run.
Place(o) == IF o \in Ous THEN 1 ELSE IF o \in Gpos THEN 2 ELSE 4
ClassUnread(o) == \E step \in run.unreadScopes : o \in E!ClassOf[step]
Collected(o) == Place(o) < run.at \/ (Place(o) = run.at /\ run.toRead # {})

\* How far the run is, and what it has of each object.
AclProgress ==
  /\ run.at = 0 => run = E!Idle /\ tx = db
  /\ run.seen \subseteq tx.known
  /\ run.toRead \subseteq run.seen /\ run.unreadable \subseteq run.seen
  /\ \A o \in run.seen : Place(o) <= run.at
  /\ \A o \in run.toRead : Place(o) = run.at /\ o \notin run.unreadable /\ ~ClassUnread(o)
  /\ \A o \in E!Objects : ClassUnread(o) => Place(o) < run.at /\ o \notin run.unreadable
  /\ \A k \in AclKeys : run.desired[k] # None =>
       k[1] \in run.seen \ (run.toRead \cup run.unreadable) /\ ~ClassUnread(k[1])
  /\ \A k \in E!LinkKeys : run.gplink[k] # None => k[1] \in run.seen /\ ~ClassUnread(k[1])
  /\ IF "ou" \in run.unreadScopes THEN db.live \cap Ous \subseteq run.unreadLinks
                                  ELSE run.unreadLinks = {}
  /\ \A o \in db.live : o \notin tx.live =>
       o \in Zones /\ ~ClassUnread(o) /\ Collected(o)
  /\ run.at <= 5 => tx.acl = db.acl
  /\ run.at <= 3 => tx.link = db.link

\* What it has read is what was so, and what was there throughout it has seen.
AclHeld ==
  run.at > 0 =>
    /\ \A k \in AclKeys :
         /\ ad.acl[k] \in held.acl[k]
         /\ E!AclRead(k[1]) /\ k[1] \notin run.toRead => run.desired[k] \in held.acl[k]
         /\ Collected(k[1]) /\ ~ClassUnread(k[1]) /\ None \notin held.acl[k] => k[1] \in run.seen
    /\ \A k \in E!LinkKeys :
         /\ ad.link[k] \in held.link[k]
         /\ E!Read(k[1]) => run.gplink[k] \in held.link[k]
         /\ Collected(k[1]) /\ ~ClassUnread(k[1]) /\ None \notin held.link[k] => k[1] \in run.seen

\* The tables once they are synced.
AclSynced ==
  /\ run.at = 6 => \A k \in AclKeys :
       /\ k[1] \in run.unreadable \/ (ClassUnread(k[1]) /\ k[1] \in db.live)
            => tx.acl[k] = db.acl[k]
       /\ E!AclRead(k[1]) => E!FlagOf(tx.acl[k]) \in held.acl[k]
       /\ k[1] \in db.live /\ E!SameGrant(db.acl[k], held.acl[k])
            => tx.acl[k] # None /\ tx.acl[k].since = db.acl[k].since
  /\ run.at >= 4 => \A k \in E!LinkKeys :
       /\ "ou" \in run.unreadScopes /\ k[1] \in db.live => tx.link[k] = db.link[k]
       /\ E!Read(k[1]) /\ k[2] \in run.seen => E!FlagOf(tx.link[k]) \in held.link[k]
       /\ {k[1], k[2]} \subseteq db.live /\ E!SameGrant(db.link[k], held.link[k])
            => tx.link[k] # None /\ tx.link[k].since = db.link[k].since

AclInv == AclTypes /\ AclProgress /\ AclHeld /\ AclSynced

-----------------------------------------------------------------------------
(* Settings of Group Policy objects.                                       *)

SysvolRuns ==
  [at : 0..5, sysvol : BOOLEAN, found : SUBSET Gpos, toRead : SUBSET Files,
   desired : [Files -> Settings \cup {None}], unreadable : SUBSET (Gpos \cup {Netlogon}),
   synced : BOOLEAN]

SysvolTypes ==
  /\ ad \in [exists : SUBSET Gpos, content : [Files -> Settings \cup {None}]]
  /\ \A k \in Files : ad.content[k] # None => k[1] \in ad.exists \cup {Netlogon}
  /\ db \in S!SysvolRows /\ S!FirstReadBefore(db)
  /\ tx \in S!SysvolRows /\ S!FirstReadBefore(tx)
  /\ runs \in 0..MaxRuns
  /\ \A g \in Gpos : db.first[g] <= runs /\ tx.first[g] <= runs
  /\ run \in SysvolRuns
  /\ held \in [Files -> SUBSET (Settings \cup {None})]

\* The files the run is to read, or has read.
Wanted(k) == k[1] \in run.found \cup {Netlogon}

SysvolProgress ==
  /\ run.at = 0 => run = S!Idle /\ tx = db
  /\ db.status.run <= runs /\ tx.status.run <= runs /\ (run.at > 0 => db.status.run < runs)
  /\ run.synced => run.at = 5
  /\ ~run.synced => /\ tx.setting = db.setting /\ tx.first = db.first
                    /\ run.at > 0 => tx.status.how = "failed" \/ tx.status.run < runs
  /\ run.at <= 2 => /\ run.toRead = {} /\ run.unreadable = {}
                    /\ \A k \in Files : run.desired[k] = None
  /\ run.at = 4 => run.toRead = {}
  /\ run.unreadable \subseteq run.found \cup {Netlogon}
  /\ \A k \in run.toRead : Wanted(k) /\ k[1] \notin run.unreadable

\* What was read is what the shares said, and what is not wanted was not there.
SysvolHeld ==
  run.at > 0 => \A k \in Files :
    /\ ad.content[k] \in held[k]
    /\ run.at \in {2, 3, 4} /\ ~Wanted(k) => None \in held[k]
    /\ run.at \in {3, 4} =>
         /\ run.desired[k] # None => Wanted(k) /\ run.desired[k] \in held[k]
         /\ k[1] \in run.unreadable /\ k[1] # Netlogon => run.desired[k] = None
         /\ Wanted(k) /\ k \notin run.toRead /\ k[1] \notin run.unreadable
              => run.desired[k] \in held[k]

SysvolSynced ==
  run.synced =>
    /\ \A k \in Files :
         /\ k[1] \in run.unreadable =>
              \/ tx.setting[k] = db.setting[k]
              \/ k[1] = Netlogon /\ S!FlagOf(tx.setting[k]) \in held[k]
         /\ S!SaidToBeRead(tx, k[1]) => S!FlagOf(tx.setting[k]) \in held[k]
         /\ S!SameGrant(db.setting[k], held[k])
              => tx.setting[k] # None /\ tx.setting[k].since = db.setting[k].since
    /\ \A g \in run.found : db.first[g] # 0 => tx.first[g] = db.first[g]

SysvolInv == SysvolTypes /\ SysvolProgress /\ SysvolHeld /\ SysvolSynced

-----------------------------------------------------------------------------
(* Memberships and policies of read-only controllers.                      *)

MemberRuns ==
  [at : 0..7, dn : [M!Dns -> M!Members \cup {None}], primary : [Accounts -> Groups \cup {None}],
   toRead : SUBSET (Groups \cup Rodcs), listed : [Groups -> SUBSET M!Dns],
   policy : [M!PolicyKeys -> {"direct", None}], unreadable : SUBSET Rodcs]

\* A foreign security principal has one name for good.
DnsOwn(dn) ==
  /\ \A m \in Accounts : dn[m] \in Names \cup {None}
  /\ \A m \in Foreign : dn[m] \in {m, None}

\* An edge of a foreign security principal is open only if it is known.
ForeignKnown(rows) ==
  \A k \in M!MemberKeys : k[2] \in Foreign /\ rows.member[k] # None => rows.dn[k[2]] # None

\* Names are unique, only accounts that exist are listed, and no group lists
\* those whose primary group it is.
DirectoryOK(d) ==
  /\ d \in [name : [Accounts -> Names \cup {None}], primary : [Accounts -> Groups],
            member : [Groups -> SUBSET M!Members], policy : [Rodcs -> SUBSET M!Members]]
  /\ \A m, n \in Accounts : d.name[m] = d.name[n] /\ d.name[m] # None => m = n
  /\ \A m \in Accounts : d.name[m] = None =>
       (\A g \in Groups : m \notin d.member[g]) /\ (\A r \in Rodcs : m \notin d.policy[r])
  /\ \A m \in Accounts : d.name[m] # None => m \notin d.member[d.primary[m]]

MemberTypes ==
  /\ DirectoryOK(ad)
  /\ db \in M!MemberRows /\ DnsOwn(db.dn) /\ ForeignKnown(db)
  /\ tx \in M!MemberRows /\ DnsOwn(tx.dn) /\ ForeignKnown(tx)
  /\ runs \in 0..MaxRuns
  /\ run \in MemberRuns
  /\ held \in [member : [M!MemberKeys -> SUBSET {"direct", "primary", None}],
               policy : [M!PolicyKeys -> SUBSET {"direct", None}], unsteady : SUBSET Accounts]

MemberProgress ==
  /\ run.at = 0 => run = M!Idle /\ tx = db
  /\ run.at <= 1 => \A n \in M!Dns : run.dn[n] = None
  /\ run.at <= 1 => \A m \in Accounts : run.primary[m] = None
  /\ \A n \in Names : run.dn[n] \in Accounts \cup {None}
  /\ \A n \in Foreign : run.dn[n] \in {n, None} /\ (run.dn[n] # None => tx.dn[n] # None)
  /\ run.at = 3 => run.toRead \subseteq Groups
  /\ run.at \in {4, 6} => run.toRead = {}
  /\ run.at <= 4 => run.unreadable = {} /\ \A k \in M!PolicyKeys : run.policy[k] = None
  /\ \A k \in M!PolicyKeys : k[1] \in run.unreadable => run.policy[k] = None
  /\ run.at = 5 => \A k \in M!PolicyKeys : k[1] \in run.toRead =>
                     run.policy[k] = None /\ k[1] \notin run.unreadable
  /\ run.at <= 4 => tx.member = db.member
  /\ run.at <= 6 => tx.policy = db.policy

\* What the run knows of accounts that did not change since: their names, their
\* primary groups, and that nobody has taken a name they were known by.
AccountsKnown ==
  run.at > 1 =>
    /\ \A m \in Accounts : M!Steady(m) =>
         /\ \A n \in Names : run.dn[n] = m => ad.name[m] = n
         /\ ad.name[m] # None => run.dn[ad.name[m]] = m /\ run.primary[m] = ad.primary[m]
         /\ \A n \in Names, o \in Accounts :
              tx.dn[m] = n /\ run.dn[n] = None => ad.name[o] # n
    /\ \A m \in Accounts :
         run.primary[m] # None => "primary" \in held.member[<<run.primary[m], m>>]

Lists(k) == \E n \in run.listed[k[1]] : M!Resolved(n) = k[2]
Findable(m) == M!Seen(m) \/ tx.dn[m] # None

\* What a list that was read says of those who can be found is what was so.
MemberHeld ==
  run.at > 0 =>
    /\ \A k \in M!MemberKeys :
         /\ M!Membership(ad, k) \in held.member[k]
         /\ run.at \in {3, 4} /\ k[1] \notin run.toRead /\ M!Steady(k[2]) =>
              /\ Lists(k) => "direct" \in held.member[k]
              /\ Findable(k[2]) /\ ~Lists(k) /\ ~(k[2] \in Accounts /\ run.primary[k[2]] = k[1])
                   => None \in held.member[k]
    /\ \A k \in M!PolicyKeys :
         /\ M!Revealed(ad, k) \in held.policy[k]
         /\ run.at \in {5, 6} /\ k[1] \notin run.toRead \cup run.unreadable
              /\ M!Steady(k[2]) /\ M!Seen(k[2]) => run.policy[k] \in held.policy[k]

MemberSynced ==
  /\ run.at >= 5 => \A k \in M!MemberKeys : M!Steady(k[2]) =>
       /\ Findable(k[2]) => M!FlagOf(tx.member[k]) \in held.member[k]
       /\ M!SameGrant(db.member[k], held.member[k])
            => tx.member[k] # None /\ tx.member[k].since = db.member[k].since
  /\ run.at = 7 => \A k \in M!PolicyKeys :
       /\ k[1] \in run.unreadable => tx.policy[k] = db.policy[k]
       /\ M!Steady(k[2]) /\ M!Seen(k[2]) =>
            /\ k[1] \notin run.unreadable => M!FlagOf(tx.policy[k]) \in held.policy[k]
            /\ M!SameGrant(db.policy[k], held.policy[k])
                 => tx.policy[k] # None /\ tx.policy[k].since = db.policy[k].since

MemberInv == MemberTypes /\ MemberProgress /\ AccountsKnown /\ MemberHeld /\ MemberSynced
-----------------------------------------------------------------------------
(* The rows of one key.                                                    *)

\* What a row may say, in any of the tables.
Said == Flags \cup Settings \cup {"direct", "primary"}
AnyRow == [flag : Said \cup {Unrecorded}, since : Nat]

\* The assumptions on the constants, in the words of the proofs.
LEMMA Values ==
  None # Unrecorded /\ None \notin Said /\ Unrecorded \notin Said /\ None \notin AnyRow
<1>1. AnyRow = [flag : Flags \cup Settings \cup {Unrecorded, "direct", "primary"}, since : Nat]
  BY DEF AnyRow, Said
<1> QED
  BY <1>1, ValuesAssumption DEF Said

\* sync_edges(), key by key, is the same in all tables.
LEMMA SyncedKey ==
  ASSUME NEW open, NEW desired, NEW n \in Nat, NEW k \in DOMAIN open,
         open[k] \in AnyRow \cup {None}, desired[k] \in Said \cup {Unrecorded, None}
  PROVE  /\ E!SyncEdges(open, desired, n)[k] = RowAfter(open[k], desired[k], n)
         /\ M!SyncEdges(open, desired, n)[k] = RowAfter(open[k], desired[k], n)
         /\ S!SyncEdges(open, desired, n)[k] = RowAfter(open[k], desired[k], n)
<1>1. open[k] # None /\ desired[k] # None => [open[k] EXCEPT !.flag = desired[k]] \in AnyRow
  BY DEF AnyRow
<1>2. open[k] # None /\ desired[k] # None => [open[k] EXCEPT !.flag = desired[k]] # None
  BY <1>1, Values
<1>3. E!SyncEdges(open, desired, n)[k] = RowAfter(open[k], desired[k], n)
  BY <1>2 DEF E!SyncEdges, E!Synced, E!PayloadReconciled, RowAfter
<1>4. M!SyncEdges(open, desired, n)[k] = RowAfter(open[k], desired[k], n)
  BY <1>2 DEF M!SyncEdges, M!Synced, M!PayloadReconciled, RowAfter
<1>5. S!SyncEdges(open, desired, n)[k] = RowAfter(open[k], desired[k], n)
  BY <1>2 DEF S!SyncEdges, S!Synced, S!PayloadReconciled, RowAfter
<1> QED
  BY <1>3, <1>4, <1>5

\* What comes of one key: the row says what is wanted, and is the one it was if
\* that said the same or nothing yet.
RowFrom(r, e, f, n) ==
  /\ f = None => r = None
  /\ f # None => /\ r \in AnyRow /\ r # None /\ r.flag = f
                 /\ r.since \in {n} \cup (IF e = None THEN {} ELSE {e.since})
  /\ e # None /\ f # None /\ (e.flag = f \/ e.flag = Unrecorded) => r.since = e.since
  /\ e # None /\ f = e.flag => r = e

LEMMA RowSays ==
  ASSUME NEW n \in Nat, NEW e \in AnyRow \cup {None}, NEW f \in Said \cup {Unrecorded, None}
  PROVE  RowFrom(RowAfter(e, f, n), e, f, n)
<1> USE DEF RowFrom
<1>1. CASE f = None
  BY <1>1, Values DEF RowAfter, AnyRow
<1>2. CASE f # None /\ e = None
  <2>1. RowAfter(e, f, n) = [flag |-> f, since |-> n]
    BY <1>2 DEF RowAfter
  <2>2. RowAfter(e, f, n) \in AnyRow
    BY <1>2, <2>1 DEF AnyRow
  <2> QED
    BY <1>2, <2>1, <2>2, Values
<1>3. CASE f # None /\ e # None
  <2>1. RowAfter(e, f, n) \in {e, [e EXCEPT !.flag = f], [flag |-> f, since |-> n]}
    BY <1>3 DEF RowAfter
  <2>2. RowAfter(e, f, n) \in AnyRow /\ RowAfter(e, f, n).flag = f
    BY <1>3 DEF AnyRow, RowAfter
  <2>3. RowAfter(e, f, n).since \in {n, e.since}
    BY <1>3, <2>1 DEF AnyRow
  <2>4. e.flag = f \/ e.flag = Unrecorded => RowAfter(e, f, n).since = e.since
    BY <1>3 DEF AnyRow, RowAfter
  <2>5. f = e.flag => RowAfter(e, f, n) = e
    BY <1>3 DEF RowAfter
  <2> QED
    BY <1>3, <2>2, <2>3, <2>4, <2>5, Values
<1> QED
  BY <1>1, <1>2, <1>3
-----------------------------------------------------------------------------
(* Settings: steps of the directory and the shares, and the ends of a run.  *)

LEMMA SysvolAt ==
  ASSUME run.at \in 0..5
  PROVE  /\ S!At("gpos") <=> run.at = 1
         /\ S!At("share") <=> run.at = 2
         /\ S!At("folders") <=> run.at = 3
         /\ S!At("sync") <=> run.at = 4
         /\ S!At("commit") <=> run.at = 5
         /\ S!ToCommit = 5
  BY DEF S!At, S!Order, S!ToCommit

LEMMA SysvolInit == BoundsAssumption /\ S!Init => SysvolInv
<1> SUFFICES ASSUME BoundsAssumption, S!Init PROVE SysvolInv
  OBVIOUS
<1>1. PICK e \in SUBSET Gpos, v \in Settings :
        ad = [exists |-> e,
              content |-> [k \in Files |-> IF k[1] \in e \cup {Netlogon} THEN v ELSE None]]
  BY DEF S!Init
<1>2. /\ db = S!Empty /\ tx = S!Empty /\ runs = 0 /\ run = S!Idle /\ held = S!NoneHeld
  BY DEF S!Init
<1>3. S!Empty \in S!SysvolRows /\ S!Empty.setting = S!NoSettings /\ S!Empty.first = [g \in Gpos |-> 0]
        /\ S!Empty.status.run = 0
  BY DEF S!Empty, S!SysvolRows, S!NoSettings
<1>4. S!FirstReadBefore(S!Empty)
  BY <1>3 DEF S!FirstReadBefore, S!NoSettings
<1>5. S!Idle \in SysvolRuns /\ S!Idle.at = 0 /\ ~S!Idle.synced /\ S!Idle.toRead = {}
        /\ S!Idle.unreadable = {} /\ S!Idle.desired = S!NoSettings
  BY DEF S!Idle, SysvolRuns, S!NoSettings
<1>6. S!NoneHeld \in [Files -> SUBSET (Settings \cup {None})]
  BY DEF S!NoneHeld
<1>7. SysvolTypes
  BY <1>1, <1>2, <1>3, <1>4, <1>5, <1>6, BoundsAssumption DEF SysvolTypes
<1>8. SysvolProgress
  BY <1>2, <1>3, <1>5 DEF SysvolProgress, S!NoSettings
<1>9. SysvolHeld /\ SysvolSynced
  BY <1>2, <1>5 DEF SysvolHeld, SysvolSynced
<1> QED
  BY <1>7, <1>8, <1>9 DEF SysvolInv

\* A value more, and what it says of a row needs fewer values.
LEMMA SysvolGrows ==
  ASSUME NEW e, NEW old, NEW new, old \subseteq new, old # {}, S!SameGrant(e, new), e.flag # None
  PROVE  S!SameGrant(e, old)
  BY DEF S!SameGrant

LEMMA SysvolChange ==
  ASSUME SysvolInv, NEW d \in [exists : SUBSET Gpos, content : [Files -> Settings \cup {None}]],
         \A k \in Files : d.content[k] # None => k[1] \in d.exists \cup {Netlogon},
         S!Change(d)
  PROVE  SysvolInv'
<1>1. /\ ad' = d /\ db' = db /\ tx' = tx /\ runs' = runs /\ run' = run
      /\ run.at = 0 => held' = held
      /\ run.at # 0 => held' = [k \in Files |-> held[k] \cup {d.content[k]}]
  BY DEF S!Change
<1>2. held' \in [Files -> SUBSET (Settings \cup {None})] /\ \A k \in Files : held[k] \subseteq held'[k]
  BY <1>1 DEF SysvolInv, SysvolTypes
<1>3. SysvolTypes'
  BY <1>1, <1>2 DEF SysvolInv, SysvolTypes, S!FirstReadBefore
<1>4. SysvolProgress'
  BY <1>1 DEF SysvolInv, SysvolProgress, Wanted, S!Idle, S!NoSettings
<1>5. SysvolHeld'
  BY <1>1, <1>2 DEF SysvolInv, SysvolHeld, Wanted
<1>6. SysvolSynced'
  <2> SUFFICES ASSUME run.synced PROVE SysvolSynced'
    BY <1>1 DEF SysvolSynced
  <2>1. run.at > 0 /\ SysvolSynced /\ run.at = 5
    BY DEF SysvolInv, SysvolProgress
  <2>2. ASSUME NEW k \in Files, S!SameGrant(db.setting[k], held'[k])
        PROVE  S!SameGrant(db.setting[k], held[k])
    <3>1. held[k] # {}
      BY <2>1 DEF SysvolInv, SysvolHeld
    <3>2. db.setting[k] \in S!EdgesOf(Settings) \cup {None} /\ db.setting[k] # None
      BY <2>2 DEF SysvolInv, SysvolTypes, S!SysvolRows, S!SameGrant
    <3>3. db.setting[k].flag # None
      BY <3>2, Values DEF S!EdgesOf, Said
    <3> QED
      BY <1>2, <2>2, <3>1, <3>3, SysvolGrows
  <2>3. \A k \in Files : S!SaidToBeRead(tx, k[1])' <=> S!SaidToBeRead(tx, k[1])
    BY <1>1 DEF S!SaidToBeRead
  <2> QED
    BY <1>1, <1>2, <2>1, <2>2, <2>3 DEF SysvolSynced, S!FlagOf
<1> QED
  BY <1>3, <1>4, <1>5, <1>6 DEF SysvolInv

LEMMA SysvolDirectory ==
  ASSUME SysvolInv, S!Directory
  PROVE  SysvolInv'
<1> USE DEF SysvolInv, SysvolTypes
<1>1. ASSUME NEW g \in Gpos, S!CreateGpo(g) PROVE SysvolInv'
  <2> DEFINE d == [ad EXCEPT !.exists = @ \cup {g}]
  <2>1. S!Change(d)
    BY <1>1 DEF S!CreateGpo
  <2>2. d \in [exists : SUBSET Gpos, content : [Files -> Settings \cup {None}]]
    OBVIOUS
  <2>3. \A k \in Files : d.content[k] # None => k[1] \in d.exists \cup {Netlogon}
    OBVIOUS
  <2> HIDE DEF d, SysvolInv, SysvolTypes
  <2> QED
    BY <2>1, <2>2, <2>3, SysvolChange
<1>2. ASSUME NEW g \in Gpos, S!DeleteGpo(g) PROVE SysvolInv'
  <2> DEFINE d == [exists |-> ad.exists \ {g},
                   content |-> [k \in Files |-> IF k[1] = g THEN None ELSE ad.content[k]]]
  <2>1. S!Change(d)
    BY <1>2 DEF S!DeleteGpo
  <2>2. d \in [exists : SUBSET Gpos, content : [Files -> Settings \cup {None}]]
    OBVIOUS
  <2>3. \A k \in Files : d.content[k] # None => k[1] \in d.exists \cup {Netlogon}
    OBVIOUS
  <2> HIDE DEF d, SysvolInv, SysvolTypes
  <2> QED
    BY <2>1, <2>2, <2>3, SysvolChange
<1>3. ASSUME NEW k \in Files, S!EditFile(k) PROVE SysvolInv'
  <2>1. PICK v \in Settings \cup {None} : S!Change([ad EXCEPT !.content[k] = v])
    BY <1>3 DEF S!EditFile
  <2> DEFINE d == [ad EXCEPT !.content[k] = v]
  <2>2. d \in [exists : SUBSET Gpos, content : [Files -> Settings \cup {None}]]
    OBVIOUS
  <2>3. \A j \in Files : d.content[j] # None => j[1] \in d.exists \cup {Netlogon}
    BY <1>3 DEF S!EditFile
  <2> HIDE DEF d, SysvolInv, SysvolTypes
  <2>4. S!Change(d)
    BY <2>1 DEF d
  <2> QED
    BY <2>2, <2>3, <2>4, SysvolChange
<1> QED
  BY <1>1, <1>2, <1>3 DEF S!Directory

\* A run begins with what is committed, and ends.
LEMMA SysvolStart ==
  ASSUME SysvolInv, S!Start
  PROVE  SysvolInv'
<1>1. PICK asked \in BOOLEAN : run' = [S!Idle EXCEPT !.at = 1, !.sysvol = asked]
  BY DEF S!Start
<1>2. /\ run'.at = 1 /\ ~run'.synced /\ run'.toRead = {} /\ run'.unreadable = {}
      /\ run'.found = {} /\ run'.desired = S!NoSettings
  BY <1>1 DEF S!Idle
<1>3. run' \in SysvolRuns
  <2>1. run' = [at |-> 1, sysvol |-> asked, found |-> {}, toRead |-> {},
                desired |-> S!NoSettings, unreadable |-> {}, synced |-> FALSE]
    BY <1>1 DEF S!Idle
  <2>2. S!NoSettings \in [Files -> Settings \cup {None}]
    BY DEF S!NoSettings
  <2> QED
    BY <2>1, <2>2 DEF SysvolRuns
<1>4. /\ ad' = ad /\ db' = db /\ tx' = db /\ runs' = runs + 1 /\ runs < MaxRuns
      /\ held' = [k \in Files |-> {ad.content[k]}] /\ run.at = 0
  BY DEF S!Start
<1>5. runs \in Nat /\ runs' \in 0..MaxRuns
  BY <1>4, BoundsAssumption DEF SysvolInv, SysvolTypes
<1>6. \A g \in Gpos : db.first[g] \in Nat
  BY DEF SysvolInv, SysvolTypes, S!SysvolRows
<1>7. SysvolTypes'
  BY <1>3, <1>4, <1>5, <1>6 DEF SysvolInv, SysvolTypes, S!FirstReadBefore
<1>8. db.status.run \in Nat
  BY DEF SysvolInv, SysvolTypes, S!SysvolRows
<1>9. SysvolProgress'
  BY <1>2, <1>4, <1>5, <1>8 DEF SysvolInv, SysvolProgress, S!NoSettings
<1>10. SysvolHeld'
  BY <1>2, <1>4 DEF SysvolHeld
<1>11. SysvolSynced'
  BY <1>2 DEF SysvolSynced
<1> QED
  BY <1>7, <1>9, <1>10, <1>11 DEF SysvolInv

LEMMA SysvolEnds ==
  ASSUME SysvolInv, NEW rows, rows = db \/ rows = tx,
         run.at > 0, ad' = ad, db' = rows, tx' = rows, runs' = runs, run' = S!Idle,
         held' = S!NoneHeld
  PROVE  SysvolInv'
<1>1. S!Idle \in SysvolRuns /\ S!Idle.at = 0 /\ ~S!Idle.synced /\ S!Idle.toRead = {}
        /\ S!Idle.unreadable = {} /\ S!Idle.desired = S!NoSettings
  BY DEF S!Idle, SysvolRuns, S!NoSettings
<1>2. S!NoneHeld \in [Files -> SUBSET (Settings \cup {None})]
  BY DEF S!NoneHeld
<1>3. SysvolTypes'
  BY <1>1, <1>2 DEF SysvolInv, SysvolTypes, S!FirstReadBefore
<1>4. tx.status.run \in Nat /\ db.status.run \in Nat
  BY DEF SysvolInv, SysvolTypes, S!SysvolRows
<1>5. runs \in Nat
  BY BoundsAssumption DEF SysvolInv, SysvolTypes
<1> QED
  BY <1>1, <1>3, <1>4, <1>5 DEF SysvolInv, SysvolProgress, SysvolHeld, SysvolSynced, S!NoSettings
-----------------------------------------------------------------------------
(* Settings: what a run reads.                                             *)

\* A run's variables, put together again.
SysvolRun(at, found, toRead, desired, unreadable) ==
  [at |-> at, sysvol |-> run.sysvol, found |-> found, toRead |-> toRead,
   desired |-> desired, unreadable |-> unreadable, synced |-> run.synced]
SyncedRun(at, found, toRead, desired, unreadable) ==
  [at |-> at, sysvol |-> run.sysvol, found |-> found, toRead |-> toRead,
   desired |-> desired, unreadable |-> unreadable, synced |-> TRUE]

LEMMA SysvolRunTyped ==
  ASSUME run \in SysvolRuns, NEW at \in 0..5, NEW found \in SUBSET Gpos, NEW toRead \in SUBSET Files,
         NEW desired \in [Files -> Settings \cup {None}],
         NEW unreadable \in SUBSET (Gpos \cup {Netlogon})
  PROVE  SysvolRun(at, found, toRead, desired, unreadable) \in SysvolRuns
  BY DEF SysvolRuns, SysvolRun

LEMMA SyncedRunTyped ==
  ASSUME run \in SysvolRuns, NEW at \in 0..5, NEW found \in SUBSET Gpos, NEW toRead \in SUBSET Files,
         NEW desired \in [Files -> Settings \cup {None}],
         NEW unreadable \in SUBSET (Gpos \cup {Netlogon})
  PROVE  SyncedRun(at, found, toRead, desired, unreadable) \in SysvolRuns
  BY DEF SysvolRuns, SyncedRun

LEMMA SysvolEnumerates ==
  ASSUME SysvolInv, S!EnumerateGpos
  PROVE  SysvolInv'
<1>1. /\ ad' = ad /\ db' = db /\ tx' = tx /\ runs' = runs /\ held' = held
      /\ run' = [run EXCEPT !.found = ad.exists, !.at = IF run.sysvol THEN @ + 1 ELSE S!ToCommit]
  BY DEF S!EnumerateGpos
<1>2. run \in SysvolRuns
  BY DEF SysvolInv, SysvolTypes
<1>3. run.at = 1 /\ S!ToCommit = 5
  BY <1>2, SysvolAt DEF S!EnumerateGpos, SysvolRuns
<1>4. /\ run'.at \in {2, 5} /\ run'.found = ad.exists /\ run'.toRead = run.toRead
      /\ run'.unreadable = run.unreadable /\ run'.desired = run.desired /\ run'.synced = run.synced
  BY <1>1, <1>2, <1>3 DEF SysvolRuns
<1>5. run' \in SysvolRuns
  <2>1. run' = SysvolRun(run'.at, ad.exists, run.toRead, run.desired, run.unreadable)
    BY <1>1, <1>2 DEF SysvolRuns, SysvolRun
  <2>2. ad.exists \in SUBSET Gpos /\ run'.at \in 0..5
    BY <1>4 DEF SysvolInv, SysvolTypes
  <2>3. run.toRead \in SUBSET Files /\ run.desired \in [Files -> Settings \cup {None}]
          /\ run.unreadable \in SUBSET (Gpos \cup {Netlogon})
    BY <1>2 DEF SysvolRuns
  <2> QED
    BY <1>2, <2>1, <2>2, <2>3, SysvolRunTyped
<1>6. SysvolTypes'
  BY <1>1, <1>5 DEF SysvolInv, SysvolTypes, S!FirstReadBefore
<1>7. run.toRead = {} /\ run.unreadable = {} /\ ~run.synced /\ \A k \in Files : run.desired[k] = None
  BY <1>3 DEF SysvolInv, SysvolProgress
<1>8. SysvolProgress'
  BY <1>1, <1>3, <1>4, <1>7 DEF SysvolInv, SysvolProgress
<1>9. \A k \in Files : ad.content[k] \in held[k] /\ (ad.content[k] # None => k[1] \in ad.exists \cup {Netlogon})
  BY <1>3 DEF SysvolInv, SysvolHeld, SysvolTypes
<1>10. SysvolHeld'
  BY <1>1, <1>4, <1>9 DEF SysvolHeld, Wanted
<1>11. SysvolSynced'
  BY <1>4, <1>7 DEF SysvolSynced
<1> QED
  BY <1>6, <1>8, <1>10, <1>11 DEF SysvolInv

\* Where the run does without the shares.
LEMMA SysvolGivesUp ==
  ASSUME SysvolInv, run.at > 0, ~run.synced, tx' \in {tx, [tx EXCEPT !.status = S!Failed]},
         ad' = ad, db' = db, runs' = runs, held' = held,
         run' \in {[run EXCEPT !.at = 5], [run EXCEPT !.at = 5, !.toRead = {}]}
  PROVE  SysvolInv'
<1>1. run \in SysvolRuns /\ tx \in S!SysvolRows /\ runs \in Nat
  BY BoundsAssumption DEF SysvolInv, SysvolTypes
<1>2. /\ run'.at = 5 /\ run'.found = run.found /\ run'.toRead \subseteq run.toRead
      /\ run'.unreadable = run.unreadable /\ run'.desired = run.desired /\ ~run'.synced
  BY <1>1 DEF SysvolRuns
<1>3. run' \in SysvolRuns
  <2>1. run' = SysvolRun(5, run.found, run'.toRead, run.desired, run.unreadable)
    BY <1>1, <1>2 DEF SysvolRuns, SysvolRun
  <2>2. run.found \in SUBSET Gpos /\ run.toRead \in SUBSET Files
          /\ run.desired \in [Files -> Settings \cup {None}]
          /\ run.unreadable \in SUBSET (Gpos \cup {Netlogon})
    BY <1>1 DEF SysvolRuns
  <2>3. run'.toRead \in SUBSET Files
    BY <1>2, <2>2
  <2> QED
    BY <1>1, <2>1, <2>2, <2>3, SysvolRunTyped
<1>4. S!Failed = [run |-> runs, how |-> "failed", read |-> FALSE, netlogon |-> FALSE]
  BY DEF S!Failed
<1>5. S!Failed \in [run : Nat, how : {"ok", "partial", "failed"}, read : BOOLEAN, netlogon : BOOLEAN]
  BY <1>1, <1>4
<1>6. tx' \in S!SysvolRows /\ tx'.setting = tx.setting /\ tx'.first = tx.first
        /\ tx'.status \in {tx.status, S!Failed}
  BY <1>1, <1>5 DEF S!SysvolRows
<1>7. SysvolTypes'
  BY <1>3, <1>6 DEF SysvolInv, SysvolTypes, S!FirstReadBefore
<1>8. SysvolProgress'
  BY <1>1, <1>2, <1>4, <1>6 DEF SysvolInv, SysvolProgress, Wanted
<1>9. SysvolHeld'
  BY <1>2 DEF SysvolInv, SysvolHeld
<1> QED
  BY <1>2, <1>7, <1>8, <1>9 DEF SysvolInv, SysvolSynced

LEMMA SysvolConnects ==
  ASSUME SysvolInv, S!Connect
  PROVE  SysvolInv'
<1> DEFINE wanted == {k \in Files : k[1] \in run.found \cup {Netlogon}}
<1>1. /\ ad' = ad /\ db' = db /\ tx' = tx /\ runs' = runs /\ held' = held
      /\ run' = [run EXCEPT !.at = @ + 1, !.toRead = wanted]
  BY DEF S!Connect
<1>2. run \in SysvolRuns
  BY DEF SysvolInv, SysvolTypes
<1>3. run.at = 2
  BY <1>2, SysvolAt DEF S!Connect, SysvolRuns
<1>4. wanted \subseteq Files /\ \A k \in Files : k \in wanted <=> Wanted(k)
  BY DEF Wanted
<1> HIDE DEF wanted
<1>5. /\ run'.at = 3 /\ run'.found = run.found /\ run'.toRead = wanted
      /\ run'.unreadable = run.unreadable /\ run'.desired = run.desired /\ run'.synced = run.synced
  BY <1>1, <1>2, <1>3 DEF SysvolRuns
<1>6. run' \in SysvolRuns
  <2>1. run' = SysvolRun(run'.at, run.found, wanted, run.desired, run.unreadable)
    BY <1>1, <1>2 DEF SysvolRuns, SysvolRun
  <2>2. run.found \in SUBSET Gpos /\ run.toRead \in SUBSET Files
          /\ run.desired \in [Files -> Settings \cup {None}]
          /\ run.unreadable \in SUBSET (Gpos \cup {Netlogon})
    BY <1>2 DEF SysvolRuns
  <2>3. wanted \in SUBSET Files /\ run'.at \in 0..5
    BY <1>4, <1>5
  <2> QED
    BY <1>2, <2>1, <2>2, <2>3, SysvolRunTyped
<1>7. SysvolTypes'
  BY <1>1, <1>6 DEF SysvolInv, SysvolTypes, S!FirstReadBefore
<1>8. run.unreadable = {} /\ ~run.synced /\ \A k \in Files : run.desired[k] = None
  BY <1>3 DEF SysvolInv, SysvolProgress
<1>9. SysvolProgress'
  BY <1>1, <1>3, <1>4, <1>5, <1>8 DEF SysvolInv, SysvolProgress, Wanted
<1>10. SysvolHeld'
  BY <1>1, <1>3, <1>4, <1>5, <1>8 DEF SysvolInv, SysvolHeld, Wanted
<1> QED
  BY <1>5, <1>7, <1>8, <1>9, <1>10 DEF SysvolInv, SysvolSynced

\* A file that was read, or spoiled its GPO.
LEMMA SysvolReads ==
  ASSUME SysvolInv, NEW k \in Files, S!ReadFile(k)
  PROVE  SysvolInv'
<1>1. /\ ad' = ad /\ db' = db /\ tx' = tx /\ runs' = runs /\ held' = held
      /\ run' = [run EXCEPT !.toRead = @ \ {k}, !.at = S!After(run.toRead \ {k}),
                            !.desired[k] = ad.content[k]]
      /\ k \in run.toRead
  BY DEF S!ReadFile
<1>2. run \in SysvolRuns /\ ad.content \in [Files -> Settings \cup {None}]
  BY DEF SysvolInv, SysvolTypes
<1>3. run.at = 3
  BY <1>2, SysvolAt DEF S!ReadFile, SysvolRuns
<1>4. S!After(run.toRead \ {k}) = IF run.toRead \ {k} = {} THEN 4 ELSE 3
  BY <1>3 DEF S!After
<1>5. /\ run'.at \in {3, 4} /\ (run'.at = 4 => run'.toRead = {})
      /\ run'.found = run.found /\ run'.toRead = run.toRead \ {k}
      /\ run'.unreadable = run.unreadable /\ run'.synced = run.synced
      /\ \A j \in Files : run'.desired[j] = IF j = k THEN ad.content[k] ELSE run.desired[j]
  BY <1>1, <1>2, <1>4 DEF SysvolRuns
<1>6. run' \in SysvolRuns
  <2>1. run' = SysvolRun(run'.at, run.found, run.toRead \ {k}, [run.desired EXCEPT ![k] = ad.content[k]],
                         run.unreadable)
    BY <1>1, <1>2 DEF SysvolRuns, SysvolRun
  <2>2. run.found \in SUBSET Gpos /\ run.toRead \in SUBSET Files
          /\ run.desired \in [Files -> Settings \cup {None}]
          /\ run.unreadable \in SUBSET (Gpos \cup {Netlogon})
    BY <1>2 DEF SysvolRuns
  <2>3. [run.desired EXCEPT ![k] = ad.content[k]] \in [Files -> Settings \cup {None}]
          /\ run'.at \in 0..5 /\ run.toRead \ {k} \in SUBSET Files
    BY <1>2, <1>5, <2>2
  <2> QED
    BY <1>2, <2>1, <2>2, <2>3, SysvolRunTyped
<1>7. SysvolTypes'
  BY <1>1, <1>6 DEF SysvolInv, SysvolTypes, S!FirstReadBefore
<1>8. ~run.synced /\ Wanted(k) /\ k[1] \notin run.unreadable
  BY <1>1, <1>3 DEF SysvolInv, SysvolProgress
<1>9. SysvolProgress'
  BY <1>1, <1>3, <1>5, <1>8 DEF SysvolInv, SysvolProgress, Wanted
<1>10. SysvolHeld'
  BY <1>1, <1>3, <1>5, <1>8 DEF SysvolInv, SysvolHeld, Wanted
<1> QED
  BY <1>5, <1>7, <1>8, <1>9, <1>10 DEF SysvolInv, SysvolSynced

LEMMA SysvolReadFails ==
  ASSUME SysvolInv, NEW k \in Files, S!FileUnreadable(k)
  PROVE  SysvolInv'
<1> DEFINE rest == {j \in run.toRead : j[1] # k[1]}
           left == [j \in Files |-> IF j[1] = k[1] /\ k[1] # Netlogon THEN None ELSE run.desired[j]]
<1>1. /\ ad' = ad /\ db' = db /\ tx' = tx /\ runs' = runs /\ held' = held
      /\ run' = [run EXCEPT !.toRead = rest, !.at = S!After(rest), !.unreadable = @ \cup {k[1]},
                            !.desired = left]
      /\ k \in run.toRead
  BY DEF S!FileUnreadable
<1>2. run \in SysvolRuns
  BY DEF SysvolInv, SysvolTypes
<1>3. run.at = 3
  BY <1>2, SysvolAt DEF S!FileUnreadable, SysvolRuns
<1>4. S!After(rest) = IF rest = {} THEN 4 ELSE 3
  BY <1>3 DEF S!After
<1>5. /\ left \in [Files -> Settings \cup {None}] /\ rest \subseteq Files
      /\ \A j \in Files : left[j] = IF j[1] = k[1] /\ k[1] # Netlogon THEN None ELSE run.desired[j]
      /\ \A j : j \in rest <=> j \in run.toRead /\ j[1] # k[1]
  BY <1>2 DEF SysvolRuns
<1>6. ~run.synced /\ Wanted(k) /\ k[1] \in Gpos \cup {Netlogon}
  BY <1>1, <1>2, <1>3 DEF SysvolInv, SysvolProgress, Wanted, SysvolRuns
<1> HIDE DEF rest, left
<1>7. /\ run'.at \in {3, 4} /\ (run'.at = 4 => run'.toRead = {})
      /\ run'.found = run.found /\ run'.toRead = rest
      /\ run'.unreadable = run.unreadable \cup {k[1]} /\ run'.synced = run.synced
      /\ run'.desired = left
  BY <1>1, <1>2, <1>4 DEF SysvolRuns
<1>8. run' \in SysvolRuns
  <2>1. run' = SysvolRun(run'.at, run.found, rest, left, run.unreadable \cup {k[1]})
    BY <1>1, <1>2 DEF SysvolRuns, SysvolRun
  <2>2. run.found \in SUBSET Gpos /\ run.toRead \in SUBSET Files
          /\ run.desired \in [Files -> Settings \cup {None}]
          /\ run.unreadable \in SUBSET (Gpos \cup {Netlogon})
    BY <1>2 DEF SysvolRuns
  <2>3. run'.at \in 0..5 /\ rest \in SUBSET Files
          /\ run.unreadable \cup {k[1]} \in SUBSET (Gpos \cup {Netlogon})
    BY <1>5, <1>6, <1>7, <2>2
  <2> QED
    BY <1>2, <1>5, <2>1, <2>2, <2>3, SysvolRunTyped
<1>9. SysvolTypes'
  BY <1>1, <1>8 DEF SysvolInv, SysvolTypes, S!FirstReadBefore
<1>10. SysvolProgress'
  BY <1>1, <1>3, <1>5, <1>6, <1>7 DEF SysvolInv, SysvolProgress, Wanted
<1>11. SysvolHeld'
  BY <1>1, <1>3, <1>5, <1>6, <1>7 DEF SysvolInv, SysvolHeld, Wanted
<1> QED
  BY <1>6, <1>7, <1>9, <1>10, <1>11 DEF SysvolInv, SysvolSynced
-----------------------------------------------------------------------------
(* Settings: the sync, the commit, and the properties.                     *)

LEMMA SysvolSyncs ==
  ASSUME SysvolInv, S!SyncSysvol
  PROVE  SysvolInv'
<1> DEFINE unread == {k \in Files : k[1] \in run.unreadable /\ run.desired[k] = None}
           wanted == S!Carried(tx.setting, run.desired, unread)
           Status(g) == IF g \notin run.found THEN "no row"
                        ELSE IF g \in run.unreadable THEN "unreadable" ELSE "ok"
           rows == S!SyncEdges(tx.setting, wanted, runs)
           status == [run |-> runs, how |-> IF run.unreadable = {} THEN "ok" ELSE "partial",
                      read |-> \E g \in Gpos : Status(g) = "ok",
                      netlogon |-> Netlogon \notin run.unreadable]
           first == [g \in Gpos |-> S!FirstRead(g)]
           folder == [g \in Gpos |-> Status(g)]
<1>1. /\ ad' = ad /\ db' = db /\ runs' = runs /\ held' = held
      /\ run' = [run EXCEPT !.at = @ + 1, !.synced = TRUE]
      /\ tx' = [setting |-> rows, folder |-> folder, first |-> first, status |-> status]
  BY DEF S!SyncSysvol
<1>2. run \in SysvolRuns /\ runs \in Nat /\ tx \in S!SysvolRows /\ db \in S!SysvolRows
  BY BoundsAssumption DEF SysvolInv, SysvolTypes
<1>3. run.at = 4 /\ ~run.synced
  <2>1. run.at \in 0..5
    BY <1>2 DEF SysvolRuns
  <2>2. run.at = 4
    BY <2>1, SysvolAt DEF S!SyncSysvol
  <2> QED
    BY <2>2 DEF SysvolInv, SysvolProgress
<1>4. runs > 0
  <2>1. db.status.run \in Nat
    BY <1>2 DEF S!SysvolRows
  <2> QED
    BY <1>2, <1>3, <2>1 DEF SysvolInv, SysvolProgress
<1>5. /\ tx.setting = db.setting /\ tx.first = db.first /\ run.toRead = {}
      /\ run.unreadable \subseteq run.found \cup {Netlogon}
      /\ run.desired \in [Files -> Settings \cup {None}] /\ run.found \subseteq Gpos
  BY <1>2, <1>3 DEF SysvolInv, SysvolProgress, SysvolRuns
<1>6. /\ tx.setting \in [Files -> S!EdgesOf(Settings) \cup {None}] /\ tx.first \in [Gpos -> Nat]
      /\ \A g \in Gpos : tx.first[g] <= runs
      /\ \A k \in Files : tx.setting[k] # None /\ k[1] \in Gpos => tx.first[k[1]] \in 1..tx.setting[k].since
  BY <1>2 DEF SysvolInv, SysvolTypes, S!SysvolRows, S!FirstReadBefore
\* What the run has of each file.
<1>7. ASSUME NEW k \in Files
      PROVE  /\ ad.content[k] \in held[k]
             /\ ~Wanted(k) => None \in held[k]
             /\ run.desired[k] # None => Wanted(k) /\ run.desired[k] \in held[k]
             /\ k[1] \in run.unreadable /\ k[1] # Netlogon => run.desired[k] = None
             /\ Wanted(k) /\ k[1] \notin run.unreadable => run.desired[k] \in held[k]
  BY <1>3, <1>5 DEF SysvolInv, SysvolHeld
<1>8. ASSUME NEW k \in Files
      PROVE  wanted[k] = IF k[1] \in run.unreadable /\ run.desired[k] = None /\ tx.setting[k] # None
                         THEN tx.setting[k].flag ELSE run.desired[k]
  BY <1>6 DEF S!Carried
<1> HIDE DEF unread, wanted, status, first, folder
\* What becomes of each row.
<1>9. ASSUME NEW k \in Files
      PROVE  /\ rows[k] \in S!EdgesOf(Settings) \cup {None}
             /\ S!FlagOf(rows[k]) = wanted[k]
             /\ rows[k] # None => rows[k].since \in {runs} \cup (IF tx.setting[k] = None THEN {} ELSE {tx.setting[k].since})
             /\ rows[k] = None <=> wanted[k] = None
             /\ tx.setting[k] # None /\ wanted[k] = tx.setting[k].flag => rows[k] = tx.setting[k]
             /\ tx.setting[k] = None /\ wanted[k] = None => rows[k] = tx.setting[k]
  <2> DEFINE e == tx.setting[k]  f == wanted[k]
  <2>1. e \in S!EdgesOf(Settings) \cup {None} /\ run.desired[k] \in Settings \cup {None}
    BY <1>5, <1>6
  <2>2. e # None => e.flag \in Settings /\ e.since \in Nat
    BY <2>1 DEF S!EdgesOf
  <2>3. f \in Settings \cup {None}
    BY <1>8, <2>1, <2>2
  <2>4. e \in AnyRow \cup {None} /\ f \in Said \cup {Unrecorded, None}
    BY <2>1, <2>3 DEF AnyRow, Said, S!EdgesOf
  <2>5. k \in DOMAIN tx.setting
    BY <1>6
  <2>6. rows[k] = RowAfter(e, f, runs)
    BY <1>2, <2>4, <2>5, SyncedKey
  <2> HIDE DEF e, f, rows
  <2> DEFINE row == RowAfter(e, f, runs)
  <2>11. RowFrom(row, e, f, runs)
    BY <1>2, <2>4, RowSays
  <2>12. rows[k] = row
    BY <2>6
  <2> HIDE DEF row
  <2>7. rows[k] # None => rows[k] \in AnyRow /\ rows[k].flag = f
    BY <2>11, <2>12 DEF RowFrom
  <2>8. /\ rows[k] = None <=> f = None
        /\ rows[k] # None => rows[k].since \in {runs} \cup (IF e = None THEN {} ELSE {e.since})
        /\ e # None /\ f = e.flag => rows[k] = e
    BY <2>11, <2>12 DEF RowFrom
  <2>9. rows[k] # None => rows[k] \in S!EdgesOf(Settings)
    BY <2>3, <2>7, <2>8 DEF AnyRow, S!EdgesOf
  <2>10. S!FlagOf(rows[k]) = f
    BY <2>7, <2>8 DEF S!FlagOf
  <2> QED
    BY <2>7, <2>8, <2>9, <2>10 DEF e, f
<1>10. rows \in [Files -> S!EdgesOf(Settings) \cup {None}]
  <2>1. DOMAIN rows = Files /\ rows = [k \in Files |-> rows[k]]
    BY <1>6 DEF S!SyncEdges, S!Synced, S!PayloadReconciled
  <2> QED
    BY <1>9, <2>1
<1> HIDE DEF rows
<1>11. /\ run'.at = 5 /\ run'.found = run.found /\ run'.toRead = {}
       /\ run'.unreadable = run.unreadable /\ run'.desired = run.desired /\ run'.synced
  BY <1>1, <1>2, <1>3, <1>5 DEF SysvolRuns
<1>12. run' \in SysvolRuns
  <2>1. run' = SyncedRun(run'.at, run.found, run.toRead, run.desired, run.unreadable)
    BY <1>1, <1>2 DEF SysvolRuns, SyncedRun
  <2>2. run'.at \in 0..5
    BY <1>11
  <2>3. /\ run.found \in SUBSET Gpos /\ run.toRead \in SUBSET Files
        /\ run.desired \in [Files -> Settings \cup {None}]
        /\ run.unreadable \in SUBSET (Gpos \cup {Netlogon})
    BY <1>2 DEF SysvolRuns
  <2> QED
    BY <1>2, <2>1, <2>2, <2>3, SyncedRunTyped
<1>13. ASSUME NEW g \in Gpos
       PROVE  /\ first[g] \in Nat /\ first[g] <= runs
              /\ g \in run.found /\ tx.first[g] # 0 => first[g] = tx.first[g]
              /\ g \in run.found /\ g \notin run.unreadable => first[g] > 0
  <2>1. first[g] = IF g \notin run.found THEN 0
                   ELSE IF tx.first[g] = 0 /\ g \notin run.unreadable THEN runs ELSE tx.first[g]
    BY DEF first, S!FirstRead
  <2> QED
    BY <1>2, <1>4, <1>6, <2>1
<1>14. first \in [Gpos -> Nat]
  BY <1>13 DEF first
<1>15. folder \in [Gpos -> {"no row", "ok", "unreadable"}]
         /\ \A g \in Gpos : folder[g] # "unreadable" <=> g \notin run.found \/ g \notin run.unreadable
  BY DEF folder
<1>16. /\ status \in [run : Nat, how : {"ok", "partial", "failed"}, read : BOOLEAN, netlogon : BOOLEAN]
       /\ status.run = runs
       /\ status.netlogon <=> Netlogon \notin run.unreadable
  BY <1>2 DEF status
<1>17. tx' \in S!SysvolRows /\ tx'.setting = rows /\ tx'.first = first /\ tx'.folder = folder
         /\ tx'.status = status
  BY <1>1, <1>10, <1>14, <1>15, <1>16 DEF S!SysvolRows
<1>18. ASSUME NEW k \in Files, rows[k] # None, k[1] \in Gpos
       PROVE  first[k[1]] \in 1..rows[k].since
  <2>1. rows[k].since \in {runs} \cup (IF tx.setting[k] = None THEN {} ELSE {tx.setting[k].since})
    BY <1>9, <1>18
  <2>2. k[1] # Netlogon
    BY <1>18, KindsAssumption
  <2>3. CASE k[1] \in run.unreadable
    <3>1. k[1] \in run.found
      BY <1>5, <2>2, <2>3
    <3>2. run.desired[k] = None /\ wanted[k] # None
      BY <1>7, <1>9, <1>18, <2>2, <2>3
    <3>3. tx.setting[k] # None /\ rows[k] = tx.setting[k]
      BY <1>8, <1>9, <2>3, <3>2
    <3>4. tx.first[k[1]] \in 1..rows[k].since
      BY <1>6, <1>18, <3>3
    <3>5. tx.first[k[1]] # 0
      BY <1>6, <1>18, <3>4
    <3> QED
      BY <1>13, <1>18, <3>1, <3>4, <3>5
  <2>4. CASE k[1] \notin run.unreadable
    <3>1. run.desired[k] # None
      BY <1>8, <1>9, <1>18, <2>4
    <3>2. k[1] \in run.found
      BY <1>7, <2>2, <3>1 DEF Wanted
    <3>3. first[k[1]] \in Nat /\ first[k[1]] > 0 /\ first[k[1]] <= runs
      BY <1>13, <1>18, <2>4, <3>2
    <3>4. CASE rows[k].since = runs
      BY <1>2, <3>3, <3>4
    <3>5. CASE tx.setting[k] # None /\ rows[k].since = tx.setting[k].since
      <4>1. tx.first[k[1]] \in 1..rows[k].since
        BY <1>6, <1>18, <3>5
      <4>2. tx.first[k[1]] # 0
        BY <1>6, <1>18, <4>1
      <4> QED
        BY <1>13, <1>18, <3>2, <4>1, <4>2
    <3> QED
      BY <2>1, <3>4, <3>5
  <2> QED
    BY <2>3, <2>4
<1>19. SysvolTypes'
  BY <1>1, <1>12, <1>13, <1>17, <1>18 DEF SysvolInv, SysvolTypes, S!FirstReadBefore
<1>20. SysvolProgress'
  BY <1>1, <1>2, <1>3, <1>5, <1>11, <1>16, <1>17 DEF SysvolInv, SysvolProgress
<1>21. SysvolHeld'
  BY <1>1, <1>3, <1>11 DEF SysvolInv, SysvolHeld
<1>22. ASSUME NEW k \in Files
       PROVE  /\ k[1] \in run.unreadable =>
                   rows[k] = db.setting[k] \/ (k[1] = Netlogon /\ S!FlagOf(rows[k]) \in held[k])
              /\ S!SaidToBeRead(tx', k[1]) => S!FlagOf(rows[k]) \in held[k]
  <2>1. k[1] \in run.unreadable /\ run.desired[k] = None => rows[k] = db.setting[k]
    BY <1>5, <1>8, <1>9
  <2>2. run.desired[k] # None => S!FlagOf(rows[k]) \in held[k]
    BY <1>7, <1>8, <1>9
  <2>3. k[1] \notin run.unreadable => S!FlagOf(rows[k]) \in held[k]
    BY <1>7, <1>8, <1>9
  <2>4. ASSUME S!SaidToBeRead(tx', k[1]), k[1] \in run.unreadable PROVE FALSE
    <3>1. k[1] # Netlogon
      BY <1>16, <1>17, <2>4 DEF S!SaidToBeRead
    <3>2. k[1] \in Gpos /\ k[1] \in run.found
      BY <1>5, <2>4, <3>1
    <3> QED
      BY <1>15, <1>17, <2>4, <3>1, <3>2 DEF S!SaidToBeRead
  <2>5. k[1] \in run.unreadable /\ run.desired[k] # None => k[1] = Netlogon
    BY <1>7
  <2> QED
    BY <2>1, <2>2, <2>3, <2>4, <2>5
<1>23. ASSUME NEW k \in Files, S!SameGrant(db.setting[k], held[k])
       PROVE  rows[k] # None /\ rows[k].since = db.setting[k].since
  <2>1. db.setting[k] = tx.setting[k] /\ tx.setting[k] # None
    BY <1>5, <1>23 DEF S!SameGrant
  <2>2. tx.setting[k].flag \in Settings
    BY <1>6, <2>1 DEF S!EdgesOf
  <2>3. held[k] = {tx.setting[k].flag} /\ None \notin held[k]
    BY <1>23, <2>1, <2>2, Values DEF S!SameGrant, Said
  <2>4. Wanted(k)
    BY <1>7, <2>3
  <2>5. wanted[k] = tx.setting[k].flag
    <3>1. CASE k[1] \in run.unreadable /\ run.desired[k] = None
      BY <1>8, <2>1, <3>1
    <3>2. CASE ~(k[1] \in run.unreadable /\ run.desired[k] = None)
      BY <1>7, <1>8, <2>3, <2>4, <3>2
    <3> QED
      BY <3>1, <3>2
  <2> QED
    BY <1>9, <2>1, <2>5
<1>24. SysvolSynced'
  BY <1>1, <1>5, <1>11, <1>13, <1>17, <1>22, <1>23 DEF SysvolSynced
<1> QED
  BY <1>19, <1>20, <1>21, <1>24 DEF SysvolInv

LEMMA SysvolNext ==
  ASSUME SysvolInv, S!Next
  PROVE  SysvolInv'
<1>1. run \in SysvolRuns
  BY DEF SysvolInv, SysvolTypes
<1>2. run.at \in 0..5
  BY <1>1 DEF SysvolRuns
<1>3. ASSUME S!EnumerateGposFails \/ S!ShareUnreachable \/ S!SysvolFails PROVE SysvolInv'
  <2>1. run.at \in {1, 2, 3, 4} /\ S!ToCommit = 5
    BY <1>2, <1>3, SysvolAt DEF S!EnumerateGposFails, S!ShareUnreachable, S!SysvolFails
  <2>2. ~run.synced
    BY <2>1 DEF SysvolInv, SysvolProgress
  <2>3. run' \in {[run EXCEPT !.at = 5], [run EXCEPT !.at = 5, !.toRead = {}]}
    BY <1>3, <2>1 DEF S!EnumerateGposFails, S!ShareUnreachable, S!SysvolFails
  <2>4. tx' \in {tx, [tx EXCEPT !.status = S!Failed]}
    BY <1>3 DEF S!EnumerateGposFails, S!ShareUnreachable, S!SysvolFails
  <2>5. ad' = ad /\ db' = db /\ runs' = runs /\ held' = held
    BY <1>3 DEF S!EnumerateGposFails, S!ShareUnreachable, S!SysvolFails
  <2> QED
    BY <2>1, <2>2, <2>3, <2>4, <2>5, SysvolGivesUp
<1>4. ASSUME S!Commit PROVE SysvolInv'
  <2>1. run.at = 5
    BY <1>2, <1>4, SysvolAt DEF S!Commit
  <2>2. ad' = ad /\ db' = tx /\ tx' = tx /\ runs' = runs /\ run' = S!Idle /\ held' = S!NoneHeld
    BY <1>4 DEF S!Commit
  <2> QED
    BY <2>1, <2>2, SysvolEnds
<1>5. ASSUME S!RollBack PROVE SysvolInv'
  <2>1. run.at > 0 /\ ad' = ad /\ db' = db /\ tx' = db /\ runs' = runs /\ run' = S!Idle /\ held' = S!NoneHeld
    BY <1>5 DEF S!RollBack
  <2> QED
    BY <2>1, SysvolEnds
<1> QED
  BY <1>3, <1>4, <1>5, SysvolDirectory, SysvolStart, SysvolEnumerates, SysvolConnects, SysvolReads,
     SysvolReadFails, SysvolSyncs
  DEF S!Next, S!Collect

\* What the checked invariant says is part of it.
LEMMA SysvolKeepsTypes == SysvolInv => S!TypeOK
<1> SUFFICES ASSUME SysvolInv PROVE S!TypeOK
  OBVIOUS
<1>1. run \in SysvolRuns
  BY DEF SysvolInv, SysvolTypes
<1>2. run.at \in 0..5 /\ run.toRead \subseteq Files /\ run.desired \in [Files -> Settings \cup {None}]
  BY <1>1 DEF SysvolRuns
<1>3. Len(S!Order) = 5
  BY DEF S!Order
<1>4. ad.exists \subseteq Gpos /\ ad.content \in [Files -> Settings \cup {None}]
  BY DEF SysvolInv, SysvolTypes
<1> QED
  BY <1>2, <1>3, <1>4 DEF SysvolInv, SysvolTypes, S!TypeOK

\* What a commit leaves is what the transaction had.
LEMMA SysvolCommits ==
  ASSUME SysvolInv, S!Commit
  PROVE  S!UnreadKept /\ S!Mirrored /\ S!NotFalselyNew
<1>1. db' = tx /\ runs' = runs
  BY DEF S!Commit
<1>2. run.at > 0
  <2>1. run.at \in 0..5
    BY DEF SysvolInv, SysvolTypes, SysvolRuns
  <2> QED
    BY <2>1, SysvolAt DEF S!Commit
<1>3. run.found \subseteq Gpos
  BY DEF SysvolInv, SysvolTypes, SysvolRuns
<1>4. ~run.synced => tx.setting = db.setting /\ tx.first = db.first
  BY DEF SysvolInv, SysvolProgress
<1>5. S!UnreadKept
  BY <1>1, <1>4 DEF SysvolInv, SysvolSynced, S!UnreadKept
<1>6. S!Mirrored
  <2>1. CASE run.synced
    BY <1>1, <2>1 DEF SysvolInv, SysvolSynced, S!Mirrored
  <2>2. CASE ~run.synced
    <3>1. tx.status.how = "failed" \/ tx.status.run < runs
      BY <1>2, <2>2 DEF SysvolInv, SysvolProgress
    <3>2. tx.status.run \in Nat
      BY DEF SysvolInv, SysvolTypes, S!SysvolRows
    <3>3. runs \in Nat
      BY BoundsAssumption DEF SysvolInv, SysvolTypes
    <3>4. ~S!Assessed(tx)
      BY <3>1, <3>2, <3>3 DEF S!Assessed
    <3>5. S!Assessed(db') <=> S!Assessed(tx)
      BY <1>1
    <3> QED
      BY <3>4, <3>5 DEF S!Mirrored
  <2> QED
    BY <2>1, <2>2
<1>7. S!NotFalselyNew
  <2>1. \A k \in Files : S!SameGrant(db.setting[k], held[k]) =>
          tx.setting[k] # None /\ tx.setting[k].since = db.setting[k].since
    BY <1>4 DEF SysvolInv, SysvolSynced, S!SameGrant
  <2>2. \A g \in run.found : db.first[g] # 0 => tx.first[g] = db.first[g]
    BY <1>4 DEF SysvolInv, SysvolSynced
  <2> QED
    BY <1>1, <2>1, <2>2 DEF S!NotFalselyNew, S!Kept
<1> QED
  BY <1>5, <1>6, <1>7
-----------------------------------------------------------------------------
(* ACL and link edges: the classes, and steps of the directory.            *)

LEMMA SyncedRow ==
  ASSUME NEW open, NEW desired, NEW n \in Nat, NEW k \in DOMAIN open,
         open[k] \in AnyRow \cup {None}, desired[k] \in Said \cup {Unrecorded, None}
  PROVE  /\ RowFrom(E!SyncEdges(open, desired, n)[k], open[k], desired[k], n)
         /\ RowFrom(M!SyncEdges(open, desired, n)[k], open[k], desired[k], n)
<1> DEFINE e == open[k]  f == desired[k]
<1>1. e \in AnyRow \cup {None} /\ f \in Said \cup {Unrecorded, None}
  OBVIOUS
<1>2. E!SyncEdges(open, desired, n)[k] = RowAfter(e, f, n) /\ M!SyncEdges(open, desired, n)[k] = RowAfter(e, f, n)
  BY SyncedKey
<1> HIDE DEF e, f
<1>3. RowFrom(RowAfter(e, f, n), e, f, n)
  BY <1>1, RowSays
<1> QED
  BY <1>2, <1>3 DEF e, f

LEMMA AclPlaces ==
  /\ E!ClassOf["ou"] = Ous /\ E!ClassOf["gpo"] = Gpos /\ E!ClassOf["zone"] = Zones
  /\ \A o \in Ous : Place(o) = 1
  /\ \A o \in Gpos : Place(o) = 2
  /\ \A o \in Zones : Place(o) = 4
  /\ \A o : Place(o) \in {1, 2, 4}
  /\ \A k \in AclKeys : k[1] \in E!Objects
  /\ \A k \in E!LinkKeys : k[1] \in Ous /\ k[2] \in Gpos
  BY KindsAssumption DEF E!ClassOf, Place, E!Objects, E!LinkKeys

LEMMA AclAt ==
  ASSUME run.at \in 0..6
  PROVE  /\ E!At("ou") <=> run.at = 1
         /\ E!At("gpo") <=> run.at = 2
         /\ E!At("links") <=> run.at = 3
         /\ E!At("zone") <=> run.at = 4
         /\ E!At("acl") <=> run.at = 5
         /\ E!At("commit") <=> run.at = 6
         /\ run.at = 1 => E!Class = Ous
         /\ run.at = 2 => E!Class = Gpos
         /\ run.at = 4 => E!Class = Zones
  BY AclPlaces DEF E!At, E!Order, E!Class

LEMMA AclInit == BoundsAssumption /\ E!Init => AclInv
<1> SUFFICES ASSUME BoundsAssumption, E!Init PROVE AclInv
  OBVIOUS
<1>1. PICK e \in SUBSET E!Objects, f \in Flags :
        ad = [exists |-> e,
              acl |-> [k \in AclKeys |-> IF k[1] \in e THEN f ELSE None],
              link |-> [k \in E!LinkKeys |-> IF k[1] \in e THEN f ELSE None]]
  BY DEF E!Init
<1>2. /\ db \in {E!Empty, E!CollectedBefore34} /\ tx = db /\ runs = 0 /\ run = E!Idle
      /\ held = E!NoneHeld
  BY DEF E!Init
<1>3. /\ ad.exists = e /\ ad \in [exists : SUBSET E!Objects, acl : [AclKeys -> Flags \cup {None}],
                                  link : [E!LinkKeys -> Flags \cup {None}]]
      /\ \A k \in AclKeys : ad.acl[k] # None => k[1] \in e
      /\ \A k \in E!LinkKeys : ad.link[k] = IF k[1] \in e THEN f ELSE None
  BY <1>1
<1>4. E!Empty \in E!Rows /\ E!EndsKnown(E!Empty) /\ E!Empty.live \subseteq E!Empty.known
  BY DEF E!Empty, E!Rows, E!EndsKnown, E!NoAces
<1>5. E!CollectedBefore34 \in E!Rows /\ E!EndsKnown(E!CollectedBefore34)
        /\ E!CollectedBefore34.live \subseteq E!CollectedBefore34.known
  <2> DEFINE acl == [k \in AclKeys |-> IF ad.acl[k] = None THEN None
                                       ELSE [flag |-> Unrecorded, since |-> 0]]
             link == [k \in E!LinkKeys |-> IF {k[1], k[2]} \subseteq ad.exists
                                           THEN [flag |-> ad.link[k], since |-> 0] ELSE None]
  <2>1. E!CollectedBefore34 = [known |-> e, live |-> e, acl |-> acl, link |-> link]
    <3>1. E!Empty = [known |-> {}, live |-> {}, acl |-> E!NoAces,
                     link |-> [k \in E!LinkKeys |-> None]]
      BY DEF E!Empty
    <3>2. E!CollectedBefore34 = [E!Empty EXCEPT !.known = e, !.live = e, !.acl = acl, !.link = link]
      BY <1>3 DEF E!CollectedBefore34
    <3> HIDE DEF acl, link
    <3> QED
      BY <3>1, <3>2
  <2>2. acl \in [AclKeys -> E!Edge \cup {None}]
    BY DEF E!Edge, E!EdgesOf
  <2>3. link \in [E!LinkKeys -> E!Edge \cup {None}]
    BY <1>3 DEF E!Edge, E!EdgesOf
  <2>4. \A k \in AclKeys : acl[k] # None => k[1] \in e
    BY <1>3
  <2>5. \A k \in E!LinkKeys : link[k] # None => {k[1], k[2]} \subseteq e
    BY <1>3
  <2> HIDE DEF acl, link
  <2> QED
    BY <2>1, <2>2, <2>3, <2>4, <2>5 DEF E!Rows, E!EndsKnown
<1>6. /\ E!Idle \in AclRuns /\ E!Idle.at = 0 /\ E!Idle.seen = {} /\ E!Idle.toRead = {}
      /\ E!Idle.unreadable = {} /\ E!Idle.unreadScopes = {} /\ E!Idle.unreadLinks = {}
      /\ \A k \in AclKeys : E!Idle.desired[k] = None
      /\ \A k \in E!LinkKeys : E!Idle.gplink[k] = None
  BY DEF E!Idle, AclRuns, E!NoAces
<1>7. E!NoneHeld \in [acl : [AclKeys -> SUBSET (Flags \cup {None})],
                      link : [E!LinkKeys -> SUBSET (Flags \cup {None})]]
  BY DEF E!NoneHeld
<1>8. AclTypes
  BY <1>2, <1>3, <1>4, <1>5, <1>6, <1>7, BoundsAssumption DEF AclTypes
<1>9. AclProgress
  BY <1>2, <1>6 DEF AclProgress, ClassUnread
<1>10. AclHeld /\ AclSynced
  BY <1>2, <1>6 DEF AclHeld, AclSynced
<1> QED
  BY <1>8, <1>9, <1>10 DEF AclInv
\* What is left when only the directory and what was held of it change.
LEMMA AclGrows ==
  ASSUME NEW e, NEW old, NEW new, old \subseteq new, old # {}, E!SameGrant(e, new), e.flag # None
  PROVE  E!SameGrant(e, old)
  BY DEF E!SameGrant

LEMMA AclFlags ==
  ASSUME AclInv
  PROVE  /\ \A k \in AclKeys : db.acl[k] # None => db.acl[k].flag # None
         /\ \A k \in E!LinkKeys : db.link[k] # None => db.link[k].flag # None
  BY Values DEF AclInv, AclTypes, E!Rows, E!Edge, E!EdgesOf, Said

\* What was synced stays true of it as more values are held.
LEMMA AclSyncedGrows ==
  ASSUME AclInv, db' = db, tx' = tx, run' = run, run.at > 0,
         \A k \in AclKeys : held.acl[k] \subseteq held'.acl[k],
         \A k \in E!LinkKeys : held.link[k] \subseteq held'.link[k]
  PROVE  AclSynced'
<1>1. ASSUME NEW k \in AclKeys, E!SameGrant(db.acl[k], held'.acl[k])
      PROVE  E!SameGrant(db.acl[k], held.acl[k])
  <2>1. db.acl[k] # None /\ held.acl[k] # {}
    BY <1>1 DEF AclInv, AclHeld, E!SameGrant
  <2> QED
    BY <1>1, <2>1, AclFlags, AclGrows
<1>2. ASSUME NEW k \in E!LinkKeys, E!SameGrant(db.link[k], held'.link[k])
      PROVE  E!SameGrant(db.link[k], held.link[k])
  <2>1. db.link[k] # None /\ held.link[k] # {}
    BY <1>2 DEF AclInv, AclHeld, E!SameGrant
  <2> QED
    BY <1>2, <2>1, AclFlags, AclGrows
<1>3. \A o : (ClassUnread(o)' <=> ClassUnread(o)) /\ (E!Read(o)' <=> E!Read(o)) /\ (E!AclRead(o)' <=> E!AclRead(o))
  BY DEF ClassUnread, E!Read, E!AclRead
<1> QED
  BY <1>1, <1>2, <1>3 DEF AclInv, AclSynced, E!FlagOf

LEMMA AclChange ==
  ASSUME AclInv,
         NEW d \in [exists : SUBSET E!Objects, acl : [AclKeys -> Flags \cup {None}],
                    link : [E!LinkKeys -> Flags \cup {None}]],
         \A k \in AclKeys : d.acl[k] # None => k[1] \in d.exists,
         \A k \in E!LinkKeys : d.link[k] # None => k[1] \in d.exists,
         E!Change(d)
  PROVE  AclInv'
<1>1. /\ ad' = d /\ db' = db /\ tx' = tx /\ runs' = runs /\ run' = run
      /\ run.at = 0 => held' = held
      /\ run.at # 0 => held' = [acl |-> [k \in AclKeys |-> held.acl[k] \cup {d.acl[k]}],
                                link |-> [k \in E!LinkKeys |-> held.link[k] \cup {d.link[k]}]]
  BY DEF E!Change
<1>2. held' \in [acl : [AclKeys -> SUBSET (Flags \cup {None})],
                 link : [E!LinkKeys -> SUBSET (Flags \cup {None})]]
  BY <1>1 DEF AclInv, AclTypes
<1>3. \A k \in AclKeys : held.acl[k] \subseteq held'.acl[k] /\ (run.at # 0 => d.acl[k] \in held'.acl[k])
  BY <1>1
<1>4. \A k \in E!LinkKeys : held.link[k] \subseteq held'.link[k] /\ (run.at # 0 => d.link[k] \in held'.link[k])
  BY <1>1
<1>5. AclTypes'
  BY <1>1, <1>2 DEF AclInv, AclTypes, E!EndsKnown
<1>6. \A o : /\ ClassUnread(o)' <=> ClassUnread(o)
             /\ E!Read(o)' <=> E!Read(o)
             /\ E!AclRead(o)' <=> E!AclRead(o)
             /\ Collected(o)' <=> Collected(o)
  BY <1>1 DEF ClassUnread, E!Read, E!AclRead, Collected, Place
<1>7. AclProgress'
  BY <1>1, <1>6 DEF AclInv, AclProgress, E!Idle, E!NoAces, Place
<1>8. AclHeld'
  BY <1>1, <1>3, <1>4, <1>6 DEF AclInv, AclHeld
<1>9. AclSynced'
  <2>1. CASE run.at > 0
    BY <1>1, <1>3, <1>4, <2>1, AclSyncedGrows
  <2>2. CASE ~(run.at > 0)
    <3>1. run.at \in 0..6
      BY DEF AclInv, AclTypes, AclRuns
    <3> QED
      BY <1>1, <2>2, <3>1 DEF AclSynced
  <2> QED
    BY <2>1, <2>2
<1> QED
  BY <1>5, <1>7, <1>8, <1>9 DEF AclInv

LEMMA AclDirectory ==
  ASSUME AclInv, E!Directory
  PROVE  AclInv'
<1> DEFINE Ads == [exists : SUBSET E!Objects, acl : [AclKeys -> Flags \cup {None}],
                   link : [E!LinkKeys -> Flags \cup {None}]]
<1>1. /\ ad \in Ads
      /\ \A k \in AclKeys : ad.acl[k] # None => k[1] \in ad.exists
      /\ \A k \in E!LinkKeys : ad.link[k] # None => k[1] \in ad.exists
  BY DEF AclInv, AclTypes
<1>2. ASSUME NEW o \in E!Objects, E!CreateObject(o) PROVE AclInv'
  <2> DEFINE d == [ad EXCEPT !.exists = @ \cup {o}]
  <2>1. E!Change(d)
    BY <1>2 DEF E!CreateObject
  <2>2. d \in Ads
    BY <1>1
  <2>3. /\ \A k \in AclKeys : d.acl[k] # None => k[1] \in d.exists
        /\ \A k \in E!LinkKeys : d.link[k] # None => k[1] \in d.exists
    BY <1>1
  <2> HIDE DEF d
  <2> QED
    BY <2>1, <2>2, <2>3, AclChange
<1>3. ASSUME NEW o \in E!Objects, E!DeleteObject(o) PROVE AclInv'
  <2> DEFINE d == [exists |-> ad.exists \ {o},
                   acl |-> [k \in AclKeys |-> IF k[1] = o THEN None ELSE ad.acl[k]],
                   link |-> [k \in E!LinkKeys |-> IF k[1] = o THEN None ELSE ad.link[k]]]
  <2>1. E!Change(d)
    BY <1>3 DEF E!DeleteObject
  <2>2. d \in Ads
    BY <1>1
  <2>3. /\ \A k \in AclKeys : d.acl[k] # None => k[1] \in d.exists
        /\ \A k \in E!LinkKeys : d.link[k] # None => k[1] \in d.exists
    BY <1>1
  <2> HIDE DEF d
  <2> QED
    BY <2>1, <2>2, <2>3, AclChange
<1>4. ASSUME NEW j \in AclKeys, E!SetAce(j) PROVE AclInv'
  <2>1. PICK f \in Flags \cup {None} : E!Change([ad EXCEPT !.acl[j] = f])
    BY <1>4 DEF E!SetAce
  <2> DEFINE d == [ad EXCEPT !.acl[j] = f]
  <2>2. d \in Ads
    BY <1>1
  <2>3. /\ \A k \in AclKeys : d.acl[k] # None => k[1] \in d.exists
        /\ \A k \in E!LinkKeys : d.link[k] # None => k[1] \in d.exists
    BY <1>1, <1>4 DEF E!SetAce
  <2>4. E!Change(d)
    BY <2>1
  <2> HIDE DEF d
  <2> QED
    BY <2>2, <2>3, <2>4, AclChange
<1>5. ASSUME NEW j \in E!LinkKeys, E!SetLink(j) PROVE AclInv'
  <2>1. PICK f \in Flags \cup {None} : E!Change([ad EXCEPT !.link[j] = f])
    BY <1>5 DEF E!SetLink
  <2> DEFINE d == [ad EXCEPT !.link[j] = f]
  <2>2. d \in Ads
    BY <1>1
  <2>3. /\ \A k \in AclKeys : d.acl[k] # None => k[1] \in d.exists
        /\ \A k \in E!LinkKeys : d.link[k] # None => k[1] \in d.exists
    BY <1>1, <1>5 DEF E!SetLink
  <2>4. E!Change(d)
    BY <2>1
  <2> HIDE DEF d
  <2> QED
    BY <2>2, <2>3, <2>4, AclChange
<1> QED
  BY <1>2, <1>3, <1>4, <1>5 DEF E!Directory

-----------------------------------------------------------------------------
(* ACL and link edges: the run begins and ends.                            *)

LEMMA AclStarts ==
  ASSUME AclInv, E!Start
  PROVE  AclInv'
<1>1. /\ run' = [E!Idle EXCEPT !.at = 1] /\ run.at = 0 /\ runs < MaxRuns /\ runs' = runs + 1
      /\ tx' = db /\ ad' = ad /\ db' = db
      /\ held' = [acl |-> [k \in AclKeys |-> {ad.acl[k]}], link |-> [k \in E!LinkKeys |-> {ad.link[k]}]]
  BY DEF E!Start, E!dirVars
<1>2. run' = [at |-> 1, seen |-> {}, toRead |-> {}, gplink |-> [k \in E!LinkKeys |-> None],
              desired |-> E!NoAces, unreadable |-> {}, unserved |-> {}, unreadScopes |-> {},
              unreadLinks |-> {}]
  BY <1>1 DEF E!Idle
<1>3. /\ run'.at = 1 /\ run'.seen = {} /\ run'.toRead = {} /\ run'.unreadable = {}
      /\ run'.unreadScopes = {} /\ run'.unreadLinks = {}
      /\ \A k \in AclKeys : run'.desired[k] = None
      /\ \A k \in E!LinkKeys : run'.gplink[k] = None
  BY <1>2 DEF E!NoAces
<1>4. run' \in AclRuns
  BY <1>2 DEF AclRuns, E!NoAces
<1>5. runs' \in 0..MaxRuns
  BY <1>1, BoundsAssumption DEF AclInv, AclTypes
<1>6. held' \in [acl : [AclKeys -> SUBSET (Flags \cup {None})],
                 link : [E!LinkKeys -> SUBSET (Flags \cup {None})]]
  BY <1>1 DEF AclInv, AclTypes
<1>7. AclTypes'
  BY <1>1, <1>4, <1>5, <1>6 DEF AclInv, AclTypes, E!EndsKnown
<1>8. AclProgress'
  BY <1>1, <1>3 DEF AclProgress, ClassUnread
<1>9. AclHeld'
  BY <1>1, <1>3, AclPlaces DEF AclHeld, Collected, Place, E!Read, E!AclRead
<1>10. AclSynced'
  BY <1>3 DEF AclSynced
<1> QED
  BY <1>7, <1>8, <1>9, <1>10 DEF AclInv

LEMMA AclEnds ==
  ASSUME AclInv, NEW rows \in E!Rows, E!EndsKnown(rows), rows.live \subseteq rows.known,
         ad' = ad, db' = rows, tx' = rows, runs' = runs, run' = E!Idle, held' = E!NoneHeld
  PROVE  AclInv'
<1>1. /\ E!Idle \in AclRuns /\ E!Idle.at = 0 /\ E!Idle.seen = {} /\ E!Idle.toRead = {}
      /\ E!Idle.unreadable = {} /\ E!Idle.unreadScopes = {} /\ E!Idle.unreadLinks = {}
      /\ \A k \in AclKeys : E!Idle.desired[k] = None
      /\ \A k \in E!LinkKeys : E!Idle.gplink[k] = None
  BY DEF E!Idle, AclRuns, E!NoAces
<1>2. E!NoneHeld \in [acl : [AclKeys -> SUBSET (Flags \cup {None})],
                      link : [E!LinkKeys -> SUBSET (Flags \cup {None})]]
  BY DEF E!NoneHeld
<1>3. AclTypes'
  BY <1>1, <1>2 DEF AclInv, AclTypes, E!EndsKnown
<1>4. AclProgress'
  BY <1>1 DEF AclProgress, ClassUnread
<1>5. AclHeld' /\ AclSynced'
  BY <1>1 DEF AclHeld, AclSynced
<1> QED
  BY <1>3, <1>4, <1>5 DEF AclInv

-----------------------------------------------------------------------------
(* ACL and link edges: the classes are enumerated.                         *)

\* A value of the collector's variables, for the sake of its type.
AclRun(at, seen, toRead, gplink, desired, unreadable, unreadScopes, unreadLinks) ==
  [at |-> at, seen |-> seen, toRead |-> toRead, gplink |-> gplink, desired |-> desired,
   unreadable |-> unreadable, unserved |-> run.unserved, unreadScopes |-> unreadScopes,
   unreadLinks |-> unreadLinks]

LEMMA AclRunTyped ==
  ASSUME run \in AclRuns, NEW at \in 0..6, NEW seen \in SUBSET E!Objects,
         NEW toRead \in SUBSET E!Objects, NEW gplink \in [E!LinkKeys -> Flags \cup {None}],
         NEW desired \in [AclKeys -> Flags \cup {None}], NEW unreadable \in SUBSET E!Objects,
         NEW unreadScopes \in SUBSET {"ou", "gpo", "zone"}, NEW unreadLinks \in SUBSET Ous
  PROVE  AclRun(at, seen, toRead, gplink, desired, unreadable, unreadScopes, unreadLinks) \in AclRuns
  BY DEF AclRuns, AclRun

\* No run that is to be enumerated next has been seen of.
LEMMA AclEnumerating ==
  ASSUME AclInv, NEW step \in {"ou", "gpo", "zone"}, E!Enumerating(step)
  PROVE  /\ run.at \in {1, 2, 4} /\ run.toRead = {} /\ E!Class \cap run.seen = {}
         /\ step = "ou" <=> run.at = 1
         /\ step = "zone" <=> run.at = 4
         /\ E!Class = E!ClassOf[step] /\ E!Class \subseteq E!Objects
         /\ \A o \in E!Objects : o \in E!Class <=> Place(o) = run.at
         /\ \A o \in E!Class : ~ClassUnread(o)
<1>1. run.at \in 0..6
  BY DEF AclInv, AclTypes, AclRuns
<1>2. /\ step = "ou" => run.at = 1 /\ E!Class = Ous
      /\ step = "gpo" => run.at = 2 /\ E!Class = Gpos
      /\ step = "zone" => run.at = 4 /\ E!Class = Zones
  BY <1>1, AclAt DEF E!Enumerating
<1>3. /\ run.at \in {1, 2, 4} /\ run.toRead = {} /\ E!Class \cap run.seen = {}
      /\ step = "ou" <=> run.at = 1
      /\ step = "zone" <=> run.at = 4
  BY <1>2 DEF E!Enumerating
<1>4. E!Class = E!ClassOf[step] /\ E!Class \subseteq E!Objects
  BY <1>2, AclPlaces DEF E!Objects
<1>5. \A o \in E!Objects : o \in E!Class <=> Place(o) = run.at
  BY <1>2, AclPlaces DEF E!Objects
<1>6. \A o \in E!Objects : ClassUnread(o) => Place(o) < run.at
  BY DEF AclInv, AclProgress
<1> QED
  BY <1>3, <1>4, <1>5, <1>6

LEMMA AclEnumerates ==
  ASSUME AclInv, NEW step \in {"ou", "gpo", "zone"}, E!Enumerate(step)
  PROVE  AclInv'
<1> DEFINE found == E!Class \cap ad.exists
           gplink == [k \in E!LinkKeys |-> IF k[1] \in found THEN ad.link[k] ELSE run.gplink[k]]
           at == IF found = {} THEN run.at + 1 ELSE run.at
           live == IF step = "zone" THEN (tx.live \ Zones) \cup found ELSE tx.live \cup found
<1>1. /\ ad' = ad /\ db' = db /\ runs' = runs /\ held' = held
      /\ run' = [run EXCEPT !.seen = @ \cup found, !.toRead = found, !.at = at, !.gplink = gplink]
      /\ tx' = [tx EXCEPT !.known = @ \cup found, !.live = live]
  BY DEF E!Enumerate, E!dirVars
<1>2. run \in AclRuns /\ tx \in E!Rows /\ runs \in Nat
  BY BoundsAssumption DEF AclInv, AclTypes
<1>3. /\ run.at \in {1, 2, 4} /\ run.toRead = {} /\ E!Class \cap run.seen = {}
      /\ step = "zone" <=> run.at = 4
      /\ E!Class \subseteq E!Objects
      /\ \A o \in E!Objects : o \in E!Class <=> Place(o) = run.at
      /\ \A o \in E!Class : ~ClassUnread(o)
  BY AclEnumerating DEF E!Enumerate
<1>4. /\ found \subseteq E!Class /\ found \subseteq E!Objects /\ found \subseteq ad.exists
      /\ \A o \in E!Class : o \in ad.exists => o \in found
  BY <1>3
<1>5. gplink \in [E!LinkKeys -> Flags \cup {None}]
      /\ \A k \in E!LinkKeys : gplink[k] = IF k[1] \in found THEN ad.link[k] ELSE run.gplink[k]
  BY <1>2 DEF AclInv, AclTypes, AclRuns
<1>6. at \in 1..5 /\ (found = {} => at = run.at + 1) /\ (found # {} => at = run.at)
  BY <1>3
<1>7. /\ live \subseteq tx.known \cup found /\ live \in SUBSET E!Objects
      /\ \A o \in tx.live : o \notin live => step = "zone" /\ o \in Zones
  BY <1>2, <1>4 DEF E!Rows, AclInv, AclTypes
<1> HIDE DEF found, gplink, at, live
<1>8. /\ run'.at = at /\ run'.seen = run.seen \cup found /\ run'.toRead = found
      /\ run'.gplink = gplink /\ run'.desired = run.desired /\ run'.unreadable = run.unreadable
      /\ run'.unreadScopes = run.unreadScopes /\ run'.unreadLinks = run.unreadLinks
  BY <1>1, <1>2 DEF AclRuns
<1>9. /\ tx'.known = tx.known \cup found /\ tx'.live = live /\ tx'.acl = tx.acl /\ tx'.link = tx.link
      /\ tx' \in E!Rows
  <2>1. tx' = [known |-> tx.known \cup found, live |-> live, acl |-> tx.acl, link |-> tx.link]
    BY <1>1, <1>2 DEF E!Rows
  <2> QED
    BY <1>2, <1>4, <1>7, <2>1 DEF E!Rows
<1>10. run' \in AclRuns
  <2>1. run' = AclRun(at, run'.seen, found, gplink, run.desired, run.unreadable, run.unreadScopes,
                      run.unreadLinks)
    BY <1>1, <1>2, <1>8 DEF AclRuns, AclRun
  <2>2. /\ run.desired \in [AclKeys -> Flags \cup {None}] /\ run.unreadable \in SUBSET E!Objects
        /\ run.unreadScopes \in SUBSET {"ou", "gpo", "zone"} /\ run.unreadLinks \in SUBSET Ous
        /\ run.seen \in SUBSET E!Objects
    BY <1>2 DEF AclRuns
  <2>3. run'.seen \in SUBSET E!Objects /\ at \in 0..6
    BY <1>4, <1>6, <1>8, <2>2
  <2> QED
    BY <1>2, <1>4, <1>5, <2>1, <2>2, <2>3, AclRunTyped
\* The class is dealt with, whether there is anything to read or not.
<1>11. \A o \in E!Objects : /\ ClassUnread(o)' <=> ClassUnread(o)
                            /\ Collected(o) <=> Place(o) < run.at
                            /\ Collected(o)' <=> Place(o) < run.at \/ Place(o) = run.at
                            /\ Place(o)' = Place(o) /\ Place(o) \in {1, 2, 4}
  BY <1>3, <1>6, <1>8, AclPlaces DEF ClassUnread, Collected, Place
<1>12. \A o \in found : /\ o \in E!Objects /\ Place(o) = run.at /\ ~ClassUnread(o) /\ o \notin run.seen
                        /\ o \notin run.unreadable
  BY <1>3, <1>4 DEF AclInv, AclProgress
<1>13. AclTypes'
  BY <1>1, <1>7, <1>9, <1>10 DEF AclInv, AclTypes, E!EndsKnown
<1>14. AclProgress'
  <2>1. run'.at > 0 /\ (run'.at <= 3 => run.at <= 3) /\ (run'.at <= 5 => run.at <= 5)
    BY <1>3, <1>6, <1>8
  <2>2. /\ run'.seen \subseteq tx'.known /\ run'.toRead \subseteq run'.seen
        /\ run'.unreadable \subseteq run'.seen
    BY <1>8, <1>9 DEF AclInv, AclProgress
  <2>3. \A o \in run'.seen : Place(o)' <= run'.at
    BY <1>3, <1>6, <1>8, <1>11, <1>12 DEF AclInv, AclProgress, AclTypes, AclRuns
  <2>4. \A o \in run'.toRead : Place(o)' = run'.at /\ o \notin run'.unreadable /\ ~ClassUnread(o)'
    BY <1>6, <1>8, <1>11, <1>12
  <2>5. \A o \in E!Objects : ClassUnread(o)' => Place(o)' < run'.at /\ o \notin run'.unreadable
    BY <1>3, <1>6, <1>8, <1>11 DEF AclInv, AclProgress
  <2>6. \A k \in AclKeys : run'.desired[k] # None =>
           k[1] \in run'.seen \ (run'.toRead \cup run'.unreadable) /\ ~ClassUnread(k[1])'
    BY <1>8, <1>11, <1>12, AclPlaces DEF AclInv, AclProgress
  <2>7. \A k \in E!LinkKeys : run'.gplink[k] # None => k[1] \in run'.seen /\ ~ClassUnread(k[1])'
    <3>1. \A k \in E!LinkKeys : k[1] \in E!Objects
      BY AclPlaces DEF E!Objects
    <3> QED
      BY <1>5, <1>8, <1>11, <1>12, <3>1 DEF AclInv, AclProgress
  <2>8. IF "ou" \in run'.unreadScopes THEN db'.live \cap Ous \subseteq run'.unreadLinks
                                      ELSE run'.unreadLinks = {}
    BY <1>1, <1>8 DEF AclInv, AclProgress
  <2>9. \A o \in db'.live : o \notin tx'.live => o \in Zones /\ ~ClassUnread(o)' /\ Collected(o)'
    <3> SUFFICES ASSUME NEW o \in db.live, o \notin live
                 PROVE  o \in Zones /\ ~ClassUnread(o)' /\ Collected(o)'
      BY <1>1, <1>9
    <3>1. o \in E!Objects
      BY DEF AclInv, AclTypes, E!Rows
    <3>2. CASE o \in tx.live
      <4>1. run.at = 4 /\ o \in Zones /\ Place(o) = 4
        BY <1>3, <1>7, <3>2, AclPlaces
      <4>2. o \in E!Class
        BY <1>3, <3>1, <4>1
      <4> QED
        BY <1>3, <1>11, <3>1, <4>1, <4>2
    <3>3. CASE o \notin tx.live
      BY <1>11, <3>1, <3>3 DEF AclInv, AclProgress
    <3> QED
      BY <3>2, <3>3
  <2> QED
    BY <1>1, <1>9, <2>1, <2>2, <2>3, <2>4, <2>5, <2>6, <2>7, <2>8, <2>9 DEF AclInv, AclProgress
<1>15. AclHeld'
  <2>1. run.at > 0
    BY <1>3
  <2>2. ASSUME NEW k \in AclKeys
        PROVE  /\ ad.acl[k] \in held.acl[k]
               /\ (E!AclRead(k[1]) /\ k[1] \notin run.toRead)' => run.desired[k] \in held.acl[k]
               /\ (Collected(k[1]) /\ ~ClassUnread(k[1]))' /\ None \notin held.acl[k] => k[1] \in run'.seen
    <3>1. /\ k[1] \in E!Objects /\ ad.acl[k] \in held.acl[k]
          /\ E!AclRead(k[1]) => run.desired[k] \in held.acl[k]
          /\ Collected(k[1]) /\ ~ClassUnread(k[1]) /\ None \notin held.acl[k] => k[1] \in run.seen
      BY <1>3, <2>1, AclPlaces DEF AclInv, AclHeld
    <3>2. (E!AclRead(k[1]) /\ k[1] \notin run.toRead)' => E!AclRead(k[1])
      BY <1>8 DEF E!AclRead, E!Read
    <3>3. Place(k[1]) = run.at /\ None \notin held.acl[k] => k[1] \in run'.seen
      BY <1>3, <1>4, <1>8, <3>1 DEF AclInv, AclTypes
    <3> QED
      BY <1>8, <1>11, <3>1, <3>2, <3>3
  <2>3. ASSUME NEW k \in E!LinkKeys
        PROVE  /\ ad.link[k] \in held.link[k]
               /\ E!Read(k[1])' => gplink[k] \in held.link[k]
               /\ (Collected(k[1]) /\ ~ClassUnread(k[1]))' /\ None \notin held.link[k] => k[1] \in run'.seen
    <3>1. /\ ad.link[k] \in held.link[k]
          /\ E!Read(k[1]) => run.gplink[k] \in held.link[k]
          /\ Collected(k[1]) /\ ~ClassUnread(k[1]) /\ None \notin held.link[k] => k[1] \in run.seen
      BY <2>1 DEF AclInv, AclHeld
    <3>2. k[1] \in E!Objects
      BY AclPlaces DEF E!Objects
    <3>3. E!Read(k[1])' => E!Read(k[1]) \/ k[1] \in found
      BY <1>8 DEF E!Read
    <3>4. Place(k[1]) = run.at /\ None \notin held.link[k] => k[1] \in run'.seen
      BY <1>3, <1>4, <1>8, <3>1, <3>2 DEF AclInv, AclTypes
    <3> QED
      BY <1>5, <1>8, <1>11, <3>1, <3>2, <3>3, <3>4
  <2> QED
    BY <1>1, <1>8, <2>2, <2>3 DEF AclHeld
<1>16. AclSynced'
  <2>1. run'.at # 6 /\ (run'.at >= 4 => run.at = 4)
    BY <1>3, <1>6, <1>8
  <2>2. ASSUME run.at = 4, NEW k \in E!LinkKeys
        PROVE  (E!Read(k[1]) /\ k[2] \in run.seen)' => E!Read(k[1]) /\ k[2] \in run.seen
    <3>1. k[1] \notin found /\ k[2] \notin found
      BY <1>12, <2>2, AclPlaces
    <3> QED
      BY <1>8, <3>1 DEF E!Read
  <2>3. run.at = 4 => \A k \in E!LinkKeys :
          /\ "ou" \in run'.unreadScopes /\ k[1] \in db'.live => tx'.link[k] = db'.link[k]
          /\ (E!Read(k[1]) /\ k[2] \in run.seen)' => E!FlagOf(tx'.link[k]) \in held'.link[k]
          /\ {k[1], k[2]} \subseteq db'.live /\ E!SameGrant(db'.link[k], held'.link[k])
               => tx'.link[k] # None /\ tx'.link[k].since = db'.link[k].since
    BY <1>1, <1>8, <1>9, <2>2 DEF AclInv, AclSynced
  <2> QED
    BY <2>1, <2>3 DEF AclSynced
<1> QED
  BY <1>13, <1>14, <1>15, <1>16 DEF AclInv

LEMMA AclEnumerationFails ==
  ASSUME AclInv, NEW step \in {"ou", "gpo", "zone"}, E!EnumerateFails(step)
  PROVE  AclInv'
<1>1. PICK got \in SUBSET (E!Class \cap ad.exists) :
        /\ tx' = [tx EXCEPT !.known = @ \cup got, !.live = @ \cup got]
        /\ run' = [run EXCEPT !.at = @ + 1,
                              !.seen = @ \cup got,
                              !.unreadScopes = @ \cup {step},
                              !.unreadLinks = IF step = "ou" THEN tx'.live \cap Ous ELSE @]
  BY DEF E!EnumerateFails
<1>2. ad' = ad /\ db' = db /\ runs' = runs /\ held' = held
  BY DEF E!EnumerateFails, E!dirVars
<1>3. run \in AclRuns /\ tx \in E!Rows /\ runs \in Nat
  BY BoundsAssumption DEF AclInv, AclTypes
<1>4. /\ run.at \in {1, 2, 4} /\ run.toRead = {} /\ E!Class \cap run.seen = {}
      /\ step = "ou" <=> run.at = 1
      /\ step = "zone" <=> run.at = 4
      /\ E!Class = E!ClassOf[step] /\ E!Class \subseteq E!Objects
      /\ \A o \in E!Objects : o \in E!Class <=> Place(o) = run.at
      /\ \A o \in E!Class : ~ClassUnread(o)
  BY AclEnumerating DEF E!EnumerateFails
<1>5. got \in SUBSET E!Objects /\ got \subseteq E!Class
  BY <1>1, <1>4
<1>6. /\ tx'.known = tx.known \cup got /\ tx'.live = tx.live \cup got /\ tx'.acl = tx.acl
      /\ tx'.link = tx.link /\ tx' \in E!Rows
  <2>1. tx' = [known |-> tx.known \cup got, live |-> tx.live \cup got, acl |-> tx.acl,
               link |-> tx.link]
    BY <1>1, <1>3 DEF E!Rows
  <2> QED
    BY <1>3, <1>5, <2>1 DEF E!Rows
<1>7. /\ run'.at = run.at + 1 /\ run'.seen = run.seen \cup got /\ run'.toRead = {}
      /\ run'.gplink = run.gplink /\ run'.desired = run.desired /\ run'.unreadable = run.unreadable
      /\ run'.unreadScopes = run.unreadScopes \cup {step}
      /\ run'.unreadLinks = IF step = "ou" THEN tx'.live \cap Ous ELSE run.unreadLinks
  BY <1>1, <1>3, <1>4 DEF AclRuns
<1>8. run' \in AclRuns
  <2>1. run' = AclRun(run'.at, run'.seen, {}, run.gplink, run.desired, run.unreadable,
                      run'.unreadScopes, run'.unreadLinks)
    BY <1>1, <1>3, <1>4 DEF AclRuns, AclRun
  <2>2. /\ run.gplink \in [E!LinkKeys -> Flags \cup {None}]
        /\ run.desired \in [AclKeys -> Flags \cup {None}] /\ run.unreadable \in SUBSET E!Objects
        /\ run.unreadScopes \in SUBSET {"ou", "gpo", "zone"} /\ run.unreadLinks \in SUBSET Ous
        /\ run.seen \in SUBSET E!Objects
    BY <1>3 DEF AclRuns
  <2>3. run'.seen \in SUBSET E!Objects /\ run'.at \in 0..6 /\ {} \in SUBSET E!Objects
    BY <1>4, <1>5, <1>7, <2>2
  <2>4. run'.unreadScopes \in SUBSET {"ou", "gpo", "zone"} /\ run'.unreadLinks \in SUBSET Ous
    BY <1>7, <2>2
  <2> QED
    BY <1>3, <2>1, <2>2, <2>3, <2>4, AclRunTyped
<1>9. \A o \in E!Objects : /\ ClassUnread(o)' <=> ClassUnread(o) \/ o \in E!Class
                           /\ Collected(o) <=> Place(o) < run.at
                           /\ Collected(o)' <=> Place(o) < run.at \/ Place(o) = run.at
                           /\ Place(o)' = Place(o) /\ Place(o) \in {1, 2, 4}
  BY <1>4, <1>7, AclPlaces DEF ClassUnread, Collected, Place
<1>10. \A o \in got : o \in E!Objects /\ o \in E!Class /\ Place(o) = run.at /\ o \notin run.seen
  BY <1>4, <1>5
<1>11. AclTypes'
  BY <1>2, <1>6, <1>8 DEF AclInv, AclTypes, E!EndsKnown
<1>12. \A o \in db.live : o \in tx.live
  <2> SUFFICES ASSUME NEW o \in db.live, o \notin tx.live PROVE FALSE
    OBVIOUS
  <2>1. o \in E!Objects /\ o \in Zones /\ Collected(o)
    BY DEF AclInv, AclTypes, AclProgress, E!Rows
  <2> QED
    BY <1>4, <1>9, <2>1, AclPlaces
<1>13. AclProgress'
  <2>1. run'.at > 0 /\ (run'.at <= 3 => run.at <= 3) /\ (run'.at <= 5 => run.at <= 5)
    BY <1>4, <1>7
  <2>2. /\ run'.seen \subseteq tx'.known /\ run'.toRead \subseteq run'.seen
        /\ run'.unreadable \subseteq run'.seen
    BY <1>6, <1>7 DEF AclInv, AclProgress
  <2>3. \A o \in run'.seen : Place(o)' <= run'.at
    BY <1>4, <1>7, <1>9, <1>10 DEF AclInv, AclProgress, AclTypes, AclRuns
  <2>4. \A o \in E!Objects : ClassUnread(o)' => Place(o)' < run'.at /\ o \notin run'.unreadable
    BY <1>4, <1>7, <1>9 DEF AclInv, AclProgress
  <2>5. \A k \in AclKeys : run'.desired[k] # None =>
           k[1] \in run'.seen \ (run'.toRead \cup run'.unreadable) /\ ~ClassUnread(k[1])'
    BY <1>4, <1>7, <1>9, AclPlaces DEF AclInv, AclProgress
  <2>6. \A k \in E!LinkKeys : run'.gplink[k] # None => k[1] \in run'.seen /\ ~ClassUnread(k[1])'
    <3>1. \A k \in E!LinkKeys : k[1] \in E!Objects
      BY AclPlaces DEF E!Objects
    <3> QED
      BY <1>4, <1>7, <1>9, <3>1 DEF AclInv, AclProgress
  <2>7. IF "ou" \in run'.unreadScopes THEN db'.live \cap Ous \subseteq run'.unreadLinks
                                      ELSE run'.unreadLinks = {}
    <3>1. CASE step = "ou"
      BY <1>2, <1>6, <1>7, <1>12, <3>1
    <3>2. CASE step # "ou"
      BY <1>2, <1>7, <3>2 DEF AclInv, AclProgress
    <3> QED
      BY <3>1, <3>2
  <2> QED
    BY <1>2, <1>6, <1>7, <1>12, <2>1, <2>2, <2>3, <2>4, <2>5, <2>6, <2>7 DEF AclInv, AclProgress
<1>14. AclHeld'
  <2>1. run.at > 0
    BY <1>4
  <2>2. ASSUME NEW k \in AclKeys
        PROVE  /\ ad.acl[k] \in held.acl[k]
               /\ E!AclRead(k[1])' => run.desired[k] \in held.acl[k]
               /\ (Collected(k[1]) /\ ~ClassUnread(k[1]))' /\ None \notin held.acl[k] => k[1] \in run'.seen
    <3>1. /\ k[1] \in E!Objects /\ ad.acl[k] \in held.acl[k]
          /\ E!AclRead(k[1]) => run.desired[k] \in held.acl[k]
          /\ Collected(k[1]) /\ ~ClassUnread(k[1]) /\ None \notin held.acl[k] => k[1] \in run.seen
      BY <1>4, <2>1, AclPlaces DEF AclInv, AclHeld
    <3>2. E!AclRead(k[1])' => E!AclRead(k[1])
      BY <1>4, <1>7, <1>10 DEF E!AclRead, E!Read
    <3> QED
      BY <1>4, <1>7, <1>9, <3>1, <3>2
  <2>3. ASSUME NEW k \in E!LinkKeys
        PROVE  /\ ad.link[k] \in held.link[k]
               /\ E!Read(k[1])' => run.gplink[k] \in held.link[k]
               /\ (Collected(k[1]) /\ ~ClassUnread(k[1]))' /\ None \notin held.link[k] => k[1] \in run'.seen
    <3>1. /\ ad.link[k] \in held.link[k]
          /\ E!Read(k[1]) => run.gplink[k] \in held.link[k]
          /\ Collected(k[1]) /\ ~ClassUnread(k[1]) /\ None \notin held.link[k] => k[1] \in run.seen
      BY <2>1 DEF AclInv, AclHeld
    <3>2. k[1] \in E!Objects
      BY AclPlaces DEF E!Objects
    <3>3. E!Read(k[1])' => E!Read(k[1])
      BY <1>4, <1>7, <1>10 DEF E!Read
    <3> QED
      BY <1>4, <1>7, <1>9, <3>1, <3>2, <3>3
  <2> QED
    BY <1>2, <1>7, <2>2, <2>3 DEF AclHeld
<1>15. AclSynced'
  <2>1. run'.at # 6 /\ (run'.at >= 4 => run.at = 4)
    BY <1>4, <1>7
  <2>2. ASSUME run.at = 4, NEW k \in E!LinkKeys
        PROVE  (E!Read(k[1]) /\ k[2] \in run.seen)' => E!Read(k[1]) /\ k[2] \in run.seen
    <3>1. k[1] \notin got /\ k[2] \notin got
      BY <1>10, <2>2, AclPlaces
    <3> QED
      BY <1>7, <3>1 DEF E!Read
  <2>3. run.at = 4 => step # "ou"
    BY <1>4
  <2>4. run.at = 4 => \A k \in E!LinkKeys :
          /\ "ou" \in run'.unreadScopes /\ k[1] \in db'.live => tx'.link[k] = db'.link[k]
          /\ (E!Read(k[1]) /\ k[2] \in run.seen)' => E!FlagOf(tx'.link[k]) \in held'.link[k]
          /\ {k[1], k[2]} \subseteq db'.live /\ E!SameGrant(db'.link[k], held'.link[k])
               => tx'.link[k] # None /\ tx'.link[k].since = db'.link[k].since
    BY <1>2, <1>6, <1>7, <2>2, <2>3 DEF AclInv, AclSynced
  <2> QED
    BY <2>1, <2>4 DEF AclSynced
<1> QED
  BY <1>11, <1>13, <1>14, <1>15 DEF AclInv

-----------------------------------------------------------------------------
(* ACL and link edges: the descriptors are read.                           *)

\* One descriptor less to read: what it said is wanted, or it is noted as not
\* read.
LEMMA AclReads ==
  ASSUME AclInv, NEW o \in E!Objects, o \in run.toRead,
         NEW desired \in [AclKeys -> Flags \cup {None}], NEW unreadable \in SUBSET E!Objects,
         ad' = ad, db' = db, tx' = tx, runs' = runs, held' = held,
         run' = AclRun(E!AfterReading(o), run.seen, run.toRead \ {o}, run.gplink, desired,
                       unreadable, run.unreadScopes, run.unreadLinks),
         \A k \in AclKeys : k[1] # o => desired[k] = run.desired[k],
         \/ unreadable = run.unreadable /\ \A k \in AclKeys : k[1] = o => desired[k] = ad.acl[k]
         \/ unreadable = run.unreadable \cup {o} /\ desired = run.desired
  PROVE  AclInv'
<1>1. run \in AclRuns /\ tx \in E!Rows /\ runs \in Nat
  BY BoundsAssumption DEF AclInv, AclTypes
<1>2. /\ run.at \in 0..6 /\ run.seen \in SUBSET E!Objects /\ run.toRead \in SUBSET E!Objects
      /\ run.gplink \in [E!LinkKeys -> Flags \cup {None}]
      /\ run.unreadScopes \in SUBSET {"ou", "gpo", "zone"} /\ run.unreadLinks \in SUBSET Ous
  BY <1>1 DEF AclRuns
<1>3. /\ run.toRead \subseteq run.seen /\ run.unreadable \subseteq run.seen
      /\ \A p \in run.toRead : Place(p) = run.at /\ p \notin run.unreadable /\ ~ClassUnread(p)
  BY DEF AclInv, AclProgress
<1>4. run.at \in {1, 2, 4}
  <2>1. Place(o) = run.at
    BY <1>3
  <2> QED
    BY <2>1, AclPlaces
<1>5. /\ E!AfterReading(o) \in {run.at, run.at + 1}
      /\ run.toRead \ {o} # {} => E!AfterReading(o) = run.at
      /\ run.toRead \ {o} = {} => E!AfterReading(o) = run.at + 1
  BY DEF E!AfterReading
<1>6. /\ run'.at = E!AfterReading(o) /\ run'.seen = run.seen /\ run'.toRead = run.toRead \ {o}
      /\ run'.gplink = run.gplink /\ run'.desired = desired /\ run'.unreadable = unreadable
      /\ run'.unreadScopes = run.unreadScopes /\ run'.unreadLinks = run.unreadLinks
  BY DEF AclRun
<1>7. run' \in AclRuns
  <2>1. E!AfterReading(o) \in 0..6 /\ run.toRead \ {o} \in SUBSET E!Objects
    BY <1>2, <1>4, <1>5
  <2> QED
    BY <1>1, <1>2, <2>1, AclRunTyped
<1>8. \A p \in E!Objects : /\ ClassUnread(p)' <=> ClassUnread(p)
                           /\ Collected(p) <=> Place(p) < run.at \/ Place(p) = run.at
                           /\ Collected(p)' <=> Place(p) < run.at \/ Place(p) = run.at
                           /\ Place(p)' = Place(p) /\ Place(p) \in {1, 2, 4}
  <2>1. \A p : (ClassUnread(p)' <=> ClassUnread(p)) /\ Place(p)' = Place(p)
    BY <1>6 DEF ClassUnread, Place
  <2>2. \A p : Collected(p) <=> Place(p) < run.at \/ Place(p) = run.at
    BY DEF Collected
  <2>3. \A p : Collected(p)' <=> Place(p) < run'.at \/ (Place(p) = run'.at /\ run'.toRead # {})
    BY <2>1 DEF Collected
  <2>4. ASSUME NEW p
        PROVE  Place(p) < run'.at \/ (Place(p) = run'.at /\ run'.toRead # {})
                 <=> Place(p) < run.at \/ Place(p) = run.at
    <3>1. Place(p) \in {1, 2, 4}
      BY AclPlaces
    <3>2. CASE run.toRead \ {o} = {}
      <4>1. run'.at = run.at + 1 /\ run'.toRead = {}
        BY <1>5, <1>6, <3>2
      <4>2. \A a, b \in {1, 2, 4} : a < b + 1 <=> a < b \/ a = b
        OBVIOUS
      <4>3. Place(p) < run.at + 1 <=> Place(p) < run.at \/ Place(p) = run.at
        BY <1>4, <3>1, <4>2
      <4> QED
        BY <4>1, <4>3
    <3>3. CASE run.toRead \ {o} # {}
      <4>1. run'.at = run.at /\ run'.toRead # {}
        BY <1>5, <1>6, <3>3
      <4> QED
        BY <4>1
    <3> QED
      BY <3>2, <3>3
  <2> QED
    BY <2>1, <2>2, <2>3, <2>4, AclPlaces
<1>9. AclTypes'
  BY <1>7 DEF AclInv, AclTypes, E!EndsKnown
<1>10. AclProgress'
  <2>1. run'.at > 0 /\ (run'.at <= 3 => run.at <= 3) /\ (run'.at <= 5 => run.at <= 5)
    BY <1>4, <1>5, <1>6
  <2>2. /\ run'.seen \subseteq tx'.known /\ run'.toRead \subseteq run'.seen
        /\ run'.unreadable \subseteq run'.seen
    BY <1>3, <1>6 DEF AclInv, AclProgress
  <2>3. \A p \in run'.seen : Place(p)' <= run'.at
    BY <1>2, <1>4, <1>5, <1>6, <1>8 DEF AclInv, AclProgress
  <2>4. \A p \in run'.toRead : Place(p)' = run'.at /\ p \notin run'.unreadable /\ ~ClassUnread(p)'
    BY <1>2, <1>3, <1>5, <1>6, <1>8
  <2>5. \A p \in E!Objects : ClassUnread(p)' => Place(p)' < run'.at /\ p \notin run'.unreadable
    BY <1>3, <1>4, <1>5, <1>6, <1>8 DEF AclInv, AclProgress
  <2>6. ASSUME NEW k \in AclKeys, run'.desired[k] # None
        PROVE  k[1] \in run'.seen \ (run'.toRead \cup run'.unreadable) /\ ~ClassUnread(k[1])'
    <3>1. run.desired[k] # None => /\ k[1] \in run.seen /\ k[1] \notin run.toRead
                                   /\ k[1] \notin run.unreadable /\ ~ClassUnread(k[1])
      BY DEF AclInv, AclProgress
    <3> QED
      BY <1>3, <1>6, <1>8, <2>6, <3>1, AclPlaces
  <2>7. \A k \in E!LinkKeys : run'.gplink[k] # None => k[1] \in run'.seen /\ ~ClassUnread(k[1])'
    <3>1. \A k \in E!LinkKeys : k[1] \in E!Objects
      BY AclPlaces DEF E!Objects
    <3> QED
      BY <1>6, <1>8, <3>1 DEF AclInv, AclProgress
  <2>8. \A p \in db'.live : p \notin tx'.live => p \in Zones /\ ~ClassUnread(p)' /\ Collected(p)'
    <3>1. \A p \in db.live : p \in E!Objects
      BY DEF AclInv, AclTypes, E!Rows
    <3> QED
      BY <1>8, <3>1 DEF AclInv, AclProgress
  <2>9. IF "ou" \in run'.unreadScopes THEN db'.live \cap Ous \subseteq run'.unreadLinks
                                      ELSE run'.unreadLinks = {}
    BY <1>6 DEF AclInv, AclProgress
  <2>10. (run'.at <= 5 => tx'.acl = db'.acl) /\ (run'.at <= 3 => tx'.link = db'.link)
    BY <2>1 DEF AclInv, AclProgress
  <2>11. run'.at = 0 => run' = E!Idle /\ tx' = db'
    BY <2>1
  <2>12. \A k \in AclKeys : run'.desired[k] # None =>
           k[1] \in run'.seen \ (run'.toRead \cup run'.unreadable) /\ ~ClassUnread(k[1])'
    BY <2>6
  <2> QED
    BY <2>2, <2>3, <2>4, <2>5, <2>7, <2>8, <2>9, <2>10, <2>11, <2>12 DEF AclProgress
<1>11. AclHeld'
  <2>1. run.at > 0
    BY <1>4
  <2>2. ASSUME NEW k \in AclKeys
        PROVE  /\ ad.acl[k] \in held.acl[k]
               /\ (E!AclRead(k[1]) /\ k[1] \notin run.toRead)' => desired[k] \in held.acl[k]
               /\ (Collected(k[1]) /\ ~ClassUnread(k[1]))' /\ None \notin held.acl[k] => k[1] \in run.seen
    <3>1. /\ k[1] \in E!Objects /\ ad.acl[k] \in held.acl[k]
          /\ E!AclRead(k[1]) /\ k[1] \notin run.toRead => run.desired[k] \in held.acl[k]
          /\ Collected(k[1]) /\ ~ClassUnread(k[1]) /\ None \notin held.acl[k] => k[1] \in run.seen
      BY <2>1, AclPlaces DEF AclInv, AclHeld
    <3>2. E!AclRead(k[1])' => E!AclRead(k[1]) /\ k[1] \notin unreadable
      BY <1>6 DEF E!AclRead, E!Read
    <3> QED
      BY <1>6, <1>8, <3>1, <3>2
  <2>3. ASSUME NEW k \in E!LinkKeys
        PROVE  /\ ad.link[k] \in held.link[k]
               /\ E!Read(k[1])' => run.gplink[k] \in held.link[k]
               /\ (Collected(k[1]) /\ ~ClassUnread(k[1]))' /\ None \notin held.link[k] => k[1] \in run.seen
    <3>1. /\ ad.link[k] \in held.link[k]
          /\ E!Read(k[1]) => run.gplink[k] \in held.link[k]
          /\ Collected(k[1]) /\ ~ClassUnread(k[1]) /\ None \notin held.link[k] => k[1] \in run.seen
      BY <2>1 DEF AclInv, AclHeld
    <3>2. k[1] \in E!Objects
      BY AclPlaces DEF E!Objects
    <3>3. E!Read(k[1])' => E!Read(k[1])
      BY <1>6 DEF E!Read
    <3> QED
      BY <1>8, <3>1, <3>2, <3>3
  <2> QED
    BY <1>6, <2>2, <2>3 DEF AclHeld
<1>12. AclSynced'
  <2>1. run'.at # 6 /\ (run'.at >= 4 => run.at = 4)
    BY <1>4, <1>5, <1>6
  <2>2. \A p : E!Read(p)' <=> E!Read(p)
    BY <1>6 DEF E!Read
  <2>3. run.at = 4 => \A k \in E!LinkKeys :
          /\ "ou" \in run'.unreadScopes /\ k[1] \in db'.live => tx'.link[k] = db'.link[k]
          /\ (E!Read(k[1]) /\ k[2] \in run.seen)' => E!FlagOf(tx'.link[k]) \in held'.link[k]
          /\ {k[1], k[2]} \subseteq db'.live /\ E!SameGrant(db'.link[k], held'.link[k])
               => tx'.link[k] # None /\ tx'.link[k].since = db'.link[k].since
    BY <1>6, <2>2 DEF AclInv, AclSynced
  <2> QED
    BY <2>1, <2>3 DEF AclSynced
<1> QED
  BY <1>9, <1>10, <1>11, <1>12 DEF AclInv

LEMMA AclReadsDescriptor ==
  ASSUME AclInv, NEW o \in E!Objects, E!ReadDescriptor(o) \/ E!DescriptorUnreadable(o)
  PROVE  AclInv'
<1>1. o \in run.toRead /\ ad' = ad /\ db' = db /\ tx' = tx /\ runs' = runs /\ held' = held
  BY DEF E!ReadDescriptor, E!DescriptorUnreadable, E!dirVars
<1>2. run \in AclRuns
  BY DEF AclInv, AclTypes
<1>3. run.desired \in [AclKeys -> Flags \cup {None}] /\ run.unreadable \in SUBSET E!Objects
  BY <1>2 DEF AclRuns
<1>4. CASE E!ReadDescriptor(o)
  <2> DEFINE desired == [k \in AclKeys |-> IF k[1] = o THEN ad.acl[k] ELSE run.desired[k]]
  <2>1. run' = [run EXCEPT !.toRead = @ \ {o}, !.at = E!AfterReading(o), !.desired = desired]
    BY <1>4 DEF E!ReadDescriptor
  <2>2. desired \in [AclKeys -> Flags \cup {None}]
    BY <1>3 DEF AclInv, AclTypes
  <2>3. /\ \A k \in AclKeys : k[1] # o => desired[k] = run.desired[k]
        /\ \A k \in AclKeys : k[1] = o => desired[k] = ad.acl[k]
    OBVIOUS
  <2> HIDE DEF desired
  <2>4. run' = AclRun(E!AfterReading(o), run.seen, run.toRead \ {o}, run.gplink, desired,
                      run.unreadable, run.unreadScopes, run.unreadLinks)
    BY <1>2, <2>1 DEF AclRuns, AclRun
  <2> QED
    BY <1>1, <1>3, <2>2, <2>3, <2>4, AclReads
<1>5. CASE E!DescriptorUnreadable(o)
  <2>1. run' = [run EXCEPT !.toRead = @ \ {o}, !.at = E!AfterReading(o), !.unreadable = @ \cup {o}]
    BY <1>5 DEF E!DescriptorUnreadable
  <2>2. run' = AclRun(E!AfterReading(o), run.seen, run.toRead \ {o}, run.gplink, run.desired,
                      run.unreadable \cup {o}, run.unreadScopes, run.unreadLinks)
    BY <1>2, <2>1 DEF AclRuns, AclRun
  <2>3. run.unreadable \cup {o} \in SUBSET E!Objects
    BY <1>3
  <2> QED
    BY <1>1, <1>3, <2>2, <2>3, AclReads
<1> QED
  BY <1>4, <1>5

-----------------------------------------------------------------------------
(* ACL and link edges: the tables are synced.                              *)

\* What comes of the open row e of key k if f is wanted, and e itself where it
\* is carried forward.
CarriedRow(r, e, f, unread, k) ==
  /\ r \in AnyRow \cup {None}
  /\ r # None => r.flag = f \/ (e # None /\ r.flag = e.flag)
  /\ r # None => e # None \/ f # None
  /\ k \in unread /\ f = None => r = e
  /\ k \notin unread => (r = None <=> f = None) /\ (r # None => r.flag = f)
  /\ k \notin unread /\ e # None /\ f # None /\ (e.flag = f \/ e.flag = Unrecorded)
       => r # None /\ r.since = e.since

LEMMA CarriedKey ==
  ASSUME NEW open, NEW desired, NEW unread, NEW n \in Nat, NEW k \in DOMAIN open,
         open[k] \in AnyRow \cup {None}, desired[k] \in Said \cup {None}
  PROVE  /\ CarriedRow(E!SyncEdges(open, E!Carried(open, desired, unread), n)[k],
                       open[k], desired[k], unread, k)
         /\ CarriedRow(M!SyncEdges(open, M!Carried(open, desired, unread), n)[k],
                       open[k], desired[k], unread, k)
<1> DEFINE e == open[k]
           f == desired[k]
           carried == E!Carried(open, desired, unread)
           r == E!SyncEdges(open, carried, n)[k]
           s == M!SyncEdges(open, carried, n)[k]
<1>1. M!Carried(open, desired, unread) = carried
  BY DEF M!Carried, E!Carried
<1>2. carried[k] = IF k \in unread /\ e # None THEN e.flag ELSE f
  BY DEF E!Carried
<1>3. e \in AnyRow \cup {None} /\ f \in Said \cup {None} /\ (e # None => e.flag \in Said \cup {Unrecorded})
  BY DEF AnyRow
<1> DEFINE c == carried[k]
<1>4. c \in Said \cup {Unrecorded, None}
  BY <1>2, <1>3
<1>5. RowFrom(r, e, c, n) /\ RowFrom(s, e, c, n)
  BY <1>3, <1>4, SyncedRow
<1> HIDE DEF r, s, carried, e, f
<1>6. c = IF k \in unread /\ e # None THEN e.flag ELSE f
  BY <1>2
<1> HIDE DEF c
<1>7. e # None => e.flag # None
  BY <1>3, Values
<1>8. ASSUME NEW x, RowFrom(x, e, c, n) PROVE CarriedRow(x, e, f, unread, k)
  <2>1. CASE k \in unread /\ e # None
    BY <1>3, <1>6, <1>7, <1>8, <2>1, Values DEF RowFrom, CarriedRow
  <2>2. CASE ~(k \in unread /\ e # None)
    BY <1>3, <1>6, <1>7, <1>8, <2>2, Values DEF RowFrom, CarriedRow
  <2> QED
    BY <2>1, <2>2
<1>9. CarriedRow(r, e, f, unread, k) /\ CarriedRow(s, e, f, unread, k)
  BY <1>5, <1>8
<1> QED
  BY <1>1, <1>9 DEF r, s, carried, e, f

\* Only the values of a table change when it is synced.
LEMMA AclRowsTyped ==
  ASSUME NEW rows \in E!Rows, NEW acl \in [AclKeys -> E!Edge \cup {None}],
         NEW link \in [E!LinkKeys -> E!Edge \cup {None}]
  PROVE  [known |-> rows.known, live |-> rows.live, acl |-> acl, link |-> link] \in E!Rows
  BY DEF E!Rows

LEMMA AclResolvesLinks ==
  ASSUME AclInv, E!ResolveGpoLinks
  PROVE  AclInv'
<1> DEFINE wanted == [k \in E!LinkKeys |-> IF E!Resolvable(k[2]) THEN run.gplink[k] ELSE None]
           unread == {k \in E!LinkKeys : k[1] \in run.unreadLinks}
           rows == E!SyncEdges(tx.link, E!Carried(tx.link, wanted, unread), runs)
<1>1. /\ ad' = ad /\ db' = db /\ runs' = runs /\ held' = held
      /\ run' = [run EXCEPT !.at = @ + 1]
      /\ tx' = [tx EXCEPT !.link = rows]
  BY DEF E!ResolveGpoLinks, E!dirVars
<1>2. run \in AclRuns /\ tx \in E!Rows /\ db \in E!Rows /\ runs \in Nat
  BY BoundsAssumption DEF AclInv, AclTypes
<1>3. run.at = 3 /\ run.toRead = {}
  <2>1. run.at \in 0..6
    BY <1>2 DEF AclRuns
  <2>2. run.at = 3
    BY <2>1, AclAt DEF E!ResolveGpoLinks
  <2>3. \A o \in run.toRead : Place(o) = 3
    BY <2>2 DEF AclInv, AclProgress
  <2> QED
    BY <2>2, <2>3, AclPlaces
<1>4. /\ tx.link = db.link /\ tx.acl = db.acl /\ tx.link \in [E!LinkKeys -> E!Edge \cup {None}]
      /\ run.gplink \in [E!LinkKeys -> Flags \cup {None}]
  BY <1>2, <1>3 DEF AclInv, AclProgress, E!Rows, AclRuns
<1>5. ASSUME NEW k \in E!LinkKeys
      PROVE  CarriedRow(rows[k], tx.link[k], wanted[k], unread, k)
  <2>1. tx.link[k] \in AnyRow \cup {None}
    BY <1>4 DEF E!Edge, E!EdgesOf, AnyRow, Said
  <2>2. wanted[k] \in Said \cup {None} /\ k \in DOMAIN tx.link
    BY <1>4 DEF Said
  <2> HIDE DEF wanted, unread
  <2> QED
    BY <1>2, <2>1, <2>2, CarriedKey
<1>6. ASSUME NEW k \in E!LinkKeys
      PROVE  /\ wanted[k] # None => run.gplink[k] # None /\ E!Resolvable(k[2])
             /\ wanted[k] = None \/ wanted[k] = run.gplink[k]
             /\ E!Resolvable(k[2]) => wanted[k] = run.gplink[k]
             /\ wanted[k] \in Flags \cup {None}
             /\ k \in unread <=> k[1] \in run.unreadLinks
  BY <1>4
<1>7. DOMAIN rows = E!LinkKeys /\ rows = [k \in E!LinkKeys |-> rows[k]]
  BY <1>4 DEF E!SyncEdges, E!Synced, E!PayloadReconciled
<1> HIDE DEF rows, wanted, unread
<1>8. \A k \in E!LinkKeys : rows[k] \in E!Edge \cup {None}
  BY <1>4, <1>5, <1>6 DEF CarriedRow, AnyRow, E!Edge, E!EdgesOf
<1>9. rows \in [E!LinkKeys -> E!Edge \cup {None}]
  BY <1>7, <1>8
<1>10. ASSUME NEW k \in E!LinkKeys
       PROVE  rows[k] # None => {k[1], k[2]} \subseteq tx.known
  <2>1. tx.link[k] # None => {k[1], k[2]} \subseteq tx.known
    BY DEF AclInv, AclTypes, E!EndsKnown
  <2>2. wanted[k] # None => {k[1], k[2]} \subseteq tx.known
    BY <1>6 DEF AclInv, AclTypes, AclProgress, E!Resolvable
  <2> QED
    BY <1>5, <2>1, <2>2 DEF CarriedRow
<1>11. tx' = [known |-> tx.known, live |-> tx.live, acl |-> tx.acl, link |-> rows]
  BY <1>1, <1>2 DEF E!Rows
<1>12. /\ tx' \in E!Rows /\ tx'.known = tx.known /\ tx'.live = tx.live /\ tx'.acl = tx.acl
       /\ tx'.link = rows
  <2>1. tx.acl \in [AclKeys -> E!Edge \cup {None}]
    BY <1>2 DEF E!Rows
  <2> QED
    BY <1>2, <1>9, <1>11, <2>1, AclRowsTyped
<1>13. /\ run'.at = 4 /\ run'.seen = run.seen /\ run'.toRead = run.toRead /\ run'.gplink = run.gplink
       /\ run'.desired = run.desired /\ run'.unreadable = run.unreadable
       /\ run'.unreadScopes = run.unreadScopes /\ run'.unreadLinks = run.unreadLinks
  BY <1>1, <1>2, <1>3 DEF AclRuns
<1>14. run' \in AclRuns
  <2>1. run' = AclRun(run'.at, run.seen, run.toRead, run.gplink, run.desired, run.unreadable,
                      run.unreadScopes, run.unreadLinks)
    BY <1>1, <1>2 DEF AclRuns, AclRun
  <2>2. /\ run.gplink \in [E!LinkKeys -> Flags \cup {None}] /\ run.seen \in SUBSET E!Objects
        /\ run.desired \in [AclKeys -> Flags \cup {None}] /\ run.unreadable \in SUBSET E!Objects
        /\ run.unreadScopes \in SUBSET {"ou", "gpo", "zone"} /\ run.unreadLinks \in SUBSET Ous
        /\ run.toRead \in SUBSET E!Objects
    BY <1>2 DEF AclRuns
  <2>3. run'.at \in 0..6
    BY <1>13
  <2> QED
    BY <1>2, <2>1, <2>2, <2>3, AclRunTyped
<1>15. \A o : /\ ClassUnread(o)' <=> ClassUnread(o)
              /\ E!Read(o)' <=> E!Read(o)
              /\ E!AclRead(o)' <=> E!AclRead(o)
              /\ Collected(o)' <=> Collected(o)
              /\ Place(o)' = Place(o) /\ Place(o) \in {1, 2, 4}
              /\ Collected(o) <=> Place(o) < 3
  <2>1. \A o : (ClassUnread(o)' <=> ClassUnread(o)) /\ (E!Read(o)' <=> E!Read(o)) /\ Place(o)' = Place(o)
    BY <1>13 DEF ClassUnread, E!Read, Place
  <2>2. \A o : E!AclRead(o)' <=> E!AclRead(o)
    BY <1>13, <2>1 DEF E!AclRead
  <2>3. \A o : Collected(o) <=> Place(o) < 3
    BY <1>3 DEF Collected
  <2>4. \A o : Collected(o)' <=> Place(o) < 4
    BY <1>3, <1>13, <2>1 DEF Collected
  <2> QED
    BY <2>1, <2>2, <2>3, <2>4, AclPlaces
<1>16. AclTypes'
  BY <1>1, <1>10, <1>12, <1>14 DEF AclInv, AclTypes, E!EndsKnown
<1>17. AclProgress'
  <2>1. run'.at = 4 /\ ~(run'.at = 0) /\ ~(run'.at <= 3)
    BY <1>13
  <2>2. /\ run'.seen \subseteq tx'.known /\ run'.toRead \subseteq run'.seen
        /\ run'.unreadable \subseteq run'.seen
    BY <1>12, <1>13 DEF AclInv, AclProgress
  <2>3. \A o \in run'.seen : Place(o)' <= run'.at
    BY <1>3, <1>13, <1>15 DEF AclInv, AclProgress
  <2>4. \A o \in E!Objects : ClassUnread(o)' => Place(o)' < run'.at /\ o \notin run'.unreadable
    BY <1>3, <1>13, <1>15 DEF AclInv, AclProgress
  <2>5. /\ \A k \in AclKeys : run'.desired[k] # None =>
             k[1] \in run'.seen \ (run'.toRead \cup run'.unreadable) /\ ~ClassUnread(k[1])'
        /\ \A k \in E!LinkKeys : run'.gplink[k] # None => k[1] \in run'.seen /\ ~ClassUnread(k[1])'
    BY <1>13, <1>15 DEF AclInv, AclProgress
  <2>6. IF "ou" \in run'.unreadScopes THEN db'.live \cap Ous \subseteq run'.unreadLinks
                                      ELSE run'.unreadLinks = {}
    BY <1>1, <1>13 DEF AclInv, AclProgress
  <2>7. \A o \in db'.live : o \notin tx'.live => o \in Zones /\ ~ClassUnread(o)' /\ Collected(o)'
    BY <1>1, <1>12, <1>15 DEF AclInv, AclProgress
  <2>8. run'.toRead = {} /\ tx'.acl = db'.acl
    BY <1>1, <1>3, <1>4, <1>12, <1>13
  <2> QED
    BY <2>1, <2>2, <2>3, <2>4, <2>5, <2>6, <2>7, <2>8 DEF AclProgress
<1>18. AclHeld'
  BY <1>1, <1>3, <1>13, <1>15 DEF AclInv, AclHeld
<1>19. ASSUME NEW k \in E!LinkKeys
       PROVE  /\ "ou" \in run.unreadScopes /\ k[1] \in db.live => rows[k] = db.link[k]
              /\ E!Read(k[1]) /\ k[2] \in run.seen => E!FlagOf(rows[k]) \in held.link[k]
              /\ {k[1], k[2]} \subseteq db.live /\ E!SameGrant(db.link[k], held.link[k])
                   => rows[k] # None /\ rows[k].since = db.link[k].since
  <2>1. /\ E!Read(k[1]) => run.gplink[k] \in held.link[k]
        /\ Collected(k[1]) /\ ~ClassUnread(k[1]) /\ None \notin held.link[k] => k[1] \in run.seen
    BY <1>3 DEF AclInv, AclHeld
  <2>2. k[1] \in Ous /\ k[2] \in Gpos /\ k[2] \notin Zones /\ Collected(k[1])
    BY <1>15, AclPlaces, KindsAssumption
  <2>3. ClassUnread(k[1]) <=> "ou" \in run.unreadScopes
    <3>1. run.unreadScopes \subseteq {"ou", "gpo", "zone"}
      BY <1>2 DEF AclRuns
    <3> QED
      BY <2>2, <3>1, AclPlaces, KindsAssumption DEF ClassUnread
  <2>4. "ou" \notin run.unreadScopes => k \notin unread
    BY <1>6 DEF AclInv, AclProgress
  <2>5. ASSUME "ou" \in run.unreadScopes, k[1] \in db.live PROVE rows[k] = db.link[k]
    <3>1. k \in unread
      BY <1>6, <2>2, <2>5 DEF AclInv, AclProgress
    <3>2. wanted[k] = None
      BY <1>6, <2>3, <2>5 DEF AclInv, AclProgress
    <3> QED
      BY <1>4, <1>5, <3>1, <3>2 DEF CarriedRow
  <2>6. ASSUME E!Read(k[1]), k[2] \in run.seen PROVE E!FlagOf(rows[k]) \in held.link[k]
    <3>1. k \notin unread
      BY <2>3, <2>4, <2>6 DEF E!Read, ClassUnread
    <3>2. wanted[k] = run.gplink[k] /\ run.gplink[k] \in held.link[k]
      BY <1>6, <2>1, <2>6 DEF E!Resolvable
    <3>3. E!FlagOf(rows[k]) = wanted[k]
      BY <1>5, <3>1 DEF CarriedRow, E!FlagOf
    <3> QED
      BY <3>2, <3>3
  <2>7. ASSUME {k[1], k[2]} \subseteq db.live, E!SameGrant(db.link[k], held.link[k])
        PROVE  rows[k] # None /\ rows[k].since = db.link[k].since
    <3>1. db.link[k] # None /\ db.link[k].flag # None
      BY <2>7, AclFlags DEF E!SameGrant
    <3>2. CASE "ou" \in run.unreadScopes
      BY <2>5, <2>7, <3>1, <3>2
    <3>3. CASE "ou" \notin run.unreadScopes
      <4>1. None \notin held.link[k] /\ (held.link[k] = {db.link[k].flag} \/ db.link[k].flag = Unrecorded)
        BY <2>7, <3>1 DEF E!SameGrant
      <4>2. k[1] \in run.seen /\ E!Read(k[1])
        BY <2>1, <2>2, <2>3, <3>3, <4>1 DEF E!Read, ClassUnread
      <4>3. k[2] \in tx.live
        BY <2>2, <2>7 DEF AclInv, AclProgress
      <4>4. wanted[k] = run.gplink[k] /\ run.gplink[k] \in held.link[k]
        BY <1>6, <2>1, <4>2, <4>3 DEF E!Resolvable
      <4>5. wanted[k] # None /\ (tx.link[k].flag = wanted[k] \/ tx.link[k].flag = Unrecorded)
        BY <1>4, <4>1, <4>4
      <4> QED
        BY <1>4, <1>5, <2>4, <3>1, <3>3, <4>5 DEF CarriedRow
    <3> QED
      BY <3>2, <3>3
  <2> QED
    BY <2>5, <2>6, <2>7
<1>20. AclSynced'
  <2>1. run'.at # 6
    BY <1>13
  <2> QED
    BY <1>1, <1>12, <1>13, <1>15, <1>19, <2>1 DEF AclSynced
<1> QED
  BY <1>16, <1>17, <1>18, <1>20 DEF AclInv

LEMMA AclSyncs ==
  ASSUME AclInv, E!SyncAcl
  PROVE  AclInv'
<1> DEFINE unread == {k \in AclKeys : k[1] \in run.unreadable \cup E!ScopeUnread}
           rows == E!SyncEdges(tx.acl, E!Carried(tx.acl, run.desired, unread), runs)
<1>1. /\ ad' = ad /\ db' = db /\ runs' = runs /\ held' = held
      /\ run' = [run EXCEPT !.at = @ + 1]
      /\ tx' = [tx EXCEPT !.acl = rows]
  BY DEF E!SyncAcl, E!dirVars
<1>2. run \in AclRuns /\ tx \in E!Rows /\ db \in E!Rows /\ runs \in Nat
  BY BoundsAssumption DEF AclInv, AclTypes
<1>3. run.at = 5 /\ run.toRead = {}
  <2>1. run.at \in 0..6
    BY <1>2 DEF AclRuns
  <2>2. run.at = 5
    BY <2>1, AclAt DEF E!SyncAcl
  <2>3. \A o \in run.toRead : Place(o) = 5
    BY <2>2 DEF AclInv, AclProgress
  <2> QED
    BY <2>2, <2>3, AclPlaces
<1>4. /\ tx.acl = db.acl /\ tx.acl \in [AclKeys -> E!Edge \cup {None}]
      /\ run.desired \in [AclKeys -> Flags \cup {None}]
  BY <1>2, <1>3 DEF AclInv, AclProgress, E!Rows, AclRuns
<1>5. ASSUME NEW k \in AclKeys
      PROVE  CarriedRow(rows[k], tx.acl[k], run.desired[k], unread, k)
  <2>1. tx.acl[k] \in AnyRow \cup {None}
    BY <1>4 DEF E!Edge, E!EdgesOf, AnyRow, Said
  <2>2. run.desired[k] \in Said \cup {None} /\ k \in DOMAIN tx.acl
    BY <1>4 DEF Said
  <2> HIDE DEF unread
  <2> QED
    BY <1>2, <2>1, <2>2, CarriedKey
\* What another collection has read is never of a class that was not read.
<1>6. ASSUME NEW k \in AclKeys
      PROVE  k \in unread <=> k[1] \in run.unreadable \/ (k[1] \in tx.live /\ ClassUnread(k[1]))
  <2>1. ClassUnread(k[1]) => \A j \in AclKeys : j[1] = k[1] => run.desired[j] = None
    BY DEF AclInv, AclProgress
  <2>2. k[1] \in E!ScopeUnread \/ k[1] \in run.unreadable
          <=> k[1] \in run.unreadable \/ (k[1] \in tx.live /\ ClassUnread(k[1]))
    BY <2>1 DEF E!ScopeUnread, ClassUnread
  <2> QED
    BY <2>2
<1>7. DOMAIN rows = AclKeys /\ rows = [k \in AclKeys |-> rows[k]]
  BY <1>4 DEF E!SyncEdges, E!Synced, E!PayloadReconciled
<1> HIDE DEF rows, unread
<1>8. \A k \in AclKeys : rows[k] \in E!Edge \cup {None}
  BY <1>4, <1>5 DEF CarriedRow, AnyRow, E!Edge, E!EdgesOf
<1>9. rows \in [AclKeys -> E!Edge \cup {None}]
  BY <1>7, <1>8
<1>10. ASSUME NEW k \in AclKeys
       PROVE  rows[k] # None => k[1] \in tx.known
  <2>1. tx.acl[k] # None => k[1] \in tx.known
    BY DEF AclInv, AclTypes, E!EndsKnown
  <2>2. run.desired[k] # None => k[1] \in tx.known
    BY DEF AclInv, AclProgress
  <2> QED
    BY <1>5, <2>1, <2>2 DEF CarriedRow
<1>11. tx' = [known |-> tx.known, live |-> tx.live, acl |-> rows, link |-> tx.link]
  BY <1>1, <1>2 DEF E!Rows
<1>12. /\ tx' \in E!Rows /\ tx'.known = tx.known /\ tx'.live = tx.live /\ tx'.acl = rows
       /\ tx'.link = tx.link
  <2>1. tx.link \in [E!LinkKeys -> E!Edge \cup {None}]
    BY <1>2 DEF E!Rows
  <2> QED
    BY <1>2, <1>9, <1>11, <2>1, AclRowsTyped
<1>13. /\ run'.at = 6 /\ run'.seen = run.seen /\ run'.toRead = run.toRead /\ run'.gplink = run.gplink
       /\ run'.desired = run.desired /\ run'.unreadable = run.unreadable
       /\ run'.unreadScopes = run.unreadScopes /\ run'.unreadLinks = run.unreadLinks
  BY <1>1, <1>2, <1>3 DEF AclRuns
<1>14. run' \in AclRuns
  <2>1. run' = AclRun(run'.at, run.seen, run.toRead, run.gplink, run.desired, run.unreadable,
                      run.unreadScopes, run.unreadLinks)
    BY <1>1, <1>2 DEF AclRuns, AclRun
  <2>2. /\ run.gplink \in [E!LinkKeys -> Flags \cup {None}] /\ run.seen \in SUBSET E!Objects
        /\ run.desired \in [AclKeys -> Flags \cup {None}] /\ run.unreadable \in SUBSET E!Objects
        /\ run.unreadScopes \in SUBSET {"ou", "gpo", "zone"} /\ run.unreadLinks \in SUBSET Ous
        /\ run.toRead \in SUBSET E!Objects
    BY <1>2 DEF AclRuns
  <2>3. run'.at \in 0..6
    BY <1>13
  <2> QED
    BY <1>2, <2>1, <2>2, <2>3, AclRunTyped
<1>15. \A o : /\ ClassUnread(o)' <=> ClassUnread(o)
              /\ E!Read(o)' <=> E!Read(o)
              /\ E!AclRead(o)' <=> E!AclRead(o)
              /\ Collected(o)' /\ Collected(o)
              /\ Place(o)' = Place(o) /\ Place(o) \in {1, 2, 4}
  <2>1. \A o : (ClassUnread(o)' <=> ClassUnread(o)) /\ (E!Read(o)' <=> E!Read(o)) /\ Place(o)' = Place(o)
    BY <1>13 DEF ClassUnread, E!Read, Place
  <2>2. \A o : E!AclRead(o)' <=> E!AclRead(o)
    BY <1>13, <2>1 DEF E!AclRead
  <2>3. \A o : Place(o) < 5 /\ Place(o) < 6
    BY AclPlaces
  <2>4. \A o : Collected(o) /\ Collected(o)'
    BY <1>3, <1>13, <2>1, <2>3 DEF Collected
  <2> QED
    BY <2>1, <2>2, <2>4, AclPlaces
<1>16. AclTypes'
  BY <1>1, <1>10, <1>12, <1>14 DEF AclInv, AclTypes, E!EndsKnown
<1>17. AclProgress'
  <2>1. run'.at = 6 /\ ~(run'.at = 0) /\ ~(run'.at <= 3) /\ ~(run'.at <= 5)
    BY <1>13
  <2>2. /\ run'.seen \subseteq tx'.known /\ run'.toRead \subseteq run'.seen
        /\ run'.unreadable \subseteq run'.seen
    BY <1>12, <1>13 DEF AclInv, AclProgress
  <2>3. \A o \in run'.seen : Place(o)' <= run'.at
    BY <1>13, <1>15
  <2>4. \A o \in E!Objects : ClassUnread(o)' => Place(o)' < run'.at /\ o \notin run'.unreadable
    BY <1>3, <1>13, <1>15 DEF AclInv, AclProgress
  <2>5. /\ \A k \in AclKeys : run'.desired[k] # None =>
             k[1] \in run'.seen \ (run'.toRead \cup run'.unreadable) /\ ~ClassUnread(k[1])'
        /\ \A k \in E!LinkKeys : run'.gplink[k] # None => k[1] \in run'.seen /\ ~ClassUnread(k[1])'
    BY <1>13, <1>15 DEF AclInv, AclProgress
  <2>6. IF "ou" \in run'.unreadScopes THEN db'.live \cap Ous \subseteq run'.unreadLinks
                                      ELSE run'.unreadLinks = {}
    BY <1>1, <1>13 DEF AclInv, AclProgress
  <2>7. \A o \in db'.live : o \notin tx'.live => o \in Zones /\ ~ClassUnread(o)' /\ Collected(o)'
    BY <1>1, <1>12, <1>15 DEF AclInv, AclProgress
  <2>8. run'.toRead = {}
    BY <1>3, <1>13
  <2> QED
    BY <2>1, <2>2, <2>3, <2>4, <2>5, <2>6, <2>7, <2>8 DEF AclProgress
<1>18. AclHeld'
  BY <1>1, <1>3, <1>13, <1>15 DEF AclInv, AclHeld
<1>19. ASSUME NEW k \in AclKeys
       PROVE  /\ k[1] \in run.unreadable \/ (ClassUnread(k[1]) /\ k[1] \in db.live)
                   => rows[k] = db.acl[k]
              /\ E!AclRead(k[1]) => E!FlagOf(rows[k]) \in held.acl[k]
              /\ k[1] \in db.live /\ E!SameGrant(db.acl[k], held.acl[k])
                   => rows[k] # None /\ rows[k].since = db.acl[k].since
  <2>1. /\ E!AclRead(k[1]) => run.desired[k] \in held.acl[k]
        /\ ~ClassUnread(k[1]) /\ None \notin held.acl[k] => k[1] \in run.seen
    BY <1>3, <1>15 DEF AclInv, AclHeld
  <2>2. ASSUME k[1] \in run.unreadable \/ (ClassUnread(k[1]) /\ k[1] \in db.live)
        PROVE  rows[k] = db.acl[k]
    <3>1. k \in unread
      BY <1>6, <2>2 DEF AclInv, AclProgress
    <3>2. run.desired[k] = None
      BY <2>2 DEF AclInv, AclProgress
    <3> QED
      BY <1>4, <1>5, <3>1, <3>2 DEF CarriedRow
  <2>3. E!AclRead(k[1]) <=> k[1] \in run.seen /\ ~ClassUnread(k[1]) /\ k[1] \notin run.unreadable
    BY DEF E!AclRead, E!Read, ClassUnread
  <2>4. ASSUME E!AclRead(k[1]) PROVE E!FlagOf(rows[k]) = run.desired[k]
    BY <1>5, <1>6, <2>3, <2>4 DEF CarriedRow, E!FlagOf
  <2>5. ASSUME k[1] \in db.live, E!SameGrant(db.acl[k], held.acl[k])
        PROVE  rows[k] # None /\ rows[k].since = db.acl[k].since
    <3>1. db.acl[k] # None /\ db.acl[k].flag # None
      BY <2>5, AclFlags DEF E!SameGrant
    <3>2. CASE k[1] \in run.unreadable \/ ClassUnread(k[1])
      BY <2>2, <2>5, <3>1, <3>2
    <3>3. CASE ~(k[1] \in run.unreadable \/ ClassUnread(k[1]))
      <4>1. None \notin held.acl[k] /\ (held.acl[k] = {db.acl[k].flag} \/ db.acl[k].flag = Unrecorded)
        BY <2>5, <3>1 DEF E!SameGrant
      <4>2. E!AclRead(k[1]) /\ run.desired[k] \in held.acl[k]
        BY <2>1, <2>3, <3>3, <4>1
      <4>3. run.desired[k] # None /\ (tx.acl[k].flag = run.desired[k] \/ tx.acl[k].flag = Unrecorded)
        BY <1>4, <4>1, <4>2
      <4> QED
        BY <1>4, <1>5, <1>6, <3>1, <3>3, <4>3 DEF CarriedRow
    <3> QED
      BY <3>2, <3>3
  <2> QED
    BY <2>1, <2>2, <2>4, <2>5
<1>20. AclSynced'
  BY <1>1, <1>3, <1>12, <1>13, <1>15, <1>19 DEF AclInv, AclSynced
<1> QED
  BY <1>16, <1>17, <1>18, <1>20 DEF AclInv

-----------------------------------------------------------------------------
(* ACL and link edges: what follows.                                       *)

LEMMA AclCommitted ==
  ASSUME AclInv, E!Commit
  PROVE  /\ run.at = 6 /\ db'.acl = tx.acl /\ db'.link = tx.link
         /\ db' \in E!Rows /\ E!EndsKnown(db') /\ db'.live \subseteq db'.known
<1> DEFINE live == tx.live \ ((Ous \cup Gpos) \ (ad.exists \cup run.seen))
<1>1. run.at \in 0..6 /\ tx \in E!Rows /\ E!EndsKnown(tx) /\ tx.live \subseteq tx.known
  BY DEF AclInv, AclTypes, AclRuns
<1>2. db' = [tx EXCEPT !.live = live]
  BY DEF E!Commit
<1>3. live \subseteq tx.live
  OBVIOUS
<1> HIDE DEF live
<1>4. db' = [known |-> tx.known, live |-> live, acl |-> tx.acl, link |-> tx.link]
  BY <1>1, <1>2 DEF E!Rows
<1>5. db' \in E!Rows
  BY <1>1, <1>3, <1>4 DEF E!Rows
<1>6. run.at = 6
  BY <1>1, AclAt DEF E!Commit
<1> QED
  BY <1>1, <1>3, <1>4, <1>5, <1>6 DEF E!EndsKnown

LEMMA AclNext ==
  ASSUME AclInv, E!Next
  PROVE  AclInv'
<1>1. ASSUME E!Commit PROVE AclInv'
  <2>1. db' \in E!Rows /\ E!EndsKnown(db') /\ db'.live \subseteq db'.known
    BY <1>1, AclCommitted
  <2>2. ad' = ad /\ tx' = db' /\ runs' = runs /\ run' = E!Idle /\ held' = E!NoneHeld
    BY <1>1 DEF E!Commit, E!dirVars
  <2> QED
    BY <2>1, <2>2, AclEnds
<1>2. ASSUME E!RollBack PROVE AclInv'
  <2>1. db \in E!Rows /\ E!EndsKnown(db) /\ db.live \subseteq db.known
    BY DEF AclInv, AclTypes
  <2>2. /\ ad' = ad /\ db' = db /\ tx' = db /\ runs' = runs /\ run' = E!Idle
        /\ held' = E!NoneHeld
    BY <1>2 DEF E!RollBack, E!dirVars
  <2> QED
    BY <2>1, <2>2, AclEnds
<1>3. CASE E!Directory
  BY <1>3, AclDirectory
<1>4. CASE E!Collect
  <2>1. CASE \E step \in {"ou", "gpo", "zone"} : E!Enumerate(step) \/ E!EnumerateFails(step)
    BY <2>1, AclEnumerates, AclEnumerationFails
  <2>2. CASE \E o \in E!Objects : E!ReadDescriptor(o) \/ E!DescriptorUnreadable(o)
    BY <2>2, AclReadsDescriptor
  <2> QED
    BY <1>1, <1>2, <1>4, <2>1, <2>2, AclStarts, AclResolvesLinks, AclSyncs DEF E!Collect
<1> QED
  BY <1>3, <1>4 DEF E!Next

LEMMA AclKeepsTypes == AclInv => E!TypeOK
<1> SUFFICES ASSUME AclInv PROVE E!TypeOK
  OBVIOUS
<1>1. run \in AclRuns
  BY DEF AclInv, AclTypes
<1>2. run.at \in 0..6 /\ run.seen \subseteq E!Objects /\ run.desired \in [AclKeys -> Flags \cup {None}]
  BY <1>1 DEF AclRuns
<1>3. Len(E!Order) = 6
  BY DEF E!Order
<1>4. /\ ad.exists \subseteq E!Objects /\ ad.acl \in [AclKeys -> Flags \cup {None}]
      /\ ad.link \in [E!LinkKeys -> Flags \cup {None}]
  BY DEF AclInv, AclTypes
<1> QED
  BY <1>2, <1>3, <1>4 DEF AclInv, AclTypes, AclProgress, E!TypeOK

\* What a commit leaves is what the transaction had.
LEMMA AclCommits ==
  ASSUME AclInv, E!Commit
  PROVE  E!UnreadKept /\ E!Mirrored /\ E!NotFalselyNew
<1>1. run.at = 6 /\ db'.acl = tx.acl /\ db'.link = tx.link
  BY AclCommitted
<1>2. \A k \in AclKeys :
       /\ k[1] \in run.unreadable \/ (ClassUnread(k[1]) /\ k[1] \in db.live)
            => tx.acl[k] = db.acl[k]
       /\ E!AclRead(k[1]) => E!FlagOf(tx.acl[k]) \in held.acl[k]
       /\ k[1] \in db.live /\ E!SameGrant(db.acl[k], held.acl[k])
            => tx.acl[k] # None /\ tx.acl[k].since = db.acl[k].since
  BY <1>1 DEF AclInv, AclSynced
<1>3. \A k \in E!LinkKeys :
       /\ "ou" \in run.unreadScopes /\ k[1] \in db.live => tx.link[k] = db.link[k]
       /\ E!Read(k[1]) /\ k[2] \in run.seen => E!FlagOf(tx.link[k]) \in held.link[k]
       /\ {k[1], k[2]} \subseteq db.live /\ E!SameGrant(db.link[k], held.link[k])
            => tx.link[k] # None /\ tx.link[k].since = db.link[k].since
  BY <1>1 DEF AclInv, AclSynced
<1>4. E!UnreadKept
  BY <1>1, <1>2, <1>3 DEF E!UnreadKept, ClassUnread
<1>5. E!Mirrored
  BY <1>1, <1>2, <1>3 DEF E!Mirrored
<1>6. E!NotFalselyNew
  BY <1>1, <1>2, <1>3 DEF E!NotFalselyNew, E!Kept
<1> QED
  BY <1>4, <1>5, <1>6

-----------------------------------------------------------------------------
(* Memberships: names, and steps of the directory.                         *)

LEMMA MemberConstants ==
  /\ None \notin M!Members /\ None \notin M!Dns /\ None \notin Names /\ None \notin Groups
  /\ \A m \in Accounts : m \in M!Members /\ m \notin Foreign
  /\ \A m \in Foreign : m \in M!Members /\ m \notin Accounts /\ m \in M!Dns /\ m \notin Names
  /\ \A n \in Names : n \in M!Dns /\ n \notin Foreign
  /\ \A k \in M!MemberKeys : k[1] \in Groups /\ k[2] \in M!Members /\ k = <<k[1], k[2]>>
  /\ \A k \in M!PolicyKeys : k[1] \in Rodcs /\ k[2] \in M!Members
  BY ValuesAssumption, KindsAssumption DEF M!Members, M!Dns, M!MemberKeys, M!PolicyKeys

LEMMA MemberNames ==
  ASSUME NEW d
  PROVE  /\ \A m \in Accounts : M!DnOf(d, m) = d.name[m] /\ (M!Exists(d, m) <=> d.name[m] # None)
         /\ \A m \in Foreign : M!DnOf(d, m) = m /\ M!Exists(d, m)
         /\ \A k : M!Membership(d, k) \in {"direct", "primary", None}
         /\ \A k : M!Revealed(d, k) \in {"direct", None}
  BY MemberConstants DEF M!DnOf, M!Exists, M!Membership, M!Revealed, M!Members

LEMMA MemberAt ==
  ASSUME run.at \in 0..7
  PROVE  /\ M!At("accounts") <=> run.at = 1
         /\ M!At("foreign") <=> run.at = 2
         /\ M!At("groups") <=> run.at = 3
         /\ M!At("members") <=> run.at = 4
         /\ M!At("rodcs") <=> run.at = 5
         /\ M!At("policies") <=> run.at = 6
         /\ M!At("commit") <=> run.at = 7
  BY DEF M!At, M!Order

\* The values held of a run.
MemberValues ==
  [member : [M!MemberKeys -> SUBSET {"direct", "primary", None}],
   policy : [M!PolicyKeys -> SUBSET {"direct", None}], unsteady : SUBSET Accounts]

LEMMA MemberIdle ==
  /\ M!Idle \in MemberRuns /\ M!Idle.at = 0 /\ M!NoneHeld \in MemberValues
  /\ M!Idle.unreadable = {} /\ M!Idle.toRead = {}
  /\ \A n \in M!Dns : M!Idle.dn[n] = None
  /\ \A m \in Accounts : M!Idle.primary[m] = None
  /\ \A k \in M!PolicyKeys : M!Idle.policy[k] = None
  BY DEF M!Idle, MemberRuns, M!NoneHeld, MemberValues

\* Between runs.
LEMMA MemberEnds ==
  ASSUME BoundsAssumption, DirectoryOK(ad'), db' \in M!MemberRows, DnsOwn(db'.dn), ForeignKnown(db'),
         tx' = db', runs' \in 0..MaxRuns, run' = M!Idle, held' = M!NoneHeld
  PROVE  MemberInv'
<1>1. MemberTypes'
  BY MemberIdle DEF MemberTypes, MemberValues, DirectoryOK, DnsOwn, ForeignKnown
<1>2. MemberProgress'
  BY MemberIdle, MemberConstants DEF MemberProgress
<1>3. AccountsKnown' /\ MemberHeld' /\ MemberSynced'
  BY MemberIdle DEF AccountsKnown, MemberHeld, MemberSynced
<1> QED
  BY <1>1, <1>2, <1>3 DEF MemberInv

LEMMA MemberInit == BoundsAssumption /\ M!Init => MemberInv
<1> SUFFICES ASSUME BoundsAssumption, M!Init PROVE MemberInv
  OBVIOUS
<1>1. DirectoryOK(ad)
  <2>1. PICK g \in Groups :
          \E names \in [Accounts -> Names \cup {None}], listed \in SUBSET M!Members :
            /\ \A m, n \in Accounts : names[m] = names[n] /\ names[m] # None => m = n
            /\ ad = [name |-> names,
                     primary |-> [m \in Accounts |-> g],
                     member |-> [h \in Groups |-> IF h = g THEN {}
                                                  ELSE {m \in listed : m \in Foreign \/ names[m] # None}],
                     policy |-> [r \in Rodcs |-> {m \in listed : m \in Foreign \/ names[m] # None}]]
    BY DEF M!Init
  <2>2. PICK names \in [Accounts -> Names \cup {None}], listed \in SUBSET M!Members :
            /\ \A m, n \in Accounts : names[m] = names[n] /\ names[m] # None => m = n
            /\ ad = [name |-> names,
                     primary |-> [m \in Accounts |-> g],
                     member |-> [h \in Groups |-> IF h = g THEN {}
                                                  ELSE {m \in listed : m \in Foreign \/ names[m] # None}],
                     policy |-> [r \in Rodcs |-> {m \in listed : m \in Foreign \/ names[m] # None}]]
    BY <2>1
  <2>3. /\ ad.name = names /\ \A m \in Accounts : ad.primary[m] = g
        /\ \A m \in Accounts, h \in Groups : m \in ad.member[h] => names[m] # None /\ h # g
        /\ \A m \in Accounts, r \in Rodcs : m \in ad.policy[r] => names[m] # None
    BY <2>2, MemberConstants
  <2>4. ad \in [name : [Accounts -> Names \cup {None}], primary : [Accounts -> Groups],
                member : [Groups -> SUBSET M!Members], policy : [Rodcs -> SUBSET M!Members]]
    BY <2>2
  <2> QED
    BY <2>2, <2>3, <2>4 DEF DirectoryOK
<1>2. db = M!Empty /\ tx = db /\ runs = 0 /\ run = M!Idle /\ held = M!NoneHeld
  BY DEF M!Init
<1>3. M!Empty \in M!MemberRows /\ DnsOwn(M!Empty.dn) /\ ForeignKnown(M!Empty)
  BY MemberConstants DEF M!Empty, M!MemberRows, DnsOwn, ForeignKnown
<1>4. runs \in 0..MaxRuns
  BY <1>2, BoundsAssumption
<1>5. MemberTypes
  BY <1>1, <1>2, <1>3, <1>4, MemberIdle DEF MemberTypes, MemberValues
<1>6. MemberProgress
  BY <1>2, MemberIdle, MemberConstants DEF MemberProgress
<1>7. AccountsKnown /\ MemberHeld /\ MemberSynced
  BY <1>2, MemberIdle DEF AccountsKnown, MemberHeld, MemberSynced
<1> QED
  BY <1>5, <1>6, <1>7 DEF MemberInv

LEMMA MemberGrows ==
  ASSUME NEW e, NEW old, NEW new, old \subseteq new, old # {}, M!SameGrant(e, new), e.flag # None
  PROVE  M!SameGrant(e, old)
  BY DEF M!SameGrant

LEMMA MemberFlags ==
  ASSUME MemberInv
  PROVE  /\ \A k \in M!MemberKeys : db.member[k] # None => db.member[k].flag # None /\ db.member[k].flag # Unrecorded
         /\ \A k \in M!PolicyKeys : db.policy[k] # None => db.policy[k].flag # None /\ db.policy[k].flag # Unrecorded
  BY Values DEF MemberInv, MemberTypes, M!MemberRows, M!EdgesOf, Said

LEMMA MemberChange ==
  ASSUME MemberInv, NEW d, DirectoryOK(d), NEW unsteady \in SUBSET Accounts,
         \A m \in Accounts \ unsteady : d.name[m] = ad.name[m] /\ d.primary[m] = ad.primary[m],
         \A m \in Accounts \ unsteady, n \in Names, o \in Accounts :
           tx.dn[m] = n => d.name[o] # n \/ d.name[o] = ad.name[o],
         M!Change(d, unsteady)
  PROVE  MemberInv'
<1>1. /\ ad' = d /\ db' = db /\ tx' = tx /\ runs' = runs /\ run' = run
      /\ run.at = 0 => held' = held
      /\ run.at # 0 => held' =
            [member |-> [k \in M!MemberKeys |-> held.member[k] \cup {M!Membership(d, k)}],
             policy |-> [k \in M!PolicyKeys |-> held.policy[k] \cup {M!Revealed(d, k)}],
             unsteady |-> held.unsteady \cup (IF run.at > 1 THEN unsteady ELSE {})]
  BY DEF M!Change
<1>2. held \in MemberValues
  BY DEF MemberInv, MemberTypes, MemberValues
<1>3. held' \in MemberValues
  BY <1>1, <1>2, MemberNames DEF MemberValues
<1>4. /\ \A k \in M!MemberKeys : held.member[k] \subseteq held'.member[k]
      /\ \A k \in M!PolicyKeys : held.policy[k] \subseteq held'.policy[k]
      /\ held.unsteady \subseteq held'.unsteady
      /\ run.at > 1 => unsteady \subseteq held'.unsteady
      /\ run.at # 0 => /\ \A k \in M!MemberKeys : M!Membership(d, k) \in held'.member[k]
                       /\ \A k \in M!PolicyKeys : M!Revealed(d, k) \in held'.policy[k]
  <2>1. CASE run.at = 0
    BY <1>1, <2>1
  <2>2. CASE run.at # 0
    BY <1>1, <2>2
  <2> QED
    BY <2>1, <2>2
<1>5. MemberTypes'
  BY <1>1, <1>3 DEF MemberInv, MemberTypes, MemberValues, DirectoryOK, DnsOwn, ForeignKnown
<1>6. MemberProgress'
  BY <1>1 DEF MemberInv, MemberProgress, M!Idle
<1>7. \A m : /\ M!Steady(m)' => M!Steady(m)
             /\ M!Seen(m)' <=> M!Seen(m)
             /\ Findable(m)' <=> Findable(m)
  BY <1>1, <1>4 DEF M!Steady, M!Seen, Findable
<1>8. \A k : Lists(k)' <=> Lists(k)
  BY <1>1 DEF Lists, M!Resolved
<1>9. AccountsKnown'
  <2> SUFFICES ASSUME run.at > 1 PROVE AccountsKnown'
    BY <1>1 DEF AccountsKnown
  <2>1. ASSUME NEW m \in Accounts, M!Steady(m)'
        PROVE  /\ \A n \in Names : run.dn[n] = m => d.name[m] = n
               /\ d.name[m] # None => run.dn[d.name[m]] = m /\ run.primary[m] = d.primary[m]
               /\ \A n \in Names, o \in Accounts :
                    tx.dn[m] = n /\ run.dn[n] = None => d.name[o] # n
    <3>1. M!Steady(m) /\ m \in Accounts \ unsteady
      BY <1>4, <1>7, <2>1 DEF M!Steady
    <3> QED
      BY <3>1 DEF MemberInv, AccountsKnown
  <2>2. \A m \in Accounts :
         run.primary[m] # None => "primary" \in held'.member[<<run.primary[m], m>>]
    <3>1. \A m \in Accounts : run.primary[m] # None => <<run.primary[m], m>> \in M!MemberKeys
      <4>1. run.primary \in [Accounts -> Groups \cup {None}]
        BY DEF MemberInv, MemberTypes, MemberRuns
      <4> QED
        BY <4>1, MemberConstants DEF M!MemberKeys
    <3> QED
      BY <1>4, <3>1 DEF MemberInv, AccountsKnown
  <2> QED
    BY <1>1, <2>1, <2>2 DEF AccountsKnown
<1>10. MemberHeld'
  BY <1>1, <1>4, <1>7, <1>8 DEF MemberInv, MemberHeld
<1>11. MemberSynced'
  <2>1. run.at \in 0..7
    BY DEF MemberInv, MemberTypes, MemberRuns
  <2>2. ASSUME run.at > 0, NEW k \in M!MemberKeys, M!SameGrant(db.member[k], held'.member[k])
        PROVE  M!SameGrant(db.member[k], held.member[k])
    <3>1. db.member[k] # None /\ held.member[k] # {}
      BY <2>2 DEF MemberInv, MemberHeld, M!SameGrant
    <3> QED
      BY <1>4, <2>2, <3>1, MemberFlags, MemberGrows
  <2>3. ASSUME run.at > 0, NEW k \in M!PolicyKeys, M!SameGrant(db.policy[k], held'.policy[k])
        PROVE  M!SameGrant(db.policy[k], held.policy[k])
    <3>1. db.policy[k] # None /\ held.policy[k] # {}
      BY <2>3 DEF MemberInv, MemberHeld, M!SameGrant
    <3> QED
      BY <1>4, <2>3, <3>1, MemberFlags, MemberGrows
  <2> QED
    BY <1>1, <1>4, <1>7, <2>1, <2>2, <2>3 DEF MemberInv, MemberSynced, M!FlagOf
<1> QED
  BY <1>5, <1>6, <1>9, <1>10, <1>11 DEF MemberInv

MemberDirectories ==
  [name : [Accounts -> Names \cup {None}], primary : [Accounts -> Groups],
   member : [Groups -> SUBSET M!Members], policy : [Rodcs -> SUBSET M!Members]]

\* The directory from its four parts, for the sake of its type.
DirectoryOf(name, primary, member, policy) ==
  [name |-> name, primary |-> primary, member |-> member, policy |-> policy]

LEMMA DirectoryTyped ==
  ASSUME NEW name \in [Accounts -> Names \cup {None}], NEW primary \in [Accounts -> Groups],
         NEW member \in [Groups -> SUBSET M!Members], NEW policy \in [Rodcs -> SUBSET M!Members]
  PROVE  DirectoryOf(name, primary, member, policy) \in MemberDirectories
  BY DEF DirectoryOf, MemberDirectories

LEMMA MemberTaken ==
  ASSUME MemberInv, NEW m \in Accounts, NEW n \in Names, M!Free(n),
         M!CreateAccount(m, n) \/ M!Rename(m, n)
  PROVE  MemberInv'
<1>1. DirectoryOK(ad) /\ ad \in MemberDirectories
  BY DEF MemberInv, MemberTypes, DirectoryOK, MemberDirectories
<1>2. \A o \in Accounts : ad.name[o] # n
  BY DEF M!Free
<1>3. PICK primary \in [Accounts -> Groups] :
        /\ M!Change(DirectoryOf([ad.name EXCEPT ![m] = n], primary, ad.member, ad.policy),
                    {m} \cup M!KnownAs(n))
        /\ \A o \in Accounts : o # m => primary[o] = ad.primary[o]
        /\ m \notin ad.member[primary[m]]
  <2>1. CASE M!Rename(m, n)
    <3>1. ad.name[m] # None /\ M!Change([ad EXCEPT !.name[m] = n], {m} \cup M!KnownAs(n))
      BY <2>1 DEF M!Rename
    <3>2. [ad EXCEPT !.name[m] = n] = DirectoryOf([ad.name EXCEPT ![m] = n], ad.primary, ad.member, ad.policy)
      BY <1>1 DEF DirectoryOf, MemberDirectories
    <3>3. m \notin ad.member[ad.primary[m]] /\ ad.primary \in [Accounts -> Groups]
      BY <1>1, <3>1 DEF DirectoryOK
    <3> QED
      BY <3>1, <3>2, <3>3
  <2>2. CASE M!CreateAccount(m, n)
    <3>1. PICK g \in Groups :
            /\ \A h \in Groups : m \notin ad.member[h]
            /\ M!Change([ad EXCEPT !.name[m] = n, !.primary[m] = g], {m} \cup M!KnownAs(n))
      BY <2>2 DEF M!CreateAccount
    <3> DEFINE primary == [ad.primary EXCEPT ![m] = g]
    <3>2. ad.primary \in [Accounts -> Groups]
      BY <1>1 DEF MemberDirectories
    <3>3. primary \in [Accounts -> Groups] /\ primary[m] = g
            /\ \A o \in Accounts : o # m => primary[o] = ad.primary[o]
      BY <3>2
    <3> DEFINE name == [ad.name EXCEPT ![m] = n]
    <3>4. ad' = [ad EXCEPT !.name[m] = n, !.primary[m] = g]
      BY <3>1 DEF M!Change
    <3>5. ad' = [ad EXCEPT !.name = name, !.primary = primary]
      BY <1>1, <3>4 DEF MemberDirectories
    <3> HIDE DEF primary, name
    <3>6. ad' = DirectoryOf(name, primary, ad.member, ad.policy)
      BY <1>1, <3>5 DEF DirectoryOf, MemberDirectories
    <3>7. M!Change(DirectoryOf(name, primary, ad.member, ad.policy), {m} \cup M!KnownAs(n))
      BY <3>1, <3>4, <3>6
    <3> QED
      BY <3>1, <3>3, <3>7 DEF name
  <2> QED
    BY <2>1, <2>2
<1> DEFINE d == DirectoryOf([ad.name EXCEPT ![m] = n], primary, ad.member, ad.policy)
           unsteady == {m} \cup M!KnownAs(n)
<1>4. /\ ad.name \in [Accounts -> Names \cup {None}] /\ ad.member \in [Groups -> SUBSET M!Members]
      /\ ad.policy \in [Rodcs -> SUBSET M!Members]
  BY <1>1 DEF MemberDirectories
<1>5. /\ d.name[m] = n /\ \A o \in Accounts : o # m => d.name[o] = ad.name[o]
      /\ d.primary = primary /\ d.member = ad.member /\ d.policy = ad.policy
  BY <1>4 DEF DirectoryOf
<1>6. d \in MemberDirectories
  <2>1. [ad.name EXCEPT ![m] = n] \in [Accounts -> Names \cup {None}]
    BY <1>4
  <2> QED
    BY <1>4, <2>1, DirectoryTyped
<1>7. M!Change(d, unsteady)
  BY <1>3
<1>8. unsteady \in SUBSET Accounts /\ m \in unsteady
        /\ \A o \in Accounts : tx.dn[o] = n => o \in unsteady
  BY DEF M!KnownAs
<1> HIDE DEF d, unsteady
<1>9. DirectoryOK(d)
  BY <1>1, <1>2, <1>3, <1>5, <1>6, MemberConstants DEF DirectoryOK, MemberDirectories
<1>10. \A o \in Accounts \ unsteady : d.name[o] = ad.name[o] /\ d.primary[o] = ad.primary[o]
  BY <1>3, <1>5, <1>8
<1>11. \A o \in Accounts \ unsteady, x \in Names, p \in Accounts :
         tx.dn[o] = x => d.name[p] # x \/ d.name[p] = ad.name[p]
  BY <1>5, <1>8
<1> QED
  BY <1>7, <1>8, <1>9, <1>10, <1>11, MemberChange

\* A change of lists, and of the primary group or the existence of one account.
LEMMA MemberListed ==
  ASSUME MemberInv, NEW d, DirectoryOK(d), NEW unsteady \in SUBSET Accounts, M!Change(d, unsteady),
         \A m \in Accounts \ unsteady : d.name[m] = ad.name[m] /\ d.primary[m] = ad.primary[m],
         \A m \in Accounts : d.name[m] \in {ad.name[m], None}
  PROVE  MemberInv'
<1>1. \A m \in Accounts \ unsteady, n \in Names, o \in Accounts :
        tx.dn[m] = n => d.name[o] # n \/ d.name[o] = ad.name[o]
  BY MemberConstants
<1> QED
  BY <1>1, MemberChange

LEMMA MemberDirectory ==
  ASSUME MemberInv, M!Directory
  PROVE  MemberInv'
<1>1. DirectoryOK(ad) /\ ad \in MemberDirectories
  BY DEF MemberInv, MemberTypes, DirectoryOK, MemberDirectories
<1>2. /\ ad.name \in [Accounts -> Names \cup {None}] /\ ad.primary \in [Accounts -> Groups]
      /\ ad.member \in [Groups -> SUBSET M!Members] /\ ad.policy \in [Rodcs -> SUBSET M!Members]
  BY <1>1 DEF MemberDirectories
<1>3. ASSUME NEW m \in Accounts, NEW n \in Names, M!CreateAccount(m, n) \/ M!Rename(m, n)
      PROVE  MemberInv'
  BY <1>3, MemberTaken DEF M!CreateAccount, M!Rename
<1>4. ASSUME NEW m \in Accounts, M!DeleteAccount(m) PROVE MemberInv'
  <2> DEFINE name == [ad.name EXCEPT ![m] = None]
             member == [g \in Groups |-> ad.member[g] \ {m}]
             policy == [r \in Rodcs |-> ad.policy[r] \ {m}]
             d == DirectoryOf(name, ad.primary, member, policy)
  <2>1. M!Change(d, {m})
    <3> DEFINE x == [ad EXCEPT !.name[m] = None, !.member = [g \in Groups |-> @[g] \ {m}],
                               !.policy = [r \in Rodcs |-> @[r] \ {m}]]
    <3>1. M!Change(x, {m})
      BY <1>4 DEF M!DeleteAccount
    <3>2. ad' = x
      BY <3>1 DEF M!Change
    <3>3. ad' = [ad EXCEPT !.name = name, !.member = member, !.policy = policy]
      BY <1>1, <3>2 DEF MemberDirectories
    <3> HIDE DEF name, member, policy
    <3>4. ad' = d
      BY <1>1, <3>3 DEF DirectoryOf, MemberDirectories
    <3> HIDE DEF x, d
    <3> QED
      BY <3>1, <3>2, <3>4
  <2>3. /\ d.name = name /\ d.primary = ad.primary /\ d.member = member /\ d.policy = policy
        /\ name[m] = None /\ \A o \in Accounts : o # m => name[o] = ad.name[o]
        /\ \A g \in Groups : m \notin member[g] /\ member[g] \subseteq ad.member[g]
        /\ \A r \in Rodcs : m \notin policy[r] /\ policy[r] \subseteq ad.policy[r]
        /\ name \in [Accounts -> Names \cup {None}] /\ member \in [Groups -> SUBSET M!Members]
        /\ policy \in [Rodcs -> SUBSET M!Members]
    BY <1>2 DEF DirectoryOf
  <2> HIDE DEF name, member, policy
  <2>4. d \in MemberDirectories
    BY <1>2, <2>3, DirectoryTyped
  <2> HIDE DEF d
  <2>5. DirectoryOK(d)
    BY <1>1, <1>2, <2>3, <2>4 DEF DirectoryOK, MemberDirectories
  <2> QED
    BY <2>1, <2>3, <2>5, MemberListed
<1>5. ASSUME NEW k \in M!MemberKeys, M!AddMember(k) \/ M!RemoveMember(k) PROVE MemberInv'
  <2>1. PICK list \in SUBSET M!Members :
          /\ M!Change([ad EXCEPT !.member[k[1]] = list], {})
          /\ \/ list = ad.member[k[1]] \cup {k[2]} /\ M!Exists(ad, k[2]) /\ M!Membership(ad, k) = None
             \/ list = ad.member[k[1]] \ {k[2]}
    <3>1. k[1] \in Groups /\ k[2] \in M!Members
      BY MemberConstants
    <3>2. ad.member[k[1]] \cup {k[2]} \in SUBSET M!Members /\ ad.member[k[1]] \ {k[2]} \in SUBSET M!Members
      BY <1>2, <3>1
    <3>3. CASE M!AddMember(k)
      <4>1. M!Change([ad EXCEPT !.member[k[1]] = ad.member[k[1]] \cup {k[2]}], {})
        BY <3>3 DEF M!AddMember
      <4> QED
        BY <3>2, <3>3, <4>1 DEF M!AddMember
    <3>4. CASE M!RemoveMember(k)
      <4>1. M!Change([ad EXCEPT !.member[k[1]] = ad.member[k[1]] \ {k[2]}], {})
        BY <3>4 DEF M!RemoveMember
      <4> QED
        BY <3>2, <4>1
    <3> QED
      BY <1>5, <3>3, <3>4
  <2> DEFINE member == [ad.member EXCEPT ![k[1]] = list]
             d == DirectoryOf(ad.name, ad.primary, member, ad.policy)
  <2>2. [ad EXCEPT !.member[k[1]] = list] = d
    BY <1>1 DEF DirectoryOf, MemberDirectories
  <2>3. M!Change(d, {})
    BY <2>1, <2>2
  <2>4. /\ d.name = ad.name /\ d.primary = ad.primary /\ d.member = member /\ d.policy = ad.policy
        /\ member \in [Groups -> SUBSET M!Members]
        /\ member[k[1]] = list /\ \A g \in Groups : g # k[1] => member[g] = ad.member[g]
    BY <1>2, MemberConstants DEF DirectoryOf
  <2> HIDE DEF member
  <2>5. d \in MemberDirectories
    BY <1>2, <2>4, DirectoryTyped
  <2> HIDE DEF d
  \* The new one exists, and it is not its primary group.
  <2>6. \A m \in Accounts : m \in list => m \in ad.member[k[1]] \/ (ad.name[m] # None /\ ad.primary[m] # k[1])
    <3> SUFFICES ASSUME NEW m \in Accounts, m = k[2], M!Exists(ad, k[2]), M!Membership(ad, k) = None
                 PROVE  ad.name[m] # None /\ ad.primary[m] # k[1]
      BY <2>1
    <3>1. ad.name[m] # None
      BY MemberNames
    <3>2. ad.primary[m] # k[1]
      BY MemberConstants, Values DEF M!Membership, Said
    <3> QED
      BY <3>1, <3>2
  <2>7. DirectoryOK(d)
    BY <1>1, <1>2, <2>4, <2>5, <2>6 DEF DirectoryOK, MemberDirectories
  <2> QED
    BY <2>3, <2>4, <2>7, MemberListed
<1>6. ASSUME NEW m \in Accounts, NEW g \in Groups, M!ChangePrimaryGroup(m, g) PROVE MemberInv'
  <2>1. ad.name[m] # None /\ m \in ad.member[g] /\ ad.primary[m] # g /\ ad.primary[m] \in Groups
    BY <1>1, <1>2, <1>6 DEF M!ChangePrimaryGroup, DirectoryOK
  <2> DEFINE primary == [ad.primary EXCEPT ![m] = g]
             member == [ad.member EXCEPT ![g] = @ \ {m}, ![ad.primary[m]] = @ \cup {m}]
             d == DirectoryOf(ad.name, primary, member, ad.policy)
  <2>3. M!Change(d, {m})
    <3> DEFINE x == [ad EXCEPT !.primary[m] = g, !.member[g] = @ \ {m},
                               !.member[ad.primary[m]] = @ \cup {m}]
    <3>1. M!Change(x, {m})
      BY <1>6 DEF M!ChangePrimaryGroup
    <3>2. ad' = x
      BY <3>1 DEF M!Change
    <3>3. ad' = [ad EXCEPT !.primary = primary, !.member = member]
      BY <1>1, <3>2 DEF MemberDirectories
    <3> HIDE DEF primary, member
    <3>4. ad' = d
      BY <1>1, <3>3 DEF DirectoryOf, MemberDirectories
    <3> HIDE DEF x, d
    <3> QED
      BY <3>1, <3>2, <3>4
  <2>4. /\ d.name = ad.name /\ d.primary = primary /\ d.member = member /\ d.policy = ad.policy
        /\ primary \in [Accounts -> Groups] /\ member \in [Groups -> SUBSET M!Members]
        /\ primary[m] = g /\ \A o \in Accounts : o # m => primary[o] = ad.primary[o]
        /\ m \notin member[g]
        /\ \A h \in Groups : member[h] \subseteq ad.member[h] \cup {m}
    <3>1. m \in M!Members
      BY MemberConstants
    <3> QED
      BY <1>2, <2>1, <3>1 DEF DirectoryOf
  <2> HIDE DEF primary, member
  <2>5. d \in MemberDirectories
    BY <1>2, <2>4, DirectoryTyped
  <2> HIDE DEF d
  <2>6. DirectoryOK(d)
    BY <1>1, <1>2, <2>1, <2>4, <2>5 DEF DirectoryOK, MemberDirectories
  <2> QED
    BY <2>3, <2>4, <2>6, MemberListed
<1>7. ASSUME NEW k \in M!PolicyKeys, M!ChangePolicy(k) PROVE MemberInv'
  <2>1. k[1] \in Rodcs /\ k[2] \in M!Members /\ M!Exists(ad, k[2])
    BY <1>7, MemberConstants DEF M!ChangePolicy
  <2> DEFINE list == IF k[2] \in ad.policy[k[1]] THEN ad.policy[k[1]] \ {k[2]}
                     ELSE ad.policy[k[1]] \cup {k[2]}
             policy == [ad.policy EXCEPT ![k[1]] = list]
             d == DirectoryOf(ad.name, ad.primary, ad.member, policy)
  <2>2. [ad EXCEPT !.policy[k[1]] = IF k[2] \in @ THEN @ \ {k[2]} ELSE @ \cup {k[2]}] = d
    BY <1>1 DEF DirectoryOf, MemberDirectories
  <2>3. M!Change(d, {})
    BY <1>7, <2>2 DEF M!ChangePolicy
  <2>4. list \in SUBSET M!Members /\ list \subseteq ad.policy[k[1]] \cup {k[2]}
    BY <1>2, <2>1
  <2> HIDE DEF list
  <2>5. /\ d.name = ad.name /\ d.primary = ad.primary /\ d.member = ad.member /\ d.policy = policy
        /\ policy \in [Rodcs -> SUBSET M!Members]
        /\ policy[k[1]] = list /\ \A r \in Rodcs : r # k[1] => policy[r] = ad.policy[r]
    BY <1>2, <2>1, <2>4 DEF DirectoryOf
  <2> HIDE DEF policy
  <2>6. d \in MemberDirectories
    BY <1>2, <2>5, DirectoryTyped
  <2> HIDE DEF d
  <2>7. k[2] \in Accounts => ad.name[k[2]] # None
    BY <2>1, MemberNames
  <2>8. DirectoryOK(d)
    BY <1>1, <1>2, <2>4, <2>5, <2>6, <2>7 DEF DirectoryOK, MemberDirectories
  <2> QED
    BY <2>3, <2>5, <2>8, MemberListed
<1> QED
  BY <1>3, <1>4, <1>5, <1>6, <1>7 DEF M!Directory

-----------------------------------------------------------------------------
(* Memberships: the run begins and enumerates.                             *)

MemberRun(at, dn, primary, toRead, listed, policy, unreadable) ==
  [at |-> at, dn |-> dn, primary |-> primary, toRead |-> toRead, listed |-> listed,
   policy |-> policy, unreadable |-> unreadable]

LEMMA MemberRunTyped ==
  ASSUME NEW at \in 0..7, NEW dn \in [M!Dns -> M!Members \cup {None}],
         NEW primary \in [Accounts -> Groups \cup {None}], NEW toRead \in SUBSET (Groups \cup Rodcs),
         NEW listed \in [Groups -> SUBSET M!Dns], NEW policy \in [M!PolicyKeys -> {"direct", None}],
         NEW unreadable \in SUBSET Rodcs
  PROVE  MemberRun(at, dn, primary, toRead, listed, policy, unreadable) \in MemberRuns
  BY DEF MemberRuns, MemberRun

\* The variables of the run, one by one.
LEMMA MemberParts ==
  ASSUME MemberInv
  PROVE  /\ run = MemberRun(run.at, run.dn, run.primary, run.toRead, run.listed, run.policy,
                            run.unreadable)
         /\ run.at \in 0..7 /\ run.dn \in [M!Dns -> M!Members \cup {None}]
         /\ run.primary \in [Accounts -> Groups \cup {None}]
         /\ run.toRead \in SUBSET (Groups \cup Rodcs)
         /\ run.listed \in [Groups -> SUBSET M!Dns]
         /\ run.policy \in [M!PolicyKeys -> {"direct", None}]
         /\ run.unreadable \in SUBSET Rodcs
         /\ tx.dn \in [M!Members -> M!Dns \cup {None}] /\ DnsOwn(tx.dn)
         /\ tx.member \in [M!MemberKeys -> M!EdgesOf({"direct", "primary"}) \cup {None}]
         /\ tx.policy \in [M!PolicyKeys -> M!EdgesOf({"direct"}) \cup {None}]
         /\ DirectoryOK(ad) /\ ad.name \in [Accounts -> Names \cup {None}]
         /\ ad.primary \in [Accounts -> Groups]
         /\ ad.member \in [Groups -> SUBSET M!Members] /\ ad.policy \in [Rodcs -> SUBSET M!Members]
         /\ runs \in 0..MaxRuns /\ runs \in Nat
<1>1. run \in MemberRuns /\ tx \in M!MemberRows /\ DirectoryOK(ad)
  BY DEF MemberInv, MemberTypes
<1>2. /\ run.at \in 0..7 /\ run.dn \in [M!Dns -> M!Members \cup {None}]
      /\ run.primary \in [Accounts -> Groups \cup {None}]
      /\ run.toRead \in SUBSET (Groups \cup Rodcs)
      /\ run.listed \in [Groups -> SUBSET M!Dns]
      /\ run.policy \in [M!PolicyKeys -> {"direct", None}]
      /\ run.unreadable \in SUBSET Rodcs
  BY <1>1 DEF MemberRuns
<1>3. run = MemberRun(run.at, run.dn, run.primary, run.toRead, run.listed, run.policy,
                      run.unreadable)
  BY <1>1 DEF MemberRuns, MemberRun
<1>4. /\ tx.dn \in [M!Members -> M!Dns \cup {None}]
      /\ tx.member \in [M!MemberKeys -> M!EdgesOf({"direct", "primary"}) \cup {None}]
      /\ tx.policy \in [M!PolicyKeys -> M!EdgesOf({"direct"}) \cup {None}]
  BY <1>1 DEF M!MemberRows
<1>5. /\ ad.name \in [Accounts -> Names \cup {None}]
      /\ ad.primary \in [Accounts -> Groups]
      /\ ad.member \in [Groups -> SUBSET M!Members] /\ ad.policy \in [Rodcs -> SUBSET M!Members]
  BY <1>1 DEF DirectoryOK
<1>6. DnsOwn(tx.dn) /\ runs \in 0..MaxRuns
  BY DEF MemberInv, MemberTypes
<1>7. runs \in Nat
  BY <1>6, BoundsAssumption
<1> QED
  BY <1>1, <1>2, <1>3, <1>4, <1>5, <1>6, <1>7

\* The tables of the transaction, for the sake of their type.
MemberTables(dn, member, policy) == [dn |-> dn, member |-> member, policy |-> policy]

LEMMA MemberTablesTyped ==
  ASSUME NEW dn \in [M!Members -> M!Dns \cup {None}],
         NEW member \in [M!MemberKeys -> M!EdgesOf({"direct", "primary"}) \cup {None}],
         NEW policy \in [M!PolicyKeys -> M!EdgesOf({"direct"}) \cup {None}]
  PROVE  MemberTables(dn, member, policy) \in M!MemberRows
  BY DEF M!MemberRows, MemberTables

LEMMA MemberStarts ==
  ASSUME MemberInv, M!Start
  PROVE  MemberInv'
<1>1. /\ run' = [M!Idle EXCEPT !.at = 1] /\ runs < MaxRuns /\ runs' = runs + 1
      /\ tx' = db /\ ad' = ad /\ db' = db
      /\ held' = [member |-> [k \in M!MemberKeys |-> {M!Membership(ad, k)}],
                  policy |-> [k \in M!PolicyKeys |-> {M!Revealed(ad, k)}], unsteady |-> {}]
  BY DEF M!Start
<1>2. run' = [at |-> 1, dn |-> M!Idle.dn, primary |-> M!Idle.primary, toRead |-> {},
              listed |-> M!Idle.listed, policy |-> M!Idle.policy, unreadable |-> {}]
  BY <1>1, MemberIdle DEF MemberRuns
<1>3. run' \in MemberRuns
  BY <1>2, MemberIdle DEF MemberRuns
<1>4. /\ run'.at = 1 /\ run'.unreadable = {} /\ run'.toRead = {}
      /\ \A n \in M!Dns : run'.dn[n] = None
      /\ \A m \in Accounts : run'.primary[m] = None
      /\ \A k \in M!PolicyKeys : run'.policy[k] = None
  BY <1>2, MemberIdle
<1>5. held' \in MemberValues
  BY <1>1, MemberNames DEF MemberValues
<1>6. runs' \in 0..MaxRuns
  BY <1>1, BoundsAssumption DEF MemberInv, MemberTypes
<1>7. MemberTypes'
  BY <1>1, <1>3, <1>5, <1>6 DEF MemberInv, MemberTypes, MemberValues, DirectoryOK, DnsOwn, ForeignKnown
<1>8. MemberProgress'
  BY <1>1, <1>4, MemberConstants DEF MemberProgress
<1>9. MemberHeld'
  BY <1>1, <1>4 DEF MemberHeld
<1>10. AccountsKnown' /\ MemberSynced'
  BY <1>4 DEF AccountsKnown, MemberSynced
<1> QED
  BY <1>7, <1>8, <1>9, <1>10 DEF MemberInv

LEMMA MemberEnumeratesAccounts ==
  ASSUME MemberInv, M!EnumerateAccounts
  PROVE  MemberInv'
<1> DEFINE found == {m \in Accounts : M!Exists(ad, m)}
           dn == [n \in M!Dns |-> IF \E m \in found : ad.name[m] = n
                                  THEN CHOOSE m \in found : ad.name[m] = n ELSE None]
           primary == [m \in Accounts |-> IF m \in found THEN ad.primary[m] ELSE None]
           known == [m \in M!Members |-> IF m \in found THEN ad.name[m] ELSE tx.dn[m]]
<1>1. /\ ad' = ad /\ db' = db /\ runs' = runs /\ held' = held
      /\ run' = [run EXCEPT !.at = @ + 1, !.dn = dn, !.primary = primary]
      /\ tx' = [tx EXCEPT !.dn = known]
  BY DEF M!EnumerateAccounts
<1>2. run \in MemberRuns /\ tx \in M!MemberRows
  BY DEF MemberInv, MemberTypes
<1>3. run.at = 1
  BY MemberParts, MemberAt DEF M!EnumerateAccounts
<1>4. \A m \in Accounts : m \in found <=> ad.name[m] # None
  BY MemberNames
<1>5. found \subseteq Accounts
  OBVIOUS
<1>6. \A m \in Accounts : ad.name[m] # None => ad.name[m] \in Names
  BY MemberParts
<1>7. \A m, n \in Accounts : ad.name[m] = ad.name[n] /\ ad.name[m] # None => m = n
  BY MemberParts DEF DirectoryOK
<1>8. ASSUME NEW n \in M!Dns
      PROVE  /\ dn[n] # None => dn[n] \in found /\ ad.name[dn[n]] = n
             /\ \A m \in found : ad.name[m] = n => dn[n] = m
  <2>1. CASE \E m \in found : ad.name[m] = n
    <3>1. dn[n] = CHOOSE m \in found : ad.name[m] = n
      BY <2>1
    <3>2. dn[n] \in found /\ ad.name[dn[n]] = n
      BY <2>1, <3>1
    <3> QED
      BY <1>4, <1>5, <1>7, <3>2
  <2>2. CASE ~\E m \in found : ad.name[m] = n
    BY <2>2
  <2> QED
    BY <2>1, <2>2
<1>9. /\ dn \in [M!Dns -> M!Members \cup {None}]
      /\ primary \in [Accounts -> Groups \cup {None}]
      /\ known \in [M!Members -> M!Dns \cup {None}]
  <2>1. \A n \in M!Dns : dn[n] \in M!Members \cup {None}
    BY <1>5, <1>8, MemberConstants
  <2>2. dn \in [M!Dns -> M!Members \cup {None}]
    BY <2>1
  <2>3. primary \in [Accounts -> Groups \cup {None}]
    BY MemberParts
  <2>4. \A m \in M!Members : known[m] \in M!Dns \cup {None}
    BY <1>4, <1>5, <1>6, MemberParts, MemberConstants
  <2> QED
    BY <2>2, <2>3, <2>4
<1>10. /\ \A m \in Accounts : primary[m] # None => ad.name[m] # None /\ primary[m] = ad.primary[m]
       /\ \A m \in Accounts : ad.name[m] # None => primary[m] = ad.primary[m]
       /\ \A m \in Accounts : known[m] = ad.name[m] \/ known[m] = tx.dn[m]
       /\ \A m \in Foreign : known[m] = tx.dn[m]
  BY <1>4, <1>5, MemberConstants
<1> HIDE DEF found, dn, primary, known
<1>11. /\ run'.at = 2 /\ run'.dn = dn /\ run'.primary = primary /\ run'.unreadable = run.unreadable
       /\ run'.policy = run.policy
  BY <1>1, <1>2, <1>3 DEF MemberRuns
<1>12. run' \in MemberRuns
  <2>1. run' = MemberRun(run'.at, dn, primary, run.toRead, run.listed, run.policy, run.unreadable)
    BY <1>1, <1>2 DEF MemberRuns, MemberRun
  <2>2. run'.at \in 0..7
    BY <1>11
  <2>3. /\ run.toRead \in SUBSET (Groups \cup Rodcs) /\ run.listed \in [Groups -> SUBSET M!Dns]
        /\ run.policy \in [M!PolicyKeys -> {"direct", None}] /\ run.unreadable \in SUBSET Rodcs
    BY MemberParts
  <2> QED
    BY <1>9, <2>1, <2>2, <2>3, MemberRunTyped
<1>13. tx' = MemberTables(known, tx.member, tx.policy)
  BY <1>1, <1>2 DEF M!MemberRows, MemberTables
<1>14. tx'.dn = known /\ tx'.member = tx.member /\ tx'.policy = tx.policy /\ tx' \in M!MemberRows
  <2>1. tx' \in M!MemberRows
    BY <1>9, <1>13, MemberParts, MemberTablesTyped
  <2> QED
    BY <1>13, <2>1 DEF MemberTables
<1>15. MemberTypes'
  <2>1. DnsOwn(known)
    BY <1>6, <1>10, MemberParts DEF DnsOwn
  <2>2. ForeignKnown(tx')
    BY <1>10, <1>14 DEF MemberInv, MemberTypes, ForeignKnown
  <2> QED
    BY <1>1, <1>12, <1>14, <2>1, <2>2 DEF MemberInv, MemberTypes
<1>16. MemberProgress'
  <2>1. \A n \in Names : dn[n] \in Accounts \cup {None}
    BY <1>5, <1>8, MemberConstants
  <2>2. \A n \in Foreign : dn[n] = None
    BY <1>5, <1>6, <1>8, MemberConstants
  <2>3. run.unreadable = {} /\ \A k \in M!PolicyKeys : run.policy[k] = None
    BY <1>3 DEF MemberInv, MemberProgress
  <2>4. tx.member = db.member /\ tx.policy = db.policy
    BY <1>3 DEF MemberInv, MemberProgress
  <2> QED
    BY <1>1, <1>11, <1>14, <2>1, <2>2, <2>3, <2>4 DEF MemberProgress
<1>17. AccountsKnown'
  <2>1. ASSUME NEW m \in Accounts
        PROVE  /\ \A n \in Names : dn[n] = m => ad.name[m] = n
               /\ ad.name[m] # None => dn[ad.name[m]] = m /\ primary[m] = ad.primary[m]
               /\ \A n \in Names, o \in Accounts : dn[n] = None => ad.name[o] # n
               /\ primary[m] # None => "primary" \in held.member[<<primary[m], m>>]
    <3>1. \A n \in Names : dn[n] = m => ad.name[m] = n
      BY <1>8, MemberConstants
    <3>2. ad.name[m] # None => dn[ad.name[m]] = m /\ primary[m] = ad.primary[m]
      BY <1>4, <1>6, <1>8, <1>10, MemberConstants
    <3>3. \A n \in Names, o \in Accounts : dn[n] = None => ad.name[o] # n
      BY <1>4, <1>8, MemberConstants
    <3>4. ASSUME primary[m] # None PROVE "primary" \in held.member[<<primary[m], m>>]
      <4> DEFINE k == <<primary[m], m>>
      <4>1. ad.name[m] # None /\ primary[m] = ad.primary[m]
        BY <1>10, <3>4
      <4>2. m \notin ad.member[ad.primary[m]]
        BY <4>1, MemberParts DEF DirectoryOK
      <4>3. k \in M!MemberKeys
        <5>1. ad.primary[m] \in Groups /\ m \in M!Members
          BY MemberParts, MemberConstants
        <5> QED
          BY <4>1, <5>1 DEF M!MemberKeys
      <4>4. M!Membership(ad, k) = "primary"
        BY <4>1, <4>2, MemberNames DEF M!Membership
      <4>5. M!Membership(ad, k) \in held.member[k]
        BY <1>3, <4>3 DEF MemberInv, MemberHeld
      <4> QED
        BY <4>4, <4>5
    <3> QED
      BY <3>1, <3>2, <3>3, <3>4
  <2>2. ASSUME NEW m \in Accounts
        PROVE  /\ \A n \in Names : run'.dn[n] = m => ad'.name[m] = n
               /\ ad'.name[m] # None => run'.dn[ad'.name[m]] = m /\ run'.primary[m] = ad'.primary[m]
               /\ \A n \in Names, o \in Accounts :
                    tx'.dn[m] = n /\ run'.dn[n] = None => ad'.name[o] # n
    <3>1. ASSUME NEW n \in Names, run'.dn[n] = m PROVE ad'.name[m] = n
      <4>1. dn[n] = m
        BY <1>11, <3>1
      <4>2. ad.name[m] = n
        BY <2>1, <4>1
      <4> QED
        BY <1>1, <4>2
    <3>2. ad'.name[m] # None => run'.dn[ad'.name[m]] = m /\ run'.primary[m] = ad'.primary[m]
      BY <1>1, <1>11, <2>1
    <3>3. \A n \in Names, o \in Accounts :
            tx'.dn[m] = n /\ run'.dn[n] = None => ad'.name[o] # n
      BY <1>1, <1>11, <2>1
    <3> QED
      BY <3>1, <3>2, <3>3
  <2>3. \A m \in Accounts :
          run'.primary[m] # None => "primary" \in held'.member[<<run'.primary[m], m>>]
    BY <1>1, <1>11, <2>1
  <2> QED
    BY <2>2, <2>3 DEF AccountsKnown
<1>18. MemberHeld'
  BY <1>1, <1>3, <1>11 DEF MemberInv, MemberHeld
<1>19. MemberSynced'
  BY <1>11 DEF MemberSynced
<1> QED
  BY <1>15, <1>16, <1>17, <1>18, <1>19 DEF MemberInv

LEMMA MemberEnumeratesForeign ==
  ASSUME MemberInv, M!EnumerateForeign
  PROVE  MemberInv'
<1>1. PICK found \in SUBSET Foreign :
        /\ run' = [run EXCEPT !.at = @ + 1,
                              !.toRead = Groups,
                              !.dn = [n \in M!Dns |-> IF n \in found THEN n ELSE @[n]]]
        /\ tx' = [tx EXCEPT !.dn = [m \in M!Members |-> IF m \in found THEN m ELSE @[m]]]
  BY DEF M!EnumerateForeign
<1> DEFINE dn == [n \in M!Dns |-> IF n \in found THEN n ELSE run.dn[n]]
           known == [m \in M!Members |-> IF m \in found THEN m ELSE tx.dn[m]]
<1>2. /\ ad' = ad /\ db' = db /\ runs' = runs /\ held' = held
      /\ run' = [run EXCEPT !.at = @ + 1, !.toRead = Groups, !.dn = dn]
      /\ tx' = [tx EXCEPT !.dn = known]
  BY <1>1 DEF M!EnumerateForeign
<1>3. run \in MemberRuns /\ tx \in M!MemberRows
  BY DEF MemberInv, MemberTypes
<1>4. run.at = 2
  BY MemberParts, MemberAt DEF M!EnumerateForeign
<1>5. /\ \A n \in Names : dn[n] = run.dn[n]
      /\ \A n \in Foreign : dn[n] = run.dn[n] \/ (n \in found /\ dn[n] = n)
      /\ \A m \in Accounts : known[m] = tx.dn[m]
      /\ \A m \in Foreign : known[m] = tx.dn[m] \/ known[m] = m
      /\ \A m \in found : known[m] = m /\ m # None
  BY MemberConstants
<1>6. dn \in [M!Dns -> M!Members \cup {None}] /\ known \in [M!Members -> M!Dns \cup {None}]
  <2>1. \A n \in found : n \in M!Members /\ n \in M!Dns
    BY MemberConstants
  <2>2. run.dn \in [M!Dns -> M!Members \cup {None}] /\ tx.dn \in [M!Members -> M!Dns \cup {None}]
    BY MemberParts
  <2> QED
    BY <2>1, <2>2
<1> HIDE DEF dn, known
<1>7. /\ run'.at = 3 /\ run'.dn = dn /\ run'.primary = run.primary /\ run'.toRead = Groups
      /\ run'.unreadable = run.unreadable /\ run'.policy = run.policy
  BY <1>2, <1>3, <1>4 DEF MemberRuns
<1>8. run' \in MemberRuns
  <2>1. run' = MemberRun(run'.at, dn, run.primary, run'.toRead, run.listed, run.policy, run.unreadable)
    BY <1>2, <1>3, <1>7 DEF MemberRuns, MemberRun
  <2>2. run'.at \in 0..7 /\ run'.toRead \in SUBSET (Groups \cup Rodcs)
    BY <1>7
  <2>3. /\ run.primary \in [Accounts -> Groups \cup {None}] /\ run.listed \in [Groups -> SUBSET M!Dns]
        /\ run.policy \in [M!PolicyKeys -> {"direct", None}] /\ run.unreadable \in SUBSET Rodcs
    BY MemberParts
  <2> QED
    BY <1>6, <2>1, <2>2, <2>3, MemberRunTyped
<1>9. tx' = MemberTables(known, tx.member, tx.policy)
  BY <1>2, <1>3 DEF M!MemberRows, MemberTables
<1>10. tx'.dn = known /\ tx'.member = tx.member /\ tx'.policy = tx.policy /\ tx' \in M!MemberRows
  <2>1. tx' \in M!MemberRows
    BY <1>6, <1>9, MemberParts, MemberTablesTyped
  <2> QED
    BY <1>9, <2>1 DEF MemberTables
<1>11. MemberTypes'
  <2>1. DnsOwn(known)
    BY <1>5, MemberParts DEF DnsOwn
  <2>2. ForeignKnown(tx')
    <3>1. \A m \in Foreign : tx.dn[m] # None => known[m] # None
      BY <1>5, MemberConstants
    <3> QED
      BY <1>10, <3>1 DEF MemberInv, MemberTypes, ForeignKnown
  <2> QED
    BY <1>2, <1>8, <1>10, <2>1, <2>2 DEF MemberInv, MemberTypes
<1>12. MemberProgress'
  <2>1. \A n \in Names : dn[n] \in Accounts \cup {None}
    BY <1>5 DEF MemberInv, MemberProgress
  <2>2. \A n \in Foreign : dn[n] \in {n, None} /\ (dn[n] # None => known[n] # None)
    BY <1>5, MemberConstants DEF MemberInv, MemberProgress
  <2>3. run.unreadable = {} /\ \A k \in M!PolicyKeys : run.policy[k] = None
    BY <1>4 DEF MemberInv, MemberProgress
  <2>4. tx.member = db.member /\ tx.policy = db.policy
    BY <1>4 DEF MemberInv, MemberProgress
  <2> QED
    BY <1>2, <1>7, <1>10, <2>1, <2>2, <2>3, <2>4 DEF MemberProgress
<1>13. AccountsKnown'
  <2>1. ASSUME NEW m \in Accounts, M!Steady(m)
        PROVE  /\ \A n \in Names : run.dn[n] = m => ad.name[m] = n
               /\ ad.name[m] # None => run.dn[ad.name[m]] = m /\ run.primary[m] = ad.primary[m]
               /\ \A n \in Names, o \in Accounts :
                    tx.dn[m] = n /\ run.dn[n] = None => ad.name[o] # n
    BY <1>4, <2>1 DEF MemberInv, AccountsKnown
  <2>3. ASSUME NEW m \in Accounts, M!Steady(m)'
        PROVE  /\ \A n \in Names : dn[n] = m => ad.name[m] = n
               /\ ad.name[m] # None => dn[ad.name[m]] = m /\ run.primary[m] = ad.primary[m]
               /\ \A n \in Names, o \in Accounts :
                    known[m] = n /\ dn[n] = None => ad.name[o] # n
    <3>1. M!Steady(m)
      BY <1>2, <2>3 DEF M!Steady
    <3>2. ad.name[m] # None => ad.name[m] \in Names
      BY MemberParts
    <3> QED
      BY <1>5, <2>1, <3>1, <3>2
  <2>4. \A m \in Accounts :
          run.primary[m] # None => "primary" \in held.member[<<run.primary[m], m>>]
    BY <1>4 DEF MemberInv, AccountsKnown
  <2> QED
    BY <1>2, <1>7, <1>10, <2>3, <2>4 DEF AccountsKnown
<1>14. MemberHeld'
  <2>1. \A k \in M!MemberKeys : k[1] \in run'.toRead
    BY <1>7, MemberConstants
  <2> QED
    BY <1>2, <1>4, <1>7, <2>1 DEF MemberInv, MemberHeld
<1>15. MemberSynced'
  BY <1>7 DEF MemberSynced
<1> QED
  BY <1>11, <1>12, <1>13, <1>14, <1>15 DEF MemberInv

-----------------------------------------------------------------------------
(* Memberships: names are looked up.                                       *)

\* Who has a name that this run has seen is the one it has seen by it.
LEMMA NamedInRun ==
  ASSUME MemberInv, run.at > 1, NEW l \in M!Members, M!Exists(ad, l),
         NEW m \in M!Members, M!Steady(m), run.dn[M!DnOf(ad, l)] = m
  PROVE  l = m
<1>1. CASE l \in Foreign
  <2>1. M!DnOf(ad, l) = l
    BY <1>1, MemberNames
  <2>2. run.dn[l] \in {l, None}
    BY <1>1 DEF MemberInv, MemberProgress
  <2> QED
    BY <2>1, <2>2, MemberConstants
<1>2. CASE l \in Accounts
  <2>1. M!DnOf(ad, l) = ad.name[l] /\ ad.name[l] # None /\ ad.name[l] \in Names
    BY <1>2, MemberNames, MemberParts
  <2>2. m \in Accounts
    BY <2>1, MemberConstants DEF MemberInv, MemberProgress
  <2>3. ad.name[m] = ad.name[l]
    BY <2>1, <2>2 DEF MemberInv, AccountsKnown
  <2> QED
    BY <1>2, <2>1, <2>2, <2>3, MemberParts DEF DirectoryOK
<1> QED
  BY <1>1, <1>2 DEF M!Members

\* Nor is anybody taken for another by the names of the database.
LEMMA ResolvedIsIt ==
  ASSUME MemberInv, run.at > 1, NEW l \in M!Members, M!Exists(ad, l),
         NEW m \in M!Members, M!Steady(m), M!Resolved(M!DnOf(ad, l)) = m
  PROVE  l = m
<1> DEFINE n == M!DnOf(ad, l)
<1>1. m # None /\ n # None
  BY MemberConstants DEF M!Exists
<1>2. CASE run.dn[n] # None
  BY <1>2, NamedInRun DEF M!Resolved
<1>3. CASE run.dn[n] = None
  <2>1. tx.dn[m] = n
    <3>1. \E o \in M!Members : tx.dn[o] = n
      BY <1>1, <1>3 DEF M!Resolved
    <3>2. m = CHOOSE o \in M!Members : tx.dn[o] = n
      BY <1>3, <3>1 DEF M!Resolved
    <3> QED
      BY <3>1, <3>2
  <2>2. CASE m \in Foreign
    <3>1. n = m
      BY <1>1, <2>1, <2>2, MemberParts DEF DnsOwn
    <3>2. ASSUME l \in Accounts PROVE FALSE
      <4>1. n = ad.name[l] /\ ad.name[l] \in Names \cup {None}
        BY <3>2, MemberNames, MemberParts
      <4> QED
        BY <1>1, <2>2, <3>1, <4>1, MemberConstants
    <3> QED
      BY <3>1, <3>2, MemberNames DEF M!Members
  <2>3. CASE m \in Accounts
    <3>1. n \in Names
      BY <1>1, <2>1, <2>3, MemberParts DEF DnsOwn
    <3>2. l \in Accounts
      <4>1. ASSUME l \in Foreign PROVE FALSE
        <5>1. n = l
          BY <4>1, MemberNames
        <5> QED
          BY <3>1, <4>1, <5>1, MemberConstants
      <4> QED
        BY <4>1 DEF M!Members
    <3>3. ad.name[l] # n
      BY <1>3, <2>1, <2>3, <3>1, <3>2 DEF MemberInv, AccountsKnown
    <3> QED
      BY <3>2, <3>3, MemberNames
  <2> QED
    BY <2>2, <2>3 DEF M!Members
<1> QED
  BY <1>2, <1>3

\* And who can be found is found.
LEMMA FoundByName ==
  ASSUME MemberInv, run.at > 1, NEW m \in M!Members, M!Steady(m), M!Exists(ad, m)
  PROVE  /\ m \in Accounts => run.dn[M!DnOf(ad, m)] = m
         /\ m \in Accounts => M!Seen(m)
         /\ M!Seen(m) => run.dn[M!DnOf(ad, m)] = m
         /\ Findable(m) => M!Resolved(M!DnOf(ad, m)) = m
<1>1. m # None
  BY MemberConstants
<1>2. CASE m \in Accounts
  <2>1. M!DnOf(ad, m) = ad.name[m] /\ ad.name[m] # None /\ ad.name[m] \in Names
    BY <1>2, MemberNames, MemberParts
  <2>2. run.dn[M!DnOf(ad, m)] = m
    BY <1>2, <2>1 DEF MemberInv, AccountsKnown
  <2>3. M!Seen(m)
    BY <2>1, <2>2, MemberConstants DEF M!Seen
  <2> QED
    BY <1>1, <2>2, <2>3 DEF M!Resolved
<1>3. CASE m \in Foreign
  <2>1. M!DnOf(ad, m) = m /\ m \notin Accounts
    BY <1>3, MemberNames, MemberConstants
  <2>2. run.dn[m] \in {m, None}
    BY <1>3 DEF MemberInv, MemberProgress
  <2>3. M!Seen(m) => run.dn[m] = m
    <3> SUFFICES ASSUME NEW n \in M!Dns, run.dn[n] = m PROVE run.dn[m] = m
      BY DEF M!Seen
    <3>1. CASE n \in Names
      BY <1>1, <2>1, <3>1 DEF MemberInv, MemberProgress
    <3>2. CASE n \in Foreign
      <4>1. run.dn[n] \in {n, None}
        BY <3>2 DEF MemberInv, MemberProgress
      <4> QED
        BY <1>1, <4>1
    <3> QED
      BY <3>1, <3>2 DEF M!Dns
  <2>4. ASSUME Findable(m) PROVE M!Resolved(m) = m
    <3>1. CASE run.dn[m] # None
      BY <2>2, <3>1 DEF M!Resolved
    <3>2. CASE run.dn[m] = None
      <4>1. tx.dn[m] = m
        BY <1>1, <1>3, <2>3, <2>4, <3>2, MemberParts DEF Findable, DnsOwn
      <4> DEFINE o == CHOOSE o \in M!Members : tx.dn[o] = m
      <4>2. M!Resolved(m) = o
        BY <3>2, <4>1 DEF M!Resolved
      <4>3. o \in M!Members /\ tx.dn[o] = m
        BY <4>1
      <4> HIDE DEF o
      <4>4. o \notin Accounts
        BY <1>1, <1>3, <4>3, MemberParts, MemberConstants DEF DnsOwn
      <4>5. tx.dn[o] \in {o, None}
        BY <4>3, <4>4, MemberParts DEF DnsOwn, M!Members
      <4> QED
        BY <1>1, <4>2, <4>3, <4>5
    <3> QED
      BY <3>1, <3>2
  <2> QED
    BY <2>1, <2>3, <2>4
<1> QED
  BY <1>2, <1>3 DEF M!Members

\* What does not change as lists are read and tables synced.
LEMMA MemberKeeps ==
  ASSUME MemberInv, run.at > 1, ad' = ad, held' = held, run'.dn = run.dn, run'.primary = run.primary,
         tx'.dn = tx.dn
  PROVE  /\ AccountsKnown'
         /\ \A m : (M!Steady(m)' <=> M!Steady(m)) /\ (M!Seen(m)' <=> M!Seen(m))
                     /\ (Findable(m)' <=> Findable(m))
         /\ \A n : M!Resolved(n)' = M!Resolved(n)
<1>1. \A m : (M!Steady(m)' <=> M!Steady(m)) /\ (M!Seen(m)' <=> M!Seen(m))
  BY DEF M!Steady, M!Seen
<1>2. \A m : Findable(m)' <=> Findable(m)
  BY <1>1 DEF Findable
<1>3. \A n : M!Resolved(n)' = M!Resolved(n)
  BY DEF M!Resolved
<1>4. AccountsKnown'
  BY <1>1 DEF MemberInv, AccountsKnown
<1> QED
  BY <1>1, <1>2, <1>3, <1>4

-----------------------------------------------------------------------------
(* Memberships: the groups are read, and the table is synced.              *)

LEMMA MemberReads ==
  ASSUME MemberInv, NEW g \in Groups, M!ReadMembers(g)
  PROVE  MemberInv'
<1> DEFINE list == {M!DnOf(ad, m) : m \in ad.member[g]}
<1>1. /\ ad' = ad /\ db' = db /\ tx' = tx /\ runs' = runs /\ held' = held /\ g \in run.toRead
      /\ run' = [run EXCEPT !.toRead = @ \ {g}, !.at = M!After(g), !.listed[g] = list]
  BY DEF M!ReadMembers
<1>2. run \in MemberRuns
  BY DEF MemberInv, MemberTypes
<1>3. run.at = 3
  BY MemberParts, MemberAt DEF M!ReadMembers
<1>4. /\ run.toRead \subseteq Groups
      /\ M!After(g) \in {3, 4} /\ (M!After(g) = 4 => run.toRead \ {g} = {})
  BY <1>1, <1>3 DEF MemberInv, MemberProgress, M!After
<1>5. \A m \in ad.member[g] : m \in M!Members /\ M!Exists(ad, m) /\ M!DnOf(ad, m) \in M!Dns
  <2> SUFFICES ASSUME NEW m \in ad.member[g]
               PROVE  m \in M!Members /\ M!Exists(ad, m) /\ M!DnOf(ad, m) \in M!Dns
    OBVIOUS
  <2>1. m \in M!Members
    BY MemberParts
  <2>2. CASE m \in Accounts
    BY <2>1, <2>2, MemberNames, MemberParts, MemberConstants DEF DirectoryOK
  <2>3. CASE m \in Foreign
    BY <2>1, <2>3, MemberNames, MemberConstants
  <2> QED
    BY <2>1, <2>2, <2>3 DEF M!Members
<1>6. list \in SUBSET M!Dns
  BY <1>5
<1> DEFINE listed == [run.listed EXCEPT ![g] = list]
<1>7. /\ listed \in [Groups -> SUBSET M!Dns] /\ listed[g] = list
      /\ \A h \in Groups : h # g => listed[h] = run.listed[h]
  BY <1>6, MemberParts
<1>8. run' = [run EXCEPT !.toRead = @ \ {g}, !.at = M!After(g), !.listed = listed]
  BY <1>1, <1>2 DEF MemberRuns
<1> HIDE DEF listed, list
<1>9. /\ run'.at = M!After(g) /\ run'.dn = run.dn /\ run'.primary = run.primary
      /\ run'.toRead = run.toRead \ {g} /\ run'.listed = listed
      /\ run'.unreadable = run.unreadable /\ run'.policy = run.policy
  BY <1>2, <1>8 DEF MemberRuns
<1>10. run' \in MemberRuns
  <2>1. run' = MemberRun(M!After(g), run.dn, run.primary, run'.toRead, listed, run.policy, run.unreadable)
    BY <1>2, <1>8 DEF MemberRuns, MemberRun
  <2>2. M!After(g) \in 0..7 /\ run'.toRead \in SUBSET (Groups \cup Rodcs)
    BY <1>4, <1>9
  <2>3. /\ run.dn \in [M!Dns -> M!Members \cup {None}]
        /\ run.primary \in [Accounts -> Groups \cup {None}]
        /\ run.policy \in [M!PolicyKeys -> {"direct", None}] /\ run.unreadable \in SUBSET Rodcs
    BY MemberParts
  <2> QED
    BY <1>7, <2>1, <2>2, <2>3, MemberRunTyped
<1>11. /\ AccountsKnown'
       /\ \A m : (M!Steady(m)' <=> M!Steady(m)) /\ (M!Seen(m)' <=> M!Seen(m))
                   /\ (Findable(m)' <=> Findable(m))
       /\ \A n : M!Resolved(n)' = M!Resolved(n)
  BY <1>1, <1>3, <1>9, MemberKeeps
<1>12. MemberTypes'
  BY <1>1, <1>10 DEF MemberInv, MemberTypes
<1>13. MemberProgress'
  BY <1>1, <1>3, <1>4, <1>9 DEF MemberInv, MemberProgress
<1>14. ASSUME NEW k \in M!MemberKeys, k[1] \notin run'.toRead, M!Steady(k[2])
       PROVE  /\ Lists(k)' => "direct" \in held.member[k]
              /\ Findable(k[2]) /\ ~Lists(k)' /\ ~(k[2] \in Accounts /\ run.primary[k[2]] = k[1])
                   => None \in held.member[k]
  <2>1. Lists(k)' <=> \E n \in listed[k[1]] : M!Resolved(n) = k[2]
    BY <1>9, <1>11 DEF Lists
  <2>2. k[1] \in Groups /\ k[2] \in M!Members
    BY MemberConstants
  <2>3. CASE k[1] # g
    <3>1. Lists(k)' <=> Lists(k)
      BY <1>7, <2>1, <2>2, <2>3 DEF Lists
    <3>2. k[1] \notin run.toRead
      BY <1>9, <1>14, <2>3
    <3> QED
      BY <1>3, <1>14, <3>1, <3>2 DEF MemberInv, MemberHeld
  <2>4. CASE k[1] = g
    <3> DEFINE m == k[2]
    <3>1. M!Membership(ad, k) \in held.member[k]
      BY <1>3 DEF MemberInv, MemberHeld
    <3>2. Lists(k)' => m \in ad.member[g]
      <4> SUFFICES ASSUME NEW n \in list, M!Resolved(n) = m PROVE m \in ad.member[g]
        BY <1>7, <2>1, <2>4
      <4>1. PICK l \in ad.member[g] : n = M!DnOf(ad, l)
        BY DEF list
      <4>2. l = m
        BY <1>3, <1>5, <1>14, <2>2, <4>1, ResolvedIsIt
      <4> QED
        BY <4>2
    <3>3. m \in ad.member[g] /\ Findable(m) => Lists(k)'
      <4> SUFFICES ASSUME m \in ad.member[g], Findable(m) PROVE Lists(k)'
        OBVIOUS
      <4>1. M!DnOf(ad, m) \in list
        BY DEF list
      <4>2. M!Resolved(M!DnOf(ad, m)) = m
        BY <1>3, <1>5, <1>14, <2>2, FoundByName
      <4> QED
        BY <1>7, <2>1, <2>4, <4>1, <4>2
    <3>4. m \in ad.member[g] => M!Membership(ad, k) = "direct"
      BY <2>4 DEF M!Membership
    <3>5. m \notin ad.member[g] /\ M!Membership(ad, k) # None => m \in Accounts /\ run.primary[m] = g
      <4> SUFFICES ASSUME m \notin ad.member[g], M!Membership(ad, k) # None
                   PROVE  m \in Accounts /\ run.primary[m] = g
        OBVIOUS
      <4>1. m \in Accounts /\ M!Exists(ad, m) /\ ad.primary[m] = g
        BY <2>4 DEF M!Membership
      <4>2. ad.name[m] # None
        BY <4>1, MemberNames
      <4>3. run.primary[m] = ad.primary[m]
        BY <1>3, <1>14, <4>1, <4>2 DEF MemberInv, AccountsKnown
      <4> QED
        BY <4>1, <4>3
    <3> QED
      BY <2>4, <3>1, <3>2, <3>3, <3>4, <3>5
  <2> QED
    BY <2>3, <2>4
<1>15. MemberHeld'
  <2>1. \A k \in M!MemberKeys : M!Membership(ad, k) \in held.member[k]
    BY <1>3 DEF MemberInv, MemberHeld
  <2>2. \A k \in M!PolicyKeys : M!Revealed(ad, k) \in held.policy[k]
    BY <1>3 DEF MemberInv, MemberHeld
  <2>3. run'.at # 5 /\ run'.at # 6
    BY <1>4, <1>9
  <2> QED
    BY <1>1, <1>9, <1>11, <1>14, <2>1, <2>2, <2>3 DEF MemberHeld
<1>16. MemberSynced'
  BY <1>4, <1>9 DEF MemberSynced
<1> QED
  BY <1>11, <1>12, <1>13, <1>15, <1>16 DEF MemberInv

LEMMA MemberSyncs ==
  ASSUME MemberInv, M!SyncMembers
  PROVE  MemberInv'
<1> DEFINE listed(k) == \E n \in run.listed[k[1]] : M!Resolved(n) = k[2]
           desired == [k \in M!MemberKeys |->
                         IF listed(k) THEN "direct"
                         ELSE IF k[2] \in Accounts /\ run.primary[k[2]] = k[1] THEN "primary" ELSE None]
           rows == M!SyncEdges(tx.member, desired, runs)
<1>1. /\ ad' = ad /\ db' = db /\ runs' = runs /\ held' = held
      /\ run' = [run EXCEPT !.at = @ + 1, !.toRead = Rodcs]
      /\ tx' = [tx EXCEPT !.member = rows]
  BY DEF M!SyncMembers
<1>2. run \in MemberRuns /\ tx \in M!MemberRows
  BY DEF MemberInv, MemberTypes
<1>3. run.at = 4 /\ run.toRead = {}
  BY MemberParts, MemberAt DEF M!SyncMembers, MemberInv, MemberProgress
<1>4. ASSUME NEW k \in M!MemberKeys
      PROVE  /\ Lists(k) => desired[k] = "direct"
             /\ ~Lists(k) /\ k[2] \in Accounts /\ run.primary[k[2]] = k[1] => desired[k] = "primary"
             /\ ~Lists(k) /\ ~(k[2] \in Accounts /\ run.primary[k[2]] = k[1]) => desired[k] = None
             /\ desired[k] \in {"direct", "primary", None}
  BY DEF Lists
<1> HIDE DEF desired
<1>5. ASSUME NEW k \in M!MemberKeys
      PROVE  RowFrom(rows[k], tx.member[k], desired[k], runs)
  <2>1. tx.member[k] \in AnyRow \cup {None} /\ k \in DOMAIN tx.member
    BY MemberParts DEF M!EdgesOf, AnyRow, Said
  <2>2. desired[k] \in Said \cup {Unrecorded, None}
    BY <1>4 DEF Said
  <2> QED
    BY <2>1, <2>2, MemberParts, SyncedRow
<1>6. DOMAIN rows = M!MemberKeys /\ rows = [k \in M!MemberKeys |-> rows[k]]
  BY MemberParts DEF M!SyncEdges, M!Synced, M!PayloadReconciled
<1> HIDE DEF rows
<1>7. \A k \in M!MemberKeys : rows[k] \in M!EdgesOf({"direct", "primary"}) \cup {None}
  BY <1>4, <1>5 DEF RowFrom, AnyRow, M!EdgesOf
<1>8. rows \in [M!MemberKeys -> M!EdgesOf({"direct", "primary"}) \cup {None}]
  BY <1>6, <1>7
<1>9. /\ run'.at = 5 /\ run'.dn = run.dn /\ run'.primary = run.primary /\ run'.toRead = Rodcs
      /\ run'.listed = run.listed /\ run'.unreadable = run.unreadable /\ run'.policy = run.policy
  BY <1>1, <1>2, <1>3 DEF MemberRuns
<1>10. run' \in MemberRuns
  <2>1. run' = MemberRun(run'.at, run.dn, run.primary, run'.toRead, run.listed, run.policy, run.unreadable)
    BY <1>1, <1>2, <1>9 DEF MemberRuns, MemberRun
  <2>2. run'.at \in 0..7 /\ run'.toRead \in SUBSET (Groups \cup Rodcs)
    BY <1>9
  <2>3. /\ run.dn \in [M!Dns -> M!Members \cup {None}] /\ run.listed \in [Groups -> SUBSET M!Dns]
        /\ run.primary \in [Accounts -> Groups \cup {None}]
        /\ run.policy \in [M!PolicyKeys -> {"direct", None}] /\ run.unreadable \in SUBSET Rodcs
    BY MemberParts
  <2> QED
    BY <2>1, <2>2, <2>3, MemberRunTyped
<1>11. tx' = MemberTables(tx.dn, rows, tx.policy)
  BY <1>1, <1>2 DEF M!MemberRows, MemberTables
<1>12. tx'.dn = tx.dn /\ tx'.member = rows /\ tx'.policy = tx.policy /\ tx' \in M!MemberRows
  <2>1. tx' \in M!MemberRows
    BY <1>8, <1>11, MemberParts, MemberTablesTyped
  <2> QED
    BY <1>11, <2>1 DEF MemberTables
<1>13. /\ AccountsKnown'
       /\ \A m : (M!Steady(m)' <=> M!Steady(m)) /\ (M!Seen(m)' <=> M!Seen(m))
                   /\ (Findable(m)' <=> Findable(m))
       /\ \A n : M!Resolved(n)' = M!Resolved(n)
  BY <1>1, <1>3, <1>9, <1>12, MemberKeeps
\* A foreign security principal that a list leads to is known.
<1>14. ASSUME NEW k \in M!MemberKeys, k[2] \in Foreign, rows[k] # None
       PROVE  tx.dn[k[2]] # None
  <2>1. CASE desired[k] = None
    BY <1>5, <1>14, <2>1 DEF RowFrom
  <2>2. CASE desired[k] # None
    <3>1. PICK n \in run.listed[k[1]] : M!Resolved(n) = k[2]
      BY <1>4, <1>14, <2>2, MemberConstants DEF Lists
    <3>2. n \in M!Dns /\ n # None /\ k[2] # None
      BY <3>1, MemberParts, MemberConstants
    <3>3. CASE run.dn[n] # None
      <4>1. run.dn[n] = k[2]
        BY <3>1, <3>3 DEF M!Resolved
      <4>2. n \in Foreign
        BY <1>14, <3>2, <4>1, MemberConstants DEF MemberInv, MemberProgress, M!Dns
      <4> QED
        BY <3>2, <3>3, <4>1, <4>2 DEF MemberInv, MemberProgress
    <3>4. CASE run.dn[n] = None
      <4>1. \E o \in M!Members : tx.dn[o] = n
        BY <3>1, <3>2, <3>4 DEF M!Resolved
      <4>2. k[2] = CHOOSE o \in M!Members : tx.dn[o] = n
        BY <3>1, <3>4, <4>1 DEF M!Resolved
      <4>3. tx.dn[k[2]] = n
        BY <4>1, <4>2
      <4> QED
        BY <3>2, <4>3
    <3> QED
      BY <3>3, <3>4
  <2> QED
    BY <2>1, <2>2
<1>15. MemberTypes'
  <2>1. ForeignKnown(tx')
    BY <1>12, <1>14 DEF ForeignKnown
  <2> QED
    BY <1>1, <1>10, <1>12, <2>1 DEF MemberInv, MemberTypes
<1>16. MemberProgress'
  <2>1. run.unreadable = {} /\ \A k \in M!PolicyKeys : run.policy[k] = None
    BY <1>3 DEF MemberInv, MemberProgress
  <2>2. tx.policy = db.policy
    BY <1>3 DEF MemberInv, MemberProgress
  <2>3. /\ \A n \in Names : run.dn[n] \in Accounts \cup {None}
        /\ \A n \in Foreign : run.dn[n] \in {n, None} /\ (run.dn[n] # None => tx.dn[n] # None)
    BY DEF MemberInv, MemberProgress
  <2> QED
    BY <1>1, <1>9, <1>12, <2>1, <2>2, <2>3 DEF MemberProgress
<1>17. MemberHeld'
  <2>1. \A k \in M!PolicyKeys : k[1] \in run'.toRead
    BY <1>9, MemberConstants
  <2>2. \A k \in M!MemberKeys : M!Membership(ad, k) \in held.member[k]
    BY <1>3 DEF MemberInv, MemberHeld
  <2>3. \A k \in M!PolicyKeys : M!Revealed(ad, k) \in held.policy[k]
    BY <1>3 DEF MemberInv, MemberHeld
  <2> QED
    BY <1>1, <1>9, <2>1, <2>2, <2>3 DEF MemberHeld
<1>18. ASSUME NEW k \in M!MemberKeys, M!Steady(k[2])
       PROVE  /\ Findable(k[2]) => M!FlagOf(rows[k]) \in held.member[k]
              /\ M!SameGrant(db.member[k], held.member[k])
                   => rows[k] # None /\ rows[k].since = db.member[k].since
  <2>1. k[2] \in M!Members /\ k = <<k[1], k[2]>>
    BY MemberConstants
  <2>2. ASSUME Findable(k[2]) PROVE desired[k] \in held.member[k]
    <3>1. /\ Lists(k) => "direct" \in held.member[k]
          /\ ~Lists(k) /\ ~(k[2] \in Accounts /\ run.primary[k[2]] = k[1]) => None \in held.member[k]
      BY <1>3, <1>18, <2>2 DEF MemberInv, MemberHeld
    <3>2. k[2] \in Accounts /\ run.primary[k[2]] = k[1] => "primary" \in held.member[k]
      <4> SUFFICES ASSUME k[2] \in Accounts, run.primary[k[2]] = k[1]
                   PROVE  "primary" \in held.member[k]
        OBVIOUS
      <4>1. run.primary[k[2]] # None
        BY MemberConstants
      <4>2. "primary" \in held.member[<<run.primary[k[2]], k[2]>>]
        BY <1>3, <4>1 DEF MemberInv, AccountsKnown
      <4> QED
        BY <2>1, <4>2
    <3> QED
      BY <1>4, <3>1, <3>2
  <2>3. M!FlagOf(rows[k]) = desired[k]
    BY <1>5 DEF RowFrom, M!FlagOf
  <2>4. ASSUME M!SameGrant(db.member[k], held.member[k])
        PROVE  rows[k] # None /\ rows[k].since = db.member[k].since
    <3>1. /\ db.member[k] # None /\ db.member[k].flag # None /\ tx.member[k] = db.member[k]
          /\ held.member[k] = {db.member[k].flag}
      BY <1>3, <2>4, MemberFlags DEF MemberInv, MemberProgress, M!SameGrant
    <3>2. Findable(k[2])
      <4>1. CASE k[2] \in Foreign
        BY <3>1, <4>1 DEF MemberInv, MemberTypes, ForeignKnown, Findable
      <4>2. CASE k[2] \in Accounts
        <5>1. M!Membership(ad, k) # None
          BY <1>3, <3>1 DEF MemberInv, MemberHeld
        <5>2. ad.name[k[2]] # None
          <6>1. CASE k[2] \in ad.member[k[1]]
            BY <4>2, <6>1, MemberParts, MemberConstants DEF DirectoryOK
          <6>2. CASE k[2] \notin ad.member[k[1]]
            BY <4>2, <5>1, <6>2, MemberNames DEF M!Membership
          <6> QED
            BY <6>1, <6>2
        <5>3. M!Exists(ad, k[2])
          BY <4>2, <5>2, MemberNames
        <5> QED
          BY <1>3, <1>18, <2>1, <4>2, <5>3, FoundByName DEF Findable
      <4> QED
        BY <2>1, <4>1, <4>2 DEF M!Members
    <3>3. desired[k] = tx.member[k].flag /\ tx.member[k] # None
      BY <2>2, <3>1, <3>2
    <3> QED
      BY <1>5, <3>1, <3>3 DEF RowFrom
  <2> QED
    BY <2>2, <2>3, <2>4
<1>19. MemberSynced'
  BY <1>1, <1>9, <1>12, <1>13, <1>18 DEF MemberSynced
<1> QED
  BY <1>13, <1>15, <1>16, <1>17, <1>19 DEF MemberInv

-----------------------------------------------------------------------------
(* Memberships: the policies are read, and the table is synced.            *)

\* One policy less to read: what it said is wanted, or it is noted as not read.
LEMMA PolicyDealtWith ==
  ASSUME MemberInv, run.at = 5, NEW r \in Rodcs, r \in run.toRead,
         NEW policy \in [M!PolicyKeys -> {"direct", None}], NEW unreadable \in SUBSET Rodcs,
         ad' = ad, db' = db, tx' = tx, runs' = runs, held' = held,
         run' = MemberRun(M!After(r), run.dn, run.primary, run.toRead \ {r}, run.listed, policy,
                          unreadable),
         \A k \in M!PolicyKeys : k[1] # r => policy[k] = run.policy[k],
         \/ unreadable = run.unreadable \cup {r} /\ policy = run.policy
         \/ /\ unreadable = run.unreadable
            /\ \A k \in M!PolicyKeys : k[1] = r /\ M!Steady(k[2]) /\ M!Seen(k[2])
                 => policy[k] \in held.policy[k]
  PROVE  MemberInv'
<1>1. /\ run'.at = M!After(r) /\ run'.dn = run.dn /\ run'.primary = run.primary
      /\ run'.toRead = run.toRead \ {r} /\ run'.listed = run.listed
      /\ run'.unreadable = unreadable /\ run'.policy = policy
  BY DEF MemberRun
<1>2. /\ M!After(r) \in {5, 6}
      /\ M!After(r) = 6 => run.toRead \ {r} = {}
  BY DEF M!After
<1>3. run' \in MemberRuns
  <2>1. /\ run.dn \in [M!Dns -> M!Members \cup {None}]
        /\ run.primary \in [Accounts -> Groups \cup {None}]
        /\ run.toRead \ {r} \in SUBSET (Groups \cup Rodcs)
        /\ run.listed \in [Groups -> SUBSET M!Dns]
    BY MemberParts
  <2>2. M!After(r) \in 0..7
    BY <1>2
  <2> QED
    BY <2>1, <2>2, MemberRunTyped
<1>4. /\ AccountsKnown'
      /\ \A m : (M!Steady(m)' <=> M!Steady(m)) /\ (M!Seen(m)' <=> M!Seen(m))
                  /\ (Findable(m)' <=> Findable(m))
  BY <1>1, MemberKeeps
<1>5. MemberTypes'
  BY <1>3 DEF MemberInv, MemberTypes
<1>6. \A k \in M!PolicyKeys : k[1] \in run.toRead => run.policy[k] = None /\ k[1] \notin run.unreadable
  BY DEF MemberInv, MemberProgress
<1>7. MemberProgress'
  <2>1. \A k \in M!PolicyKeys : k[1] \in unreadable => policy[k] = None
    BY <1>6 DEF MemberInv, MemberProgress
  <2>2. \A k \in M!PolicyKeys : k[1] \in run.toRead \ {r} => policy[k] = None /\ k[1] \notin unreadable
    BY <1>6
  <2>3. tx.policy = db.policy
    BY DEF MemberInv, MemberProgress
  <2>4. /\ \A n \in Names : run.dn[n] \in Accounts \cup {None}
        /\ \A n \in Foreign : run.dn[n] \in {n, None} /\ (run.dn[n] # None => tx.dn[n] # None)
    BY DEF MemberInv, MemberProgress
  <2>5. /\ run'.at # 0 /\ run'.at # 1 /\ run'.at # 3 /\ run'.at # 4 /\ ~(run'.at <= 1)
        /\ ~(run'.at <= 4) /\ (run'.at = 6 => run'.toRead = {})
    <3>1. run'.at \in {5, 6}
      BY <1>1, <1>2
    <3>2. run'.at = 6 => run'.toRead = {}
      BY <1>1, <1>2
    <3> DEFINE at == run'.at
    <3>3. at # 0 /\ at # 1 /\ at # 3 /\ at # 4 /\ ~(at <= 1) /\ ~(at <= 4)
      <4>1. at = 5 \/ at = 6
        BY <3>1
      <4> HIDE DEF at
      <4> QED
        BY <4>1
    <3> QED
      BY <3>2, <3>3
  <2>6. \A k \in M!PolicyKeys : k[1] \in run'.toRead => run'.policy[k] = None /\ k[1] \notin run'.unreadable
    BY <1>1, <2>2
  <2>7. \A k \in M!PolicyKeys : k[1] \in run'.unreadable => run'.policy[k] = None
    BY <1>1, <2>1
  <2>8. /\ \A n \in Names : run'.dn[n] \in Accounts \cup {None}
        /\ \A n \in Foreign : run'.dn[n] \in {n, None} /\ (run'.dn[n] # None => tx'.dn[n] # None)
    BY <1>1, <2>4
  <2>9. tx'.policy = db'.policy
    BY <2>3
  <2> QED
    BY <2>5, <2>6, <2>7, <2>8, <2>9 DEF MemberProgress
<1>8. MemberHeld'
  <2>1. \A k \in M!MemberKeys : M!Membership(ad, k) \in held.member[k]
    BY DEF MemberInv, MemberHeld
  <2>2. ASSUME NEW k \in M!PolicyKeys
        PROVE  /\ M!Revealed(ad, k) \in held.policy[k]
               /\ k[1] \notin (run.toRead \ {r}) \cup unreadable /\ M!Steady(k[2]) /\ M!Seen(k[2])
                    => policy[k] \in held.policy[k]
    <3>1. M!Revealed(ad, k) \in held.policy[k]
      BY DEF MemberInv, MemberHeld
    <3>2. CASE k[1] = r
      BY <3>1, <3>2
    <3>3. CASE k[1] # r
      <4>1. k[1] \notin run.toRead \cup run.unreadable /\ M!Steady(k[2]) /\ M!Seen(k[2])
              => run.policy[k] \in held.policy[k]
        BY DEF MemberInv, MemberHeld
      <4> QED
        BY <3>1, <3>3, <4>1
    <3> QED
      BY <3>2, <3>3
  <2>3. run'.at # 3 /\ run'.at # 4
    BY <1>1, <1>2
  <2> QED
    BY <1>1, <1>4, <2>1, <2>2, <2>3 DEF MemberHeld
<1>9. MemberSynced'
  <2>1. run'.at # 7
    BY <1>1, <1>2
  <2> QED
    BY <1>4, <2>1 DEF MemberInv, MemberSynced
<1> QED
  BY <1>4, <1>5, <1>7, <1>8, <1>9 DEF MemberInv

LEMMA PolicyReads ==
  ASSUME MemberInv, NEW r \in Rodcs, M!ReadPolicy(r) \/ M!PolicyUnreadable(r)
  PROVE  MemberInv'
<1>1. ad' = ad /\ db' = db /\ tx' = tx /\ runs' = runs /\ held' = held /\ r \in run.toRead
  BY DEF M!ReadPolicy, M!PolicyUnreadable
<1>2. run \in MemberRuns
  BY DEF MemberInv, MemberTypes
<1>3. run.at = 5
  BY MemberParts, MemberAt DEF M!ReadPolicy, M!PolicyUnreadable
<1>4. run.policy \in [M!PolicyKeys -> {"direct", None}] /\ run.unreadable \in SUBSET Rodcs
  BY MemberParts
<1>5. CASE M!PolicyUnreadable(r)
  <2>1. run' = [run EXCEPT !.toRead = @ \ {r}, !.at = M!After(r), !.unreadable = @ \cup {r}]
    BY <1>5 DEF M!PolicyUnreadable
  <2>2. run' = MemberRun(M!After(r), run.dn, run.primary, run.toRead \ {r}, run.listed, run.policy,
                         run.unreadable \cup {r})
    BY <1>2, <2>1 DEF MemberRuns, MemberRun
  <2>3. run.unreadable \cup {r} \in SUBSET Rodcs
    BY <1>4
  <2> QED
    BY <1>1, <1>3, <1>4, <2>2, <2>3, PolicyDealtWith
<1>6. CASE M!ReadPolicy(r)
  <2> DEFINE reads(k) == \E m \in ad.policy[r] : run.dn[M!DnOf(ad, m)] = k[2]
             policy == [k \in M!PolicyKeys |-> IF k[1] # r THEN run.policy[k]
                                               ELSE IF reads(k) THEN "direct" ELSE None]
  <2>1. run' = [run EXCEPT !.toRead = @ \ {r}, !.at = M!After(r), !.policy = policy]
    BY <1>6 DEF M!ReadPolicy
  <2>2. policy \in [M!PolicyKeys -> {"direct", None}]
    BY <1>4
  <2>3. \A k \in M!PolicyKeys : k[1] # r => policy[k] = run.policy[k]
    OBVIOUS
  <2>4. ASSUME NEW k \in M!PolicyKeys, k[1] = r, M!Steady(k[2]), M!Seen(k[2])
        PROVE  policy[k] \in held.policy[k]
    <3>1. M!Revealed(ad, k) \in held.policy[k]
      BY <1>3 DEF MemberInv, MemberHeld
    <3>2. policy[k] = IF reads(k) THEN "direct" ELSE None
      BY <2>4
    <3>3. k[2] \in M!Members
      BY MemberConstants
    <3>4. \A m \in ad.policy[r] : m \in M!Members /\ M!Exists(ad, m)
      <4> SUFFICES ASSUME NEW m \in ad.policy[r] PROVE m \in M!Members /\ M!Exists(ad, m)
        OBVIOUS
      <4>1. m \in M!Members
        BY MemberParts
      <4>2. CASE m \in Accounts
        BY <4>1, <4>2, MemberNames, MemberParts DEF DirectoryOK
      <4>3. CASE m \in Foreign
        BY <4>1, <4>3, MemberNames
      <4> QED
        BY <4>1, <4>2, <4>3 DEF M!Members
    <3>5. reads(k) => k[2] \in ad.policy[r]
      <4> SUFFICES ASSUME NEW m \in ad.policy[r], run.dn[M!DnOf(ad, m)] = k[2]
                   PROVE  k[2] \in ad.policy[r]
        OBVIOUS
      <4>1. m = k[2]
        BY <1>3, <2>4, <3>3, <3>4, NamedInRun
      <4> QED
        BY <4>1
    <3>6. k[2] \in ad.policy[r] => reads(k)
      <4> SUFFICES ASSUME k[2] \in ad.policy[r] PROVE reads(k)
        OBVIOUS
      <4>1. run.dn[M!DnOf(ad, k[2])] = k[2]
        BY <1>3, <2>4, <3>3, <3>4, FoundByName
      <4> QED
        BY <4>1
    <3> HIDE DEF reads, policy
    <3> QED
      BY <2>4, <3>1, <3>2, <3>5, <3>6 DEF M!Revealed
  <2> HIDE DEF policy
  <2>5. run' = MemberRun(M!After(r), run.dn, run.primary, run.toRead \ {r}, run.listed, policy,
                         run.unreadable)
    BY <1>2, <2>1 DEF MemberRuns, MemberRun
  <2> QED
    BY <1>1, <1>3, <1>4, <2>2, <2>3, <2>4, <2>5, PolicyDealtWith
<1> QED
  BY <1>5, <1>6

LEMMA PolicySyncs ==
  ASSUME MemberInv, M!SyncPolicies
  PROVE  MemberInv'
<1> DEFINE unread == {k \in M!PolicyKeys : k[1] \in run.unreadable}
           rows == M!SyncEdges(tx.policy, M!Carried(tx.policy, run.policy, unread), runs)
<1>1. /\ ad' = ad /\ db' = db /\ runs' = runs /\ held' = held
      /\ run' = [run EXCEPT !.at = @ + 1]
      /\ tx' = [tx EXCEPT !.policy = rows]
  BY DEF M!SyncPolicies
<1>2. run \in MemberRuns /\ tx \in M!MemberRows
  BY DEF MemberInv, MemberTypes
<1>3. run.at = 6 /\ run.toRead = {} /\ tx.policy = db.policy
  BY MemberParts, MemberAt DEF M!SyncPolicies, MemberInv, MemberProgress
<1>4. ASSUME NEW k \in M!PolicyKeys
      PROVE  CarriedRow(rows[k], tx.policy[k], run.policy[k], unread, k)
  <2>1. tx.policy[k] \in AnyRow \cup {None} /\ k \in DOMAIN tx.policy
    BY MemberParts DEF M!EdgesOf, AnyRow, Said
  <2>2. run.policy[k] \in Said \cup {None}
    BY MemberParts DEF Said
  <2> HIDE DEF unread
  <2> QED
    BY <2>1, <2>2, MemberParts, CarriedKey
<1>5. \A k \in M!PolicyKeys : k \in unread <=> k[1] \in run.unreadable
  OBVIOUS
<1>6. DOMAIN rows = M!PolicyKeys /\ rows = [k \in M!PolicyKeys |-> rows[k]]
  BY MemberParts DEF M!SyncEdges, M!Synced, M!PayloadReconciled
<1> HIDE DEF rows, unread
<1>7. ASSUME NEW k \in M!PolicyKeys PROVE rows[k] \in M!EdgesOf({"direct"}) \cup {None}
  <2>1. /\ tx.policy[k] # None => tx.policy[k].flag = "direct"
        /\ run.policy[k] # None => run.policy[k] = "direct"
    BY MemberParts DEF M!EdgesOf
  <2>2. rows[k] # None => tx.policy[k] # None \/ run.policy[k] # None
    BY <1>4 DEF CarriedRow
  <2>3. rows[k] # None => rows[k].flag = "direct" /\ rows[k] \in AnyRow
    <3>1. /\ rows[k] \in AnyRow \cup {None}
          /\ rows[k] # None => rows[k].flag = run.policy[k]
                                 \/ (tx.policy[k] # None /\ rows[k].flag = tx.policy[k].flag)
      BY <1>4 DEF CarriedRow
    <3>2. rows[k] # None => rows[k].flag # None
      BY <3>1, Values DEF AnyRow
    <3> QED
      BY <2>1, <3>1, <3>2
  <2> QED
    BY <2>3 DEF AnyRow, M!EdgesOf
<1>8. rows \in [M!PolicyKeys -> M!EdgesOf({"direct"}) \cup {None}]
  BY <1>6, <1>7
<1>9. /\ run'.at = 7 /\ run'.dn = run.dn /\ run'.primary = run.primary /\ run'.toRead = run.toRead
      /\ run'.listed = run.listed /\ run'.unreadable = run.unreadable /\ run'.policy = run.policy
  BY <1>1, <1>2, <1>3 DEF MemberRuns
<1>10. run' \in MemberRuns
  <2>1. run' = MemberRun(run'.at, run.dn, run.primary, run.toRead, run.listed, run.policy, run.unreadable)
    BY <1>1, <1>2, <1>9 DEF MemberRuns, MemberRun
  <2>2. run'.at \in 0..7
    BY <1>9
  <2>3. /\ run.dn \in [M!Dns -> M!Members \cup {None}] /\ run.listed \in [Groups -> SUBSET M!Dns]
        /\ run.primary \in [Accounts -> Groups \cup {None}]
        /\ run.toRead \in SUBSET (Groups \cup Rodcs)
        /\ run.policy \in [M!PolicyKeys -> {"direct", None}] /\ run.unreadable \in SUBSET Rodcs
    BY MemberParts
  <2> QED
    BY <2>1, <2>2, <2>3, MemberRunTyped
<1>11. tx' = MemberTables(tx.dn, tx.member, rows)
  BY <1>1, <1>2 DEF M!MemberRows, MemberTables
<1>12. tx'.dn = tx.dn /\ tx'.member = tx.member /\ tx'.policy = rows /\ tx' \in M!MemberRows
  <2>1. tx' \in M!MemberRows
    BY <1>8, <1>11, MemberParts, MemberTablesTyped
  <2> QED
    BY <1>11, <2>1 DEF MemberTables
<1>13. /\ AccountsKnown'
       /\ \A m : (M!Steady(m)' <=> M!Steady(m)) /\ (M!Seen(m)' <=> M!Seen(m))
                   /\ (Findable(m)' <=> Findable(m))
  BY <1>1, <1>3, <1>9, <1>12, MemberKeeps
<1>14. MemberTypes'
  BY <1>1, <1>10, <1>12 DEF MemberInv, MemberTypes, ForeignKnown
<1>15. MemberProgress'
  <2>1. \A k \in M!PolicyKeys : k[1] \in run.unreadable => run.policy[k] = None
    BY DEF MemberInv, MemberProgress
  <2>2. /\ \A n \in Names : run.dn[n] \in Accounts \cup {None}
        /\ \A n \in Foreign : run.dn[n] \in {n, None} /\ (run.dn[n] # None => tx.dn[n] # None)
    BY DEF MemberInv, MemberProgress
  <2> QED
    BY <1>1, <1>9, <1>12, <2>1, <2>2 DEF MemberProgress
<1>16. MemberHeld'
  <2>1. \A k \in M!MemberKeys : M!Membership(ad, k) \in held.member[k]
    BY <1>3 DEF MemberInv, MemberHeld
  <2>2. \A k \in M!PolicyKeys : M!Revealed(ad, k) \in held.policy[k]
    BY <1>3 DEF MemberInv, MemberHeld
  <2> QED
    BY <1>1, <1>9, <2>1, <2>2 DEF MemberHeld
<1>17. ASSUME NEW k \in M!PolicyKeys
       PROVE  /\ k[1] \in run.unreadable => rows[k] = db.policy[k]
              /\ M!Steady(k[2]) /\ M!Seen(k[2]) =>
                   /\ k[1] \notin run.unreadable => M!FlagOf(rows[k]) \in held.policy[k]
                   /\ M!SameGrant(db.policy[k], held.policy[k])
                        => rows[k] # None /\ rows[k].since = db.policy[k].since
  <2>1. ASSUME k[1] \in run.unreadable PROVE rows[k] = db.policy[k]
    <3>1. run.policy[k] = None
      BY <2>1 DEF MemberInv, MemberProgress
    <3> QED
      BY <1>3, <1>4, <1>5, <2>1, <3>1 DEF CarriedRow
  <2>2. M!Steady(k[2]) /\ M!Seen(k[2]) /\ k[1] \notin run.unreadable => run.policy[k] \in held.policy[k]
    BY <1>3 DEF MemberInv, MemberHeld
  <2>3. k[1] \notin run.unreadable => M!FlagOf(rows[k]) = run.policy[k]
    BY <1>4, <1>5 DEF CarriedRow, M!FlagOf
  <2>4. ASSUME M!Steady(k[2]), M!Seen(k[2]), M!SameGrant(db.policy[k], held.policy[k])
        PROVE  rows[k] # None /\ rows[k].since = db.policy[k].since
    <3>1. /\ db.policy[k] # None /\ db.policy[k].flag # None
          /\ held.policy[k] = {db.policy[k].flag}
      BY <2>4, MemberFlags DEF M!SameGrant
    <3>2. CASE k[1] \in run.unreadable
      BY <2>1, <3>1, <3>2
    <3>3. CASE k[1] \notin run.unreadable
      <4>1. run.policy[k] = tx.policy[k].flag /\ tx.policy[k] # None /\ run.policy[k] # None
        BY <1>3, <2>2, <2>4, <3>1, <3>3
      <4> QED
        BY <1>3, <1>4, <1>5, <3>3, <4>1 DEF CarriedRow
    <3> QED
      BY <3>2, <3>3
  <2> QED
    BY <2>1, <2>2, <2>3, <2>4
<1>18. MemberSynced'
  BY <1>1, <1>3, <1>9, <1>12, <1>13, <1>17 DEF MemberInv, MemberSynced
<1> QED
  BY <1>13, <1>14, <1>15, <1>16, <1>18 DEF MemberInv

-----------------------------------------------------------------------------
(* Memberships: what follows.                                              *)

LEMMA MemberCommitted ==
  ASSUME MemberInv, M!Commit
  PROVE  /\ run.at = 7 /\ db'.member = tx.member /\ db'.policy = tx.policy
         /\ \A m \in M!Members : db'.dn[m] # None => tx.dn[m] # None
         /\ db' \in M!MemberRows /\ DnsOwn(db'.dn) /\ ForeignKnown(db')
<1> DEFINE dn == [m \in M!Members |-> IF M!Exists(ad, m) THEN tx.dn[m] ELSE None]
<1>1. run.at = 7
  BY MemberParts, MemberAt DEF M!Commit
<1>2. db' = [tx EXCEPT !.dn = dn] /\ tx \in M!MemberRows
  BY DEF M!Commit, MemberInv, MemberTypes
<1>3. dn \in [M!Members -> M!Dns \cup {None}]
  BY MemberParts
<1>4. /\ \A m \in M!Members : dn[m] = tx.dn[m] \/ dn[m] = None
      /\ \A m \in Foreign : dn[m] = tx.dn[m]
  BY MemberNames, MemberConstants
<1> HIDE DEF dn
<1>5. db' = MemberTables(dn, tx.member, tx.policy)
  BY <1>2 DEF M!MemberRows, MemberTables
<1>6. db'.dn = dn /\ db'.member = tx.member /\ db'.policy = tx.policy /\ db' \in M!MemberRows
  <2>1. db' \in M!MemberRows
    BY <1>3, <1>5, MemberParts, MemberTablesTyped
  <2> QED
    BY <1>5, <2>1 DEF MemberTables
<1>7. DnsOwn(dn)
  BY <1>4, MemberParts, MemberConstants DEF DnsOwn
<1>8. ForeignKnown(db')
  BY <1>4, <1>6 DEF ForeignKnown, MemberInv, MemberTypes
<1> QED
  BY <1>1, <1>4, <1>6, <1>7, <1>8

LEMMA MemberNext ==
  ASSUME MemberInv, M!Next
  PROVE  MemberInv'
<1>1. DirectoryOK(ad) /\ runs \in 0..MaxRuns
  BY DEF MemberInv, MemberTypes
<1>2. ASSUME M!Commit PROVE MemberInv'
  <2>1. db' \in M!MemberRows /\ DnsOwn(db'.dn) /\ ForeignKnown(db')
    BY <1>2, MemberCommitted
  <2>2. ad' = ad /\ tx' = db' /\ runs' = runs /\ run' = M!Idle /\ held' = M!NoneHeld
    BY <1>2 DEF M!Commit
  <2> QED
    BY <1>1, <2>1, <2>2, BoundsAssumption, MemberEnds
<1>3. ASSUME M!RollBack PROVE MemberInv'
  <2>1. db \in M!MemberRows /\ DnsOwn(db.dn) /\ ForeignKnown(db)
    BY DEF MemberInv, MemberTypes
  <2>2. /\ ad' = ad /\ db' = db /\ tx' = db /\ runs' = runs /\ run' = M!Idle
        /\ held' = M!NoneHeld
    BY <1>3 DEF M!RollBack
  <2>3. db' \in M!MemberRows /\ DnsOwn(db'.dn) /\ ForeignKnown(db') /\ tx' = db'
    BY <2>1, <2>2 DEF ForeignKnown
  <2> QED
    BY <1>1, <2>2, <2>3, BoundsAssumption, MemberEnds
<1>4. CASE M!Directory
  BY <1>4, MemberDirectory
<1>5. CASE M!Collect
  <2>1. CASE \E g \in Groups : M!ReadMembers(g)
    BY <2>1, MemberReads
  <2>2. CASE \E r \in Rodcs : M!ReadPolicy(r) \/ M!PolicyUnreadable(r)
    BY <2>2, PolicyReads
  <2> QED
    BY <1>2, <1>3, <1>5, <2>1, <2>2, MemberStarts, MemberEnumeratesAccounts,
       MemberEnumeratesForeign, MemberSyncs, PolicySyncs
    DEF M!Collect
<1> QED
  BY <1>4, <1>5 DEF M!Next

LEMMA MemberKeepsTypes == MemberInv => M!TypeOK
<1> SUFFICES ASSUME MemberInv PROVE M!TypeOK
  OBVIOUS
<1>1. Len(M!Order) = 7
  BY DEF M!Order
<1>2. \A g \in Groups : ad.member[g] \subseteq {m \in M!Members : M!Exists(ad, m)}
  <2> SUFFICES ASSUME NEW g \in Groups, NEW m \in ad.member[g] PROVE m \in M!Members /\ M!Exists(ad, m)
    OBVIOUS
  <2>1. m \in M!Members
    BY MemberParts
  <2>2. CASE m \in Accounts
    BY <2>1, <2>2, MemberNames, MemberParts DEF DirectoryOK
  <2>3. CASE m \in Foreign
    BY <2>1, <2>3, MemberNames
  <2> QED
    BY <2>1, <2>2, <2>3 DEF M!Members
<1>3. \A m \in Accounts : M!Exists(ad, m) => m \notin ad.member[ad.primary[m]]
  BY MemberNames, MemberParts DEF DirectoryOK
<1>4. db \in M!MemberRows /\ tx \in M!MemberRows
  BY DEF MemberInv, MemberTypes
<1> QED
  BY <1>1, <1>2, <1>3, <1>4, MemberParts DEF M!TypeOK

\* What a commit leaves is what the transaction had.
LEMMA MemberCommits ==
  ASSUME MemberInv, M!Commit
  PROVE  M!UnreadKept /\ M!Mirrored /\ M!NotFalselyNew
<1>1. /\ run.at = 7 /\ db'.member = tx.member /\ db'.policy = tx.policy
      /\ \A m \in M!Members : db'.dn[m] # None => tx.dn[m] # None
  BY MemberCommitted
<1>2. \A k \in M!MemberKeys : M!Steady(k[2]) =>
       /\ Findable(k[2]) => M!FlagOf(tx.member[k]) \in held.member[k]
       /\ M!SameGrant(db.member[k], held.member[k])
            => tx.member[k] # None /\ tx.member[k].since = db.member[k].since
  BY <1>1 DEF MemberInv, MemberSynced
<1>3. \A k \in M!PolicyKeys :
       /\ k[1] \in run.unreadable => tx.policy[k] = db.policy[k]
       /\ M!Steady(k[2]) /\ M!Seen(k[2]) =>
            /\ k[1] \notin run.unreadable => M!FlagOf(tx.policy[k]) \in held.policy[k]
            /\ M!SameGrant(db.policy[k], held.policy[k])
                 => tx.policy[k] # None /\ tx.policy[k].since = db.policy[k].since
  BY <1>1 DEF MemberInv, MemberSynced
<1>4. M!UnreadKept
  BY <1>1, <1>3 DEF M!UnreadKept
<1>5. M!Mirrored
  BY <1>1, <1>2, <1>3, MemberConstants DEF M!Mirrored, Findable
<1>6. M!NotFalselyNew
  BY <1>1, <1>2, <1>3 DEF M!NotFalselyNew, M!Kept
<1> QED
  BY <1>4, <1>5, <1>6

-----------------------------------------------------------------------------
(* The three parts together.                                               *)

EdgeInv ==
  /\ part \in {"acl", "membership", "policy content"}
  /\ Acl => AclInv
  /\ Membership => MemberInv
  /\ PolicyContent => SysvolInv

LEMMA EdgeInit == Init => EdgeInv
<1> SUFFICES ASSUME Init PROVE EdgeInv
  OBVIOUS
<1>1. CASE part = "acl" /\ E!Init
  BY <1>1, BoundsAssumption, AclInit DEF EdgeInv, Acl, Membership, PolicyContent
<1>2. CASE part = "membership" /\ M!Init
  BY <1>2, BoundsAssumption, MemberInit DEF EdgeInv, Acl, Membership, PolicyContent
<1>3. CASE part = "policy content" /\ S!Init
  BY <1>3, BoundsAssumption, SysvolInit DEF EdgeInv, Acl, Membership, PolicyContent
<1> QED
  BY <1>1, <1>2, <1>3 DEF Init

\* Nothing changes when no variable does.
LEMMA AclStutters ==
  ASSUME AclInv, UNCHANGED vars
  PROVE  AclInv'
<1>1. ad' = ad /\ db' = db /\ tx' = tx /\ runs' = runs /\ run' = run /\ held' = held
  BY DEF vars
<1>2. AclTypes'
  BY <1>1 DEF AclInv, AclTypes
<1>3. AclProgress'
  BY <1>1 DEF AclInv, AclProgress, ClassUnread, Collected
<1>4. AclHeld'
  BY <1>1 DEF AclInv, AclHeld, ClassUnread, Collected, E!AclRead, E!Read
<1>5. AclSynced'
  BY <1>1 DEF AclInv, AclSynced, ClassUnread, E!AclRead, E!Read
<1> QED
  BY <1>2, <1>3, <1>4, <1>5 DEF AclInv

LEMMA SysvolStutters ==
  ASSUME SysvolInv, UNCHANGED vars
  PROVE  SysvolInv'
<1>1. ad' = ad /\ db' = db /\ tx' = tx /\ runs' = runs /\ run' = run /\ held' = held
  BY DEF vars
<1>2. SysvolTypes'
  BY <1>1 DEF SysvolInv, SysvolTypes
<1>3. SysvolProgress'
  BY <1>1 DEF SysvolInv, SysvolProgress, Wanted
<1>4. SysvolHeld'
  BY <1>1 DEF SysvolInv, SysvolHeld, Wanted
<1>5. SysvolSynced'
  BY <1>1 DEF SysvolInv, SysvolSynced
<1> QED
  BY <1>2, <1>3, <1>4, <1>5 DEF SysvolInv

LEMMA MemberStutters ==
  ASSUME MemberInv, UNCHANGED vars
  PROVE  MemberInv'
<1>1. ad' = ad /\ db' = db /\ tx' = tx /\ runs' = runs /\ run' = run /\ held' = held
  BY DEF vars
<1>2. MemberTypes'
  BY <1>1 DEF MemberInv, MemberTypes
<1>3. MemberProgress'
  BY <1>1 DEF MemberInv, MemberProgress
<1>4. AccountsKnown'
  BY <1>1 DEF MemberInv, AccountsKnown, M!Steady
<1>5. MemberHeld'
  BY <1>1 DEF MemberInv, MemberHeld, Lists, Findable, M!Steady, M!Seen, M!Resolved
<1>6. MemberSynced'
  BY <1>1 DEF MemberInv, MemberSynced, Findable, M!Steady, M!Seen
<1> QED
  BY <1>2, <1>3, <1>4, <1>5, <1>6 DEF MemberInv

LEMMA EdgeNext == EdgeInv /\ [Next]_vars => EdgeInv'
<1> SUFFICES ASSUME EdgeInv, [Next]_vars PROVE EdgeInv'
  OBVIOUS
<1>1. part' = part
  BY DEF Next, vars
<1>2. ASSUME Acl PROVE AclInv'
  <2>1. AclInv /\ ~Membership /\ ~PolicyContent
    BY <1>2 DEF EdgeInv, Acl, Membership, PolicyContent
  <2> QED
    BY <2>1, AclNext, AclStutters DEF Next
<1>3. ASSUME Membership PROVE MemberInv'
  <2>1. MemberInv /\ ~Acl /\ ~PolicyContent
    BY <1>3 DEF EdgeInv, Acl, Membership, PolicyContent
  <2> QED
    BY <2>1, MemberNext, MemberStutters DEF Next
<1>4. ASSUME PolicyContent PROVE SysvolInv'
  <2>1. SysvolInv /\ ~Acl /\ ~Membership
    BY <1>4 DEF EdgeInv, Acl, Membership, PolicyContent
  <2> QED
    BY <2>1, SysvolNext, SysvolStutters DEF Next
<1> QED
  BY <1>1, <1>2, <1>3, <1>4 DEF EdgeInv, Acl, Membership, PolicyContent

\* Every edge and every setting is of a kind its table has, both ends of an ACL
\* or link edge are known objects, and no setting of a Group Policy object is
\* older than the first run that read it.
THEOREM EdgeTypesCorrect == Spec => []TypeOK
<1>1. EdgeInv => TypeOK
  BY AclKeepsTypes, MemberKeepsTypes, SysvolKeepsTypes DEF EdgeInv, TypeOK
<1> QED
  BY <1>1, EdgeInit, EdgeNext, PTL DEF Spec

\* "Unknown is not empty", in every table: what a run could not read - a
\* descriptor, a class, a controller's policy, a folder, a share - and what is
\* not known to be gone keeps its edges, with the runs they were opened by.
THEOREM UnreadAlwaysKeeps == Spec => UnreadKeepsEdges
<1>1. ASSUME EdgeInv
      PROVE  /\ Acl => E!UnreadKept
             /\ Membership => M!UnreadKept
             /\ PolicyContent => S!UnreadKept
  <2>1. ASSUME Acl PROVE E!UnreadKept
    BY <1>1, <2>1, AclCommits DEF EdgeInv, E!UnreadKept
  <2>2. ASSUME Membership PROVE M!UnreadKept
    BY <1>1, <2>2, MemberCommits DEF EdgeInv, M!UnreadKept
  <2>3. ASSUME PolicyContent PROVE S!UnreadKept
    BY <1>1, <2>3, SysvolCommits DEF EdgeInv, S!UnreadKept
  <2> QED
    BY <2>1, <2>2, <2>3
<1> QED
  BY <1>1, EdgeInit, EdgeNext, PTL DEF Spec, UnreadKeepsEdges

\* Whatever changes in the directory or on the shares while a run reads, what
\* sync_edges() leaves of what was read was so at some moment of that run.
THEOREM EdgesAlwaysMirror == Spec => EdgesMirrorDirectory
<1>1. ASSUME EdgeInv
      PROVE  /\ Acl => E!Mirrored
             /\ Membership => M!Mirrored
             /\ PolicyContent => S!Mirrored
  <2>1. ASSUME Acl PROVE E!Mirrored
    BY <1>1, <2>1, AclCommits DEF EdgeInv, E!Mirrored
  <2>2. ASSUME Membership PROVE M!Mirrored
    BY <1>1, <2>2, MemberCommits DEF EdgeInv, M!Mirrored
  <2>3. ASSUME PolicyContent PROVE S!Mirrored
    BY <1>1, <2>3, SysvolCommits DEF EdgeInv, S!Mirrored
  <2> QED
    BY <2>1, <2>2, <2>3
<1> QED
  BY <1>1, EdgeInit, EdgeNext, PTL DEF Spec, EdgesMirrorDirectory

\* A grant that did not change while a run went by keeps the row and the
\* first_seen run it had, whichever other searches, descriptors or shares
\* failed: no plugin reports it as newly granted.
THEOREM NeverFalselyNew == Spec => NothingFalselyNew
<1>1. ASSUME EdgeInv
      PROVE  /\ Acl => E!NotFalselyNew
             /\ Membership => M!NotFalselyNew
             /\ PolicyContent => S!NotFalselyNew
  <2>1. ASSUME Acl PROVE E!NotFalselyNew
    BY <1>1, <2>1, AclCommits DEF EdgeInv, E!NotFalselyNew
  <2>2. ASSUME Membership PROVE M!NotFalselyNew
    BY <1>1, <2>2, MemberCommits DEF EdgeInv, M!NotFalselyNew
  <2>3. ASSUME PolicyContent PROVE S!NotFalselyNew
    BY <1>1, <2>3, SysvolCommits DEF EdgeInv, S!NotFalselyNew
  <2> QED
    BY <2>1, <2>2, <2>3
<1> QED
  BY <1>1, EdgeInit, EdgeNext, PTL DEF Spec, NothingFalselyNew
=============================================================================
