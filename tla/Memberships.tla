----------------------------- MODULE Memberships -----------------------------
(***************************************************************************)
(* adprofiler.py: the edges whose ends are found by name.  One run after   *)
(* another enumerates accounts and foreign security principals, reads the  *)
(* members of each group (collect_group_membership()) and the password     *)
(* replication policy of each read-only domain controller                  *)
(* (collect_rodc_prp_edges()), and looks up the names they list among      *)
(* those it has seen.  Meanwhile accounts are renamed, change their        *)
(* primary group and come and go.                                          *)
(*                                                                         *)
(* The run's variables and tables have the names they have in Edges.       *)
(***************************************************************************)
EXTENDS EdgeRows, Sequences

CONSTANTS
  Accounts,    \* users and computers: a run that cannot enumerate them ends
  Foreign,     \* foreign security principals, named after their SID for good
  Groups,
  Rodcs,
  Names,       \* distinguished names of accounts
  MaxChanges,  \* bound: directory changes
  MaxRuns      \* bound: runs

Members == Accounts \cup Foreign
MemberKeys == Groups \X Members
PolicyKeys == Rodcs \X Members

VARIABLES
  ad,       \* the directory: name, member, primary, policy
  changes,  \* changes made to it so far
  db,       \* committed rows: dn, member, policy
  tx,       \* the same as the run's transaction sees them
  runs,     \* runs begun
  run,      \* the running collector's variables
  held      \* history: values each key has had in ad since the run began, and
            \* the accounts that changed since they were enumerated (unsteady)


-----------------------------------------------------------------------------
(* The directory.                                                          *)

Dns == Names \cup Foreign
DnOf(d, m) == IF m \in Foreign THEN m ELSE d.name[m]
Exists(d, m) == DnOf(d, m) # None

\* How m belongs to g: listed, or as its primary group, which lists it not.
Membership(d, k) ==
  IF k[2] \in d.member[k[1]] THEN "direct"
  ELSE IF k[2] \in Accounts /\ Exists(d, k[2]) /\ d.primary[k[2]] = k[1] THEN "primary"
  ELSE None

Revealed(d, k) == IF k[2] \in d.policy[k[1]] THEN "direct" ELSE None

\* unsteady: accounts that an enumeration which is over has seen otherwise.
Change(d, unsteady) ==
  /\ changes < MaxChanges
  /\ changes' = changes + 1
  /\ ad' = d
  /\ held' = IF run.at = 0 THEN held
             ELSE [member |-> [k \in MemberKeys |-> held.member[k] \cup {Membership(d, k)}],
                   policy |-> [k \in PolicyKeys |-> held.policy[k] \cup {Revealed(d, k)}],
                   unsteady |-> held.unsteady \cup (IF run.at > 1 THEN unsteady ELSE {})]
  /\ UNCHANGED <<db, tx, runs, run>>

\* Accounts known by the name n: who takes it over is mistaken for them.
KnownAs(n) == {m \in Accounts : tx.dn[m] = n}

Free(n) == \A m \in Accounts : ad.name[m] # n

CreateAccount(m, n) ==
  /\ ad.name[m] = None /\ Free(n)
  /\ \E g \in Groups :
       /\ \A h \in Groups : m \notin ad.member[h]
       /\ Change([ad EXCEPT !.name[m] = n, !.primary[m] = g], {m} \cup KnownAs(n))

Rename(m, n) ==
  /\ ad.name[m] # None /\ Free(n)
  /\ Change([ad EXCEPT !.name[m] = n], {m} \cup KnownAs(n))

\* What lists a deleted account forgets it.
DeleteAccount(m) ==
  /\ ad.name[m] # None
  /\ Change([ad EXCEPT !.name[m] = None,
                       !.member = [g \in Groups |-> @[g] \ {m}],
                       !.policy = [r \in Rodcs |-> @[r] \ {m}]], {m})

AddMember(k) ==
  /\ Exists(ad, k[2]) /\ Membership(ad, k) = None
  /\ Change([ad EXCEPT !.member[k[1]] = @ \cup {k[2]}], {})
RemoveMember(k) ==
  /\ Membership(ad, k) = "direct"
  /\ Change([ad EXCEPT !.member[k[1]] = @ \ {k[2]}], {})

\* Only a group that lists an account can become its primary group; it stops
\* to list it, and the one before begins to.
ChangePrimaryGroup(m, g) ==
  /\ ad.name[m] # None /\ m \in ad.member[g]
  /\ Change([ad EXCEPT !.primary[m] = g,
                       !.member[g] = @ \ {m}, !.member[ad.primary[m]] = @ \cup {m}], {m})

ChangePolicy(k) ==
  /\ Exists(ad, k[2])
  /\ Change([ad EXCEPT !.policy[k[1]] = IF k[2] \in @ THEN @ \ {k[2]} ELSE @ \cup {k[2]}], {})

Directory ==
  \/ \E m \in Accounts, n \in Names : CreateAccount(m, n) \/ Rename(m, n)
  \/ \E m \in Accounts : DeleteAccount(m) \/ \E g \in Groups : ChangePrimaryGroup(m, g)
  \/ \E k \in MemberKeys : AddMember(k) \/ RemoveMember(k)
  \/ \E k \in PolicyKeys : ChangePolicy(k)

-----------------------------------------------------------------------------
(* The run: main()'s steps in their order.                                 *)

Order == <<"accounts", "foreign", "groups", "members", "rodcs", "policies", "commit">>

NoneHeld == [member |-> [k \in MemberKeys |-> {}], policy |-> [k \in PolicyKeys |-> {}], unsteady |-> {}]

Idle == [at |-> 0, dn |-> [n \in Dns |-> None], primary |-> [m \in Accounts |-> None],
         toRead |-> {}, listed |-> [g \in Groups |-> {}],
         policy |-> [k \in PolicyKeys |-> None], unreadable |-> {}]

At(step) == run.at > 0 /\ Order[run.at] = step

Start ==
  /\ run.at = 0
  /\ runs < MaxRuns
  /\ runs' = runs + 1
  /\ run' = [Idle EXCEPT !.at = 1]
  /\ tx' = db
  /\ held' = [member |-> [k \in MemberKeys |-> {Membership(ad, k)}],
              policy |-> [k \in PolicyKeys |-> {Revealed(ad, k)}], unsteady |-> {}]
  /\ UNCHANGED <<ad, changes, db>>

\* collect_object_class() of users, computers and groups: dn_to_guid, and
\* primaryGroupID among the attributes.
EnumerateAccounts ==
  /\ At("accounts")
  /\ LET found == {m \in Accounts : Exists(ad, m)} IN
       /\ run' = [run EXCEPT !.at = @ + 1,
                             !.dn = [n \in Dns |-> IF \E m \in found : ad.name[m] = n
                                                   THEN CHOOSE m \in found : ad.name[m] = n ELSE None],
                             !.primary = [m \in Accounts |-> IF m \in found THEN ad.primary[m] ELSE None]]
       /\ tx' = [tx EXCEPT !.dn = [m \in Members |-> IF m \in found THEN ad.name[m] ELSE @[m]]]
  /\ UNCHANGED <<ad, changes, db, runs, held>>

\* The same of the foreign security principals, which may fail after some of
\* them: not fatal.
EnumerateForeign ==
  /\ At("foreign")
  /\ \E found \in SUBSET Foreign :
       /\ run' = [run EXCEPT !.at = @ + 1,
                             !.toRead = Groups,
                             !.dn = [n \in Dns |-> IF n \in found THEN n ELSE @[n]]]
       /\ tx' = [tx EXCEPT !.dn = [m \in Members |-> IF m \in found THEN m ELSE @[m]]]
  /\ UNCHANGED <<ad, changes, db, runs, held>>

After(read) == IF run.toRead = {read} THEN run.at + 1 ELSE run.at

\* The base search of collect_group_membership() for one group.
ReadMembers(g) ==
  /\ At("groups") /\ g \in run.toRead
  /\ run' = [run EXCEPT !.toRead = @ \ {g}, !.at = After(g),
                        !.listed[g] = {DnOf(ad, m) : m \in ad.member[g]}]
  /\ UNCHANGED <<ad, changes, db, tx, runs, held>>

\* dn_to_guid of this run, else resolve_dns_from_database().
Resolved(n) ==
  IF run.dn[n] # None THEN run.dn[n]
  ELSE IF \E m \in Members : tx.dn[m] = n THEN CHOOSE m \in Members : tx.dn[m] = n
  ELSE None

\* The rest of collect_group_membership(): a name listed goes before the
\* primary group.
SyncMembers ==
  /\ At("members")
  /\ LET listed(k) == \E n \in run.listed[k[1]] : Resolved(n) = k[2]
         desired == [k \in MemberKeys |->
                       IF listed(k) THEN "direct"
                       ELSE IF k[2] \in Accounts /\ run.primary[k[2]] = k[1] THEN "primary" ELSE None]
     IN  tx' = [tx EXCEPT !.member = SyncEdges(@, desired, runs)]
  /\ run' = [run EXCEPT !.at = @ + 1, !.toRead = Rodcs]
  /\ UNCHANGED <<ad, changes, db, runs, held>>

\* collect_rodc_prp_edges(), for one controller: names this run has seen only ...
ReadPolicy(r) ==
  /\ At("rodcs") /\ r \in run.toRead
  /\ run' = [run EXCEPT !.toRead = @ \ {r}, !.at = After(r),
                        !.policy = [k \in PolicyKeys |->
                           IF k[1] # r THEN @[k]
                           ELSE IF \E m \in ad.policy[r] : run.dn[DnOf(ad, m)] = k[2] THEN "direct"
                           ELSE None]]
  /\ UNCHANGED <<ad, changes, db, tx, runs, held>>

\* ... unless it cannot be read.
PolicyUnreadable(r) ==
  /\ At("rodcs") /\ r \in run.toRead
  /\ run' = [run EXCEPT !.toRead = @ \ {r}, !.at = After(r), !.unreadable = @ \cup {r}]
  /\ UNCHANGED <<ad, changes, db, tx, runs, held>>

SyncPolicies ==
  /\ At("policies")
  /\ LET desired == Carried(tx.policy, run.policy, {k \in PolicyKeys : k[1] \in run.unreadable})
     IN  tx' = [tx EXCEPT !.policy = SyncEdges(@, desired, runs)]
  /\ run' = [run EXCEPT !.at = @ + 1]
  /\ UNCHANGED <<ad, changes, db, runs, held>>

\* collect_deleted_objects() finds the accounts deleted by now, then the commit.
Commit ==
  /\ At("commit")
  /\ db' = [tx EXCEPT !.dn = [m \in Members |-> IF Exists(ad, m) THEN @[m] ELSE None]]
  /\ tx' = db'
  /\ run' = Idle
  /\ held' = NoneHeld
  /\ UNCHANGED <<ad, changes, runs>>

\* LDAPCollectionError of any search that is not optional, and every other end.
RollBack ==
  /\ run.at > 0
  /\ tx' = db
  /\ run' = Idle
  /\ held' = NoneHeld
  /\ UNCHANGED <<ad, changes, db, runs>>

-----------------------------------------------------------------------------
Empty ==
  [dn |-> [m \in Members |-> None],
   member |-> [k \in MemberKeys |-> None], policy |-> [k \in PolicyKeys |-> None]]

\* Some accounts, in their first group only, and any lists besides.
Init ==
  /\ \E g \in Groups, names \in [Accounts -> Names \cup {None}], listed \in SUBSET Members :
       /\ \A m, n \in Accounts : names[m] = names[n] /\ names[m] # None => m = n
       /\ ad = [name |-> names,
                primary |-> [m \in Accounts |-> g],
                member |-> [h \in Groups |-> IF h = g THEN {}
                                             ELSE {m \in listed : m \in Foreign \/ names[m] # None}],
                policy |-> [r \in Rodcs |-> {m \in listed : m \in Foreign \/ names[m] # None}]]
  /\ changes = 0
  /\ db = Empty
  /\ tx = db
  /\ runs = 0
  /\ run = Idle
  /\ held = NoneHeld

Collect ==
  \/ Start
  \/ EnumerateAccounts
  \/ EnumerateForeign
  \/ \E g \in Groups : ReadMembers(g)
  \/ SyncMembers
  \/ \E r \in Rodcs : ReadPolicy(r) \/ PolicyUnreadable(r)
  \/ SyncPolicies
  \/ Commit
  \/ RollBack

Next == Directory \/ Collect

-----------------------------------------------------------------------------
(* What must hold.                                                         *)

MemberRows ==
  [dn : [Members -> Dns \cup {None}],
   member : [MemberKeys -> EdgesOf({"direct", "primary"}) \cup {None}],
   policy : [PolicyKeys -> EdgesOf({"direct"}) \cup {None}]]

\* Types, and what Active Directory ensures: no group lists those whose
\* primary group it is.
TypeOK ==
  /\ ad.name \in [Accounts -> Names \cup {None}]
  /\ ad.primary \in [Accounts -> Groups]
  /\ \A g \in Groups : ad.member[g] \subseteq {m \in Members : Exists(ad, m)}
  /\ \A m \in Accounts : Exists(ad, m) => m \notin ad.member[ad.primary[m]]
  /\ db \in MemberRows /\ tx \in MemberRows
  /\ runs \in 0..MaxRuns
  /\ run.at \in 0..Len(Order)
  /\ run.dn \in [Dns -> Members \cup {None}]

\* A controller whose policy could not be read keeps what was known of it.
UnreadKept ==
  Commit => \A k \in PolicyKeys : k[1] \in run.unreadable => db'.policy[k] = db.policy[k]

\* What a run reports of an account that did not change behind its back was so
\* at some moment of the run: nobody is a member for having had the name of
\* one, or for lack of one list among several.
Steady(m) == m \notin held.unsteady
Seen(m) == \E n \in Dns : run.dn[n] = m

Mirrored ==
  Commit =>
     /\ \A k \in MemberKeys : Steady(k[2]) /\ (Seen(k[2]) \/ db'.dn[k[2]] # None) =>
          FlagOf(db'.member[k]) \in held.member[k]
     /\ \A k \in PolicyKeys : Steady(k[2]) /\ Seen(k[2]) /\ k[1] \notin run.unreadable =>
          FlagOf(db'.policy[k]) \in held.policy[k]

\* Membership of a principal that was a member all along is not re-dated,
\* whether or not its class could be read.  A policy keeps only those it has seen.
NotFalselyNew ==
  Commit =>
     /\ Kept(db.member, db'.member, held.member, {k \in MemberKeys : Steady(k[2])})
     /\ Kept(db.policy, db'.policy, held.policy, {k \in PolicyKeys : Steady(k[2]) /\ Seen(k[2])})

=============================================================================
