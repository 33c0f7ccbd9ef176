----------------------------- MODULE Entra_proofs -----------------------------
(***************************************************************************)
(* What the two histories of Entra say, for any tenant, any number of      *)
(* runs, changes and refused reads: what is reported as newly assigned and *)
(* as a new member, and that no refused read ends a membership.            *)
(***************************************************************************)
EXTENDS Entra, TLAPS

\* The Global Administrator whose assignment every role read finds.
AdminHolds == <<Admin, "active">>

RolesRead == [entries : SUBSET Assignments, held : SUBSET Assignments, whole : BOOLEAN]
ReadOfGroups == [ok : BOOLEAN, reasons : [Groups -> SUBSET Reasons], failed : SUBSET Groups,
                 members : SUBSET Memberships, real : SUBSET Memberships, blind : BOOLEAN]
Collected == [sensitive : SUBSET Groups, members : SUBSET Memberships, run : Nat]

-----------------------------------------------------------------------------
(* Types.                                                                  *)

\* What the variables hold; a role read always finds the administrator, and a
\* whole one everybody who holds the role.
Form ==
  /\ tenant \in Tenants /\ AdminHolds \in tenant.holders
  /\ pc \in {"idle", "roles", "history", "groups", "members", "sensitive"}
  /\ run \in 0..MaxRuns /\ (pc # "idle" => run > 0)
  /\ pc \in {"history", "groups"} => /\ got \in RolesRead
                                     /\ AdminHolds \in got.entries
                                     /\ got.whole => got.entries = got.held
  /\ pc \in {"members", "sensitive"} => got \in ReadOfGroups
  /\ assigned \in [Assignments -> [first : Nat, last : Nat]]
  /\ groups \in [Groups -> SUBSET Reasons]
  /\ status \in {"none", "ok", "refused"}
  /\ baseline \in [Types -> [first : Nat, previous : Nat, last : Nat]]
  /\ seen \in [before : RolesRead, now : RolesRead, ever : SUBSET Assignments,
               groupsBefore : Collected, groupsNow : Collected,
               membersEver : SUBSET Memberships, finished : SUBSET Nat]

LEMMA AdminAssigned == AdminHolds \in Assignments
  BY DEF AdminHolds, Assignments

LEMMA NothingRead == NoRoles \in RolesRead /\ NoGroups \in Collected
  BY DEF NoRoles, RolesRead, NoGroups, Collected

LEMMA FormInit == Init => Form
<1> SUFFICES ASSUME Init PROVE Form
  OBVIOUS
<1>1. [before |-> NoRoles, now |-> NoRoles, ever |-> {},
       groupsBefore |-> NoGroups, groupsNow |-> NoGroups, membersEver |-> {}, finished |-> {}]
      \in [before : RolesRead, now : RolesRead, ever : SUBSET Assignments,
           groupsBefore : Collected, groupsNow : Collected,
           membersEver : SUBSET Memberships, finished : SUBSET Nat]
  BY NothingRead
<1>2. tenant \in Tenants /\ AdminHolds \in tenant.holders
  BY DEF Init, AdminHolds
<1>3. assigned \in [Assignments -> [first : Nat, last : Nat]]
  BY DEF Init, NoRow
<1> QED
  BY <1>1, <1>2, <1>3, BoundsAssumption DEF Init, Form

\* Only the tenant changes, and never its last administrator.
LEMMA ChangeEffect ==
  ASSUME Form, Change
  PROVE  /\ UNCHANGED <<pc, run, got, db, seen>> /\ pc \in {"idle", "groups"}
         /\ tenant' \in Tenants /\ AdminHolds \in tenant'.holders
<1>1. /\ tenant.holders \in SUBSET Assignments /\ tenant.members \in SUBSET Memberships
      /\ tenant.excluded \in SUBSET Groups /\ tenant.appRole \in SUBSET Groups
      /\ AdminHolds \in tenant.holders
  BY DEF Form, Tenants
<1>2. CASE \E a \in Assignments \ {AdminHolds} :
             tenant' = [tenant EXCEPT !.holders = Toggled(@, a)]
  <2>1. PICK a \in Assignments \ {AdminHolds} :
               tenant' = [tenant EXCEPT !.holders = Toggled(tenant.holders, a)]
    BY <1>2
  <2>2. Toggled(tenant.holders, a) \in SUBSET Assignments
        /\ AdminHolds \in Toggled(tenant.holders, a)
    BY <1>1 DEF Toggled
  <2> QED
    BY <2>1, <2>2 DEF Change, Form, Tenants
<1>3. CASE \E m \in Memberships : tenant' = [tenant EXCEPT !.members = Toggled(@, m)]
  <2>1. PICK m \in Memberships :
               tenant' = [tenant EXCEPT !.members = Toggled(tenant.members, m)]
    BY <1>3
  <2>2. Toggled(tenant.members, m) \in SUBSET Memberships
    BY <1>1 DEF Toggled
  <2> QED
    BY <1>1, <2>1, <2>2 DEF Change, Form, Tenants
<1>4. CASE \E g \in Groups : \/ tenant' = [tenant EXCEPT !.excluded = Toggled(@, g)]
                             \/ tenant' = [tenant EXCEPT !.appRole = Toggled(@, g)]
  <2>1. PICK g \in Groups : \/ tenant' = [tenant EXCEPT !.excluded = Toggled(tenant.excluded, g)]
                            \/ tenant' = [tenant EXCEPT !.appRole = Toggled(tenant.appRole, g)]
    BY <1>4
  <2>2. Toggled(tenant.excluded, g) \in SUBSET Groups /\ Toggled(tenant.appRole, g) \in SUBSET Groups
    BY <1>1 DEF Toggled
  <2> QED
    BY <1>1, <2>1, <2>2 DEF Change, Form, Tenants
<1> QED
  BY <1>2, <1>3, <1>4 DEF Change, AdminHolds

\* With no read refused, the entries are those who really hold the role.
LEMMA ReadRolesEffect ==
  ASSUME Form, ReadRoles
  PROVE  /\ UNCHANGED <<tenant, run, db, seen>> /\ pc = "roles" /\ pc' = "history"
         /\ got' \in RolesRead
         /\ AdminHolds \in got'.entries
         /\ got'.whole => got'.entries = got'.held
         /\ got'.held = Held(tenant)
<1>0. PICK eligibility \in BOOLEAN :
        \E refused \in SUBSET RoleGroups(Direct(tenant, eligibility)) :
          got' = [entries |-> Direct(tenant, eligibility)
                                \cup Expanded(tenant, Direct(tenant, eligibility), refused),
                  held |-> Held(tenant), whole |-> eligibility /\ refused = {}]
  BY DEF ReadRoles
<1> DEFINE direct == Direct(tenant, eligibility)
<1>1. PICK refused \in SUBSET RoleGroups(direct) :
        got' = [entries |-> direct \cup Expanded(tenant, direct, refused),
                held |-> Held(tenant), whole |-> eligibility /\ refused = {}]
  BY <1>0
<1> DEFINE expanded == Expanded(tenant, direct, refused)
<1>2. tenant.holders \in SUBSET Assignments /\ AdminHolds \in tenant.holders
  BY DEF Form, Tenants
<1>3. direct \in SUBSET Assignments /\ AdminHolds \in direct
  BY <1>2 DEF Direct, AdminHolds
<1>4. expanded \in SUBSET Assignments
  BY DEF Expanded, Assignments
<1>5. Held(tenant) \in SUBSET Assignments
  BY <1>2 DEF Held, Assignments
<1>6. eligibility /\ refused = {} => direct \cup expanded = Held(tenant)
  <2> SUFFICES ASSUME eligibility, refused = {} PROVE direct \cup expanded = Held(tenant)
    OBVIOUS
  <2>1. direct = tenant.holders
    BY DEF Direct
  <2>2. expanded = {a \in Users \X Kinds : \E g \in Groups : /\ <<g, a[2]>> \in tenant.holders
                                                            /\ <<g, a[1]>> \in tenant.members}
    BY <2>1 DEF Expanded
  <2> QED
    BY <2>1, <2>2 DEF Held
<1> HIDE DEF direct, expanded
<1>7. got' = [entries |-> direct \cup expanded, held |-> Held(tenant),
              whole |-> eligibility /\ refused = {}]
  BY <1>1 DEF expanded
<1>8. /\ got'.entries = direct \cup expanded /\ got'.held = Held(tenant)
      /\ got'.whole = (eligibility /\ refused = {})
  BY <1>7
<1>9. got' \in RolesRead
  BY <1>3, <1>4, <1>5, <1>7 DEF RolesRead
<1> QED
  BY <1>3, <1>6, <1>8, <1>9 DEF ReadRoles

LEMMA StoreHistoryEffect ==
  ASSUME Form, StoreHistory
  PROVE  /\ UNCHANGED <<tenant, run, got, groups, status, memberHistory, groupHistory, baseline>>
         /\ pc = "history" /\ pc' = "groups" /\ got \in RolesRead
         /\ assigned' \in [Assignments -> [first : Nat, last : Nat]]
         /\ \A a \in Assignments :
              IF a \in got.entries THEN assigned'[a].first = FirstSeen(a) /\ assigned'[a].last = run
                                   ELSE assigned'[a] = assigned[a]
         /\ seen'.before = seen.now /\ seen'.now = got
         /\ seen'.ever = seen.ever \cup seen.now.entries
         /\ UNCHANGED <<seen.groupsBefore, seen.groupsNow, seen.membersEver, seen.finished>>
<1>1. pc = "history" /\ got \in RolesRead
  BY DEF StoreHistory, Form
<1>2. \A a \in Assignments : FirstSeen(a) \in Nat
  BY DEF Form, FirstSeen
<1>3. run \in Nat
  BY BoundsAssumption DEF Form
<1>4. /\ assigned' = [a \in Assignments |-> IF a \in got.entries
                                            THEN [first |-> FirstSeen(a), last |-> run]
                                            ELSE assigned[a]]
      /\ seen' = [seen EXCEPT !.before = seen.now, !.now = got,
                              !.ever = seen.ever \cup seen.now.entries]
  BY DEF StoreHistory
<1>5. assigned' \in [Assignments -> [first : Nat, last : Nat]]
  BY <1>2, <1>3, <1>4 DEF Form
<1>6. \A a \in Assignments :
        IF a \in got.entries THEN assigned'[a].first = FirstSeen(a) /\ assigned'[a].last = run
                             ELSE assigned'[a] = assigned[a]
  BY <1>4
<1>7. /\ seen'.before = seen.now /\ seen'.now = got
      /\ seen'.ever = seen.ever \cup seen.now.entries
      /\ UNCHANGED <<seen.groupsBefore, seen.groupsNow, seen.membersEver, seen.finished>>
  BY <1>4 DEF Form
<1> QED
  BY <1>1, <1>5, <1>6, <1>7 DEF StoreHistory

\* A group whose members were not asked for is not sensitive, unless a refused
\* read hid that it is.
LEMMA ReadGroupsEffect ==
  ASSUME Form, ReadGroups
  PROVE  /\ UNCHANGED <<tenant, run, assigned, memberHistory, groupHistory, baseline, seen>>
         /\ pc = "groups" /\ pc' = "members"
         /\ got' \in ReadOfGroups
         /\ groups' \in [Groups -> SUBSET Reasons] /\ status' \in {"ok", "refused"}
         /\ got'.ok => status' = "ok" /\ groups' = got'.reasons
         /\ \A m \in got'.members : got'.reasons[m[1]] # {}
         /\ \A m \in got'.real : got'.blind \/ m \in got'.members \/ m[1] \in got'.failed
<1>1. PICK listed \in BOOLEAN, appRoles \in BOOLEAN :
       LET reasons == [g \in Groups |-> SensitiveReasons(tenant, got.entries, g, appRoles)] IN
       \E failed \in SUBSET {g \in Groups : reasons[g] # {}} :
         LET read == GroupsRead(tenant, reasons, failed)
             ok == listed /\ read.ok
         IN /\ ~listed => appRoles /\ failed = {}
            /\ Refuse(Cardinality(failed) + (IF appRoles THEN 0 ELSE 1) + (IF listed THEN 0 ELSE 1))
            /\ got' = [ok |-> ok, reasons |-> reasons, failed |-> failed, members |-> read.members,
                       real |-> Real(tenant, got.held),
                       blind |-> \/ ~got.whole
                                 \/ ~appRoles /\ \E g \in tenant.appRole : "app_role" \notin groups[g]]
            /\ groups' = [g \in Groups |-> IF ok THEN reasons[g] ELSE {}]
            /\ status' = IF ok THEN "ok" ELSE "refused"
  BY DEF ReadGroups
<1> DEFINE reasons == [g \in Groups |-> SensitiveReasons(tenant, got.entries, g, appRoles)]
           Blind == \/ ~got.whole
                    \/ ~appRoles /\ \E g \in tenant.appRole : "app_role" \notin groups[g]
<1>2. reasons \in [Groups -> SUBSET Reasons]
  BY DEF SensitiveReasons
<1>3. tenant.members \in SUBSET Memberships /\ tenant.appRole \in SUBSET Groups
  BY DEF Form, Tenants
<1>4. pc = "groups" /\ got \in RolesRead /\ (got.whole => got.entries = got.held)
  BY DEF ReadGroups, Form
<1>5. ASSUME NEW m \in Real(tenant, got.held), ~Blind
      PROVE  m[1] \in Groups /\ reasons[m[1]] # {}
  <2>1. m[1] \in Groups /\ got.entries = got.held
    BY <1>3, <1>4, <1>5 DEF Real, Memberships
  <2>2. m[1] \in RoleGroups(got.entries) \cup tenant.excluded \cup tenant.appRole
    BY <2>1 DEF Real
  <2>3. \/ "holds_role" \in SensitiveReasons(tenant, got.entries, m[1], appRoles)
        \/ "ca_exclude" \in SensitiveReasons(tenant, got.entries, m[1], appRoles)
        \/ "app_role" \in SensitiveReasons(tenant, got.entries, m[1], appRoles)
    BY <1>5, <2>2 DEF SensitiveReasons, Reasons
  <2> QED
    BY <2>1, <2>3
<1> HIDE DEF reasons, Blind
<1>6. PICK failed \in SUBSET {g \in Groups : reasons[g] # {}} :
        LET ok == listed /\ GroupsRead(tenant, reasons, failed).ok IN
        /\ got' = [ok |-> ok, reasons |-> reasons, failed |-> failed,
                   members |-> GroupsRead(tenant, reasons, failed).members,
                   real |-> Real(tenant, got.held), blind |-> Blind]
        /\ groups' = [g \in Groups |-> IF ok THEN reasons[g] ELSE {}]
        /\ status' = IF ok THEN "ok" ELSE "refused"
  BY <1>1 DEF reasons, Blind
<1> DEFINE ok == listed /\ GroupsRead(tenant, reasons, failed).ok
           members == GroupsRead(tenant, reasons, failed).members
<1>7. ok \in BOOLEAN /\ Blind \in BOOLEAN
  BY DEF GroupsRead, Blind
<1>8. members = {m \in tenant.members : m[1] \in {g \in Groups : reasons[g] # {}} \ failed}
  BY DEF GroupsRead
<1>9. Real(tenant, got.held) \in SUBSET Memberships
  BY <1>3 DEF Real
<1> HIDE DEF ok, members
<1>10. /\ got' = [ok |-> ok, reasons |-> reasons, failed |-> failed, members |-> members,
                  real |-> Real(tenant, got.held), blind |-> Blind]
       /\ groups' = [g \in Groups |-> IF ok THEN reasons[g] ELSE {}]
       /\ status' = IF ok THEN "ok" ELSE "refused"
  BY <1>6 DEF ok, members
<1>11. /\ got'.ok = ok /\ got'.reasons = reasons /\ got'.failed = failed
       /\ got'.members = members /\ got'.real = Real(tenant, got.held) /\ got'.blind = Blind
  BY <1>10
<1>12. got' \in ReadOfGroups
  BY <1>2, <1>3, <1>7, <1>8, <1>9, <1>10 DEF ReadOfGroups
<1>13. /\ groups' \in [Groups -> SUBSET Reasons] /\ status' \in {"ok", "refused"}
       /\ got'.ok => status' = "ok" /\ groups' = got'.reasons
  BY <1>2, <1>10, <1>11
<1>14. \A m \in got'.members : got'.reasons[m[1]] # {}
  BY <1>8, <1>11
<1>15. \A m \in got'.real : got'.blind \/ m \in got'.members \/ m[1] \in got'.failed
  <2>1. \A m \in Real(tenant, got.held) : m \in tenant.members
    BY DEF Real
  <2> QED
    BY <1>5, <1>8, <1>11, <2>1
<1> QED
  BY <1>4, <1>12, <1>13, <1>14, <1>15 DEF ReadGroups

\* The tables of a type whose source was not read stay as they are.
LEMMA StoreMembersEffect ==
  ASSUME Form, StoreMembers
  PROVE  /\ UNCHANGED <<tenant, run, got, assigned, groups, status, groupHistory>>
         /\ pc = "members" /\ pc' = "sensitive" /\ got \in ReadOfGroups
         /\ ~got.ok => UNCHANGED <<memberHistory, baseline, seen>>
         /\ got.ok =>
              /\ memberHistory' = UpdatedHistory(memberHistory, [m \in got.members |-> {}],
                                                 UnreadMembers)
              /\ baseline' = [baseline EXCEPT !["group_member"] = UpdatedBaseline(@)]
              /\ UNCHANGED <<seen.before, seen.now, seen.ever, seen.finished>>
              /\ seen'.groupsBefore = seen.groupsNow
              /\ seen'.groupsNow = [sensitive |-> {g \in Groups : got.reasons[g] # {}},
                                    members |-> got.members, run |-> run]
              /\ seen'.membersEver = seen.membersEver \cup seen.groupsNow.members
<1> DEFINE row == [sensitive |-> {g \in Groups : got.reasons[g] # {}},
                   members |-> got.members, run |-> run]
           ever == seen.membersEver \cup seen.groupsNow.members
<1>1. ASSUME got.ok
      PROVE  seen' = [seen EXCEPT !.groupsBefore = seen.groupsNow, !.groupsNow = row,
                                  !.membersEver = ever]
  BY <1>1 DEF StoreMembers
<1> HIDE DEF row, ever
<1>2. got.ok => /\ UNCHANGED <<seen.before, seen.now, seen.ever, seen.finished>>
                /\ seen'.groupsBefore = seen.groupsNow /\ seen'.groupsNow = row
                /\ seen'.membersEver = ever
  BY <1>1 DEF Form
<1> QED
  BY <1>2 DEF StoreMembers, Form, row, ever

LEMMA StoreSensitiveEffect ==
  ASSUME Form, StoreSensitive
  PROVE  /\ UNCHANGED <<tenant, run, assigned, groups, status, memberHistory>>
         /\ pc = "sensitive" /\ pc' = "idle" /\ got \in ReadOfGroups
         /\ ~got.ok => UNCHANGED <<groupHistory, baseline, seen>>
         /\ got.ok =>
              /\ groupHistory' =
                   UpdatedHistory(groupHistory,
                     [g \in {h \in Groups : got.reasons[h] # {}} |-> got.reasons[g]], {})
              /\ baseline' = [baseline EXCEPT !["sensitive_group"] = UpdatedBaseline(@)]
              /\ UNCHANGED <<seen.before, seen.now, seen.ever, seen.groupsBefore,
                             seen.groupsNow, seen.membersEver>>
              /\ seen'.finished = seen.finished \cup {run}
<1>1. got.ok => seen' = [seen EXCEPT !.finished = seen.finished \cup {run}]
  BY DEF StoreSensitive
<1>2. got.ok => /\ UNCHANGED <<seen.before, seen.now, seen.ever, seen.groupsBefore,
                               seen.groupsNow, seen.membersEver>>
                /\ seen'.finished = seen.finished \cup {run}
  BY <1>1 DEF Form
<1> QED
  BY <1>2 DEF StoreSensitive, Form

-----------------------------------------------------------------------------
(* What an update of a history does to it.                                 *)

\* A version stays as it is, or is closed by this run.
Ended(v) == [v EXCEPT !.to = run]
Becomes(v, w) == w = v \/ (v.to = 0 /\ w = Ended(v))

\* An update's entities are of the history's type.
Contents(entities) ==
  \A k \in DOMAIN entities : k \in Memberships \cup Groups /\ entities[k] \in SUBSET Reasons

LEMMA VersionTypes ==
  ASSUME Form, run > 0
  PROVE  /\ run \in Nat
         /\ \A v \in Histories : /\ Ended(v) \in Histories
                                 /\ Ended(v).to = run
                                 /\ Ended(v).key = v.key
                                 /\ Ended(v).from = v.from
                                 /\ Ended(v).content = v.content
                                 /\ v.from \in Nat /\ v.to \in Nat
         /\ \A k \in Memberships \cup Groups : \A c \in SUBSET Reasons :
              /\ Version(k, c) \in Histories /\ Version(k, c).key = k
              /\ Version(k, c).from = run /\ Version(k, c).to = 0
<1>1. run \in 1..MaxRuns /\ run \in Nat /\ MaxRuns \in Nat
  BY BoundsAssumption DEF Form
<1> QED
  BY <1>1 DEF Histories, Version, Ended

\* Nothing is lost, and what is new starts now; what is open was read, or could
\* not be, and what was read is open.
LEMMA HistoryGrows ==
  ASSUME Form, run > 0, NEW history \in SUBSET Histories, NEW entities, NEW protected,
         Contents(entities)
  PROVE  LET updated == UpdatedHistory(history, entities, protected) IN
         /\ updated \in SUBSET Histories
         /\ \A v \in history : \E w \in updated : Becomes(v, w)
         /\ \A w \in updated :
              \/ \E v \in history : Becomes(v, w)
              \/ w.key \in DOMAIN entities /\ w = Version(w.key, entities[w.key])
         /\ \A w \in updated : w.to = 0 => w.key \in DOMAIN entities \cup protected
         /\ \A k \in DOMAIN entities : \E w \in updated : w.to = 0 /\ w.key = k
         /\ \A v \in history : v.to = 0 /\ v.key \in protected \ DOMAIN entities => v \in updated
<1> DEFINE unchanged == {v \in Open(history) : /\ v.key \in DOMAIN entities
                                               /\ v.content = entities[v.key]}
           left   == {v \in Open(history) : v.key \notin DOMAIN entities /\ v.key \in protected}
           closed == Open(history) \ (unchanged \cup left)
           ended  == {Ended(v) : v \in closed}
           begun  == {Version(k, entities[k]) : k \in DOMAIN entities \ {v.key : v \in unchanged}}
           updated == UpdatedHistory(history, entities, protected)
<1>1. updated = (history \ closed) \cup ended \cup begun
  BY DEF UpdatedHistory, Ended
<1>2. closed \subseteq history /\ \A v \in closed : v.to = 0
  BY DEF Open
<1>3. \A w \in ended : \E v \in closed : w = Ended(v)
  OBVIOUS
<1>4. \A v \in closed : Ended(v) \in ended
  OBVIOUS
<1>5. \A w \in begun : w.key \in DOMAIN entities /\ w = Version(w.key, entities[w.key])
                       /\ w \in Histories
  BY VersionTypes DEF Contents
<1>6. \A k \in DOMAIN entities : (\E v \in unchanged : v.key = k) \/ Version(k, entities[k]) \in begun
  OBVIOUS
<1>7. \A v \in history : v.to = 0 => \/ v \in closed
                                     \/ v.key \in DOMAIN entities
                                     \/ v.key \in protected
  BY DEF Open
<1>8. \A v \in unchanged : v \in history /\ v \notin closed /\ v.to = 0
  BY DEF Open
<1>9. \A v \in history : v.to = 0 /\ v.key \in protected \ DOMAIN entities => v \notin closed
  BY DEF Open
<1> HIDE DEF unchanged, left, closed, ended, begun, updated
<1>10. updated \in SUBSET Histories
  BY <1>1, <1>2, <1>3, <1>5, VersionTypes
<1>11. \A v \in history : \E w \in updated : Becomes(v, w)
  <2> TAKE v \in history
  <2>1. CASE v \in closed
    <3>1. Ended(v) \in updated /\ Becomes(v, Ended(v))
      BY <1>1, <1>2, <1>4, <2>1 DEF Becomes
    <3> QED
      BY <3>1
  <2>2. CASE v \notin closed
    <3>1. v \in updated /\ Becomes(v, v)
      BY <1>1, <2>2 DEF Becomes
    <3> QED
      BY <3>1
  <2> QED
    BY <2>1, <2>2
<1>12. \A w \in updated : \/ \E v \in history : Becomes(v, w)
                          \/ w.key \in DOMAIN entities /\ w = Version(w.key, entities[w.key])
  <2>1. \A w \in history : Becomes(w, w)
    BY DEF Becomes
  <2>2. \A w \in ended : \E v \in history : Becomes(v, w)
    BY <1>2, <1>3 DEF Becomes
  <2> QED
    BY <1>1, <1>5, <2>1, <2>2
<1>13. \A w \in ended : w.to # 0
  BY <1>2, <1>3, VersionTypes
<1>14. \A w \in updated : w.to = 0 => w.key \in DOMAIN entities \cup protected
  BY <1>1, <1>5, <1>7, <1>13
<1>15. \A k \in DOMAIN entities : Version(k, entities[k]).to = 0 /\ Version(k, entities[k]).key = k
  BY VersionTypes DEF Contents
<1>16. \A k \in DOMAIN entities : \E w \in updated : w.to = 0 /\ w.key = k
  BY <1>1, <1>6, <1>8, <1>15
<1>17. \A v \in history : v.to = 0 /\ v.key \in protected \ DOMAIN entities => v \in updated
  BY <1>1, <1>9
<1> QED
  BY <1>10, <1>11, <1>12, <1>14, <1>16, <1>17 DEF updated

\* One version of an entity after the other.
LEMMA HistoryInOrder ==
  ASSUME Form, run > 0, NEW history \in SUBSET Histories, NEW entities, NEW protected,
         Contents(entities), OneOpen(history), \A v \in history : v.to <= run
  PROVE  OneOpen(UpdatedHistory(history, entities, protected))
<1> DEFINE unchanged == {v \in Open(history) : /\ v.key \in DOMAIN entities
                                               /\ v.content = entities[v.key]}
           left   == {v \in Open(history) : v.key \notin DOMAIN entities /\ v.key \in protected}
           closed == Open(history) \ (unchanged \cup left)
           ended  == {Ended(v) : v \in closed}
           begun  == {Version(k, entities[k]) : k \in DOMAIN entities \ {v.key : v \in unchanged}}
<1>1. UpdatedHistory(history, entities, protected) = (history \ closed) \cup ended \cup begun
  BY DEF UpdatedHistory, Ended
<1>2. \A w \in ended : \E v \in closed : w.key = v.key /\ w.from = v.from /\ w.to = run
                                         /\ v.to = 0 /\ v \in history
                                         /\ w = Ended(v)
  BY VersionTypes DEF Open
<1>3. \A w \in begun : w.key \in DOMAIN entities /\ w = Version(w.key, entities[w.key])
                       /\ w.from = run /\ w.to = 0 /\ \A v \in unchanged : v.key # w.key
  BY VersionTypes DEF Contents
<1>4. \A v \in history \ closed : v.to = 0 => v \in unchanged \/ v.key \notin DOMAIN entities
  BY DEF Open
<1>5. run \in Nat /\ \A v \in history : v.from \in Nat /\ v.to \in Nat
  BY VersionTypes
<1> HIDE DEF unchanged, left, closed, ended, begun
<1> DEFINE Ordered(v, w) == \/ v.to # 0 /\ v.to <= w.from
                            \/ w.to # 0 /\ w.to <= v.from
<1>6. \A v, w \in history : v.key = w.key /\ v # w => Ordered(v, w)
  BY DEF OneOpen
<1>7. ASSUME NEW v \in (history \ closed) \cup ended, NEW w \in begun, v.key = w.key
      PROVE  Ordered(v, w)
  <2>1. CASE v \in ended
    BY <1>2, <1>3, <1>5, <2>1
  <2>2. CASE v \in history \ closed
    BY <1>3, <1>4, <1>5, <1>7, <2>2
  <2> QED
    BY <2>1, <2>2
<1>8. ASSUME NEW v \in (history \ closed) \cup ended, NEW w \in (history \ closed) \cup ended,
             v.key = w.key, v # w
      PROVE  Ordered(v, w)
  <2> DEFINE From(u, u0) == /\ u0.key = u.key /\ u0.from = u.from
                            /\ \/ u0 = u /\ u0 \notin closed
                               \/ u0 \in closed /\ u0.to = 0 /\ u.to = run /\ u = Ended(u0)
  <2>1. \A u \in (history \ closed) \cup ended : \E u0 \in history : From(u, u0)
    BY <1>2
  <2>2. PICK v0 \in history : From(v, v0)
    BY <2>1
  <2>3. PICK w0 \in history : From(w, w0)
    BY <2>1
  <2>4. v0 # w0
    BY <1>8, <2>2, <2>3
  <2>5. Ordered(v0, w0)
    BY <1>6, <1>8, <2>2, <2>3, <2>4
  <2> QED
    BY <1>5, <2>2, <2>3, <2>5
<1>9. \A v, w \in begun : v.key = w.key => v = w
  BY <1>3
<1> QED
  BY <1>1, <1>7, <1>8, <1>9 DEF OneOpen

-----------------------------------------------------------------------------
(* Steps of the types.                                                     *)

LEMMA BaselineTypes ==
  ASSUME Form, NEW t \in Types, baseline' = [baseline EXCEPT ![t] = UpdatedBaseline(@)]
  PROVE  /\ baseline' \in [Types -> [first : Nat, previous : Nat, last : Nat]]
         /\ \A s \in Types \ {t} : baseline'[s] = baseline[s]
         /\ baseline'[t].first = (IF baseline[t].first = 0 THEN run ELSE baseline[t].first)
         /\ baseline'[t].last = run
<1> DEFINE b == UpdatedBaseline(baseline[t])
<1>1. run \in Nat /\ baseline[t] \in [first : Nat, previous : Nat, last : Nat]
  BY BoundsAssumption DEF Form
<1>2. /\ b.first = (IF baseline[t].first = 0 THEN run ELSE baseline[t].first) /\ b.last = run
      /\ b \in [first : Nat, previous : Nat, last : Nat]
  BY <1>1 DEF UpdatedBaseline
<1> HIDE DEF b
<1>3. baseline' = [baseline EXCEPT ![t] = b]
  BY DEF b
<1> QED
  BY <1>2, <1>3 DEF Form

LEMMA FormNext == Form /\ [Next]_vars => Form'
<1> SUFFICES ASSUME Form, [Next]_vars PROVE Form'
  OBVIOUS
<1>1. CASE UNCHANGED vars
  BY <1>1 DEF vars, db, Form
<1>2. CASE Change
  BY <1>2, ChangeEffect DEF Form, db
<1>3. CASE Start
  BY <1>3, BoundsAssumption DEF Start, Form, db
<1>4. CASE ReadRoles
  BY <1>4, ReadRolesEffect DEF Form, db
<1>5. CASE StoreHistory
  <2>1. seen' \in [before : RolesRead, now : RolesRead, ever : SUBSET Assignments,
                   groupsBefore : Collected, groupsNow : Collected,
                   membersEver : SUBSET Memberships, finished : SUBSET Nat]
    <3>1. seen' = [seen EXCEPT !.before = seen.now, !.now = got,
                               !.ever = seen.ever \cup seen.now.entries]
      BY <1>5 DEF StoreHistory
    <3>2. seen.now \in RolesRead /\ got \in RolesRead /\ seen.ever \cup seen.now.entries \in SUBSET Assignments
      BY <1>5 DEF Form, StoreHistory, RolesRead
    <3> QED
      BY <3>1, <3>2 DEF Form
  <2> QED
    BY <1>5, <2>1, StoreHistoryEffect DEF Form
<1>6. CASE ReadGroups
  BY <1>6, ReadGroupsEffect DEF Form
<1>7. CASE StoreMembers
  <2>1. CASE ~got.ok
    BY <1>7, <2>1, StoreMembersEffect DEF Form
  <2>2. CASE got.ok
    <3> DEFINE row == [sensitive |-> {g \in Groups : got.reasons[g] # {}},
                       members |-> got.members, run |-> run]
               ever == seen.membersEver \cup seen.groupsNow.members
    <3>1. row \in Collected
      <4>1. got \in ReadOfGroups /\ run \in Nat
        BY <1>7, BoundsAssumption DEF StoreMembers, Form
      <4> QED
        BY <4>1 DEF ReadOfGroups, Collected
    <3>2. seen.groupsNow \in Collected /\ ever \in SUBSET Memberships
      BY DEF Form, Collected
    <3>3. seen' = [seen EXCEPT !.groupsBefore = seen.groupsNow, !.groupsNow = row,
                               !.membersEver = ever]
      BY <1>7, <2>2 DEF StoreMembers
    <3> HIDE DEF row, ever
    <3>4. seen' \in [before : RolesRead, now : RolesRead, ever : SUBSET Assignments,
                     groupsBefore : Collected, groupsNow : Collected,
                     membersEver : SUBSET Memberships, finished : SUBSET Nat]
      BY <3>1, <3>2, <3>3 DEF Form
    <3>5. baseline' \in [Types -> [first : Nat, previous : Nat, last : Nat]]
      BY <1>7, <2>2, StoreMembersEffect, BaselineTypes DEF Types
    <3> QED
      BY <1>7, <3>4, <3>5, StoreMembersEffect DEF Form
  <2> QED
    BY <2>1, <2>2
<1>8. CASE StoreSensitive
  <2>1. CASE ~got.ok
    BY <1>8, <2>1, StoreSensitiveEffect DEF Form
  <2>2. CASE got.ok
    <3>1. seen' = [seen EXCEPT !.finished = seen.finished \cup {run}]
      BY <1>8, <2>2 DEF StoreSensitive
    <3>2. seen.finished \cup {run} \in SUBSET Nat
      BY BoundsAssumption DEF Form
    <3>3. seen' \in [before : RolesRead, now : RolesRead, ever : SUBSET Assignments,
                     groupsBefore : Collected, groupsNow : Collected,
                     membersEver : SUBSET Memberships, finished : SUBSET Nat]
      BY <3>1, <3>2 DEF Form
    <3>4. baseline' \in [Types -> [first : Nat, previous : Nat, last : Nat]]
      BY <1>8, <2>2, StoreSensitiveEffect, BaselineTypes DEF Types
    <3> QED
      BY <1>8, <3>3, <3>4, StoreSensitiveEffect DEF Form
  <2> QED
    BY <2>1, <2>2
<1>9. CASE Abort
  BY <1>9 DEF Abort, Form, db
<1> QED
  BY <1>1, <1>2, <1>3, <1>4, <1>5, <1>6, <1>7, <1>8, <1>9 DEF Next

-----------------------------------------------------------------------------
(* Role assignments: what the history says of each is what the reads found. *)

LastSeen == assigned[AdminHolds].last

AssignedInv ==
  /\ LastSeen <= run /\ (pc \in {"roles", "history"} => LastSeen < run)
  /\ \A a \in Assignments :
       /\ assigned[a].first <= assigned[a].last /\ assigned[a].last <= LastSeen
       /\ assigned[a].first = 0 <=> assigned[a].last = 0
       /\ a \in seen.now.entries <=> assigned[a].last = LastSeen /\ LastSeen > 0
       /\ a \in seen.now.entries \ seen.before.entries
            <=> assigned[a].first = LastSeen /\ LastSeen > 0
       /\ a \in seen.ever \cup seen.now.entries <=> assigned[a].first > 0
  /\ seen.before.entries \subseteq seen.ever
  /\ seen.before.entries # {} => AdminHolds \in seen.before.entries
  /\ seen.before.whole => seen.before.entries # {}
  /\ seen.now.whole => seen.now.entries # {}

LEMMA AssignedInit == Init => AssignedInv
<1> SUFFICES ASSUME Init PROVE AssignedInv
  OBVIOUS
<1>1. \A a \in Assignments : assigned[a].first = 0 /\ assigned[a].last = 0
  BY DEF Init, NoRow
<1>2. LastSeen = 0
  BY <1>1, AdminAssigned DEF LastSeen
<1>3. /\ seen.now = NoRoles /\ seen.before = NoRoles /\ seen.ever = {} /\ run = 0 /\ pc = "idle"
      /\ NoRoles.entries = {} /\ ~NoRoles.whole
  BY DEF Init, NoRoles
<1> QED
  BY <1>1, <1>2, <1>3 DEF AssignedInv

\* The latest read is that of the one assignment every read finds.
LEMMA LatestRead ==
  ASSUME Form, AssignedInv
  PROVE  LastRead = LastSeen
<1> DEFINE S == {assigned[a].last : a \in Assignments}
<1>1. LastSeen \in S /\ LastSeen \in Nat
  BY AdminAssigned DEF LastSeen, Form
<1>2. \A y \in S : y \in Nat /\ LastSeen >= y
  BY <1>1 DEF AssignedInv, Form
<1>3. \A x \in S : (\A y \in S : x >= y) => x = LastSeen
  BY <1>1, <1>2
<1> HIDE DEF S
<1>4. Max(S) = LastSeen
  BY <1>1, <1>2, <1>3 DEF Max
<1> QED
  BY <1>4 DEF LastRead, S

LEMMA AssignedNext == Form /\ AssignedInv /\ [Next]_vars => AssignedInv'
<1> SUFFICES ASSUME Form, AssignedInv, [Next]_vars PROVE AssignedInv'
  OBVIOUS
<1>0. run \in Nat /\ LastSeen \in Nat
      /\ \A a \in Assignments : assigned[a].first \in Nat /\ assigned[a].last \in Nat
  BY AdminAssigned, BoundsAssumption DEF Form, LastSeen
<1>1. CASE StoreHistory
  <2>1. /\ pc' = "groups" /\ run' = run /\ LastSeen < run
        /\ AdminHolds \in got.entries /\ got.entries \in SUBSET Assignments
    BY <1>1, StoreHistoryEffect DEF Form, AssignedInv, RolesRead
  <2>2. \A a \in Assignments :
          IF a \in got.entries
          THEN /\ assigned'[a].first = IF a \in seen.now.entries THEN assigned[a].first ELSE run
               /\ assigned'[a].last = run
          ELSE assigned'[a] = assigned[a]
    <3>1. \A a \in Assignments :
            FirstSeen(a) = IF a \in seen.now.entries THEN assigned[a].first ELSE run
      <4> TAKE a \in Assignments
      <4>1. assigned[a] \in [first : Nat, last : Nat]
        BY DEF Form
      <4>2. assigned[a] = NoRow <=> assigned[a].first = 0 /\ assigned[a].last = 0
        BY <4>1 DEF NoRow
      <4> QED
        BY <1>0, <4>2, LatestRead DEF FirstSeen, AssignedInv
    <3> QED
      BY <1>1, <3>1, StoreHistoryEffect
  <2>3. LastSeen' = run
    BY <2>1, <2>2, AdminAssigned DEF LastSeen
  <2>4. /\ seen'.before = seen.now /\ seen'.now = got
        /\ seen'.ever = seen.ever \cup seen.now.entries
    BY <1>1, StoreHistoryEffect
  <2>5. seen.now.entries \in SUBSET Assignments /\ seen.ever \in SUBSET Assignments
    BY DEF Form, RolesRead
  <2>6. ASSUME NEW a \in Assignments
        PROVE  /\ assigned'[a].first <= assigned'[a].last /\ assigned'[a].last <= run
               /\ assigned'[a].first = 0 <=> assigned'[a].last = 0
               /\ a \in got.entries <=> assigned'[a].last = run
               /\ a \in got.entries \ seen.now.entries <=> assigned'[a].first = run
               /\ a \in seen.ever \cup seen.now.entries \cup got.entries <=> assigned'[a].first > 0
    BY <1>0, <2>1, <2>2 DEF AssignedInv
  <2>7. seen.now.entries # {} => AdminHolds \in seen.now.entries
    <3>1. ASSUME NEW a \in seen.now.entries PROVE LastSeen > 0
      BY <2>5 DEF AssignedInv
    <3> QED
      BY <3>1, AdminAssigned DEF AssignedInv, LastSeen
  <2> QED
    BY <1>0, <2>1, <2>3, <2>4, <2>6, <2>7 DEF AssignedInv
<1>2. CASE Start
  BY <1>0, <1>2 DEF Start, AssignedInv, LastSeen, db
<1>3. ASSUME UNCHANGED <<run, assigned, seen.before, seen.now, seen.ever>>,
             pc' \in {"roles", "history"} => pc \in {"roles", "history"}
      PROVE  AssignedInv'
  BY <1>3 DEF AssignedInv, LastSeen
<1>4. CASE UNCHANGED vars
  BY <1>3, <1>4 DEF vars, db
<1>5. CASE Change
  BY <1>3, <1>5, ChangeEffect DEF db
<1>6. CASE ReadRoles
  BY <1>3, <1>6, ReadRolesEffect DEF db
<1>7. CASE ReadGroups
  BY <1>3, <1>7, ReadGroupsEffect
<1>8. CASE StoreMembers
  BY <1>3, <1>8, StoreMembersEffect
<1>9. CASE StoreSensitive
  BY <1>3, <1>9, StoreSensitiveEffect
<1>10. CASE Abort
  BY <1>3, <1>10 DEF Abort, db
<1> QED
  BY <1>1, <1>2, <1>4, <1>5, <1>6, <1>7, <1>8, <1>9, <1>10 DEF Next

LEMMA FormHolds == Spec => [](Form /\ AssignedInv)
  BY FormInit, FormNext, AssignedInit, AssignedNext, PTL DEF Spec

LEMMA NewAssignmentsFound ==
  ASSUME Form, AssignedInv
  PROVE  NewAssignmentsExact
<1> SUFFICES ASSUME seen.now.whole, seen.before.whole,
                    NEW a \in Assignments
             PROVE  a \in NewAssignments <=>
                      LET new == seen.now.entries \ seen.before.entries
                          eligible == <<a[1], "eligible">>
                      IN a \in new /\ (a[2] = "active" =>
                                         ~(eligible \in seen.ever /\ eligible \notin new))
  <2>1. NewAssignments \subseteq Assignments /\ seen.now.entries \subseteq Assignments
    BY DEF NewAssignments, Form, RolesRead
  <2> QED
    BY <2>1 DEF NewAssignmentsExact
<1> DEFINE new == seen.now.entries \ seen.before.entries
           eligible == <<a[1], "eligible">>
<1>0. LastRead = LastSeen /\ LastSeen \in Nat
      /\ \A b \in Assignments : assigned[b].first \in Nat
  BY LatestRead, AdminAssigned DEF Form, LastSeen
<1>1. AdminHolds \in seen.before.entries /\ LastSeen > 0
  <2>1. PICK b \in seen.now.entries : TRUE
    BY DEF AssignedInv
  <2>2. b \in Assignments
    BY DEF Form, RolesRead
  <2> QED
    BY <2>2 DEF AssignedInv
<1>2. assigned[AdminHolds].first \in 1..(LastRead - 1)
  BY <1>0, <1>1, AdminAssigned DEF AssignedInv, LastSeen
<1>3. a \in new <=> assigned[a].first = LastRead
  BY <1>0, <1>1 DEF AssignedInv
<1>4. ASSUME a[2] = "active", a \in new
      PROVE  Activation(a) <=> eligible \in seen.ever /\ eligible \notin new
  <2>1. CASE a[1] = Admin
    <3>1. eligible \notin Assignments
      BY <2>1, AdminAssumption DEF Assignments
    <3>2. seen.ever \subseteq Assignments
      BY DEF Form
    <3> QED
      BY <2>1, <3>1, <3>2 DEF Activation
  <2>2. CASE a[1] # Admin
    <3>1. eligible \in Assignments
      BY <2>2 DEF Assignments, Kinds
    <3>2. assigned[eligible].first \in 1..(LastRead - 1) <=>
            assigned[eligible].first > 0 /\ assigned[eligible].first # LastSeen
      BY <1>0, <1>1, <3>1 DEF AssignedInv, Form
    <3>3. eligible \in seen.now.entries \ new => eligible \in seen.ever
      BY DEF AssignedInv
    <3>4. assigned[eligible].first > 0 /\ assigned[eligible].first # LastSeen
            <=> eligible \in seen.ever /\ eligible \notin new
      BY <1>1, <3>1, <3>3 DEF AssignedInv
    <3> QED
      BY <1>4, <2>2, <3>2, <3>4 DEF Activation
  <2> QED
    BY <2>1, <2>2
<1>5. a[2] # "active" => ~Activation(a)
  BY DEF Activation
<1> QED
  BY <1>2, <1>3, <1>4, <1>5, AdminAssigned DEF NewAssignments

\* Plugin 11020 reports what the last read found and the one before did not,
\* however many runs, revocations and grants went before.
THEOREM NewAssignmentsAlwaysExact == Spec => []NewAssignmentsExact
  BY FormHolds, NewAssignmentsFound, PTL

-----------------------------------------------------------------------------
(* Members: what the history says of each is what the collections found,   *)
(* and the groups it says were sensitive are those the last two found to   *)
(* be.  A run number identifies a collection: a run updates each history   *)
(* at most once, members first.                                            *)

Now == seen.groupsNow
Before == seen.groupsBefore
BeforeMembers == pc \in {"roles", "history", "groups", "members"}

\* What a read of the groups leaves until both its transactions have ended.
ReadInv ==
  /\ pc \in {"members", "sensitive"} /\ got.ok =>
       /\ status = "ok" /\ groups = got.reasons
       /\ \A m \in got.members : got.reasons[m[1]] # {}
  /\ pc = "members" =>
       \A m \in got.real : got.blind \/ m \in got.members \/ m[1] \in got.failed
  /\ pc = "sensitive" /\ got.ok =>
       /\ Now.run = run
       /\ Now.sensitive = {g \in Groups : got.reasons[g] # {}}
  /\ Now.run = run /\ run > 0 =>
       /\ status = "ok"
       /\ \A g \in Groups : groups[g] # {} <=> g \in Now.sensitive

\* A version that began with the latest collection is of a member found then;
\* one of a member never found before began then.
MembersInv ==
  /\ memberHistory \in SUBSET Histories /\ OneOpen(memberHistory)
  /\ Now.run <= run /\ (BeforeMembers => Now.run < run)
  /\ baseline["group_member"].last = Now.run
  /\ IF Now.run = 0 THEN baseline["group_member"].first = 0
                     ELSE baseline["group_member"].first \in 1..Now.run
  /\ Before.run > 0 => baseline["group_member"].first \in 1..Before.run /\ Before.run < Now.run
  /\ \A m \in Now.members : m[1] \in Now.sensitive
  /\ \A v \in memberHistory :
       /\ v.from <= Now.run /\ v.to <= Now.run
       /\ v.key \in seen.membersEver \cup Now.members
       /\ v.from = Now.run => v.to = 0 /\ v.key \in Now.members
       /\ v.key \notin seen.membersEver => v.from = Now.run
  /\ \A m \in Now.members : \E v \in memberHistory : v.key = m
  /\ \A m \in seen.membersEver : \E v \in memberHistory : v.key = m /\ v.from < Now.run

\* A group had been found sensitive when a collection began.
Earlier(g, n) ==
  \E v \in groupHistory : v.key = g /\ v.from < n /\ (v.to = 0 \/ v.to >= n)

\* The collections that ended with both histories updated: after one, the open
\* versions are those of the groups it found sensitive.
FinishedInv ==
  LET base == baseline["sensitive_group"] IN
  /\ groupHistory \in SUBSET Histories /\ OneOpen(groupHistory)
  /\ base.first <= base.last /\ base.last <= Now.run /\ (pc # "idle" => base.last < run)
  /\ \A v \in groupHistory : v.from <= base.last /\ v.to <= base.last
  /\ \A n \in seen.finished : base.first \in 1..n /\ n <= base.last
  /\ Now.run \in seen.finished =>
       \A g \in Groups : g \in Now.sensitive <=> \E v \in Open(groupHistory) : v.key = g
  /\ Before.run \in seen.finished =>
       \A g \in Groups : g \in Before.sensitive <=> Earlier(g, Now.run)

LEMMA HistoriesInit == Init => ReadInv /\ MembersInv /\ FinishedInv
<1> SUFFICES ASSUME Init PROVE ReadInv /\ MembersInv /\ FinishedInv
  OBVIOUS
<1>1. /\ Now = NoGroups /\ Before = NoGroups /\ seen.membersEver = {} /\ seen.finished = {}
      /\ \A t \in Types : baseline[t].first = 0 /\ baseline[t].last = 0
  BY DEF Init, Now, Before
<1>2. NoGroups.run = 0 /\ NoGroups.members = {}
  BY DEF NoGroups
<1>3. memberHistory = {} /\ groupHistory = {} /\ pc = "idle" /\ run = 0
  BY DEF Init
<1>4. ReadInv
  BY <1>1, <1>2, <1>3 DEF ReadInv
<1>5. MembersInv
  BY <1>1, <1>2, <1>3 DEF MembersInv, BeforeMembers, OneOpen, Types
<1>6. FinishedInv
  BY <1>1, <1>2, <1>3 DEF FinishedInv, OneOpen, Types
<1> QED
  BY <1>4, <1>5, <1>6

\* The numbers the invariants compare.
LEMMA RunNumbers ==
  ASSUME Form
  PROVE  /\ run \in Nat /\ Now.run \in Nat /\ Before.run \in Nat
         /\ Now \in Collected /\ Before \in Collected
         /\ \A t \in Types : baseline[t].first \in Nat /\ baseline[t].last \in Nat
         /\ \A v \in Histories : v.from \in Nat /\ v.to \in Nat /\ v.from > 0
<1>1. Now \in Collected /\ Before \in Collected
  BY DEF Form, Now, Before
<1>2. \A v \in Histories : v.from \in Nat /\ v.to \in Nat /\ v.from > 0
  BY BoundsAssumption DEF Histories
<1> QED
  BY <1>1, <1>2, BoundsAssumption DEF Form, Collected

\* Steps that touch neither history nor what was found: they only matter in
\* that the next run has a number of its own.
LEMMA HistoriesAside ==
  ASSUME Form, MembersInv, FinishedInv,
         UNCHANGED <<memberHistory, groupHistory, baseline, Now, Before,
                     seen.membersEver, seen.finished>>,
         \/ run' = run + 1
         \/ run' = run /\ (BeforeMembers' => BeforeMembers) /\ (pc' # "idle" => pc # "idle")
  PROVE  MembersInv' /\ FinishedInv'
<1>1. run \in Nat /\ Now.run \in Nat /\ baseline["sensitive_group"].last \in Nat
  BY RunNumbers DEF Types
<1>2. Now.run <= run /\ baseline["sensitive_group"].last <= Now.run
  BY DEF MembersInv, FinishedInv
<1>3. \A g \in Groups, n \in Nat : Earlier(g, n)' <=> Earlier(g, n)
  BY DEF Earlier
<1>4. Now.run <= run' /\ (BeforeMembers' => Now.run < run')
  BY <1>1, <1>2 DEF MembersInv
<1>5. pc' # "idle" => baseline["sensitive_group"].last < run'
  BY <1>1, <1>2 DEF FinishedInv
<1>6. MembersInv'
  BY <1>4 DEF MembersInv, OneOpen
<1>7. FinishedInv'
  BY <1>1, <1>3, <1>5 DEF FinishedInv, OneOpen, Open
<1> QED
  BY <1>6, <1>7

\* A collection of the members: everything the history says is of before, but
\* what is found now.
LEMMA StoreMembersHistory ==
  ASSUME Form, ReadInv, MembersInv, FinishedInv, StoreMembers, got.ok
  PROVE  MembersInv'
<1> DEFINE found == [m \in got.members |-> {}]
<1>1. /\ pc = "members" /\ pc' = "sensitive" /\ run' = run /\ run > 0 /\ run \in Nat
      /\ got.members \in SUBSET Memberships
      /\ memberHistory' = UpdatedHistory(memberHistory, found, UnreadMembers)
      /\ Before' = Now /\ Now'.run = run /\ Now'.members = got.members
      /\ Now'.sensitive = {g \in Groups : got.reasons[g] # {}}
      /\ seen'.membersEver = seen.membersEver \cup Now.members
      /\ seen.membersEver \in SUBSET Memberships /\ Now.members \in SUBSET Memberships
  BY StoreMembersEffect, RunNumbers DEF Form, Now, Before, ReadOfGroups, Collected
<1>2. Now.run < run /\ Now.run \in Nat
  BY <1>1, RunNumbers DEF MembersInv, BeforeMembers
<1>3. Contents(found) /\ DOMAIN found = got.members
  BY <1>1 DEF Contents
<1>4. \A v \in memberHistory : /\ v \in Histories /\ v.from < run /\ v.to < run
                               /\ v.from \in Nat /\ v.to \in Nat /\ v.from > 0
                               /\ v.key \in seen'.membersEver
  BY <1>1, <1>2, RunNumbers DEF MembersInv
<1>5. memberHistory \in SUBSET Histories /\ OneOpen(memberHistory)
      /\ \A v \in memberHistory : v.to <= run
  BY <1>1, <1>4 DEF MembersInv
<1> HIDE DEF found
<1>6. memberHistory' \in SUBSET Histories /\ OneOpen(memberHistory')
  BY <1>1, <1>3, <1>5, HistoryGrows, HistoryInOrder
<1>7. /\ \A v \in memberHistory : \E w \in memberHistory' : Becomes(v, w)
      /\ \A w \in memberHistory' : \/ \E v \in memberHistory : Becomes(v, w)
                                   \/ w.key \in got.members /\ w = Version(w.key, found[w.key])
      /\ \A k \in got.members : \E w \in memberHistory' : w.to = 0 /\ w.key = k
  BY <1>1, <1>3, <1>5, HistoryGrows
<1>8. ASSUME NEW v \in memberHistory, NEW w, Becomes(v, w)
      PROVE  w.key = v.key /\ w.from = v.from /\ w.to <= run
  BY <1>1, <1>4, <1>8, VersionTypes DEF Becomes
<1>9. ASSUME NEW w \in memberHistory'
      PROVE  /\ w.from <= run /\ w.to <= run
             /\ w.key \in seen'.membersEver \cup got.members
             /\ w.from = run => w.to = 0 /\ w.key \in got.members
             /\ w.key \notin seen'.membersEver => w.from = run
  <2>1. CASE \E v \in memberHistory : Becomes(v, w)
    BY <1>1, <1>4, <1>8, <2>1
  <2>2. CASE w.key \in got.members /\ w = Version(w.key, found[w.key])
    BY <1>1, <1>3, <2>2, VersionTypes DEF Contents
  <2> QED
    BY <1>7, <2>1, <2>2
<1>10. ASSUME NEW m \in seen'.membersEver
       PROVE  \E w \in memberHistory' : w.key = m /\ w.from < run
  <2>1. PICK v \in memberHistory : v.key = m
    BY <1>1 DEF MembersInv
  <2>2. PICK w \in memberHistory' : Becomes(v, w)
    BY <1>7
  <2> QED
    BY <1>4, <1>8, <2>1, <2>2
<1>11. baseline["group_member"].last = Now.run /\ "group_member" \in Types
       /\ baseline["group_member"].first \in Nat
  BY RunNumbers DEF MembersInv, Types
<1>12. /\ baseline'["group_member"].last = run
       /\ baseline'["group_member"].first = (IF baseline["group_member"].first = 0 THEN run
                                             ELSE baseline["group_member"].first)
  BY <1>11, StoreMembersEffect, BaselineTypes
<1>13. Now.run > 0 => baseline["group_member"].first \in 1..Now.run
  BY DEF MembersInv
<1>14. /\ baseline'["group_member"].first \in 1..run
       /\ Now.run > 0 => baseline'["group_member"].first \in 1..Now.run
  <2>1. baseline["group_member"].first <= run
    <3>1. CASE Now.run > 0
      BY <1>1, <1>2, <1>13, <3>1
    <3>2. CASE Now.run = 0
      BY <1>1, <3>2 DEF MembersInv
    <3> QED
      BY <1>2, <3>1, <3>2
  <2> QED
    BY <1>1, <1>2, <1>11, <1>12, <1>13, <2>1
<1>15. \A m \in got.members : m[1] \in Now'.sensitive
  <2>1. \A m \in got.members : m[1] \in Groups
    BY <1>1 DEF Memberships
  <2> QED
    BY <1>1, <2>1 DEF ReadInv
<1> QED
  BY <1>1, <1>2, <1>6, <1>7, <1>9, <1>10, <1>12, <1>14, <1>15 DEF MembersInv, BeforeMembers

\* What was open between two collections is what the second one sees as earlier.
LEMMA StoreMembersFinished ==
  ASSUME Form, MembersInv, FinishedInv, StoreMembers, got.ok
  PROVE  FinishedInv'
<1>1. /\ pc = "members" /\ pc' = "sensitive" /\ run' = run /\ groupHistory' = groupHistory
      /\ Before' = Now /\ Now'.run = run /\ seen'.finished = seen.finished
      /\ baseline'["sensitive_group"] = baseline["sensitive_group"]
  <2>1. baseline'["sensitive_group"] = baseline["sensitive_group"]
    BY StoreMembersEffect, BaselineTypes DEF Types
  <2> QED
    BY <2>1, StoreMembersEffect DEF Now, Before
<1>2. /\ Now.run < run /\ run \in Nat /\ Now.run \in Nat
      /\ baseline["sensitive_group"].last \in Nat
  BY <1>1, RunNumbers DEF MembersInv, BeforeMembers, Types
<1>3. \A v \in groupHistory : v.from < run /\ v.to < run /\ v.to \in Nat
  BY <1>2, RunNumbers DEF FinishedInv
<1>4. \A g \in Groups : Earlier(g, run) <=> \E v \in Open(groupHistory) : v.key = g
  BY <1>2, <1>3 DEF Earlier, Open
<1>5. \A g \in Groups : Earlier(g, run)' <=> Earlier(g, run)
  BY <1>1 DEF Earlier
<1>6. run \notin seen.finished
  BY <1>1, <1>2 DEF FinishedInv
<1>7. Before'.run \in seen'.finished =>
        \A g \in Groups : g \in Before'.sensitive <=> Earlier(g, Now.run)'
  BY <1>1, <1>4, <1>5 DEF FinishedInv
<1>8. baseline["sensitive_group"].last <= run /\ baseline["sensitive_group"].last < run
  BY <1>1, <1>2 DEF FinishedInv
<1> QED
  BY <1>1, <1>6, <1>7, <1>8 DEF FinishedInv, OneOpen

\* A collection that ends leaves open what it found; what was earlier stays so.
LEMMA StoreSensitiveFinished ==
  ASSUME Form, ReadInv, MembersInv, FinishedInv, StoreSensitive, got.ok
  PROVE  FinishedInv'
<1> DEFINE found == [g \in {h \in Groups : got.reasons[h] # {}} |-> got.reasons[g]]
           nobody == {}
<1>1. /\ pc = "sensitive" /\ pc' = "idle" /\ run' = run /\ run > 0 /\ run \in Nat
      /\ got.reasons \in [Groups -> SUBSET Reasons]
      /\ groupHistory' = UpdatedHistory(groupHistory, found, nobody)
      /\ Before' = Before /\ Now' = Now /\ seen'.finished = seen.finished \cup {run}
  BY StoreSensitiveEffect, RunNumbers DEF Form, Now, Before, ReadOfGroups
<1>2. Now.run = run /\ Now.sensitive = {g \in Groups : got.reasons[g] # {}}
  BY <1>1 DEF ReadInv
<1>3. Contents(found) /\ DOMAIN found = Now.sensitive
  BY <1>1, <1>2 DEF Contents
<1>4. /\ "sensitive_group" \in Types
      /\ baseline["sensitive_group"].last \in Nat /\ baseline["sensitive_group"].first \in Nat
      /\ baseline["sensitive_group"].last < run
  BY <1>1, RunNumbers DEF FinishedInv, Types
<1>5. /\ baseline'["sensitive_group"].last = run
      /\ baseline'["sensitive_group"].first =
           (IF baseline["sensitive_group"].first = 0 THEN run ELSE baseline["sensitive_group"].first)
  BY <1>4, StoreSensitiveEffect, BaselineTypes
<1>6. \A v \in groupHistory : /\ v \in Histories /\ v.from < run /\ v.to < run
                              /\ v.from \in Nat /\ v.to \in Nat
  BY <1>1, <1>4, RunNumbers DEF FinishedInv
<1>7. groupHistory \in SUBSET Histories /\ OneOpen(groupHistory)
      /\ \A v \in groupHistory : v.to <= run
  BY <1>1, <1>6 DEF FinishedInv
<1>a. \A k : k \in DOMAIN found \cup nobody => k \in DOMAIN found
  OBVIOUS
<1> HIDE DEF found, nobody
<1>8. groupHistory' \in SUBSET Histories /\ OneOpen(groupHistory')
  BY <1>1, <1>3, <1>7, HistoryGrows, HistoryInOrder
<1>9. /\ \A v \in groupHistory : \E w \in groupHistory' : Becomes(v, w)
      /\ \A w \in groupHistory' : \/ \E v \in groupHistory : Becomes(v, w)
                                  \/ w.key \in DOMAIN found /\ w = Version(w.key, found[w.key])
      /\ \A w \in groupHistory' : w.to = 0 => w.key \in DOMAIN found
      /\ \A k \in DOMAIN found : \E w \in groupHistory' : w.to = 0 /\ w.key = k
  BY <1>1, <1>3, <1>7, <1>a, HistoryGrows
<1>10. ASSUME NEW v \in groupHistory, NEW w, Becomes(v, w)
       PROVE  /\ w.key = v.key /\ w.from = v.from /\ w.to <= run
              /\ v.to = 0 \/ v.to >= run <=> w.to = 0 \/ w.to >= run
  BY <1>1, <1>6, <1>10, VersionTypes DEF Becomes
<1>11. \A w \in groupHistory' : w.from <= run /\ w.to <= run
  <2> SUFFICES ASSUME NEW w \in groupHistory' PROVE w.from <= run /\ w.to <= run
    OBVIOUS
  <2>1. CASE \E v \in groupHistory : Becomes(v, w)
    BY <1>1, <1>6, <1>10, <2>1
  <2>2. CASE w.key \in DOMAIN found /\ w = Version(w.key, found[w.key])
    BY <1>1, <1>3, <2>2, VersionTypes DEF Contents
  <2> QED
    BY <1>9, <2>1, <2>2
<1>12. ASSUME NEW g \in Groups PROVE Earlier(g, run)' <=> Earlier(g, run)
  <2>1. ASSUME NEW v \in groupHistory, v.key = g, v.from < run, v.to = 0 \/ v.to >= run
        PROVE  Earlier(g, run)'
    <3>1. PICK w \in groupHistory' : Becomes(v, w)
      BY <1>9
    <3> QED
      BY <1>1, <1>10, <2>1, <3>1 DEF Earlier
  <2>2. ASSUME NEW w \in groupHistory', w.key = g, w.from < run, w.to = 0 \/ w.to >= run
        PROVE  Earlier(g, run)
    <3>1. ~(w.key \in DOMAIN found /\ w = Version(w.key, found[w.key]))
      BY <1>1, <1>3, <2>2, VersionTypes DEF Contents
    <3>2. PICK v \in groupHistory : Becomes(v, w)
      BY <1>9, <3>1
    <3> QED
      BY <1>10, <2>2, <3>2 DEF Earlier
  <2> QED
    BY <1>1, <2>1, <2>2 DEF Earlier
<1>13. \A g \in Groups : g \in Now.sensitive <=> \E v \in Open(groupHistory') : v.key = g
  BY <1>3, <1>9 DEF Open
<1>14. Before.run # run
  BY <1>1, <1>2 DEF MembersInv
<1>15. Before.run \in seen'.finished =>
         \A g \in Groups : g \in Before.sensitive <=> Earlier(g, run)'
  BY <1>1, <1>2, <1>12, <1>14 DEF FinishedInv
<1>16. \A n \in seen'.finished : baseline'["sensitive_group"].first \in 1..n /\ n <= run
  <2>1. \A n \in seen.finished : baseline["sensitive_group"].first \in 1..n /\ n <= run
    <3>1. seen.finished \in SUBSET Nat
      BY DEF Form
    <3> QED
      BY <1>1, <1>4, <3>1 DEF FinishedInv
  <2>2. CASE baseline["sensitive_group"].first = 0
    BY <1>1, <1>5, <2>1, <2>2
  <2>3. CASE baseline["sensitive_group"].first # 0
    <3>1. baseline["sensitive_group"].first <= run
      BY <1>1, <1>4 DEF FinishedInv
    <3> QED
      BY <1>1, <1>4, <1>5, <2>1, <2>3, <3>1
  <2> QED
    BY <2>2, <2>3
<1> QED
  BY <1>1, <1>2, <1>5, <1>8, <1>11, <1>13, <1>15, <1>16 DEF FinishedInv

LEMMA ReadNext ==
  ASSUME Form, ReadInv, MembersInv, [Next]_vars
  PROVE  ReadInv'
<1>0. run \in Nat /\ Now.run \in Nat /\ Now.run <= run
  BY RunNumbers DEF MembersInv
<1>1. CASE UNCHANGED vars
  BY <1>1 DEF vars, db, ReadInv, Now
<1>2. CASE Change
  BY <1>2, ChangeEffect DEF db, ReadInv, Now
<1>3. CASE Start
  BY <1>0, <1>3 DEF Start, db, ReadInv, Now
<1>4. CASE ReadRoles
  BY <1>4, ReadRolesEffect DEF db, ReadInv, Now
<1>5. CASE StoreHistory
  BY <1>5, StoreHistoryEffect DEF ReadInv, Now
<1>6. CASE ReadGroups
  <2>1. Now.run < run
    BY <1>6, ReadGroupsEffect DEF MembersInv, BeforeMembers
  <2> QED
    BY <1>0, <1>6, <2>1, ReadGroupsEffect DEF ReadInv, Now
<1>7. CASE StoreMembers
  <2>1. CASE ~got.ok
    BY <1>7, <2>1, StoreMembersEffect DEF ReadInv, Now
  <2>2. CASE got.ok
    <3>1. /\ UNCHANGED <<groups, status, run, got>> /\ pc = "members" /\ pc' = "sensitive"
          /\ Now'.run = run /\ Now'.sensitive = {g \in Groups : got.reasons[g] # {}}
      BY <1>7, <2>2, StoreMembersEffect DEF Now
    <3> QED
      BY <2>2, <3>1 DEF ReadInv
  <2> QED
    BY <2>1, <2>2
<1>8. CASE StoreSensitive
  <2>1. UNCHANGED <<groups, status, run, Now>> /\ pc' = "idle"
    BY <1>8, StoreSensitiveEffect DEF Now
  <2> QED
    BY <2>1 DEF ReadInv
<1>9. CASE Abort
  BY <1>9 DEF Abort, db, ReadInv, Now
<1> QED
  BY <1>1, <1>2, <1>3, <1>4, <1>5, <1>6, <1>7, <1>8, <1>9 DEF Next

LEMMA HistoriesNext ==
  ASSUME Form, ReadInv, MembersInv, FinishedInv, [Next]_vars
  PROVE  MembersInv' /\ FinishedInv'
<1>1. ASSUME UNCHANGED <<memberHistory, groupHistory, baseline, Now, Before,
                         seen.membersEver, seen.finished>>,
             \/ run' = run + 1
             \/ run' = run /\ (BeforeMembers' => BeforeMembers) /\ (pc' # "idle" => pc # "idle")
      PROVE  MembersInv' /\ FinishedInv'
  BY <1>1, HistoriesAside
<1>2. CASE UNCHANGED vars \/ Change
  BY <1>1, <1>2, ChangeEffect DEF vars, db, Now, Before, BeforeMembers
<1>3. CASE Start
  BY <1>1, <1>3 DEF Start, db, Now, Before
<1>4. CASE ReadRoles
  BY <1>1, <1>4, ReadRolesEffect DEF db, Now, Before, BeforeMembers
<1>5. CASE StoreHistory
  BY <1>1, <1>5, StoreHistoryEffect DEF Now, Before, BeforeMembers
<1>6. CASE ReadGroups
  BY <1>1, <1>6, ReadGroupsEffect DEF Now, Before, BeforeMembers
<1>7. CASE StoreMembers
  <2>1. CASE ~got.ok
    BY <1>1, <1>7, <2>1, StoreMembersEffect DEF Now, Before, BeforeMembers
  <2> QED
    BY <1>7, <2>1, StoreMembersHistory, StoreMembersFinished
<1>8. CASE StoreSensitive
  <2>1. CASE ~got.ok
    BY <1>1, <1>8, <2>1, StoreSensitiveEffect DEF Now, Before, BeforeMembers
  <2>2. CASE got.ok
    <3>1. /\ UNCHANGED <<memberHistory, run, Now, Before, seen.membersEver>> /\ pc' = "idle"
          /\ baseline'["group_member"] = baseline["group_member"]
      <4>1. baseline'["group_member"] = baseline["group_member"]
        BY <1>8, <2>2, StoreSensitiveEffect, BaselineTypes DEF Types
      <4> QED
        BY <1>8, <2>2, <4>1, StoreSensitiveEffect DEF Now, Before
    <3>2. MembersInv'
      BY <3>1 DEF MembersInv, BeforeMembers, OneOpen
    <3> QED
      BY <1>8, <2>2, <3>2, StoreSensitiveFinished
  <2> QED
    BY <2>1, <2>2
<1>9. CASE Abort
  BY <1>1, <1>9 DEF Abort, db, Now, Before, BeforeMembers
<1> QED
  BY <1>2, <1>3, <1>4, <1>5, <1>6, <1>7, <1>8, <1>9 DEF Next

EntraInv == Form /\ AssignedInv /\ ReadInv /\ MembersInv /\ FinishedInv

LEMMA EntraInvHolds == Spec => []EntraInv
<1>1. Init => EntraInv
  BY FormInit, AssignedInit, HistoriesInit DEF EntraInv
<1>2. EntraInv /\ [Next]_vars => EntraInv'
  BY FormNext, AssignedNext, ReadNext, HistoriesNext DEF EntraInv
<1> QED
  BY <1>1, <1>2, PTL DEF Spec

-----------------------------------------------------------------------------
(* What follows.                                                           *)

\* The tables hold what they are declared to hold, and an entity has one
\* version after the other, whatever was refused and wherever runs ended.
THEOREM EntraTypeCorrect == Spec => []TypeOK
<1>1. EntraInv => TypeOK
  <2> SUFFICES ASSUME EntraInv PROVE TypeOK
    OBVIOUS
  <2>1. run \in 0..MaxRuns /\ MaxRuns \in Nat /\ LastSeen <= run /\ LastSeen \in Nat
    BY BoundsAssumption, AdminAssigned DEF EntraInv, Form, AssignedInv, LastSeen
  <2>2. \A a \in Assignments : assigned[a] \in [first : Nat, last : Nat]
                               /\ assigned[a].first <= assigned[a].last
                               /\ assigned[a].last <= LastSeen
    BY DEF EntraInv, Form, AssignedInv
  <2>3. \A a \in Assignments : assigned[a] \in [first : 0..MaxRuns, last : 0..MaxRuns]
    BY <2>1, <2>2
  <2>4. assigned \in [Assignments -> [first : 0..MaxRuns, last : 0..MaxRuns]]
    BY <2>3 DEF EntraInv, Form
  <2> QED
    BY <2>2, <2>4 DEF EntraInv, Form, MembersInv, FinishedInv, TypeOK
<1> QED
  BY <1>1, EntraInvHolds, PTL

\* After two finished collections plugin 11029 reports exactly the members
\* never found before of groups that were sensitive before.
LEMMA NewMembersFound ==
  ASSUME EntraInv
  PROVE  NewMembersExact
<1> SUFFICES ASSUME pc = "idle", run = Now.run,
                    Now.run \in seen.finished, Before.run \in seen.finished,
                    NEW m \in Memberships
             PROVE  m \in NewMembers <=> /\ m \in Now.members \ seen.membersEver
                                         /\ m[1] \in Before.sensitive
                                         /\ "holds_role" \notin groups[m[1]]
  BY DEF NewMembersExact, Now, Before
<1>0. m[1] \in Groups /\ Form
  BY DEF Memberships, EntraInv
<1>1. /\ run \in Nat /\ Before.run \in Nat /\ Before.run > 0 /\ Before.run < run
      /\ baseline["group_member"].first \in 1..Before.run
      /\ baseline["group_member"].last = run
      /\ baseline["sensitive_group"].first \in 1..Before.run
      /\ run <= baseline["sensitive_group"].last
      /\ baseline["sensitive_group"].last \in Nat
  <2>1. Before.run \in Nat /\ run \in Nat /\ baseline["sensitive_group"].last \in Nat
        /\ baseline["sensitive_group"].first \in Nat
    BY <1>0, RunNumbers DEF Types
  <2> QED
    BY <2>1 DEF EntraInv, MembersInv, FinishedInv
<1>2. HasBaseline("group_member") /\ HasBaseline("sensitive_group")
  BY <1>1 DEF HasBaseline
<1>3. status = "ok" /\ (groups[m[1]] # {} <=> m[1] \in Now.sensitive)
  BY <1>0, <1>1 DEF EntraInv, ReadInv
<1>4. WasSensitive(m[1]) <=> m[1] \in Before.sensitive
  <2>1. WasSensitive(m[1]) <=> Earlier(m[1], run)
    BY <1>1, <1>2 DEF WasSensitive, Earlier
  <2> QED
    BY <1>0, <2>1 DEF EntraInv, FinishedInv
<1>5. (\E v \in Open(memberHistory) : v.key = m /\ v.from = run)
        /\ (\A v \in memberHistory : v.key = m => v.from = run)
        <=> m \in Now.members \ seen.membersEver
  <2>1. ASSUME m \in Now.members \ seen.membersEver
        PROVE  /\ \E v \in Open(memberHistory) : v.key = m /\ v.from = run
               /\ \A v \in memberHistory : v.key = m => v.from = run
    <3>1. PICK v \in memberHistory : v.key = m
      BY <2>1 DEF EntraInv, MembersInv
    <3> QED
      BY <2>1, <3>1 DEF EntraInv, MembersInv, Open
  <2>2. ASSUME NEW v \in Open(memberHistory), v.key = m, v.from = run,
               \A w \in memberHistory : w.key = m => w.from = run
        PROVE  m \in Now.members \ seen.membersEver
    <3>1. m \in Now.members
      BY <2>2 DEF EntraInv, MembersInv, Open
    <3>2. m \notin seen.membersEver
      BY <1>1, <2>2 DEF EntraInv, MembersInv
    <3> QED
      BY <3>1, <3>2
  <2> QED
    BY <2>1, <2>2
<1>6. m \in Now.members => m[1] \in Now.sensitive
  BY DEF EntraInv, MembersInv
<1> QED
  BY <1>1, <1>2, <1>3, <1>4, <1>5, <1>6 DEF NewMembers

\* Plugin 11029 reports who was never found in the group before, if it was
\* sensitive then; nobody else, and everybody.
THEOREM NewMembersAlwaysExact == Spec => []NewMembersExact
  BY EntraInvHolds, NewMembersFound, PTL

\* A refused read ends no membership, except where it hides that the group is
\* sensitive at all.
THEOREM UnreadNeverCloses == Spec => UnreadClosesNothing
<1>1. EntraInv /\ [Next]_vars =>
        [\A m \in Memberships : Closes(m) => m \notin got.real \/ got.blind]_memberHistory
  <2> SUFFICES ASSUME EntraInv, [Next]_vars, memberHistory' # memberHistory,
                      NEW m \in Memberships, Closes(m), m \in got.real, ~got.blind
               PROVE  FALSE
    OBVIOUS
  <2>0. Form
    BY DEF EntraInv
  <2>1. StoreMembers
    BY <2>0, ChangeEffect, ReadRolesEffect, StoreHistoryEffect, ReadGroupsEffect,
       StoreSensitiveEffect DEF Next, vars, db, Start, Abort
  <2>2. got.ok /\ pc = "members" /\ run > 0 /\ got \in ReadOfGroups
    BY <2>0, <2>1, StoreMembersEffect DEF Form
  <2> DEFINE found == [k \in got.members |-> {}]
  <2>3. memberHistory' = UpdatedHistory(memberHistory, found, UnreadMembers)
    BY <2>0, <2>1, <2>2, StoreMembersEffect
  <2>4. Contents(found) /\ DOMAIN found = got.members
    BY <2>2 DEF Contents, ReadOfGroups
  <2> HIDE DEF found
  <2>5. memberHistory \in SUBSET Histories
    BY DEF EntraInv, MembersInv
  <2>6. /\ \A k \in DOMAIN found : \E w \in memberHistory' : w.to = 0 /\ w.key = k
        /\ \A v \in memberHistory : v.to = 0 /\ v.key \in UnreadMembers \ DOMAIN found
             => v \in memberHistory'
    BY <2>0, <2>2, <2>3, <2>4, <2>5, HistoryGrows
  <2>7. m \in got.members \/ m[1] \in got.failed
    BY <2>2 DEF EntraInv, ReadInv
  <2>8. PICK v \in Open(memberHistory) : v.key = m
    BY DEF Closes
  <2>9. \A w \in memberHistory' : w.to = 0 => w.key # m
    BY DEF Closes, Open
  <2>10. m \in UnreadMembers \ DOMAIN found
    BY <2>4, <2>6, <2>7, <2>9 DEF UnreadMembers
  <2> QED
    BY <2>6, <2>8, <2>9, <2>10 DEF Open
<1> QED
  BY <1>1, EntraInvHolds, PTL DEF Spec, UnreadClosesNothing
=============================================================================
