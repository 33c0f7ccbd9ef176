-------------------------------- MODULE Entra --------------------------------
(***************************************************************************)
(* entra_graph_collector.py: one run after the other copies the tenant     *)
(* into the database, each source at its own moment and in a transaction   *)
(* of its own.  Graph may refuse any optional read, and a run may abort    *)
(* between any two commits.  Two histories outlive the snapshots: which    *)
(* privileged role assignments were seen and since when, and which members *)
(* the sensitive groups had.  adaudit.py reports from them what is new:    *)
(* plugins 11020 (role assignments) and 11029 (members).                   *)
(*                                                                         *)
(* One highly privileged role, one service principal with an app role.  A  *)
(* run's number stands for every time the run takes; 0 is "no time".       *)
(***************************************************************************)
EXTENDS Naturals, FiniteSetsExt

CONSTANTS
  Users, Groups,  \* principals of the tenant
  Admin,          \* the Global Administrator a tenant always has
  MaxRuns,        \* bound: collector runs
  MaxEvents       \* bound: changes of the tenant and refused reads together

ASSUME AdminAssumption == Admin \notin Users \cup Groups
ASSUME BoundsAssumption == MaxRuns \in Nat /\ MaxEvents \in Nat

VARIABLES
  tenant,       \* Entra ID itself
  pc, run, got, \* the collector: its next step, its run and what it has read
  assigned,     \* entra_role_assignment_history: first and last run per key
  groups,       \* entra_group: the sensitive_reasons per group
  status,       \* entra_collection_status of the groups source
  memberHistory, groupHistory,  \* entra_change_history of both entity types
  baseline,     \* entra_change_baseline per entity type
  seen,         \* what the last two reads found and what was then true
  events        \* how many so far

db == <<assigned, groups, status, memberHistory, groupHistory, baseline>>
vars == <<tenant, pc, run, got, db, seen, events>>

Kinds == {"active", "eligible"}
\* A role assignment: who holds the role, and how.
Assignments == ((Users \cup Groups) \X Kinds) \cup {<<Admin, "active">>}
Memberships == Groups \X Users
Reasons == {"holds_role", "ca_exclude", "app_role"}
Types == {"group_member", "sensitive_group"}

-----------------------------------------------------------------------------
(* The tenant.                                                             *)

Tenants == [holders : SUBSET Assignments, members : SUBSET Memberships,
            excluded : SUBSET Groups, appRole : SUBSET Groups]

\* Who really holds the role: directly, or as a member of a group that does.
Held(t) ==
  t.holders \cup {a \in Users \X Kinds : \E g \in Groups : /\ <<g, a[2]>> \in t.holders
                                                         /\ <<g, a[1]>> \in t.members}

Toggled(set, x) == (set \ {x}) \cup ({x} \ set)

\* Between two reads: when exactly makes no difference to what is read.
Change ==
  /\ pc \in {"idle", "groups"}
  /\ events < MaxEvents
  /\ events' = events + 1
  /\ \/ \E a \in Assignments \ {<<Admin, "active">>} :
          tenant' = [tenant EXCEPT !.holders = Toggled(@, a)]
     \/ \E m \in Memberships : tenant' = [tenant EXCEPT !.members = Toggled(@, m)]
     \/ \E g \in Groups : \/ tenant' = [tenant EXCEPT !.excluded = Toggled(@, g)]
                          \/ tenant' = [tenant EXCEPT !.appRole = Toggled(@, g)]
  /\ UNCHANGED <<pc, run, got, db, seen>>

\* Graph refuses n optional reads of a step.
Refuse(n) ==
  /\ events + n <= MaxEvents
  /\ events' = events + n

-----------------------------------------------------------------------------
(* Directory roles.                                                        *)

\* The groups among role members, whose members hold the role too.
RoleGroups(entries) == {g \in Groups : \E k \in Kinds : <<g, k>> \in entries}

\* fetch_role_eligibility: refused, there are no eligible holders.
Direct(t, eligibility) ==
  {a \in t.holders : a[2] = "active" \/ eligibility}

\* expand_group_role_members: a refused group has no members.
Expanded(t, direct, refused) ==
  {a \in Users \X Kinds : \E g \in Groups \ refused : /\ <<g, a[2]>> \in direct
                                                     /\ <<g, a[1]>> \in t.members}

\* What a run holds before it has read anything.
NoRoles == [entries |-> {}, held |-> {}, whole |-> FALSE]

ReadRoles ==
  /\ pc = "roles"
  /\ \E eligibility \in BOOLEAN :
       LET direct == Direct(tenant, eligibility) IN
       \E refused \in SUBSET RoleGroups(direct) :
         /\ Refuse(Cardinality(refused) + IF eligibility THEN 0 ELSE 1)
         /\ got' = [entries |-> direct \cup Expanded(tenant, direct, refused),
                    held |-> Held(tenant), whole |-> eligibility /\ refused = {}]
  /\ pc' = "history"
  /\ UNCHANGED <<tenant, run, db, seen>>

NoRow == [first |-> 0, last |-> 0]
LastRead == Max({assigned[a].last : a \in Assignments})

\* Slip: a row keeps the time it was first seen for good.
FirstSeenKept(a) == IF assigned[a] = NoRow THEN run ELSE assigned[a].first

\* An assignment the previous read did not see starts anew.
FirstSeen(a) ==
  IF assigned[a] = NoRow \/ assigned[a].last < LastRead THEN run ELSE assigned[a].first

StoreHistory ==
  /\ pc = "history"
  /\ assigned' = [a \in Assignments |-> IF a \in got.entries
                                        THEN [first |-> FirstSeen(a), last |-> run]
                                        ELSE assigned[a]]
  /\ seen' = [seen EXCEPT !.before = seen.now,
                          !.now = got,
                          !.ever = @ \cup seen.now.entries]
  /\ pc' = "groups"
  /\ UNCHANGED <<tenant, run, got, groups, status, memberHistory, groupHistory, baseline, events>>

-----------------------------------------------------------------------------
(* The groups source, and what record_source() leaves of it.               *)

\* Slip: with the service principal unreadable no group has an app role.
ReasonsDropped(t, entries, g, appRoles) ==
  {r \in Reasons : \/ r = "holds_role" /\ g \in RoleGroups(entries)
                   \/ r = "ca_exclude" /\ g \in t.excluded
                   \/ r = "app_role" /\ appRoles /\ g \in t.appRole}

\* appRoles: the service principal's assignments could be read.
SensitiveReasons(t, entries, g, appRoles) ==
  {r \in Reasons : \/ r = "holds_role" /\ g \in RoleGroups(entries)
                   \/ r = "ca_exclude" /\ g \in t.excluded
                   \/ r = "app_role" /\ IF appRoles THEN g \in t.appRole
                                        ELSE "app_role" \in groups[g]}

\* collect_groups(): the members of the sensitive groups, except of those
\* that are refused one by one; the source fails when all of them are.
GroupsRead(t, reasons, failed) ==
  LET sensitive == {g \in Groups : reasons[g] # {}} IN
  [ok |-> sensitive = {} \/ failed # sensitive,
   members |-> {m \in t.members : m[1] \in sensitive \ failed}]

\* What is really there of sensitive groups, whatever was refused.
Real(t, held) ==
  {m \in t.members : m[1] \in RoleGroups(held) \cup t.excluded \cup t.appRole}

\* run_optional_sources() and record_source(): the rows of a source that was
\* not read are cleared.
ReadGroups ==
  /\ pc = "groups"
  /\ \E listed \in BOOLEAN, appRoles \in BOOLEAN :
       LET reasons == [g \in Groups |-> SensitiveReasons(tenant, got.entries, g, appRoles)] IN
       \E failed \in SUBSET {g \in Groups : reasons[g] # {}} :
         LET read == GroupsRead(tenant, reasons, failed)
             ok == listed /\ read.ok
         IN /\ ~listed => appRoles /\ failed = {}
            /\ Refuse(Cardinality(failed) + (IF appRoles THEN 0 ELSE 1) + (IF listed THEN 0 ELSE 1))
            /\ got' = [ok |-> ok, reasons |-> reasons, failed |-> failed, members |-> read.members,
                       real |-> Real(tenant, got.held),
                       blind |-> \/ ~got.whole
                                 \/ ~appRoles /\ \E g \in tenant.appRole : "app_role" \notin groups[g]]
            /\ groups' = [g \in Groups |-> IF ok THEN reasons[g] ELSE {}]
            /\ status' = IF ok THEN "ok" ELSE "refused"
  /\ pc' = "members"
  /\ UNCHANGED <<tenant, run, assigned, memberHistory, groupHistory, baseline, seen>>

-----------------------------------------------------------------------------
(* Change history, one transaction per entity type.                        *)

Version(key, content) == [key |-> key, content |-> content, from |-> run, to |-> 0]
Open(history) == {v \in history : v.to = 0}

\* Slip: the version a changed entity had stays open.
UpdatedHistoryUnclosed(history, entities, protected) ==
  LET gone  == {v \in Open(history) : v.key \notin DOMAIN entities \cup protected}
  IN (history \ gone) \cup {[v EXCEPT !.to = run] : v \in gone}
     \cup {Version(k, entities[k]) :
             k \in {e \in DOMAIN entities : \A v \in Open(history) : v.key = e => v.content # entities[e]}}

\* update_change_history(): entities maps what was read to its content; the
\* protected keys are those of objects whose read failed.
UpdatedHistory(history, entities, protected) ==
  LET unchanged == {v \in Open(history) : /\ v.key \in DOMAIN entities
                                          /\ v.content = entities[v.key]}
      left   == {v \in Open(history) : v.key \notin DOMAIN entities /\ v.key \in protected}
      closed == Open(history) \ (unchanged \cup left)
  IN (history \ closed)
     \cup {[v EXCEPT !.to = run] : v \in closed}
     \cup {Version(k, entities[k]) : k \in DOMAIN entities \ {v.key : v \in unchanged}}

UpdatedBaseline(b) ==
  [first |-> IF b.first = 0 THEN run ELSE b.first, previous |-> b.last, last |-> run]

UnreadMembers == {m \in Memberships : m[1] \in got.failed}

StoreMembers ==
  /\ pc = "members"
  /\ IF got.ok
     THEN /\ memberHistory' = UpdatedHistory(memberHistory, [m \in got.members |-> {}], UnreadMembers)
          /\ baseline' = [baseline EXCEPT !["group_member"] = UpdatedBaseline(@)]
          /\ seen' = [seen EXCEPT !.groupsBefore = seen.groupsNow,
                                  !.groupsNow = [sensitive |-> {g \in Groups : got.reasons[g] # {}},
                                                 members |-> got.members, run |-> run],
                                  !.membersEver = @ \cup seen.groupsNow.members]
     ELSE UNCHANGED <<memberHistory, baseline, seen>>
  /\ pc' = "sensitive"
  /\ UNCHANGED <<tenant, run, got, assigned, groups, status, groupHistory, events>>

StoreSensitive ==
  /\ pc = "sensitive"
  /\ IF got.ok
     THEN /\ groupHistory' =
               UpdatedHistory(groupHistory, [g \in {h \in Groups : got.reasons[h] # {}} |-> got.reasons[g]], {})
          /\ baseline' = [baseline EXCEPT !["sensitive_group"] = UpdatedBaseline(@)]
          /\ seen' = [seen EXCEPT !.finished = @ \cup {run}]
     ELSE UNCHANGED <<groupHistory, baseline, seen>>
  /\ pc' = "idle" /\ got' = NoRoles
  /\ UNCHANGED <<tenant, run, assigned, groups, status, memberHistory, events>>

Start ==
  /\ pc = "idle"
  /\ run < MaxRuns
  /\ run' = run + 1
  /\ pc' = "roles"
  /\ UNCHANGED <<tenant, got, db, seen, events>>

\* A required read fails for good, the operator interrupts, the process dies:
\* before the first commit it makes no difference when.
Abort ==
  /\ pc \notin {"idle", "roles"}
  /\ pc' = "idle" /\ got' = NoRoles
  /\ UNCHANGED <<tenant, run, db, seen, events>>

NoGroups == [sensitive |-> {}, members |-> {}, run |-> 0]

\* A new database.
Init ==
  /\ tenant \in {t \in Tenants : <<Admin, "active">> \in t.holders}
  /\ pc = "idle" /\ run = 0 /\ got = NoRoles
  /\ assigned = [a \in Assignments |-> NoRow]
  /\ groups = [g \in Groups |-> {}] /\ status = "none"
  /\ memberHistory = {} /\ groupHistory = {}
  /\ baseline = [t \in Types |-> [first |-> 0, previous |-> 0, last |-> 0]]
  /\ seen = [before |-> NoRoles, now |-> NoRoles, ever |-> {},
             groupsBefore |-> NoGroups, groupsNow |-> NoGroups,
             membersEver |-> {}, finished |-> {}]
  /\ events = 0

Next == \/ Change \/ Start \/ ReadRoles \/ StoreHistory \/ ReadGroups
        \/ StoreMembers \/ StoreSensitive \/ Abort

Spec == Init /\ [][Next]_vars

-----------------------------------------------------------------------------
(* What adaudit.py reports.                                                *)

\* An active assignment of somebody who was eligible earlier.
Activation(a) ==
  /\ a[2] = "active"
  /\ a[1] # Admin
  /\ assigned[<<a[1], "eligible">>].first \in 1..(LastRead - 1)

\* Plugin 11020.
NewAssignments ==
  {a \in Assignments : /\ \E b \in Assignments : assigned[b].first \in 1..(LastRead - 1)
                       /\ assigned[a].first = LastRead
                       /\ ~Activation(a)}

HasBaseline(type) == baseline[type].first < baseline[type].last

\* Slip: a group first seen by the latest collection counts too.
WasSensitiveNow(g) ==
  \/ ~HasBaseline("sensitive_group")
  \/ \E v \in Open(groupHistory) : v.key = g

\* A group that was sensitive before the latest collection.
WasSensitive(g) ==
  LET last == baseline["group_member"].last IN
  \/ ~HasBaseline("sensitive_group")
  \/ \E v \in groupHistory : v.key = g /\ v.from < last /\ (v.to = 0 \/ v.to >= last)

\* Plugin 11029, assessed only while its source is read (requires_sources).
NewMembers ==
  LET last == baseline["group_member"].last IN
  {m \in Memberships :
     /\ status = "ok"
     /\ HasBaseline("group_member")
     /\ \E v \in Open(memberHistory) : v.key = m /\ v.from = last
     /\ \A v \in memberHistory : v.key = m => v.from = last
     /\ WasSensitive(m[1])
     /\ groups[m[1]] # {} /\ "holds_role" \notin groups[m[1]]}

-----------------------------------------------------------------------------
(* Properties.                                                             *)

Histories == [key : Memberships \cup Groups, content : SUBSET Reasons,
              from : 1..MaxRuns, to : 0..MaxRuns]

OneOpen(history) ==
  \A v, w \in history : v.key = w.key /\ v # w => \/ v.to # 0 /\ v.to <= w.from
                                                  \/ w.to # 0 /\ w.to <= v.from

\* The variables hold what the tables hold, and the versions of one entity
\* follow one another.
TypeOK ==
  /\ tenant \in Tenants
  /\ status \in {"none", "ok", "refused"}
  /\ assigned \in [Assignments -> [first : 0..MaxRuns, last : 0..MaxRuns]]
  /\ \A a \in Assignments : assigned[a].first <= assigned[a].last
  /\ groups \in [Groups -> SUBSET Reasons]
  /\ memberHistory \subseteq Histories /\ groupHistory \subseteq Histories
  /\ OneOpen(memberHistory) /\ OneOpen(groupHistory)

\* entra_role_assignment_history, sync_role_assignment_history():1754 and
\* plugin 11020: when the last two role reads were whole, exactly what the
\* former did not find is reported, a re-grant like a grant, except the
\* activations of an eligibility found before and not granted again now.
NewAssignmentsExact ==
  seen.now.whole /\ seen.before.whole =>
    LET new == seen.now.entries \ seen.before.entries
        eligible(a) == <<a[1], "eligible">>
    IN NewAssignments =
         {a \in new : a[2] = "active" => ~(eligible(a) \in seen.ever /\ eligible(a) \notin new)}

\* collect_groups():2544, update_change_history():3310 and plugin 11029:
\* after two finished collections of the groups, the members reported as new
\* are those never read before of a group that was sensitive in the former,
\* whether or not its members could be read then; a member of a group that
\* holds the role is left to plugin 11020.
NewMembersExact ==
  LET now == seen.groupsNow  before == seen.groupsBefore IN
  pc = "idle" /\ run = now.run /\ {now.run, before.run} \subseteq seen.finished =>
    \A m \in Memberships :
      m \in NewMembers <=> /\ m \in now.members \ seen.membersEver
                           /\ m[1] \in before.sensitive
                           /\ "holds_role" \notin groups[m[1]]

\* The memberships whose open version a step closes.
Closes(m) == /\ \E v \in Open(memberHistory) : v.key = m
             /\ \A v \in Open(memberHistory') : v.key # m

\* update_entra_change_history():3614: whatever Graph refused, the history
\* of a membership ends only when the member is gone or the group is no
\* longer sensitive; not so when the role reads were refused (the group then
\* counts as holding no role), or when the service principal was and the last
\* collection did not know the app role.
UnreadClosesNothing ==
  [][\A m \in Memberships : Closes(m) => m \notin got.real \/ got.blind]_memberHistory

\* main(), on sync_role_assignment_history(): "Only reached when the role read
\* above succeeded [...], so history never sees a failed read."  What is held
\* at the moments of both of the last two reads is not reported as granted
\* between them.
HeldThroughoutNotNew ==
  seen.before.entries # {} => NewAssignments \cap seen.now.held \cap seen.before.held = {}

=============================================================================
