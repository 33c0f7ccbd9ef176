------------------------------- MODULE MCEntra -------------------------------
(* A small instance of Entra.  The group g1 starts as a member of one or two *)
(* of the sets that make it sensitive; g2 always is, for the one reason that *)
(* a policy excludes it, and stays readable.                                 *)
EXTENDS Entra

CONSTANTS u1, g1, g2

Tenant(holders, members, excluded, appRole) ==
  [holders |-> holders \cup {<<Admin, "active">>}, members |-> members,
   excluded |-> excluded \cup {g2}, appRole |-> appRole]

MCTenants ==
  {Tenant({}, {<<g1, u1>>}, {g1}, {}),
   Tenant({<<g1, "eligible">>}, {<<g1, u1>>}, {}, {g1})}

MCInit == Init /\ tenant \in MCTenants

\* What an administrator does to g2 changes its members only.
SteadyGroup ==
  /\ g2 \notin RoleGroups(tenant'.holders) \cup tenant'.appRole
  /\ g2 \in tenant'.excluded

MCNext == \/ Change /\ SteadyGroup
          \/ ReadGroups /\ g2 \notin got'.failed
          \/ Start \/ ReadRoles \/ StoreHistory \/ StoreMembers \/ StoreSensitive \/ Abort

MCSpec == MCInit /\ [][MCNext]_vars
==============================================================================
