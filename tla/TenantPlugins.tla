---------------------------- MODULE TenantPlugins ----------------------------
(***************************************************************************)
(* The plugins that judge the holder of an Entra ID role and the tenant    *)
(* around it (src/plugins/10002 to 10007, 10011, 10012, 10018, 10019,      *)
(* 10040 to 10046 and 10092).  A record p holds the facts they read: one   *)
(* principal with up to two rows of entra_directory_role_member, its       *)
(* entra_user row and the AD account behind it, and what the collection    *)
(* could read of the tenant.                                               *)
(***************************************************************************)
EXTENDS Ratings

TopTier == {"GA", "PRA", "PAA"}
TierZeroRoles == TopTier \cup {"hybrid", "security"}
HighForGuests == TierZeroRoles \cup {"helpdesk"}

\* One way in which a principal holds a role: assigned or eligible for it, at
\* the tenant or in an administrative unit, itself or by a group.
RolePaths ==
    [ role : HighForGuests \cup {"teams", "reader"}, eligible : BOOLEAN, permanent : BOOLEAN, scoped : BOOLEAN,
      viaGroup : BOOLEAN, enabled : {Null, TRUE, FALSE} ]

\* The second one when there are two.
SecondPaths ==
    {r \in RolePaths : r.role \in {"GA", "hybrid", "reader"} /\ ~r.permanent /\ ~r.viaGroup /\ r.enabled # Null}

TenantPrincipalValues ==
    [ type |-> {"user", "servicePrincipal", "group"}, userType |-> {"Member", "Guest"}, extName |-> BOOLEAN,
      path |-> RolePaths, otherPath |-> {{}} \cup {{r} : r \in SecondPaths},
      enabled |-> {Null, TRUE, FALSE},            \* of its entra_user row
      synced |-> {Null, TRUE, FALSE}, linked |-> BOOLEAN,               \* to an AD object, by GUID
      sid |-> {Null, "collected domain", "other domain"}, sidKnown |-> BOOLEAN,
      ad |-> {"enabled", "disabled", "deleted"}, adPrivileged |-> BOOLEAN,
      eligibilityOk |-> BOOLEAN, expansionOk |-> BOOLEAN, scheduleOk |-> BOOLEAN,
      registrationOk |-> BOOLEAN, signInOk |-> BOOLEAN,
      otherGlobalAdmins |-> {0, 1, 7, 8},         \* users
      emergencyNamed |-> BOOLEAN, declared |-> SUBSET {"this", "other"}, caExcluded |-> BOOLEAN,
      activity |-> {Null, 10, 60, 100}, age |-> {10, 60, 100},
      invitation |-> {Null, "PendingAcceptance", "Accepted"}, inState |-> {Null, 10, 40, 100},
      registered |-> {Null, TRUE, FALSE}, phishingResistant |-> BOOLEAN, service |-> BOOLEAN,
      secretEnds |-> {Null, -5, 10, 60}, secretLives |-> {Null, 365, 1000}, dangerous |-> BOOLEAN ]

PathsOf(p) == {p.path} \cup p.otherPath
PathsIn(p, roles) == {r \in PathsOf(p) : r.role \in roles}
HasDisabled(paths) == \E r \in paths : r.enabled = FALSE
AllDisabled(paths) == HasDisabled(paths) /\ ~\E r \in paths : r.enabled = TRUE
TenantWide(paths) == \E r \in paths : ~r.scoped
IsUser(p) == p.type = "user"
TierZeroUser(p) == IsUser(p) /\ PathsIn(p, TierZeroRoles) # {}
CoverageComplete(p) == p.eligibilityOk /\ p.expansionOk

\* An emergency access account: the declared ones, or when none is, any that
\* looks like one.
BreakGlass(p) ==
    IF p.declared # {} THEN "this" \in p.declared
    ELSE /\ p.userType = "Member" /\ p.enabled = TRUE /\ p.synced # TRUE /\ p.caExcluded
         /\ \E r \in PathsIn(p, {"GA"}) : ~r.eligible /\ ~r.viaGroup

Dormant(p, days) ==
    p.signInOk /\ (Older(p.activity, days) \/ (p.activity = Null /\ Older(p.age, days)))

-----------------------------------------------------------------------------
\* Plugin 10002.
CloudOnlyGlobalAdmin(p) ==
    LET paths == PathsIn(p, {"GA"})
        weak == AllDisabled(paths) \/ ~TenantWide(paths)
    IN  Row(paths # {} /\ p.type # "group" /\ p.sid = Null /\ ~p.linked,
            IF IsUser(p) THEN IF weak THEN Info ELSE Low ELSE IF weak THEN Low ELSE Medium) \cup
        Row(~CoverageComplete(p), Low)

\* Plugin 10003.
PrivilegedInBoth(p) ==
    LET paths == PathsIn(p, {"GA", "PRA", "PAA", "hybrid"})
        full == \E r \in paths : ~r.scoped /\ (r.role \in {"GA", "PRA"} \/ ~r.eligible)
        disabled == p.ad = "disabled" \/ \A r \in paths : AllDisabled(PathsIn(p, {r.role}))
    IN  Row(IsUser(p) /\ p.linked /\ p.ad # "deleted" /\ p.adPrivileged /\ paths # {},
            (IF full THEN High ELSE Medium) - (IF disabled THEN 1 ELSE 0))

\* Plugin 10005.
ClientSecretLifetime(p) ==
    Row(p.secretEnds # Null /\ (p.secretEnds < 30 \/ Above(p.secretLives, 730)),
        IF p.secretEnds < 30 THEN Low ELSE Medium)

\* Plugin 10006.
GuestHoldsRole(p) ==
    LET tier(role) == IF role \in HighForGuests THEN High ELSE IF role = "reader" THEN Low ELSE Medium
        steps(r) == (IF r.eligible /\ r.role \notin {"GA", "PRA"} THEN 1 ELSE 0) + (IF r.scoped THEN 1 ELSE 0)
        held(role) ==
            LET paths == PathsIn(p, {role})
                down == CHOOSE d \in {steps(r) : r \in paths} : \A r \in paths : d <= steps(r)
            IN  IF AllDisabled(paths) THEN Low ELSE Higher(Low, tier(role) - down)
    IN  IF IsUser(p) /\ (p.userType = "Guest" \/ p.extName)
        THEN {held(r.role) : r \in PathsOf(p)} ELSE {}

\* Plugin 10007.
DangerousGraphPermission(p) == Row(p.dangerous, Critical)

\* Plugin 10011.
GlobalAdminCount(p) ==
    LET users == p.otherGlobalAdmins + (IF IsUser(p) /\ PathsIn(p, {"GA"}) # {} THEN 1 ELSE 0)
    IN  Row((p.otherGlobalAdmins > 0 \/ PathsIn(p, {"GA"}) # {}) /\ users \notin 2 .. 8,
            IF users < 2 /\ ~CoverageComplete(p) THEN Low ELSE Medium)

\* Plugin 10012.
PermanentRoleAssignment(p) ==
    LET permanent == {r \in PathsIn(p, TierZeroRoles) : ~r.eligible /\ r.permanent /\ ~r.viaGroup}
        top == {r \in permanent : r.role \in TopTier}
    IN  Row(p.scheduleOk /\ p.type # "servicePrincipal" /\ permanent # {},
            IF p.emergencyNamed \/ AllDisabled(permanent) THEN Low
            ELSE IF TenantWide(top) THEN High
            ELSE IF top # {} \/ TenantWide(permanent) THEN Medium ELSE Low)

\* Plugin 10018.
SyncedAccountHoldsRole(p) ==
    LET paths == PathsIn(p, TierZeroRoles)
        synced == p.synced = TRUE \/ (p.synced = Null /\ (p.linked \/ p.sid # Null))
    IN  Row(TierZeroUser(p) /\ synced,
            IF AllDisabled(paths) THEN Low ELSE IF TenantWide(paths) THEN High ELSE Medium)

\* Plugin 10019.
ServicePrincipalHoldsRole(p) ==
    LET paths == PathsIn(p, TierZeroRoles)
        rank(r) == (IF r.role \in TopTier THEN Critical ELSE High) - (IF r.scoped THEN 1 ELSE 0)
    IN  Row(p.type = "servicePrincipal" /\ paths # {},
            Higher(Low, Worst({rank(r) : r \in paths}) - (IF AllDisabled(paths) THEN 1 ELSE 0)))

\* Plugin 10040.
NoMfaMethod(p) ==
    Row(IsUser(p) /\ p.registrationOk /\ p.enabled = TRUE /\ p.registered = FALSE,
        IF TierZeroUser(p) THEN High ELSE IF p.userType = "Guest" THEN Low ELSE Medium)

\* Plugin 10041.
NoPhishingResistantMethod(p) ==
    Row(/\ TierZeroUser(p) /\ p.registrationOk /\ p.registered # Null /\ ~p.phishingResistant
        /\ Or(p.enabled, ~HasDisabled(PathsIn(p, TierZeroRoles))), High)

\* Plugin 10042.
DormantUser(p) ==
    Row(/\ IsUser(p) /\ p.userType = "Member" /\ p.enabled = TRUE
        /\ ~TierZeroUser(p) /\ ~BreakGlass(p) /\ Dormant(p, 90), Low)

\* Plugin 10043.
DormantPrivilegedUser(p) ==
    Row(TierZeroUser(p) /\ p.enabled = TRUE /\ ~BreakGlass(p) /\ Dormant(p, 45), High)

\* Plugin 10044.
DormantGuest(p) ==
    LET inState == Or(p.inState, p.age)
    IN  Row(/\ IsUser(p) /\ p.userType = "Guest" /\ p.enabled = TRUE
            /\ \/ p.invitation = "PendingAcceptance" /\ inState > 30
               \/ /\ p.invitation = "Accepted" /\ p.signInOk
                  /\ Older(p.activity, 90) \/ (p.activity = Null /\ inState > 90), Low)

\* Plugin 10045.
DisabledAccountHoldsRole(p) ==
    LET paths == {r \in PathsOf(p) : r.enabled = FALSE}
    IN  Row(IsUser(p) /\ paths # {}, IF \E r \in paths : r.role \in TierZeroRoles THEN Medium ELSE Low)

\* Plugin 10046.
PrivilegedUserWithServices(p) == Row(TierZeroUser(p) /\ p.enabled = TRUE /\ p.service, Medium)

\* Plugin 10092.
EnabledInCloudOnly(p) ==
    LET kinds ==
            Row(p.synced = TRUE /\ p.linked /\ p.ad = "disabled", 3) \cup
            Row(p.linked /\ p.ad = "deleted", 2) \cup
            Row(~p.linked /\ p.sid = "collected domain" /\ ~p.sidKnown, 2)
    IN  Row(IsUser(p) /\ p.enabled = TRUE /\ (p.synced = TRUE \/ p.sid # Null) /\ kinds # {},
            Worst(kinds) + (IF TierZeroUser(p) THEN 1 ELSE 0))

-----------------------------------------------------------------------------
\* What the plugins report.
TenantFindings(p) ==
    UNION { Report(10002, CloudOnlyGlobalAdmin(p)), Report(10003, PrivilegedInBoth(p)),
            Report(10005, ClientSecretLifetime(p)), Report(10006, GuestHoldsRole(p)),
            Report(10007, DangerousGraphPermission(p)), Report(10011, GlobalAdminCount(p)),
            Report(10012, PermanentRoleAssignment(p)), Report(10018, SyncedAccountHoldsRole(p)),
            Report(10019, ServicePrincipalHoldsRole(p)), Report(10040, NoMfaMethod(p)),
            Report(10041, NoPhishingResistantMethod(p)), Report(10042, DormantUser(p)),
            Report(10043, DormantPrivilegedUser(p)), Report(10044, DormantGuest(p)),
            Report(10045, DisabledAccountHoldsRole(p)), Report(10046, PrivilegedUserWithServices(p)),
            Report(10092, EnabledInCloudOnly(p)) }
=============================================================================
