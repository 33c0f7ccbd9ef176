------------------------- MODULE TenantChangePlugins -------------------------
(***************************************************************************)
(* The change detection plugins over Entra ID histories (src/plugins/11020 *)
(* and 11022 to 11031).  A record holds one tenant as a collection left    *)
(* it; a plugin sees b, what the collection before the last one left, Null *)
(* when the last one was the first, and n, the last one.  An entity is     *)
(* "removed" when only closed rows of its history are left.                *)
(***************************************************************************)
EXTENDS Ratings

Lifecycle == {"never seen", "removed", "present"}
Loosenings == {"approval off", "mfa off", "justification off", "longer", "permanent eligible",
               "permanent active", "nobody notified"}

TenantValues ==
    [ role |-> {"critical", "privileged", "other"}, assignments |-> SUBSET {"active", "eligible"},   \* of one member
      domain |-> Lifecycle, authentication |-> {"managed", "federated"},
      endpoints |-> {1, 2}, signingCertificate |-> {1, 2},
      credential |-> Lifecycle, credentialOf |-> {"application", "servicePrincipal"},
      certificate |-> BOOLEAN, saml |-> BOOLEAN, firstParty |-> {Null, TRUE, FALSE}, powerful |-> BOOLEAN,
      permission |-> Lifecycle, federatedCredential |-> Lifecycle,
      ca |-> Lifecycle, caState |-> {"enabled", "report only", "disabled"},
      caExcluded |-> SUBSET {"user", "guests"}, caRequired |-> SUBSET {"all users", "mfa", "strength", "every control"},
      securityDefaults |-> {Null, TRUE, FALSE},
      tenantPolicy |-> Lifecycle, allowed |-> SUBSET {"sms", "user consent", "guest invites"}, otherKey |-> {Null, 1, 2},
      owner |-> Lifecycle, ownerOf |-> {"application", "servicePrincipal", "group"}, ownedAppIsNew |-> BOOLEAN,
      groupReasons |-> SUBSET {"ca_exclude", "role_assignable", "app_role", "holds_role"},
      groupsTracked |-> BOOLEAN,                  \* sensitive groups have a baseline
      member |-> Lifecycle,
      partner |-> Lifecycle, syncInbound |-> BOOLEAN, contract |-> BOOLEAN,
      pim |-> {{}, Loosenings} \cup {{l} : l \in Loosenings}, pimTier0 |-> BOOLEAN ]

NewKey(b, n, entity) == b # Null /\ b[entity] = "never seen" /\ n[entity] = "present"
Added(b, n, entity) == b # Null /\ b[entity] # "present" /\ n[entity] = "present"
Removed(b, n, entity) == b # Null /\ b[entity] = "present" /\ n[entity] # "present"
Kept(b, n, entity) == b # Null /\ b[entity] = "present" /\ n[entity] = "present"

-----------------------------------------------------------------------------
\* Plugin 11020.
NewPrivilegedRoleAssignment(b, n) ==
    LET new == {t \in n.assignments \ b.assignments : ~(t = "active" /\ "eligible" \in b.assignments)}
    IN  Row(b # Null /\ n.role # "other" /\ new # {}, IF n.role = "critical" THEN Critical ELSE High)

\* Plugin 11022.
FederationConfigurationChanged(b, n) ==
    LET federated == n.authentication = "federated"
        was == b.authentication = "federated"
    IN  Row(Added(b, n, "domain"), IF federated THEN Critical ELSE Low) \cup
        Row(Removed(b, n, "domain"), Medium) \cup
        Row(/\ Kept(b, n, "domain")
            /\ \E field \in {"authentication", "endpoints", "signingCertificate"} : n[field] # b[field],
            IF federated /\ ~was THEN Critical
            ELSE IF was /\ ~federated THEN Medium
            ELSE IF n.endpoints # b.endpoints THEN Critical ELSE High)

\* Plugin 11023.
NewAppCredential(b, n) ==
    Row(NewKey(b, n, "credential"),
        IF n.firstParty = TRUE \/ n.powerful THEN Critical
        ELSE IF n.credentialOf = "servicePrincipal" /\ n.certificate /\ n.saml THEN Medium ELSE High)

\* Plugin 11024.
NewAppPermissionGrant(b, n) == Row(NewKey(b, n, "permission"), High)

\* Plugin 11025.
ConditionalAccessWeakened(b, n) ==
    LET changed == \E field \in {"caState", "caExcluded", "caRequired"} : n[field] # b[field]
        weaker == n.caExcluded \ b.caExcluded # {} \/ b.caRequired \ n.caRequired # {}
        enabled == "enabled" \in {b.caState, n.caState}
    IN  Row(Added(b, n, "ca"), Medium) \cup
        Row(Removed(b, n, "ca"), IF b.caState = "enabled" THEN High ELSE Medium) \cup
        Row(Kept(b, n, "ca") /\ changed,
            IF (b.caState = "enabled" /\ n.caState # "enabled") \/ (enabled /\ weaker) THEN High ELSE Medium) \cup
        Row(b # Null /\ b.securityDefaults = TRUE /\ n.securityDefaults = FALSE, High)

\* Plugin 11026.
TenantPolicyLoosened(b, n) ==
    LET loosened == n.allowed \ b.allowed # {}
        changed == n.allowed # b.allowed \/ (b.otherKey # Null /\ n.otherKey # b.otherKey)
    IN  Row(Removed(b, n, "tenantPolicy"), Medium) \cup
        Row(Kept(b, n, "tenantPolicy") /\ changed, IF loosened THEN High ELSE Medium)

\* The group counted as sensitive already at the collection before.
SensitiveBefore(b, n) == ~n.groupsTracked \/ b.groupReasons # {}

\* Plugin 11027.
NewOwner(b, n) ==
    Row(NewKey(b, n, "owner") /\ (n.ownerOf = "group" => SensitiveBefore(b, n)),
        IF n.ownerOf = "application" /\ n.ownedAppIsNew THEN Medium ELSE High)

\* Plugin 11028.
NewPartnerRelationship(b, n) ==
    LET sync == n.syncInbound /\ ~n.contract
    IN  Row(\/ NewKey(b, n, "partner")
            \/ Added(b, n, "partner") /\ n.syncInbound
            \/ Kept(b, n, "partner") /\ n.syncInbound /\ ~b.syncInbound,
            IF sync THEN High ELSE Medium)

\* Plugin 11029.
NewMemberOfSensitiveGroup(b, n) ==
    LET hit == n.groupReasons \cap {"ca_exclude", "role_assignable", "app_role"}
    IN  Row(NewKey(b, n, "member") /\ SensitiveBefore(b, n) /\ "holds_role" \notin n.groupReasons /\ hit # {},
            IF hit \cap {"ca_exclude", "role_assignable"} # {} THEN High ELSE Medium)

\* Plugin 11030.
NewFederatedIdentityCredential(b, n) ==
    Row(NewKey(b, n, "federatedCredential"), IF n.powerful THEN Critical ELSE High)

\* Plugin 11031.
PimRoleSettingsWeakened(b, n) ==
    Row(b # Null /\ n.pim \ b.pim # {}, IF n.pimTier0 THEN High ELSE Medium)

-----------------------------------------------------------------------------
\* What the plugins report.
TenantChangeFindings(b, n) ==
    UNION { Report(11020, NewPrivilegedRoleAssignment(b, n)),
            Report(11022, FederationConfigurationChanged(b, n)), Report(11023, NewAppCredential(b, n)),
            Report(11024, NewAppPermissionGrant(b, n)), Report(11025, ConditionalAccessWeakened(b, n)),
            Report(11026, TenantPolicyLoosened(b, n)), Report(11027, NewOwner(b, n)),
            Report(11028, NewPartnerRelationship(b, n)), Report(11029, NewMemberOfSensitiveGroup(b, n)),
            Report(11030, NewFederatedIdentityCredential(b, n)),
            Report(11031, PimRoleSettingsWeakened(b, n)) }
=============================================================================
