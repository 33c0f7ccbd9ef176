----------------------------- MODULE AclPlugins -----------------------------
(***************************************************************************)
(* The plugins that judge a delegated right (src/plugins/50NN_*.py, 4034   *)
(* and 4035).  A record a holds what one trustee has on one object by its  *)
(* acl_edge rows, or by owning it, and the facts about the object and the  *)
(* domain that the plugins weigh.  The plugins disagree on who is expected *)
(* to hold a right; each rule below excuses the trustees its query does.   *)
(***************************************************************************)
EXTENDS Ratings

\* Trustees, by RID or well-known name.  "privileged" is a member of a
\* protected group, "controller" one privileged only by its control of the
\* domain root or an OU, "548" a protected group that is no such member.
Broad == {"everyone", "authenticated", "users"}
Trustees == Broad \cup
    { "network", "system", "edc", "creator", "self", "498", "500", "512", "513", "514", "515", "516",
      "518", "519", "521", "526", "527", "544", "548", "554", "dc", "privileged", "controller",
      "connector", "DnsAdmins", "plain", "unresolved" }

\* What each class of object the targeted rights reach, by the right's name.
Targets ==
    [ reset |-> {"user", "computer"}, keys |-> {"user", "computer"}, rbcd |-> {"user", "computer"},
      spn |-> {"user", "computer"}, member |-> {"group"}, uac |-> {"user", "computer"},
      script |-> {"user"}, certs |-> {"user", "computer"}, restrictions |-> {"user", "computer"} ]

\* A right is "all", "write" (every attribute), "rewrite" (the ACL or the
\* owner), "extended" (every extended right), or names what it is limited to.
Rights == DOMAIN Targets \cup
    { "all", "write", "rewrite", "extended", "changes", "changesAll", "topology", "synchronize",
      "reanimate", "migrate", "unexpire", "gplink", "path", "create", "createDmsa", "createDns",
      "delete", "attribute", "read", "readKey", "photo" }

AclValues ==
    [ trustee |-> Trustees, rights |-> {{}, {"changes", "changesAll"}} \cup {{r} : r \in Rights},
      on |-> {"root", "sdholder", "ou", "gpo", "zone", "account", "schema class",
              "dkm key", "dkm folder", "kds key", "kds folder", "none"},
      inheritOnly |-> BOOLEAN, inherited |-> BOOLEAN,
      for |-> {Null, "user", "computer", "group", "ou", "contact", "kds key", "other"},   \* inheritedObjectType
      owner |-> BOOLEAN,               \* the trustee owns the object
      principalFound |-> BOOLEAN,      \* a foreign security principal row for a well-known trustee
      connectorActive |-> BOOLEAN,
      link |-> {"none", "other", "tier 0"},          \* of the group policy
      exposed |-> SUBSET {"user", "computer", "group"},   \* Tier 0 below it that SDProp skips
      holdsTier0 |-> BOOLEAN, unprotectedDc |-> BOOLEAN, dc2025 |-> BOOLEAN,
      aliased |-> BOOLEAN,             \* a schema default names it by alias, not by SID
      daclProtected |-> {Null, TRUE, FALSE}, objectAdminCount |-> {Null, 0, 1},
      objectTier0 |-> BOOLEAN, objectEnabled |-> {Null, TRUE, FALSE},
      keyRead |-> {Null, TRUE, FALSE},     \* the collector itself could read the DKM key
      supersedes |-> {"nothing", "plain", "tier 0"},    \* the account a dMSA replaces
      internalZone |-> BOOLEAN, wildcard |-> {Null, TRUE, FALSE}, wpad |-> {Null, TRUE, FALSE} ]

Has(a, rights) == a.rights \cap rights # {}
Direct(a) == ~a.inheritOnly
AdminGroups == {"512", "519", "544"}

\* A row needs a directory object or one of the broad well-known SIDs.
Visible(a) ==
    \/ a.trustee \in Broad \cup {"network"}
    \/ a.trustee \in {"system", "edc", "creator", "self"} /\ a.principalFound
    \/ a.trustee \notin {"system", "edc", "creator", "self", "unresolved"}

\* v_privileged_principal, with it the protected groups, and without those
\* privileged only by a right on the domain root or an OU.
PrivilegedPrincipals == {"512", "518", "519", "500", "privileged", "controller"}
ProtectedGroups == {"512", "516", "518", "519", "521", "526", "527", "544", "548"}
Tier0Sids == PrivilegedPrincipals \cup ProtectedGroups
Tier0SidsApartFromOus == Tier0Sids \ {"controller"}
Builtins == {"system", "544", "edc", "creator"}

FullDcSync(a) == Replicates(a.rights)

-----------------------------------------------------------------------------
\* Plugin 5001.
DcsyncUnexpectedPrincipal(a) ==
    Row(/\ a.on = "root" /\ Direct(a) /\ Has(a, {"changes", "changesAll", "extended", "all"})
        /\ Visible(a) /\ a.trustee \notin AdminGroups \cup {"edc", "516", "dc"}
        /\ ~(a.trustee \in {"521", "498"} /\ ~FullDcSync(a))
        /\ ~(a.trustee = "connector" /\ a.connectorActive),
        IF FullDcSync(a) THEN Critical ELSE Medium)

\* Plugin 5002.
AdminSdHolderDangerousRights(a) ==
    Row(/\ a.on = "sdholder" /\ Direct(a) /\ Has(a, {"all", "write", "rewrite"})
        /\ Visible(a) /\ a.trustee \notin AdminGroups \cup {"system"}, Critical)

\* Plugin 5003.
DomainRootDangerousRights(a) ==
    Row(/\ a.on = "root" /\ Direct(a) /\ Has(a, {"all", "write", "rewrite", "gplink"})
        /\ Visible(a) /\ a.trustee \notin AdminGroups \cup {"system"}, Critical)

\* Plugin 5004.
ReplicationManageTopology(a) ==
    Row(/\ a.on = "root" /\ Direct(a) /\ Has(a, {"topology"})
        /\ Visible(a) /\ a.trustee \notin AdminGroups \cup {"498", "edc", "dc"}, High)

\* Plugin 5005.
ReplicationSynchronize(a) ==
    Row(/\ a.on = "root" /\ Direct(a) /\ Has(a, {"synchronize"})
        /\ Visible(a) /\ a.trustee \notin AdminGroups \cup {"498", "edc", "dc"}, Low)

\* Plugin 5006.
DomainRootAdminSdHolderOwner(a) ==
    Row(a.on \in {"root", "sdholder"} /\ a.owner /\ a.trustee \notin AdminGroups \cup {"system"}, Critical)

\* Plugin 5007.
PrivilegedObjectUnprivilegedOwner(a) ==
    Row(/\ a.on = "account" /\ a.objectAdminCount = 1 /\ a.owner
        /\ a.trustee \notin ProtectedGroups \cup {"500", "system", "edc", "privileged"},
        IF a.objectEnabled = FALSE THEN Medium ELSE High)

\* Plugin 5008.
ReanimateTombstonesDomainRoot(a) ==
    Row(/\ a.on = "root" /\ Direct(a) /\ Has(a, {"reanimate"})
        /\ Visible(a) /\ a.trustee \notin AdminGroups \cup {"518", "system"}, Medium)

\* Plugin 5009.
EnterpriseKeyAdminsExcessiveRights(a) ==
    Row(a.on = "root" /\ a.trustee = "527" /\ Has(a, Rights \ {"keys", "read", "readKey", "photo"}), Critical)

\* Slip: entries for one class of descendants are passed over.
SlipDomainRootDescendantDelegation(a) ==
    Row(/\ a.on = "root" /\ a.inheritOnly /\ Has(a, {"all", "write", "rewrite"}) /\ a.for = Null
        /\ Visible(a) /\ a.trustee \notin AdminGroups \cup {"system"},
        IF a.unprotectedDc THEN Critical ELSE High)

\* Plugin 5010.
DomainRootDescendantDelegation(a) ==
    Row(/\ a.on = "root" /\ a.inheritOnly /\ Has(a, {"all", "write", "rewrite"})
        /\ Visible(a) /\ a.trustee \notin AdminGroups \cup {"system"},
        IF a.for \in {Null, "computer"} /\ a.unprotectedDc THEN Critical ELSE High)

\* Plugin 5011.
AdminSdHolderInheritanceNotProtected(a) ==
    Row(a.on = "sdholder" /\ a.daclProtected = FALSE, High) \cup
    Row(a.on = "account" /\ a.objectAdminCount = 1 /\ a.objectTier0 /\ a.daclProtected = FALSE, Medium)

\* Plugin 5012.
GpoModifiableByNonTier0(a) ==
    Row(/\ a.on = "gpo"
        /\ a.owner \/ (Direct(a) /\ Has(a, {"all", "write", "rewrite", "path"}))
        /\ a.trustee \notin Builtins \cup {"512", "516", "519"} \cup Tier0Sids,
        CASE a.link = "tier 0" -> Critical [] a.link = "other" -> High [] OTHER -> Low)

\* On the domain root or an OU, where it takes effect on OUs too.
OnContainer(a) == a.on \in {"root", "ou"} /\ ~a.inherited /\ (Direct(a) \/ a.for \in {Null, "ou"})
ReachesTier0(a) == a.on = "root" \/ a.holdsTier0

\* Plugin 5013.
GpoLinkRightsNonTier0(a) ==
    Row(/\ OnContainer(a) /\ Has(a, {"gplink"})
        /\ a.trustee \notin Builtins \cup {"self", "512", "516", "519"} \cup Tier0SidsApartFromOus,
        IF ReachesTier0(a) THEN Critical ELSE High)

\* Plugin 5014.
TargetedAttributeWriteDelegation(a) ==
    LET reached == {c \in a.exposed : \E r \in a.rights \cap DOMAIN Targets :
                                        c \in Targets[r] /\ a.for \in {Null, c}}
    IN  Row(/\ a.on \in {"root", "ou"} /\ ~a.inherited /\ Has(a, DOMAIN Targets)
            /\ a.trustee \notin Builtins \cup {"self", "512", "516", "518", "519", "526", "527"}
                                \cup Tier0SidsApartFromOus,
            IF reached # {} THEN Critical ELSE IF a.on = "root" THEN High ELSE Medium)

\* Plugin 5015.
SchemaDefaultSdModified(a) ==
    LET domainSid == a.trustee \notin Broad \cup {"network", "system", "edc", "creator", "self", "544", "548", "554"}
        writes == Has(a, {"all", "write", "rewrite", "attribute", "create", "createDmsa", "createDns",
                          "delete", "extended", "gplink", "path"} \cup (DOMAIN Targets \ {"reset"}))
    IN  Row(/\ a.on = "schema class" /\ a.rights # {}
            /\ (domainSid /\ ~a.aliased)
               \/ (writes /\ a.trustee \in Broad \cup {"network", "513", "514", "515", "554"}), High)

\* Plugin 5016.
AdfsDkmKeyReadable(a) ==
    Row(a.on = "dkm key" /\ a.keyRead = TRUE, Critical) \cup
    Row(/\ \/ a.on = "dkm key" /\ Direct(a)
           \/ a.on = "dkm folder" /\ a.inheritOnly /\ a.for \in {Null, "contact"}
        /\ Has(a, {"all", "read", "photo", "rewrite"})
        /\ a.trustee \notin Builtins \cup {"512", "516", "519"} \cup Tier0Sids,
        IF a.trustee \in Broad \cup {"554", "513", "514", "515"} THEN Critical ELSE Medium)

\* Plugin 5017.
BadSuccessorDmsaCreation(a) ==
    Row(/\ \/ OnContainer(a) /\ Has(a, {"all", "create", "createDmsa", "rewrite"})
           \/ a.on = "ou" /\ a.owner
        /\ a.trustee \notin Builtins \cup {"512", "516", "519"} \cup Tier0SidsApartFromOus,
        IF a.dc2025 THEN Critical ELSE Medium) \cup
    Row(a.supersedes = "tier 0", Critical)

\* Plugin 5018.
DangerousExtendedRightsDelegated(a) ==
    LET rank == IF Has(a, {"migrate"}) THEN High ELSE IF Has(a, {"reanimate"}) THEN Medium ELSE Low
        broad == a.trustee \in Broad \cup {"513", "515"}
    IN  Row(/\ a.on = "root" \/ (a.on = "ou" /\ ~a.inherited)
            /\ Direct(a) /\ Has(a, {"migrate", "unexpire", "reanimate"})
            /\ ~(a.on = "root" /\ Has(a, {"reanimate"}))
            /\ ~(a.on = "root" /\ Has(a, {"unexpire"}) /\ a.trustee = "authenticated")
            /\ a.trustee \notin {"system", "544", "edc", "516"} \cup PrivilegedPrincipals,
            IF broad THEN rank + 1 ELSE rank)

\* Plugin 5019.
DnsZoneWriteDelegation(a) ==
    Row(/\ a.on = "zone" /\ Direct(a)
        /\ Has(a, {"all", "write", "rewrite", "delete", "attribute"} \cup (DOMAIN Targets \ {"reset"}))
        /\ a.trustee \notin Builtins \cup {"self", "516", "DnsAdmins"} \cup PrivilegedPrincipals,
        IF a.trustee \in Broad \cup {"513", "515"} THEN High ELSE Medium)

\* Plugin 4034, the rows of the keys.
KdsRootKeyReadable(a) ==
    Row(/\ \/ a.on = "kds key" /\ Direct(a)
           \/ a.on = "kds folder" /\ (a.for = "kds key" \/ (a.inheritOnly /\ a.for = Null))
        /\ Has(a, {"all", "read", "readKey"})
        /\ a.trustee \notin Builtins \cup {"self", "516"} \cup PrivilegedPrincipals, Critical)

\* Plugin 4035.
AdidnsAnyUserCreateRecords(a) ==
    Row(/\ a.on = "zone" /\ ~a.internalZone /\ Direct(a)
        /\ a.trustee \in {"everyone", "authenticated", "513", "515"}
        /\ Has(a, {"all", "create", "createDns", "write"}),
        IF a.wildcard = FALSE \/ a.wpad = FALSE THEN Medium ELSE Low)

-----------------------------------------------------------------------------
\* What the plugins report.
AclFindings(a) ==
    UNION { Report(5001, DcsyncUnexpectedPrincipal(a)), Report(5002, AdminSdHolderDangerousRights(a)),
            Report(5003, DomainRootDangerousRights(a)), Report(5004, ReplicationManageTopology(a)),
            Report(5005, ReplicationSynchronize(a)), Report(5006, DomainRootAdminSdHolderOwner(a)),
            Report(5007, PrivilegedObjectUnprivilegedOwner(a)),
            Report(5008, ReanimateTombstonesDomainRoot(a)),
            Report(5009, EnterpriseKeyAdminsExcessiveRights(a)),
            Report(5010, DomainRootDescendantDelegation(a)),
            Report(5011, AdminSdHolderInheritanceNotProtected(a)),
            Report(5012, GpoModifiableByNonTier0(a)), Report(5013, GpoLinkRightsNonTier0(a)),
            Report(5014, TargetedAttributeWriteDelegation(a)), Report(5015, SchemaDefaultSdModified(a)),
            Report(5016, AdfsDkmKeyReadable(a)), Report(5017, BadSuccessorDmsaCreation(a)),
            Report(5018, DangerousExtendedRightsDelegated(a)), Report(5019, DnsZoneWriteDelegation(a)),
            Report(4034, KdsRootKeyReadable(a)), Report(4035, AdidnsAnyUserCreateRecords(a)) }
=============================================================================
