------------------------------ MODULE MCPlugins ------------------------------
(* Every family from one or two objects: one with nothing to report, and one *)
(* that is privileged or exposed, so that a change or two more meet what the *)
(* plugins report of it.                                                     *)
EXTENDS PluginProperties, TLC

PlainAccount ==
    [ disabled |-> FALSE, notRequired |-> FALSE, trust |-> FALSE, neverExpires |-> FALSE, reversible |-> FALSE,
      smartcard |-> TRUE, notDelegated |-> TRUE, preauthOff |-> FALSE, desOnly |-> FALSE, t2a4d |-> FALSE,
      rid |-> 1104, tier |-> 2, name |-> "plain", text |-> "", adminCount |-> 0, group |-> "none",
      inProtectedUsers |-> FALSE, operatorsMasked |-> FALSE, primaryGroup |-> 513, onRoot |-> {}, groupOnRoot |-> {},
      onSdHolder |-> {}, owner |-> FALSE, ouDelegated |-> FALSE, pwdAge |-> 10, logonAge |-> 10, age |-> 200,
      expired |-> Null, spn |-> FALSE, mailbox |-> FALSE, sidHistory |-> {}, targets |-> {}, unconstrained |-> FALSE,
      rbcdTrustee |-> FALSE, rbcdTarget |-> FALSE, enc |-> {"rc4", "aes"}, kdcRc4 |-> FALSE, sysvolRead |-> TRUE,
      aesSince |-> {300}, keys |-> {}, keyCount |-> 0, keysParsed |-> TRUE, cleartext |-> {}, mappings |-> {},
      upnOf |-> "nobody", lockedFor |-> Null, lockout |-> 30, pso |-> {}, badPwd |-> 0, threshold |-> 5,
      hashRolling |-> TRUE, maxPwdAge |-> 42, hybrid |-> TRUE, inEntra |-> TRUE ]

\* A sync account outside the administrators' groups that may replicate.
SyncingAccount ==
    [ PlainAccount EXCEPT !.onRoot = {"changes", "changesAll"}, !.text = "Synchronization Service",
                          !.spn = TRUE, !.neverExpires = TRUE, !.notRequired = TRUE, !.adminCount = 1 ]

MemberServer ==
    [ uac |-> {"workstation"}, special |-> "none", os |-> "Server 2022", logonAge |-> 10, pwdAge |-> 10,
      age |-> 1200, lapsLegacy |-> Null, lapsModern |-> -10, lapsReadable |-> FALSE, serviceAccount |-> FALSE,
      readers |-> {}, enc |-> {"rc4", "aes"}, kdcRc4 |-> FALSE, sysvolRead |-> TRUE, cluster |-> FALSE,
      passwordText |-> FALSE, groups |-> {}, onRoot |-> {}, caObjects |-> FALSE, caHost |-> FALSE, tier |-> 1,
      ownsRoot |-> FALSE, keys |-> {}, keyCount |-> 0, keysParsed |-> TRUE, sidHistory |-> {}, primaryGroup |-> 515,
      targets |-> {}, rbcd |-> {}, rbcdTo |-> {}, owner |-> "Domain Admins", createdByOwner |-> FALSE,
      inDcOu |-> FALSE, name |-> "with dollar", dnsTwin |-> "none", revealed |-> FALSE, reveals |-> FALSE,
      neverRevealDefaults |-> TRUE, managedBy |-> "plain", krbtgtAge |-> {10}, sysvolFound |-> Null,
      sysvolReadOnly |-> Null, sysvolEnabled |-> Null, otherDfsr |-> TRUE, syncHost |-> "none" ]

ReadOnlyController ==
    [ MemberServer EXCEPT !.uac = {"partial secrets", "t2a4d", "workstation"}, !.primaryGroup = 521, !.inDcOu = TRUE,
                          !.tier = 0, !.sysvolFound = TRUE, !.sysvolReadOnly = TRUE, !.sysvolEnabled = TRUE ]

PlainGroup ==
    [ rid |-> 1105, name |-> "plain", adminCount |-> 0, kind |-> "security", systemBit |-> FALSE, counted |-> 1,
      members |-> {"account"}, reach |-> 5, inside |-> "none", byRight |-> FALSE, operatorsMasked |-> FALSE,
      depth |-> 1, cycle |-> FALSE, sidHistory |-> {}, passwordText |-> FALSE, rodc |-> FALSE, publishers |-> {},
      member |-> "plain", memberAdminCount |-> 1 ]
NestedGroup == [PlainGroup EXCEPT !.inside = "protected", !.adminCount = 1, !.reach = 6]

ForestTrust ==
    [ attributes |-> {"forest", "selective", "aes"}, direction |-> 3, type |-> 2, enc |-> {"rc4", "aes"}, changed |-> 10 ]
ExternalTrust == [ForestTrust EXCEPT !.attributes = {}, !.direction = 2, !.enc = Null]

NoRight ==
    [ trustee |-> "plain", rights |-> {}, on |-> "root", inheritOnly |-> FALSE, inherited |-> FALSE, for |-> Null,
      owner |-> FALSE, principalFound |-> TRUE, connectorActive |-> TRUE, link |-> "other", exposed |-> {},
      holdsTier0 |-> FALSE, unprotectedDc |-> FALSE, dc2025 |-> TRUE, aliased |-> TRUE, daclProtected |-> TRUE,
      objectAdminCount |-> 1, objectTier0 |-> TRUE, objectEnabled |-> TRUE, keyRead |-> FALSE,
      supersedes |-> "nothing", internalZone |-> FALSE, wildcard |-> TRUE, wpad |-> TRUE ]
FullControl == [NoRight EXCEPT !.rights = {"all"}]
OuControl == [FullControl EXCEPT !.on = "ou", !.inheritOnly = TRUE]

HardenedDomain ==
    [ complexity |-> TRUE, reversible |-> FALSE, minLength |-> 14, history |-> 24, maxAge |-> 42,
      rawMaxAge |-> "other", minAge |-> 1, threshold |-> 5, lockout |-> 15, noClearChange |-> TRUE,
      adminLockout |-> TRUE, rid500Enabled |-> TRUE, ownPsos |-> {}, groupPsos |-> {}, serviceAccount |-> FALSE,
      accountPrivileged |-> FALSE, level |-> 7, quota |-> 0, sysvolRead |-> TRUE, joinRight |-> {{}},
      tombstone |-> 180, tombstoneRead |-> TRUE, laps |-> TRUE, anonymous |-> FALSE, privileged |-> 50,
      unsiloed |-> FALSE, silos |-> 1, dfsr |-> 48, redirected |-> FALSE, java |-> "none", javaHolders |-> {},
      zones |-> {0}, controllers |-> <<2, 2>>, uniqueness |-> 0, recycleBin |-> TRUE, backups |-> {<<"ok", 3>>},
      schema |-> 91, dcOs |-> {"2022"}, kdsKeys |-> 1, gmsa |-> TRUE, heuristicsSet |-> TRUE, c3 |-> "0", c8 |-> "0",
      c28 |-> "1", c29 |-> "1", operatorMask |-> 0, denyBind |-> {"1"}, oldDc |-> FALSE, protectedUsers |-> TRUE,
      scripts |-> {}, farm |-> Null, federation |-> {}, subnetSite |-> "known", sites |-> TRUE,
      lineage |-> <<"own", "mid", "container">>, parents |-> {}, conflictName |-> "none", hidden |-> {},
      holders |-> {<<1, "computer">>}, hostSpn |-> TRUE, alias |-> "mapped", shadowed |-> {}, menu |-> {} ]

LogonTemplate ==
    [ enabled |-> TRUE, suppliesSubject |-> FALSE, dnsName |-> TRUE, purposes |-> {"client authentication"},
      pendsApproval |-> FALSE, signatures |-> 0, noSecurityExtension |-> FALSE, linkedPolicy |-> FALSE, version |-> 2,
      keySize |-> 2048, exportable |-> FALSE, trustee |-> "plain", rights |-> {"enroll"}, inheritOnly |-> FALSE,
      owner |-> FALSE, on |-> "template", quota |-> 0, joinRight |-> "nobody", userOwned |-> 0, ndes |-> {},
      hostIsDc |-> FALSE, enrollmentUrl |-> "https", store |-> "known", key |-> "rsa 4096", hash |-> "sha256",
      selfSigned |-> FALSE, expires |-> 400 ]
OpenTemplate == [LogonTemplate EXCEPT !.trustee = "authenticated", !.purposes = {"any"}]

PlainOu ==
    [ aceTrustee |-> "system", aceRights |-> {}, aceInherited |-> FALSE, domainSidKnown |-> TRUE, owner |-> "own 512",
      blocks |-> FALSE, children |-> TRUE, aclRead |-> TRUE, everyoneDenied |-> {"delete", "delete tree"},
      holdsTier0 |-> TRUE ]

PlainGpo ==
    [ exists |-> TRUE, flags |-> 0, links |-> {"enabled"}, otherLinks |-> TRUE, defaultPolicy |-> FALSE,
      targetLinks |-> {}, aboveDc |-> TRUE, sysvolRead |-> TRUE, readStatus |-> "ok", cpassword |-> FALSE,
      scriptSecrets |-> FALSE, redacted |-> FALSE, wdigest |-> Null, broadAdmins |-> {}, gptVersion |-> 1,
      adVersion |-> 1, scripts |-> {}, files |-> {}, notepad |-> {"js", "jse", "vbs", "vbe", "vb", "wsh", "wsf"} ]
UnreadGpo == [PlainGpo EXCEPT !.readStatus = "access_denied", !.gptVersion = Null]

HardenedController ==
    [ kind |-> "dc", enabled |-> TRUE, sysvolRead |-> TRUE, level |-> 5, members |-> 200, ldapSigning |-> 2,
      channelBinding |-> 2, smbSigning |-> 1, lmLevel |-> 5, noLmHash |-> 1, ticketAge |-> 10, renewAge |-> 7,
      serviceAge |-> 600, skew |-> 5, validateClient |-> 1, rights |-> {}, logonRights |-> {}, relabel |-> {},
      denied |-> TRUE,
      advancedAudit |-> [dsAccess |-> 3, policyChange |-> 3, logon |-> 3],
      legacyAudit |-> [dsAccess |-> Null, policyChange |-> Null, logon |-> Null], spooler |-> 4, webClient |-> 4,
      runAsPpl |-> 1, anonymous |-> {}, refuseChange |-> 0, recoveryConsole |-> 0, ldapClient |-> 1,
      blankPasswords |-> 1, wsus |-> {}, hardenedPaths |-> {"sysvol", "netlogon"}, weakenedElsewhere |-> FALSE,
      multicast |-> 0, scriptBlock |-> 1, kdcArmor |-> 1, armorLevel |-> Null, clientArmor |-> 1,
      rdp |-> {"idle", "disconnect", "no drives", "no printers"}, asr |-> 1, asrRules |-> {"block"},
      hostsBlocked |-> {"wscript", "cscript", "mshta"}, kdcEnc |-> {}, policyEnc |-> {}, channelAllowed |-> {} ]

On(gpo, enforced) == [gpo |-> gpo, enforced |-> enforced, enabled |-> TRUE]
Linked ==
    [ domainLinks |-> <<On("p", TRUE), On("q", FALSE)>>, ouLinks |-> <<On("q", FALSE)>>,
      subOuLinks |-> <<On("p", FALSE)>>, blocking |-> {2}, computerOff |-> {},
      filter |-> [g \in {"p", "q"} |-> "apply"], setBy |-> {"p", "q"} ]
Enforced == [Linked EXCEPT !.ouLinks = <<On("q", TRUE), On("p", TRUE)>>, !.blocking = {1, 3}]

Delegated ==
    [ members |-> {<<"user", "group">>}, ace |-> {}, otherAce |-> {}, owners |-> {<<"everyone", "gpo">>}, links |-> {},
      delegations |-> {}, readers |-> {<<"group", "computer">>}, inOu |-> {"group", "computer"}, adminCount |-> {"admins"} ]

\* Everyone is seven hops away from the domain controller.
Remote ==
    [ Delegated EXCEPT !.members = {<<"group", "helpdesk">>},
                       !.owners = {<<"everyone", "gpo">>, <<"helpdesk", "site gpo">>},
                       !.links = {<<"gpo", "ou">>, <<"site gpo", "root">>}, !.readers = {}, !.inOu = {"group"} ]

CloudAdmin ==
    [ type |-> "user", userType |-> "Member", extName |-> FALSE,
      path |-> [role |-> "GA", eligible |-> TRUE, permanent |-> FALSE, scoped |-> FALSE, viaGroup |-> FALSE, enabled |-> TRUE],
      otherPath |-> {}, enabled |-> TRUE, synced |-> FALSE, linked |-> FALSE, sid |-> Null, sidKnown |-> FALSE,
      ad |-> "enabled", adPrivileged |-> TRUE, eligibilityOk |-> TRUE, expansionOk |-> TRUE, scheduleOk |-> TRUE,
      registrationOk |-> TRUE, signInOk |-> TRUE, otherGlobalAdmins |-> 1, emergencyNamed |-> FALSE,
      declared |-> {"other"}, caExcluded |-> TRUE, activity |-> 100, age |-> 100, invitation |-> Null, inState |-> Null, registered |-> TRUE, phishingResistant |-> TRUE,
      service |-> FALSE, secretEnds |-> Null, secretLives |-> Null, dangerous |-> FALSE ]

\* A tenant with MFA for everyone, and one that protects its administrators.
GuardedTenant ==
    [ Access!MfaForAll EXCEPT !.excludes = {} ] @@
    [ others |-> {Access!LegacyBlock}, securityDefaults |-> FALSE, licence |-> "P2", betaRead |-> TRUE,
      agentsExist |-> TRUE, groupsOk |-> TRUE, rolesOk |-> TRUE, registrationOk |-> TRUE, membersWithoutMfa |-> FALSE,
      userType |-> "Member", accountEnabled |-> TRUE, role |-> "none", roleActive |-> TRUE, roleByGroup |-> FALSE,
      synced |-> FALSE, declared |-> {"other"}, locationIp |-> TRUE, trusted |-> TRUE, wideRange |-> FALSE ]
AdminTenant == [Access!AdminPolicy EXCEPT !.excludes = {}] @@ [GuardedTenant EXCEPT !.others = {Access!MfaForAll}]

QuietDirectory ==    [ account |-> "present", class |-> "user", uac |-> {"never expires"}, enabled |-> TRUE, adminCount |-> 0,
      logonAge |-> 10, memberOf |-> {}, tier0 |-> FALSE, protectedUsers |-> "no", signals |-> {}, managed |-> FALSE,
      creator |-> FALSE, creatorRead |-> TRUE, entraKerberos |-> FALSE, spns |-> {"http"}, rbcd |-> {},
      unresolvedKept |-> TRUE, sidHistory |-> {}, keys |-> {}, keysRead |-> "parsed", mappings |-> {},
      mappingsRead |-> TRUE, renamed |-> {}, renameAge |-> 0, renameVersion |-> 2, renameDelay |-> 60,
      upnTaken |-> FALSE, trust |-> "present", direction |-> {"out"}, trustType |-> "AD",
      trustFlags |-> {"quarantined"}, container |-> "root", aclKnown |-> TRUE,
      ace |-> {[trustee |-> "plain", inheritOnly |-> FALSE, grant |-> <<"changes", {"extended"}>>]}, otherAce |-> {},
      quota |-> 0, minLength |-> 14, complexity |-> TRUE, threshold |-> 5, reversible |-> FALSE, anonymous |-> FALSE,
      exclusions |-> {}, recycleBin |-> TRUE, maxAge |-> 42, published |-> FALSE, supplies |-> TRUE,
      clientAuth |-> TRUE, approval |-> FALSE, signatures |-> 0, signaturesRead |-> TRUE, enrollers |-> "anyone",
      templateAclKnown |-> TRUE, templateAce |-> {}, links |-> {"root"}, sitesRead |-> TRUE, gpoVersion |-> 1,
      sysvolOk |-> TRUE, gpoRead |-> TRUE, gpoAddedLater |-> FALSE, onDc |-> TRUE, settings |-> {}, items |-> {},
      kindsRead |-> TRUE, deletesKeyed |-> TRUE, allowUpdate |-> 2 ]
DeletedAccount ==
    [QuietDirectory EXCEPT !.account = "deleted", !.uac = Null, !.enabled = Null, !.spns = {}, !.class = "computer"]
NoAccount == [DeletedAccount EXCEPT !.account = "never seen", !.trust = "never seen"]

QuietTenant ==
    [ role |-> "critical", assignments |-> {"eligible"}, domain |-> "present", authentication |-> "managed",
      endpoints |-> 1, signingCertificate |-> 1, credential |-> "never seen", credentialOf |-> "application",
      certificate |-> FALSE, saml |-> FALSE, firstParty |-> FALSE, powerful |-> TRUE, permission |-> "removed",
      federatedCredential |-> "never seen", ca |-> "present", caState |-> "enabled", caExcluded |-> {},
      caRequired |-> {"all users", "mfa"}, securityDefaults |-> TRUE, tenantPolicy |-> "present", allowed |-> {},
      otherKey |-> 1, owner |-> "never seen", ownerOf |-> "group", ownedAppIsNew |-> FALSE,
      groupReasons |-> {"role_assignable"}, groupsTracked |-> TRUE, member |-> "never seen", partner |-> "present",
      syncInbound |-> FALSE, contract |-> FALSE, pim |-> {}, pimTier0 |-> TRUE ]

MCBases ==
    { <<"account", PlainAccount>>, <<"account", SyncingAccount>>, <<"computer", MemberServer>>,
      <<"computer", ReadOnlyController>>, <<"group", PlainGroup>>, <<"group", NestedGroup>>, <<"trust", ForestTrust>>,
      <<"trust", ExternalTrust>>, <<"acl", NoRight>>, <<"acl", FullControl>>, <<"acl", OuControl>>,
      <<"domain", HardenedDomain>>, <<"certificate", LogonTemplate>>, <<"certificate", OpenTemplate>>,
      <<"ou", PlainOu>>, <<"gpo", PlainGpo>>, <<"gpo", UnreadGpo>>, <<"settings", HardenedController>>,
      <<"application", Linked>>, <<"application", Enforced>>, <<"paths", Delegated>>, <<"paths", Remote>>, <<"principal", CloudAdmin>>,
      <<"access", GuardedTenant>>, <<"access", AdminTenant>>,
      <<"directory", QuietDirectory>>, <<"directory", DeletedAccount>>, <<"directory", NoAccount>>,
      <<"tenant", QuietTenant>> }

MCFamilies == {b[1] : b \in MCBases}

DirectoryAreas ==
    LET container == {"container", "aclKnown", "ace", "otherAce"}
        policy == {"quota", "minLength", "complexity", "threshold", "reversible", "anonymous", "exclusions",
                   "recycleBin", "maxAge"}
        template == {"published", "supplies", "clientAuth", "approval", "signatures", "signaturesRead", "enrollers",
                     "templateAclKnown", "templateAce"}
        gpo == {"links", "sitesRead", "gpoVersion", "sysvolOk", "gpoRead", "gpoAddedLater", "onDc", "settings",
                "items", "kindsRead", "deletesKeyed"}
        trust == {"trust", "direction", "trustType", "trustFlags"}
    IN  {container, policy, template, gpo, trust, {"allowUpdate"},
         DOMAIN QuietDirectory \ (container \cup policy \cup template \cup gpo \cup trust \cup {"allowUpdate"})}

\* Facts of a domain that plugins look at together.
DomainAreas ==
    LET password == {"complexity", "reversible", "minLength", "maxAge", "rawMaxAge", "ownPsos", "groupPsos",
                     "serviceAccount", "accountPrivileged"}
        lockout == {"threshold", "lockout", "adminLockout", "rid500Enabled"}
        joining == {"quota", "joinRight", "sysvolRead", "level", "laps"}
        names == {"conflictName", "hidden", "holders", "hostSpn", "alias", "shadowed", "uniqueness"}
        heuristics == {"heuristicsSet", "anonymous", "c3", "c8", "c28", "c29", "operatorMask", "denyBind", "oldDc"}
        controllers == {"controllers", "dcOs", "schema", "backups", "kdsKeys", "gmsa", "dfsr", "farm", "federation"}
    IN  {password, lockout, joining, names, heuristics, controllers,
         DOMAIN HardenedDomain \ UNION {password, lockout, joining, names, heuristics, controllers}}

MCAreas ==
    [ f \in MCFamilies |->
        IF f = "directory" THEN DirectoryAreas ELSE IF f = "domain" THEN DomainAreas ELSE {DOMAIN b[2] : b \in {c \in MCBases : c[1] = f}} ]

MCMaxAltered == [f \in MCFamilies |-> 2]
=============================================================================
