---------------------------- MODULE DomainPlugins ----------------------------
(***************************************************************************)
(* The plugins that judge the domain: its settings (src/plugins/40NN_*.py, *)
(* 3029, 5022 and the domain's rows of 1040 and 1052) and the naming and   *)
(* infrastructure objects only one plugin looks at (subnets, zones,        *)
(* schema classes, display specifiers, name conflicts).  A record d holds  *)
(* the facts about one domain; of an object that is judged alone, about    *)
(* one such object.                                                        *)
(***************************************************************************)
EXTENDS Ratings, Sequences

\* Password settings objects that apply to an account.
Psos == [precedence : {1, 2}, length : {Null, 8, 15, 20}]

DomainValues ==
    [ complexity |-> {Null, TRUE, FALSE}, reversible |-> {Null, TRUE, FALSE},
      minLength |-> {Null, 7, 13, 14, 20}, history |-> {Null, 23, 24},
      maxAge |-> {Null, 42, 61}, rawMaxAge |-> {Null, "never", "other"},   \* days; the attribute of its version
      minAge |-> {Null, 0, 1}, threshold |-> {Null, 0, 5},
      lockout |-> {Null, 0, 14, 15},                      \* minutes
      noClearChange |-> {Null, TRUE, FALSE}, adminLockout |-> {Null, TRUE, FALSE},
      rid500Enabled |-> {Null, TRUE, FALSE},
      ownPsos |-> {{}} \cup {{p} : p \in Psos},           \* of one enabled account
      groupPsos |-> {s \in SUBSET Psos : Cardinality(s) <= 2},
      serviceAccount |-> BOOLEAN, accountPrivileged |-> BOOLEAN,
      level |-> {Null, 2, 4, 6, 7}, quota |-> {Null, 0, 10},
      sysvolRead |-> BOOLEAN,
      joinRight |-> {{Null}, {{}}, {{"broad"}}, {{"other"}}, {{"other"}, Null}},   \* by controller
      tombstone |-> {Null, 60, 180}, tombstoneRead |-> BOOLEAN,
      laps |-> {Null, TRUE, FALSE}, anonymous |-> {Null, TRUE, FALSE},
      privileged |-> {1, 50, 51}, unsiloed |-> BOOLEAN, silos |-> {Null, 0, 1},
      dfsr |-> {Null, 0, 32, 48}, redirected |-> BOOLEAN,
      java |-> {"none", "defunct", "live"}, javaHolders |-> SUBSET {"enabled codebase", "other"},
      zones |-> {{}, {Null}, {0}, {1}, {Null, 0}, {Null, 1}},     \* dynamic updates of its zones
      controllers |-> {<<1, 1>>, <<1, 0>>, <<2, 2>>, <<2, 1>>, <<2, 0>>},  \* writable; active of them
      uniqueness |-> {Null, 0, 1, 2, 4}, recycleBin |-> {Null, TRUE, FALSE},
      backups |-> {{}, {<<"ok", 3>>}, {<<"ok", 3>>, <<"ok", 10>>}, {<<"ok", 10>>, <<"ok", 31>>},
                   {<<"never_backed_up", Null>>}, {<<"unreadable", Null>>}},
      schema |-> {Null, 69, 87, 88, 91}, dcOs |-> SUBSET {"2012", "2012 R2", "2016", "2022", "2025", "other"},
      kdsKeys |-> {Null, 0, 1}, gmsa |-> BOOLEAN,
      heuristicsSet |-> BOOLEAN, c3 |-> {Null, "0", "1"}, c8 |-> {Null, "0", "1"},
      c28 |-> {Null, "0", "1", "2"}, c29 |-> {Null, "0", "1", "2"}, operatorMask |-> {Null, 0, 1},
      denyBind |-> {Null, {}, {"0"}, {"1"}}, oldDc |-> BOOLEAN,   \* Null when its settings were not read
      protectedUsers |-> BOOLEAN,                                 \* its group of that name exists
      scripts |-> SUBSET {"inside", "ip", "unresolved", "outside"},
      farm |-> {Null, 0, 1},           \* keys of an AD FS farm, Null without a farm
      federation |-> {Null} \cup SUBSET {"adfs", "other"},        \* Null when it was not read
      subnetSite |-> {Null, "known", "unknown"}, sites |-> BOOLEAN,
      lineage |-> {<<"own", "top">>, <<"own", "container", "top">>, <<"own", "mid", "container">>,
                   <<"own", "top", "container">>},                \* a schema class and its ancestors
      parents |-> {{}, {<<"own", "user">>}, {<<"mid", "computer">>}, {<<"container", "ou">>}},
      conflictName |-> {"none", "CNF", "$duplicate-"},
      hidden |-> {{}, {<<"name", "space", FALSE>>}, {<<"name", "zero width", FALSE>>},
                  {<<"upn", "mark", TRUE>>}, {<<"upn", "mark", FALSE>>}, {<<"dn", "mark", FALSE>>},
                  {<<"spn", "zero width", TRUE>>, <<"dn", "space", FALSE>>}},
      holders |-> SUBSET {<<1, "computer">>, <<2, "computer">>, <<3, "dc">>, <<4, "user">>},  \* of one SPN
      hostSpn |-> BOOLEAN, alias |-> {"mapped", "web", "other"},  \* class of an account's SPN
      shadowed |-> SUBSET {"dc", "computer", "disabled computer", "user"},  \* whose HOST SPN it repeats
      menu |-> SUBSET {"unc", "url", "local", "sysvol"} ]         \* programs of a display specifier

\* A weakness of the default password policy; who is covered by a password
\* settings object is only told in the detail.
\* Plugin 4001.
DomainComplexityDisabled(d) == Row(d.complexity = FALSE, High)

\* The settings object in force for the account, its own before its groups';
\* one without a length is passed over, and the domain's policy is the last.
MinLengths(psos) ==
    LET best == {p \in psos : p.length # Null /\ \A q \in psos : q.length # Null => p.precedence <= q.precedence}
    IN  {p.length : p \in best}
EffectiveMinLength(d) ==
    IF MinLengths(d.ownPsos) # {} THEN CHOOSE n \in MinLengths(d.ownPsos) : TRUE
    ELSE IF MinLengths(d.groupPsos) # {} THEN CHOOSE n \in MinLengths(d.groupPsos) : TRUE
    ELSE d.minLength

\* Plugin 4002.
DomainMinLength(d) ==
    LET length == EffectiveMinLength(d)
    IN  Row(Below(length, 14), IF Below(length, 8) THEN High ELSE Medium)

\* Plugin 4003.
DomainLockoutDisabled(d) == Row(d.threshold = 0, High)

\* Plugin 4004.
DomainMaxPwdAge(d) ==
    Row(Above(d.maxAge, 60) \/ (d.maxAge = Null /\ d.rawMaxAge \in {"never", Null}),
        IF d.maxAge = Null THEN High ELSE Medium)

\* Plugin 4005.
DomainMinPwdAgeZero(d) == Row(d.minAge = 0, Medium)

\* Plugin 4006.
DomainPwdHistory(d) == Row(Below(d.history, 24), Low)

\* Plugin 4007.
DomainLockoutDuration(d) == Row(Above(d.threshold, 0) /\ Above(d.lockout, 0) /\ Below(d.lockout, 15), Low)

\* Plugin 4008.
DomainFunctionalLevel(d) ==
    Row(d.level # Null /\ d.level <= 6,
        IF d.level <= 2 THEN Critical ELSE IF d.level <= 4 THEN High ELSE Medium)

\* Who may join computers, as the controllers' user rights say.
JoinRight(d) ==
    CASE ~d.sysvolRead -> "not collected"
      [] d.sysvolRead /\ Null \in d.joinRight -> "not configured"
      [] OTHER -> LET holders == UNION d.joinRight
                  IN  IF "broad" \in holders THEN "broad" ELSE IF holders # {} THEN "restricted" ELSE "nobody"

\* Plugin 4009.
MachineAccountQuota(d) ==
    Row(Or(d.quota, 10) > 0 /\ JoinRight(d) # "nobody", IF JoinRight(d) = "restricted" THEN Low ELSE Medium)

\* Plugin 4010.
DomainReversibleEncryption(d) == Row(d.reversible = TRUE, Critical)

\* Plugin 4011.
TombstoneLifetime(d) == Row(~d.tombstoneRead \/ Below(d.tombstone, 90), IF ~d.tombstoneRead THEN Info ELSE Low)

\* Plugin 4012.
LapsSchemaAbsent(d) == Row(d.laps # TRUE, Medium)

\* Plugin 4013.
DomainPermitsCleartextChange(d) == Row(d.noClearChange # TRUE, Info)

\* Plugin 4014.
DomainAdminLockout(d) ==
    Row(d.adminLockout # TRUE /\ Above(d.threshold, 0) /\ d.rid500Enabled # FALSE, Low)

\* Plugin 4015.
DsHeuristicsAnonymous(d) == Row(d.anonymous = TRUE, High)

\* Plugin 4016.
ReplicationConflictObject(d) == Row(d.conflictName = "$duplicate-", Low)

\* Plugin 4017.
ForestExcessivePrivilegedAccounts(d) == Row(d.privileged > 50, Medium)

\* Plugin 4018.
FrsSysvolDeprecated(d) == Row(Or(d.dfsr, 0) # 48, Medium)

\* Plugin 4019.
DefaultContainerRedirected(d) == Row(d.redirected, Info)

\* Plugin 4020.
SubnetNotAssociatedWithSite(d) == Row(d.subnetSite = Null \/ (d.sites /\ d.subnetSite = "unknown"), Low)

\* Plugin 4021.
JavaSchemaExtension(d) ==
    Row(d.java = "live", IF "enabled codebase" \in d.javaHolders THEN High
                         ELSE IF d.javaHolders # {} THEN Medium ELSE Low)

\* The chain of a class ends at the first of top and container.
Ancestors(lineage) ==
    {lineage[i] : i \in {j \in 2 .. Len(lineage) : \A k \in 2 .. (j - 1) : lineage[k] \notin {"top", "container"}}}

\* Plugin 4022.
SchemaPossSuperiorAbuse(d) ==
    Row(/\ "container" \in Ancestors(d.lineage)
        /\ \E p \in d.parents : p[1] \in {"own"} \cup Ancestors(d.lineage) /\ p[2] \in {"user", "computer"}, High)

\* Plugin 4024.
ReplicationConflictCnfObject(d) == Row(d.conflictName = "CNF", Low)

\* Plugin 4025.
DnsZoneNonsecureDynamicUpdates(d) == Row(1 \in d.zones, High) \cup Row(d.zones = {Null}, Low)

\* Plugin 4026.
SingleDomainController(d) == Row(d.controllers[1] = 1 \/ d.controllers[2] = 1, Medium)

\* A mark of a right-to-left script is at home in its text and in any DN.
CharacterClass(h) ==
    IF h[2] = "space" THEN "odd space"
    ELSE IF h[2] = "mark" /\ (h[1] = "dn" \/ h[3]) THEN "script mark" ELSE "invisible"

\* Plugin 4027.
HiddenUnicodeInPrincipalName(d) ==
    LET invisible == {h \in d.hidden : CharacterClass(h) = "invisible"}
    IN  Row(d.hidden # {}, IF \E h \in invisible : h[1] \in {"upn", "spn"} THEN Critical
                           ELSE IF invisible # {} THEN High ELSE Medium)

\* Plugin 4028.
DuplicateSpn(d) ==
    LET classes == {IF h[2] = "dc" THEN "computer" ELSE h[2] : h \in d.holders}
        dc == \E h \in d.holders : h[2] = "dc"
    IN  Row(Cardinality(d.holders) > 1,
            IF dc \/ (d.hostSpn /\ Cardinality(classes) > 1) THEN Critical ELSE High)

\* Plugin 4029.
SpnAliasShadowing(d) ==
    LET hosts == CASE d.alias = "mapped" -> d.shadowed
                   [] d.alias = "web" -> d.shadowed \cap {"dc"}
                   [] OTHER -> {}
    IN  Row(hosts # {}, IF "dc" \in hosts THEN Critical
                        ELSE IF hosts = {"disabled computer"} THEN Medium ELSE High)

\* Plugin 4030.
UpnSpnUniquenessDisabled(d) ==
    Row(Above(d.uniqueness, 0), IF d.uniqueness % 4 # 0 THEN Critical ELSE High)

\* Plugin 4031.
RecycleBinDisabled(d) == Row(d.recycleBin = FALSE, Low)

\* Plugin 4032.
NoRecentAdBackup(d) ==
    LET overdue(days) == \E b \in d.backups : b[1] = "ok" /\ Older(b[2], days)
        high == overdue(30) \/ \E b \in d.backups : b[1] = "never_backed_up"
    IN  Row(high \/ overdue(7), IF high THEN High ELSE Medium)

RequiredSchema == [os \in {"2012", "2012 R2", "2016", "2022", "2025"} |->
    CASE os = "2012" -> 56 [] os = "2012 R2" -> 69 [] os = "2016" -> 87 [] os = "2022" -> 88 [] os = "2025" -> 91]

\* Plugin 4033.
SchemaBehindDcOs(d) ==
    Row(\E os \in d.dcOs \cap DOMAIN RequiredSchema : Below(d.schema, RequiredSchema[os]), Low)

\* Plugin 4034, the domain's row.
NoKdsRootKey(d) == Row(d.kdsKeys = 0 /\ ~d.gmsa, Info)

\* Plugin 4036.
Tier0NoAuthnSilo(d) == Row(d.silos # Null /\ (d.silos = 0 \/ d.unsiloed), Low)

\* Plugin 4037.
ServiceAccountWeakPasswordPolicy(d) ==
    Row(d.serviceAccount /\ Below(EffectiveMinLength(d), 20), IF d.accountPrivileged THEN Medium ELSE Low)

\* Plugin 4038.
DsHeuristicsRiskySettings(d) ==
    LET disabled == "2" \in {d.c28, d.c29}
        enforced == d.c28 = "1" /\ d.c29 = "1"
        rows == Row(d.c8 \notin {Null, "0"}, Medium) \cup Row(disabled, Low)
                \cup Row(~disabled /\ ~enforced, Info) \cup Row(d.c3 = "1", Info)
    IN  Row(d.heuristicsSet /\ rows # {}, Worst(rows))

\* Plugin 4039.
UnauthenticatedBindAllowed(d) == Row(d.denyBind # Null /\ (d.denyBind # {"1"} \/ d.oldDc), Info)

\* Plugin 3029.
DsHeuristicsAdminSdExMask(d) == Row(Above(d.operatorMask, 0), Medium)

\* Plugin 1040, the domain's row.
ProtectedUsersGroupMissing(d) == Row(~d.protectedUsers, Low)

\* Plugin 1052.
LogonScriptOutsideDomain(d) ==
    Row(d.scripts \cap {"ip", "unresolved", "outside"} # {}, IF "outside" \in d.scripts THEN Medium ELSE Low)

\* Plugin 5020.
DisplaySpecifierContextMenu(d) ==
    Row(d.menu # {}, IF d.menu \cap {"unc", "url"} # {} THEN High ELSE IF "local" \in d.menu THEN Low ELSE Info)

\* Plugin 5022.
AdfsDeployedPatchAdvisory(d) ==
    LET adfs == d.federation # Null /\ "adfs" \in d.federation
        other == d.federation = Null \/ "other" \in d.federation
    IN  IF d.farm = Null THEN Row(adfs, Medium)
        ELSE {IF d.farm = 0 THEN Low ELSE IF adfs THEN High ELSE IF other THEN Medium ELSE Low}

-----------------------------------------------------------------------------
\* What the plugins report.
DomainFindings(d) ==
    UNION { Report(4001, DomainComplexityDisabled(d)), Report(4002, DomainMinLength(d)),
            Report(4003, DomainLockoutDisabled(d)), Report(4004, DomainMaxPwdAge(d)),
            Report(4005, DomainMinPwdAgeZero(d)), Report(4006, DomainPwdHistory(d)),
            Report(4007, DomainLockoutDuration(d)), Report(4008, DomainFunctionalLevel(d)),
            Report(4009, MachineAccountQuota(d)), Report(4010, DomainReversibleEncryption(d)),
            Report(4011, TombstoneLifetime(d)), Report(4012, LapsSchemaAbsent(d)),
            Report(4013, DomainPermitsCleartextChange(d)), Report(4014, DomainAdminLockout(d)),
            Report(4015, DsHeuristicsAnonymous(d)), Report(4016, ReplicationConflictObject(d)),
            Report(4017, ForestExcessivePrivilegedAccounts(d)), Report(4018, FrsSysvolDeprecated(d)),
            Report(4019, DefaultContainerRedirected(d)), Report(4020, SubnetNotAssociatedWithSite(d)),
            Report(4021, JavaSchemaExtension(d)), Report(4022, SchemaPossSuperiorAbuse(d)),
            Report(4024, ReplicationConflictCnfObject(d)), Report(4025, DnsZoneNonsecureDynamicUpdates(d)),
            Report(4026, SingleDomainController(d)), Report(4027, HiddenUnicodeInPrincipalName(d)),
            Report(4028, DuplicateSpn(d)), Report(4029, SpnAliasShadowing(d)),
            Report(4030, UpnSpnUniquenessDisabled(d)), Report(4031, RecycleBinDisabled(d)),
            Report(4032, NoRecentAdBackup(d)), Report(4033, SchemaBehindDcOs(d)),
            Report(4034, NoKdsRootKey(d)), Report(4036, Tier0NoAuthnSilo(d)),
            Report(4037, ServiceAccountWeakPasswordPolicy(d)), Report(4038, DsHeuristicsRiskySettings(d)),
            Report(4039, UnauthenticatedBindAllowed(d)), Report(3029, DsHeuristicsAdminSdExMask(d)),
            Report(1040, ProtectedUsersGroupMissing(d)), Report(1052, LogonScriptOutsideDomain(d)),
            Report(5020, DisplaySpecifierContextMenu(d)), Report(5022, AdfsDeployedPatchAdvisory(d)) }
=============================================================================
