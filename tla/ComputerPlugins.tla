--------------------------- MODULE ComputerPlugins ---------------------------
(***************************************************************************)
(* The plugins that judge a computer account (src/plugins/20NN_*.py, 10008 *)
(* and 10010).  Where a plugin files its row under another object - the    *)
(* owner of 2044, the reader of 2038 - the rules below give the row one    *)
(* such computer causes.                                                   *)
(***************************************************************************)
EXTENDS Ratings

\* userAccountControl as a domain controller, a read-only one, a member and
\* a client keep it, and what one wrong bit makes of it.
DcUac == {"server trust", "delegation"}
RodcUac == {"partial secrets", "t2a4d", "workstation"}
MemberUac == {"workstation"}
UacFlags == {"disabled", "notRequired", "reversible", "delegation", "server trust", "partial secrets",
             "workstation", "preauthOff", "desOnly", "t2a4d"}
UacValues ==
    {(uac \ {f}) \cup ({f} \ uac) : uac \in {DcUac, RodcUac, MemberUac}, f \in UacFlags}
        \cup {DcUac, RodcUac, MemberUac, MemberUac \cup {"delegation", "disabled"}}

ComputerValues ==
    [ uac |-> UacValues, special |-> {"none", "entra kerberos", "seamless sso"},
      os |-> {Null, "Linux", "Windows 7", "Windows 10 LTSB", "Windows 10 LTSC", "Server 2016", "Server 2022"},
      logonAge |-> {Null, 10, 60, 200}, pwdAge |-> {Null, 10, 60, 200, 1200}, age |-> {10, 200, 1200},
      lapsLegacy |-> {Null, -10, 70}, lapsModern |-> {Null, -10, 70},   \* days since it expired
      lapsReadable |-> BOOLEAN,        \* by a trustee outside Tier 0, on its domain or an OU above
      serviceAccount |-> BOOLEAN,      \* a group managed service account
      readers |-> {{}, {"host"}, {"broad"}},     \* of its managed password
      enc |-> {{}, {"des", "rc4"}, {"rc4"}, {"rc4", "aes"}},
      kdcRc4 |-> BOOLEAN, sysvolRead |-> BOOLEAN, cluster |-> BOOLEAN, passwordText |-> BOOLEAN,
      groups |-> {{}, {"protected"}, {"top"}},   \* protected groups it is in, "top" the administrators'
      onRoot |-> {{}, {"changes"}, {"changes", "changesAll"}, {"extended"}, {"write"}, {"rewrite"}, {"all"}},
      caObjects |-> BOOLEAN,           \* controls PKI objects only, as a CA's host does
      caHost |-> BOOLEAN, tier |-> {Null, 0, 1}, ownsRoot |-> BOOLEAN,
      keys |-> {{}, {"device"}, {"device", "second"}, {"cloud"}}, keyCount |-> {Null, 0, 1}, keysParsed |-> BOOLEAN,
      sidHistory |-> {{}, {"same domain"}, {"privileged"}, {"foreign"}},
      primaryGroup |-> {Null, 498, 512, 513, 515, 516, 521},
      targets |-> {{}, {"server"}, {"dc"}, {"tier 0"}, {"krbtgt spn"}, {"ghost spn"}},
      rbcd |-> {{}, {"account"}, {"broad"}},     \* who may act for others to it
      rbcdTo |-> {{}, {"member"}, {"dc"}},       \* whom it may act for others to
      owner |-> {Null, "Domain Admins", "Enterprise Admins", "Administrators", "privileged",
                 "other", "foreign", "unresolved", "self"},
      createdByOwner |-> BOOLEAN, inDcOu |-> BOOLEAN,
      name |-> {"with dollar", "without", "that of a dc"},
      dnsTwin |-> {"none", "member", "dc"},      \* another computer of its dNSHostName
      revealed |-> BOOLEAN, reveals |-> BOOLEAN, \* Tier 0 credentials: cached, allowed to be
      neverRevealDefaults |-> BOOLEAN,
      managedBy |-> {"nobody", "plain", "tier 0"}, krbtgtAge |-> {{}, {Null}, {10}, {200}},
      sysvolFound |-> {Null, TRUE, FALSE}, sysvolReadOnly |-> {Null, TRUE, FALSE},
      sysvolEnabled |-> {Null, TRUE, FALSE}, otherDfsr |-> BOOLEAN,
      syncHost |-> {"none", "stale", "live", "live with replication"} ]

Enabled(c) == "disabled" \notin c.uac
Rodc(c) == "partial secrets" \in c.uac
Dc(c) == "server trust" \in c.uac \/ Rodc(c)
EntraKerberos(c) == c.special = "entra kerberos"
Unconstrained(c) == "delegation" \in c.uac
Dormant(c) == c.logonAge = Null \/ Older(c.logonAge, 90)
OldOs(c) == c.os \in {"Windows 7", "Windows 10 LTSB"}
Server(c) == Dc(c) \/ c.os \in {"Server 2016", "Server 2022"}
LapsManaged(c) == c.lapsLegacy # Null \/ c.lapsModern # Null
AclPower(c) == Replicates(c.onRoot) \/ Controls(c.onRoot)
Tier0(c) == Dc(c) \/ c.caHost

\* The severity of a weakness of the account's Kerberos or passwords.
DcScore(c) == Higher((IF Dc(c) THEN 4 ELSE 3) - (IF Enabled(c) THEN 0 ELSE 2), Low)
DcElse(c, dc, other) == IF Dc(c) THEN dc ELSE other

-----------------------------------------------------------------------------
\* Plugin 2001.
UnconstrainedDelegationComputer(c) == Row(Unconstrained(c) /\ ~Dc(c), Critical)

\* Plugin 2002.
ProtocolTransitionDelegationComputer(c) ==
    Row("t2a4d" \in c.uac /\ ~Rodc(c),
        IF Dc(c) \/ c.targets \cap {"dc", "tier 0", "krbtgt spn"} # {} THEN Critical ELSE High)

\* Plugin 2003.
UnsupportedOs(c) ==
    Row(c.os = "Windows 7", DcElse(c, Critical, High))
        \cup Row(c.os \in {"Windows 10 LTSB", "Server 2016"}, DcElse(c, High, Medium))

\* Plugin 2004.
LapsNotManaged(c) ==
    Row(/\ ~Dc(c) /\ c.os \notin {Null, "Linux"} /\ ~c.serviceAccount
        /\ \A laps \in {c.lapsLegacy, c.lapsModern} : laps = Null \/ Older(laps, 60),
        IF LapsManaged(c) THEN Low ELSE Medium)

\* Plugin 2005.
WeakKerberosEncryptionComputer(c) == Row("des" \in c.enc, DcScore(c))

\* Plugin 2006.
DormantComputer(c) ==
    Row(c.special = "none" /\ Older(Or(c.logonAge, Or(c.pwdAge, c.age)), 90),
        IF Enabled(c) THEN DcElse(c, High, Low) ELSE DcElse(c, Low, Info))

\* Plugin 2007.
StaleComputerPassword(c) ==
    Row(c.special = "none" /\ Older(c.pwdAge, 90),
        IF Dc(c) \/ (c.cluster /\ c.pwdAge > 3 * 365 /\ Newer(c.logonAge, 45)) THEN Medium ELSE Low)

\* Plugin 2008.
ComputerPrivilegedGroup(c) ==
    Row(/\ ~Dc(c)
        /\ c.groups # {} \/ AclPower(c) \/ c.ownsRoot \/ (c.caObjects /\ ~c.caHost),
        IF "top" \in c.groups \/ Replicates(c.onRoot) THEN Critical ELSE High)

\* Plugin 2009.
ComputerPasswordNotRequired(c) ==
    Row("notRequired" \in c.uac,
        Higher(2 + (IF c.pwdAge = Null \/ AtLeast(c.pwdAge, c.age) THEN 1 ELSE 0) + DcElse(c, 1, 0)
               - (IF Enabled(c) THEN 0 ELSE 2), Low))

\* Plugin 2010.
ComputerAsrepRoastable(c) == Row("preauthOff" \in c.uac, DcScore(c))

\* Plugin 2011.
ComputerReversibleEncryption(c) == Row("reversible" \in c.uac, DcElse(c, High, Medium))

\* Plugin 2012.
ComputerPasswordInDescription(c) == Row(c.passwordText, DcElse(c, Critical, High))

HasKeys(c) == Above(c.keyCount, 0) \/ (c.keysParsed /\ c.keys # {})
KeyAssessment(c) ==
    IF ~c.keysParsed THEN "not parsed"
    ELSE IF Cardinality(c.keys) > 1 \/ "cloud" \in c.keys THEN "suspicious" ELSE "device"

\* Plugin 2013.
ComputerShadowCredentials(c) ==
    LET base == CASE KeyAssessment(c) = "suspicious" -> 3
                  [] KeyAssessment(c) = "not parsed" -> 2
                  [] OTHER -> 0
    IN  Row(HasKeys(c), Clamped(base + (IF Tier0(c) \/ c.tier = 0 THEN 1 ELSE 0) - (IF Enabled(c) THEN 0 ELSE 2)))

\* Plugin 2014.
ComputerSidHistory(c) ==
    Row(c.sidHistory # {},
        IF Dc(c) \/ c.sidHistory \cap {"same domain", "privileged"} # {} THEN Critical ELSE Medium)

PrivilegedPrimaryGroup(c) ==
    \/ c.primaryGroup \in {512, 518, 519, 520}
    \/ c.primaryGroup = 516 /\ (~Dc(c) \/ Rodc(c))
    \/ c.primaryGroup \in {498, 521} /\ ~Dc(c)

\* Plugin 2015.
ComputerPrimaryGroupId(c) ==
    Row(PrivilegedPrimaryGroup(c), IF Dc(c) \/ c.primaryGroup = 516 THEN Critical ELSE High)

\* Plugin 2016.
ComputerDesOnly(c) == Row("desOnly" \in c.uac, DcScore(c))

\* Plugin 2017.
ComputerPrimaryGroupNondefault(c) ==
    Row(/\ c.primaryGroup # Null /\ ~PrivilegedPrimaryGroup(c)
        /\ c.primaryGroup # (IF Rodc(c) THEN 521 ELSE IF Dc(c) THEN 516 ELSE 515), Low)

\* Plugin 2018.
ComputerNoAes(c) ==
    Row(Enabled(c) /\ "aes" \notin c.enc /\ (c.enc # {} \/ (c.sysvolRead /\ c.kdcRc4)), DcElse(c, Medium, Low))

\* Plugin 2019.
DcInactive(c) == Row(Dc(c) /\ ~EntraKerberos(c) /\ Enabled(c) /\ Older(c.logonAge, 45), High)

\* Plugin 2020.
DcPwdRotation(c) == Row(Dc(c) /\ ~EntraKerberos(c) /\ Enabled(c) /\ Older(c.pwdAge, 45), High)

\* Plugin 2021.
DcRegistrationConsistency(c) ==
    LET rodc == Rodc(c) \/ ("server trust" \notin c.uac /\ c.primaryGroup = 521)
    IN  Row(/\ ~EntraKerberos(c) /\ (Dc(c) \/ c.primaryGroup \in {516, 521})
            /\ <<c.uac, c.primaryGroup>> # (IF rodc THEN <<RodcUac, 521>> ELSE <<DcUac, 516>>), High)

\* Plugin 2022.
ComputerRbcd(c) == Row(c.rbcd # {}, IF Dc(c) \/ "broad" \in c.rbcd THEN Critical ELSE Medium)

\* Plugin 2023.
UnconstrainedDelegAclChain(c) == Row(AclPower(c) /\ Unconstrained(c) /\ ~Dc(c), Critical)

\* Plugin 2024.
UnconstrainedDelegWeakChain(c) ==
    Row(Unconstrained(c) /\ ~Dc(c) /\ (OldOs(c) \/ Dormant(c)), IF Enabled(c) THEN Critical ELSE Medium)

\* Plugin 2025.
AclPowerUnsupportedOsChain(c) == Row(AclPower(c) /\ OldOs(c), Critical)

\* Plugin 2026.
AclPowerDormantChain(c) == Row(AclPower(c) /\ Dormant(c), Critical)

\* Plugin 2027.
RbcdTrusteeWeakComputer(c) ==
    Row(c.rbcdTo # {} /\ (OldOs(c) \/ Dormant(c)),
        CASE ~Enabled(c) -> Low [] "dc" \in c.rbcdTo -> Critical [] OTHER -> High)

\* Plugin 2028.
OwnerWeakComputerChain(c) == Row(c.ownsRoot /\ (OldOs(c) \/ Dormant(c)), Critical)

\* Plugin 2029.
AclPowerShadowCredsChain(c) ==
    Row(AclPower(c) /\ HasKeys(c), IF KeyAssessment(c) = "device" THEN High ELSE Critical)

\* Plugin 2030.
DcOwnerNotAdministrator(c) ==
    Row(Dc(c) /\ c.owner \notin {Null, "Domain Admins", "Enterprise Admins"},
        CASE c.owner = "Administrators" -> Low [] c.owner = "privileged" -> Medium [] OTHER -> Critical)

\* Plugin 2031.
ComputerNoPasswordSet(c) ==
    Row(/\ Enabled(c)
        /\ c.pwdAge = Null \/ ({"notRequired", "workstation"} \subseteq c.uac /\ c.logonAge = Null),
        IF "notRequired" \in c.uac THEN High ELSE Medium)

\* Plugin 2032.
DcNotInDefaultOu(c) == Row(Dc(c) /\ ~c.inDcOu, Medium)

\* Plugin 2033.
GmsaBroadPasswordReader(c) == Row("broad" \in c.readers, IF Enabled(c) THEN Critical ELSE Medium)

\* Plugin 2034.
GhostSpnDelegation(c) == Row("ghost spn" \in c.targets, Medium)

\* Plugin 2035.
ComputerNameWithoutDollar(c) == Row(c.name # "with dollar", IF c.name = "that of a dc" THEN Critical ELSE High)

\* Plugin 2036.
DuplicateDnsHostname(c) == Row(~Dc(c) /\ c.dnsTwin # "none", IF c.dnsTwin = "dc" THEN Critical ELSE Medium)

\* Plugin 2037.
RodcPrivilegedCredentialsCached(c) == Row(c.revealed, Critical)

\* Plugin 2038.
LapsPasswordReadableByNonTier0(c) == Row(c.lapsReadable /\ Enabled(c), IF Server(c) THEN High ELSE Medium)

\* Plugin 2039.
DsrmPasswordNotManaged(c) ==
    Row(Dc(c) /\ ~Rodc(c) /\ ~EntraKerberos(c) /\ Enabled(c) /\ c.lapsModern = Null, Medium)

\* Plugin 2040.
RodcRevealOnDemandPrivileged(c) == Row(c.reveals, High)

\* Plugin 2041.
RodcNeverRevealMissingDefaults(c) == Row(Rodc(c) /\ ~c.neverRevealDefaults, High)

\* Plugin 2042.  krbtgtAge is empty when the account is not found.
RodcAdminAndKrbtgtIssues(c) ==
    LET issues == Row(c.managedBy = "nobody", Low) \cup Row(c.managedBy = "tier 0", High)
                    \cup Row(\A age \in c.krbtgtAge : Older(age, 180), Medium)
    IN  IF Rodc(c) /\ ~EntraKerberos(c) /\ issues # {} THEN {Worst(issues)} ELSE {}

\* Plugin 2043.
ConstrainedDelegationToDc(c) ==
    Row(~Dc(c) /\ "t2a4d" \notin c.uac /\ c.targets \cap {"dc", "krbtgt spn"} # {},
        IF Enabled(c) THEN High ELSE Medium)

\* Plugin 2044.
ComputerOwnedByNonAdmin(c) ==
    Row(Enabled(c) /\ ~Dc(c) /\ ~c.serviceAccount /\ c.owner \in {"other", "foreign"},
        IF Tier0(c) THEN High ELSE IF c.createdByOwner /\ LapsManaged(c) THEN Medium ELSE Low)

\* Plugin 2045.
RodcSysvolWritable(c) == Row(Rodc(c) /\ c.sysvolFound = TRUE /\ c.sysvolReadOnly # TRUE, High)

\* Plugin 2046.
DcSysvolReplicationDisabled(c) ==
    Row(/\ Dc(c) /\ Enabled(c) /\ ~EntraKerberos(c)
        /\ c.otherDfsr \/ c.sysvolFound = TRUE
        /\ c.sysvolFound = FALSE \/ (c.sysvolFound = TRUE /\ c.sysvolEnabled = FALSE), Medium)

\* Plugin 10008.
SeamlessSsoKeyAge(c) ==
    Row(c.special = "seamless sso" /\ (c.pwdAge = Null \/ Older(c.pwdAge, 30)),
        IF Older(c.pwdAge, 180) THEN Critical ELSE High)

\* Plugin 10010.
EntraConnectOnDomainController(c) ==
    Row(Dc(c) /\ c.syncHost # "none",
        CASE c.syncHost = "stale" -> Medium [] c.syncHost = "live" -> High [] OTHER -> Critical)

-----------------------------------------------------------------------------
\* What the plugins report.
ComputerFindings(c) ==
    UNION { Report(2001, UnconstrainedDelegationComputer(c)),
            Report(2002, ProtocolTransitionDelegationComputer(c)), Report(2003, UnsupportedOs(c)),
            Report(2004, LapsNotManaged(c)), Report(2005, WeakKerberosEncryptionComputer(c)),
            Report(2006, DormantComputer(c)), Report(2007, StaleComputerPassword(c)),
            Report(2008, ComputerPrivilegedGroup(c)), Report(2009, ComputerPasswordNotRequired(c)),
            Report(2010, ComputerAsrepRoastable(c)), Report(2011, ComputerReversibleEncryption(c)),
            Report(2012, ComputerPasswordInDescription(c)), Report(2013, ComputerShadowCredentials(c)),
            Report(2014, ComputerSidHistory(c)), Report(2015, ComputerPrimaryGroupId(c)),
            Report(2016, ComputerDesOnly(c)), Report(2017, ComputerPrimaryGroupNondefault(c)),
            Report(2018, ComputerNoAes(c)), Report(2019, DcInactive(c)), Report(2020, DcPwdRotation(c)),
            Report(2021, DcRegistrationConsistency(c)), Report(2022, ComputerRbcd(c)),
            Report(2023, UnconstrainedDelegAclChain(c)), Report(2024, UnconstrainedDelegWeakChain(c)),
            Report(2025, AclPowerUnsupportedOsChain(c)), Report(2026, AclPowerDormantChain(c)),
            Report(2027, RbcdTrusteeWeakComputer(c)), Report(2028, OwnerWeakComputerChain(c)),
            Report(2029, AclPowerShadowCredsChain(c)), Report(2030, DcOwnerNotAdministrator(c)),
            Report(2031, ComputerNoPasswordSet(c)), Report(2032, DcNotInDefaultOu(c)),
            Report(2033, GmsaBroadPasswordReader(c)), Report(2034, GhostSpnDelegation(c)),
            Report(2035, ComputerNameWithoutDollar(c)), Report(2036, DuplicateDnsHostname(c)),
            Report(2037, RodcPrivilegedCredentialsCached(c)),
            Report(2038, LapsPasswordReadableByNonTier0(c)), Report(2039, DsrmPasswordNotManaged(c)),
            Report(2040, RodcRevealOnDemandPrivileged(c)), Report(2041, RodcNeverRevealMissingDefaults(c)),
            Report(2042, RodcAdminAndKrbtgtIssues(c)), Report(2043, ConstrainedDelegationToDc(c)),
            Report(2044, ComputerOwnedByNonAdmin(c)), Report(2045, RodcSysvolWritable(c)),
            Report(2046, DcSysvolReplicationDisabled(c)), Report(10008, SeamlessSsoKeyAge(c)),
            Report(10010, EntraConnectOnDomainController(c)) }
=============================================================================
