--------------------------- MODULE AccountPlugins ---------------------------
(***************************************************************************)
(* The plugins that judge a user account (src/plugins/10NN_*.py, and       *)
(* 10009).  A record u holds the facts they read of one account: its       *)
(* ad_user row, the edges it is an end of, what it is privileged by, and   *)
(* the settings of its domain that matter to it.                           *)
(***************************************************************************)
EXTENDS Ratings

\* The facts of an account and the values the plugins tell apart.  The flags
\* are the bits of userAccountControl, read as 0 when absent.
AccountValues ==
    [ disabled |-> BOOLEAN, notRequired |-> BOOLEAN, trust |-> BOOLEAN,
      neverExpires |-> BOOLEAN, reversible |-> BOOLEAN, smartcard |-> BOOLEAN,
      notDelegated |-> BOOLEAN, preauthOff |-> BOOLEAN, desOnly |-> BOOLEAN,
      t2a4d |-> BOOLEAN,
      rid |-> {500, 501, 502, 503, 1104}, tier |-> {Null, 0, 1, 2},
      name |-> {"plain", "generic", "temp", "MSOL_", "sync", "krbtgt_1", "krbtgt_AzureAD"},
      text |-> {"", "Azure Active Directory Connect", "Azure AD Connect",
              "Synchronization Service", "password", "password assigned", "temp"},
      adminCount |-> {Null, 0, 1},
      group |-> {"none", "protected", "operators"},      \* an effective membership
      inProtectedUsers |-> BOOLEAN, operatorsMasked |-> BOOLEAN,
      primaryGroup |-> {Null, 512, 513, 514, 516, 526},
      onRoot |-> {{}, {"changes"}, {"changes", "changesAll"}, {"extended"}, {"write"}, {"rewrite"}, {"all"}},
      groupOnRoot |-> {{}, {"changes", "changesAll"}, {"write"}},  \* held by a group it is in
      onSdHolder |-> {{}, {"write"}, {"rewrite"}},
      owner |-> BOOLEAN,                          \* of the domain root or AdminSDHolder
      ouDelegated |-> BOOLEAN,                    \* below an OU that others control
      pwdAge |-> {Null, 10, 200, 400, 1200, Since1601},
      logonAge |-> {Null, 10, 60, 200}, age |-> {10, 200},
      expired |-> {Null, -5, 10, 40},             \* days since accountExpires
      spn |-> BOOLEAN, mailbox |-> BOOLEAN,
      sidHistory |-> (SUBSET {"same domain", "privileged", "foreign"}) \cup {{"undecoded"}},
      targets |-> SUBSET {"dc", "krbtgt", "krbtgt spn", "server"},   \* constrained delegation
      unconstrained |-> BOOLEAN, rbcdTrustee |-> BOOLEAN, rbcdTarget |-> BOOLEAN,
      enc |-> {{}, {"des", "rc4"}, {"rc4"}, {"rc4", "aes"}},
      kdcRc4 |-> BOOLEAN, sysvolRead |-> BOOLEAN,
      aesSince |-> {{}, {Null}, {300}},           \* the RODC group's age, {} without it
      keys |-> SUBSET {"AD", "AzureAD", "malformed", "other use"}, keyCount |-> {Null, 0, 1}, keysParsed |-> BOOLEAN,
      cleartext |-> {Null, {}, {"unixUserPassword"}},
      mappings |-> {{}, {"email"}, {"subject"}, {"strong"}},
      upnOf |-> {"nobody", "other", "privileged"},   \* whose sAMAccountName its UPN is
      lockedFor |-> {Null, 5, 45}, lockout |-> {Null, 0, 30},        \* minutes
      pso |-> {{}, {Null}, {0}, {60}},            \* lockout duration of its PSO, {} without one
      badPwd |-> {Null, 0, 4, 5}, threshold |-> {Null, 0, 1, 5},
      hashRolling |-> {Null, TRUE, FALSE}, maxPwdAge |-> {Null, 0, 42},
      hybrid |-> BOOLEAN, inEntra |-> BOOLEAN ]     \* the tenant syncs; a cloud user is its twin

Enabled(u) == ~u.disabled
BuiltinUnused(u) == u.disabled /\ u.rid \in {501, 503}
Krbtgt(u) == u.rid = 502

Owned(u) == u.onRoot \cup u.onSdHolder
DcSync(u) == Replicates(u.onRoot) \/ Replicates(u.groupOnRoot)

\* v_privileged_principal, apart from and with the protected groups.
PrivilegedByRight(u) == Controls(Owned(u)) \/ Controls(u.groupOnRoot) \/ DcSync(u) \/ u.owner
Privileged(u) == u.group # "none" \/ PrivilegedByRight(u)
Admin(u) == u.adminCount = 1 \/ Privileged(u)

TierScore(u, tier0, tier1, other) == IF u.tier = 0 THEN tier0 ELSE IF u.tier = 1 THEN tier1 ELSE other
AdminScore(u, admin, other) == IF Admin(u) THEN admin ELSE other
UnlessEnabled(u, discount) == IF u.disabled THEN discount ELSE 0

-----------------------------------------------------------------------------
\* Plugin 1001.
PasswordNeverExpires(u) ==
    Row(u.neverExpires /\ ~BuiltinUnused(u),
        Clamped(Higher(TierScore(u, 4, 3, 2), AdminScore(u, 3, 2)) - UnlessEnabled(u, 2)))

\* Plugin 1002.
PasswordNotRequired(u) ==
    Row(u.notRequired /\ ~u.trust /\ ~BuiltinUnused(u), Clamped(TierScore(u, 4, 3, 3) - UnlessEnabled(u, 2)))

\* Plugin 1003.
ReversibleEncryption(u) == Row(u.reversible, Critical)

\* Plugin 1004.
AdministratorEnabled(u) == Row(Enabled(u) /\ u.rid = 500, IF Newer(u.logonAge, 90) THEN High ELSE Medium)

\* Plugin 1005.
GuestEnabled(u) == Row(Enabled(u) /\ u.rid = 501, Medium)

\* Plugin 1006.
KrbtgtPasswordAge(u) ==
    Row((Krbtgt(u) \/ u.name \in {"krbtgt_1", "krbtgt_AzureAD"}) /\ Older(u.pwdAge, 180), Medium)

\* Plugin 1007.
DormantAccount(u) ==
    Row(Enabled(u) /\ Older(Or(u.logonAge, Or(u.pwdAge, u.age)), 90), Low)

\* Plugin 1008.
SidHistory(u) ==
    Row(u.sidHistory # {}, IF u.sidHistory \cap {"same domain", "privileged"} # {} THEN Critical ELSE High)

\* Plugin 1009.
KerberoastableAccount(u) ==
    Row(Enabled(u) /\ u.spn, Higher(TierScore(u, 4, 3, 2), AdminScore(u, 3, 2)))

\* Plugin 1010.
UnconstrainedDelegation(u) == Row(u.unconstrained, Critical)

\* An account the smart card and Protected Users plugins leave to 10009.
SyncAccount(u) ==
    u.name = "MSOL_" \/ u.text \in {"Azure Active Directory Connect", "Azure AD Connect", "Synchronization Service"}

\* Plugin 1012.
PrivilegedNoSmartcard(u) ==
    Row(Privileged(u) /\ ~u.smartcard /\ ~SyncAccount(u) /\ ~Krbtgt(u), IF u.disabled THEN Info ELSE Low)

\* Plugin 1013.
AsrepRoastable(u) ==
    Row(u.preauthOff, Clamped(Higher(TierScore(u, 4, 4, 3), AdminScore(u, 4, 3)) - UnlessEnabled(u, 2)))

PrivilegedPrimaryGroups == {498, 512, 516, 518, 519, 520, 521, 544}

\* Plugin 1016.
PrimaryGroupIdPrivileged(u) ==
    Row(u.primaryGroup \in PrivilegedPrimaryGroups, IF u.primaryGroup = 516 THEN Critical ELSE High)

\* The lockout duration in force: the account's PSO's, if it has one.
Lockout(u) == IF u.pso = {} THEN u.lockout ELSE CHOOSE d \in u.pso : TRUE

\* Plugin 1017.
AccountLockedOut(u) ==
    Row(Enabled(u) /\ u.lockedFor # Null /\ (Lockout(u) = 0 \/ Above(Lockout(u), u.lockedFor)), Info)

\* Plugin 1018.
BadPasswordAttempts(u) ==
    Row(AtLeast(u.badPwd, IF Above(u.threshold, 1) THEN u.threshold - 1 ELSE 5), Info)

\* Plugin 1019.
DesOnlyEnforced(u) == Row(Enabled(u) /\ u.desOnly, High)

\* Plugin 1020.
ProtocolTransitionDelegation(u) ==
    Row(u.t2a4d, (IF u.targets \cap {"dc", "krbtgt spn"} # {} THEN 4 ELSE 3) - UnlessEnabled(u, 1))

\* Plugin 1021.
PasswordInDescription(u) ==
    Row(u.text \in {"password", "password assigned"},
        Higher(TierScore(u, 4, 4, 3), AdminScore(u, 4, 3)) - (IF u.text = "password" THEN 1 ELSE 0))

\* Plugin 1022.
ShadowCredentials(u) ==
    LET score == IF u.tier = 0 THEN 3 ELSE IF u.tier = 1 \/ Admin(u) THEN 2 ELSE 1
        anomalies == {"malformed", "other use"} \cup (IF score >= 2 THEN {"AD"} ELSE {})
        found == IF u.keysParsed THEN u.keys ELSE {}
        anomalous == found \cap anomalies # {}
        cloudOnly == found = {"AzureAD"}
    IN  Row(Above(u.keyCount, 0) \/ found # {},
            Clamped(score + (IF anomalous THEN 1 ELSE 0) - (IF cloudOnly /\ score = 1 THEN 1 ELSE 0)
                    - UnlessEnabled(u, 2)))

\* Plugin 1023.
UserPrimaryGroupNondefault(u) ==
    Row(u.primaryGroup \notin {Null, 513, 514} \cup PrivilegedPrimaryGroups,
        IF u.primaryGroup \in {526, 527} THEN High ELSE Low)

\* Plugin 1024.
UserSpnNoAes(u) ==
    Row(Enabled(u) /\ u.spn /\ "aes" \notin u.enc /\ (u.enc # {} \/ (u.sysvolRead /\ u.kdcRc4)),
        IF u.enc # {} \/ Privileged(u) THEN High ELSE Medium)

\* Plugin 1025.
UserStaleAdminCount(u) ==
    Row(/\ u.adminCount = 1
        /\ u.group # "protected" /\ (u.group = "operators" => u.operatorsMasked)
        /\ ~PrivilegedByRight(u)
        /\ u.rid \notin {500, 502} /\ u.primaryGroup \notin {512, 516, 518, 519, 521}, Low)

\* Plugin 1026.
KerberoastableDcsyncChain(u) == Row(Enabled(u) /\ u.spn /\ DcSync(u), Critical)

ControlSeverity(u) == IF Rewrites(Owned(u)) THEN Critical ELSE High

\* Plugin 1027.
KerberoastableDangerousAclChain(u) == Row(Enabled(u) /\ u.spn /\ Controls(Owned(u)), ControlSeverity(u))

\* Plugin 1028.
AsrepRoastableDcsyncChain(u) == Row(Enabled(u) /\ u.preauthOff /\ DcSync(u), Critical)

\* Plugin 1029.
AsrepRoastableDangerousAclChain(u) == Row(Enabled(u) /\ u.preauthOff /\ Controls(Owned(u)), ControlSeverity(u))

\* Plugin 1030.
PasswdNotreqdAclChain(u) ==
    Row(Enabled(u) /\ u.notRequired /\ (Replicates(u.onRoot) \/ Controls(Owned(u))),
        IF Replicates(u.onRoot) THEN Critical ELSE ControlSeverity(u))

\* Plugin 1031.
UserRbcdTrustee(u) == Row(u.rbcdTrustee, IF u.disabled THEN Low ELSE High)

\* Plugin 1032.
OwnerWeakUserChain(u) ==
    Row(u.owner /\ (u.disabled \/ u.logonAge = Null \/ Older(u.logonAge, 90) \/ u.spn \/ u.preauthOff \/ u.notRequired),
        IF u.disabled THEN High ELSE Critical)

\* Plugin 1033.
AdministratorRecentlyUsed(u) == Row(u.rid = 500 /\ Newer(u.logonAge, 35), Medium)

\* Plugin 1034.
KrbtgtRbcd(u) == Row(u.rbcdTarget /\ (Krbtgt(u) \/ u.name \in {"krbtgt_1", "krbtgt_AzureAD"}), Critical)

\* Plugin 1035.
ConstrainedDelegationKrbtgt(u) == Row(u.targets \cap {"krbtgt", "krbtgt spn"} # {}, Critical)

\* Plugin 1036.
PrivilegedPasswordAge(u) ==
    Row(Privileged(u) /\ Enabled(u) /\ RealAge(u.pwdAge) /\ Older(u.pwdAge, 1095), Medium)

\* Plugin 1037.
PrivilegedUserDelegatedOu(u) ==
    Row(Privileged(u) /\ u.ouDelegated,
        CASE u.adminCount # 1 /\ Enabled(u) -> High
          [] u.adminCount # 1 \/ Enabled(u) -> Medium
          [] OTHER -> Low)

\* Plugin 1038.
DesEncryptionEnabled(u) == Row("des" \in u.enc \/ u.desOnly, IF u.disabled THEN Low ELSE High)

\* Plugin 1040.
PrivilegedNotProtectedUsersGroup(u) ==
    Row(Privileged(u) /\ Enabled(u) /\ ~u.inProtectedUsers /\ ~SyncAccount(u) /\ ~Krbtgt(u), Medium)

\* Plugin 1041.
PrivilegedMissingNotDelegatedFlag(u) ==
    Row(Privileged(u) /\ Enabled(u) /\ ~u.notDelegated /\ ~Krbtgt(u), IF u.inProtectedUsers THEN Low ELSE Medium)

\* Plugin 1042.
DisabledPrivilegedAccount(u) ==
    Row(/\ u.disabled
        /\ \/ u.group # "none" \/ u.primaryGroup \in {512, 516, 518, 519, 520, 521, 526, 527}
           \/ PrivilegedByRight(u) \/ "privileged" \in u.sidHistory
        /\ u.rid \notin {501, 502, 503} /\ u.name \notin {"krbtgt_1", "krbtgt_AzureAD"}, High)

\* Plugin 1043.
UpnMatchesOtherSamAccountName(u) == Row(u.upnOf # "nobody", IF u.upnOf = "privileged" THEN Critical ELSE High)

ExposedSecretSeverity(u, disabled) == IF u.disabled THEN disabled ELSE IF Privileged(u) THEN Critical ELSE High

\* Plugin 1044.
CleartextPasswordAttribute(u) == Row(u.cleartext \notin {Null, {}}, ExposedSecretSeverity(u, Medium))

\* Plugin 1045.
NoAesKerberosKeys(u) ==
    Row(/\ Enabled(u) \/ Krbtgt(u)
        /\ RealAge(u.pwdAge) /\ \A since \in u.aesSince : Below(since, u.pwdAge),
        IF Privileged(u) \/ u.spn THEN High ELSE Medium)

\* Plugin 1046.
WeakCertificateMapping(u) == Row(u.mappings \cap {"email", "subject"} # {}, ExposedSecretSeverity(u, Low))

\* Plugin 1047.
PrivilegedAccountMailbox(u) == Row(Privileged(u) /\ Enabled(u) /\ u.mailbox, Medium)

\* Plugin 1048.
ExpiredOrUnboundedTemporaryAccount(u) ==
    Row(Enabled(u) /\ (Older(u.expired, 30)
                       \/ (u.expired = Null /\ u.cleartext # Null /\ "temp" \in {u.name, u.text})), Low)

\* Plugin 1049.
SharedGenericAccount(u) ==
    Row(Enabled(u) /\ u.rid \notin {500, 501} /\ u.name = "generic",
        IF Privileged(u) THEN High ELSE IF u.neverExpires THEN Medium ELSE Low)

\* Plugin 1050.
SmartcardStaticNtHash(u) ==
    Row(/\ Enabled(u) /\ u.smartcard /\ u.hashRolling # TRUE
        /\ RealAge(u.pwdAge) /\ Older(u.pwdAge, IF Above(u.maxPwdAge, 0) THEN u.maxPwdAge ELSE 365),
        IF Privileged(u) THEN High ELSE Medium)

\* Plugin 1051.
KerberoastableOldPassword(u) ==
    Row(Enabled(u) /\ u.spn /\ ~Krbtgt(u) /\ (~RealAge(u.pwdAge) \/ Older(u.pwdAge, 365)),
        IF Privileged(u) THEN Critical ELSE High)

\* Plugin 10001.
OnpremPrivilegedNoEntra(u) ==
    Row(Enabled(u) /\ u.rid \notin {500, 502} /\ Privileged(u) /\ u.hybrid /\ ~u.inEntra, Info)

\* Plugin 10009.
EntraSyncAccountExposure(u) ==
    Row(/\ \/ u.name = "MSOL_" \/ u.text = "Azure Active Directory Connect"
           \/ /\ DcSync(u)
              /\ u.text \in {"Azure AD Connect", "Synchronization Service"} \/ u.name = "sync"
        /\ u.spn \/ u.disabled \/ u.pwdAge = Null \/ Older(u.pwdAge, 365),
        IF u.spn THEN Critical ELSE IF DcSync(u) THEN High ELSE Medium)

-----------------------------------------------------------------------------
\* What the plugins report.
AccountFindings(u) ==
    UNION { Report(1001, PasswordNeverExpires(u)), Report(1002, PasswordNotRequired(u)),
            Report(1003, ReversibleEncryption(u)), Report(1004, AdministratorEnabled(u)),
            Report(1005, GuestEnabled(u)), Report(1006, KrbtgtPasswordAge(u)),
            Report(1007, DormantAccount(u)), Report(1008, SidHistory(u)),
            Report(1009, KerberoastableAccount(u)), Report(1010, UnconstrainedDelegation(u)),
            Report(1012, PrivilegedNoSmartcard(u)), Report(1013, AsrepRoastable(u)),
            Report(1016, PrimaryGroupIdPrivileged(u)), Report(1017, AccountLockedOut(u)),
            Report(1018, BadPasswordAttempts(u)), Report(1019, DesOnlyEnforced(u)),
            Report(1020, ProtocolTransitionDelegation(u)), Report(1021, PasswordInDescription(u)),
            Report(1022, ShadowCredentials(u)), Report(1023, UserPrimaryGroupNondefault(u)),
            Report(1024, UserSpnNoAes(u)), Report(1025, UserStaleAdminCount(u)),
            Report(1026, KerberoastableDcsyncChain(u)), Report(1027, KerberoastableDangerousAclChain(u)),
            Report(1028, AsrepRoastableDcsyncChain(u)), Report(1029, AsrepRoastableDangerousAclChain(u)),
            Report(1030, PasswdNotreqdAclChain(u)), Report(1031, UserRbcdTrustee(u)),
            Report(1032, OwnerWeakUserChain(u)), Report(1033, AdministratorRecentlyUsed(u)),
            Report(1034, KrbtgtRbcd(u)), Report(1035, ConstrainedDelegationKrbtgt(u)),
            Report(1036, PrivilegedPasswordAge(u)), Report(1037, PrivilegedUserDelegatedOu(u)),
            Report(1038, DesEncryptionEnabled(u)), Report(1040, PrivilegedNotProtectedUsersGroup(u)),
            Report(1041, PrivilegedMissingNotDelegatedFlag(u)), Report(1042, DisabledPrivilegedAccount(u)),
            Report(1043, UpnMatchesOtherSamAccountName(u)), Report(1044, CleartextPasswordAttribute(u)),
            Report(1045, NoAesKerberosKeys(u)), Report(1046, WeakCertificateMapping(u)),
            Report(1047, PrivilegedAccountMailbox(u)), Report(1048, ExpiredOrUnboundedTemporaryAccount(u)),
            Report(1049, SharedGenericAccount(u)), Report(1050, SmartcardStaticNtHash(u)),
            Report(1051, KerberoastableOldPassword(u)), Report(10001, OnpremPrivilegedNoEntra(u)),
            Report(10009, EntraSyncAccountExposure(u)) }
=============================================================================
