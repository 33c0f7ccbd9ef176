---------------------------- MODULE SettingPlugins ----------------------------
(***************************************************************************)
(* The plugins that judge the settings Group Policy gives a computer       *)
(* (src/plugins/9010 to 9038, 9043 and 9044).  A record c holds the        *)
(* settings that win on one computer (module GpoApplication says which     *)
(* policy's do), Null where no policy that applies sets one or the winning *)
(* one deletes it.  A plugin that reports on the winning policy, or once   *)
(* for the domain, gives its row the worst severity of the computers       *)
(* concerned: its operator is what one computer adds to that row.          *)
(***************************************************************************)
EXTENDS Ratings

Odd == 99      \* a value the plugins do not recognise

\* Subcategories of the audit policy by the events they must record, as
\* bits: 1 success, 2 failure.
Required == [dsAccess |-> 2, policyChange |-> 1, logon |-> 3]
Uniform(value) == [s \in DOMAIN Required |-> value]
AuditPolicies == {Uniform(v) : v \in {Null, 0, 1, 2, 3}} \cup {[Uniform(3) EXCEPT !.logon = v] : v \in {Null, 1}}
Enough(value, bits) == value \in {bits, 3}

SettingValues ==
    [ kind |-> {"dc", "entra kerberos", "server", "workstation", "other os", "gmsa"},
      enabled |-> {Null, TRUE, FALSE}, sysvolRead |-> BOOLEAN, level |-> {Null, 4, 5}, members |-> {3, 200},
      ldapSigning |-> {Null, 0, 1, 2, Odd}, channelBinding |-> {Null, 0, 1, 2, Odd},
      smbSigning |-> {Null, 0, 1, Odd}, lmLevel |-> {Null, 2, 3, 5, Odd}, noLmHash |-> {Null, 0, 1, Odd},
      ticketAge |-> {Null, 0, 10, 11}, renewAge |-> {Null, 7, 8}, serviceAge |-> {Null, 0, 600, 601},
      skew |-> {Null, 5, 6}, validateClient |-> {Null, 0, 1},    \* from policies linked at the domain
      \* Who holds a dangerous right: one that 9015 and 9024 both list, a logon
      \* right, which only 9015 lists, and SeRelabelPrivilege, which only 9024 does.
      rights |-> SUBSET {"broad", "plain", "service", "token service", "tier 0", "default"},
      logonRights |-> SUBSET {"broad", "plain", "default"}, relabel |-> SUBSET {"broad", "plain"},
      denied |-> BOOLEAN,                                        \* logon, to Domain or Enterprise Admins
      advancedAudit |-> AuditPolicies, legacyAudit |-> AuditPolicies,
      spooler |-> {Null, 2, 3, 4, Odd}, webClient |-> {Null, 2, 4, Odd}, runAsPpl |-> {Null, 0, 1, 2, Odd},
      anonymous |-> SUBSET {"sam", "everyone", "lookup", "shares", "pipes"},
      refuseChange |-> {Null, 0, 1}, recoveryConsole |-> {Null, 0, 1}, ldapClient |-> {Null, 0, 1},
      blankPasswords |-> {Null, 0, 1}, wsus |-> SUBSET {"http server", "http status", "proxy", "no pinning"},
      hardenedPaths |-> SUBSET {"sysvol", "netlogon", "weakened"}, weakenedElsewhere |-> BOOLEAN,
      multicast |-> {Null, 0, 1}, scriptBlock |-> {Null, 0, 1},
      kdcArmor |-> {Null, 0, 1}, armorLevel |-> {Null, 0, 1}, clientArmor |-> {Null, 0, 1},
      rdp |-> SUBSET {"idle", "disconnect", "no drives", "no printers"},
      asr |-> {Null, 0, 1}, asrRules |-> SUBSET {"block", "audit"},
      hostsBlocked |-> SUBSET {"wscript", "cscript", "mshta"},
      kdcEnc |-> {{}, {"aes"}, {"rc4", "aes"}, {"des"}}, policyEnc |-> {{}, {"aes"}, {"rc4", "aes"}, {"des"}},
      channelAllowed |-> SUBSET {"everyone", "dcs", "515", "unresolved", "plain"} ]

\* A domain controller whose policies could be read.
Dc(c) == c.kind = "dc" /\ c.sysvolRead

\* A computer the plugins count that are not about domain controllers alone.
Counted(c) == c.sysvolRead /\ c.enabled # FALSE /\ c.kind \in {"dc", "server", "workstation"}
Member(c) == Counted(c) /\ c.kind # "dc"
OnDc(c, there, elsewhere) == IF c.kind = "dc" THEN there ELSE elsewhere

\* Plugin 9010.
DcLdapSigningNotRequired(c) == Row(Dc(c) /\ c.ldapSigning # 2, IF c.ldapSigning \in {0, 1} THEN High ELSE Medium)

\* Plugin 9011.
DcLdapChannelBindingNotEnforced(c) ==
    Row(Dc(c) /\ c.channelBinding # 2, IF c.channelBinding = 1 THEN Low ELSE Medium)

\* Plugin 9012.
DcSmbSigningNotRequired(c) == Row(Dc(c) /\ c.smbSigning # 1, IF c.smbSigning = 0 THEN High ELSE Medium)

\* Plugin 9013.
DcLmNtlmv1Accepted(c) ==
    Row(Dc(c) /\ (c.lmLevel # 5 \/ c.noLmHash \notin {Null, 1}),
        IF c.lmLevel \in {0, 1, 2} \/ c.noLmHash = 0 THEN High ELSE IF c.lmLevel \in {3, 4} THEN Medium ELSE Low)

\* Plugin 9014.
KerberosPolicyWeak(c) ==
    Row(/\ Dc(c)
        /\ \/ c.ticketAge = 0 \/ Above(c.ticketAge, 10)
           \/ Above(c.renewAge, 7)
           \/ c.serviceAge = 0 \/ Above(c.serviceAge, 600)
           \/ Above(c.skew, 5)
           \/ c.validateClient = 0, Medium)

\* An identity of a service is expected to hold the two token rights, and
\* only weighs less there.  A broad group that is itself Tier 0 is "tier 0".
\* Plugin 9015.
DcDangerousUserRights(c) ==
    LET extra == (c.rights \cup c.logonRights) \ {"tier 0", "default"}
    IN  Row(Dc(c) /\ extra # {},
            IF "broad" \in extra THEN Critical ELSE IF extra # {"token service"} THEN High ELSE Low)

\* A single advanced setting makes every legacy one void.
AuditPolicy(c) == IF c.advancedAudit # Uniform(Null) THEN c.advancedAudit ELSE c.legacyAudit

\* Plugin 9016.
DcAuditPolicyIncomplete(c) ==
    Row(Dc(c) /\ \E s \in DOMAIN Required : ~Enough(AuditPolicy(c)[s], Required[s]), Medium)

\* Plugin 9017.
DcPrintSpoolerNotDisabled(c) == Row(Dc(c) /\ c.spooler # 4, IF c.spooler \in {2, 3} THEN Medium ELSE Low)

\* Plugin 9019.
DcLsaProtectionNotEnforced(c) == Row(Dc(c) /\ c.runAsPpl \notin {1, 2}, IF c.runAsPpl = 0 THEN Medium ELSE Low)

\* Plugin 9023.
DcAnonymousAccessAllowed(c) ==
    Row(Dc(c) /\ c.anonymous # {}, IF c.anonymous \cap {"sam", "everyone"} # {} THEN High ELSE Medium)

\* Plugin 9024.
BroadUserRightsAnyGpo(c) == Row(Member(c) /\ "broad" \in c.rights \cup c.relabel, High)

\* Plugin 9025.
NoTier0LogonRestriction(c) == Row(Member(c) /\ ~c.denied, IF c.members >= 200 THEN Medium ELSE Low)

\* Plugin 9026.
RecoveryConsoleAutoAdminLogon(c) == Row(Counted(c) /\ c.recoveryConsole = 1, OnDc(c, High, Medium))

\* Plugin 9027.
WsusInsecureConfiguration(c) ==
    Row(Counted(c) /\ c.wsus \cap {"http server", "http status"} # {}, OnDc(c, High, Medium)) \cup
    Row(Counted(c) /\ {"proxy", "http server"} \subseteq c.wsus, Low) \cup
    Row(Counted(c) /\ "no pinning" \in c.wsus, Low)

\* Plugin 9028.
LdapClientSigningDisabled(c) == Row(Counted(c) /\ c.ldapClient = 0, OnDc(c, High, Medium))

\* Plugin 9029.
UncHardenedPathsNotEnforced(c) ==
    Row(Counted(c) /\ ~({"sysvol", "netlogon"} \subseteq c.hardenedPaths),
        IF "weakened" \in c.hardenedPaths \/ c.weakenedElsewhere THEN High ELSE Low)

\* Plugin 9030.
LlmnrNotDisabled(c) == Row(Counted(c) /\ c.multicast # 0, Low)

\* Plugin 9031.
PowershellLoggingNotEnabled(c) == Row(Counted(c) /\ c.scriptBlock # 1, OnDc(c, Medium, Low))

\* Plugin 9032.
DcRefuseMachinePasswordChange(c) == Row(Dc(c) /\ c.refuseChange = 1, Medium)

\* Plugin 9033.
DcWebclientNotDisabled(c) == Row(Dc(c) /\ c.webClient # 4, IF c.webClient \in {2, 3} THEN Low ELSE Info)

\* Plugin 9034.
BlankPasswordNetworkLogon(c) == Row(Counted(c) /\ c.blankPasswords = 0, OnDc(c, High, Medium))

\* A domain controller must offer it, at a level the default of which will
\* do; any other computer must ask for it.
Armored(c) == IF c.kind = "dc" THEN c.kdcArmor = 1 /\ Or(c.armorLevel, 1) \in 1 .. 3 ELSE c.clientArmor = 1

\* Plugin 9035.
KerberosArmoringNotEnabled(c) == Row(Counted(c) /\ AtLeast(c.level, 5) /\ ~Armored(c), OnDc(c, Low, Info))

\* Plugin 9036.
RdpSessionHardeningNotConfigured(c) ==
    Row(Counted(c) /\ c.kind \in {"server", "dc"} /\ c.rdp # {"idle", "disconnect", "no drives", "no printers"}, Info)

\* Plugin 9037.
DefenderAsrNotConfigured(c) == Row(Counted(c) /\ ~(c.asr = 1 /\ "block" \in c.asrRules), Low)

\* Plugin 9038.
ScriptHostsNotFirewalled(c) == Row(Member(c) /\ c.hostsBlocked # {"wscript", "cscript", "mshta"}, Info)

\* These two do not ask whether SYSVOL was read.
\* Plugin 9043.
KerberosRc4ReenabledByPolicy(c) ==
    Row(c.kind = "dc" /\ {"rc4", "des"} \cap (c.kdcEnc \cup c.policyEnc) # {},
        IF {"rc4", "des"} \cap c.kdcEnc # {} \/ "des" \in c.policyEnc THEN High ELSE Medium)

\* Plugin 9044.
NetlogonVulnerableChannelAllowed(c) ==
    Row(c.kind = "dc" /\ c.channelAllowed # {},
        CASE c.channelAllowed \cap {"everyone", "dcs"} # {} -> Critical
          [] c.channelAllowed \cap {"everyone", "dcs"} = {} /\ c.channelAllowed # {"plain"} -> High
          [] OTHER -> Medium)

-----------------------------------------------------------------------------
\* What the plugins report.
SettingFindings(c) ==
    UNION { Report(9010, DcLdapSigningNotRequired(c)), Report(9011, DcLdapChannelBindingNotEnforced(c)),
            Report(9012, DcSmbSigningNotRequired(c)), Report(9013, DcLmNtlmv1Accepted(c)),
            Report(9014, KerberosPolicyWeak(c)), Report(9015, DcDangerousUserRights(c)),
            Report(9016, DcAuditPolicyIncomplete(c)), Report(9017, DcPrintSpoolerNotDisabled(c)),
            Report(9019, DcLsaProtectionNotEnforced(c)), Report(9023, DcAnonymousAccessAllowed(c)),
            Report(9024, BroadUserRightsAnyGpo(c)), Report(9025, NoTier0LogonRestriction(c)),
            Report(9026, RecoveryConsoleAutoAdminLogon(c)), Report(9027, WsusInsecureConfiguration(c)),
            Report(9028, LdapClientSigningDisabled(c)), Report(9029, UncHardenedPathsNotEnforced(c)),
            Report(9030, LlmnrNotDisabled(c)), Report(9031, PowershellLoggingNotEnabled(c)),
            Report(9032, DcRefuseMachinePasswordChange(c)), Report(9033, DcWebclientNotDisabled(c)),
            Report(9034, BlankPasswordNetworkLogon(c)), Report(9035, KerberosArmoringNotEnabled(c)),
            Report(9036, RdpSessionHardeningNotConfigured(c)), Report(9037, DefenderAsrNotConfigured(c)),
            Report(9038, ScriptHostsNotFirewalled(c)), Report(9043, KerberosRc4ReenabledByPolicy(c)),
            Report(9044, NetlogonVulnerableChannelAllowed(c)) }
=============================================================================
