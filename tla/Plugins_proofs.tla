---------------------------- MODULE Plugins_proofs ----------------------------
(***************************************************************************)
(* Theorems about the plugins, of every object of a family.  The runs give *)
(* a few starting objects up to three or four other facts; here an object  *)
(* is any combination of facts that is possible.                           *)
(***************************************************************************)
EXTENDS PluginProperties, TLAPS

-----------------------------------------------------------------------------
(* The objects and their findings.                                         *)

Assessed == family \notin ChangeFamilies => findings = Findings(family, Null, Null, now)

\* What the last succeeded run left, and what a collection finds, is an object
\* of the family too; without such a run nothing is found.
ObjectsInv ==
    /\ family \in Families
    /\ ObjectOf(family, now)
    /\ altered \subseteq DOMAIN now
    /\ \A x \in {before, found} : x = Null \/ ObjectOf(family, x)
    /\ before = Null => found = Null
    /\ Assessed

LEMMA ObjectsInit == Init => ObjectsInv
<1> SUFFICES ASSUME Init PROVE ObjectsInv
  OBVIOUS
<1>1. PICK base \in Bases :
        /\ family = base[1] /\ now = base[2] /\ altered = {}
        /\ before \in IF base[1] \in ChangeFamilies THEN {Null, base[2]} ELSE {Null}
        /\ found = before
        /\ findings = IF base[1] \in ChangeFamilies THEN {} ELSE Findings(base[1], Null, Null, base[2])
  BY DEF Init
<1>2. family \in Families /\ ObjectOf(family, now)
  BY <1>1, BasesAssumption
<1>3. before \in {Null, now} /\ found = before
  BY <1>1
<1>4. \A x \in {before, found} : x = Null \/ ObjectOf(family, x)
  BY <1>2, <1>3
<1> QED BY <1>1, <1>2, <1>3, <1>4 DEF ObjectsInv, Assessed

\* An altered object is still one of its family.
LEMMA AlterKeepsObject ==
  ASSUME ObjectsInv, NEW fact \in DOMAIN now \ altered, NEW v \in FactsOf(family)[fact], Alter(fact, v)
  PROVE  ObjectOf(family, now') /\ altered' \subseteq DOMAIN now' /\ UNCHANGED <<family, before, found>>
<1>1. /\ now' = [now EXCEPT ![fact] = v] /\ Possible(family, now') /\ altered' = altered \cup {fact}
      /\ UNCHANGED <<family, before, found>>
  BY DEF Alter
<1>2. DOMAIN now' = DOMAIN now
  BY <1>1
<1>3. DOMAIN now = DOMAIN FactsOf(family) /\ \A f \in DOMAIN now : now[f] \in FactsOf(family)[f]
  BY DEF ObjectsInv, ObjectOf
<1>4. \A f \in DOMAIN now' : now'[f] \in FactsOf(family)[f]
  BY <1>1, <1>2, <1>3
<1>5. ObjectOf(family, now')
  BY <1>1, <1>2, <1>3, <1>4 DEF ObjectOf
<1> QED BY <1>1, <1>2, <1>5 DEF ObjectsInv

LEMMA ObjectsNext == ObjectsInv /\ [Next]_vars => ObjectsInv'
<1> SUFFICES ASSUME ObjectsInv, [Next]_vars PROVE ObjectsInv'
  OBVIOUS
<1>1. CASE Reassess
  <2>1. PICK fact \in DOMAIN now \ altered : \E v \in FactsOf(family)[fact] : Alter(fact, v)
    BY <1>1 DEF Reassess
  <2>2. ObjectOf(family, now') /\ altered' \subseteq DOMAIN now' /\ UNCHANGED <<family, before, found>>
    BY <2>1, AlterKeepsObject
  <2>3. findings' = Findings(family, Null, Null, now')
    BY <1>1 DEF Reassess
  <2> QED BY <2>2, <2>3 DEF ObjectsInv, Assessed
<1>2. CASE Edit
  <2>1. PICK fact \in DOMAIN now \ altered : \E v \in FactsOf(family)[fact] : Alter(fact, v)
    BY <1>2 DEF Edit
  <2>2. ObjectOf(family, now') /\ altered' \subseteq DOMAIN now' /\ UNCHANGED <<family, before, found>>
    BY <2>1, AlterKeepsObject
  <2>3. family \in ChangeFamilies
    BY <1>2 DEF Edit
  <2> QED BY <2>2, <2>3 DEF ObjectsInv, Assessed
<1>3. CASE Collect
  BY <1>3 DEF ObjectsInv, Collect, Assessed
<1>4. CASE Interrupt
  BY <1>4 DEF ObjectsInv, Interrupt, Assessed, ChangeFamilies
<1>5. CASE UNCHANGED vars
  BY <1>5 DEF ObjectsInv, Assessed, vars
<1> QED BY <1>1, <1>2, <1>3, <1>4, <1>5 DEF Next

THEOREM ObjectsStay == Spec => []ObjectsInv
<1> QED BY ObjectsInit, ObjectsNext, PTL DEF Spec

\* The plugins of each family.
LEMMA FindingsByFamily ==
  ASSUME NEW n, NEW b, NEW m
  PROVE  /\ Findings("account", b, m, n) = Account!AccountFindings(n)
         /\ Findings("computer", b, m, n) = Computer!ComputerFindings(n)
         /\ Findings("group", b, m, n) = Group!GroupFindings(n)
         /\ Findings("trust", b, m, n) = Trust!TrustFindings(n)
         /\ Findings("acl", b, m, n) = Acl!AclFindings(n)
         /\ Findings("domain", b, m, n) = Domain!DomainFindings(n)
         /\ Findings("certificate", b, m, n) = Cert!CertFindings(n)
         /\ Findings("ou", b, m, n) = Gpo!OuFindings(n)
         /\ Findings("gpo", b, m, n) = Gpo!GpoFindings(n)
         /\ Findings("settings", b, m, n) = Setting!SettingFindings(n)
         /\ Findings("application", b, m, n) = {}
         /\ Findings("paths", b, m, n) = Report(5021, ControlPathToTier0(n))
         /\ Findings("principal", b, m, n) = Principal!TenantFindings(n)
         /\ Findings("access", b, m, n) = Access!AccessFindings(n)
         /\ Findings("directory", b, m, n) = Change!ChangeFindings(b, m, n)
         /\ Findings("tenant", b, m, n) = TenantChange!TenantChangeFindings(b, n)
<1>1. Findings("account", b, m, n) = Account!AccountFindings(n)
  BY DEF Findings
<1>2. Findings("computer", b, m, n) = Computer!ComputerFindings(n)
  BY DEF Findings
<1>3. Findings("group", b, m, n) = Group!GroupFindings(n)
  BY DEF Findings
<1>4. Findings("trust", b, m, n) = Trust!TrustFindings(n)
  BY DEF Findings
<1>5. Findings("acl", b, m, n) = Acl!AclFindings(n)
  BY DEF Findings
<1>6. Findings("domain", b, m, n) = Domain!DomainFindings(n)
  BY DEF Findings
<1>7. Findings("certificate", b, m, n) = Cert!CertFindings(n)
  BY DEF Findings
<1>8. Findings("ou", b, m, n) = Gpo!OuFindings(n)
  BY DEF Findings
<1>9. Findings("gpo", b, m, n) = Gpo!GpoFindings(n)
  BY DEF Findings
<1>10. Findings("settings", b, m, n) = Setting!SettingFindings(n)
  BY DEF Findings
<1>11. Findings("application", b, m, n) = {}
  BY DEF Findings
<1>12. Findings("paths", b, m, n) = Report(5021, ControlPathToTier0(n))
  BY DEF Findings
<1>13. Findings("principal", b, m, n) = Principal!TenantFindings(n)
  BY DEF Findings
<1>14. Findings("access", b, m, n) = Access!AccessFindings(n)
  BY DEF Findings
<1>15. Findings("directory", b, m, n) = Change!ChangeFindings(b, m, n)
  BY DEF Findings
<1>16. Findings("tenant", b, m, n) = TenantChange!TenantChangeFindings(b, n)
  BY DEF Findings
<1> QED BY <1>1, <1>2, <1>3, <1>4, <1>5, <1>6, <1>7, <1>8, <1>9, <1>10, <1>11, <1>12, <1>13, <1>14, <1>15, <1>16

-----------------------------------------------------------------------------
(* What one plugin leaves to another.                                      *)

\* The plugins with a row among some findings.
Reporting(rows) == {f[1] : f \in rows}

LEMMA RowReported ==
  ASSUME NEW id, NEW rows, NEW all, {id} \X rows \subseteq all, rows # {}
  PROVE  id \in Reporting(all)
<1>1. PICK r \in rows : TRUE
  OBVIOUS
<1>2. <<id, r>> \in all /\ <<id, r>>[1] = id
  BY <1>1
<1> QED BY <1>2 DEF Reporting

LEMMA AccountHandsOver ==
  ASSUME NEW n, ObjectOf("account", n)
  PROVE  LeftByAccount(n) \subseteq Reporting(Account!AccountFindings(n))
<1>1. DOMAIN n = DOMAIN Account!AccountValues /\ \A fact \in DOMAIN n : n[fact] \in Account!AccountValues[fact]
  BY DEF ObjectOf, FactsOf
<1>2. /\ n.pwdAge \in {Null, 10, 200, 400, 1200, Account!Since1601}
  <2>1. "pwdAge" \in DOMAIN Account!AccountValues
    BY DEF Account!AccountValues
  <2>2. Account!AccountValues.pwdAge = {Null, 10, 200, 400, 1200, Account!Since1601}
    BY DEF Account!AccountValues
  <2> QED BY <1>1, <2>1, <2>2
<1>3. /\ {10009} \X Account!EntraSyncAccountExposure(n) \subseteq Account!AccountFindings(n)
      /\ {1016} \X Account!PrimaryGroupIdPrivileged(n) \subseteq Account!AccountFindings(n)
      /\ {1006} \X Account!KrbtgtPasswordAge(n) \subseteq Account!AccountFindings(n)
  BY DEF Account!AccountFindings, Account!Report
<1> DEFINE exposed == n.spn \/ n.disabled \/ n.pwdAge = Null \/ Older(n.pwdAge, 365)
           known == n.name = "MSOL_" \/ n.text = "Azure Active Directory Connect" \/ Account!DcSync(n)
<1>4. ASSUME Account!SyncAccount(n), known, exposed PROVE Account!EntraSyncAccountExposure(n) # {}
  BY <1>4 DEF Account!SyncAccount, Account!EntraSyncAccountExposure, Account!Row, Older, Above,
              Account!Older, Account!Above
<1>5. ASSUME n.primaryGroup \in Account!PrivilegedPrimaryGroups PROVE Account!PrimaryGroupIdPrivileged(n) # {}
  BY <1>5 DEF Account!PrimaryGroupIdPrivileged, Account!Row
<1>6. ASSUME Account!Krbtgt(n), Older(n.pwdAge, 365) PROVE Account!KrbtgtPasswordAge(n) # {}
  BY <1>2, <1>6 DEF Account!KrbtgtPasswordAge, Account!Row, Older, Above, Account!Older, Account!Above, Account!Since1601
<1> DEFINE reported == Reporting(Account!AccountFindings(n))
           sync == Account!Privileged(n) /\ Account!SyncAccount(n) /\ known /\ exposed
           primary == n.primaryGroup \in Account!PrivilegedPrimaryGroups
           krbtgt == Account!Enabled(n) /\ n.spn /\ Account!Krbtgt(n) /\ Older(n.pwdAge, 365)
<1>7. LeftByAccount(n) = Left(sync, 10009) \cup Left(primary, 1016) \cup Left(krbtgt, 1006)
  BY DEF LeftByAccount
<1>8. Left(sync, 10009) \subseteq reported
  <2>1. ASSUME sync PROVE 10009 \in reported
    <3>1. Account!EntraSyncAccountExposure(n) # {}
      BY <1>4, <2>1
    <3> QED BY <1>3, <3>1, RowReported
  <2> HIDE DEF sync, reported
  <2> QED BY <2>1 DEF Left, Row
<1>9. Left(primary, 1016) \subseteq reported
  <2>1. ASSUME primary PROVE 1016 \in reported
    <3>1. Account!PrimaryGroupIdPrivileged(n) # {}
      BY <1>5, <2>1
    <3> QED BY <1>3, <3>1, RowReported
  <2> HIDE DEF primary, reported
  <2> QED BY <2>1 DEF Left, Row
<1>10. Left(krbtgt, 1006) \subseteq reported
  <2>1. ASSUME krbtgt PROVE 1006 \in reported
    <3>1. Account!KrbtgtPasswordAge(n) # {}
      BY <1>6, <2>1
    <3> QED BY <1>3, <3>1, RowReported
  <2> HIDE DEF krbtgt, reported
  <2> QED BY <2>1 DEF Left, Row
<1> HIDE DEF reported, sync, primary, krbtgt
<1>11. LeftByAccount(n) \subseteq reported
  BY <1>7, <1>8, <1>9, <1>10
<1> QED BY <1>11 DEF reported

LEMMA ComputerHandsOver ==
  ASSUME NEW n, ObjectOf("computer", n)
  PROVE  LeftByComputer(n) \subseteq Reporting(Computer!ComputerFindings(n))
<1>1. DOMAIN n = DOMAIN Computer!ComputerValues /\ \A fact \in DOMAIN n : n[fact] \in Computer!ComputerValues[fact]
  BY DEF ObjectOf, FactsOf
<1>2. n.pwdAge \in {Null, 10, 60, 200, 1200}
  <2>1. "pwdAge" \in DOMAIN Computer!ComputerValues
    BY DEF Computer!ComputerValues
  <2>2. Computer!ComputerValues.pwdAge = {Null, 10, 60, 200, 1200}
    BY DEF Computer!ComputerValues
  <2> QED BY <1>1, <2>1, <2>2
<1> DEFINE toDc == ~Computer!Dc(n) /\ "t2a4d" \in n.uac /\ n.targets \cap {"dc", "krbtgt spn"} # {}
           primary == Computer!PrivilegedPrimaryGroup(n)
           sso == n.special = "seamless sso" /\ Older(n.pwdAge, 90)
           reported == Reporting(Computer!ComputerFindings(n))
<1>3. /\ {2002} \X Computer!ProtocolTransitionDelegationComputer(n) \subseteq Computer!ComputerFindings(n)
      /\ {2015} \X Computer!ComputerPrimaryGroupId(n) \subseteq Computer!ComputerFindings(n)
      /\ {10008} \X Computer!SeamlessSsoKeyAge(n) \subseteq Computer!ComputerFindings(n)
  BY DEF Computer!ComputerFindings, Computer!Report
<1>4. ASSUME toDc PROVE 2002 \in reported
  <2>1. Computer!ProtocolTransitionDelegationComputer(n) # {}
    BY <1>4 DEF Computer!ProtocolTransitionDelegationComputer, Computer!Row, Computer!Dc
  <2> QED BY <1>3, <2>1, RowReported
<1>5. ASSUME primary PROVE 2015 \in reported
  <2>1. Computer!ComputerPrimaryGroupId(n) # {}
    BY <1>5 DEF Computer!ComputerPrimaryGroupId, Computer!Row
  <2> QED BY <1>3, <2>1, RowReported
<1>6. ASSUME sso PROVE 10008 \in reported
  <2>1. Computer!Older(n.pwdAge, 30)
    <3>1. Older(n.pwdAge, 90)
      BY <1>6
    <3> QED BY <1>2, <3>1 DEF Older, Above, Computer!Older, Computer!Above
  <2>2. Computer!SeamlessSsoKeyAge(n) # {}
    BY <1>6, <2>1 DEF Computer!SeamlessSsoKeyAge, Computer!Row
  <2> QED BY <1>3, <2>2, RowReported
<1>7. LeftByComputer(n) = Left(toDc, 2002) \cup Left(primary, 2015) \cup Left(sso, 10008)
  BY DEF LeftByComputer
<1> HIDE DEF toDc, primary, sso, reported
<1>8. LeftByComputer(n) \subseteq reported
  BY <1>4, <1>5, <1>6, <1>7 DEF Left, Row
<1> QED BY <1>8 DEF reported

LEMMA GroupHandsOver ==
  ASSUME NEW n
  PROVE  Left(n.kind = "distribution" /\ n.adminCount = 1, 3009) \subseteq Reporting(Group!GroupFindings(n))
<1>1. {3009} \X Group!DistributionGroupAdminCount(n) \subseteq Group!GroupFindings(n)
  BY DEF Group!GroupFindings, Group!Report
<1>2. ASSUME n.kind = "distribution" /\ n.adminCount = 1 PROVE Group!DistributionGroupAdminCount(n) # {}
  BY <1>2 DEF Group!DistributionGroupAdminCount, Group!Row, Group!Protected
<1> QED BY <1>1, <1>2, RowReported DEF Left, Row

LEMMA AclHandsOver ==
  ASSUME NEW n
  PROVE  LeftByAcl(n) \subseteq Reporting(Acl!AclFindings(n))
<1> DEFINE expected == {"system"} \cup Acl!AdminGroups \cup Acl!PrivilegedPrincipals
           reanimation == /\ n.on = "root" /\ Acl!Direct(n) /\ "reanimate" \in n.rights /\ Acl!Visible(n)
                          /\ n.trustee \notin expected
           reported == Reporting(Acl!AclFindings(n))
<1>1. {5008} \X Acl!ReanimateTombstonesDomainRoot(n) \subseteq Acl!AclFindings(n)
  BY DEF Acl!AclFindings, Acl!Report
<1>2. ASSUME reanimation PROVE 5008 \in reported
  <2>1. Acl!AdminGroups \cup {"518", "system"} \subseteq expected
    BY DEF Acl!PrivilegedPrincipals
  <2>2. Acl!ReanimateTombstonesDomainRoot(n) # {}
    BY <1>2, <2>1 DEF Acl!ReanimateTombstonesDomainRoot, Acl!Row, Acl!Has
  <2> QED BY <1>1, <2>2, RowReported
<1>3. LeftByAcl(n) = Left(reanimation, 5008)
  BY DEF LeftByAcl
<1> HIDE DEF reanimation, reported
<1>4. LeftByAcl(n) \subseteq reported
  BY <1>2, <1>3 DEF Left, Row
<1> QED BY <1>4 DEF reported

LEMMA CertificateHandsOver ==
  ASSUME NEW n
  PROVE  LeftByCert(n) \subseteq Reporting(Cert!CertFindings(n))
<1> DEFINE template == n.enabled /\ n.suppliesSubject /\ Cert!ClientAuth(n) /\ Cert!Unchecked(n)
           unparsable == n.store = "unparsable"
           reported == Reporting(Cert!CertFindings(n))
<1>1. /\ {6001} \X Cert!CertTemplateEsc1Pattern(n) \subseteq Cert!CertFindings(n)
      /\ {6005} \X Cert!NtAuthUnknownCa(n) \subseteq Cert!CertFindings(n)
  BY DEF Cert!CertFindings, Cert!Report
<1>2. ASSUME template PROVE 6001 \in reported
  <2>1. Cert!CertTemplateEsc1Pattern(n) # {}
    BY <1>2 DEF Cert!CertTemplateEsc1Pattern, Cert!Row
  <2> QED BY <1>1, <2>1, RowReported
<1>3. ASSUME unparsable PROVE 6005 \in reported
  <2>1. Cert!NtAuthUnknownCa(n) # {}
    BY <1>3 DEF Cert!NtAuthUnknownCa, Cert!Row
  <2> QED BY <1>1, <2>1, RowReported
<1>4. LeftByCert(n) = Left(template, 6001) \cup Left(unparsable, 6005)
  BY DEF LeftByCert
<1> HIDE DEF template, unparsable, reported
<1>5. LeftByCert(n) \subseteq reported
  BY <1>2, <1>3, <1>4 DEF Left, Row
<1> QED BY <1>5 DEF reported

LEMMA SettingsHandOver ==
  ASSUME NEW n
  PROVE  Left(Setting!Dc(n) /\ "broad" \in n.rights, 9015) \subseteq Reporting(Setting!SettingFindings(n))
<1>1. {9015} \X Setting!DcDangerousUserRights(n) \subseteq Setting!SettingFindings(n)
  BY DEF Setting!SettingFindings, Setting!Report
<1>2. ASSUME Setting!Dc(n) /\ "broad" \in n.rights PROVE Setting!DcDangerousUserRights(n) # {}
  <2>1. "broad" \in (n.rights \cup n.logonRights) \ {"tier 0", "default"}
    BY <1>2
  <2> QED BY <1>2, <2>1 DEF Setting!DcDangerousUserRights, Setting!Row
<1> QED BY <1>1, <1>2, RowReported DEF Left, Row

LEMMA GpoHandsOver ==
  ASSUME NEW n, ObjectOf("gpo", n)
  PROVE  Left(n.readStatus \notin {Null, "ok"}, 9021) \subseteq Reporting(Gpo!GpoFindings(n))
<1>1. DOMAIN n = DOMAIN Gpo!GpoValues /\ \A fact \in DOMAIN n : n[fact] \in Gpo!GpoValues[fact]
  BY DEF ObjectOf, FactsOf
<1>2. n.readStatus \in {Null, "ok", "not_found", "access_denied", "error"}
  <2>1. "readStatus" \in DOMAIN Gpo!GpoValues
    BY DEF Gpo!GpoValues
  <2>2. Gpo!GpoValues.readStatus = {Null, "ok", "not_found", "access_denied", "error"}
    BY DEF Gpo!GpoValues
  <2> QED BY <1>1, <2>1, <2>2
<1>3. n.readStatus # Null => n.sysvolRead
  <2>1. Gpo!GpoPossible(n)
    BY DEF ObjectOf, Possible
  <2> QED BY <2>1 DEF Gpo!GpoPossible
<1>4. {9021} \X Gpo!GpoSysvolUnreadableOrMissing(n) \subseteq Gpo!GpoFindings(n)
  BY DEF Gpo!GpoFindings, Gpo!Report
<1>5. ASSUME n.readStatus \notin {Null, "ok"} PROVE Gpo!GpoSysvolUnreadableOrMissing(n) # {}
  BY <1>2, <1>3, <1>5 DEF Gpo!GpoSysvolUnreadableOrMissing, Gpo!Row
<1> QED BY <1>4, <1>5, RowReported DEF Left, Row

LEMMA PrincipalHandsOver ==
  ASSUME NEW n, ObjectOf("principal", n)
  PROVE  LeftByPrincipal(n) \subseteq Reporting(Principal!TenantFindings(n))
<1>1. DOMAIN n = DOMAIN Principal!TenantPrincipalValues /\
      \A fact \in DOMAIN n : n[fact] \in Principal!TenantPrincipalValues[fact]
  BY DEF ObjectOf, FactsOf
<1>2. n.activity \in {Null, 10, 60, 100} /\ n.age \in {10, 60, 100}
  <2>1. "activity" \in DOMAIN Principal!TenantPrincipalValues /\ "age" \in DOMAIN Principal!TenantPrincipalValues
    BY DEF Principal!TenantPrincipalValues
  <2>2. /\ Principal!TenantPrincipalValues.activity = {Null, 10, 60, 100}
        /\ Principal!TenantPrincipalValues.age = {10, 60, 100}
    BY DEF Principal!TenantPrincipalValues
  <2> QED BY <1>1, <2>1, <2>2
<1> DEFINE dormant == /\ Principal!TierZeroUser(n) /\ n.userType = "Member" /\ n.enabled = TRUE
                      /\ ~Principal!BreakGlass(n) /\ Principal!Dormant(n, 90)
           service == /\ n.type = "servicePrincipal"
                      /\ \E r \in Principal!PathsIn(n, Principal!TierZeroRoles) : r.permanent /\ ~r.eligible
           reported == Reporting(Principal!TenantFindings(n))
<1>3. /\ {10043} \X Principal!DormantPrivilegedUser(n) \subseteq Principal!TenantFindings(n)
      /\ {10019} \X Principal!ServicePrincipalHoldsRole(n) \subseteq Principal!TenantFindings(n)
  BY DEF Principal!TenantFindings, Principal!Report
<1>4. ASSUME dormant PROVE 10043 \in reported
  <2>1. Principal!Dormant(n, 45)
    BY <1>2, <1>4 DEF Principal!Dormant, Principal!Older, Principal!Above
  <2>2. Principal!DormantPrivilegedUser(n) # {}
    BY <1>4, <2>1 DEF Principal!DormantPrivilegedUser, Principal!Row
  <2> QED BY <1>3, <2>2, RowReported
<1>5. ASSUME service PROVE 10019 \in reported
  <2>1. Principal!ServicePrincipalHoldsRole(n) # {}
    BY <1>5 DEF Principal!ServicePrincipalHoldsRole, Principal!Row
  <2> QED BY <1>3, <2>1, RowReported
<1>6. LeftByPrincipal(n) = Left(dormant, 10043) \cup Left(service, 10019)
  BY DEF LeftByPrincipal
<1> HIDE DEF dormant, service, reported
<1>7. LeftByPrincipal(n) \subseteq reported
  BY <1>4, <1>5, <1>6 DEF Left, Row
<1> QED BY <1>7 DEF reported

\* The policy in question is one of the tenant's.
LEMMA PolicyInQuestion ==
  ASSUME NEW a
  PROVE  \E p \in Access!Policies(a) : \A fact \in DOMAIN Access!PolicyValues : p[fact] = a[fact]
<1> DEFINE policy == [f \in DOMAIN Access!PolicyValues |-> a[f]]
<1>1. policy \in Access!Policies(a)
  BY DEF Access!Policies
<1>2. \A fact \in DOMAIN Access!PolicyValues : policy[fact] = a[fact]
  OBVIOUS
<1> QED BY <1>1, <1>2

LEMMA AccessHandsOver ==
  ASSUME NEW n
  PROVE  Left(n.microsoftManaged /\ n.state # "enabled", 10029) \subseteq Reporting(Access!AccessFindings(n))
<1>1. {10029} \X Access!ManagedPolicyOff(n) \subseteq Access!AccessFindings(n)
  BY DEF Access!AccessFindings, Access!Report
<1>2. ASSUME n.microsoftManaged /\ n.state # "enabled" PROVE Access!ManagedPolicyOff(n) # {}
  <2>1. "microsoftManaged" \in DOMAIN Access!PolicyValues /\ "state" \in DOMAIN Access!PolicyValues
    BY DEF Access!PolicyValues
  <2>2. PICK p \in Access!Policies(n) : p.microsoftManaged = n.microsoftManaged /\ p.state = n.state
    BY <2>1, PolicyInQuestion
  <2>3. p \in {q \in Access!Policies(n) : q.microsoftManaged /\ q.state # "enabled"}
    BY <1>2, <2>2
  <2> QED BY <2>3 DEF Access!ManagedPolicyOff
<1> QED BY <1>1, <1>2, RowReported DEF Left, Row

\* The case left to another plugin, when an object of the family is one.
LeftBy(f, n) ==
    CASE f = "account" -> LeftByAccount(n)
      [] f = "computer" -> LeftByComputer(n)
      [] f = "group" -> Left(n.kind = "distribution" /\ n.adminCount = 1, 3009)
      [] f = "acl" -> LeftByAcl(n)
      [] f = "certificate" -> LeftByCert(n)
      [] f = "settings" -> Left(Setting!Dc(n) /\ "broad" \in n.rights, 9015)
      [] f = "gpo" -> Left(n.readStatus \notin {Null, "ok"}, 9021)
      [] f = "principal" -> LeftByPrincipal(n)
      [] f = "access" -> Left(n.microsoftManaged /\ n.state # "enabled", 10029)
      [] OTHER -> {}

LEMMA LeftByFamily ==
  ASSUME NEW n, NEW f, ObjectOf(f, n), f \in Families
  PROVE  LeftBy(f, n) \subseteq Reporting(Findings(f, Null, Null, n))
<1>1. CASE f = "account"
  <2>1. LeftBy("account", n) = LeftByAccount(n)
    BY DEF LeftBy
  <2> QED BY <1>1, <2>1, AccountHandsOver, FindingsByFamily
<1>2. CASE f = "computer"
  <2>1. LeftBy("computer", n) = LeftByComputer(n)
    BY DEF LeftBy
  <2> QED BY <1>2, <2>1, ComputerHandsOver, FindingsByFamily
<1>3. CASE f = "group"
  <2>1. LeftBy("group", n) = Left(n.kind = "distribution" /\ n.adminCount = 1, 3009)
    BY DEF LeftBy
  <2> QED BY <1>3, <2>1, GroupHandsOver, FindingsByFamily
<1>4. CASE f = "acl"
  <2>1. LeftBy("acl", n) = LeftByAcl(n)
    BY DEF LeftBy
  <2> QED BY <1>4, <2>1, AclHandsOver, FindingsByFamily
<1>5. CASE f = "certificate"
  <2>1. LeftBy("certificate", n) = LeftByCert(n)
    BY DEF LeftBy
  <2> QED BY <1>5, <2>1, CertificateHandsOver, FindingsByFamily
<1>6. CASE f = "settings"
  <2>1. LeftBy("settings", n) = Left(Setting!Dc(n) /\ "broad" \in n.rights, 9015)
    BY DEF LeftBy
  <2> QED BY <1>6, <2>1, SettingsHandOver, FindingsByFamily
<1>7. CASE f = "gpo"
  <2>1. LeftBy("gpo", n) = Left(n.readStatus \notin {Null, "ok"}, 9021)
    BY DEF LeftBy
  <2> QED BY <1>7, <2>1, GpoHandsOver, FindingsByFamily
<1>8. CASE f = "principal"
  <2>1. LeftBy("principal", n) = LeftByPrincipal(n)
    BY DEF LeftBy
  <2> QED BY <1>8, <2>1, PrincipalHandsOver, FindingsByFamily
<1>9. CASE f = "access"
  <2>1. LeftBy("access", n) = Left(n.microsoftManaged /\ n.state # "enabled", 10029)
    BY DEF LeftBy
  <2> QED BY <1>9, <2>1, AccessHandsOver, FindingsByFamily
<1>10. CASE f \notin {"account", "computer", "group", "acl", "certificate", "settings", "gpo", "principal", "access"}
  <2>1. LeftBy(f, n) = {}
    BY <1>10 DEF LeftBy
  <2> QED BY <2>1
<1> QED BY <1>1, <1>2, <1>3, <1>4, <1>5, <1>6, <1>7, <1>8, <1>9, <1>10, Zenon

LEMMA HandedOverThen == ObjectsInv => HandedOver
<1> SUFFICES ASSUME ObjectsInv PROVE HandedOver
  OBVIOUS
<1>1. HandedOver = (LeftBy(family, now) \subseteq ReportedBy)
  BY DEF HandedOver, LeftBy
<1>2. CASE family \in ChangeFamilies
  <2>1. LeftBy(family, now) = {}
    BY <1>2 DEF LeftBy, ChangeFamilies
  <2> QED BY <1>1, <2>1
<1>3. CASE family \notin ChangeFamilies
  <2>1. findings = Findings(family, Null, Null, now)
    BY <1>3 DEF ObjectsInv, Assessed
  <2>2. LeftBy(family, now) \subseteq Reporting(findings)
    BY <2>1, LeftByFamily DEF ObjectsInv
  <2> QED BY <1>1, <2>2 DEF ReportedBy, Reporting
<1> QED BY <1>2, <1>3

\* A plugin that passes over a case because another one has it is right: the
\* other one reports it, of every object there can be and not only of those
\* near the ones that the run starts from.
THEOREM WhatIsHandedOver == Spec => []HandedOver
<1> QED BY ObjectsStay, HandedOverThen, PTL

-----------------------------------------------------------------------------
(* Control of directory objects.                                           *)

\* The trustees that no plugin expects to control anything.
Ordinary == Acl!Broad \cup {"network", "513", "514", "515", "554", "plain"}

\* They are on none of the lists of expected trustees, and each has its row.
LEMMA OrdinaryUnexpected ==
  ASSUME NEW a, a.trustee \in Ordinary
  PROVE  /\ Acl!Visible(a)
         /\ a.trustee \notin Acl!AdminGroups \cup {"system"}
         /\ a.trustee \notin Acl!Builtins \cup {"512", "516", "519"} \cup Acl!Tier0Sids
         /\ a.trustee \notin Acl!Builtins \cup {"512", "516", "519"} \cup Acl!Tier0SidsApartFromOus
         /\ a.trustee \notin Acl!Builtins \cup {"self", "516", "DnsAdmins"} \cup Acl!PrivilegedPrincipals
<1>1. a.trustee \in {"everyone", "authenticated", "users", "network", "513", "514", "515", "554", "plain"}
  BY DEF Ordinary, Acl!Broad
<1>2. Acl!Visible(a)
  BY <1>1 DEF Acl!Visible, Acl!Broad
<1>3. a.trustee \notin Acl!AdminGroups \cup {"system"}
  BY <1>1 DEF Acl!AdminGroups
<1>4. /\ a.trustee \notin Acl!PrivilegedPrincipals /\ a.trustee \notin Acl!ProtectedGroups
      /\ a.trustee \notin Acl!Builtins /\ a.trustee \notin {"512", "516", "519"}
      /\ a.trustee \notin {"self", "516", "DnsAdmins"}
  BY <1>1 DEF Acl!PrivilegedPrincipals, Acl!ProtectedGroups, Acl!Builtins
<1>5. a.trustee \notin Acl!Tier0Sids /\ a.trustee \notin Acl!Tier0SidsApartFromOus
  BY <1>4 DEF Acl!Tier0Sids, Acl!Tier0SidsApartFromOus
<1> QED BY <1>2, <1>3, <1>4, <1>5

LEMMA ControlHasItsRow ==
  ASSUME NEW a, a.trustee \in Ordinary, ~a.inherited,
         \/ a.on \in {"root", "sdholder", "gpo", "zone"} /\ Controls(a.rights) /\ ~a.inheritOnly
         \/ a.on = "root" /\ Controls(a.rights) /\ a.inheritOnly
         \/ a.on = "ou" /\ Rewrites(a.rights) /\ a.for \in {Null, "ou"}
         \/ a.on \in {"root", "sdholder", "gpo"} /\ a.owner
  PROVE  Reporting(Acl!AclFindings(a)) # {}
<1> DEFINE reported == Reporting(Acl!AclFindings(a))
<1>1. /\ {5002} \X Acl!AdminSdHolderDangerousRights(a) \subseteq Acl!AclFindings(a)
      /\ {5003} \X Acl!DomainRootDangerousRights(a) \subseteq Acl!AclFindings(a)
      /\ {5006} \X Acl!DomainRootAdminSdHolderOwner(a) \subseteq Acl!AclFindings(a)
      /\ {5010} \X Acl!DomainRootDescendantDelegation(a) \subseteq Acl!AclFindings(a)
      /\ {5012} \X Acl!GpoModifiableByNonTier0(a) \subseteq Acl!AclFindings(a)
      /\ {5017} \X Acl!BadSuccessorDmsaCreation(a) \subseteq Acl!AclFindings(a)
      /\ {5019} \X Acl!DnsZoneWriteDelegation(a) \subseteq Acl!AclFindings(a)
  BY DEF Acl!AclFindings, Acl!Report
<1>2. Controls(a.rights) => Acl!Has(a, {"all", "write", "rewrite"})
  BY DEF Controls, Rewrites, Acl!Has
<1>3. CASE a.on = "root" /\ Controls(a.rights) /\ ~a.inheritOnly
  <2>1. Acl!Has(a, {"all", "write", "rewrite", "gplink"})
    BY <1>2, <1>3 DEF Acl!Has
  <2>2. Acl!DomainRootDangerousRights(a) # {}
    BY <1>3, <2>1, OrdinaryUnexpected DEF Acl!DomainRootDangerousRights, Acl!Row, Acl!Direct
  <2>3. 5003 \in reported
    BY <1>1, <2>2, RowReported
  <2> QED BY <2>3
<1>4. CASE a.on = "root" /\ Controls(a.rights) /\ a.inheritOnly
  <2>1. Acl!DomainRootDescendantDelegation(a) # {}
    BY <1>2, <1>4, OrdinaryUnexpected DEF Acl!DomainRootDescendantDelegation, Acl!Row
  <2>2. 5010 \in reported
    BY <1>1, <2>1, RowReported
  <2> QED BY <2>2
<1>5. CASE a.on = "sdholder" /\ Controls(a.rights) /\ ~a.inheritOnly
  <2>1. Acl!AdminSdHolderDangerousRights(a) # {}
    BY <1>2, <1>5, OrdinaryUnexpected DEF Acl!AdminSdHolderDangerousRights, Acl!Row, Acl!Direct
  <2>2. 5002 \in reported
    BY <1>1, <2>1, RowReported
  <2> QED BY <2>2
<1>6. CASE a.on = "gpo" /\ (a.owner \/ (Controls(a.rights) /\ ~a.inheritOnly))
  <2>1. a.owner \/ (Acl!Direct(a) /\ Acl!Has(a, {"all", "write", "rewrite", "path"}))
    BY <1>2, <1>6 DEF Acl!Direct, Acl!Has
  <2>2. Acl!GpoModifiableByNonTier0(a) # {}
    BY <1>6, <2>1, OrdinaryUnexpected DEF Acl!GpoModifiableByNonTier0, Acl!Row
  <2>3. 5012 \in reported
    BY <1>1, <2>2, RowReported
  <2> QED BY <2>3
<1>7. CASE a.on = "zone" /\ Controls(a.rights) /\ ~a.inheritOnly
  <2>1. Acl!Has(a, {"all", "write", "rewrite", "delete", "attribute"} \cup (DOMAIN Acl!Targets \ {"reset"}))
    BY <1>2, <1>7 DEF Acl!Has
  <2>2. Acl!DnsZoneWriteDelegation(a) # {}
    BY <1>7, <2>1, OrdinaryUnexpected DEF Acl!DnsZoneWriteDelegation, Acl!Row, Acl!Direct
  <2>3. 5019 \in reported
    BY <1>1, <2>2, RowReported
  <2> QED BY <2>3
<1>8. CASE a.on = "ou" /\ Rewrites(a.rights) /\ a.for \in {Null, "ou"}
  <2>1. Acl!OnContainer(a)
    BY <1>8 DEF Acl!OnContainer
  <2>2. Acl!Has(a, {"all", "create", "createDmsa", "rewrite"})
    BY <1>8 DEF Acl!Has, Rewrites
  <2>3. Acl!BadSuccessorDmsaCreation(a) # {}
    BY <1>8, <2>1, <2>2, OrdinaryUnexpected DEF Acl!BadSuccessorDmsaCreation, Acl!Row
  <2>4. 5017 \in reported
    BY <1>1, <2>3, RowReported
  <2> QED BY <2>4
<1>9. CASE a.on \in {"root", "sdholder"} /\ a.owner
  <2>1. Acl!DomainRootAdminSdHolderOwner(a) # {}
    BY <1>9, OrdinaryUnexpected DEF Acl!DomainRootAdminSdHolderOwner, Acl!Row
  <2>2. 5006 \in reported
    BY <1>1, <2>1, RowReported
  <2> QED BY <2>2
<1> QED BY <1>3, <1>4, <1>5, <1>6, <1>7, <1>8, <1>9

LEMMA ControlThenReported == ObjectsInv => ControlReported
<1> SUFFICES ASSUME ObjectsInv, family = "acl", now.trustee \in Ordinary, ~now.inherited,
                    \/ now.on \in {"root", "sdholder", "gpo", "zone"} /\ Controls(now.rights) /\ ~now.inheritOnly
                    \/ now.on = "root" /\ Controls(now.rights) /\ now.inheritOnly
                    \/ now.on = "ou" /\ Rewrites(now.rights) /\ now.for \in {Null, "ou"}
                    \/ now.on \in {"root", "sdholder", "gpo"} /\ now.owner
             PROVE  ReportedBy # {}
  BY DEF ControlReported, Ordinary
<1>1. findings = Findings("acl", Null, Null, now)
  BY DEF ObjectsInv, Assessed, ChangeFamilies
<1>2. findings = Acl!AclFindings(now)
  BY <1>1, FindingsByFamily
<1>3. Reporting(findings) # {}
  BY <1>2, ControlHasItsRow
<1> QED BY <1>3 DEF Reporting, ReportedBy

\* No trustee that is expected nowhere controls the domain root, AdminSDHolder,
\* a group policy or a DNS zone, or may create objects in an organizational
\* unit, without a plugin that says so: with any of the rights of the model,
\* for any of the values of inheritedObjectType, whatever else is the case.
THEOREM ControlIsReported == Spec => []ControlReported
<1> QED BY ObjectsStay, ControlThenReported, PTL

-----------------------------------------------------------------------------
(* Conditional Access.                                                     *)

\* A policy for all users without conditions applies to every sign-in to an
\* application that it reaches, but to one of an account it excludes.
LEMMA UnconditionalApplies ==
  ASSUME NEW p, NEW a, NEW app, NEW s,
         Access!AllUsers(p), Access!Unconditional(p), Access!Reaches(p, app), ~Applies(p, a, app, s)
  PROVE  \/ p.excludes \cap {"this user", "its group"} # {}
         \/ a.userType = "Guest" /\ {"guests", "external users"} \cap p.excludes # {}
         \/ a.roleActive /\ a.role \in p.excludes
<1>1. /\ p.clients = "all" /\ p.exempt = "nowhere" /\ p.platforms = "all" /\ p.userRisk = "any"
      /\ p.signInRisk = "any" /\ ~p.otherRisk /\ p.flows = {} /\ p.deviceFilter = "none"
  BY DEF Access!Unconditional, Access!UnconditionalButDevice
<1>2. \/ ~(/\ p.excludes \cap {"this user", "its group"} = {}
           /\ a.userType = "Guest" => p.excludes \cap {"guests", "external users"} = {})
      \/ ~(a.roleActive => a.role \notin p.excludes)
  BY <1>1 DEF Applies
<1> QED BY <1>2

LEMMA OpenPortalHasItsRow ==
  ASSUME NEW a, NEW app \in Access!Portals, PasswordSuffices(a, app),
         a.securityDefaults # TRUE, a.accountEnabled, ~Access!BreakGlass(a), Access!Enabled(a) = Access!Known(a),
         \A p \in Access!Policies(a) : p.exceptApps = {} /\ (p.excludes # {} => Access!AllApps(p)),
         Access!PortalsNotCovered(a) = {}
  PROVE  Access!UserExcluded(a) # {}
<1> DEFINE Unread == \E p \in Access!Enabled(a) \ Access!Known(a) : Access!RequiresMfa(p) \/ Access!Blocks(p)
           Covered(x) == \E p \in Access!Known(a) :
                            Access!AllUsers(p) /\ Access!Protects(p) /\ Access!Unconditional(p) /\ Access!Reaches(p, x)
<1>1. ~Unread
  OBVIOUS
<1>2. Access!PortalsNotCovered(a)
        = Access!Row(a.securityDefaults # TRUE /\ ~Unread /\ ~\A x \in Access!Portals : Covered(x), Access!High)
  BY DEF Access!PortalsNotCovered
<1>3. Covered(app)
  <2>1. CASE \A x \in Access!Portals : Covered(x)
    BY <2>1
  <2>2. CASE ~\A x \in Access!Portals : Covered(x)
    <3> HIDE DEF Unread, Covered
    <3> QED BY <1>1, <1>2, <2>2 DEF Access!Row
  <2> QED BY <2>1, <2>2
<1>4. PICK s \in SignIns : \A p \in Access!Enabled(a) : Applies(p, a, app, s) => ~Access!Protects(p)
  BY DEF PasswordSuffices
<1>5. PICK c \in Access!Known(a) :
        Access!AllUsers(c) /\ Access!Protects(c) /\ Access!Unconditional(c) /\ Access!Reaches(c, app)
  BY <1>3
<1>6. Access!Known(a) \subseteq Access!Policies(a) /\ Access!Known(a) \subseteq Access!Enabled(a)
  BY DEF Access!Known, Access!Enabled
\* The policy that covers the portal leaves the account out, so it is one of
\* those that 10026 looks at.
<1>7. c \in Access!ForEveryone(a)
  <2>1. ~Applies(c, a, app, s)
    BY <1>4, <1>5, <1>6
  <2>2. c.excludes # {}
    BY <1>5, <2>1, UnconditionalApplies
  <2>3. Access!AllApps(c)
    BY <1>5, <1>6, <2>2
  <2> QED BY <1>5, <2>3 DEF Access!ForEveryone
<1>8. ASSUME NEW p \in Access!ForEveryone(a)
      PROVE  Access!LeavesOut(p, a) \/ (~a.groupsOk /\ Access!ExcludesGroups(p))
  <2>1. /\ p \in Access!Known(a) /\ Access!AllUsers(p) /\ Access!AllApps(p) /\ Access!Protects(p)
        /\ Access!Unconditional(p)
    BY DEF Access!ForEveryone
  <2>2. Access!Reaches(p, app)
    BY <1>6, <2>1 DEF Access!Reaches
  <2>3. ~Applies(p, a, app, s)
    BY <1>4, <1>6, <2>1
  <2>4. \/ p.excludes \cap {"this user", "its group"} # {}
        \/ a.userType = "Guest" /\ {"guests", "external users"} \cap p.excludes # {}
        \/ a.roleActive /\ a.role \in p.excludes
    BY <2>1, <2>2, <2>3, UnconditionalApplies
  <2> QED BY <2>4 DEF Access!LeavesOut, Access!ExcludesGroups
<1> DEFINE Left1 == /\ ~Unread /\ a.accountEnabled /\ ~Access!BreakGlass(a)
                    /\ Access!ForEveryone(a) # {} /\ \A p \in Access!ForEveryone(a) : Access!LeavesOut(p, a)
           Left2 == ~Unread /\ ~a.groupsOk /\ \E p \in Access!ForEveryone(a) : Access!ExcludesGroups(p)
<1>9. Left1 \/ Left2
  BY <1>1, <1>7, <1>8
<1>10. Access!UserExcluded(a)
         = Access!Row(Left1, IF a.role # "none" THEN Access!High ELSE Access!Medium) \cup Access!Row(Left2, Access!Low)
  BY DEF Access!UserExcluded
<1> HIDE DEF Left1, Left2
<1> QED BY <1>9, <1>10 DEF Access!Row

LEMMA OpenPortalThenReported == ObjectsInv => OpenPortalReported
<1> SUFFICES ASSUME ObjectsInv, family = "access", now.securityDefaults # TRUE, now.accountEnabled,
                    ~Access!BreakGlass(now), Access!Enabled(now) = Access!Known(now),
                    \A p \in Access!Policies(now) : p.exceptApps = {} /\ (p.excludes # {} => Access!AllApps(p)),
                    NEW app \in Access!Portals, PasswordSuffices(now, app)
             PROVE  ReportedBy \cap {10004, 10024, 10026} # {}
  BY DEF OpenPortalReported
<1>1. findings = Findings("access", Null, Null, now)
  BY DEF ObjectsInv, Assessed, ChangeFamilies
<1>2. findings = Access!AccessFindings(now)
  BY <1>1, FindingsByFamily
<1>3. /\ {10024} \X Access!PortalsNotCovered(now) \subseteq findings
      /\ {10026} \X Access!UserExcluded(now) \subseteq findings
  BY <1>2 DEF Access!AccessFindings, Access!Report
<1>4. Access!PortalsNotCovered(now) # {} \/ Access!UserExcluded(now) # {}
  BY OpenPortalHasItsRow
<1>5. 10024 \in Reporting(findings) \/ 10026 \in Reporting(findings)
  BY <1>3, <1>4, RowReported
<1> QED BY <1>5 DEF Reporting, ReportedBy

\* When a password opens an admin portal for some account, one of the plugins
\* says so, whatever the tenant's policies, under the conditions stated with
\* the property.  It is always 10024 or 10026; 10004 is not needed.
THEOREM OpenPortalIsReported == Spec => []OpenPortalReported
<1> QED BY ObjectsStay, OpenPortalThenReported, PTL

-----------------------------------------------------------------------------
(* Change detection: no change.                                            *)

\* There was no run before, or everything is as it was.
NoChange(b, m, n) == (b = Null /\ m = Null) \/ (b = n /\ m = n)

LEMMA NoNewBits ==
  ASSUME NEW entries, NEW a \in entries
  PROVE  Change!NewBits(entries, a) = {}
<1>1. a \in {q \in entries : q.trustee = a.trustee /\ q.grant[1] = a.grant[1]}
  OBVIOUS
<1> QED BY <1>1 DEF Change!NewBits

LEMMA DirectoryQuiet ==
  ASSUME NEW b, NEW m, NEW n, NoChange(b, m, n)
  PROVE  \A f \in Change!ChangeFindings(b, m, n) : f[1] = 11008
<1>0. (b = Null /\ m = Null) \/ (b = n /\ m = n)
  BY DEF NoChange
<1>1. Change!NewMachineAccount(b, m, n) = {}
  BY <1>0 DEF Change!NewMachineAccount, Change!Row
<1>2. Change!AccountReenabled(b, n) = {}
  BY <1>0 DEF Change!AccountReenabled, Change!Row, Change!Existed
<1>3. Change!NewPrivilegedGroupMember(b, m, n) = {}
  BY <1>0 DEF Change!NewPrivilegedGroupMember, Change!Row
<1>4. Change!NewSpnOnUser(b, m, n) = {}
  BY <1>0 DEF Change!NewSpnOnUser, Change!Row
<1>5. Change!NewRbcdDelegation(b, m, n) = {}
  BY <1>0 DEF Change!NewRbcdDelegation, Change!Row
<1>6. Change!TemplateNewlyPublished(b, m, n) = {}
  BY <1>0 DEF Change!TemplateNewlyPublished, Change!Row
<1>7. Change!NewDcSyncGrant(b, n) = {}
  BY <1>0 DEF Change!NewDcSyncGrant, Change!Row
<1>8. Change!NewOrModifiedTrust(b, n) = {}
  BY <1>0 DEF Change!NewOrModifiedTrust, Change!Row
<1>9. Change!NewPermissionOnTier0Container(b, n) = {}
  <2>1. CASE b = Null
    BY <2>1 DEF Change!NewPermissionOnTier0Container, Change!Row
  <2>2. CASE b = n
    <3>1. \A a \in Change!EntriesOf(n) : Change!NewBits(Change!EntriesOf(b), a) = {}
      BY <2>2, NoNewBits
    <3> QED BY <3>1 DEF Change!NewPermissionOnTier0Container, Change!Row
  <2> QED BY <1>0, <2>1, <2>2
<1>10. Change!NewDomainController(b, n) = {}
  BY <1>0 DEF Change!NewDomainController, Change!Row
<1>11. Change!DomainSecuritySettingChanged(b, n) = {}
  BY <1>0 DEF Change!DomainSecuritySettingChanged, Change!Row
<1>12. Change!TierZeroGpoChangedOrLinked(b, n) = {}
  BY <1>0 DEF Change!TierZeroGpoChangedOrLinked, Change!Row
<1>13. Change!CertTemplateChanged(b, n) = {}
  <2>1. CASE b = Null
    BY <2>1 DEF Change!CertTemplateChanged, Change!Row
  <2>2. CASE b = n
    <3>1. \A a \in n.templateAce : Change!NewBits(b.templateAce, a) = {}
      BY <2>2, NoNewBits
    <3> QED BY <2>2, <3>1 DEF Change!CertTemplateChanged, Change!Row
  <2> QED BY <1>0, <2>1, <2>2
<1>14. Change!DangerousAccountFlagSet(b, n) = {}
  BY <1>0 DEF Change!DangerousAccountFlagSet, Change!Row, Change!Existed, Change!HasBit
<1>15. Change!SidHistoryOrKeyCredentialAdded(b, n) = {}
  BY <1>0 DEF Change!SidHistoryOrKeyCredentialAdded, Change!Row, Change!Existed, Change!NewKeys
<1>16. Change!PrivilegedAccountLostProtection(b, n) = {}
  BY <1>0 DEF Change!PrivilegedAccountLostProtection, Change!Row, Change!Existed
<1>17. Change!NonsecureUpdatesEnabled(b, n) = {}
  BY <1>0 DEF Change!NonsecureUpdatesEnabled, Change!Row
<1>18. Change!CertMappingAdded(b, n) = {}
  BY <1>0 DEF Change!CertMappingAdded, Change!Row, Change!Existed
<1>19. Change!DcGpoSettingsChanged(b, m, n) = {}
  BY <1>0 DEF Change!DcGpoSettingsChanged, Change!Row
<1> QED BY <1>1, <1>2, <1>3, <1>4, <1>5, <1>6, <1>7, <1>8, <1>9, <1>10, <1>11, <1>12, <1>13, <1>14, <1>15, <1>16, <1>17, <1>18, <1>19
     DEF Change!ChangeFindings, Change!Report

LEMMA TenantQuiet ==
  ASSUME NEW b, NEW n, b = Null \/ b = n
  PROVE  TenantChange!TenantChangeFindings(b, n) = {}
<1>1. TenantChange!NewPrivilegedRoleAssignment(b, n) = {}
  BY DEF TenantChange!NewPrivilegedRoleAssignment, TenantChange!Row
<1>2. TenantChange!FederationConfigurationChanged(b, n) = {}
  BY DEF TenantChange!FederationConfigurationChanged, TenantChange!Row, TenantChange!Added, TenantChange!Removed, TenantChange!Kept
<1>3. TenantChange!NewAppCredential(b, n) = {}
  BY DEF TenantChange!NewAppCredential, TenantChange!Row, TenantChange!NewKey
<1>4. TenantChange!NewAppPermissionGrant(b, n) = {}
  BY DEF TenantChange!NewAppPermissionGrant, TenantChange!Row, TenantChange!NewKey
<1>5. TenantChange!ConditionalAccessWeakened(b, n) = {}
  BY DEF TenantChange!ConditionalAccessWeakened, TenantChange!Row, TenantChange!Added, TenantChange!Removed, TenantChange!Kept
<1>6. TenantChange!TenantPolicyLoosened(b, n) = {}
  BY DEF TenantChange!TenantPolicyLoosened, TenantChange!Row, TenantChange!Removed, TenantChange!Kept
<1>7. TenantChange!NewOwner(b, n) = {}
  BY DEF TenantChange!NewOwner, TenantChange!Row, TenantChange!NewKey
<1>8. TenantChange!NewPartnerRelationship(b, n) = {}
  BY DEF TenantChange!NewPartnerRelationship, TenantChange!Row, TenantChange!NewKey, TenantChange!Added, TenantChange!Kept
<1>9. TenantChange!NewMemberOfSensitiveGroup(b, n) = {}
  BY DEF TenantChange!NewMemberOfSensitiveGroup, TenantChange!Row, TenantChange!NewKey
<1>10. TenantChange!NewFederatedIdentityCredential(b, n) = {}
  BY DEF TenantChange!NewFederatedIdentityCredential, TenantChange!Row, TenantChange!NewKey
<1>11. TenantChange!PimRoleSettingsWeakened(b, n) = {}
  BY DEF TenantChange!PimRoleSettingsWeakened, TenantChange!Row
<1> QED BY <1>1, <1>2, <1>3, <1>4, <1>5, <1>6, <1>7, <1>8, <1>9, <1>10, <1>11
     DEF TenantChange!TenantChangeFindings, TenantChange!Report

LEMMA QuietStep ==
  ASSUME ObjectsInv, Collect, before = Null \/ (before = now /\ found = now), NEW f \in findings'
  PROVE  f[1] = 11008
<1>1. family \in {"directory", "tenant"} /\ findings' = Findings(family, before, found, now)
  BY DEF Collect, ChangeFamilies
<1>2. NoChange(before, found, now)
  BY DEF ObjectsInv, NoChange
<1>3. CASE family = "directory"
  <2>1. findings' = Change!ChangeFindings(before, found, now)
    BY <1>1, <1>3, FindingsByFamily
  <2> QED BY <1>2, <2>1, DirectoryQuiet
<1>4. CASE family = "tenant"
  <2>1. findings' = TenantChange!TenantChangeFindings(before, now)
    BY <1>1, <1>4, FindingsByFamily
  <2> QED BY <2>1, TenantQuiet
<1> QED BY <1>1, <1>3, <1>4

\* Of a directory or a tenant that did not change, and of the first collection
\* of one, change detection reports nothing (but for 11008): no plugin takes a
\* fact it knows nothing of, before or after, for a change.
THEOREM Quiet == Spec => QuietWithoutChange
<1>1. ObjectsInv /\ [Next]_vars =>
        [Collect /\ (before = Null \/ (before = now /\ found = now)) => \A f \in findings' : f[1] = 11008]_vars
  BY QuietStep
<1> QED BY ObjectsStay, <1>1, PTL DEF Spec, QuietWithoutChange

-----------------------------------------------------------------------------
(* Change detection: a danger that was not there.  One lemma per kind of   *)
(* danger, of what the last succeeded run left (b) and what is now (n).    *)

LEMMA NewReplicationReported ==
  ASSUME NEW b, NEW n, b # Null, n.container = "root", NEW t \in {"admins", "plain"},
         MayReplicate(n, t), ~MayReplicate(b, t)
  PROVE  Change!NewDcSyncGrant(b, n) # {}
<1>1. \E right \in {"changes", "changesAll"} : Change!Held(n, t, right) /\ ~Change!Held(b, t, right)
  BY DEF MayReplicate
<1> DEFINE grown == { u \in {"admins", "plain"} : \E right \in {"changes", "changesAll"} :
                         Change!Held(n, u, right) /\ ~Change!Held(b, u, right) }
<1>2. grown # {}
  BY <1>1
<1>3. Change!NewDcSyncGrant(b, n)
        = Change!Row(b # Null /\ n.container = "root" /\ grown # {},
                     IF \E u \in grown : Change!Held(n, u, "changes") /\ Change!Held(n, u, "changesAll")
                     THEN Change!Critical ELSE Change!High)
  BY DEF Change!NewDcSyncGrant
<1> HIDE DEF grown
<1> QED BY <1>2, <1>3 DEF Change!Row

\* Of the bits of a new entry those are new that no entry of its trustee had.
LEMMA NewRewriteReported ==
  ASSUME NEW b, NEW n, b # Null, b.aclKnown, RewritesNow(n), ~MayRewrite(b)
  PROVE  Change!NewPermissionOnTier0Container(b, n) # {}
<1>1. PICK a \in Change!EntriesOf(n) : a.trustee = "plain" /\ "rewrite" \in a.grant[2]
  BY DEF RewritesNow
<1>2. \A p \in Change!EntriesOf(b) : p.trustee = "plain" => "rewrite" \notin p.grant[2]
  BY DEF MayRewrite
<1>3. "rewrite" \in Change!NewBits(Change!EntriesOf(b), a)
  BY <1>1, <1>2 DEF Change!NewBits
<1> DEFINE relevant == { e \in Change!EntriesOf(n) :
                           LET bits == Change!NewBits(Change!EntriesOf(b), e)
                           IN  \/ bits \ {"read"} # {}
                               \/ "read" \in bits /\ (n.container = "kds" \/ e.grant[1] # Null) }
<1>4. relevant # {}
  BY <1>1, <1>3
<1>5. \E sev : Change!NewPermissionOnTier0Container(b, n) = Change!Row(b # Null /\ b.aclKnown /\ relevant # {}, sev)
  BY DEF Change!NewPermissionOnTier0Container
<1> HIDE DEF relevant
<1> QED BY <1>4, <1>5 DEF Change!Row

LEMMA NewRequestableReported ==
  ASSUME NEW b, NEW n, b # Null, RequestableForAnyone(n), ~RequestableForAnyone(b), b.enrollers = "anyone",
         Null \notin {b.approval, b.supplies, b.signatures}
  PROVE  Change!TemplateNewlyPublished(b, b, n) # {} \/ Change!CertTemplateChanged(b, n) # {}
<1>1. CASE ~b.published
  <2>1. n.published
    BY DEF RequestableForAnyone
  <2> QED BY <1>1, <2>1 DEF Change!TemplateNewlyPublished, Change!Row
<1>2. CASE b.published
  <2>1. Change!Esc1(n) /\ ~Change!Esc1(b)
    BY <1>2 DEF RequestableForAnyone
  <2>2. \/ n.approval # b.approval \/ n.supplies # b.supplies
        \/ n.clientAuth # b.clientAuth \/ n.signatures # b.signatures
    BY <2>1 DEF Change!Esc1, Change!Esc1Flags
  <2> DEFINE changed == \/ b.approval # Null /\ n.approval # b.approval
                        \/ b.supplies # Null /\ n.supplies # b.supplies
                        \/ n.clientAuth # b.clientAuth
                        \/ (b.signatures # Null \/ b.signaturesRead) /\ n.signatures # b.signatures
             granted == {a \in n.templateAce : ~a.inheritOnly /\ Change!NewBits(b.templateAce, a) \ {"read"} # {}}
             opened == b.templateAclKnown /\ granted # {}
  <2>3. changed
    BY <2>2
  <2>4. \E sev : Change!CertTemplateChanged(b, n) = Change!Row(b # Null /\ (changed \/ opened), sev)
    BY DEF Change!CertTemplateChanged
  <2> HIDE DEF changed, opened
  <2> QED BY <2>3, <2>4 DEF Change!Row
<1> QED BY <1>1, <1>2

LEMMA NewMemberReported ==
  ASSUME NEW b, NEW n, b # Null, n.memberOf \ b.memberOf # {}
  PROVE  Change!NewPrivilegedGroupMember(b, b, n) # {}
<1> QED BY DEF Change!NewPrivilegedGroupMember, Change!Row

\* An account that is a domain controller is there; one that was deleted is
\* left out, see the property.
LEMMA NewControllerReported ==
  ASSUME NEW b, NEW n, b # Null, Change!ChangePossible(n), b.account \in {"never seen", "deleted", "present"},
         n.class = "computer", Change!DcBits(n), ~Change!DcBits(b),
         b.account # "deleted", b.account = "present" => b.uac # Null
  PROVE  Change!NewDomainController(b, n) # {}
<1>1. n.account = "present"
  BY DEF Change!ChangePossible, Change!DcBits, Change!HasBit
<1> QED BY <1>1 DEF Change!NewDomainController, Change!Existed, Change!Row

LEMMA NewSpnReported ==
  ASSUME NEW b, NEW n, b # Null, Change!ChangePossible(n), n.class # "computer",
         Change!Fold(n.spns) \ Change!Fold(b.spns) # {}
  PROVE  Change!NewSpnOnUser(b, b, n) # {}
<1> DEFINE fold(s) == IF s = "HTTP" THEN "http" ELSE s
<1>1. PICK s \in n.spns : fold(s) \notin Change!Fold(b.spns)
  BY DEF Change!Fold
<1>2. s \notin b.spns
  BY <1>1 DEF Change!Fold
<1>3. Change!Fold({s}) \cap Change!Fold(b.spns) = {}
  BY <1>1 DEF Change!Fold
<1>4. n.account = "present"
  <2>1. n.account # "present" => n.spns = {}
    BY DEF Change!ChangePossible
  <2> QED BY <1>1, <2>1
<1>5. \E sev : Change!NewSpnOnUser(b, b, n)
                 = Change!Row(/\ b # Null /\ n.class # "computer" /\ n.account = "present"
                              /\ \E v \in n.spns \ b.spns : Change!Fold({v}) \cap Change!Fold(b.spns) = {}, sev)
  BY DEF Change!NewSpnOnUser
<1>6. \E v \in n.spns \ b.spns : Change!Fold({v}) \cap Change!Fold(b.spns) = {}
  BY <1>1, <1>2, <1>3
<1> QED BY <1>4, <1>5, <1>6 DEF Change!Row

LEMMA NewTrustReported ==
  ASSUME NEW b, NEW n, b # Null, OutboundNow(b, n)
  PROVE  Change!NewOrModifiedTrust(b, n) # {}
<1>1. /\ n.trust = "present"
      /\ b.trust = "never seen" \/ (b.trust = "present" /\ b.direction # Null /\ n.direction # b.direction)
  BY DEF OutboundNow, Change!Outbound
<1> DEFINE differs(field) == b.trust = "present" /\ b[field] # Null /\ n[field] # b[field]
           reported == b.trust = "never seen" \/ \E field \in {"direction", "trustType", "trustFlags"} : differs(field)
<1>2. reported
  BY <1>1
<1>3. \E sev : Change!NewOrModifiedTrust(b, n) = Change!Row(b # Null /\ n.trust = "present" /\ reported, sev)
  BY DEF Change!NewOrModifiedTrust
<1> HIDE DEF reported
<1> QED BY <1>1, <1>2, <1>3 DEF Change!Row

LEMMA ExposureStep ==
  ASSUME ObjectsInv, Collect, family = "directory", before # Null, found = before, NEW ids \in Expected(before, now)
  PROVE  \E f \in findings' : f[1] \in ids
<1> DEFINE b == before
           n == now
<1>1. findings' = Change!ChangeFindings(b, b, n)
  BY FindingsByFamily DEF Collect
<1>2. Change!ChangePossible(n)
  BY DEF ObjectsInv, ObjectOf, Possible
<1>3. b.account \in {"never seen", "deleted", "present"}
  <2>1. DOMAIN b = DOMAIN Change!ChangeValues /\ \A fact \in DOMAIN b : b[fact] \in Change!ChangeValues[fact]
    <3>1. ObjectOf("directory", b)
      BY DEF ObjectsInv
    <3> QED BY <3>1 DEF ObjectOf, FactsOf
  <2>2. "account" \in DOMAIN Change!ChangeValues
    BY DEF Change!ChangeValues
  <2>3. Change!ChangeValues.account = {"never seen", "deleted", "present"}
    BY DEF Change!ChangeValues
  <2> QED BY <2>1, <2>2, <2>3
<1>4. /\ {11003} \X Change!NewPrivilegedGroupMember(b, b, n) \subseteq findings'
      /\ {11004} \X Change!NewSpnOnUser(b, b, n) \subseteq findings'
      /\ {11006} \X Change!TemplateNewlyPublished(b, b, n) \subseteq findings'
      /\ {11007} \X Change!NewDcSyncGrant(b, n) \subseteq findings'
      /\ {11009} \X Change!NewOrModifiedTrust(b, n) \subseteq findings'
      /\ {11010} \X Change!NewPermissionOnTier0Container(b, n) \subseteq findings'
      /\ {11011} \X Change!NewDomainController(b, n) \subseteq findings'
      /\ {11014} \X Change!CertTemplateChanged(b, n) \subseteq findings'
  BY <1>1 DEF Change!ChangeFindings, Change!Report
<1> HIDE DEF b, n
<1> DEFINE replicates == n.container = "root" /\ \E t \in {"admins", "plain"} : MayReplicate(n, t) /\ ~MayReplicate(b, t)
           rewrites == n.container \in {"root", "AdminSDHolder"} /\ b.aclKnown /\ RewritesNow(n) /\ ~MayRewrite(b)
           requestable == /\ RequestableForAnyone(n) /\ ~RequestableForAnyone(b) /\ b.enrollers = "anyone"
                          /\ Null \notin {b.approval, b.supplies, b.signatures}
           member == n.memberOf \ b.memberOf # {}
           controller == /\ n.class = "computer" /\ Change!DcBits(n) /\ ~Change!DcBits(b)
                         /\ b.account # "deleted" /\ (b.account = "present" => b.uac # Null)
           spn == n.class # "computer" /\ Change!Fold(n.spns) \ Change!Fold(b.spns) # {}
           trust == OutboundNow(b, n)
           reported == Reporting(findings')
<1>5. b # Null
  BY DEF b
<1>6. \/ replicates /\ ids = {11007}
      \/ rewrites /\ ids = {11010}
      \/ requestable /\ ids = {11006, 11014}
      \/ member /\ ids = {11003}
      \/ controller /\ ids = {11011}
      \/ spn /\ ids = {11004}
      \/ trust /\ ids = {11009}
  <2>1. ids \in Expected(b, n)
    BY DEF b, n
  <2> QED BY <2>1 DEF Expected, Left, Row
<1>7. ASSUME replicates PROVE 11007 \in reported
  <2>1. Change!NewDcSyncGrant(b, n) # {}
    BY <1>5, <1>7, NewReplicationReported
  <2> QED BY <1>4, <2>1, RowReported
<1>8. ASSUME rewrites PROVE 11010 \in reported
  <2>1. Change!NewPermissionOnTier0Container(b, n) # {}
    BY <1>5, <1>8, NewRewriteReported
  <2> QED BY <1>4, <2>1, RowReported
<1>9. ASSUME member PROVE 11003 \in reported
  <2>1. Change!NewPrivilegedGroupMember(b, b, n) # {}
    BY <1>5, <1>9, NewMemberReported
  <2> QED BY <1>4, <2>1, RowReported
<1>10. ASSUME controller PROVE 11011 \in reported
  <2>1. Change!NewDomainController(b, n) # {}
    BY <1>2, <1>3, <1>5, <1>10, NewControllerReported
  <2> QED BY <1>4, <2>1, RowReported
<1>11. ASSUME spn PROVE 11004 \in reported
  <2>1. Change!NewSpnOnUser(b, b, n) # {}
    BY <1>2, <1>5, <1>11, NewSpnReported
  <2> QED BY <1>4, <2>1, RowReported
<1>12. ASSUME trust PROVE 11009 \in reported
  <2>1. Change!NewOrModifiedTrust(b, n) # {}
    BY <1>5, <1>12, NewTrustReported
  <2> QED BY <1>4, <2>1, RowReported
<1>13. ASSUME requestable PROVE 11006 \in reported \/ 11014 \in reported
  <2>1. Change!TemplateNewlyPublished(b, b, n) # {} \/ Change!CertTemplateChanged(b, n) # {}
    BY <1>5, <1>13, NewRequestableReported
  <2> QED BY <1>4, <2>1, RowReported
<1> HIDE DEF replicates, rewrites, requestable, member, controller, spn, trust, reported
<1>14. \E id \in ids : id \in reported
  BY <1>6, <1>7, <1>8, <1>9, <1>10, <1>11, <1>12, <1>13
<1> QED BY <1>14 DEF reported, Reporting

\* A danger that was not there at the last succeeded collection is reported
\* at the next one, between any two states of a directory, however many of its
\* facts have changed together.
THEOREM NewExposure == Spec => NewExposureReported
<1>1. ObjectsInv /\ [Next]_vars =>
        [Collect /\ family = "directory" /\ before # Null /\ found = before =>
            \A ids \in Expected(before, now) : \E f \in findings' : f[1] \in ids]_vars
  BY ExposureStep
<1> QED BY ObjectsStay, <1>1, PTL DEF Spec, NewExposureReported

-----------------------------------------------------------------------------
(* The policy that wins.                                                   *)

\* What is known of one computer and the policies linked above it.
LEMMA LinkedTyped ==
  ASSUME NEW r, ObjectOf("application", r)
  PROVE  /\ r.domainLinks \in Application!LinkLists
         /\ r.ouLinks \in Application!LinkLists
         /\ r.subOuLinks \in Application!LinkLists
         /\ r.blocking \subseteq {1, 2, 3}
<1>1. DOMAIN r = DOMAIN Application!ApplicationValues /\ \A fact \in DOMAIN r : r[fact] \in Application!ApplicationValues[fact]
  BY DEF ObjectOf, FactsOf
<1>2. {"domainLinks", "ouLinks", "subOuLinks", "blocking"} \subseteq DOMAIN Application!ApplicationValues
  BY DEF Application!ApplicationValues
<1>3. /\ Application!ApplicationValues.domainLinks = Application!LinkLists
      /\ Application!ApplicationValues.ouLinks = Application!LinkLists
      /\ Application!ApplicationValues.subOuLinks = Application!LinkLists
      /\ Application!ApplicationValues.blocking = SUBSET {1, 2, 3}
  BY DEF Application!ApplicationValues
<1> QED BY <1>1, <1>2, <1>3

LEMMA LinkListTyped ==
  ASSUME NEW list \in Application!LinkLists
  PROVE  DOMAIN list \subseteq {1, 2} /\ \A i \in DOMAIN list : list[i] \in Application!Link
<1>1. CASE list = <<>>
  BY <1>1
<1>2. CASE \E l \in Application!Link : list = <<l>>
  BY <1>2
<1>3. CASE \E l, m \in Application!Link : list = <<l, m>>
  BY <1>3
<1> QED BY <1>1, <1>2, <1>3 DEF Application!LinkLists

\* A container holds at most two links.
LEMMA LinkTyped ==
  ASSUME NEW r, ObjectOf("application", r), NEW d \in {1, 2, 3}
  PROVE  /\ DOMAIN Application!Chain(r)[d] \subseteq {1, 2}
         /\ \A i \in DOMAIN Application!Chain(r)[d] : Application!At(r, <<d, i>>) \in Application!Link
<1>1. Application!Chain(r)[d] \in Application!LinkLists
  BY LinkedTyped DEF Application!Chain
<1>2. \A i : Application!At(r, <<d, i>>) = Application!Chain(r)[d][i]
  BY DEF Application!At
<1> QED BY <1>1, <1>2, LinkListTyped

\* A depth is at or below the deepest unit that blocks inheritance unless a
\* unit below it does.
LEMMA BlockedAbove ==
  ASSUME NEW r, ObjectOf("application", r), NEW d \in {1, 2, 3}
  PROVE  d >= Application!BlockDepth(r) <=> ~\E e \in r.blocking \ {1} : e > d
<1>1. r.blocking \subseteq {1, 2, 3}
  BY LinkedTyped
<1>2. CASE r.blocking \ {1} = {}
  BY <1>2 DEF Application!BlockDepth
<1>3. CASE 3 \in r.blocking
  <2>1. \A c \in r.blocking : (\A e \in r.blocking : e <= c) => c = 3
    BY <1>1, <1>3
  <2>2. \A e \in r.blocking : e <= 3
    BY <1>1
  <2>3. Application!BlockDepth(r) = 3
    BY <1>3, <2>1, <2>2 DEF Application!BlockDepth
  <2> QED BY <1>1, <1>3, <2>3
<1>4. CASE 3 \notin r.blocking /\ 2 \in r.blocking
  <2>1. \A c \in r.blocking : (\A e \in r.blocking : e <= c) => c = 2
    BY <1>1, <1>4
  <2>2. \A e \in r.blocking : e <= 2
    BY <1>1, <1>4
  <2>3. Application!BlockDepth(r) = 2
    BY <1>4, <2>1, <2>2 DEF Application!BlockDepth
  <2> QED BY <1>1, <1>4, <2>3
<1> QED BY <1>1, <1>2, <1>3, <1>4

\* The links that the queries choose among: at depth d and position i one of
\* a policy that applies and has the setting.
Choice(r, policies, d, i) ==
    /\ d \in {1, 2, 3} /\ i \in DOMAIN Application!Chain(r)[d]
    /\ Application!At(r, <<d, i>>).enabled
    /\ Application!At(r, <<d, i>>).gpo \in policies \cap r.setBy
    /\ Application!At(r, <<d, i>>).enforced \/ d >= Application!BlockDepth(r)

\* These links are the ones to choose among.
Offers(r, policies, links) ==
    /\ \A l \in links : \E d \in {1, 2, 3}, i \in {1, 2} : l = <<d, i>>
    /\ \A d \in {1, 2, 3}, i \in {1, 2} :
         Choice(r, policies, d, i) <=> <<d, i>> \in links /\ Application!At(r, <<d, i>>).gpo \in r.setBy

LEMMA ChoiceIsWriter ==
  ASSUME NEW r, ObjectOf("application", r), NEW policies, NEW d \in {1, 2, 3}, NEW i, NEW e \in BOOLEAN
  PROVE  Choice(r, policies, d, i) /\ Application!At(r, <<d, i>>).enforced = e
           <=> i \in Application!Writers(r, policies, d, e)
<1> DEFINE link == Application!At(r, <<d, i>>)
           list == DOMAIN Application!Chain(r)[d]
           blocked == \E c \in r.blocking \ {1} : c > d
           deep == d >= Application!BlockDepth(r)
<1>1. i \in Application!Writers(r, policies, d, e)
        <=> /\ i \in list /\ link.enabled /\ link.gpo \in policies \cap r.setBy /\ link.enforced = e /\ (e \/ ~blocked)
  BY DEF Application!Writers
<1>2. deep <=> ~blocked
  BY BlockedAbove
<1>3. Choice(r, policies, d, i)
        <=> i \in list /\ link.enabled /\ link.gpo \in policies \cap r.setBy /\ (link.enforced \/ deep)
  BY DEF Choice
<1> DEFINE member == i \in list
           enabled == link.enabled
           writes == link.gpo \in policies \cap r.setBy
           enforced == link.enforced
<1>4. i \in Application!Writers(r, policies, d, e) <=> member /\ enabled /\ writes /\ enforced = e /\ (e \/ ~blocked)
  BY <1>1
<1>5. Choice(r, policies, d, i) <=> member /\ enabled /\ writes /\ (enforced \/ deep)
  BY <1>3
<1>6. Choice(r, policies, d, i) /\ enforced = e <=> i \in Application!Writers(r, policies, d, e)
  <2> HIDE DEF member, enabled, writes, enforced, blocked, deep
  <2> QED BY <1>2, <1>4, <1>5
<1> QED BY <1>6

LEMMA PrecedesOneWay ==
  ASSUME NEW r, NEW l, NEW m, l[1] \in {1, 2, 3}, m[1] \in {1, 2, 3}, l[2] \in {1, 2}, m[2] \in {1, 2},
         Application!At(r, l).enforced \in BOOLEAN, Application!At(r, m).enforced \in BOOLEAN,
         Application!Precedes(r, l, m)
  PROVE  ~Application!Precedes(r, m, l)
<1> DEFINE e == Application!At(r, l).enforced
           f == Application!At(r, m).enforced
<1>1. (e /\ ~f) \/ (e = f /\ ((l[1] # m[1] /\ (e <=> l[1] < m[1])) \/ (l[1] = m[1] /\ l[2] > m[2])))
  BY DEF Application!Precedes
<1>2. Application!Precedes(r, m, l)
        <=> (f /\ ~e) \/ (f = e /\ ((m[1] # l[1] /\ (f <=> m[1] < l[1])) \/ (m[1] = l[1] /\ m[2] > l[2])))
  BY DEF Application!Precedes
<1>3. e \in BOOLEAN /\ f \in BOOLEAN
  OBVIOUS
<1> HIDE DEF e, f
<1> QED BY <1>1, <1>2, <1>3

\* The writers of a container are positions of its links; the last of them is
\* there when there is one.
LEMMA LastOfWriters ==
  ASSUME NEW writers, writers \subseteq {1, 2}, writers # {}
  PROVE  LET last == CHOOSE i \in writers : \A j \in writers : j <= i
         IN  last \in writers /\ \A j \in writers : j <= last
<1>1. \E i \in writers : \A j \in writers : j <= i
  <2>1. CASE 2 \in writers
    <3>1. \A j \in writers : j <= 2
      OBVIOUS
    <3> QED BY <2>1, <3>1
  <2>2. CASE 2 \notin writers
    <3>1. \A j \in writers : j <= 1
      BY <2>2
    <3> QED BY <2>2, <3>1
  <2> QED BY <2>1, <2>2
<1> QED BY <1>1

\* Of two passes over the links, the one that comes after.
After(d, e, c, f) == (e /\ ~f) \/ (e = f /\ d # c /\ (e <=> d < c))

\* In no pass after this one does a policy write the setting.
LastPass(r, policies, d, e) ==
    \A c \in {1, 2, 3}, f \in BOOLEAN : After(c, f, d, e) => Application!Writers(r, policies, c, f) = {}

\* The winner is a link of the last pass in which some link has the setting.
LEMMA LastPassWins ==
  ASSUME NEW r, ObjectOf("application", r), NEW policies, NEW links,
         Offers(r, policies, links),
         NEW d \in {1, 2, 3}, NEW e \in BOOLEAN, Application!Writers(r, policies, d, e) # {},
         LastPass(r, policies, d, e), NEW owner
  PROVE  Application!Winner(r, links) = Application!Write(r, policies, d, e, owner)
<1> DEFINE W(c, f) == Application!Writers(r, policies, c, f)
           at(l) == Application!At(r, l)
           setting == {l \in links : at(l).gpo \in r.setBy}
           last == CHOOSE i \in W(d, e) : \A j \in W(d, e) : j <= i
           top == <<d, last>>
<1>1. \A c \in {1, 2, 3}, f \in BOOLEAN : W(c, f) \subseteq {1, 2}
  BY LinkTyped DEF Application!Writers
<1>2. last \in W(d, e) /\ \A j \in W(d, e) : j <= last
  BY <1>1, LastOfWriters
<1>3. \A c \in {1, 2, 3}, f \in BOOLEAN : \A i \in W(c, f) : <<c, i>> \in setting /\ at(<<c, i>>).enforced = f
  <2> SUFFICES ASSUME NEW c \in {1, 2, 3}, NEW f \in BOOLEAN, NEW i \in W(c, f)
               PROVE  <<c, i>> \in setting /\ at(<<c, i>>).enforced = f
    OBVIOUS
  <2>1. Choice(r, policies, c, i) /\ at(<<c, i>>).enforced = f
    BY ChoiceIsWriter
  <2>2. i \in {1, 2}
    BY <1>1
  <2> QED BY <2>1, <2>2 DEF Offers
<1>4. ASSUME NEW l \in setting
      PROVE  /\ l = <<l[1], l[2]>> /\ l[1] \in {1, 2, 3} /\ l[2] \in {1, 2} /\ at(l).enforced \in BOOLEAN
             /\ l[2] \in W(l[1], at(l).enforced)
  <2>1. PICK c \in {1, 2, 3}, i \in {1, 2} : l = <<c, i>>
    BY DEF Offers
  <2>2. Choice(r, policies, c, i)
    BY <2>1 DEF Offers
  <2>3. at(l) \in Application!Link
    BY <2>1, <2>2, LinkTyped DEF Choice
  <2>4. at(l).enforced \in BOOLEAN
    BY <2>3 DEF Application!Link
  <2>5. i \in W(c, at(l).enforced)
    BY <2>1, <2>2, <2>4, ChoiceIsWriter
  <2> QED BY <2>1, <2>4, <2>5
<1>5. top \in setting /\ at(top).enforced = e /\ top[1] = d /\ top[2] = last
  BY <1>2, <1>3
<1>6. last \in {1, 2}
  BY <1>1, <1>2
<1> HIDE DEF setting, last, W, at
<1>7. ASSUME NEW m \in setting \ {top} PROVE Application!Precedes(r, top, m)
  <2>1. /\ m = <<m[1], m[2]>> /\ m[1] \in {1, 2, 3} /\ m[2] \in {1, 2} /\ at(m).enforced \in BOOLEAN
        /\ m[2] \in W(m[1], at(m).enforced)
    BY <1>4
  <2> DEFINE f == at(m).enforced
  <2>2. ~After(m[1], f, d, e)
    BY <2>1 DEF W, LastPass
  <2>3. m[1] = d /\ f = e => m[2] < last
    <3>1. CASE m[1] = d /\ f = e
      <4>1. m[2] \in W(d, e)
        BY <2>1, <3>1
      <4>2. m[2] <= last
        BY <1>2, <4>1
      <4>3. m[2] # last
        BY <2>1, <3>1
      <4> QED BY <2>1, <4>2, <4>3, <1>6
    <3> QED BY <3>1
  <2>4. (e /\ ~f) \/ (e = f /\ ((d # m[1] /\ (e <=> d < m[1])) \/ (d = m[1] /\ last > m[2])))
    <3>1. f \in BOOLEAN /\ m[1] \in {1, 2, 3} /\ m[2] \in {1, 2}
      BY <2>1
    <3> HIDE DEF f
    <3> QED BY <2>2, <2>3, <3>1, <1>6 DEF After
  <2> QED BY <1>5, <2>4 DEF Application!Precedes, at
<1>8. ASSUME NEW l \in setting, \A m \in setting \ {l} : Application!Precedes(r, l, m) PROVE l = top
  <2> SUFFICES ASSUME l # top PROVE FALSE
    OBVIOUS
  <2>1. Application!Precedes(r, l, top) /\ Application!Precedes(r, top, l)
    BY <1>5, <1>7, <1>8
  <2>2. l[1] \in {1, 2, 3} /\ l[2] \in {1, 2} /\ Application!At(r, l).enforced \in BOOLEAN
    BY <1>4 DEF at
  <2>3. top[1] \in {1, 2, 3} /\ top[2] \in {1, 2} /\ Application!At(r, top).enforced \in BOOLEAN
    BY <1>4, <1>5 DEF at
  <2> QED BY <2>1, <2>2, <2>3, PrecedesOneWay
<1>9. (CHOOSE l \in setting : \A m \in setting \ {l} : Application!Precedes(r, l, m)) = top
  BY <1>5, <1>7, <1>8
<1>10. Application!Winner(r, links) = at(top).gpo
  BY <1>5, <1>9 DEF Application!Winner, setting, at
<1>11. Application!Write(r, policies, d, e, owner) = at(top).gpo
  BY DEF Application!Write, W, at, last
<1> QED BY <1>10, <1>11

\* Without such a link no policy wins.
LEMMA NoneWins ==
  ASSUME NEW r, ObjectOf("application", r), NEW policies, NEW links,
         Offers(r, policies, links),
         \A c \in {1, 2, 3}, f \in BOOLEAN : Application!Writers(r, policies, c, f) = {}
  PROVE  Application!Winner(r, links) = Null
<1>1. ASSUME NEW l \in links, Application!At(r, l).gpo \in r.setBy PROVE FALSE
  <2>1. PICK c \in {1, 2, 3}, i \in {1, 2} : l = <<c, i>>
    BY DEF Offers
  <2>2. Choice(r, policies, c, i)
    BY <1>1, <2>1 DEF Offers
  <2>3. Application!At(r, <<c, i>>).enforced \in BOOLEAN
    BY <2>2, LinkTyped DEF Choice, Application!Link
  <2> QED BY <2>2, <2>3, ChoiceIsWriter
<1> QED BY <1>1 DEF Application!Winner

\* Whatever the policies that apply, the link that precedes all others is that
\* of the policy which writes the setting last.
LEMMA WinnerIsLastWriter ==
  ASSUME NEW r, ObjectOf("application", r), NEW policies, NEW links,
         Offers(r, policies, links)
  PROVE  Application!Winner(r, links) = Application!LastWriter(r, policies)
<1> DEFINE W(c, f) == Application!Writers(r, policies, c, f)
           write(d, e, owner) == Application!Write(r, policies, d, e, owner)
           w1 == write(1, FALSE, Null)
           w2 == write(2, FALSE, w1)
           w3 == write(3, FALSE, w2)
           w4 == write(3, TRUE, w3)
           w5 == write(2, TRUE, w4)
           w6 == write(1, TRUE, w5)
           winner == Application!Winner(r, links)
<1>1. w6 = Application!LastWriter(r, policies)
  BY DEF Application!LastWriter
<1>2. /\ W(1, TRUE) = {} => w6 = w5
      /\ W(2, TRUE) = {} => w5 = w4
      /\ W(3, TRUE) = {} => w4 = w3
      /\ W(3, FALSE) = {} => w3 = w2
      /\ W(2, FALSE) = {} => w2 = w1
      /\ W(1, FALSE) = {} => w1 = Null
  <2>1. \A d, e, owner : W(d, e) = {} => write(d, e, owner) = owner
    BY DEF Application!Write
  <2> HIDE DEF W, write
  <2> QED BY <2>1
<1> HIDE DEF w1, w2, w3, w4, w5, w6
<1>3. ASSUME NEW d \in {1, 2, 3}, NEW e \in BOOLEAN, W(d, e) # {}, LastPass(r, policies, d, e), NEW owner
      PROVE  winner = write(d, e, owner)
  BY <1>3, LastPassWins
<1> HIDE DEF W, write, winner
<1>4. W(1, TRUE) # {} => winner = w6
  <2>1. \A c \in {1, 2, 3}, f \in BOOLEAN : After(c, f, 1, TRUE) => FALSE
    BY DEF After
  <2> SUFFICES ASSUME W(1, TRUE) # {} PROVE winner = w6
    OBVIOUS
  <2>2. LastPass(r, policies, 1, TRUE)
    BY <2>1 DEF LastPass, W
  <2>3. W(1, TRUE) # {}
    OBVIOUS
  <2>4. 1 \in {1, 2, 3} /\ TRUE \in BOOLEAN
    OBVIOUS
  <2>5. winner = write(1, TRUE, w5)
    BY <1>3, <2>2, <2>3, <2>4
  <2> QED BY <2>5 DEF w6
<1>5. W(1, TRUE) = {} /\ W(2, TRUE) # {} => winner = w5
  <2>1. \A c \in {1, 2, 3}, f \in BOOLEAN : After(c, f, 2, TRUE) => c = 1 /\ f = TRUE
    BY DEF After
  <2> SUFFICES ASSUME W(1, TRUE) = {} /\ W(2, TRUE) # {} PROVE winner = w5
    OBVIOUS
  <2>2. LastPass(r, policies, 2, TRUE)
    BY <2>1 DEF LastPass, W
  <2>3. W(2, TRUE) # {}
    OBVIOUS
  <2>4. 2 \in {1, 2, 3} /\ TRUE \in BOOLEAN
    OBVIOUS
  <2>5. winner = write(2, TRUE, w4)
    BY <1>3, <2>2, <2>3, <2>4
  <2> QED BY <2>5 DEF w5
<1>6. W(1, TRUE) = {} /\ W(2, TRUE) = {} /\ W(3, TRUE) # {} => winner = w4
  <2>1. \A c \in {1, 2, 3}, f \in BOOLEAN : After(c, f, 3, TRUE) => c \in {1, 2} /\ f = TRUE
    BY DEF After
  <2> SUFFICES ASSUME W(1, TRUE) = {} /\ W(2, TRUE) = {} /\ W(3, TRUE) # {} PROVE winner = w4
    OBVIOUS
  <2>2. LastPass(r, policies, 3, TRUE)
    BY <2>1 DEF LastPass, W
  <2>3. W(3, TRUE) # {}
    OBVIOUS
  <2>4. 3 \in {1, 2, 3} /\ TRUE \in BOOLEAN
    OBVIOUS
  <2>5. winner = write(3, TRUE, w3)
    BY <1>3, <2>2, <2>3, <2>4
  <2> QED BY <2>5 DEF w4
<1> DEFINE noneEnforced == \A c \in {1, 2, 3} : W(c, TRUE) = {}
<1>7. noneEnforced /\ W(3, FALSE) # {} => winner = w3
  <2>1. \A c \in {1, 2, 3}, f \in BOOLEAN : After(c, f, 3, FALSE) => f = TRUE
    BY DEF After
  <2> SUFFICES ASSUME noneEnforced /\ W(3, FALSE) # {} PROVE winner = w3
    OBVIOUS
  <2>2. LastPass(r, policies, 3, FALSE)
    BY <2>1 DEF LastPass, W
  <2>3. W(3, FALSE) # {}
    OBVIOUS
  <2>4. 3 \in {1, 2, 3} /\ FALSE \in BOOLEAN
    OBVIOUS
  <2>5. winner = write(3, FALSE, w2)
    BY <1>3, <2>2, <2>3, <2>4
  <2> QED BY <2>5 DEF w3
<1>8. noneEnforced /\ W(3, FALSE) = {} /\ W(2, FALSE) # {} => winner = w2
  <2>1. \A c \in {1, 2, 3}, f \in BOOLEAN : After(c, f, 2, FALSE) => f = TRUE \/ (c = 3 /\ f = FALSE)
    BY DEF After
  <2> SUFFICES ASSUME noneEnforced /\ W(3, FALSE) = {} /\ W(2, FALSE) # {} PROVE winner = w2
    OBVIOUS
  <2>2. LastPass(r, policies, 2, FALSE)
    BY <2>1 DEF LastPass, W
  <2>3. W(2, FALSE) # {}
    OBVIOUS
  <2>4. 2 \in {1, 2, 3} /\ FALSE \in BOOLEAN
    OBVIOUS
  <2>5. winner = write(2, FALSE, w1)
    BY <1>3, <2>2, <2>3, <2>4
  <2> QED BY <2>5 DEF w2
<1>9. noneEnforced /\ W(3, FALSE) = {} /\ W(2, FALSE) = {} /\ W(1, FALSE) # {} => winner = w1
  <2>1. \A c \in {1, 2, 3}, f \in BOOLEAN : After(c, f, 1, FALSE) => f = TRUE \/ (c \in {2, 3} /\ f = FALSE)
    BY DEF After
  <2> SUFFICES ASSUME noneEnforced /\ W(3, FALSE) = {} /\ W(2, FALSE) = {} /\ W(1, FALSE) # {} PROVE winner = w1
    OBVIOUS
  <2>2. LastPass(r, policies, 1, FALSE)
    BY <2>1 DEF LastPass, W
  <2>3. W(1, FALSE) # {}
    OBVIOUS
  <2>4. 1 \in {1, 2, 3} /\ FALSE \in BOOLEAN
    OBVIOUS
  <2>5. winner = write(1, FALSE, Null)
    BY <1>3, <2>2, <2>3, <2>4
  <2> QED BY <2>5 DEF w1
<1>10. noneEnforced /\ W(3, FALSE) = {} /\ W(2, FALSE) = {} /\ W(1, FALSE) = {} => winner = Null
  BY NoneWins DEF W, winner, noneEnforced
<1>11. noneEnforced <=> W(1, TRUE) = {} /\ W(2, TRUE) = {} /\ W(3, TRUE) = {}
  OBVIOUS
<1>12. winner = w6
  <2> HIDE DEF W, write, winner, noneEnforced, w1, w2, w3, w4, w5, w6
  <2> QED BY <1>2, <1>4, <1>5, <1>6, <1>7, <1>8, <1>9, <1>10, <1>11
<1> QED BY <1>1, <1>12 DEF winner

\* The links that apply are those of a domain or unit and a position.
LEMMA ComputerLink ==
  ASSUME NEW r, ObjectOf("application", r), NEW l
  PROVE  l \in Application!ComputerLinks(r)
           <=> \E d \in {1, 2, 3}, i \in {1, 2} :
                  /\ l = <<d, i>> /\ i \in DOMAIN Application!Chain(r)[d]
                  /\ Application!At(r, l).enabled
                  /\ Application!At(r, l).gpo \notin r.computerOff
                  /\ Application!At(r, l).enforced \/ d >= Application!BlockDepth(r)
<1>1. l \in UNION {{d} \X DOMAIN Application!Chain(r)[d] : d \in 1 .. 3}
        <=> \E d \in {1, 2, 3}, i \in {1, 2} : l = <<d, i>> /\ i \in DOMAIN Application!Chain(r)[d]
  <2>1. 1 .. 3 = {1, 2, 3}
    OBVIOUS
  <2>2. \A d \in {1, 2, 3} : DOMAIN Application!Chain(r)[d] \subseteq {1, 2}
    BY LinkTyped
  <2> QED BY <2>1, <2>2
<1>2. l \in Application!ComputerLinks(r)
        <=> /\ l \in UNION {{d} \X DOMAIN Application!Chain(r)[d] : d \in 1 .. 3}
            /\ Application!At(r, l).enabled
            /\ Application!At(r, l).gpo \notin r.computerOff
            /\ Application!At(r, l).enforced \/ l[1] >= Application!BlockDepth(r)
  BY DEF Application!ComputerLinks
<1> QED BY <1>1, <1>2

\* The policy that the queries call the winner is the last one that writes the
\* setting, for every domain and two units with at most two links each.
LEMMA WinnersAreLast ==
  ASSUME NEW r, ObjectOf("application", r)
  PROVE  /\ Application!WinnerOnComputer(r) = Application!LastWriter(r, Application!On(r))
         /\ Application!WinnerOnDc(r) = Application!LastWriter(r, Application!Unfiltered(r))
<1>1. \A d \in {1, 2, 3} : \A i \in DOMAIN Application!Chain(r)[d] :
         i \in {1, 2} /\ Application!At(r, <<d, i>>).gpo \in Application!Policies
  BY LinkTyped DEF Application!Link
<1>2. Application!WinnerOnComputer(r) = Application!LastWriter(r, Application!On(r))
  <2>1. \A l \in Application!ComputerLinks(r) : \E d \in {1, 2, 3}, i \in {1, 2} : l = <<d, i>>
    BY ComputerLink
  <2>2. \A d \in {1, 2, 3}, i \in {1, 2} :
           Choice(r, Application!On(r), d, i)
             <=> <<d, i>> \in Application!ComputerLinks(r) /\ Application!At(r, <<d, i>>).gpo \in r.setBy
    <3> SUFFICES ASSUME NEW d \in {1, 2, 3}, NEW i \in {1, 2}
                 PROVE  Choice(r, Application!On(r), d, i)
                          <=> <<d, i>> \in Application!ComputerLinks(r) /\ Application!At(r, <<d, i>>).gpo \in r.setBy
      OBVIOUS
    <3> QED BY <1>1, ComputerLink DEF Choice, Application!On
  <2> QED BY <2>1, <2>2, WinnerIsLastWriter DEF Application!WinnerOnComputer, Offers
<1>3. Application!WinnerOnDc(r) = Application!LastWriter(r, Application!Unfiltered(r))
  <2>1. \A l \in Application!DcLinks(r) : \E d \in {1, 2, 3}, i \in {1, 2} : l = <<d, i>>
    BY ComputerLink DEF Application!DcLinks
  <2>2. \A d \in {1, 2, 3}, i \in {1, 2} :
           Choice(r, Application!Unfiltered(r), d, i)
             <=> <<d, i>> \in Application!DcLinks(r) /\ Application!At(r, <<d, i>>).gpo \in r.setBy
    <3> SUFFICES ASSUME NEW d \in {1, 2, 3}, NEW i \in {1, 2}
                 PROVE  Choice(r, Application!Unfiltered(r), d, i)
                          <=> <<d, i>> \in Application!DcLinks(r) /\ Application!At(r, <<d, i>>).gpo \in r.setBy
      OBVIOUS
    <3> DEFINE link == Application!At(r, <<d, i>>)
               applies == /\ i \in DOMAIN Application!Chain(r)[d] /\ link.enabled
                          /\ link.enforced \/ d >= Application!BlockDepth(r)
               unfiltered == r.filter[link.gpo] \in {"not collected", "apply"}
    <3>1. i \in DOMAIN Application!Chain(r)[d] => link.gpo \in Application!Policies
      BY <1>1
    <3>2. <<d, i>> \in Application!ComputerLinks(r) <=> applies /\ link.gpo \notin r.computerOff
      BY ComputerLink
    <3>3. <<d, i>> \in Application!DcLinks(r) <=> <<d, i>> \in Application!ComputerLinks(r) /\ unfiltered
      BY DEF Application!DcLinks
    <3>4. link.gpo \in Application!Unfiltered(r)
            <=> link.gpo \in Application!Policies /\ link.gpo \notin r.computerOff /\ unfiltered
      BY DEF Application!On, Application!Unfiltered
    <3>5. Choice(r, Application!Unfiltered(r), d, i)
            <=> applies /\ link.gpo \in Application!Unfiltered(r) /\ link.gpo \in r.setBy
      BY DEF Choice
    <3>6. applies => i \in DOMAIN Application!Chain(r)[d]
      OBVIOUS
    <3> HIDE DEF link, applies, unfiltered
    <3>7. Choice(r, Application!Unfiltered(r), d, i) <=> <<d, i>> \in Application!DcLinks(r) /\ link.gpo \in r.setBy
      BY <3>1, <3>2, <3>3, <3>4, <3>5, <3>6
    <3> QED BY <3>7 DEF link
  <2> QED BY <2>1, <2>2, WinnerIsLastWriter DEF Application!WinnerOnDc, Offers
<1> QED BY <1>2, <1>3

\* The winner of a setting is the policy that writes it last, wherever
\* inheritance is blocked, links are enforced or disabled and policies are
\* switched off or filtered.
THEOREM PrecedenceIsLastWriter == Spec => []LastWriterWins
<1>1. ObjectsInv => LastWriterWins
  BY WinnersAreLast DEF ObjectsInv, LastWriterWins
<1> QED BY ObjectsStay, <1>1, PTL

-----------------------------------------------------------------------------
(* The severities.  No condition on the object is needed: whatever the     *)
(* facts, a plugin rates with one of the five severities.                  *)

\* The severities of the findings table.
Scale == {0, 1, 2, 3, 4}

\* The worst of some severities is one of them.
Highest(rows, s) == s \in rows /\ \A t \in rows : t <= s

LEMMA SomeHighest ==
  ASSUME NEW rows, rows \subseteq Scale, rows # {}
  PROVE  \E s \in rows : Highest(rows, s)
<1>1. CASE 4 \in rows
  <2>1. Highest(rows, 4)
    BY <1>1 DEF Highest, Scale
  <2> QED BY <1>1, <2>1
<1>2. CASE 4 \notin rows /\ 3 \in rows
  <2>1. Highest(rows, 3)
    BY <1>2 DEF Highest, Scale
  <2> QED BY <1>2, <2>1
<1>3. CASE 4 \notin rows /\ 3 \notin rows /\ 2 \in rows
  <2>1. Highest(rows, 2)
    BY <1>3 DEF Highest, Scale
  <2> QED BY <1>3, <2>1
<1>4. CASE 4 \notin rows /\ 3 \notin rows /\ 2 \notin rows /\ 1 \in rows
  <2>1. Highest(rows, 1)
    BY <1>4 DEF Highest, Scale
  <2> QED BY <1>4, <2>1
<1>5. CASE 4 \notin rows /\ 3 \notin rows /\ 2 \notin rows /\ 1 \notin rows
  <2>1. \A s \in rows : s = 0
    BY <1>5 DEF Scale
  <2>2. 0 \in rows /\ \A s \in rows : s <= 0
    BY <2>1
  <2> QED BY <2>2 DEF Highest
<1> QED BY <1>1, <1>2, <1>3, <1>4, <1>5

LEMMA WorstOfRows ==
  ASSUME NEW rows, rows \subseteq Scale, rows # {}
  PROVE  Computer!Worst(rows) \in rows /\ Cert!Worst(rows) \in rows /\ Principal!Worst(rows) \in rows
<1>1. PICK s \in rows : Highest(rows, s)
  BY SomeHighest
<1>2. (CHOOSE t \in rows : \A u \in rows : u <= t) \in rows
  BY <1>1 DEF Highest
<1> QED BY <1>2 DEF Computer!Worst, Cert!Worst, Principal!Worst

\* A score that is cut off at both ends is a severity.
LEMMA ClampedScore ==
  ASSUME NEW score \in Int
  PROVE  Account!Clamped(score) \in Scale /\ Computer!Clamped(score) \in Scale
<1> QED BY DEF Account!Clamped, Account!Info, Account!Critical, Computer!Clamped, Computer!Info, Computer!Critical, Scale

\* The scores of the plugins about accounts.
LEMMA AccountScores ==
  ASSUME NEW u
  PROVE  /\ Account!TierScore(u, 4, 3, 2) \in {2, 3, 4}
         /\ Account!TierScore(u, 4, 3, 3) \in {3, 4}
         /\ Account!TierScore(u, 4, 4, 3) \in {3, 4}
         /\ Account!AdminScore(u, 3, 2) \in {2, 3}
         /\ Account!AdminScore(u, 4, 3) \in {3, 4}
         /\ Account!UnlessEnabled(u, 1) \in {0, 1}
         /\ Account!UnlessEnabled(u, 2) \in {0, 2}
<1> QED BY DEF Account!TierScore, Account!AdminScore, Account!UnlessEnabled

LEMMA HigherScore ==
  ASSUME NEW s \in {2, 3, 4}, NEW t \in {2, 3, 4}
  PROVE  Account!Higher(s, t) \in {s, t}
<1> QED BY DEF Account!Higher

LEMMA ScoredAccountPlugins ==
  ASSUME NEW u
  PROVE  /\ Account!PasswordNeverExpires(u) \subseteq Scale
         /\ Account!PasswordNotRequired(u) \subseteq Scale
         /\ Account!AsrepRoastable(u) \subseteq Scale
         /\ Account!ProtocolTransitionDelegation(u) \subseteq Scale
         /\ Account!PasswordInDescription(u) \subseteq Scale
<1> DEFINE high == Account!Higher(Account!TierScore(u, 4, 3, 2), Account!AdminScore(u, 3, 2))
           higher == Account!Higher(Account!TierScore(u, 4, 4, 3), Account!AdminScore(u, 4, 3))
           off == Account!UnlessEnabled(u, 2)
           least == Account!TierScore(u, 4, 3, 3)
<1>1. high \in {2, 3, 4} /\ higher \in {3, 4} /\ least \in {3, 4} /\ off \in {0, 2}
  BY AccountScores, HigherScore
<1>2. Account!PasswordNeverExpires(u) \subseteq Scale
  <2>1. \E c : Account!PasswordNeverExpires(u) = Account!Row(c, Account!Clamped(high - off))
    BY DEF Account!PasswordNeverExpires
  <2> HIDE DEF high, off
  <2>2. Account!Clamped(high - off) \in Scale
    BY <1>1, ClampedScore
  <2> QED BY <2>1, <2>2 DEF Account!Row
<1>3. Account!PasswordNotRequired(u) \subseteq Scale
  <2>1. \E c : Account!PasswordNotRequired(u) = Account!Row(c, Account!Clamped(least - off))
    BY DEF Account!PasswordNotRequired
  <2> HIDE DEF least, off
  <2>2. Account!Clamped(least - off) \in Scale
    BY <1>1, ClampedScore
  <2> QED BY <2>1, <2>2 DEF Account!Row
<1>4. Account!AsrepRoastable(u) \subseteq Scale
  <2>1. \E c : Account!AsrepRoastable(u) = Account!Row(c, Account!Clamped(higher - off))
    BY DEF Account!AsrepRoastable
  <2> HIDE DEF higher, off
  <2>2. Account!Clamped(higher - off) \in Scale
    BY <1>1, ClampedScore
  <2> QED BY <2>1, <2>2 DEF Account!Row
<1>5. Account!ProtocolTransitionDelegation(u) \subseteq Scale
  <2> DEFINE score == IF u.targets \cap {"dc", "krbtgt spn"} # {} THEN 4 ELSE 3
             once == Account!UnlessEnabled(u, 1)
  <2>1. \E c : Account!ProtocolTransitionDelegation(u) = Account!Row(c, score - once)
    BY DEF Account!ProtocolTransitionDelegation
  <2>2. score \in {3, 4} /\ once \in {0, 1}
    BY AccountScores
  <2> HIDE DEF score, once
  <2>3. score - once \in Scale
    BY <2>2 DEF Scale
  <2> QED BY <2>1, <2>3 DEF Account!Row
<1>6. Account!PasswordInDescription(u) \subseteq Scale
  <2> DEFINE guess == IF u.text = "password" THEN 1 ELSE 0
  <2>1. \E c : Account!PasswordInDescription(u) = Account!Row(c, higher - guess)
    BY DEF Account!PasswordInDescription
  <2>2. guess \in {0, 1}
    OBVIOUS
  <2> HIDE DEF higher, guess
  <2>3. higher - guess \in Scale
    BY <1>1, <2>2 DEF Scale
  <2> QED BY <2>1, <2>3 DEF Account!Row
<1> QED BY <1>2, <1>3, <1>4, <1>5, <1>6

LEMMA KeyPlugins ==
  ASSUME NEW x
  PROVE  Account!ShadowCredentials(x) \subseteq Scale /\ Computer!ComputerShadowCredentials(x) \subseteq Scale
<1>1. Account!ShadowCredentials(x) \subseteq Scale
  <2> DEFINE score == IF x.tier = 0 THEN 3 ELSE IF x.tier = 1 \/ Account!Admin(x) THEN 2 ELSE 1
             off == Account!UnlessEnabled(x, 2)
             total(y, z) == score + y - z - off
  <2>1. \E y, z \in {0, 1} : Account!ShadowCredentials(x) \subseteq {Account!Clamped(total(y, z))}
    <3> DEFINE anomalies == {"malformed", "other use"} \cup (IF score >= 2 THEN {"AD"} ELSE {})
               kinds == IF x.keysParsed THEN x.keys ELSE {}
               y0 == IF kinds \cap anomalies # {} THEN 1 ELSE 0
               z0 == IF kinds = {"AzureAD"} /\ score = 1 THEN 1 ELSE 0
    <3>1. Account!ShadowCredentials(x) \subseteq {Account!Clamped(total(y0, z0))}
      BY DEF Account!ShadowCredentials, Account!Row
    <3>2. y0 \in {0, 1} /\ z0 \in {0, 1}
      OBVIOUS
    <3> HIDE DEF y0, z0, total
    <3> QED BY <3>1, <3>2
  <2>2. PICK y, z \in {0, 1} : Account!ShadowCredentials(x) \subseteq {Account!Clamped(total(y, z))}
    BY <2>1
  <2>3. score \in Int /\ off \in Int
    BY AccountScores
  <2> HIDE DEF score, off
  <2>4. Account!Clamped(total(y, z)) \in Scale
    BY <2>2, <2>3, ClampedScore
  <2> QED BY <2>2, <2>4
<1>2. Computer!ComputerShadowCredentials(x) \subseteq Scale
  <2> DEFINE base == CASE Computer!KeyAssessment(x) = "suspicious" -> 3
                       [] Computer!KeyAssessment(x) = "not parsed" -> 2
                       [] OTHER -> 0
             more == IF Computer!Tier0(x) \/ x.tier = 0 THEN 1 ELSE 0
             less == IF Computer!Enabled(x) THEN 0 ELSE 2
  <2>1. \E c : Computer!ComputerShadowCredentials(x) = Computer!Row(c, Computer!Clamped(base + more - less))
    BY DEF Computer!ComputerShadowCredentials
  <2>2. base \in {0, 2, 3}
    OBVIOUS
  <2>3. more \in {0, 1} /\ less \in {0, 2}
    OBVIOUS
  <2> HIDE DEF base, more, less
  <2>4. Computer!Clamped(base + more - less) \in Scale
    BY <2>2, <2>3, ClampedScore
  <2> QED BY <2>1, <2>4 DEF Computer!Row
<1> QED BY <1>1, <1>2

\* The plugins that report the worst of what they find.
LEMMA WorstPlugins ==
  ASSUME NEW x
  PROVE  /\ Computer!RodcAdminAndKrbtgtIssues(x) \subseteq Scale
         /\ Cert!WeakOrExpiringCaCertificates(x) \subseteq Scale
         /\ Principal!EnabledInCloudOnly(x) \subseteq Scale
<1>1. Computer!RodcAdminAndKrbtgtIssues(x) \subseteq Scale
  <2> DEFINE issues == Computer!Row(x.managedBy = "nobody", Computer!Low)
                         \cup Computer!Row(x.managedBy = "tier 0", Computer!High)
                         \cup Computer!Row(\A age \in x.krbtgtAge : Computer!Older(age, 180), Computer!Medium)
  <2>1. issues \subseteq Scale
    BY DEF Computer!Row, Computer!Low, Computer!High, Computer!Medium, Scale
  <2>2. issues # {} => Computer!RodcAdminAndKrbtgtIssues(x) \subseteq {Computer!Worst(issues)}
    BY DEF Computer!RodcAdminAndKrbtgtIssues
  <2>3. issues = {} => Computer!RodcAdminAndKrbtgtIssues(x) = {}
    BY DEF Computer!RodcAdminAndKrbtgtIssues
  <2> HIDE DEF issues
  <2>4. issues # {} => Computer!Worst(issues) \in Scale
    BY <2>1, WorstOfRows
  <2> QED BY <2>2, <2>3, <2>4
<1>2. Cert!WeakOrExpiringCaCertificates(x) \subseteq Scale
  <2> DEFINE rows == Cert!Row(x.key = "rsa 1024", Cert!Medium)
                       \cup Cert!Row(x.hash = "sha1" /\ ~x.selfSigned, Cert!Medium)
                       \cup Cert!Row(x.key = "dsa" \/ (x.key = "rsa 2048" /\ Cert!Above(x.expires, 2000))
                                       \/ Cert!Below(x.expires, 90), Cert!Low)
             some == x.store \notin {"empty", "unparsable"} /\ rows # {}
  <2>1. rows \subseteq Scale
    BY DEF Cert!Row, Cert!Low, Cert!Medium, Scale
  <2>2. Cert!WeakOrExpiringCaCertificates(x) = Cert!Row(some, Cert!Worst(rows))
    BY DEF Cert!WeakOrExpiringCaCertificates
  <2>3. some => rows # {}
    OBVIOUS
  <2> HIDE DEF rows, some
  <2>4. rows # {} => Cert!Worst(rows) \in Scale
    BY <2>1, WorstOfRows
  <2> QED BY <2>2, <2>3, <2>4 DEF Cert!Row
<1>3. Principal!EnabledInCloudOnly(x) \subseteq Scale
  <2> DEFINE kinds == Principal!Row(x.synced = TRUE /\ x.linked /\ x.ad = "disabled", 3)
                        \cup Principal!Row(x.linked /\ x.ad = "deleted", 2)
                        \cup Principal!Row(~x.linked /\ x.sid = "collected domain" /\ ~x.sidKnown, 2)
             more == IF Principal!TierZeroUser(x) THEN 1 ELSE 0
             some == /\ Principal!IsUser(x) /\ x.enabled = TRUE /\ (x.synced = TRUE \/ x.sid # Null)
                     /\ kinds # {}
  <2>1. kinds \subseteq {2, 3}
    BY DEF Principal!Row
  <2>2. Principal!EnabledInCloudOnly(x) = Principal!Row(some, Principal!Worst(kinds) + more)
    BY DEF Principal!EnabledInCloudOnly
  <2>3. some => kinds # {}
    OBVIOUS
  <2>4. more \in {0, 1}
    OBVIOUS
  <2> HIDE DEF kinds, more, some
  <2>5. kinds # {} => Principal!Worst(kinds) \in {2, 3}
    <3>1. kinds \subseteq Scale
      BY <2>1 DEF Scale
    <3> QED BY <2>1, <3>1, WorstOfRows
  <2>6. kinds # {} => Principal!Worst(kinds) + more \in Scale
    BY <2>4, <2>5 DEF Scale
  <2> QED BY <2>2, <2>3, <2>6 DEF Principal!Row
<1> QED BY <1>1, <1>2, <1>3

LEMMA WeakKeyPlugin ==
  ASSUME NEW c
  PROVE  Cert!AuthTemplateWeakKey(c) \subseteq Scale
<1> DEFINE weak == Cert!Above(c.keySize, 0) /\ c.keySize < 2048 /\ c.keySize # 256
           sev == IF weak THEN Cert!Medium ELSE Cert!Low
<1>1. \E cond : Cert!AuthTemplateWeakKey(c) = Cert!Row(cond, sev)
  BY DEF Cert!AuthTemplateWeakKey
<1> HIDE DEF weak
<1>2. sev \in Scale
  BY DEF Cert!Medium, Cert!Low, Scale
<1> HIDE DEF sev
<1> QED BY <1>1, <1>2 DEF Cert!Row

\* The plugins about roles, which are rated by the worst of a principal's
\* paths to them.
LEMMA RolePlugins ==
  ASSUME NEW p
  PROVE  Principal!GuestHoldsRole(p) \subseteq Scale /\ Principal!ServicePrincipalHoldsRole(p) \subseteq Scale
<1>1. Principal!GuestHoldsRole(p) \subseteq Scale
  <2> DEFINE tier(role) == IF role \in Principal!HighForGuests THEN Principal!High
                           ELSE IF role = "reader" THEN Principal!Low ELSE Principal!Medium
             steps(r) == (IF r.eligible /\ r.role \notin {"GA", "PRA"} THEN 1 ELSE 0) + (IF r.scoped THEN 1 ELSE 0)
             paths(role) == Principal!PathsIn(p, {role})
             down(role) == CHOOSE d \in {steps(r) : r \in paths(role)} : \A r \in paths(role) : d <= steps(r)
             held(role) == IF Principal!AllDisabled(paths(role)) THEN Principal!Low
                           ELSE Principal!Higher(Principal!Low, tier(role) - down(role))
  <2>1. Principal!GuestHoldsRole(p) \subseteq {held(r.role) : r \in Principal!PathsOf(p)}
    BY DEF Principal!GuestHoldsRole
  <2>2. ASSUME NEW path \in Principal!PathsOf(p) PROVE held(path.role) \in Scale
    <3> DEFINE role == path.role
    <3>1. path \in paths(role)
      BY DEF Principal!PathsIn
    <3>2. \A r : steps(r) \in {0, 1, 2}
      OBVIOUS
    <3>3. tier(role) \in {1, 2, 3}
      BY DEF Principal!High, Principal!Medium, Principal!Low
    <3> HIDE DEF steps, tier, paths, role
    <3>4. \E d \in {steps(r) : r \in paths(role)} : \A r \in paths(role) : d <= steps(r)
      <4>1. CASE \E r \in paths(role) : steps(r) = 0
        <5>1. PICK r \in paths(role) : steps(r) = 0
          BY <4>1
        <5>2. \A s \in paths(role) : steps(r) <= steps(s)
          BY <3>2, <5>1
        <5> QED BY <5>2
      <4>2. CASE (\A r \in paths(role) : steps(r) # 0) /\ \E r \in paths(role) : steps(r) = 1
        <5>1. PICK r \in paths(role) : steps(r) = 1
          BY <4>2
        <5>2. \A s \in paths(role) : steps(r) <= steps(s)
          BY <3>2, <4>2, <5>1
        <5> QED BY <5>2
      <4>3. CASE \A r \in paths(role) : steps(r) = 2
        <5>1. \A s \in paths(role) : steps(path) <= steps(s)
          BY <3>1, <4>3
        <5> QED BY <3>1, <5>1
      <4> QED BY <3>2, <4>1, <4>2, <4>3
    <3>5. down(role) \in {0, 1, 2}
      <4>1. down(role) \in {steps(r) : r \in paths(role)}
        BY <3>4
      <4> HIDE DEF down
      <4> QED BY <3>2, <4>1
    <3> HIDE DEF down
    <3>6. Principal!Higher(Principal!Low, tier(role) - down(role)) \in Scale
      BY <3>3, <3>5 DEF Principal!Higher, Principal!Low, Scale
    <3> QED BY <3>6 DEF Principal!Low, Scale, role
  <2> HIDE DEF held
  <2> QED BY <2>1, <2>2
<1>2. Principal!ServicePrincipalHoldsRole(p) \subseteq Scale
  <2> DEFINE paths == Principal!PathsIn(p, Principal!TierZeroRoles)
             rank(r) == (IF r.role \in Principal!TopTier THEN Principal!Critical ELSE Principal!High)
                          - (IF r.scoped THEN 1 ELSE 0)
             ranks == {rank(r) : r \in paths}
             less == IF Principal!AllDisabled(paths) THEN 1 ELSE 0
             some == p.type = "servicePrincipal" /\ paths # {}
  <2>1. Principal!ServicePrincipalHoldsRole(p)
          = Principal!Row(some, Principal!Higher(Principal!Low, Principal!Worst(ranks) - less))
    BY DEF Principal!ServicePrincipalHoldsRole
  <2>2. \A r : rank(r) \in {2, 3, 4}
    BY DEF Principal!Critical, Principal!High
  <2> HIDE DEF rank
  <2>3. ranks \subseteq {2, 3, 4} /\ (some => ranks # {})
    BY <2>2
  <2>4. less \in {0, 1}
    OBVIOUS
  <2> HIDE DEF ranks, less, some
  <2>5. some => Principal!Worst(ranks) \in {2, 3, 4}
    <3>1. ranks \subseteq Scale
      BY <2>3 DEF Scale
    <3> QED BY <2>3, <3>1, WorstOfRows
  <2>6. some => Principal!Higher(Principal!Low, Principal!Worst(ranks) - less) \in Scale
    BY <2>4, <2>5 DEF Principal!Higher, Principal!Low, Scale
  <2> QED BY <2>1, <2>6 DEF Principal!Row
<1> QED BY <1>1, <1>2

LEMMA PathRows ==
  ASSUME NEW p
  PROVE  ControlPathToTier0(p) \subseteq Scale
<1> DEFINE holders == Cardinality(Holders(p))
           path == Row(StartsWithPath(p) # {}, Critical)
           few == Row(holders >= SomeHolders,
                      IF holders >= MostHolders THEN High ELSE IF holders >= ManyHolders THEN Medium ELSE Low)
<1>1. ControlPathToTier0(p) = path \cup few
  BY DEF ControlPathToTier0
<1>2. path \subseteq Scale
  BY DEF Row, Critical, Scale
<1> HIDE DEF holders
<1>3. few \subseteq Scale
  BY DEF Row, High, Medium, Low, Scale
<1> QED BY <1>1, <1>2, <1>3

\* The plugins about user accounts.
LEMMA AccountsRated ==
  ASSUME NEW u
  PROVE  Account!AccountFindings(u) \subseteq Nat \X Scale
<1>1. /\ Account!ReversibleEncryption(u) \subseteq Scale
      /\ Account!AdministratorEnabled(u) \subseteq Scale
      /\ Account!GuestEnabled(u) \subseteq Scale
      /\ Account!KrbtgtPasswordAge(u) \subseteq Scale
      /\ Account!DormantAccount(u) \subseteq Scale
      /\ Account!SidHistory(u) \subseteq Scale
  BY DEF Scale, Account!Row, Account!Critical, Account!High, Account!Low, Account!Medium,
         Account!ReversibleEncryption, Account!AdministratorEnabled, Account!GuestEnabled,
         Account!KrbtgtPasswordAge, Account!DormantAccount, Account!SidHistory
<1>2. /\ Account!UnconstrainedDelegation(u) \subseteq Scale
      /\ Account!PrivilegedNoSmartcard(u) \subseteq Scale
      /\ Account!PrimaryGroupIdPrivileged(u) \subseteq Scale
      /\ Account!AccountLockedOut(u) \subseteq Scale
      /\ Account!BadPasswordAttempts(u) \subseteq Scale
      /\ Account!DesOnlyEnforced(u) \subseteq Scale
  BY DEF Scale, Account!Row, Account!Critical, Account!High, Account!Info, Account!Low,
         Account!UnconstrainedDelegation, Account!PrivilegedNoSmartcard, Account!PrimaryGroupIdPrivileged,
         Account!AccountLockedOut, Account!BadPasswordAttempts, Account!DesOnlyEnforced
<1>3. /\ Account!UserPrimaryGroupNondefault(u) \subseteq Scale
      /\ Account!UserSpnNoAes(u) \subseteq Scale
      /\ Account!UserStaleAdminCount(u) \subseteq Scale
      /\ Account!KerberoastableDcsyncChain(u) \subseteq Scale
      /\ Account!KerberoastableDangerousAclChain(u) \subseteq Scale
      /\ Account!AsrepRoastableDcsyncChain(u) \subseteq Scale
  BY DEF Scale, Account!Row, Account!ControlSeverity, Account!Critical, Account!High, Account!Low,
         Account!Medium, Account!UserPrimaryGroupNondefault, Account!UserSpnNoAes,
         Account!UserStaleAdminCount, Account!KerberoastableDcsyncChain,
         Account!KerberoastableDangerousAclChain, Account!AsrepRoastableDcsyncChain
<1>4. /\ Account!AsrepRoastableDangerousAclChain(u) \subseteq Scale
      /\ Account!PasswdNotreqdAclChain(u) \subseteq Scale
      /\ Account!UserRbcdTrustee(u) \subseteq Scale
      /\ Account!OwnerWeakUserChain(u) \subseteq Scale
      /\ Account!AdministratorRecentlyUsed(u) \subseteq Scale
      /\ Account!KrbtgtRbcd(u) \subseteq Scale
  BY DEF Scale, Account!Row, Account!ControlSeverity, Account!Critical, Account!High, Account!Low,
         Account!Medium, Account!AsrepRoastableDangerousAclChain, Account!PasswdNotreqdAclChain,
         Account!UserRbcdTrustee, Account!OwnerWeakUserChain, Account!AdministratorRecentlyUsed,
         Account!KrbtgtRbcd
<1>5. /\ Account!ConstrainedDelegationKrbtgt(u) \subseteq Scale
      /\ Account!PrivilegedPasswordAge(u) \subseteq Scale
      /\ Account!PrivilegedUserDelegatedOu(u) \subseteq Scale
      /\ Account!DesEncryptionEnabled(u) \subseteq Scale
      /\ Account!PrivilegedNotProtectedUsersGroup(u) \subseteq Scale
      /\ Account!PrivilegedMissingNotDelegatedFlag(u) \subseteq Scale
  BY DEF Scale, Account!Row, Account!Critical, Account!High, Account!Low, Account!Medium,
         Account!ConstrainedDelegationKrbtgt, Account!PrivilegedPasswordAge,
         Account!PrivilegedUserDelegatedOu, Account!DesEncryptionEnabled,
         Account!PrivilegedNotProtectedUsersGroup, Account!PrivilegedMissingNotDelegatedFlag
<1>6. /\ Account!DisabledPrivilegedAccount(u) \subseteq Scale
      /\ Account!UpnMatchesOtherSamAccountName(u) \subseteq Scale
      /\ Account!CleartextPasswordAttribute(u) \subseteq Scale
      /\ Account!NoAesKerberosKeys(u) \subseteq Scale
      /\ Account!WeakCertificateMapping(u) \subseteq Scale
      /\ Account!PrivilegedAccountMailbox(u) \subseteq Scale
  BY DEF Scale, Account!Row, Account!Critical, Account!ExposedSecretSeverity, Account!High, Account!Low,
         Account!Medium, Account!DisabledPrivilegedAccount, Account!UpnMatchesOtherSamAccountName,
         Account!CleartextPasswordAttribute, Account!NoAesKerberosKeys, Account!WeakCertificateMapping,
         Account!PrivilegedAccountMailbox
<1>7. /\ Account!ExpiredOrUnboundedTemporaryAccount(u) \subseteq Scale
      /\ Account!SharedGenericAccount(u) \subseteq Scale
      /\ Account!SmartcardStaticNtHash(u) \subseteq Scale
      /\ Account!KerberoastableOldPassword(u) \subseteq Scale
      /\ Account!OnpremPrivilegedNoEntra(u) \subseteq Scale
      /\ Account!EntraSyncAccountExposure(u) \subseteq Scale
  BY DEF Scale, Account!Row, Account!Critical, Account!High, Account!Info, Account!Low, Account!Medium,
         Account!ExpiredOrUnboundedTemporaryAccount, Account!SharedGenericAccount,
         Account!SmartcardStaticNtHash, Account!KerberoastableOldPassword, Account!OnpremPrivilegedNoEntra,
         Account!EntraSyncAccountExposure
<1>8. Account!KerberoastableAccount(u) \subseteq Scale
  BY DEF Scale, Account!Row, Account!AdminScore, Account!Higher, Account!TierScore,
         Account!KerberoastableAccount
<1> QED BY <1>1, <1>2, <1>3, <1>4, <1>5, <1>6, <1>7, <1>8, KeyPlugins, ScoredAccountPlugins DEF Account!AccountFindings, Account!Report

\* The plugins about computers.
LEMMA ComputersRated ==
  ASSUME NEW c
  PROVE  Computer!ComputerFindings(c) \subseteq Nat \X Scale
<1>1. /\ Computer!UnconstrainedDelegationComputer(c) \subseteq Scale
      /\ Computer!ProtocolTransitionDelegationComputer(c) \subseteq Scale
      /\ Computer!UnsupportedOs(c) \subseteq Scale
      /\ Computer!LapsNotManaged(c) \subseteq Scale
      /\ Computer!DormantComputer(c) \subseteq Scale
      /\ Computer!StaleComputerPassword(c) \subseteq Scale
  BY DEF Scale, Computer!Row, Computer!Critical, Computer!DcElse, Computer!High, Computer!Info, Computer!Low,
         Computer!Medium, Computer!UnconstrainedDelegationComputer,
         Computer!ProtocolTransitionDelegationComputer, Computer!UnsupportedOs, Computer!LapsNotManaged,
         Computer!DormantComputer, Computer!StaleComputerPassword
<1>2. /\ Computer!ComputerPrivilegedGroup(c) \subseteq Scale
      /\ Computer!ComputerReversibleEncryption(c) \subseteq Scale
      /\ Computer!ComputerPasswordInDescription(c) \subseteq Scale
      /\ Computer!ComputerSidHistory(c) \subseteq Scale
      /\ Computer!ComputerPrimaryGroupId(c) \subseteq Scale
      /\ Computer!ComputerPrimaryGroupNondefault(c) \subseteq Scale
  BY DEF Scale, Computer!Row, Computer!Critical, Computer!DcElse, Computer!High, Computer!Low,
         Computer!Medium, Computer!ComputerPrivilegedGroup, Computer!ComputerReversibleEncryption,
         Computer!ComputerPasswordInDescription, Computer!ComputerSidHistory,
         Computer!ComputerPrimaryGroupId, Computer!ComputerPrimaryGroupNondefault
<1>3. /\ Computer!ComputerNoAes(c) \subseteq Scale
      /\ Computer!DcInactive(c) \subseteq Scale
      /\ Computer!DcPwdRotation(c) \subseteq Scale
      /\ Computer!DcRegistrationConsistency(c) \subseteq Scale
      /\ Computer!ComputerRbcd(c) \subseteq Scale
      /\ Computer!UnconstrainedDelegAclChain(c) \subseteq Scale
  BY DEF Scale, Computer!Row, Computer!Critical, Computer!DcElse, Computer!High, Computer!Low,
         Computer!Medium, Computer!ComputerNoAes, Computer!DcInactive, Computer!DcPwdRotation,
         Computer!DcRegistrationConsistency, Computer!ComputerRbcd, Computer!UnconstrainedDelegAclChain
<1>4. /\ Computer!UnconstrainedDelegWeakChain(c) \subseteq Scale
      /\ Computer!AclPowerUnsupportedOsChain(c) \subseteq Scale
      /\ Computer!AclPowerDormantChain(c) \subseteq Scale
      /\ Computer!RbcdTrusteeWeakComputer(c) \subseteq Scale
      /\ Computer!OwnerWeakComputerChain(c) \subseteq Scale
      /\ Computer!AclPowerShadowCredsChain(c) \subseteq Scale
  BY DEF Scale, Computer!Row, Computer!Critical, Computer!High, Computer!Low, Computer!Medium,
         Computer!UnconstrainedDelegWeakChain, Computer!AclPowerUnsupportedOsChain,
         Computer!AclPowerDormantChain, Computer!RbcdTrusteeWeakComputer, Computer!OwnerWeakComputerChain,
         Computer!AclPowerShadowCredsChain
<1>5. /\ Computer!DcOwnerNotAdministrator(c) \subseteq Scale
      /\ Computer!ComputerNoPasswordSet(c) \subseteq Scale
      /\ Computer!DcNotInDefaultOu(c) \subseteq Scale
      /\ Computer!GmsaBroadPasswordReader(c) \subseteq Scale
      /\ Computer!GhostSpnDelegation(c) \subseteq Scale
      /\ Computer!ComputerNameWithoutDollar(c) \subseteq Scale
  BY DEF Scale, Computer!Row, Computer!Critical, Computer!High, Computer!Low, Computer!Medium,
         Computer!DcOwnerNotAdministrator, Computer!ComputerNoPasswordSet, Computer!DcNotInDefaultOu,
         Computer!GmsaBroadPasswordReader, Computer!GhostSpnDelegation, Computer!ComputerNameWithoutDollar
<1>6. /\ Computer!DuplicateDnsHostname(c) \subseteq Scale
      /\ Computer!RodcPrivilegedCredentialsCached(c) \subseteq Scale
      /\ Computer!LapsPasswordReadableByNonTier0(c) \subseteq Scale
      /\ Computer!DsrmPasswordNotManaged(c) \subseteq Scale
      /\ Computer!RodcRevealOnDemandPrivileged(c) \subseteq Scale
      /\ Computer!RodcNeverRevealMissingDefaults(c) \subseteq Scale
  BY DEF Scale, Computer!Row, Computer!Critical, Computer!High, Computer!Medium,
         Computer!DuplicateDnsHostname, Computer!RodcPrivilegedCredentialsCached,
         Computer!LapsPasswordReadableByNonTier0, Computer!DsrmPasswordNotManaged,
         Computer!RodcRevealOnDemandPrivileged, Computer!RodcNeverRevealMissingDefaults
<1>7. /\ Computer!ConstrainedDelegationToDc(c) \subseteq Scale
      /\ Computer!ComputerOwnedByNonAdmin(c) \subseteq Scale
      /\ Computer!RodcSysvolWritable(c) \subseteq Scale
      /\ Computer!DcSysvolReplicationDisabled(c) \subseteq Scale
      /\ Computer!SeamlessSsoKeyAge(c) \subseteq Scale
      /\ Computer!EntraConnectOnDomainController(c) \subseteq Scale
  BY DEF Scale, Computer!Row, Computer!Critical, Computer!High, Computer!Low, Computer!Medium,
         Computer!ConstrainedDelegationToDc, Computer!ComputerOwnedByNonAdmin, Computer!RodcSysvolWritable,
         Computer!DcSysvolReplicationDisabled, Computer!SeamlessSsoKeyAge,
         Computer!EntraConnectOnDomainController
<1>8. Computer!WeakKerberosEncryptionComputer(c) \subseteq Scale
  BY DEF Scale, Computer!Row, Computer!DcScore, Computer!Higher, Computer!Low,
         Computer!WeakKerberosEncryptionComputer
<1>9. Computer!ComputerPasswordNotRequired(c) \subseteq Scale
  BY DEF Scale, Computer!Row, Computer!DcElse, Computer!Higher, Computer!Low,
         Computer!ComputerPasswordNotRequired
<1>10. Computer!ComputerAsrepRoastable(c) \subseteq Scale
  BY DEF Scale, Computer!Row, Computer!DcScore, Computer!Higher, Computer!Low,
         Computer!ComputerAsrepRoastable
<1>11. Computer!ComputerDesOnly(c) \subseteq Scale
  BY DEF Scale, Computer!Row, Computer!DcScore, Computer!Higher, Computer!Low, Computer!ComputerDesOnly
<1> QED BY <1>1, <1>2, <1>3, <1>4, <1>5, <1>6, <1>7, <1>8, <1>9, <1>10, <1>11, KeyPlugins, WorstPlugins DEF Computer!ComputerFindings, Computer!Report

\* The plugins about groups.
LEMMA GroupsRated ==
  ASSUME NEW g
  PROVE  Group!GroupFindings(g) \subseteq Nat \X Scale
<1>1. /\ Group!GroupSidHistory(g) \subseteq Scale
      /\ Group!GroupPasswordInDescription(g) \subseteq Scale
      /\ Group!SchemaEnterpriseAdminsNotEmpty(g) \subseteq Scale
      /\ Group!PrivilegedGroupBloat(g) \subseteq Scale
      /\ Group!StaleAdminCountMarker(g) \subseteq Scale
      /\ Group!CircularGroupNesting(g) \subseteq Scale
  BY DEF Scale, Group!Row, Group!Critical, Group!High, Group!Low, Group!Medium, Group!GroupSidHistory,
         Group!GroupPasswordInDescription, Group!SchemaEnterpriseAdminsNotEmpty, Group!PrivilegedGroupBloat,
         Group!StaleAdminCountMarker, Group!CircularGroupNesting
<1>2. /\ Group!EmptySecurityGroup(g) \subseteq Scale
      /\ Group!NonstandardGroupInPrivilegedGroup(g) \subseteq Scale
      /\ Group!DistributionGroupAdminCount(g) \subseteq Scale
      /\ Group!DeepGroupNesting(g) \subseteq Scale
      /\ Group!AnomalousBuiltinFlag(g) \subseteq Scale
      /\ Group!Prewin2kGroupEveryone(g) \subseteq Scale
  BY DEF Scale, Group!Row, Group!High, Group!Info, Group!Low, Group!Medium, Group!EmptySecurityGroup,
         Group!NonstandardGroupInPrivilegedGroup, Group!DistributionGroupAdminCount, Group!DeepGroupNesting,
         Group!AnomalousBuiltinFlag, Group!Prewin2kGroupEveryone
<1>3. /\ Group!DnsAdminsMembership(g) \subseteq Scale
      /\ Group!AccountOperatorsMembership(g) \subseteq Scale
      /\ Group!BackupOperatorsMembership(g) \subseteq Scale
      /\ Group!AllowedRodcPwdReplicationGroup(g) \subseteq Scale
      /\ Group!ServerOperatorsMembership(g) \subseteq Scale
      /\ Group!PrintOperatorsMembership(g) \subseteq Scale
  BY DEF Scale, Group!Row, Group!Critical, Group!High, Group!Medium, Group!DnsAdminsMembership,
         Group!AccountOperatorsMembership, Group!BackupOperatorsMembership,
         Group!AllowedRodcPwdReplicationGroup, Group!ServerOperatorsMembership,
         Group!PrintOperatorsMembership
<1>4. /\ Group!CertPublishersUnexpectedMembers(g) \subseteq Scale
      /\ Group!GuestInPrivilegedGroup(g) \subseteq Scale
      /\ Group!PrivilegedMemberMissingAdminCount(g) \subseteq Scale
      /\ Group!KeyAdminsMembership(g) \subseteq Scale
      /\ Group!EaMemberAlsoDa(g) \subseteq Scale
      /\ Group!DaMemberAlsoEa(g) \subseteq Scale
  BY DEF Scale, Group!Row, Group!Critical, Group!High, Group!Low, Group!Medium,
         Group!CertPublishersUnexpectedMembers, Group!GuestInPrivilegedGroup,
         Group!PrivilegedMemberMissingAdminCount, Group!KeyAdminsMembership, Group!EaMemberAlsoDa,
         Group!DaMemberAlsoEa
<1>5. /\ Group!GpoCreatorIncomingTrustBuilders(g) \subseteq Scale
      /\ Group!ForeignPrincipalInPrivilegedGroup(g) \subseteq Scale
      /\ Group!NetworkConfigurationOperatorsMembership(g) \subseteq Scale
      /\ Group!SensitiveBuiltinGroupsNotEmpty(g) \subseteq Scale
      /\ Group!SidHistoryAuditGroup(g) \subseteq Scale
      /\ Group!Prewin2000UnexpectedMembers(g) \subseteq Scale
  BY DEF Scale, Group!Row, Group!High, Group!Info, Group!Low, Group!Medium,
         Group!GpoCreatorIncomingTrustBuilders, Group!ForeignPrincipalInPrivilegedGroup,
         Group!NetworkConfigurationOperatorsMembership, Group!SensitiveBuiltinGroupsNotEmpty,
         Group!SidHistoryAuditGroup, Group!Prewin2000UnexpectedMembers
<1> QED BY <1>1, <1>2, <1>3, <1>4, <1>5 DEF Group!GroupFindings, Group!Report

\* The plugins about trusts.
LEMMA TrustsRated ==
  ASSUME NEW t
  PROVE  Trust!TrustFindings(t) \subseteq Nat \X Scale
<1>1. /\ Trust!TrustNoSidFiltering(t) \subseteq Scale
      /\ Trust!TrustTreatAsExternal(t) \subseteq Scale
      /\ Trust!TrustMitRc4(t) \subseteq Scale
      /\ Trust!TrustDisabledPresent(t) \subseteq Scale
      /\ Trust!TrustDangerousAttributes(t) \subseteq Scale
      /\ Trust!TrustNoSelectiveAuth(t) \subseteq Scale
  BY DEF Scale, Trust!Row, Trust!High, Trust!Low, Trust!Medium, Trust!TrustNoSidFiltering,
         Trust!TrustTreatAsExternal, Trust!TrustMitRc4, Trust!TrustDisabledPresent,
         Trust!TrustDangerousAttributes, Trust!TrustNoSelectiveAuth
<1>2. /\ Trust!TrustNoAes(t) \subseteq Scale
      /\ Trust!TrustDownlevel(t) \subseteq Scale
      /\ Trust!TrustInactive(t) \subseteq Scale
  BY DEF Scale, Trust!Row, Trust!Low, Trust!Medium, Trust!TrustNoAes, Trust!TrustDownlevel,
         Trust!TrustInactive
<1> QED BY <1>1, <1>2 DEF Trust!TrustFindings, Trust!Report

\* The plugins about access control entries.
LEMMA EntriesRated ==
  ASSUME NEW a
  PROVE  Acl!AclFindings(a) \subseteq Nat \X Scale
<1>1. /\ Acl!DcsyncUnexpectedPrincipal(a) \subseteq Scale
      /\ Acl!AdminSdHolderDangerousRights(a) \subseteq Scale
      /\ Acl!DomainRootDangerousRights(a) \subseteq Scale
      /\ Acl!ReplicationManageTopology(a) \subseteq Scale
      /\ Acl!ReplicationSynchronize(a) \subseteq Scale
      /\ Acl!DomainRootAdminSdHolderOwner(a) \subseteq Scale
  BY DEF Scale, Acl!Row, Acl!Critical, Acl!High, Acl!Low, Acl!Medium, Acl!DcsyncUnexpectedPrincipal,
         Acl!AdminSdHolderDangerousRights, Acl!DomainRootDangerousRights, Acl!ReplicationManageTopology,
         Acl!ReplicationSynchronize, Acl!DomainRootAdminSdHolderOwner
<1>2. /\ Acl!PrivilegedObjectUnprivilegedOwner(a) \subseteq Scale
      /\ Acl!ReanimateTombstonesDomainRoot(a) \subseteq Scale
      /\ Acl!EnterpriseKeyAdminsExcessiveRights(a) \subseteq Scale
      /\ Acl!DomainRootDescendantDelegation(a) \subseteq Scale
      /\ Acl!AdminSdHolderInheritanceNotProtected(a) \subseteq Scale
      /\ Acl!GpoModifiableByNonTier0(a) \subseteq Scale
  BY DEF Scale, Acl!Row, Acl!Critical, Acl!High, Acl!Low, Acl!Medium, Acl!PrivilegedObjectUnprivilegedOwner,
         Acl!ReanimateTombstonesDomainRoot, Acl!EnterpriseKeyAdminsExcessiveRights,
         Acl!DomainRootDescendantDelegation, Acl!AdminSdHolderInheritanceNotProtected,
         Acl!GpoModifiableByNonTier0
<1>3. /\ Acl!GpoLinkRightsNonTier0(a) \subseteq Scale
      /\ Acl!TargetedAttributeWriteDelegation(a) \subseteq Scale
      /\ Acl!SchemaDefaultSdModified(a) \subseteq Scale
      /\ Acl!AdfsDkmKeyReadable(a) \subseteq Scale
      /\ Acl!BadSuccessorDmsaCreation(a) \subseteq Scale
      /\ Acl!DnsZoneWriteDelegation(a) \subseteq Scale
  BY DEF Scale, Acl!Row, Acl!Critical, Acl!High, Acl!Medium, Acl!GpoLinkRightsNonTier0,
         Acl!TargetedAttributeWriteDelegation, Acl!SchemaDefaultSdModified, Acl!AdfsDkmKeyReadable,
         Acl!BadSuccessorDmsaCreation, Acl!DnsZoneWriteDelegation
<1>4. /\ Acl!KdsRootKeyReadable(a) \subseteq Scale
      /\ Acl!AdidnsAnyUserCreateRecords(a) \subseteq Scale
  BY DEF Scale, Acl!Row, Acl!Critical, Acl!Low, Acl!Medium, Acl!KdsRootKeyReadable,
         Acl!AdidnsAnyUserCreateRecords
<1>5. Acl!DangerousExtendedRightsDelegated(a) \subseteq Scale
  BY DEF Scale, Acl!Row, Acl!High, Acl!Low, Acl!Medium, Acl!DangerousExtendedRightsDelegated
<1> QED BY <1>1, <1>2, <1>3, <1>4, <1>5 DEF Acl!AclFindings, Acl!Report

\* The plugins about the domain.
LEMMA DomainsRated ==
  ASSUME NEW d
  PROVE  Domain!DomainFindings(d) \subseteq Nat \X Scale
<1>1. /\ Domain!DomainComplexityDisabled(d) \subseteq Scale
      /\ Domain!DomainMinLength(d) \subseteq Scale
      /\ Domain!DomainLockoutDisabled(d) \subseteq Scale
      /\ Domain!DomainMaxPwdAge(d) \subseteq Scale
      /\ Domain!DomainMinPwdAgeZero(d) \subseteq Scale
      /\ Domain!DomainPwdHistory(d) \subseteq Scale
  BY DEF Scale, Domain!Row, Domain!High, Domain!Low, Domain!Medium, Domain!DomainComplexityDisabled,
         Domain!DomainMinLength, Domain!DomainLockoutDisabled, Domain!DomainMaxPwdAge,
         Domain!DomainMinPwdAgeZero, Domain!DomainPwdHistory
<1>2. /\ Domain!DomainLockoutDuration(d) \subseteq Scale
      /\ Domain!DomainFunctionalLevel(d) \subseteq Scale
      /\ Domain!MachineAccountQuota(d) \subseteq Scale
      /\ Domain!DomainReversibleEncryption(d) \subseteq Scale
      /\ Domain!TombstoneLifetime(d) \subseteq Scale
      /\ Domain!LapsSchemaAbsent(d) \subseteq Scale
  BY DEF Scale, Domain!Row, Domain!Critical, Domain!High, Domain!Info, Domain!Low, Domain!Medium,
         Domain!DomainLockoutDuration, Domain!DomainFunctionalLevel, Domain!MachineAccountQuota,
         Domain!DomainReversibleEncryption, Domain!TombstoneLifetime, Domain!LapsSchemaAbsent
<1>3. /\ Domain!DomainPermitsCleartextChange(d) \subseteq Scale
      /\ Domain!DomainAdminLockout(d) \subseteq Scale
      /\ Domain!DsHeuristicsAnonymous(d) \subseteq Scale
      /\ Domain!ReplicationConflictObject(d) \subseteq Scale
      /\ Domain!ForestExcessivePrivilegedAccounts(d) \subseteq Scale
      /\ Domain!FrsSysvolDeprecated(d) \subseteq Scale
  BY DEF Scale, Domain!Row, Domain!High, Domain!Info, Domain!Low, Domain!Medium,
         Domain!DomainPermitsCleartextChange, Domain!DomainAdminLockout, Domain!DsHeuristicsAnonymous,
         Domain!ReplicationConflictObject, Domain!ForestExcessivePrivilegedAccounts,
         Domain!FrsSysvolDeprecated
<1>4. /\ Domain!DefaultContainerRedirected(d) \subseteq Scale
      /\ Domain!SubnetNotAssociatedWithSite(d) \subseteq Scale
      /\ Domain!JavaSchemaExtension(d) \subseteq Scale
      /\ Domain!SchemaPossSuperiorAbuse(d) \subseteq Scale
      /\ Domain!ReplicationConflictCnfObject(d) \subseteq Scale
      /\ Domain!DnsZoneNonsecureDynamicUpdates(d) \subseteq Scale
  BY DEF Scale, Domain!Row, Domain!High, Domain!Info, Domain!Low, Domain!Medium,
         Domain!DefaultContainerRedirected, Domain!SubnetNotAssociatedWithSite, Domain!JavaSchemaExtension,
         Domain!SchemaPossSuperiorAbuse, Domain!ReplicationConflictCnfObject,
         Domain!DnsZoneNonsecureDynamicUpdates
<1>5. /\ Domain!SingleDomainController(d) \subseteq Scale
      /\ Domain!HiddenUnicodeInPrincipalName(d) \subseteq Scale
      /\ Domain!DuplicateSpn(d) \subseteq Scale
      /\ Domain!SpnAliasShadowing(d) \subseteq Scale
      /\ Domain!UpnSpnUniquenessDisabled(d) \subseteq Scale
      /\ Domain!RecycleBinDisabled(d) \subseteq Scale
  BY DEF Scale, Domain!Row, Domain!Critical, Domain!High, Domain!Low, Domain!Medium,
         Domain!SingleDomainController, Domain!HiddenUnicodeInPrincipalName, Domain!DuplicateSpn,
         Domain!SpnAliasShadowing, Domain!UpnSpnUniquenessDisabled, Domain!RecycleBinDisabled
<1>6. /\ Domain!NoRecentAdBackup(d) \subseteq Scale
      /\ Domain!SchemaBehindDcOs(d) \subseteq Scale
      /\ Domain!NoKdsRootKey(d) \subseteq Scale
      /\ Domain!Tier0NoAuthnSilo(d) \subseteq Scale
      /\ Domain!ServiceAccountWeakPasswordPolicy(d) \subseteq Scale
      /\ Domain!DsHeuristicsRiskySettings(d) \subseteq Scale
  BY DEF Scale, Domain!Row, Domain!High, Domain!Info, Domain!Low, Domain!Medium, Domain!Worst,
         Domain!NoRecentAdBackup, Domain!SchemaBehindDcOs, Domain!NoKdsRootKey, Domain!Tier0NoAuthnSilo,
         Domain!ServiceAccountWeakPasswordPolicy, Domain!DsHeuristicsRiskySettings
<1>7. /\ Domain!UnauthenticatedBindAllowed(d) \subseteq Scale
      /\ Domain!DsHeuristicsAdminSdExMask(d) \subseteq Scale
      /\ Domain!ProtectedUsersGroupMissing(d) \subseteq Scale
      /\ Domain!LogonScriptOutsideDomain(d) \subseteq Scale
      /\ Domain!DisplaySpecifierContextMenu(d) \subseteq Scale
      /\ Domain!AdfsDeployedPatchAdvisory(d) \subseteq Scale
  BY DEF Scale, Domain!Row, Domain!High, Domain!Info, Domain!Low, Domain!Medium,
         Domain!UnauthenticatedBindAllowed, Domain!DsHeuristicsAdminSdExMask,
         Domain!ProtectedUsersGroupMissing, Domain!LogonScriptOutsideDomain,
         Domain!DisplaySpecifierContextMenu, Domain!AdfsDeployedPatchAdvisory
<1> QED BY <1>1, <1>2, <1>3, <1>4, <1>5, <1>6, <1>7 DEF Domain!DomainFindings, Domain!Report

\* The plugins about certificate services.
LEMMA CertificatesRated ==
  ASSUME NEW c
  PROVE  Cert!CertFindings(c) \subseteq Nat \X Scale
<1>1. /\ Cert!CertTemplateEsc1Pattern(c) \subseteq Scale
      /\ Cert!CertTemplateEsc2AnyPurpose(c) \subseteq Scale
      /\ Cert!CertTemplateEsc9NoSecurityExtension(c) \subseteq Scale
      /\ Cert!CertTemplateEsc3EnrollmentAgent(c) \subseteq Scale
      /\ Cert!NtAuthUnknownCa(c) \subseteq Scale
      /\ Cert!CertTemplateAclEsc4(c) \subseteq Scale
  BY DEF Scale, Cert!Row, Cert!Critical, Cert!High, Cert!Low, Cert!Medium, Cert!CertTemplateEsc1Pattern,
         Cert!CertTemplateEsc2AnyPurpose, Cert!CertTemplateEsc9NoSecurityExtension,
         Cert!CertTemplateEsc3EnrollmentAgent, Cert!NtAuthUnknownCa, Cert!CertTemplateAclEsc4
<1>2. /\ Cert!PkiInfrastructureAclEsc5(c) \subseteq Scale
      /\ Cert!CaObjectAclEsc7(c) \subseteq Scale
      /\ Cert!CertTemplateEsc13(c) \subseteq Scale
      /\ Cert!CertTemplateEsc15V1Schema(c) \subseteq Scale
      /\ Cert!CesEnrollmentOverHttp(c) \subseteq Scale
      /\ Cert!NdesDeployed(c) \subseteq Scale
  BY DEF Scale, Cert!Row, Cert!Critical, Cert!High, Cert!Low, Cert!Medium, Cert!PkiInfrastructureAclEsc5,
         Cert!CaObjectAclEsc7, Cert!CertTemplateEsc13, Cert!CertTemplateEsc15V1Schema,
         Cert!CesEnrollmentOverHttp, Cert!NdesDeployed
<1>3. Cert!CertighostChasePreconditions(c) \subseteq Scale
  BY DEF Scale, Cert!Row, Cert!High, Cert!Medium, Cert!CertighostChasePreconditions
<1> QED BY <1>1, <1>2, <1>3, WeakKeyPlugin, WorstPlugins DEF Cert!CertFindings, Cert!Report

\* The plugins about organizational units.
LEMMA OusRated ==
  ASSUME NEW o
  PROVE  Gpo!OuFindings(o) \subseteq Nat \X Scale
<1>1. /\ Gpo!OuDangerousRights(o) \subseteq Scale
      /\ Gpo!OuUnexpectedOwner(o) \subseteq Scale
      /\ Gpo!OuBlockInheritance(o) \subseteq Scale
      /\ Gpo!OuEmpty(o) \subseteq Scale
      /\ Gpo!OuNotProtectedFromDeletion(o) \subseteq Scale
  BY DEF Scale, Gpo!Row, Gpo!High, Gpo!Info, Gpo!Low, Gpo!OuDangerousRights, Gpo!OuUnexpectedOwner,
         Gpo!OuBlockInheritance, Gpo!OuEmpty, Gpo!OuNotProtectedFromDeletion
<1> QED BY <1>1 DEF Gpo!OuFindings, Gpo!Report

\* The plugins about group policies.
LEMMA GposRated ==
  ASSUME NEW g
  PROVE  Gpo!GpoFindings(g) \subseteq Nat \X Scale
<1>1. /\ Gpo!GpoNotLinked(g) \subseteq Scale
      /\ Gpo!GpoLinkDisabled(g) \subseteq Scale
      /\ Gpo!DefaultGpoMissingUnlinked(g) \subseteq Scale
      /\ Gpo!GppCpassword(g) \subseteq Scale
      /\ Gpo!SysvolStoredCredentials(g) \subseteq Scale
      /\ Gpo!WdigestCleartextCredentials(g) \subseteq Scale
  BY DEF Scale, Gpo!Row, Gpo!Critical, Gpo!High, Gpo!Low, Gpo!GpoNotLinked, Gpo!GpoLinkDisabled,
         Gpo!DefaultGpoMissingUnlinked, Gpo!GppCpassword, Gpo!SysvolStoredCredentials,
         Gpo!WdigestCleartextCredentials
<1>2. /\ Gpo!GpoBroadLocalAdmins(g) \subseteq Scale
      /\ Gpo!GpoSysvolUnreadableOrMissing(g) \subseteq Scale
      /\ Gpo!GpoVersionMismatch(g) \subseteq Scale
      /\ Gpo!GpoScriptOutsideDomain(g) \subseteq Scale
      /\ Gpo!GpoFileDeployedFromOutsideDomain(g) \subseteq Scale
      /\ Gpo!ScriptFileTypesNotOpenedInNotepad(g) \subseteq Scale
  BY DEF Scale, Gpo!Row, Gpo!Critical, Gpo!High, Gpo!Info, Gpo!Low, Gpo!Medium, Gpo!GpoBroadLocalAdmins,
         Gpo!GpoSysvolUnreadableOrMissing, Gpo!GpoVersionMismatch, Gpo!GpoScriptOutsideDomain,
         Gpo!GpoFileDeployedFromOutsideDomain, Gpo!ScriptFileTypesNotOpenedInNotepad
<1> QED BY <1>1, <1>2 DEF Gpo!GpoFindings, Gpo!Report

\* The plugins about settings of domain controllers.
LEMMA SettingsRated ==
  ASSUME NEW c
  PROVE  Setting!SettingFindings(c) \subseteq Nat \X Scale
<1>1. /\ Setting!DcLdapSigningNotRequired(c) \subseteq Scale
      /\ Setting!DcLdapChannelBindingNotEnforced(c) \subseteq Scale
      /\ Setting!DcSmbSigningNotRequired(c) \subseteq Scale
      /\ Setting!DcLmNtlmv1Accepted(c) \subseteq Scale
      /\ Setting!KerberosPolicyWeak(c) \subseteq Scale
      /\ Setting!DcDangerousUserRights(c) \subseteq Scale
  BY DEF Scale, Setting!Row, Setting!Critical, Setting!High, Setting!Low, Setting!Medium,
         Setting!DcLdapSigningNotRequired, Setting!DcLdapChannelBindingNotEnforced,
         Setting!DcSmbSigningNotRequired, Setting!DcLmNtlmv1Accepted, Setting!KerberosPolicyWeak,
         Setting!DcDangerousUserRights
<1>2. /\ Setting!DcAuditPolicyIncomplete(c) \subseteq Scale
      /\ Setting!DcPrintSpoolerNotDisabled(c) \subseteq Scale
      /\ Setting!DcLsaProtectionNotEnforced(c) \subseteq Scale
      /\ Setting!DcAnonymousAccessAllowed(c) \subseteq Scale
      /\ Setting!BroadUserRightsAnyGpo(c) \subseteq Scale
      /\ Setting!NoTier0LogonRestriction(c) \subseteq Scale
  BY DEF Scale, Setting!Row, Setting!High, Setting!Low, Setting!Medium, Setting!DcAuditPolicyIncomplete,
         Setting!DcPrintSpoolerNotDisabled, Setting!DcLsaProtectionNotEnforced,
         Setting!DcAnonymousAccessAllowed, Setting!BroadUserRightsAnyGpo, Setting!NoTier0LogonRestriction
<1>3. /\ Setting!RecoveryConsoleAutoAdminLogon(c) \subseteq Scale
      /\ Setting!WsusInsecureConfiguration(c) \subseteq Scale
      /\ Setting!LdapClientSigningDisabled(c) \subseteq Scale
      /\ Setting!UncHardenedPathsNotEnforced(c) \subseteq Scale
      /\ Setting!LlmnrNotDisabled(c) \subseteq Scale
      /\ Setting!PowershellLoggingNotEnabled(c) \subseteq Scale
  BY DEF Scale, Setting!Row, Setting!High, Setting!Low, Setting!Medium, Setting!OnDc,
         Setting!RecoveryConsoleAutoAdminLogon, Setting!WsusInsecureConfiguration,
         Setting!LdapClientSigningDisabled, Setting!UncHardenedPathsNotEnforced, Setting!LlmnrNotDisabled,
         Setting!PowershellLoggingNotEnabled
<1>4. /\ Setting!DcRefuseMachinePasswordChange(c) \subseteq Scale
      /\ Setting!DcWebclientNotDisabled(c) \subseteq Scale
      /\ Setting!BlankPasswordNetworkLogon(c) \subseteq Scale
      /\ Setting!KerberosArmoringNotEnabled(c) \subseteq Scale
      /\ Setting!RdpSessionHardeningNotConfigured(c) \subseteq Scale
      /\ Setting!DefenderAsrNotConfigured(c) \subseteq Scale
  BY DEF Scale, Setting!Row, Setting!High, Setting!Info, Setting!Low, Setting!Medium, Setting!OnDc,
         Setting!DcRefuseMachinePasswordChange, Setting!DcWebclientNotDisabled,
         Setting!BlankPasswordNetworkLogon, Setting!KerberosArmoringNotEnabled,
         Setting!RdpSessionHardeningNotConfigured, Setting!DefenderAsrNotConfigured
<1>5. /\ Setting!ScriptHostsNotFirewalled(c) \subseteq Scale
      /\ Setting!KerberosRc4ReenabledByPolicy(c) \subseteq Scale
      /\ Setting!NetlogonVulnerableChannelAllowed(c) \subseteq Scale
  BY DEF Scale, Setting!Row, Setting!Critical, Setting!High, Setting!Info, Setting!Medium,
         Setting!ScriptHostsNotFirewalled, Setting!KerberosRc4ReenabledByPolicy,
         Setting!NetlogonVulnerableChannelAllowed
<1> QED BY <1>1, <1>2, <1>3, <1>4, <1>5 DEF Setting!SettingFindings, Setting!Report

\* The plugins about principals of the tenant.
LEMMA PrincipalsRated ==
  ASSUME NEW p
  PROVE  Principal!TenantFindings(p) \subseteq Nat \X Scale
<1>1. /\ Principal!CloudOnlyGlobalAdmin(p) \subseteq Scale
      /\ Principal!PrivilegedInBoth(p) \subseteq Scale
      /\ Principal!ClientSecretLifetime(p) \subseteq Scale
      /\ Principal!DangerousGraphPermission(p) \subseteq Scale
      /\ Principal!GlobalAdminCount(p) \subseteq Scale
      /\ Principal!PermanentRoleAssignment(p) \subseteq Scale
  BY DEF Scale, Principal!Row, Principal!Critical, Principal!High, Principal!Info, Principal!Low,
         Principal!Medium, Principal!CloudOnlyGlobalAdmin, Principal!PrivilegedInBoth,
         Principal!ClientSecretLifetime, Principal!DangerousGraphPermission, Principal!GlobalAdminCount,
         Principal!PermanentRoleAssignment
<1>2. /\ Principal!SyncedAccountHoldsRole(p) \subseteq Scale
      /\ Principal!NoMfaMethod(p) \subseteq Scale
      /\ Principal!NoPhishingResistantMethod(p) \subseteq Scale
      /\ Principal!DormantUser(p) \subseteq Scale
      /\ Principal!DormantPrivilegedUser(p) \subseteq Scale
      /\ Principal!DormantGuest(p) \subseteq Scale
  BY DEF Scale, Principal!Row, Principal!High, Principal!Low, Principal!Medium,
         Principal!SyncedAccountHoldsRole, Principal!NoMfaMethod, Principal!NoPhishingResistantMethod,
         Principal!DormantUser, Principal!DormantPrivilegedUser, Principal!DormantGuest
<1>3. /\ Principal!DisabledAccountHoldsRole(p) \subseteq Scale
      /\ Principal!PrivilegedUserWithServices(p) \subseteq Scale
  BY DEF Scale, Principal!Row, Principal!Low, Principal!Medium, Principal!DisabledAccountHoldsRole,
         Principal!PrivilegedUserWithServices
<1> QED BY <1>1, <1>2, <1>3, RolePlugins, WorstPlugins DEF Principal!TenantFindings, Principal!Report

\* The plugins about Conditional Access.
LEMMA AccessRated ==
  ASSUME NEW a
  PROVE  Access!AccessFindings(a) \subseteq Nat \X Scale
<1>1. /\ Access!MfaNotEnforced(a) \subseteq Scale
      /\ Access!LegacyAuthNotBlocked(a) \subseteq Scale
      /\ Access!PhishingResistantMfa(a) \subseteq Scale
      /\ Access!PolicyNotEnforced(a) \subseteq Scale
      /\ Access!DeviceCodeNotBlocked(a) \subseteq Scale
      /\ Access!PrivilegedAccessUnmanaged(a) \subseteq Scale
  BY DEF Scale, Access!Row, Access!Critical, Access!High, Access!Info, Access!Low, Access!Medium,
         Access!MfaNotEnforced, Access!LegacyAuthNotBlocked, Access!PhishingResistantMfa,
         Access!PolicyNotEnforced, Access!DeviceCodeNotBlocked, Access!PrivilegedAccessUnmanaged
<1>2. /\ Access!PrivilegedSessionsUnlimited(a) \subseteq Scale
      /\ Access!RegistrationUnprotected(a) \subseteq Scale
      /\ Access!PortalsNotCovered(a) \subseteq Scale
      /\ Access!UserExcluded(a) \subseteq Scale
      /\ Access!StaleReferences(a) \subseteq Scale
      /\ Access!OverTrustedLocation(a) \subseteq Scale
  BY DEF Scale, Access!Row, Access!High, Access!Low, Access!Medium, Access!PrivilegedSessionsUnlimited,
         Access!RegistrationUnprotected, Access!PortalsNotCovered, Access!UserExcluded,
         Access!StaleReferences, Access!OverTrustedLocation
<1>3. /\ Access!ManagedPolicyOff(a) \subseteq Scale
      /\ Access!ContinuousEvaluationOff(a) \subseteq Scale
      /\ Access!TokenProtectionMissing(a) \subseteq Scale
      /\ Access!RiskyAgentsNotBlocked(a) \subseteq Scale
  BY DEF Scale, Access!Row, Access!Low, Access!Medium, Access!ManagedPolicyOff,
         Access!ContinuousEvaluationOff, Access!TokenProtectionMissing, Access!RiskyAgentsNotBlocked
<1>4. Access!RiskPoliciesMissing(a) \subseteq Scale
  BY DEF Scale, Access!Row, Access!High, Access!RiskPoliciesMissing
<1> QED BY <1>1, <1>2, <1>3, <1>4 DEF Access!AccessFindings, Access!Report

\* The plugins about changes of the directory.
LEMMA ChangesRated ==
  ASSUME NEW b, NEW m, NEW n
  PROVE  Change!ChangeFindings(b, m, n) \subseteq Nat \X Scale
<1>1. /\ Change!NewMachineAccount(b, m, n) \subseteq Scale
      /\ Change!AccountReenabled(b, n) \subseteq Scale
      /\ Change!NewPrivilegedGroupMember(b, m, n) \subseteq Scale
      /\ Change!NewSpnOnUser(b, m, n) \subseteq Scale
      /\ Change!NewRbcdDelegation(b, m, n) \subseteq Scale
      /\ Change!TemplateNewlyPublished(b, m, n) \subseteq Scale
  BY DEF Scale, Change!Row, Change!Critical, Change!High, Change!Low, Change!Medium,
         Change!NewMachineAccount, Change!AccountReenabled, Change!NewPrivilegedGroupMember,
         Change!NewSpnOnUser, Change!NewRbcdDelegation, Change!TemplateNewlyPublished
<1>2. /\ Change!NewDcSyncGrant(b, n) \subseteq Scale
      /\ Change!PrincipalNameRecentlyModified(n) \subseteq Scale
      /\ Change!NewOrModifiedTrust(b, n) \subseteq Scale
      /\ Change!NewPermissionOnTier0Container(b, n) \subseteq Scale
      /\ Change!NewDomainController(b, n) \subseteq Scale
      /\ Change!DomainSecuritySettingChanged(b, n) \subseteq Scale
  BY DEF Scale, Change!Row, Change!Critical, Change!High, Change!Low, Change!Medium, Change!NewDcSyncGrant,
         Change!PrincipalNameRecentlyModified, Change!NewOrModifiedTrust,
         Change!NewPermissionOnTier0Container, Change!NewDomainController,
         Change!DomainSecuritySettingChanged
<1>3. /\ Change!CertTemplateChanged(b, n) \subseteq Scale
      /\ Change!PrivilegedAccountLostProtection(b, n) \subseteq Scale
      /\ Change!NonsecureUpdatesEnabled(b, n) \subseteq Scale
  BY DEF Scale, Change!Row, Change!Critical, Change!High, Change!Low, Change!Medium,
         Change!CertTemplateChanged, Change!PrivilegedAccountLostProtection, Change!NonsecureUpdatesEnabled
<1>4. Change!TierZeroGpoChangedOrLinked(b, n) \subseteq Scale
  BY DEF Scale, Change!Row, Change!High, Change!Medium, Change!TierZeroGpoChangedOrLinked
<1>5. Change!DangerousAccountFlagSet(b, n) \subseteq Scale
  BY DEF Scale, Change!Row, Change!Critical, Change!High, Change!Medium, Change!DangerousAccountFlagSet
<1>6. Change!SidHistoryOrKeyCredentialAdded(b, n) \subseteq Scale
  BY DEF Scale, Change!Row, Change!Higher, Change!SidHistoryOrKeyCredentialAdded
<1>7. Change!CertMappingAdded(b, n) \subseteq Scale
  BY DEF Scale, Change!Row, Change!CertMappingAdded
<1>8. Change!DcGpoSettingsChanged(b, m, n) \subseteq Scale
  BY DEF Scale, Change!Row, Change!High, Change!Medium, Change!DcGpoSettingsChanged
<1> QED BY <1>1, <1>2, <1>3, <1>4, <1>5, <1>6, <1>7, <1>8 DEF Change!ChangeFindings, Change!Report

\* The plugins about changes of the tenant.
LEMMA TenantChangesRated ==
  ASSUME NEW b, NEW n
  PROVE  TenantChange!TenantChangeFindings(b, n) \subseteq Nat \X Scale
<1>1. /\ TenantChange!NewPrivilegedRoleAssignment(b, n) \subseteq Scale
      /\ TenantChange!FederationConfigurationChanged(b, n) \subseteq Scale
      /\ TenantChange!NewAppCredential(b, n) \subseteq Scale
      /\ TenantChange!NewAppPermissionGrant(b, n) \subseteq Scale
      /\ TenantChange!ConditionalAccessWeakened(b, n) \subseteq Scale
      /\ TenantChange!TenantPolicyLoosened(b, n) \subseteq Scale
  BY DEF Scale, TenantChange!Row, TenantChange!Critical, TenantChange!High, TenantChange!Low,
         TenantChange!Medium, TenantChange!NewPrivilegedRoleAssignment,
         TenantChange!FederationConfigurationChanged, TenantChange!NewAppCredential,
         TenantChange!NewAppPermissionGrant, TenantChange!ConditionalAccessWeakened,
         TenantChange!TenantPolicyLoosened
<1>2. /\ TenantChange!NewOwner(b, n) \subseteq Scale
      /\ TenantChange!NewPartnerRelationship(b, n) \subseteq Scale
      /\ TenantChange!NewMemberOfSensitiveGroup(b, n) \subseteq Scale
      /\ TenantChange!NewFederatedIdentityCredential(b, n) \subseteq Scale
      /\ TenantChange!PimRoleSettingsWeakened(b, n) \subseteq Scale
  BY DEF Scale, TenantChange!Row, TenantChange!Critical, TenantChange!High, TenantChange!Medium,
         TenantChange!NewOwner, TenantChange!NewPartnerRelationship, TenantChange!NewMemberOfSensitiveGroup,
         TenantChange!NewFederatedIdentityCredential, TenantChange!PimRoleSettingsWeakened
<1> QED BY <1>1, <1>2 DEF TenantChange!TenantChangeFindings, TenantChange!Report

LEMMA PathsRated ==
  ASSUME NEW p
  PROVE  Report(5021, ControlPathToTier0(p)) \subseteq Nat \X Scale
<1> QED BY PathRows DEF Report

LEMMA FindingsRated ==
  ASSUME NEW f \in Families, NEW b, NEW m, NEW n
  PROVE  Findings(f, b, m, n) \subseteq Nat \X Severities
<1>1. Scale = Severities
  BY DEF Scale, Severities, Info, Critical
<1>2. CASE f = "account"
  BY <1>1, <1>2, FindingsByFamily, AccountsRated
<1>3. CASE f = "computer"
  BY <1>1, <1>3, FindingsByFamily, ComputersRated
<1>4. CASE f = "group"
  BY <1>1, <1>4, FindingsByFamily, GroupsRated
<1>5. CASE f = "trust"
  BY <1>1, <1>5, FindingsByFamily, TrustsRated
<1>6. CASE f = "acl"
  BY <1>1, <1>6, FindingsByFamily, EntriesRated
<1>7. CASE f = "domain"
  BY <1>1, <1>7, FindingsByFamily, DomainsRated
<1>8. CASE f = "certificate"
  BY <1>1, <1>8, FindingsByFamily, CertificatesRated
<1>9. CASE f = "ou"
  BY <1>1, <1>9, FindingsByFamily, OusRated
<1>10. CASE f = "gpo"
  BY <1>1, <1>10, FindingsByFamily, GposRated
<1>11. CASE f = "settings"
  BY <1>1, <1>11, FindingsByFamily, SettingsRated
<1>12. CASE f = "application"
  BY <1>12, FindingsByFamily
<1>13. CASE f = "paths"
  BY <1>1, <1>13, FindingsByFamily, PathsRated
<1>14. CASE f = "principal"
  BY <1>1, <1>14, FindingsByFamily, PrincipalsRated
<1>15. CASE f = "access"
  BY <1>1, <1>15, FindingsByFamily, AccessRated
<1>16. CASE f = "directory"
  BY <1>1, <1>16, FindingsByFamily, ChangesRated
<1>17. CASE f = "tenant"
  BY <1>1, <1>17, FindingsByFamily, TenantChangesRated
<1> QED BY <1>2, <1>3, <1>4, <1>5, <1>6, <1>7, <1>8, <1>9, <1>10, <1>11, <1>12, <1>13, <1>14, <1>15, <1>16, <1>17
        DEF Families, ChangeFamilies

Rated == findings \subseteq Nat \X Severities

LEMMA RatedInit == Init => Rated
<1> SUFFICES ASSUME Init PROVE Rated
  OBVIOUS
<1>1. PICK base \in Bases :
        findings = IF base[1] \in ChangeFamilies THEN {} ELSE Findings(base[1], Null, Null, base[2])
  BY DEF Init
<1>2. Findings(base[1], Null, Null, base[2]) \subseteq Nat \X Severities
  BY BasesAssumption, FindingsRated
<1> QED BY <1>1, <1>2 DEF Rated

LEMMA RatedNext == ObjectsInv /\ Rated /\ [Next]_vars => Rated'
<1> SUFFICES ASSUME ObjectsInv, Rated, [Next]_vars PROVE Rated'
  OBVIOUS
<1>1. family \in Families
  BY DEF ObjectsInv
<1>2. CASE Reassess
  <2>1. findings' = Findings(family, Null, Null, now')
    BY <1>2 DEF Reassess
  <2> QED BY <1>1, <2>1, FindingsRated DEF Rated
<1>3. CASE Edit
  BY <1>3 DEF Edit, Rated
<1>4. CASE Collect
  <2>1. findings' = Findings(family, before, found, now)
    BY <1>4 DEF Collect
  <2> QED BY <1>1, <2>1, FindingsRated DEF Rated
<1>5. CASE Interrupt
  BY <1>5 DEF Interrupt, Rated
<1>6. CASE UNCHANGED vars
  BY <1>6 DEF Rated, vars
<1> QED BY <1>2, <1>3, <1>4, <1>5, <1>6 DEF Next

\* The object stays one of its family, and every row of every plugin has one
\* of the five severities that the findings table takes.
THEOREM PluginsTypeCorrect == Spec => []TypeOK
<1>1. ObjectsInv /\ Rated => TypeOK
  <2> SUFFICES ASSUME ObjectsInv, Rated PROVE TypeOK
    OBVIOUS
  <2>1. \A x \in {before, found} : x = Null \/ DOMAIN x = DOMAIN now
    BY DEF ObjectsInv, ObjectOf
  <2> QED BY <2>1 DEF ObjectsInv, Rated, TypeOK
<1> QED BY ObjectsInit, ObjectsNext, RatedInit, RatedNext, <1>1, PTL DEF Spec
=============================================================================
