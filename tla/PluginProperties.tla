-------------------------- MODULE PluginProperties --------------------------
(***************************************************************************)
(* What the plugins of module Plugins promise together.  Their queries are *)
(* written one by one; these properties are about what could fall between  *)
(* two of them, about what a rating makes of a change for the worse, and   *)
(* about what change detection makes of changes and of their absence.      *)
(***************************************************************************)
EXTENDS Plugins

\* Type invariant.  The object stays one of its family, and every row has one
\* of the five severities of the findings table.
TypeOK ==
    /\ family \in Families
    /\ ObjectOf(family, now)
    /\ altered \subseteq DOMAIN now
    /\ \A x \in {before, found} : x = Null \/ DOMAIN x = DOMAIN now
    /\ findings \subseteq Nat \X Severities

ReportedBy == {f[1] : f \in findings}

-----------------------------------------------------------------------------
(* What one plugin leaves to another.                                      *)

Left(cond, id) == Row(cond, id)

\* The plugin another one's query leaves a case to, when n is such a case.
LeftByAccount(n) ==
    LET exposed == n.spn \/ n.disabled \/ n.pwdAge = Null \/ Older(n.pwdAge, 365)
        known == n.name = "MSOL_" \/ n.text = "Azure Active Directory Connect" \/ Account!DcSync(n)
    IN  Left(Account!Privileged(n) /\ Account!SyncAccount(n) /\ known /\ exposed, 10009) \cup  \* by 1012 and 1040
        Left(n.primaryGroup \in Account!PrivilegedPrimaryGroups, 1016) \cup                    \* by 1023
        Left(Account!Enabled(n) /\ n.spn /\ Account!Krbtgt(n) /\ Older(n.pwdAge, 365), 1006)   \* by 1051
LeftByComputer(n) ==
    Left(~Computer!Dc(n) /\ "t2a4d" \in n.uac /\ n.targets \cap {"dc", "krbtgt spn"} # {}, 2002) \cup   \* by 2043
    Left(Computer!PrivilegedPrimaryGroup(n), 2015) \cup                                                 \* by 2017
    Left(n.special = "seamless sso" /\ Older(n.pwdAge, 90), 10008)                             \* by 2006 and 2007
LeftByAcl(n) ==
    Left(/\ n.on = "root" /\ Acl!Direct(n) /\ "reanimate" \in n.rights /\ Acl!Visible(n)
         /\ n.trustee \notin {"system"} \cup Acl!AdminGroups \cup Acl!PrivilegedPrincipals, 5008)       \* by 5018
LeftByCert(n) ==
    LET template == n.enabled /\ n.suppliesSubject /\ Cert!ClientAuth(n) /\ Cert!Unchecked(n)
    IN  Left(template, 6001) \cup                                                              \* by 6002 and 6015
        Left(n.store = "unparsable", 6005)                                                              \* by 6013
LeftByPrincipal(n) ==
    Left(/\ Principal!TierZeroUser(n) /\ n.userType = "Member" /\ n.enabled = TRUE
         /\ ~Principal!BreakGlass(n) /\ Principal!Dormant(n, 90), 10043) \cup                           \* by 10042
    Left(/\ n.type = "servicePrincipal"
         /\ \E r \in Principal!PathsIn(n, Principal!TierZeroRoles) : r.permanent /\ ~r.eligible, 10019) \* by 10012

\* A plugin that passes over a case because another one has it is right: the
\* other one reports it.  (Where a query says NOT of another's condition; see
\* the comments above.  Three things fall between plugins and are left out: 1012
\* and 1040 pass over an account described "Azure AD Connect" that 10009 takes
\* for a sync account only if it may replicate; 5018 leaves unresolved trustees
\* on the root to 5008, whose row needs a directory object; and 9024 leaves
\* domain controllers to 9015, which knows nothing of SeRelabelPrivilege,
\* although src/plugins/9015_dc_dangerous_user_rights.py:29 says that the two
\* check the same rights: `relabel' is no part of what is left below.)
HandedOver ==
    LET left == CASE family = "account" -> LeftByAccount(now)
                  [] family = "computer" -> LeftByComputer(now)
                  [] family = "group" -> Left(now.kind = "distribution" /\ now.adminCount = 1, 3009)    \* by 3005
                  [] family = "acl" -> LeftByAcl(now)
                  [] family = "certificate" -> LeftByCert(now)
                  [] family = "settings" -> Left(Setting!Dc(now) /\ "broad" \in now.rights, 9015)       \* by 9024
                  [] family = "gpo" -> Left(now.readStatus \notin {Null, "ok"}, 9021)                   \* by 9022
                  [] family = "principal" -> LeftByPrincipal(now)
                  [] family = "access" -> Left(now.microsoftManaged /\ now.state # "enabled", 10029)     \* by 10015
                  [] OTHER -> {}
    IN  left \subseteq ReportedBy

\* Control by someone that no plugin expects anywhere: of the domain root,
\* AdminSDHolder, a group policy or a DNS zone is reported, whichever right it
\* is by and however it is inherited to what lies below; of an organizational
\* unit when it gives the right to create objects there.  The queries each
\* have their own list of targets, rights and expected trustees.
ControlReported ==
    /\ family = "acl"
    /\ now.trustee \in Acl!Broad \cup {"network", "513", "514", "515", "554", "plain"}
    /\ ~now.inherited
    /\ \/ now.on \in {"root", "sdholder", "gpo", "zone"} /\ Controls(now.rights) /\ ~now.inheritOnly
       \/ now.on = "root" /\ Controls(now.rights) /\ now.inheritOnly
       \/ now.on = "ou" /\ Rewrites(now.rights) /\ now.for \in {Null, "ou"}
       \/ now.on \in {"root", "sdholder", "gpo"} /\ now.owner
    => ReportedBy # {}

-----------------------------------------------------------------------------
(* A change for the worse.                                                 *)

Worsening(facts) == {<<fact, <<FALSE, TRUE>>>> : fact \in facts}
Protecting(facts) == {<<fact, <<TRUE, FALSE>>>> : fact \in facts}
UpToAll(rights) == {<<"rights", <<{}, {r}, {"all"}>>>> : r \in rights}
OnRootBy == { <<"onRoot", <<{}, {"changes"}, {"changes", "changesAll"}, {"all"}>>>>,
              <<"onRoot", <<{}, {"write"}, {"rewrite"}, {"all"}>>>> }

\* The values of a fact from the least exposed to the most.
Exposure ==
    [ account |->
        Worsening({"notRequired", "reversible", "preauthOff", "desOnly", "t2a4d", "neverExpires", "spn", "owner",
                   "ouDelegated", "unconstrained", "rbcdTrustee", "rbcdTarget"}) \cup
        Protecting({"disabled", "smartcard", "notDelegated", "inProtectedUsers"}) \cup OnRootBy \cup
        { <<"tier", <<2, 1, 0>>>>, <<"group", <<"none", "operators", "protected">>>>,
          <<"pwdAge", <<10, 200, 400, 1200>>>>, <<"upnOf", <<"nobody", "other", "privileged">>>>,
          <<"onSdHolder", <<{}, {"write"}, {"rewrite"}>>>>, <<"groupOnRoot", <<{}, {"changes", "changesAll"}>>>> },
      computer |->
        Worsening({"lapsReadable", "ownsRoot", "revealed", "reveals"}) \cup OnRootBy \cup
        { <<"uac", <<Computer!MemberUac \cup {"disabled"}, Computer!MemberUac, Computer!MemberUac \cup {f}>>>> :
            f \in {"t2a4d", "delegation", "preauthOff"} } \cup
        { <<"groups", <<{}, {"protected"}, {"top"}>>>>, <<"primaryGroup", <<515, 512>>>>,
          <<"targets", <<{}, {"server"}, {"dc"}>>>>, <<"rbcd", <<{}, {"account"}, {"broad"}>>>>,
          <<"keys", <<{}, {"device"}, {"device", "second"}>>>>, <<"tier", <<1, 0>>>>,
          <<"pwdAge", <<10, 60, 200, 1200>>>>, <<"logonAge", <<10, 60, 200>>>> },
      group |->
        Worsening({"byRight", "rodc"}) \cup
        { <<"inside", <<"none", "operators", "protected">>>>, <<"counted", <<0, 1>>>>, <<"reach", <<0, 5, 6>>>>,
          <<"depth", <<1, 4, 5>>>>, <<"sidHistory", <<{}, {"foreign"}, {"privileged"}>>>> },
      trust |->
        { <<"direction", <<0, 1, 3>>>>, <<"direction", <<0, 2, 3>>>>, <<"enc", <<{"rc4", "aes"}, {"rc4"}>>>>,
          <<"type", <<2, 1>>>>, <<"changed", <<10, 100>>>> },
      acl |->
        Worsening({"owner", "holdsTier0", "unprotectedDc", "dc2025", "objectTier0"}) \cup
        Protecting({"inherited", "daclProtected", "internalZone"}) \cup
        UpToAll({"changes", "changesAll", "extended", "write", "rewrite", "gplink", "reanimate", "path", "create"}) \cup
        { <<"trustee", <<"512", "privileged", "plain", "513", "authenticated", "everyone">>>>,
          <<"link", <<"none", "other", "tier 0">>>>, <<"supersedes", <<"nothing", "plain", "tier 0">>>> },
      domain |->
        Worsening({"reversible", "anonymous", "unsiloed", "accountPrivileged", "oldDc", "hostSpn"}) \cup
        Protecting({"complexity", "noClearChange", "adminLockout", "laps", "recycleBin"}) \cup
        { <<"minLength", <<20, 14, 13, 7>>>>, <<"maxAge", <<42, 61>>>>, <<"threshold", <<5, 0>>>>,
          <<"lockout", <<15, 14>>>>, <<"level", <<7, 6, 4, 2>>>>, <<"quota", <<0, 10>>>>,
          <<"joinRight", <<{{}}, {{"other"}}, {{"broad"}}>>>>, <<"zones", <<{0}, {1}>>>>,
          <<"java", <<"none", "live">>>>, <<"uniqueness", <<0, 4, 2>>>>, <<"schema", <<91, 88, 87, 69>>>>,
          <<"c8", <<"0", "1">>>>, <<"c28", <<"1", "0", "2">>>>, <<"controllers", <<<<2, 2>>, <<2, 1>>>>>> },
      certificate |->
        Worsening({"enabled", "suppliesSubject", "noSecurityExtension", "linkedPolicy", "owner"}) \cup
        Protecting({"pendsApproval", "inheritOnly"}) \cup
        UpToAll({"enroll", "autoenroll", "extended", "write", "rewrite"}) \cup
        { <<"signatures", <<1, 0>>>>, <<"trustee", <<"512", "plain", "513", "authenticated", "everyone">>>>,
          <<"quota", <<0, 10>>>>, <<"joinRight", <<"nobody", "restricted", "broad">>>>,
          <<"enrollmentUrl", <<"none", "https", "http">>>>, <<"keySize", <<2048, 1024>>>> },
      gpo |-> Worsening({"aboveDc", "cpassword", "scriptSecrets"}) \cup { <<"flags", <<3, 2, 0>>>>, <<"flags", <<3, 1, 0>>>> },
      settings |->
        Protecting({"denied"}) \cup
        { <<"ldapSigning", <<2, 1, 0>>>>, <<"channelBinding", <<2, 1, 0>>>>, <<"smbSigning", <<1, 0>>>>,
          <<"lmLevel", <<5, 3, 2>>>>, <<"noLmHash", <<1, 0>>>>, <<"spooler", <<4, 3, 2>>>>, <<"runAsPpl", <<2, 1, 0>>>>,
          <<"kdcArmor", <<1, 0>>>>, <<"kdcEnc", <<{"aes"}, {"rc4", "aes"}>>>>, <<"ticketAge", <<10, 11, 0>>>> },
      principal |->
        Worsening({"adPrivileged", "service", "dangerous", "enabled"}) \cup
        Protecting({"registered", "phishingResistant"}) \cup
        { <<"activity", <<10, 60, 100>>>>,
          <<"synced", <<FALSE, TRUE>>>>, <<"secretLives", <<365, 1000>>>> },
      access |->
        Worsening({"otherRisk", "evaluationOff", "membersWithoutMfa", "wideRange"}) \cup Protecting({"tokenProtection"}) \cup
        { <<"state", <<"enabled", "report only", "disabled">>>>, <<"clients", <<"all", "browser">>>>,
          <<"platforms", <<"all", "some">>>>, <<"exempt", <<"nowhere", "trusted locations">>>>,
          <<"deviceFilter", <<"none", "other">>>>, <<"operator", <<"AND", "OR">>>>,
          <<"includes", <<"all users", "admin roles", "GA", "someone else">>>>,
          <<"excludes", <<{}, {"this user"}>>>>, <<"excludes", <<{}, {"its group"}, {"this user", "its group"}>>>>,
          <<"apps", <<{"all"}, {"others"}>>>>, <<"apps", <<Access!Portals, {"admin portals"}>>>>,
          <<"exceptApps", <<{}, Access!Portals>>>>,
          <<"controls", <<{"mfa"}, {}>>>>, <<"controls", <<{"block"}, {}>>>>,
          <<"strength", <<"phishing-resistant", "unknown", "weaker">>>>, <<"signInHours", <<0, 12, 24>>>> } ]

WorseChanges ==
    [ f \in DOMAIN Exposure |->
        UNION { UNION { {<<e[1], e[2][i], e[2][j]>> : j \in (i + 1) .. Len(e[2])} : i \in DOMAIN e[2] } : e \in Exposure[f] } ]

\* Plugins that a more general or a graver one takes a case from.
Heirs == {<<6002, 6001>>, <<6015, 6001>>, <<2043, 2002>>, <<2017, 2015>>, <<4007, 4003>>, <<4014, 4003>>, <<7007, 7008>>, <<10026, 10024>>}

\* Markers of a privilege that is gone, which is gone no more; the right to
\* unexpire passwords, that authenticated users have by default; and flaws of
\* a policy, gone when it is not enforced.
Relieved == {1025, 3005, 5018, 10027, 10028, 10036}

\* When one fact about an object changes for the worse, no plugin that reported
\* the object rates it lower or leaves it out, unless its heir rates the object
\* as high.  A severity may be escalated, never reduced (src/adaudit.py:233).
EscalatesOnly ==
    [][ \A fact \in altered' \ altered :
          family \in DOMAIN WorseChanges /\ <<fact, now[fact], now'[fact]>> \in WorseChanges[family] =>
              \A f \in findings \ findings' :
                  \/ \E g \in findings' : g[2] >= f[2] /\ (g[1] = f[1] \/ <<f[1], g[1]>> \in Heirs)
                  \/ f[1] \in Relieved ]_vars

-----------------------------------------------------------------------------
(* Conditional Access.                                                     *)

\* A sign-in, by what the conditions of a policy tell apart.
SignIns ==
    [ client : {"browser", "desktop", "legacy"}, exempted : BOOLEAN, somePlatform : BOOLEAN, risky : BOOLEAN,
      flow : {"none", "device code"}, device : {"unmanaged", "other"} ]

\* Entra applies policy p to sign-in s of the account a to an application when
\* the account is included and not excluded, and all conditions are met.
Applies(p, a, app, s) ==
    /\ \/ /\ Access!AllUsers(p)
          /\ p.excludes \cap {"this user", "its group"} = {}
          /\ a.userType = "Guest" => p.excludes \cap {"guests", "external users"} = {}
       \/ a.roleActive /\ Access!IncludesRole(p, a.role) /\ p.excludes \cap {"this user", "its group"} = {}
    /\ a.roleActive => a.role \notin p.excludes
    /\ Access!Reaches(p, app)
    /\ p.clients # "all" => s.client = p.clients
    /\ p.exempt # "nowhere" => ~s.exempted
    /\ p.platforms = "some" => s.somePlatform
    /\ p.userRisk # "any" \/ p.signInRisk # "any" \/ p.otherRisk => s.risky
    /\ p.flows # {} => s.flow \in p.flows
    /\ p.deviceFilter # "none" => s.device = p.deviceFilter

\* The account gets in by some sign-in that no policy blocks or asks MFA of.
PasswordSuffices(a, app) ==
    \E s \in SignIns : \A p \in Access!Enabled(a) : Applies(p, a, app, s) => ~Access!Protects(p)

\* When a password opens an admin portal for some account, one of the plugins
\* says so: that there is no MFA (10004), that the portal is not covered (10024,
\* which tolerates exclusions because 10026 reports them), or that the account
\* is left out (10026).  Not so if a policy excepts applications or one that
\* leaves the account out names them: 10024 looks at the application alone,
\* 10026 at the account alone.
OpenPortalReported ==
    /\ family = "access" /\ now.securityDefaults # TRUE
    /\ now.accountEnabled /\ ~Access!BreakGlass(now)
    /\ Access!Enabled(now) = Access!Known(now)
    /\ \A p \in Access!Policies(now) : p.exceptApps = {} /\ (p.excludes # {} => Access!AllApps(p))
    /\ \E app \in Access!Portals : PasswordSuffices(now, app)
    => ReportedBy \cap {10004, 10024, 10026} # {}

-----------------------------------------------------------------------------
(* The two computations over graphs.                                       *)

\* The policy that the queries call the winner of a setting is the last one
\* that writes it, on any computer and on a domain controller, where security
\* filtering is looked at too.
LastWriterWins ==
    family = "application" =>
        /\ Application!WinnerOnComputer(now) = Application!LastWriter(now, Application!On(now))
        /\ Application!WinnerOnDc(now) = Application!LastWriter(now, Application!Unfiltered(now))

\* Every node from which a path of so many hops or fewer leads to a node of
\* the set.
Leading(edges, nodes, bound) ==
    LET back[hops \in 0 .. bound] ==
            IF hops = 0 THEN nodes
            ELSE LET ahead == back[hops - 1] IN ahead \cup {e[1] : e \in {f \in edges : f[2] \in ahead}}
    IN  back[bound]

InheritOnlyControl(p) == {a \in PathAces(p) : a.inheritOnly /\ Controlling(p, a)}

\* Computers that lead elsewhere by entries that only descendants inherit, and
\* by nothing else.
Overlooked(p) ==
    {a.trustee : a \in {b \in InheritOnlyControl(p) : Class[b.trustee] = "computer"}}
      \ {e[1] : e \in {f \in BaseEdges(p) : f[2] \notin Starts}}

\* The edges if every other computer of a container were entered.
EnteredOrNot(p, container) ==
    {n \in PathBelow(p, container) \ (p.adminCount \cup Overlooked(p)) : Class[n] \in {"group", "ou", "computer"}}
UnprunedEdges(p) ==
    ControlEdges(p)
      \cup UNION { {c} \X EnteredOrNot(p, c) : c \in {"ou", "root"} }
      \cup UNION { {a.trustee} \X {n \in EnteredOrNot(p, a.on) : a.for \in {Null, Class[n]}} :
                    a \in InheritOnlyControl(p) }

\* Plugin 5021 finds the broad groups from which a path of at most six hops
\* leads to Tier 0.  It finds one when any does, although it enters only those
\* computers of a container that lead somewhere other than a broad group
\* (src/plugins/5021_control_path_to_tier0.py:222); but for the computers it
\* overlooks, as it asks where a computer leads before it looks at the entries
\* that are inherited only.  And when the only paths are longer, it has at
\* least counted a principal on the way as one that holds a path.
PathsMatchClosure ==
    family = "paths" =>
        /\ StartsWithPath(now) = Starts \cap Leading(ControlEdges(now), TierZero, MaxHops)
        /\ StartsWithPath(now) = {} => Starts \cap Leading(UnprunedEdges(now), TierZero, MaxHops) = {}
        /\ Starts \cap Leading(ControlEdges(now), TierZero, Cardinality(Nodes)) # {}
             => StartsWithPath(now) # {} \/ Holders(now) # {}

-----------------------------------------------------------------------------
(* Change detection.                                                       *)

\* Of a directory that did not change, and of the first collection of one,
\* change detection reports nothing; but for plugin 11008, which goes by dates
\* of replication metadata.
QuietWithoutChange ==
    [][ Collect /\ (before = Null \/ (before = now /\ found = now)) => \A f \in findings' : f[1] = 11008 ]_vars

MayReplicate(x, t) == Change!Held(x, t, "changes") /\ Change!Held(x, t, "changesAll")
MayRewrite(x) == \E a \in Change!EntriesOf(x) : a.trustee = "plain" /\ "rewrite" \in a.grant[2]
RewritesNow(x) == \E a \in Change!EntriesOf(x) : a.trustee = "plain" /\ "rewrite" \in a.grant[2] /\ ~a.inheritOnly
RequestableForAnyone(x) == x.published /\ x.enrollers = "anyone" /\ Change!Esc1(x)
OutboundNow(b, n) ==
    /\ Change!Outbound(n) /\ n.trust = "present"
    /\ b.trust = "never seen" \/ (b.trust = "present" /\ b.direction # Null /\ ~Change!Outbound(b))

\* The plugins of which one must report what n has that b had not.
Expected(b, n) ==
    Left(n.container = "root" /\ \E t \in {"admins", "plain"} : MayReplicate(n, t) /\ ~MayReplicate(b, t), {11007}) \cup
    Left(n.container \in {"root", "AdminSDHolder"} /\ b.aclKnown /\ RewritesNow(n) /\ ~MayRewrite(b), {11010}) \cup
    Left(/\ RequestableForAnyone(n) /\ ~RequestableForAnyone(b) /\ b.enrollers = "anyone"
         /\ Null \notin {b.approval, b.supplies, b.signatures}, {11006, 11014}) \cup
    Left(n.memberOf \ b.memberOf # {}, {11003}) \cup
    Left(/\ n.class = "computer" /\ Change!DcBits(n) /\ ~Change!DcBits(b)
         /\ b.account # "deleted" /\ (b.account = "present" => b.uac # Null), {11011}) \cup
    Left(/\ n.class # "computer" /\ Change!Fold(n.spns) \ Change!Fold(b.spns) # {}, {11004}) \cup
    Left(OutboundNow(b, n), {11009})

\* A danger that was not there at the last succeeded collection is reported at
\* the next one, whatever else changed with it, unless a run in between ended
\* after committing its rows: 11001 and 11003 to 11006 then lose it, for they
\* compare with what was in the tables.  Known exceptions: entries of which
\* nothing was known before, a right held as inherit-only before (11010), an
\* account that is deleted and restored as a domain controller (11011).
NewExposureReported ==
    [][ Collect /\ family = "directory" /\ before # Null /\ found = before =>
            \A ids \in Expected(before, now) : \E f \in findings' : f[1] \in ids ]_vars
=============================================================================
