---------------------------- MODULE ChangePlugins ----------------------------
(***************************************************************************)
(* The change detection plugins over Active Directory rows                 *)
(* (src/plugins/11001 to 11019 and 11021).  A record holds one directory   *)
(* as a run left it: an account, a trust, a container of Tier 0 with its   *)
(* access control entries, a domain policy, a certificate template, a GPO  *)
(* and a DNS zone.  A plugin sees up to three: b, what the last run before *)
(* this one that was marked succeeded left, Null when there is none; m,    *)
(* what this run found in the tables, which is b unless a run in between   *)
(* committed its rows and ended before it was marked; and n, what this     *)
(* run left.  "Opened in this run" is a difference between m and n,        *)
(* "opened since the previous run" one between b and n.                    *)
(***************************************************************************)
EXTENDS Ratings

Bits ==
    {"preauth off", "unconstrained", "t2a4d", "not required", "reversible", "des", "never expires",
     "not delegated", "dc", "rodc"}

\* An entry: its bits, for one property or right when type is not Null.
AllBits == {"rewrite", "extended", "write", "read"}
Entries ==
    [trustee : {"admins", "plain"}, inheritOnly : BOOLEAN,
     grant : {<<Null, AllBits>>, <<Null, {"rewrite"}>>, <<Null, {"extended"}>>, <<Null, {"write"}>>,
              <<Null, {"read"}>>, <<"changes", {"extended"}>>, <<"changesAll", {"extended"}>>,
              <<"attribute", {"read"}>>}]
OneOf(values) == {{}} \cup {{v} : v \in values}

ChangeValues ==
    [ account |-> {"never seen", "deleted", "present"}, class |-> {"user", "krbtgt", "computer"},
      uac |-> {Null, {}, {"dc", "unconstrained"}, {"rodc", "t2a4d"}} \cup {{bit} : bit \in Bits}, enabled |-> {Null, TRUE, FALSE},
      adminCount |-> {Null, 0, 1}, logonAge |-> {Null, 10, 200},
      memberOf |-> SUBSET {"core", "nested in core", "other root"},   \* edges into privileged groups
      tier0 |-> BOOLEAN,                                              \* by a right or as an object
      protectedUsers |-> {"no", "direct", "nested"},
      signals |-> SUBSET {"rbcd source", "upn", "duplicate host"},
      managed |-> BOOLEAN, creator |-> BOOLEAN, creatorRead |-> BOOLEAN, entraKerberos |-> BOOLEAN,
      spns |-> SUBSET {"http", "HTTP", "cifs"},
      rbcd |-> SUBSET {"account", "broad", "unresolved"}, unresolvedKept |-> BOOLEAN,
      sidHistory |-> SUBSET {"privileged", "foreign"},
      keys |-> SUBSET {"own device", "AD", "AzureAD"}, keysRead |-> {"parsed", "counted", "no"},
      mappings |-> SUBSET {"weak", "strong"}, mappingsRead |-> BOOLEAN,
      renamed |-> {{}, {"sam"}, {"upn"}, {"spn"}}, renameAge |-> {-2, 0, 13, 15},   \* days
      renameVersion |-> {0, 1, 2}, renameDelay |-> {Null, 5, 60},           \* minutes after its creation
      upnTaken |-> BOOLEAN,
      trust |-> {"never seen", "deleted", "present"}, direction |-> {Null} \cup SUBSET {"in", "out"},
      trustType |-> {Null, "AD", "MIT"}, trustFlags |-> {Null} \cup SUBSET {"quarantined", "forest", "within", "external"},
      container |-> {"root", "AdminSDHolder", "pki", "kds"}, aclKnown |-> BOOLEAN,
      ace |-> OneOf(Entries), otherAce |-> OneOf({e \in Entries : e.trustee = "plain"}),
      quota |-> {Null, 0, 10}, minLength |-> {Null, 7, 14}, complexity |-> {Null, TRUE, FALSE},
      threshold |-> {Null, 0, 5}, reversible |-> {Null, TRUE, FALSE}, anonymous |-> {Null, TRUE, FALSE},
      exclusions |-> {Null} \cup SUBSET {1, 2}, recycleBin |-> {Null, TRUE, FALSE}, maxAge |-> {Null, 0, 42},
      published |-> BOOLEAN, supplies |-> {Null, TRUE, FALSE}, clientAuth |-> BOOLEAN,
      approval |-> {Null, TRUE, FALSE}, signatures |-> {Null, 0, 1}, signaturesRead |-> BOOLEAN,
      enrollers |-> {"admins", "anyone"}, templateAclKnown |-> BOOLEAN, templateAce |-> OneOf(Entries),
      links |-> SUBSET {"root", "dc ou", "site", "tier0 ou"}, sitesRead |-> BOOLEAN, gpoVersion |-> {Null, 1, 2},
      sysvolOk |-> BOOLEAN, gpoRead |-> BOOLEAN, gpoAddedLater |-> BOOLEAN, onDc |-> BOOLEAN,
      settings |-> OneOf({"user right", "signing", "other", "script", "delete"}),
      items |-> OneOf([type : {"Groups", "Files", "Drives"}, cpassword : BOOLEAN]),
      kindsRead |-> BOOLEAN, deletesKeyed |-> BOOLEAN,      \* by an earlier run's collector
      allowUpdate |-> {Null, 0, 1, 2} ]

\* Of an account or a trust that is not there nothing is known.
ChangePossible(x) ==
    /\ x.account # "present" =>
         /\ x.uac = Null /\ x.enabled = Null /\ x.protectedUsers = "no"
         /\ \A fact \in {"memberOf", "spns", "rbcd", "sidHistory", "keys", "mappings", "renamed", "signals"} : x[fact] = {}
    /\ x.uac # Null /\ x.class = "user" => x.uac \cap {"dc", "rodc"} = {}

HasBit(x, bit) == x.uac # Null /\ bit \in x.uac
DcBits(x) == HasBit(x, "dc") \/ HasBit(x, "rodc")
Existed(b) == b # Null /\ b.account = "present"
Disabled(n) == n.enabled = FALSE
TierZeroAccount(n) == n.memberOf # {} \/ n.tier0
Fold(spns) == {IF s = "HTTP" THEN "http" ELSE s : s \in spns}

-----------------------------------------------------------------------------
\* Plugin 11001.
NewMachineAccount(b, m, n) ==
    Row(/\ b # Null /\ m.account = "never seen" /\ n.account = "present"
        /\ n.class = "computer" /\ ~DcBits(n),
        IF n.signals # {} \/ HasBit(n, "unconstrained") THEN High
        ELSE IF n.managed THEN Low
        ELSE IF n.creator THEN Medium
        ELSE IF n.creatorRead THEN Low
        ELSE IF Above(n.quota, 0) THEN Medium ELSE Low)

\* Plugin 11002.
AccountReenabled(b, n) ==
    Row(Existed(b) /\ n.class # "computer" /\ n.enabled = TRUE /\ b.enabled = FALSE,
        IF TierZeroAccount(n) THEN Critical
        ELSE IF n.adminCount = 1 \/ n.logonAge = Null \/ Older(n.logonAge, 180) THEN High ELSE Medium)

\* Plugin 11003.
NewPrivilegedGroupMember(b, m, n) == Row(b # Null /\ n.memberOf \ m.memberOf # {}, High)

\* Plugin 11004.
NewSpnOnUser(b, m, n) ==
    Row(/\ b # Null /\ n.class # "computer" /\ n.account = "present"
        /\ \E s \in n.spns \ m.spns : Fold({s}) \cap Fold(b.spns) = {},
        IF Disabled(n) THEN Medium
        ELSE IF n.memberOf \cap {"core", "nested in core"} # {} \/ n.adminCount = 1 THEN Critical ELSE High)

\* Plugin 11005.
NewRbcdDelegation(b, m, n) ==
    LET trustees == {t \in n.rbcd \ m.rbcd : t = "unresolved" => b.unresolvedKept}
    IN  Row(b # Null /\ trustees # {},
            IF DcBits(n) \/ n.class = "krbtgt" \/ "broad" \in trustees THEN Critical ELSE High)

Esc1Flags(t) == t.supplies = TRUE /\ t.clientAuth
Esc1(t) == Esc1Flags(t) /\ t.approval # TRUE /\ ~Above(t.signatures, 0)

\* Plugin 11006.
TemplateNewlyPublished(b, m, n) ==
    Row(b # Null /\ n.published /\ ~m.published, IF Esc1(n) /\ n.enrollers = "anyone" THEN Critical ELSE High)

EntriesOf(x) == x.ace \cup x.otherAce
Held(x, trustee, right) ==
    \E a \in EntriesOf(x) :
        /\ a.trustee = trustee /\ ~a.inheritOnly
        /\ a.grant \in {<<right, {"extended"}>>, <<Null, {"extended"}>>, <<Null, AllBits>>}

\* Slip: only both replication rights gained at once.
SlipNewDcSyncGrant(b, n) ==
    Row(/\ b # Null /\ n.container = "root"
        /\ \E t \in {"admins", "plain"} : \A right \in {"changes", "changesAll"} :
               Held(n, t, right) /\ ~Held(b, t, right), Critical)

\* Plugin 11007.
NewDcSyncGrant(b, n) ==
    LET grown == { t \in {"admins", "plain"} :
                     \E right \in {"changes", "changesAll"} : Held(n, t, right) /\ ~Held(b, t, right) }
    IN  Row(b # Null /\ n.container = "root" /\ grown # {},
            IF \E t \in grown : Held(n, t, "changes") /\ Held(n, t, "changesAll") THEN Critical ELSE High)

\* Plugin 11008.
PrincipalNameRecentlyModified(n) ==
    LET changed == /\ n.renameAge \in -1 .. 13
                   /\ IF n.renameDelay = Null \/ "sam" \in n.renamed THEN n.renameVersion > 1 ELSE n.renameVersion >= 1
                   /\ n.renameDelay = Null \/ n.renameDelay > 10
    IN  Row(n.renamed # {} /\ changed,
            IF TierZeroAccount(n) \/ "sam" \in n.renamed \/ ("upn" \in n.renamed /\ n.upnTaken) THEN High
            ELSE IF "upn" \in n.renamed \/ n.class # "computer" THEN Medium ELSE Low)

TrustFlag(x, flag) == x.trustFlags # Null /\ flag \in x.trustFlags
Outbound(x) == x.direction # Null /\ "out" \in x.direction

\* Plugin 11009.
NewOrModifiedTrust(b, n) ==
    LET new == b.trust = "never seen"
        differs(field) == b.trust = "present" /\ b[field] # Null /\ n[field] # b[field]
        exposed == /\ Outbound(n) /\ ~TrustFlag(n, "within")
                   /\ \/ /\ differs("trustFlags")
                         /\ \/ TrustFlag(b, "quarantined") /\ ~TrustFlag(n, "quarantined")
                            \/ ~TrustFlag(b, "external") /\ TrustFlag(n, "external")
                      \/ new /\ ~TrustFlag(n, "forest") /\ ~TrustFlag(n, "quarantined") /\ n.trustType # "MIT"
                      \/ new /\ TrustFlag(n, "forest") /\ TrustFlag(n, "external")
    IN  Row(/\ b # Null /\ n.trust = "present"
            /\ new \/ \E field \in {"direction", "trustType", "trustFlags"} : differs(field),
            IF exposed THEN Critical ELSE High)

\* The bits of an entry its trustee had not, whether or not to be inherited only.
NewBits(before, a) ==
    a.grant[2] \ UNION {p.grant[2] : p \in {q \in before : q.trustee = a.trustee /\ q.grant[1] = a.grant[1]}}

TakesOver(n, a, bits) ==
    /\ ~a.inheritOnly
    /\ \/ n.container = "root" /\ "extended" \in bits /\ a.grant[1] \in {Null, "changesAll"}
       \/ n.container \in {"root", "AdminSDHolder"} /\ "rewrite" \in bits

\* Plugin 11010.
NewPermissionOnTier0Container(b, n) ==
    LET relevant == { a \in EntriesOf(n) :
                        LET bits == NewBits(EntriesOf(b), a)
                        IN  \/ bits \ {"read"} # {}
                            \/ "read" \in bits /\ (n.container = "kds" \/ a.grant[1] # Null) }
    IN  Row(b # Null /\ b.aclKnown /\ relevant # {},
            IF \E a \in relevant : a.trustee # "admins" /\ TakesOver(n, a, NewBits(EntriesOf(b), a)) THEN Critical
            ELSE IF \A a \in relevant : a.trustee = "admins" THEN Medium ELSE High)

\* Plugin 11011.
NewDomainController(b, n) ==
    Row(b # Null /\ n.account = "present" /\ n.class = "computer" /\ DcBits(n) /\ Existed(b) /\ b.uac # Null /\ ~DcBits(b),
        Critical) \cup
    Row(b # Null /\ n.account = "present" /\ n.class = "computer" /\ DcBits(n) /\ b.account = "never seen",
        IF n.entraKerberos THEN Medium ELSE High)

PolicyFields == {"quota", "minLength", "complexity", "threshold", "reversible", "anonymous", "exclusions",
                 "recycleBin", "maxAge"}

\* What counts as weakening a field; the other fields of the query are
\* compared like one of these, the three ages and the levels never.
Weakened(b, n, field) ==
    CASE field = "quota" -> b.quota = 0 /\ Or(n.quota, 10) > 0
      [] field = "minLength" -> Or(n.minLength, 0) < b.minLength
      [] field = "complexity" -> b.complexity /\ n.complexity # TRUE
      [] field = "threshold" -> b.threshold > 0 /\ Or(n.threshold, 0) = 0
      [] field \in {"reversible", "anonymous"} -> b[field] = FALSE /\ n[field] = TRUE
      [] field = "exclusions" -> Or(n.exclusions, {}) \ b.exclusions # {}
      [] field = "recycleBin" -> b.recycleBin /\ n.recycleBin = FALSE
      [] OTHER -> FALSE

\* Plugin 11012.
DomainSecuritySettingChanged(b, n) ==
    LET changed == {f \in PolicyFields : b[f] # Null /\ n[f] # b[f]}
    IN  Row(b # Null /\ changed # {}, IF \E f \in changed : Weakened(b, n, f) THEN High ELSE Medium)

\* Plugin 11013.
TierZeroGpoChangedOrLinked(b, n) ==
    LET newLinks == {l \in n.links \ b.links : l = "site" => b.sitesRead}
        modified == b.gpoVersion # Null /\ n.gpoVersion # b.gpoVersion /\ n.links # {}
    IN  Row(b # Null /\ (newLinks # {} \/ modified), IF n.links \cap {"root", "dc ou"} # {} THEN High ELSE Medium)

\* Plugin 11014.
CertTemplateChanged(b, n) ==
    LET changed == \/ b.approval # Null /\ n.approval # b.approval
                   \/ b.supplies # Null /\ n.supplies # b.supplies
                   \/ n.clientAuth # b.clientAuth
                   \/ (b.signatures # Null \/ b.signaturesRead) /\ n.signatures # b.signatures
        granted == {a \in n.templateAce : ~a.inheritOnly /\ NewBits(b.templateAce, a) \ {"read"} # {}}
        opened == b.templateAclKnown /\ granted # {}
    IN  Row(b # Null /\ (changed \/ opened),
            IF Esc1(n) /\ ((changed /\ ~Esc1(b)) \/ (opened /\ \E a \in granted : a.trustee # "admins"))
            THEN Critical ELSE High)

\* Slip: a flag that was set before counts as gained.
SlipDangerousAccountFlagSet(b, n) ==
    LET gained == {f \in Bits \ {"not delegated", "dc", "rodc"} : HasBit(n, f) /\ b.uac # Null}
    IN  Row(Existed(b) /\ n.account = "present" /\ gained # {}, IF Disabled(n) THEN Medium ELSE High)

\* Plugin 11015.
DangerousAccountFlagSet(b, n) ==
    LET gained == { f \in Bits \ {"not delegated", "dc", "rodc"} :
                      /\ HasBit(n, f) /\ b.uac # Null /\ f \notin b.uac
                      /\ f = "unconstrained" => ~DcBits(n)
                      /\ f = "t2a4d" => ~HasBit(n, "rodc") }
        worst == (TierZeroAccount(n) \/ DcBits(n)) /\ gained \cap {"preauth off", "unconstrained"} # {}
    IN  Row(Existed(b) /\ n.account = "present" /\ gained # {},
            IF worst THEN IF Disabled(n) THEN High ELSE Critical ELSE IF Disabled(n) THEN Medium ELSE High)

\* The keys an account has gained, apart from a computer's own.
NewKeys(b, n) ==
    LET before == IF b.keysRead = "no" THEN 0 ELSE Cardinality(b.keys)
    IN  { k \in n.keys :
            /\ n.keysRead = "parsed"
            /\ CASE b.keysRead = "parsed" -> k \notin b.keys
                 [] b.keysRead # "parsed" /\ before > 0 -> Cardinality(n.keys) > before
                 [] OTHER -> TRUE
            /\ n.class = "computer" =>
                 k # "own device" /\ ~(k = "AD" /\ before = 0 /\ Cardinality(n.keys) = 1) }

\* Plugin 11016.
SidHistoryOrKeyCredentialAdded(b, n) ==
    LET sids == n.sidHistory \ b.sidHistory
        keys == NewKeys(b, n)
        bySid == IF sids = {} THEN 0 ELSE IF "privileged" \in sids THEN 4 ELSE 3
        byKey == CASE keys = {} -> 0
                   [] keys # {} /\ (TierZeroAccount(n) \/ DcBits(n)) -> 4
                   [] OTHER -> IF n.class # "computer" /\ keys = {"AzureAD"} THEN 2 ELSE 3
    IN  Row(Existed(b) /\ n.account = "present" /\ sids \cup keys # {},
            Higher(bySid, byKey) - (IF Disabled(n) THEN 1 ELSE 0))

\* Plugin 11017.
PrivilegedAccountLostProtection(b, n) ==
    Row(/\ Existed(b) /\ n.account = "present" /\ (TierZeroAccount(n) \/ DcBits(n))
        /\ \/ b.protectedUsers = "direct" /\ n.protectedUsers = "no"
           \/ HasBit(b, "not delegated") /\ ~HasBit(n, "not delegated"),
        IF Disabled(n) THEN Low ELSE Medium)

\* Plugin 11018.
NonsecureUpdatesEnabled(b, n) == Row(b # Null /\ n.allowUpdate = 1 /\ b.allowUpdate \in {0, 2}, Medium)

\* Plugin 11019.
CertMappingAdded(b, n) ==
    LET gained == n.mappings \ b.mappings
    IN  Row(Existed(b) /\ b.mappingsRead /\ n.account = "present" /\ gained # {},
            (IF TierZeroAccount(n) \/ DcBits(n) \/ "weak" \in gained THEN 4 ELSE 3) - (IF Disabled(n) THEN 1 ELSE 0))

\* Plugin 11021.
DcGpoSettingsChanged(b, m, n) ==
    LET eligible == m # Null /\ n.sysvolOk /\ (m.settings # {} \/ m.items # {} \/ m.gpoRead \/ n.gpoAddedLater)
        earlier(fact) == b # Null /\ b[fact]
        counted(s) == (s = "script" => earlier("kindsRead")) /\ (s = "delete" => earlier("deletesKeyed"))
        opened == {s \in n.settings \ m.settings : n.onDc /\ counted(s)}
        closed == {s \in m.settings \ n.settings : n.onDc /\ (s = "delete" => earlier("deletesKeyed"))}
        newItems == {i \in n.items \ m.items : i.type = "Files" => earlier("kindsRead")}
        secrets == { i \in newItems : i.cpassword /\ ~\E o \in m.items \ n.items : o.type = i.type /\ o.cpassword }
        items == IF n.onDc THEN newItems \cup (m.items \ n.items) ELSE secrets
    IN  Row(eligible /\ (opened \cup closed # {} \/ items # {}),
            IF \/ (opened \cup closed) \cap {"user right", "signing", "script"} # {}
               \/ secrets # {} \/ \E i \in items : i.type = "Groups"
            THEN High ELSE Medium)

-----------------------------------------------------------------------------
\* What the plugins report.
ChangeFindings(b, m, n) ==
    UNION { Report(11001, NewMachineAccount(b, m, n)), Report(11002, AccountReenabled(b, n)),
            Report(11003, NewPrivilegedGroupMember(b, m, n)), Report(11004, NewSpnOnUser(b, m, n)),
            Report(11005, NewRbcdDelegation(b, m, n)), Report(11006, TemplateNewlyPublished(b, m, n)),
            Report(11007, NewDcSyncGrant(b, n)), Report(11008, PrincipalNameRecentlyModified(n)),
            Report(11009, NewOrModifiedTrust(b, n)), Report(11010, NewPermissionOnTier0Container(b, n)),
            Report(11011, NewDomainController(b, n)), Report(11012, DomainSecuritySettingChanged(b, n)),
            Report(11013, TierZeroGpoChangedOrLinked(b, n)), Report(11014, CertTemplateChanged(b, n)),
            Report(11015, DangerousAccountFlagSet(b, n)),
            Report(11016, SidHistoryOrKeyCredentialAdded(b, n)),
            Report(11017, PrivilegedAccountLostProtection(b, n)),
            Report(11018, NonsecureUpdatesEnabled(b, n)), Report(11019, CertMappingAdded(b, n)),
            Report(11021, DcGpoSettingsChanged(b, m, n)) }
=============================================================================
