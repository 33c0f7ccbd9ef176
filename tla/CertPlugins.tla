----------------------------- MODULE CertPlugins -----------------------------
(***************************************************************************)
(* The plugins that judge certificate services (src/plugins/60NN_*.py).  A *)
(* record c holds the facts about one certificate template, what one       *)
(* trustee holds on it or on another PKI object, and, for the rows of a    *)
(* certification authority or a certificate store, about one of those.     *)
(***************************************************************************)
EXTENDS Ratings

Broad == {"everyone", "authenticated", "anonymous", "users", "guests", "513", "514", "515"}
ClientPurposes == {"client authentication", "smartcard logon"}

CertValues ==
    [ enabled |-> BOOLEAN,                      \* published by a certification authority
      suppliesSubject |-> BOOLEAN, dnsName |-> BOOLEAN,   \* certificate name flags
      purposes |-> {Null} \cup ((SUBSET (ClientPurposes \cup {"any", "request agent"})) \ {{}}),
      pendsApproval |-> BOOLEAN, signatures |-> {Null, 0, 1},
      noSecurityExtension |-> BOOLEAN, linkedPolicy |-> BOOLEAN,
      version |-> {Null, 1, 2}, keySize |-> {Null, 0, 256, 1024, 2048}, exportable |-> BOOLEAN,
      trustee |-> Broad \cup {"498", "500", "512", "516", "518", "519", "521", "544", "system", "edc",
                              "protected group", "privileged", "by pki", "ca host", "plain", "unresolved"},
      rights |-> (SUBSET {"enroll", "autoenroll"}) \cup {{r} : r \in {"extended", "all", "write", "rewrite", "settings"}},
      inheritOnly |-> BOOLEAN, owner |-> BOOLEAN,
      on |-> {"template", "pki", "ca"},         \* what the trustee's rights are on
      quota |-> {Null, 0, 10}, joinRight |-> {"not collected", "not configured", "broad", "restricted", "nobody"},
      userOwned |-> {0, 3},                     \* computers owned by ordinary accounts
      ndes |-> SUBSET {"CEPEncryption", "EnrollmentAgentOffline"}, hostIsDc |-> BOOLEAN,
      enrollmentUrl |-> {"none", "http", "https"},
      store |-> {"empty", "known", "unknown", "unparsable"},     \* a certificate in the NTAuth store
      key |-> {"rsa 1024", "rsa 2048", "rsa 4096", "dsa", "ecc"}, hash |-> {Null, "sha1", "sha256"},
      selfSigned |-> BOOLEAN, expires |-> {Null, -1, 30, 400, 3000} ]   \* in days; 3000 is after 2030

\* Logging on with the certificate: a purpose that allows it, or any.
ClientAuth(c) == c.purposes = Null \/ c.purposes \cap (ClientPurposes \cup {"any"}) # {}
Unchecked(c) == ~c.pendsApproval /\ Or(c.signatures, 0) = 0
Has(c, rights) == c.rights \cap rights # {}

\* Someone who is not an administrator may enroll.
LowPrivileged(c) == c.trustee \in Broad \cup {"plain", "ca host"}
Enrolls(c) == c.on = "template" /\ ~c.inheritOnly /\ Has(c, {"enroll", "autoenroll", "extended", "all"})
LowPrivilegedEnrollment(c) == Enrolls(c) /\ LowPrivileged(c)

\* Slip: an absent number of signatures is taken for one that is required.
SlipCertTemplateEsc1Pattern(c) ==
    Row(c.enabled /\ c.suppliesSubject /\ ClientAuth(c) /\ ~c.pendsApproval /\ c.signatures = 0,
        IF LowPrivilegedEnrollment(c) THEN Critical ELSE Medium)

\* Plugin 6001.
CertTemplateEsc1Pattern(c) ==
    Row(c.enabled /\ c.suppliesSubject /\ ClientAuth(c) /\ Unchecked(c),
        IF LowPrivilegedEnrollment(c) THEN Critical ELSE Medium)

\* Plugin 6002.
CertTemplateEsc2AnyPurpose(c) ==
    Row(/\ c.enabled /\ Unchecked(c) /\ ~(c.suppliesSubject /\ ClientAuth(c))
        /\ c.purposes = Null \/ "any" \in c.purposes,
        IF LowPrivilegedEnrollment(c) THEN High ELSE Low)

\* Plugin 6003.
CertTemplateEsc9NoSecurityExtension(c) ==
    Row(c.enabled /\ c.noSecurityExtension /\ ClientAuth(c) /\ Unchecked(c),
        IF LowPrivilegedEnrollment(c) THEN Medium ELSE Low)

\* Plugin 6004.
CertTemplateEsc3EnrollmentAgent(c) ==
    Row(c.enabled /\ c.purposes # Null /\ "request agent" \in c.purposes /\ Unchecked(c),
        IF LowPrivilegedEnrollment(c) THEN Medium ELSE Low)

\* Plugin 6005.
NtAuthUnknownCa(c) == Row(c.store \in {"unknown", "unparsable"}, High)

\* Control of a PKI object by someone no PKI plugin expects.
Dangerous(c) == c.owner \/ (~c.inheritOnly /\ Has(c, {"all", "write", "rewrite"}))
Unexpected(c) ==
    c.trustee \notin {"500", "512", "516", "518", "519", "521", "544", "system", "edc",
                      "protected group", "privileged", "unresolved"}

\* Plugin 6006.
CertTemplateAclEsc4(c) ==
    Row(/\ c.on = "template" /\ (Dangerous(c) \/ (~c.inheritOnly /\ Has(c, {"settings"})))
        /\ Unexpected(c) /\ c.trustee # "by pki", Critical)

\* Plugin 6007.
PkiInfrastructureAclEsc5(c) == Row(c.on = "pki" /\ Dangerous(c) /\ Unexpected(c), Critical)

\* Plugin 6008.
CaObjectAclEsc7(c) == Row(c.on = "ca" /\ Dangerous(c) /\ Unexpected(c) /\ c.trustee # "ca host", Critical)

\* Plugin 6009.
CertTemplateEsc13(c) ==
    Row(c.enabled /\ ClientAuth(c) /\ Unchecked(c) /\ c.linkedPolicy, IF LowPrivilegedEnrollment(c) THEN High ELSE Low)

\* Plugin 6010.
CertTemplateEsc15V1Schema(c) ==
    Row(c.enabled /\ c.version = 1 /\ c.suppliesSubject /\ Unchecked(c),
        IF LowPrivilegedEnrollment(c) THEN High ELSE Low)

\* Plugin 6011.
CesEnrollmentOverHttp(c) == Row(c.enrollmentUrl = "http", High)

\* Plugin 6012.
AuthTemplateWeakKey(c) ==
    LET weak == Above(c.keySize, 0) /\ c.keySize < 2048 /\ c.keySize # 256
        exportableCard == c.exportable /\ c.purposes # Null /\ "smartcard logon" \in c.purposes
    IN  Row(c.enabled /\ ClientAuth(c) /\ (weak \/ exportableCard), IF weak THEN Medium ELSE Low)

\* Plugin 6013.
WeakOrExpiringCaCertificates(c) ==
    LET rows == Row(c.key = "rsa 1024", Medium) \cup Row(c.hash = "sha1" /\ ~c.selfSigned, Medium)
                \cup Row(c.key = "dsa" \/ (c.key = "rsa 2048" /\ Above(c.expires, 2000)) \/ Below(c.expires, 90), Low)
    IN  Row(c.store \notin {"empty", "unparsable"} /\ rows # {}, Worst(rows))

\* Plugin 6014.
NdesDeployed(c) ==
    LET both == Cardinality(c.ndes) = 2
    IN  Row(c.ndes # {}, IF both THEN (IF c.hostIsDc THEN High ELSE Medium) ELSE Low)

\* Plugin 6015.
CertighostChasePreconditions(c) ==
    LET quotaUsable == Or(c.quota, 10) > 0 /\ c.joinRight \in {"not collected", "not configured", "broad"}
    IN  Row(/\ c.enabled /\ ClientAuth(c) /\ c.dnsName /\ ~c.suppliesSubject /\ Unchecked(c)
            /\ Enrolls(c) /\ c.trustee \in {"everyone", "authenticated", "users", "513", "515"},
            IF quotaUsable \/ c.userOwned > 0 THEN High ELSE Medium)

-----------------------------------------------------------------------------
\* What the plugins report.
CertFindings(c) ==
    UNION { Report(6001, CertTemplateEsc1Pattern(c)), Report(6002, CertTemplateEsc2AnyPurpose(c)),
            Report(6003, CertTemplateEsc9NoSecurityExtension(c)),
            Report(6004, CertTemplateEsc3EnrollmentAgent(c)), Report(6005, NtAuthUnknownCa(c)),
            Report(6006, CertTemplateAclEsc4(c)), Report(6007, PkiInfrastructureAclEsc5(c)),
            Report(6008, CaObjectAclEsc7(c)), Report(6009, CertTemplateEsc13(c)),
            Report(6010, CertTemplateEsc15V1Schema(c)), Report(6011, CesEnrollmentOverHttp(c)),
            Report(6012, AuthTemplateWeakKey(c)), Report(6013, WeakOrExpiringCaCertificates(c)),
            Report(6014, NdesDeployed(c)), Report(6015, CertighostChasePreconditions(c)) }
=============================================================================
