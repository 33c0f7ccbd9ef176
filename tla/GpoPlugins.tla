------------------------------ MODULE GpoPlugins ------------------------------
(***************************************************************************)
(* The plugins that judge organizational units and Group Policy objects    *)
(* (src/plugins/9001 to 9009, 9018, 9020 to 9022 and 9039 to 9042).  A     *)
(* record o holds the facts about one organizational unit, a record g      *)
(* those about one policy; what policies set on a computer is judged in    *)
(* module SettingPlugins.                                                  *)
(***************************************************************************)
EXTENDS Ratings

OuTrustees == {"system", "544", "519", "own 512", "other 512", "plain"}

OuValues ==
    [ aceTrustee |-> OuTrustees, aceRights |-> {{}, {"all"}, {"write"}, {"rewrite"}, {"create"}},
      aceInherited |-> BOOLEAN, domainSidKnown |-> BOOLEAN, owner |-> OuTrustees,
      blocks |-> BOOLEAN, children |-> BOOLEAN, aclRead |-> BOOLEAN,
      everyoneDenied |-> SUBSET {"delete", "delete tree"},     \* by direct entries
      holdsTier0 |-> BOOLEAN ]

ExpectedOnOu(trustee, domainSidKnown) ==
    trustee \in {"system", "544", "519", "own 512"} \/ (trustee = "other 512" /\ ~domainSidKnown)

\* Plugin 9001.
OuDangerousRights(o) ==
    Row(o.aclRead /\ ~o.aceInherited /\ Controls(o.aceRights) /\ ~ExpectedOnOu(o.aceTrustee, o.domainSidKnown), High)

\* Plugin 9002.
OuUnexpectedOwner(o) == Row(~ExpectedOnOu(o.owner, o.domainSidKnown), High)

\* Plugin 9003.
OuBlockInheritance(o) == Row(o.blocks, Low)

\* Plugin 9006.
OuEmpty(o) == Row(~o.children, Info)

\* Plugin 9039.
OuNotProtectedFromDeletion(o) ==
    Row(o.aclRead /\ o.everyoneDenied # {"delete", "delete tree"}, IF o.holdsTier0 THEN Low ELSE Info)

-----------------------------------------------------------------------------
\* Where a path points: at a host of the domain, at one that is not, at an
\* address, at a name nothing tells the domain of, or at the computer itself.
Places == {"domain", "outside", "ip", "unresolved", "local_user", "local"}
ScriptTypes == {"js", "jse", "vbs", "vbe", "vb", "wsh", "wsf"}

GpoValues ==
    [ exists |-> BOOLEAN, flags |-> {Null, 0, 1, 2, 3},     \* 1 user settings off, 2 computer settings off
      links |-> SUBSET {"enabled", "disabled"}, otherLinks |-> BOOLEAN,
      defaultPolicy |-> BOOLEAN, targetLinks |-> SUBSET {"enabled", "disabled"},
      aboveDc |-> BOOLEAN,                  \* one of its enabled links, and it is not filtered out
      sysvolRead |-> BOOLEAN, readStatus |-> {Null, "ok", "not_found", "access_denied", "error"},
      cpassword |-> BOOLEAN, scriptSecrets |-> BOOLEAN, redacted |-> BOOLEAN,
      wdigest |-> {Null, 0, 1}, broadAdmins |-> SUBSET {"machine", "user"},   \* the side that adds them
      gptVersion |-> {Null, 1, 2}, adVersion |-> {Null, 1, 2},     \* at the run that read SYSVOL
      scripts |-> {{}} \cup {{<<side, p>>} : side \in {"machine", "user"}, p \in Places},
      files |-> {{}} \cup {{p} : p \in Places}, notepad |-> {{}, {"js"}, ScriptTypes} ]

\* A deleted policy has left no links and nothing of it was read; what was
\* read, was read of SYSVOL; a default policy is linked where it belongs.
GpoPossible(g) ==
    /\ ~g.exists => g.links = {} /\ g.readStatus = Null
    /\ g.readStatus # Null => g.sysvolRead
    /\ g.targetLinks \subseteq g.links
    /\ g.readStatus # "ok" => ~g.cpassword /\ ~g.scriptSecrets /\ ~g.redacted /\ g.wdigest = Null /\ g.broadAdmins = {}

Linked(g) == "enabled" \in g.links
SideOff(g, side) == Or(g.flags, 0) \in (IF side = "user" THEN {1, 3} ELSE {2, 3})
AppliesToDc(g) == Linked(g) /\ g.aboveDc /\ ~SideOff(g, "machine")

\* Plugin 9004.
GpoNotLinked(g) == Row(g.links = {} /\ g.otherLinks, Low)

\* Plugin 9005.
GpoLinkDisabled(g) == Row("disabled" \in g.links, Low)

\* Plugin 9007.
DefaultGpoMissingUnlinked(g) ==
    Row(g.defaultPolicy /\ (~g.exists \/ "enabled" \notin g.targetLinks \/ SideOff(g, "machine")), High)

\* Plugin 9008.
GppCpassword(g) == Row(g.sysvolRead /\ g.cpassword, Critical)

\* Plugin 9009.
SysvolStoredCredentials(g) == Row(g.sysvolRead /\ (g.scriptSecrets \/ g.redacted), High)

\* Plugin 9018.
WdigestCleartextCredentials(g) ==
    Row(g.sysvolRead /\ g.wdigest = 1 /\ ~SideOff(g, "machine") /\ Linked(g),
        IF AppliesToDc(g) THEN Critical ELSE High)

\* Plugin 9020.
GpoBroadLocalAdmins(g) ==
    Row(g.sysvolRead /\ \E side \in g.broadAdmins : ~SideOff(g, side),
        IF AppliesToDc(g) THEN Critical ELSE IF Linked(g) THEN High ELSE Low)

\* Plugin 9021.
GpoSysvolUnreadableOrMissing(g) ==
    Row(g.sysvolRead /\ g.readStatus \in {"not_found", "access_denied", "error"},
        IF g.readStatus = "not_found" THEN Low ELSE Info)

\* Plugin 9022.
GpoVersionMismatch(g) ==
    Row(g.sysvolRead /\ g.readStatus = "ok" /\ Null \notin {g.gptVersion, g.adVersion} /\ g.gptVersion # g.adVersion, Low)

\* Plugin 9040.
GpoScriptOutsideDomain(g) ==
    LET found == {s \in g.scripts : ~SideOff(g, s[1]) /\ s[2] \in Places \ {"domain", "local"}}
        grave == {s \in found : s[2] = "outside" \/ (s[2] = "local_user" /\ AppliesToDc(g))}
    IN  Row(g.sysvolRead /\ found # {}, IF Linked(g) /\ grave # {} THEN Medium ELSE Low)

\* Plugin 9041.
GpoFileDeployedFromOutsideDomain(g) ==
    Row(g.sysvolRead /\ g.files \cap {"outside", "ip", "unresolved"} # {},
        IF Linked(g) /\ "outside" \in g.files THEN Medium ELSE Low)

\* Plugin 9042.
ScriptFileTypesNotOpenedInNotepad(g) == Row(g.sysvolRead /\ ~(Linked(g) /\ g.notepad = ScriptTypes), Info)

-----------------------------------------------------------------------------
\* What the plugins report.
OuFindings(o) ==
    UNION { Report(9001, OuDangerousRights(o)), Report(9002, OuUnexpectedOwner(o)),
            Report(9003, OuBlockInheritance(o)), Report(9006, OuEmpty(o)),
            Report(9039, OuNotProtectedFromDeletion(o)) }

GpoFindings(g) ==
    UNION { Report(9004, GpoNotLinked(g)), Report(9005, GpoLinkDisabled(g)),
            Report(9007, DefaultGpoMissingUnlinked(g)), Report(9008, GppCpassword(g)),
            Report(9009, SysvolStoredCredentials(g)), Report(9018, WdigestCleartextCredentials(g)),
            Report(9020, GpoBroadLocalAdmins(g)), Report(9021, GpoSysvolUnreadableOrMissing(g)),
            Report(9022, GpoVersionMismatch(g)), Report(9040, GpoScriptOutsideDomain(g)),
            Report(9041, GpoFileDeployedFromOutsideDomain(g)),
            Report(9042, ScriptFileTypesNotOpenedInNotepad(g)) }
=============================================================================
