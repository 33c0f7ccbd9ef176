------------------------------- MODULE Plugins -------------------------------
(***************************************************************************)
(* The plugins at work: an administrator changes one fact after another    *)
(* about an object, a collection finds it so and the audit evaluates every *)
(* plugin that looks at such an object.  A "family" is a kind of object    *)
(* with the plugins that judge it; each has its module.  The families      *)
(* "directory" and "tenant" are those of change detection, which compare   *)
(* what successive collections left: there a collection is a step of its   *)
(* own, and may end between committing its rows and being marked           *)
(* succeeded.  Elsewhere the collection and the audit are part of the      *)
(* change.                                                                 *)
(***************************************************************************)
EXTENDS ControlPaths, Sequences

CONSTANTS
    Bases,        \* pairs of a family and an object of it, to start from
    Areas,        \* of each family, sets of facts that are altered together
    MaxAltered    \* and how many of them at most

VARIABLES
    family,
    now,          \* the object as it is
    altered,      \* the facts an administrator has altered
    before,       \* what the last succeeded run left, Null before any
    found,        \* what a collection starting now finds in the tables
    findings      \* of the last evaluation, as pairs of a plugin and a severity

vars == <<family, now, altered, before, found, findings>>

Account == INSTANCE AccountPlugins
Computer == INSTANCE ComputerPlugins
Group == INSTANCE GroupPlugins
Trust == INSTANCE TrustPlugins
Acl == INSTANCE AclPlugins
Domain == INSTANCE DomainPlugins
Cert == INSTANCE CertPlugins
Gpo == INSTANCE GpoPlugins
Setting == INSTANCE SettingPlugins
Application == INSTANCE GpoApplication
Principal == INSTANCE TenantPlugins
Access == INSTANCE AccessPlugins
Change == INSTANCE ChangePlugins
TenantChange == INSTANCE TenantChangePlugins

ChangeFamilies == {"directory", "tenant"}

Families == {"account", "computer", "group", "trust", "acl", "domain", "certificate", "ou", "gpo", "settings",
             "application", "paths", "principal", "access"} \cup ChangeFamilies

\* The values of each fact about an object of a family.
FactsOf(f) ==
    CASE f = "account" -> Account!AccountValues
      [] f = "computer" -> Computer!ComputerValues
      [] f = "group" -> Group!GroupValues
      [] f = "trust" -> Trust!TrustValues
      [] f = "acl" -> Acl!AclValues
      [] f = "domain" -> Domain!DomainValues
      [] f = "certificate" -> Cert!CertValues
      [] f = "ou" -> Gpo!OuValues
      [] f = "gpo" -> Gpo!GpoValues
      [] f = "settings" -> Setting!SettingValues
      [] f = "application" -> Application!ApplicationValues
      [] f = "paths" -> PathValues
      [] f = "principal" -> Principal!TenantPrincipalValues
      [] f = "access" -> Access!AccessValues
      [] f = "directory" -> Change!ChangeValues
      [] OTHER -> TenantChange!TenantValues     \* "tenant"

\* What the facts about one object cannot be together.
Possible(f, x) ==
    CASE f = "gpo" -> Gpo!GpoPossible(x)
      [] f = "application" -> Application!ApplicationPossible(x)
      [] f = "access" -> Access!AccessPossible(x)
      [] f = "directory" -> Change!ChangePossible(x)
      [] OTHER -> TRUE

\* x holds every fact about an object of a family, as it can be.
ObjectOf(f, x) ==
    /\ DOMAIN x = DOMAIN FactsOf(f)
    /\ \A fact \in DOMAIN x : x[fact] \in FactsOf(f)[fact]
    /\ Possible(f, x)

ASSUME BasesAssumption == \A base \in Bases : base[1] \in Families /\ ObjectOf(base[1], base[2])

\* The facts that are about the existence of something: what is created is
\* not as if it had never been, nothing is deleted before it is created.
Lifecycles ==
    CASE family = "directory" -> {"account", "trust"}
      [] family = "tenant" -> {"domain", "credential", "permission", "federatedCredential", "ca", "tenantPolicy",
                               "owner", "member", "partner"}
      [] OTHER -> {}

\* And those that say what the object is: once collected they stay.
Identities ==
    CASE family = "directory" -> {"class", "container"}
      [] family = "tenant" -> {"role", "credentialOf", "firstParty", "ownerOf"}
      [] OTHER -> {}

Follows(fact, v) ==
    /\ fact \in Identities => before = Null
    /\ fact \in Lifecycles =>
         /\ v = "never seen" => now[fact] = "never seen"
         /\ now[fact] = "never seen" => v \notin {"deleted", "removed"}

\* What the plugins of a family report of x, or of the last two states b and
\* n of a directory of which m was in the tables.
Findings(f, b, m, n) ==
    CASE f = "account" -> Account!AccountFindings(n)
      [] f = "computer" -> Computer!ComputerFindings(n)
      [] f = "group" -> Group!GroupFindings(n)
      [] f = "trust" -> Trust!TrustFindings(n)
      [] f = "acl" -> Acl!AclFindings(n)
      [] f = "domain" -> Domain!DomainFindings(n)
      [] f = "certificate" -> Cert!CertFindings(n)
      [] f = "ou" -> Gpo!OuFindings(n)
      [] f = "gpo" -> Gpo!GpoFindings(n)
      [] f = "settings" -> Setting!SettingFindings(n)
      [] f = "application" -> {}
      [] f = "paths" -> Report(5021, ControlPathToTier0(n))
      [] f = "principal" -> Principal!TenantFindings(n)
      [] f = "access" -> Access!AccessFindings(n)
      [] f = "directory" -> Change!ChangeFindings(b, m, n)
      [] OTHER -> TenantChange!TenantChangeFindings(b, n)     \* "tenant"

-----------------------------------------------------------------------------
Init ==
    \E base \in Bases :
        /\ family = base[1]
        /\ now = base[2]
        /\ altered = {}
        /\ before \in IF base[1] \in ChangeFamilies THEN {Null, base[2]} ELSE {Null}
        /\ found = before
        /\ findings = IF base[1] \in ChangeFamilies THEN {} ELSE Findings(base[1], Null, Null, base[2])

\* An administrator gives a fact another value.
Alter(fact, v) ==
    /\ Cardinality(altered) < MaxAltered[family]
    /\ \E area \in Areas[family] : altered \cup {fact} \subseteq area
    /\ v # now[fact] /\ Follows(fact, v)
    /\ now' = [now EXCEPT ![fact] = v]
    /\ Possible(family, now')
    /\ altered' = altered \cup {fact}
    /\ UNCHANGED <<family, before, found>>

\* A change, the collection that finds it and the audit, for the plugins that
\* look at the object as it is.
Reassess ==
    /\ family \notin ChangeFamilies
    /\ \E fact \in DOMAIN now \ altered : \E v \in FactsOf(family)[fact] : Alter(fact, v)
    /\ findings' = Findings(family, Null, Null, now')

\* A change between two collections.
Edit ==
    /\ family \in ChangeFamilies
    /\ \E fact \in DOMAIN now \ altered : \E v \in FactsOf(family)[fact] : Alter(fact, v)
    /\ UNCHANGED findings

\* A collection that succeeds, and the audit after it.
Collect ==
    /\ family \in ChangeFamilies
    /\ findings' = Findings(family, before, found, now)
    /\ before' = now /\ found' = now
    /\ UNCHANGED <<family, now, altered>>

\* A collection of the directory that ends after it has committed its rows,
\* before it is marked succeeded; the audit goes on from the run before it.
Interrupt ==
    /\ family = "directory" /\ before # Null
    /\ found' = now
    /\ UNCHANGED <<family, now, altered, before, findings>>

Next == Reassess \/ Edit \/ Collect \/ Interrupt
Spec == Init /\ [][Next]_vars
=============================================================================
