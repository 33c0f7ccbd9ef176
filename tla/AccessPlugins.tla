---------------------------- MODULE AccessPlugins ----------------------------
(***************************************************************************)
(* The plugins that judge the Conditional Access policies of a tenant      *)
(* (src/plugins/10004, 10013 to 10015, 10020 to 10029 and 10036 to 10038). *)
(* A record a holds the facts they read: one policy, up to one more, an    *)
(* account they are to cover, a named location, and what the collection    *)
(* could read of the tenant.  Every query unpacks the policies anew; here  *)
(* a policy is a record, and what several of them ask of it is an operator.*)
(***************************************************************************)
EXTENDS Ratings

Portals == {"admin portals", "azure management"}

\* The highly privileged roles: one of them, and all the others.
AdminRoles == {"GA", "another role"}

Devices == {"compliant", "joined"}
Controls4 == Devices \cup {"mfa", "passwordChange", "riskRemediation"}

PolicyValues ==
    [ state |-> {"enabled", "report only", "disabled"}, microsoftManaged |-> BOOLEAN,
      conditionsRead |-> BOOLEAN,                 \* older collectors did not store them
      clients |-> {"all", "legacy", "browser"}, exempt |-> {"nowhere", "this location", "trusted locations"},
      platforms |-> {"all", "some"}, userRisk |-> {"any", "low", "high"}, signInRisk |-> {"any", "low", "high"},
      otherRisk |-> BOOLEAN,                      \* a service principal or insider risk level
      flows |-> SUBSET {"device code", "transfer"}, deviceFilter |-> {"none", "unmanaged", "other"},
      includes |-> {"all users", "admin roles", "GA", "someone else"},
      excludes |-> {e \in SUBSET {"this user", "another user", "its group", "GA", "guests", "external users"} :
                       Cardinality(e) <= 2},      \* guests: the keyword; external users: the newer condition
      stale |-> {s \in SUBSET ({"include", "exclude"} \X {"user", "group", "role"}) : Cardinality(s) <= 2},
      apps |-> {{"all"}, {"registration"}, {"others"}} \cup ((SUBSET Portals) \ {{}}),
      exceptApps |-> SUBSET Portals,
      controls |-> {{"block"}} \cup {c \in SUBSET Controls4 : Cardinality(c) <= 2},
      strength |-> {"none", "phishing-resistant", "weaker", "unknown"},
      moreControls |-> BOOLEAN,                   \* custom factors or terms of use
      operator |-> {"AND", "OR"},
      signInHours |-> {Null, 0, 12, 24},          \* 0: every time; 24: longer or switched off
      tokenProtection |-> BOOLEAN, evaluationOff |-> BOOLEAN, agents |-> {"none", "all", "all at high risk"} ]

\* A policy for everyone that asks for nothing.
Unrestricted ==
    [ state |-> "enabled", microsoftManaged |-> FALSE, conditionsRead |-> TRUE, clients |-> "all", exempt |-> "nowhere",
      platforms |-> "all", userRisk |-> "any", signInRisk |-> "any", otherRisk |-> FALSE, flows |-> {},
      deviceFilter |-> "none", includes |-> "all users", excludes |-> {}, stale |-> {}, apps |-> {"all"},
      exceptApps |-> {}, controls |-> {}, strength |-> "none", moreControls |-> FALSE, operator |-> "OR",
      signInHours |-> Null, tokenProtection |-> FALSE, evaluationOff |-> FALSE, agents |-> "none" ]

\* Those a tenant may have besides the one in question.
MfaForAll == [Unrestricted EXCEPT !.controls = {"mfa"}, !.excludes = {"this user"}]
LegacyBlock == [Unrestricted EXCEPT !.controls = {"block"}, !.clients = "legacy"]
FlowBlock == [Unrestricted EXCEPT !.controls = {"block"}, !.flows = {"device code", "transfer"}]
AdminPolicy ==
    [Unrestricted EXCEPT !.includes = "admin roles", !.strength = "phishing-resistant", !.controls = {"compliant"},
                         !.operator = "AND", !.signInHours = 0, !.tokenProtection = TRUE]
AgentBlock ==
    [Unrestricted EXCEPT !.includes = "someone else", !.controls = {"block"}, !.agents = "all at high risk"]

TenantAccessValues ==
    [ others |-> {{}, {MfaForAll}, {LegacyBlock}, {FlowBlock}, {AdminPolicy}, {AgentBlock}},
      securityDefaults |-> {Null, TRUE, FALSE}, licence |-> {Null, "none", "P1", "P2"}, betaRead |-> BOOLEAN, agentsExist |-> BOOLEAN,
      groupsOk |-> BOOLEAN, rolesOk |-> BOOLEAN, registrationOk |-> BOOLEAN, membersWithoutMfa |-> BOOLEAN,
      userType |-> {"Member", "Guest"}, accountEnabled |-> BOOLEAN, role |-> {"none"} \cup AdminRoles,
      roleActive |-> BOOLEAN, roleByGroup |-> BOOLEAN, synced |-> {Null, TRUE, FALSE},
      declared |-> SUBSET {"this", "other"},      \* emergency access accounts
      locationIp |-> BOOLEAN, trusted |-> {Null, TRUE, FALSE}, wideRange |-> BOOLEAN ]

AccessValues ==
    [ f \in DOMAIN PolicyValues \cup DOMAIN TenantAccessValues |->
        IF f \in DOMAIN PolicyValues THEN PolicyValues[f] ELSE TenantAccessValues[f] ]

\* Graph refuses a block or MFA together with an authentication strength, and
\* a block with other controls.
AccessPossible(a) ==
    /\ a.strength # "none" => a.controls \cap {"block", "mfa"} = {}
    /\ a.moreControls => "block" \notin a.controls

Policies(a) == {[f \in DOMAIN PolicyValues |-> a[f]]} \cup a.others
Enabled(a) == {p \in Policies(a) : p.state = "enabled"}
Known(a) == {p \in Enabled(a) : p.conditionsRead}

-----------------------------------------------------------------------------
(* What is asked of a policy.                                              *)

\* No client, location, platform, risk or flow condition narrows it.
UnconditionalButDevice(p) ==
    /\ p.clients = "all" /\ p.exempt = "nowhere" /\ p.platforms = "all"
    /\ p.userRisk = "any" /\ p.signInRisk = "any" /\ ~p.otherRisk /\ p.flows = {}

\* Slip: the platforms and risk levels are forgotten.
SlipUnconditional(p) == p.clients = "all" /\ p.exempt = "nowhere" /\ p.flows = {} /\ p.deviceFilter = "none"

\* Nor a device filter.
Unconditional(p) == UnconditionalButDevice(p) /\ p.deviceFilter = "none"

AllUsers(p) == p.includes = "all users"
AllApps(p) == "all" \in p.apps
HasStrength(p) == p.strength # "none"
RequiresMfa(p) == "mfa" \in p.controls \/ HasStrength(p)
Blocks(p) == "block" \in p.controls

\* The number of its grant controls.
Alternatives(p) ==
    Cardinality(p.controls) + (IF HasStrength(p) THEN 1 ELSE 0) + (IF p.moreControls THEN 1 ELSE 0)

\* MFA is no mere alternative.
MandatoryMfa(p) == RequiresMfa(p) /\ (p.operator = "AND" \/ Alternatives(p) <= 1)
Protects(p) == Blocks(p) \/ MandatoryMfa(p)

IncludesRole(p, role) == p.includes = "admin roles" \/ p.includes = role
ReachesRole(p, role) == (AllUsers(p) \/ IncludesRole(p, role)) /\ role \notin p.excludes
ReachesSomeRole(p) == \E role \in AdminRoles : ReachesRole(p, role)

Reaches(p, app) == app \in p.apps \/ (AllApps(p) /\ app \notin p.exceptApps)

\* Whether the account is left out of a policy for all users: itself, as a
\* guest, by a group when memberships are known, by an active role.
LeavesOut(p, a) ==
    \/ "this user" \in p.excludes
    \/ a.userType = "Guest" /\ {"guests", "external users"} \cap p.excludes # {}
    \/ a.groupsOk /\ "its group" \in p.excludes
    \/ a.roleActive /\ a.role \in p.excludes

\* The emergency access accounts: those declared, else those that look so.
BreakGlass(a) ==
    IF a.declared # {} THEN "this" \in a.declared
    ELSE /\ a.userType = "Member" /\ a.synced # TRUE
         /\ a.role = "GA" /\ a.roleActive /\ ~a.roleByGroup
         /\ \E p \in Known(a) : AllUsers(p) /\ "this user" \in p.excludes

\* Whether the licences were read, and do not include what a check is about.
Unlicensed(a, plans) == a.licence # Null /\ a.licence \notin plans

-----------------------------------------------------------------------------
\* Plugin 10004.
MfaNotEnforced(a) ==
    LET mfa == {p \in Enabled(a) : RequiresMfa(p)}
    IN  Row(a.securityDefaults # TRUE /\ ~\E p \in mfa : MandatoryMfa(p), IF mfa = {} THEN Critical ELSE Medium)

\* Plugin 10013.
LegacyAuthNotBlocked(a) ==
    LET blocking == {p \in Known(a) : Blocks(p) /\ p.clients = "legacy" /\ AllUsers(p) /\ AllApps(p)}
        lost(p, kinds) == Cardinality({s \in p.stale : s[1] = "exclude" /\ s[2] \in kinds})
        broad(p) == Cardinality(p.excludes \cap {"its group", "GA"}) + lost(p, {"group", "role"})
        users(p) == Cardinality(p.excludes \cap {"this user", "another user", "guests"}) + lost(p, {"user"})
        best == CHOOSE p \in blocking :
                    \A q \in blocking : broad(p) < broad(q) \/ (broad(p) = broad(q) /\ users(p) <= users(q))
        unread == \E p \in Enabled(a) \ Known(a) : Blocks(p)
    IN  IF a.securityDefaults = TRUE THEN {}
        ELSE IF blocking = {} THEN Row(~unread, High)
        ELSE Row(broad(best) + users(best) > 0, IF broad(best) > 0 THEN Low ELSE Info)

\* Plugin 10014.
PhishingResistantMfa(a) ==
    LET strict(p) == p.operator = "AND" \/ (p.controls = {} /\ ~p.moreControls)
        covering(role, strength) ==
            \E p \in Known(a) : /\ p.strength = strength /\ strict(p) /\ AllApps(p)
                                /\ Unconditional(p) /\ ReachesRole(p, role)
        unread == \E p \in Enabled(a) \ Known(a) : HasStrength(p)
    IN  Row(~unread /\ ~\A role \in AdminRoles : covering(role, "phishing-resistant"),
            IF covering("GA", "phishing-resistant") \/ covering("GA", "unknown") THEN Medium ELSE High)

\* Plugin 10015.
PolicyNotEnforced(a) == Row(\E p \in Policies(a) : p.state # "enabled" /\ ~p.microsoftManaged, Low)

\* Plugin 10020.
DeviceCodeNotBlocked(a) ==
    LET blocking(flow) == {p \in Known(a) : Blocks(p) /\ flow \in p.flows /\ AllApps(p)}
        unread == \E p \in Enabled(a) \ Known(a) : Blocks(p)
        admins == \E p \in blocking("device code") : \E role \in AdminRoles \ p.excludes : IncludesRole(p, role)
    IN  Row(~unread /\ ~\E p \in blocking("device code") : AllUsers(p), IF admins THEN Medium ELSE High) \cup
        Row(~unread /\ ~\E p \in blocking("transfer") : AllUsers(p), Medium)

\* Plugin 10021.
PrivilegedAccessUnmanaged(a) ==
    LET offers(p) == p.controls \cap Devices # {}
        required(p) ==
            \/ offers(p) /\ (p.operator = "AND" \/ (p.controls \subseteq Devices /\ ~HasStrength(p) /\ ~p.moreControls))
            \/ Blocks(p) /\ p.deviceFilter = "unmanaged"
        unread == \E p \in Enabled(a) \ Known(a) : offers(p)
    IN  Row(/\ ~unread
            /\ ~\E p \in Known(a) :
                   AllApps(p) /\ required(p) /\ UnconditionalButDevice(p) /\ ReachesSomeRole(p), Medium)

\* Plugin 10022.
PrivilegedSessionsUnlimited(a) ==
    LET short(p) == p.signInHours # Null /\ p.signInHours <= 12
        unread == \E p \in Enabled(a) \ Known(a) : p.signInHours # Null
    IN  Row(/\ ~unread
            /\ ~\E p \in Known(a) : short(p) /\ AllApps(p) /\ Unconditional(p) /\ ReachesSomeRole(p), Low)

\* Plugin 10023.
RegistrationUnprotected(a) ==
    Row(/\ Enabled(a) = Known(a)
        /\ ~\E p \in Known(a) : "registration" \in p.apps /\ (p.controls # {} \/ HasStrength(p)),
        IF a.registrationOk /\ a.membersWithoutMfa THEN High ELSE Medium)

\* Plugin 10024.
PortalsNotCovered(a) ==
    LET covered(app) == \E p \in Known(a) : AllUsers(p) /\ Protects(p) /\ Unconditional(p) /\ Reaches(p, app)
        unread == \E p \in Enabled(a) \ Known(a) : RequiresMfa(p) \/ Blocks(p)
    IN  Row(a.securityDefaults # TRUE /\ ~unread /\ ~\A app \in Portals : covered(app), High)

\* Plugin 10025.
RiskPoliciesMissing(a) ==
    LET changesPassword(p) == RequiresMfa(p) /\ "passwordChange" \in p.controls
        userRisk == \E p \in Known(a) :
            p.userRisk = "high" /\ (Blocks(p) \/ "riskRemediation" \in p.controls \/ changesPassword(p))
        signInRisk == \E p \in Known(a) : p.signInRisk = "high" /\ (Blocks(p) \/ RequiresMfa(p))
    IN  Row(Enabled(a) = Known(a) /\ ~Unlicensed(a, {"P2"}) /\ ~(userRisk /\ signInRisk), High)

ExcludesGroups(p) == "its group" \in p.excludes \/ <<"exclude", "group">> \in p.stale

\* The policies that plugin 10026 takes for MFA of all users.
ForEveryone(a) == {p \in Known(a) : AllUsers(p) /\ AllApps(p) /\ Protects(p) /\ Unconditional(p)}

\* Plugin 10026.
UserExcluded(a) ==
    LET unread == \E p \in Enabled(a) \ Known(a) : RequiresMfa(p) \/ Blocks(p)
    IN  Row(/\ ~unread /\ a.accountEnabled /\ ~BreakGlass(a)
            /\ ForEveryone(a) # {} /\ \A p \in ForEveryone(a) : LeavesOut(p, a),
            IF a.role # "none" THEN High ELSE Medium) \cup
        Row(~unread /\ ~a.groupsOk /\ \E p \in ForEveryone(a) : ExcludesGroups(p), Low)

\* Plugin 10027.
StaleReferences(a) ==
    LET checked == {"user"} \cup (IF a.groupsOk THEN {"group"} ELSE {}) \cup (IF a.rolesOk THEN {"role"} ELSE {})
        stale(p) == {s \in p.stale : s[2] \in checked}
    IN  { IF \E s \in stale(p) : s[1] = "include" THEN Medium ELSE Low :
            p \in {q \in Policies(a) : q.state # "disabled" /\ q.conditionsRead /\ stale(q) # {}} }

\* Plugin 10028.
OverTrustedLocation(a) ==
    LET wide == a.locationIp /\ a.trusted = TRUE /\ a.wideRange
        exempted == \E p \in Known(a) :
            /\ RequiresMfa(p)
            /\ p.exempt = "this location" \/ (a.trusted = TRUE /\ p.exempt = "trusted locations")
    IN  Row(wide \/ exempted, IF wide /\ exempted THEN High ELSE Medium)

\* Plugin 10029.
ManagedPolicyOff(a) ==
    {IF p.state = "disabled" THEN Medium ELSE Low : p \in {q \in Policies(a) : q.microsoftManaged /\ q.state # "enabled"}}

\* Plugin 10036.
ContinuousEvaluationOff(a) == Row(a.betaRead /\ \E p \in Enabled(a) : p.evaluationOff, Medium)

\* Plugin 10037.  What Graph's beta endpoint returns has its conditions.
TokenProtectionMissing(a) ==
    Row(/\ a.betaRead /\ ~Unlicensed(a, {"P1", "P2"})
        /\ ~\A role \in AdminRoles : \E p \in Enabled(a) : p.tokenProtection /\ ReachesRole(p, role), Low)

\* Plugin 10038.
RiskyAgentsNotBlocked(a) ==
    Row(/\ a.betaRead /\ a.agentsExist /\ ~Unlicensed(a, {"P2"})
        /\ ~\E p \in Enabled(a) : p.agents = "all at high risk" /\ AllApps(p) /\ Blocks(p), Medium)

-----------------------------------------------------------------------------
\* What the plugins report.
AccessFindings(a) ==
    UNION { Report(10004, MfaNotEnforced(a)), Report(10013, LegacyAuthNotBlocked(a)),
            Report(10014, PhishingResistantMfa(a)), Report(10015, PolicyNotEnforced(a)),
            Report(10020, DeviceCodeNotBlocked(a)), Report(10021, PrivilegedAccessUnmanaged(a)),
            Report(10022, PrivilegedSessionsUnlimited(a)), Report(10023, RegistrationUnprotected(a)),
            Report(10024, PortalsNotCovered(a)), Report(10025, RiskPoliciesMissing(a)),
            Report(10026, UserExcluded(a)), Report(10027, StaleReferences(a)),
            Report(10028, OverTrustedLocation(a)), Report(10029, ManagedPolicyOff(a)),
            Report(10036, ContinuousEvaluationOff(a)), Report(10037, TokenProtectionMissing(a)),
            Report(10038, RiskyAgentsNotBlocked(a)) }
=============================================================================
