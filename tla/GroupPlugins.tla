---------------------------- MODULE GroupPlugins ----------------------------
(***************************************************************************)
(* The plugins that judge a group (src/plugins/30NN_*.py but 3029, which   *)
(* is the domain's).  A record g holds the facts they read of one group:   *)
(* its ad_group row, its direct members, the protected groups it is nested *)
(* in and what it is privileged by.  Where a plugin files its row under a  *)
(* member (3012, 3020, 3021, 3023 to 3026), the rule gives the row such a  *)
(* member of this group causes.                                            *)
(***************************************************************************)
EXTENDS Ratings

GroupValues ==
    [ rid |-> {512, 516, 517, 518, 519, 520, 521, 526, 527, 544, 548, 549, 550, 551, 552, 554,
               556, 557, 562, 569, 571, 572, 573, 578, 580, 582, 1105},
      name |-> {"plain", "DnsAdmins", "audit"}, adminCount |-> {Null, 0, 1},
      kind |-> {Null, "security", "distribution"}, systemBit |-> BOOLEAN,    \* of groupType
      counted |-> {Null, 0, 1},        \* the length of its member attribute
      members |-> SUBSET {"everyone", "authenticated users", "account"},    \* with an open edge
      reach |-> {0, 5, 6},             \* enabled accounts that are no controllers, at any depth
      inside |-> {"none", "administrators", "protected", "operators", "by right"},
      byRight |-> BOOLEAN,             \* it holds a Tier 0 right, or is a member of a group that does
      operatorsMasked |-> BOOLEAN,     \* dSHeuristics leaves the operator groups out of SDProp
      depth |-> {1, 4, 5}, cycle |-> BOOLEAN,
      sidHistory |-> {{}, {"same domain"}, {"privileged"}, {"foreign"}, {"undecoded"}},
      passwordText |-> BOOLEAN, rodc |-> BOOLEAN,
      publishers |-> SUBSET {"ca host", "computer", "user"},   \* its members, as a CA's group
      member |-> {"none", "plain", "guest", "foreign", "in both", "dc"},    \* one of its effective members
      memberAdminCount |-> {Null, 0, 1} ]

Builtin(g) == g.rid \in 544 .. 582 \ {553, 571, 572}
Operators == {548, 549, 550, 551}
Roots == {512, 516, 518, 519, 521, 526, 527, 544, 552} \cup Operators
Excluded(g) == g.rid \in Operators /\ g.operatorsMasked
Protected(g) == g.adminCount = 1
Occupied(g) == Above(g.counted, 0)
OccupiedOrLinked(g) == Occupied(g) \/ g.members # {}

\* Nested in a root group, and in one that SDProp still stamps.
InRoot(g) == g.inside \in {"administrators", "protected", "operators"}
InStampedRoot(g) == InRoot(g) /\ ~(g.inside = "operators" /\ g.operatorsMasked)

-----------------------------------------------------------------------------
\* Plugin 3001.
GroupSidHistory(g) ==
    Row(g.sidHistory # {},
        IF Protected(g) \/ g.sidHistory \cap {"same domain", "privileged"} # {} THEN Critical ELSE High)

\* Plugin 3002.
GroupPasswordInDescription(g) ==
    Row(g.passwordText /\ g.rid \notin {571, 572}, IF Protected(g) THEN Critical ELSE High)

\* Plugin 3003.
SchemaEnterpriseAdminsNotEmpty(g) == Row(g.rid \in {518, 519} /\ Occupied(g), High)

\* Plugin 3004.
PrivilegedGroupBloat(g) ==
    Row(/\ g.inside # "none" \/ g.byRight \/ (Protected(g) /\ g.rid \in Roots)
        /\ g.reach > 5, Medium)

\* Plugin 3005.
StaleAdminCountMarker(g) ==
    Row(/\ Protected(g) /\ g.kind # "distribution"
        /\ ~InStampedRoot(g) /\ (g.rid \in Roots => Excluded(g))
        /\ ~g.byRight /\ g.inside # "by right", Low)

\* Plugin 3006.
CircularGroupNesting(g) == Row(g.cycle, Low)

\* Plugin 3007.
EmptySecurityGroup(g) ==
    Row(/\ g.kind = "security" /\ ~Protected(g) /\ ~OccupiedOrLinked(g)
        /\ ~Builtin(g) /\ g.rid >= 1000, Info)

\* Plugin 3008.
NonstandardGroupInPrivilegedGroup(g) ==
    Row(g.inside # "none" /\ ~(g.rid \in {512, 519} /\ g.inside = "administrators"), High)

\* Plugin 3009.
DistributionGroupAdminCount(g) == Row(g.kind = "distribution" /\ Protected(g), Low)

\* Plugin 3010.
DeepGroupNesting(g) == Row(g.depth > 4, IF Protected(g) THEN Medium ELSE Low)

\* Plugin 3011.
AnomalousBuiltinFlag(g) == Row(g.kind # Null /\ g.systemBit /\ ~Builtin(g), High)

\* Plugin 3012.
Prewin2kGroupEveryone(g) == Row(g.rid = 554 /\ "everyone" \in g.members, Medium)

\* Plugin 3013.
DnsAdminsMembership(g) == Row(g.name = "DnsAdmins" /\ Occupied(g), High)

\* Plugin 3014.
AccountOperatorsMembership(g) == Row(g.rid = 548 /\ Occupied(g), High)

\* Plugin 3015.
BackupOperatorsMembership(g) == Row(g.rid = 551 /\ Occupied(g), Critical)

\* Plugin 3016.
AllowedRodcPwdReplicationGroup(g) == Row(g.rid = 571 /\ Occupied(g), IF g.rodc THEN High ELSE Medium)

\* Plugin 3017.
ServerOperatorsMembership(g) == Row(g.rid = 549 /\ Occupied(g), High)

\* Plugin 3018.
PrintOperatorsMembership(g) == Row(g.rid = 550 /\ Occupied(g), High)

\* Plugin 3019.
CertPublishersUnexpectedMembers(g) ==
    LET unexpected == g.publishers \ {"ca host"}
    IN  Row(g.rid = 517 /\ unexpected # {}, IF unexpected = {"computer"} THEN Low ELSE Medium)

\* Plugin 3020.
GuestInPrivilegedGroup(g) == Row(g.rid \in Roots /\ g.member = "guest", Critical)

\* Plugin 3021.  The other memberships of the member are taken to be none.
PrivilegedMemberMissingAdminCount(g) ==
    Row(/\ g.rid \in Roots /\ ~Excluded(g)
        /\ g.member \notin {"none", "foreign"} /\ g.memberAdminCount # 1
        /\ ~(g.member = "dc" /\ g.rid \in {516, 521}), Medium)

\* Plugin 3022.
KeyAdminsMembership(g) == Row(g.rid \in {526, 527} /\ Occupied(g), High)

\* Plugin 3023.
EaMemberAlsoDa(g) == Row(g.rid = 519 /\ g.member = "in both", Critical)

\* Plugin 3024.
DaMemberAlsoEa(g) == Row(g.rid = 512 /\ g.member = "in both", Critical)

\* Plugin 3025.
GpoCreatorIncomingTrustBuilders(g) == Row(g.rid \in {520, 557} /\ g.member # "none", Medium)

\* Plugin 3026.
ForeignPrincipalInPrivilegedGroup(g) ==
    Row(g.rid \in {512, 518, 519, 520, 557} /\ g.member = "foreign", High)

\* Plugin 3027.
NetworkConfigurationOperatorsMembership(g) == Row(g.rid = 556 /\ OccupiedOrLinked(g), High)

\* Plugin 3028.
SensitiveBuiltinGroupsNotEmpty(g) ==
    Row(g.rid \in {578, 582, 580, 573, 562, 569} /\ OccupiedOrLinked(g),
        IF g.rid = 578 THEN High ELSE Medium)

\* Plugin 3030.
SidHistoryAuditGroup(g) == Row(g.name = "audit", IF g.members # {} THEN High ELSE Medium)

\* Plugin 3031.
Prewin2000UnexpectedMembers(g) ==
    LET unexpected == g.members \ {"everyone"}
    IN  Row(g.rid = 554 /\ unexpected # {}, IF unexpected = {"authenticated users"} THEN Info ELSE Low)

-----------------------------------------------------------------------------
\* What the plugins report.
GroupFindings(g) ==
    UNION { Report(3001, GroupSidHistory(g)), Report(3002, GroupPasswordInDescription(g)),
            Report(3003, SchemaEnterpriseAdminsNotEmpty(g)), Report(3004, PrivilegedGroupBloat(g)),
            Report(3005, StaleAdminCountMarker(g)), Report(3006, CircularGroupNesting(g)),
            Report(3007, EmptySecurityGroup(g)), Report(3008, NonstandardGroupInPrivilegedGroup(g)),
            Report(3009, DistributionGroupAdminCount(g)), Report(3010, DeepGroupNesting(g)),
            Report(3011, AnomalousBuiltinFlag(g)), Report(3012, Prewin2kGroupEveryone(g)),
            Report(3013, DnsAdminsMembership(g)), Report(3014, AccountOperatorsMembership(g)),
            Report(3015, BackupOperatorsMembership(g)), Report(3016, AllowedRodcPwdReplicationGroup(g)),
            Report(3017, ServerOperatorsMembership(g)), Report(3018, PrintOperatorsMembership(g)),
            Report(3019, CertPublishersUnexpectedMembers(g)), Report(3020, GuestInPrivilegedGroup(g)),
            Report(3021, PrivilegedMemberMissingAdminCount(g)), Report(3022, KeyAdminsMembership(g)),
            Report(3023, EaMemberAlsoDa(g)), Report(3024, DaMemberAlsoEa(g)),
            Report(3025, GpoCreatorIncomingTrustBuilders(g)),
            Report(3026, ForeignPrincipalInPrivilegedGroup(g)),
            Report(3027, NetworkConfigurationOperatorsMembership(g)),
            Report(3028, SensitiveBuiltinGroupsNotEmpty(g)), Report(3030, SidHistoryAuditGroup(g)),
            Report(3031, Prewin2000UnexpectedMembers(g)) }
=============================================================================
