----------------------------- MODULE ControlPaths -----------------------------
(***************************************************************************)
(* Plugin 5021: the paths by which a broad group controls a Tier 0 object  *)
(* (src/plugins/5021_control_path_to_tier0.py).  A record p holds a small  *)
(* directory: who is a member of what, the access control entries, owners, *)
(* policy links, delegations and password readers.  "everyone" and         *)
(* "domain users" are the broad groups, "admins" and "dc" are Tier 0.      *)
(***************************************************************************)
EXTENDS Ratings

CONSTANTS
    SomeHolders,       \* principals with a path that are reported: 20,
    ManyHolders,       \* rated medium: 100,
    MostHolders,       \* and rated high: 200
    MaxHops            \* 6

ASSUME HoldersAssumption ==
    /\ {SomeHolders, ManyHolders, MostHolders, MaxHops} \subseteq Nat \ {0}
    /\ SomeHolders < ManyHolders /\ ManyHolders < MostHolders

Class ==
    [n \in {"everyone", "domain users", "group", "helpdesk", "user", "computer", "ou", "root", "gpo", "site gpo",
            "admins", "dc"} |->
        CASE n \in {"everyone", "gpo", "site gpo"} -> "none"  [] n = "user" -> "user"  [] n = "ou" -> "ou"
          [] n \in {"domain users", "group", "helpdesk", "admins"} -> "group"
          [] n \in {"computer", "dc"} -> "computer"  [] n = "root" -> "domain"]
Nodes == DOMAIN Class
Starts == {"everyone", "domain users"}
TierZero == {"admins", "dc"}

\* Entries on an object whose list is collected, and those that only its
\* descendants inherit, of one class or (Null) of any.
Trustees == {"everyone", "group", "user", "computer"}
Aces ==
    [trustee : Trustees \cup {"system"}, on : {"ou", "gpo", "root"},
     right : {"all", "member", "changes"}, inheritOnly : {FALSE}, for : {Null}] \cup
    [trustee : Trustees, on : {"ou", "root"},
     right : {"all", "reset", "changes"}, inheritOnly : {TRUE}, for : {Null, "group", "computer"}] \cup
    [trustee : {"user"}, on : {"root"}, right : {"changesAll", "extended"}, inheritOnly : {FALSE}, for : {Null}]

PathValues ==
    [ members |-> {{}, {<<"user", "group">>}, {<<"group", "admins">>}, {<<"user", "group">>, <<"group", "admins">>},
                   {<<"computer", "domain users">>}, {<<"user", "domain users">>},
                   {<<"computer", "group">>, <<"group", "admins">>}, {<<"group", "helpdesk">>}},
      ace |-> {{}} \cup {{a} : a \in Aces}, otherAce |-> {{}} \cup {{a} : a \in Aces},
      owners |-> {{}, {<<"everyone", "gpo">>}, {<<"user", "user">>}, {<<"group", "root">>},
                  {<<"everyone", "gpo">>, <<"helpdesk", "site gpo">>}},
      links |-> {{}, {<<"gpo", "ou">>}, {<<"gpo", "root">>}, {<<"gpo", "ou">>, <<"site gpo", "root">>}},
      delegations |-> {{}, {<<"computer", "dc">>}, {<<"user", "computer">>}},
      readers |-> {{}, {<<"group", "computer">>}},
      inOu |-> SUBSET {"group", "computer", "user", "dc"},       \* the rest is right below the root
      adminCount |-> SUBSET {"user", "group", "admins"} ]

PathAces(p) == p.ace \cup p.otherAce

\* A replication right counts with the other one, or all extended rights.
Controlling(p, a) ==
    /\ a.trustee # "system"
    /\ \/ a.right \in {"all", "member", "reset", "extended"}
       \/ /\ a.right \in {"changes", "changesAll"}
          /\ ~a.inheritOnly
          /\ \E b \in PathAces(p) :
                /\ b.trustee = a.trustee /\ b.on = a.on /\ ~b.inheritOnly
                /\ b.right \in {"changes", "changesAll", "extended", "all"} \ {a.right}

MemberEdges(p) == p.members
BaseEdges(p) ==
    MemberEdges(p) \cup
    {<<a.trustee, a.on>> : a \in {b \in PathAces(p) : ~b.inheritOnly /\ Controlling(p, b)}} \cup
    {e \in p.owners : e[1] # e[2]} \cup p.links \cup p.delegations \cup p.readers

\* Slip: memberships lead nowhere.
SlipInteresting(p) == {e[1] : e \in BaseEdges(p) \ MemberEdges(p)} \cup TierZero

\* Computers that lead somewhere other than a broad group.
Interesting(p) ==
    {e[1] : e \in (BaseEdges(p) \ MemberEdges(p)) \cup {m \in MemberEdges(p) : m[2] \notin Starts}} \cup TierZero

PathBelow(p, container) ==
    CASE container = "root" -> Nodes \ {"root", "everyone"}
      [] container = "ou" -> p.inOu
      [] OTHER -> {}

\* The objects below a container that its control extends to: accounts and
\* groups under AdminSDHolder inherit nothing.
Entered(p, container) ==
    LET interesting == Interesting(p)
    IN  { n \in PathBelow(p, container) :
            /\ \/ Class[n] \in {"group", "ou"}
               \/ Class[n] = "computer" /\ n \in interesting
               \/ n \in TierZero
            /\ n \notin p.adminCount }

InheritedEdges(p) ==
    UNION { {a.trustee} \X {n \in Entered(p, a.on) : a.for \in {Null, Class[n]}} :
              a \in {b \in PathAces(p) : b.inheritOnly /\ Controlling(p, b)} }

ContainmentEdges(p) == UNION { {c} \X Entered(p, c) : c \in {"ou", "root"} }

ControlEdges(p) == BaseEdges(p) \cup InheritedEdges(p) \cup ContainmentEdges(p)

-----------------------------------------------------------------------------
\* What a start reaches in so many hops, a Tier 0 object being an end.
Reached(p, start) ==
    LET edges == ControlEdges(p)
        walk[hops \in 0 .. MaxHops] ==
            IF hops = 0 THEN {start}
            ELSE LET last == walk[hops - 1] \ TierZero IN {e[2] : e \in {f \in edges : f[1] \in last}}
    IN  UNION {walk[hops] : hops \in 0 .. MaxHops}

\* Who reaches Tier 0 in two hops or more, by some walk that enters no broad
\* group.
Holders(p) ==
    LET edges == ControlEdges(p)
        back[hops \in 0 .. MaxHops] ==
            IF hops = 0 THEN TierZero
            ELSE LET last == back[hops - 1] \ Starts IN {e[1] : e \in {f \in edges : f[2] \in last}}
    IN  {n \in (UNION {back[hops] : hops \in 2 .. MaxHops}) \ (TierZero \cup Starts) :
            Class[n] \in {"user", "group", "computer"}}

StartsWithPath(p) == {s \in Starts : Reached(p, s) \cap TierZero # {}}

ControlPathToTier0(p) ==
    LET holders == Cardinality(Holders(p))
    IN  Row(StartsWithPath(p) # {}, Critical) \cup
        Row(holders >= SomeHolders,
            IF holders >= MostHolders THEN High ELSE IF holders >= ManyHolders THEN Medium ELSE Low)
=============================================================================
