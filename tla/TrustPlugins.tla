---------------------------- MODULE TrustPlugins ----------------------------
(***************************************************************************)
(* The plugins that judge a trust (src/plugins/70NN_*.py).  A record t     *)
(* holds the columns they read of one ad_trust row; a bit of an absent     *)
(* trustAttributes or trustDirection counts as clear.                      *)
(***************************************************************************)
EXTENDS Ratings

TrustValues ==
    [ attributes |-> SUBSET {"forest", "quarantined", "selective", "within forest",
                             "treat as external", "rc4", "aes", "pim", "tgt delegation"},
      direction |-> {Null, 0, 1, 2, 3},          \* 1 inbound, 2 outbound
      type |-> {Null, 1, 2, 3},                  \* 1 downlevel, 2 Active Directory, 3 MIT
      enc |-> {Null, {}, {"rc4"}, {"rc4", "aes"}},   \* msDS-SupportedEncryptionTypes
      changed |-> {Null, 10, 100} ]

\* Slip: a trust of both directions is not outbound.
SlipOutbound(t) == t.direction = 2
Outbound(t) == t.direction \in {2, 3}
Is(t, bit) == bit \in t.attributes
NoAes(t) == t.enc = Null \/ "aes" \notin t.enc

\* Plugin 7001.
TrustNoSidFiltering(t) ==
    Row(/\ ~Is(t, "quarantined") /\ ~Is(t, "within forest") /\ ~Is(t, "forest")
        /\ Or(t.type, 2) \in {1, 2} /\ Outbound(t), High)

\* Plugin 7002.
TrustTreatAsExternal(t) == Row(Is(t, "treat as external") /\ Outbound(t), High)

\* Plugin 7003.
TrustMitRc4(t) ==
    Row(t.type = 3 /\ (Is(t, "rc4") \/ (~Is(t, "aes") /\ NoAes(t))),
        IF Is(t, "rc4") THEN Medium ELSE Low)

\* Plugin 7004.
TrustDisabledPresent(t) == Row(t.direction = 0, Low)

\* Plugin 7005.
TrustDangerousAttributes(t) ==
    Row(Is(t, "pim") \/ Is(t, "tgt delegation"), IF Is(t, "tgt delegation") THEN High ELSE Medium)

\* Plugin 7006.
TrustNoSelectiveAuth(t) == Row(Is(t, "forest") /\ Outbound(t) /\ ~Is(t, "selective"), Medium)

\* Plugin 7007.
TrustNoAes(t) ==
    Row(/\ t.type = 2 /\ t.direction # 0 /\ NoAes(t)
        /\ ~(Or(t.enc, {}) = {} /\ Is(t, "within forest")),
        IF Or(t.enc, {}) = {} THEN Low ELSE Medium)

\* Plugin 7008.
TrustDownlevel(t) == Row(t.type = 1, Medium)

\* Plugin 7009.
TrustInactive(t) == Row(t.direction # 0 /\ t.type # 3 /\ Older(t.changed, 60), Low)

-----------------------------------------------------------------------------
\* What the plugins report.
TrustFindings(t) ==
    UNION { Report(7001, TrustNoSidFiltering(t)), Report(7002, TrustTreatAsExternal(t)),
            Report(7003, TrustMitRc4(t)), Report(7004, TrustDisabledPresent(t)),
            Report(7005, TrustDangerousAttributes(t)), Report(7006, TrustNoSelectiveAuth(t)),
            Report(7007, TrustNoAes(t)), Report(7008, TrustDownlevel(t)), Report(7009, TrustInactive(t)) }
=============================================================================
