----------------------------- MODULE MCCollector -----------------------------
(* Small instances of Collector for TLC.                                   *)
EXTENDS Collector, TLC

\* Two controllers: the second numbers the same changes far lower.
CONSTANTS d1, d2
MCUsnBase == (d1 :> 10) @@ (d2 :> 1)
\* A first run; one that goes on from it, or rescans everything on the other
\* controller with the clock set back; and one that goes on from
\* either, or cannot tell which controller it is.
MCStart(dc, known, ts, full) == [dc |-> dc, known |-> known, ts |-> ts, full |-> full]
MCStarted == <<{MCStart(d1, TRUE, 1, FALSE)},
               {MCStart(d1, TRUE, 2, FALSE), MCStart(d2, TRUE, 1, TRUE)},
               {MCStart(d1, TRUE, 3, FALSE), MCStart(d1, FALSE, 3, FALSE)}>>
MCHosting == {d1}
\* Sites are, say, DNS zones: a class whose enumeration may fail.
MCOptional == {Sites}
MCSymmetry == Permutations(Users) \cup Permutations(Attrs)
=============================================================================
