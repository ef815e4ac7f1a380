--------------------------- MODULE MCManagedRouter ---------------------------
(***************************************************************************)
(* ManagedRouter with the addresses the user manages, one of which another *)
(* administrator lists as well; two rows, one request given up and still   *)
(* on its way, and as many sessions and tokens as can be in use at once.   *)
(***************************************************************************)
EXTENDS ManagedRouter, TLC

CONSTANTS s1, s2, t1, t2

MCSessions == {s1, s2}
MCTokens   == {t1, t2}
MCDigits   == {"0", "1"}
MCRowNames == <<"0", "1">>
MCText     == Literals \cup MCTokens \cup {"aa", "AA", "bb"}
MCLower    == [t \in MCText |-> IF t = "AA" THEN "aa" ELSE t]

Interchangeable == Permutations(MCSessions) \cup Permutations(MCTokens)

=============================================================================
