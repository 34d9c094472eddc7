--------------------------- MODULE MCSeedTokens ---------------------------
(* Model values for TLC runs of SeedTokens. *)
EXTENDS SeedTokens

CONSTANTS h1, h2

TwoHolders == {h1, h2}
Earlier == {[h \in TwoHolders |-> 0], [h \in TwoHolders |-> 1]}
WantTwo == [h \in TwoHolders |-> IF h = h1 THEN 3 ELSE 1]
=============================================================================
