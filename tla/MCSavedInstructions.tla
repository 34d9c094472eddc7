------------------------ MODULE MCSavedInstructions ------------------------
(* Model values for TLC runs of SavedInstructions. *)
EXTENDS SavedInstructions, TLC

CONSTANTS c1, c2, i1, i2

TwoClients   == {c1, c2}
TwoIds == {i1, i2}
AllBodies == SUBSET Parts
SymmetryOfClients == Permutations(Clients)
=============================================================================
