----------------------------- MODULE MCSeedSft -----------------------------
(* Configurations for TLC runs of SeedSft: every scenario, two of them       *)
(* together, and more slots than scenarios.                                  *)
EXTENDS SeedSft

Config(scenarios, n, per, post) ==
  [scenarios |-> scenarios, slots |-> n, perSlot |-> per, postOps |-> post]

Samples ==
  { Config(<<"burn">>, 2, 2, TRUE),
    Config(<<"merge", "frozen">>, 2, 2, TRUE),
    Config(<<"reject_transfer">>, 1, 1, TRUE),
    Config(<<"transferable">>, 1, 3, TRUE),
    Config(<<"frozen">>, 1, 1, FALSE) }
=============================================================================
