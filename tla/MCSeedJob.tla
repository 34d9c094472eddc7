------------------------------ MODULE MCSeedJob ------------------------------
(* Model values, bounds and canonical names for TLC runs of SeedJob. *)
EXTENDS SeedJob, TLC

CONSTANTS j1, j2, c1, k1, k2, vc, compliance

MCJobs      == {j1, j2}
MCClients   == {c1}
MCCfgs      == {k1, k2}
MCOrder     == <<vc, compliance>>

\* k1 has certificates and compliance tokens, k2 certificates only.
MCPlanned == (k1 :> {vc, compliance}) @@ (k2 :> {vc})

\* Jobs are interchangeable: j1 is the first to start.  SYMMETRY would say the
\* same, but not where liveness is checked.
Canonical == status[j2] # "none" => status[j1] # "none"
=============================================================================
