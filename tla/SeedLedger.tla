----------------------------- MODULE SeedLedger -----------------------------
(***************************************************************************)
(* What the seeding service promises, without goroutines, locks or files:  *)
(* one job at a time holds the slot, a job that settles keeps its outcome, *)
(* and the ledger of finished modules changes in atomic commits of the     *)
(* job that holds the slot.  A commit adds marks of the job's own name     *)
(* space; only a job started with reset may drop what was there before.    *)
(* A restart frees the slot and keeps the ledger.                          *)
(***************************************************************************)
CONSTANTS Jobs, Cfgs, Modules, None

Marks  == Cfgs \X Modules
NoSpec == [cfg |-> None, mods |-> {}, reset |-> FALSE]
Specs  == [cfg : Cfgs, mods : SUBSET Modules, reset : BOOLEAN]

VARIABLES
    slot,     \* the job that may write the ledger
    outcome,  \* what became of each job
    spec,     \* what each job was asked to do
    ledger    \* the marks that survive a restart

vars == <<slot, outcome, spec, ledger>>

Own(j) == {k \in Marks : k[1] = spec[j].cfg}

Init ==
    /\ slot = None
    /\ outcome = [j \in Jobs |-> "none"]
    /\ spec = [j \in Jobs |-> NoSpec]
    /\ ledger = {}

Start(j, s) ==
    /\ slot = None
    /\ outcome[j] = "none"
    /\ slot' = j
    /\ outcome' = [outcome EXCEPT ![j] = "running"]
    /\ spec' = [spec EXCEPT ![j] = s]
    /\ UNCHANGED ledger

Commit(j, marks) ==
    /\ slot = j
    /\ outcome[j] = "running"
    /\ ledger' = marks \cup (IF spec[j].reset THEN {} ELSE ledger)
    /\ UNCHANGED <<slot, outcome, spec>>

Settle(j, result) ==
    /\ slot = j
    /\ outcome[j] = "running"
    /\ outcome' = [outcome EXCEPT ![j] = result]
    /\ UNCHANGED <<slot, spec, ledger>>

Release(j) ==
    /\ slot = j
    /\ outcome[j] \in {"completed", "failed"}
    /\ slot' = None
    /\ UNCHANGED <<outcome, spec, ledger>>

Restart ==
    /\ slot' = None
    /\ outcome' =
          [j \in Jobs |-> IF outcome[j] = "none" THEN "none" ELSE "lost"]
    /\ UNCHANGED <<spec, ledger>>

Next ==
    \/ \E j \in Jobs, s \in Specs : Start(j, s)
    \/ \E j \in Jobs :
          \/ \E marks \in SUBSET Own(j) : Commit(j, marks)
          \/ \E result \in {"completed", "failed"} : Settle(j, result)
          \/ Release(j)
    \/ Restart

Spec == Init /\ [][Next]_vars
=============================================================================
