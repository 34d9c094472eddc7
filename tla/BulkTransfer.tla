---------------------------- MODULE BulkTransfer ----------------------------
(***************************************************************************)
(* A bulk transfer (handler/bulk_transfer_handler.go): one goroutine per   *)
(* account, at most as many at a time as the semaphore has places, each    *)
(* claiming from the faucet and passing the claim on, and a job object     *)
(* with counters and results that clients poll.                            *)
(*                                                                         *)
(* The counters are copied under job.mu; the results slice is shared, and  *)
(* is rendered after the lock is released, while goroutines may be writing *)
(* to it.  A transaction is submitted and waited for as in TxOutcome.      *)
(***************************************************************************)
EXTENDS Naturals, FiniteSets

CONSTANTS
  MaxCount,    \* the largest count accepted (5000)
  Default,     \* concurrency when none is asked for (16)
  Limit,       \* the largest concurrency (128)
  Amount,      \* transferAmount: the claim less the reserve for gas
  None         \* no result yet

ASSUME PoolAssumption ==
  /\ MaxCount \in Nat \ {0} /\ Amount \in Nat
  /\ Default \in Nat \ {0} /\ Limit \in Nat \ {0}

ASSUME NoneAssumption == None \notin {"error", "hash", "ok", "torn", "empty"}

VARIABLES
  status,    \* none | running | completed
  count,     \* accounts of the job
  workers,   \* places of the semaphore
  launched,  \* goroutines started by the loop of run
  pc,        \* where the goroutine of each account is
  res,       \* the result processOne returned
  results,   \* job.Results
  done, success, failed, total,  \* the counters of the job
  poll,      \* the answer being made for GET /bulk-transfer/:id
  chain,     \* the transactions at the node
  answer     \* what submission and wait returned for each

counters == <<done, success, failed, total>>
jobVars  == <<status, count, workers, results, counters>>
sends    == <<chain, answer>>
vars     == <<jobVars, launched, pc, res, poll, sends>>

Slots  == 1..MaxCount
Items  == 1..count
Txs    == Slots \X {"claim", "transfer"}

\* SubmitTx and WaitForTransaction as far as a caller may rely on them: error
\* is the submission's, errorWithHash the wait's.
Sends == INSTANCE TxOutcome

Whole  == {"error", "hash", "ok"}   \* failed, failed with TransferTxHash, succeeded
NoPoll == [pc |-> "idle", status |-> "none", done |-> 0, success |-> 0,
           seen |-> [i \in Slots |-> None]]

Init ==
  /\ status = "none" /\ count = 0 /\ workers = 0 /\ launched = 0
  /\ pc = [i \in Slots |-> "idle"]
  /\ res = [i \in Slots |-> None] /\ results = [i \in Slots |-> None]
  /\ done = 0 /\ success = 0 /\ failed = 0 /\ total = 0
  /\ poll = NoPoll
  /\ Sends!Init

Busy   == {i \in Items : pc[i] \notin {"idle", "returned"}}
Locked == \E i \in Items : pc[i] = "writing"
Goto(i, at) == pc' = [pc EXCEPT ![i] = at]
Return(i, r) == res' = [res EXCEPT ![i] = r] /\ Goto(i, "report")
-----------------------------------------------------------------------------
(* Mistakes: the code as a plausible bug would leave it. *)

\* The failures are counted as what the loop has launched less the successes.
UnlockLaunched(i) ==
  /\ pc[i] = "writing"
  /\ results' = [results EXCEPT ![i] = res[i]]
  /\ done' = done + 1
  /\ IF res[i] = "ok"
     THEN success' = success + 1 /\ total' = total + Amount /\ UNCHANGED failed
     ELSE failed' = launched - success /\ UNCHANGED <<success, total>>
  /\ Goto(i, "leave")
  /\ UNCHANGED <<status, count, workers, launched, res, poll, sends>>

\* The copy of the counters does not take the lock.
SnapshotUnlocked ==
  /\ status # "none" /\ poll.pc \in {"idle", "answered"}
  /\ \/ poll' = [NoPoll EXCEPT !.pc = "render", !.status = status, !.done = done,
                               !.success = success]
     \/ /\ Locked
        /\ poll' = [NoPoll EXCEPT !.pc = "render", !.status = status,
                                  !.done = done + 1, !.success = success]
  /\ UNCHANGED <<jobVars, launched, pc, res, sends>>

\* A wait that fails is taken for a transfer that will come through.
PassedOnAnyway(i) ==
  /\ pc[i] = "transfer"
  /\ \E a \in {"ok", "error", "errorWithHash"} :
       /\ Sends!Answer(<<i, "transfer">>, a)
       /\ Return(i, IF a = "error" THEN "error" ELSE "ok")
  /\ UNCHANGED <<jobVars, launched, poll>>

\* A goroutine that failed keeps its place.
LeaveHolding(i) ==
  /\ pc[i] = "leave" /\ res[i] = "ok"
  /\ Goto(i, "returned")
  /\ UNCHANGED <<jobVars, launched, res, poll, sends>>
-----------------------------------------------------------------------------
(* The request and the loop of run. *)

Concurrency(asked) ==
  IF asked = 0 THEN Default ELSE IF asked > Limit THEN Limit ELSE asked

\* POST /api/tool/bulk-transfer; a count out of range is refused.
BulkTransfer(n, asked) ==
  /\ status = "none"
  /\ n > 0 /\ n <= MaxCount
  /\ status' = "running" /\ count' = n /\ workers' = Concurrency(asked)
  /\ UNCHANGED <<results, counters, launched, pc, res, poll, sends>>

Launch ==
  /\ status = "running" /\ launched < count
  /\ Cardinality(Busy) < workers
  /\ launched' = launched + 1
  /\ Goto(launched + 1, "claim")
  /\ UNCHANGED <<jobVars, res, poll, sends>>

\* wg.Wait returned.
Complete ==
  /\ status = "running" /\ launched = count
  /\ \A i \in Items : pc[i] = "returned"
  /\ status' = "completed"
  /\ UNCHANGED <<count, workers, results, counters, launched, pc, res, poll, sends>>
-----------------------------------------------------------------------------
(* processOne *)

\* The claim's submission or its wait failed; deriving the account and building
\* the claim fail like a submission that never arrives.
ClaimError(i) ==
  /\ pc[i] = "claim"
  /\ \E a \in {"error", "errorWithHash"} : Sends!Answer(<<i, "claim">>, a)
  /\ Return(i, "error")
  /\ UNCHANGED <<jobVars, launched, poll>>

Claimed(i) ==
  /\ pc[i] = "claim"
  /\ Sends!Answer(<<i, "claim">>, "ok") /\ Goto(i, "mode") /\ UNCHANGED res
  /\ UNCHANGED <<jobVars, launched, poll>>

\* The signature mode is resolved on the chain's state, the transfer built.
Prepare(i) ==
  /\ pc[i] = "mode"
  /\ \/ Goto(i, "transfer") /\ UNCHANGED res
     \/ Return(i, "error")
  /\ UNCHANGED <<jobVars, launched, poll, sends>>

\* The hash is kept once the submission succeeded, also when the wait fails.
PassedOn(i) ==
  /\ pc[i] = "transfer"
  /\ \E a \in {"ok", "error", "errorWithHash"} :
       /\ Sends!Answer(<<i, "transfer">>, a)
       /\ Return(i, CASE a = "ok" -> "ok" [] a = "error" -> "error"
                      [] a = "errorWithHash" -> "hash")
  /\ UNCHANGED <<jobVars, launched, poll>>
-----------------------------------------------------------------------------
(* The end of a goroutine: job.mu is held from Report to Unlock.  Whoever     *)
(* renders the slice in between may see a part of the new element.            *)

Report(i) ==
  /\ pc[i] = "report" /\ ~ Locked
  /\ Goto(i, "writing")
  /\ results' = [results EXCEPT ![i] = "torn"]
  /\ UNCHANGED <<status, count, workers, counters, launched, res, poll, sends>>

Unlock(i) ==
  /\ pc[i] = "writing"
  /\ results' = [results EXCEPT ![i] = res[i]]
  /\ done' = done + 1
  /\ IF res[i] = "ok"
     THEN success' = success + 1 /\ total' = total + Amount /\ UNCHANGED failed
     ELSE failed' = done' - success /\ UNCHANGED <<success, total>>
  /\ Goto(i, "leave")
  /\ UNCHANGED <<status, count, workers, launched, res, poll, sends>>

\* The deferred calls: the place is given back, then wg.Done.
Leave(i) ==
  /\ pc[i] = "leave"
  /\ Goto(i, "returned")
  /\ UNCHANGED <<jobVars, launched, res, poll, sends>>
-----------------------------------------------------------------------------
(* GET /api/tool/bulk-transfer/:id *)

Snapshot ==
  /\ status # "none" /\ ~ Locked
  /\ poll.pc \in {"idle", "answered"}
  /\ poll' = [NoPoll EXCEPT !.pc = "render", !.status = status, !.done = done,
                            !.success = success]
  /\ UNCHANGED <<jobVars, launched, pc, res, sends>>

\* c.JSON renders the shared slice, from the first element to the last.
Render(i) ==
  /\ poll.pc = "render" /\ i = 1 + Cardinality({k \in Items : poll.seen[k] # None})
  /\ poll' = [poll EXCEPT
       !.seen[i] = IF results[i] = None THEN "empty" ELSE results[i],
       !.pc = IF i = count THEN "answered" ELSE "render"]
  /\ UNCHANGED <<jobVars, launched, pc, res, sends>>
-----------------------------------------------------------------------------
(* The node (external). *)

Submitted(t) == pc[t[1]] = t[2] \/ answer[t] # "none"

Node == \E t \in Txs :
  /\ Submitted(t)
  /\ Sends!Accept(t) \/ Sends!Finish(t)
  /\ UNCHANGED <<jobVars, launched, pc, res, poll>>
-----------------------------------------------------------------------------
Goroutine(i) == \/ ClaimError(i) \/ Claimed(i) \/ Prepare(i) \/ PassedOn(i)
                \/ Report(i) \/ Unlock(i) \/ Leave(i)

Next ==
  \/ \E n \in 0..(MaxCount + 1), asked \in 0..(Limit + 1) : BulkTransfer(n, asked)
  \/ Launch \/ Complete
  \/ \E i \in Items : Goroutine(i) \/ Render(i)
  \/ Snapshot
  \/ Node

Spec == Init /\ [][Next]_vars

\* The loop and every goroutine go on: a submission and a wait end by their own
\* time-outs.  The mutex is fair to waiters, so Report is strongly fair.
FairSpec ==
  /\ Spec
  /\ WF_vars(Launch) /\ WF_vars(Complete)
  /\ \A i \in Slots : /\ WF_vars(i \in Items /\ Goroutine(i))
                      /\ SF_vars(i \in Items /\ Report(i))
-----------------------------------------------------------------------------
(* Properties *)

\* Every variable has its type, and no more goroutines run than the semaphore
\* has places.
TypeOK ==
  /\ status \in {"none", "running", "completed"}
  /\ count \in 0..MaxCount /\ workers \in 0..Limit \union {Default}
  /\ launched \in 0..count
  /\ pc \in [Slots -> {"idle", "claim", "mode", "transfer", "report", "writing",
                       "leave", "returned"}]
  /\ res \in [Slots -> Whole \union {None}]
  /\ results \in [Slots -> Whole \union {None, "torn"}]
  /\ done \in 0..count /\ success \in 0..count /\ failed \in 0..count
  /\ total \in Nat
  /\ poll.seen \in [Slots -> Whole \union {None, "torn", "empty"}]
  /\ Cardinality(Busy) <= workers

With(r) == {i \in Items : results[i] \in r}

\* Whoever takes the lock finds counters that add up and agree with the results.
CountersAddUp ==
  ~ Locked => /\ done = Cardinality(With(Whole))
              /\ success = Cardinality(With({"ok"}))
              /\ failed = done - success
              /\ total = success * Amount

\* The results of an answer are never behind its counters, and all of them are
\* whole and agree with the counters once it says completed.
AnswerNotBehind ==
  poll.pc = "answered" =>
    LET seen(r) == Cardinality({i \in Items : poll.seen[i] \in r})
    IN  /\ poll.done <= seen(Whole)
        /\ poll.success <= seen({"ok"})
        /\ poll.status = "completed" =>
             /\ poll.done = count /\ seen(Whole) = count
             /\ poll.success = seen({"ok"})

\* A result that names a hash names an accepted transfer, one that is counted as
\* a success names a finished one, and either follows a finished claim.
ResultsTrue ==
  \A i \in Slots :
    /\ results[i] \in {"hash", "ok"} => chain[<<i, "transfer">>] # "unknown"
    /\ results[i] = "ok" => chain[<<i, "transfer">>] \in Sends!Final
    /\ results[i] \in {"hash", "ok"} => chain[<<i, "claim">>] \in Sends!Final

\* Every job completes, whatever its goroutines meet.
JobCompletes == status = "running" ~> status = "completed"
=============================================================================
