------------------------- MODULE BulkTransferProofs -------------------------
(***************************************************************************)
(* Proofs about BulkTransfer for any number of accounts and places.  IInv  *)
(* says of each slot how its result follows its goroutine and what the     *)
(* chain then knows (Stage), and that the counters count whole results at  *)
(* every moment, the torn one belonging to the one goroutine that holds    *)
(* the lock (Tally, OneWriter).  PollInv says what an answer in the making *)
(* holds: at least what its counters say (Ahead), rendered from the first  *)
(* element on (Prefix), and nothing that can change after the end (Ended). *)
(***************************************************************************)
EXTENDS BulkTransfer, FiniteSetTheorems, TLAPS

Elements == Whole \union {None, "torn", "empty"}

Types ==
  /\ status \in {"none", "running", "completed"}
  /\ count \in 0..MaxCount /\ workers \in 0..Limit \union {Default}
  /\ launched \in 0..count
  /\ pc \in [Slots -> {"idle", "claim", "mode", "transfer", "report", "writing",
                       "leave", "returned"}]
  /\ res \in [Slots -> Whole \union {None}]
  /\ results \in [Slots -> Whole \union {None, "torn"}]
  /\ poll \in [pc : {"idle", "render", "answered"}, status : {"none", "running", "completed"},
               done : Nat, success : Nat, seen : [Slots -> Elements]]
  /\ chain \in [Txs -> {"unknown", "pending"} \union Sends!Final]
  /\ status = "none" => count = 0

\* How the result of a slot follows its goroutine, and what the chain knows.
Stage(i) ==
  /\ i > launched <=> pc[i] = "idle"
  /\ pc[i] \in {"report", "writing", "leave", "returned"} => res[i] \in Whole
  /\ pc[i] \notin {"writing", "leave", "returned"} => results[i] = None
  /\ pc[i] = "writing" => results[i] = "torn"
  /\ pc[i] \in {"leave", "returned"} => results[i] = res[i]
  /\ pc[i] \in {"mode", "transfer"} => chain[<<i, "claim">>] \in Sends!Final
  /\ res[i] \in {"hash", "ok"} => /\ chain[<<i, "claim">>] \in Sends!Final
                                  /\ chain[<<i, "transfer">>] # "unknown"
  /\ res[i] = "ok" => chain[<<i, "transfer">>] \in Sends!Final

OneWriter == \A i, j \in Slots : pc[i] = "writing" /\ pc[j] = "writing" => i = j

\* The counters count the results that are whole.
Tally ==
  /\ done = Cardinality(With(Whole)) /\ success = Cardinality(With({"ok"}))
  /\ failed = done - success /\ total = success * Amount

Pool == Cardinality(Busy) <= workers

IInv == Types /\ (\A i \in Slots : Stage(i)) /\ OneWriter /\ Tally /\ Pool

-----------------------------------------------------------------------------
\* The sets that are counted are finite, and no larger than the job.
LEMMA Counted ==
  ASSUME Types
  PROVE  \A S \in SUBSET Items : /\ IsFiniteSet(S) /\ Cardinality(S) \in Nat
                                 /\ Cardinality(S) <= count
<1>1. count \in Nat
  BY PoolAssumption DEF Types
<1>2. IsFiniteSet(Items) /\ Cardinality(Items) = count
  BY <1>1, FS_Interval DEF Items
<1> SUFFICES ASSUME NEW S \in SUBSET Items
             PROVE  IsFiniteSet(S) /\ Cardinality(S) \in Nat /\ Cardinality(S) <= count
  OBVIOUS
<1>3. IsFiniteSet(S) /\ Cardinality(S) <= count
  BY <1>2, FS_Subset
<1> QED
  BY <1>3, FS_CardinalityType

\* A goroutine that has been started is one of the job's.
LEMMA Within ==
  ASSUME IInv, NEW j \in Slots, pc[j] # "idle"
  PROVE  j \in Items /\ j <= launched
<1>1. j \in Nat \ {0} /\ launched \in Nat /\ count \in Nat /\ launched <= count
  BY PoolAssumption DEF IInv, Types, Slots
<1>2. ~ (j > launched)
  BY DEF IInv, Stage
<1> QED
  BY <1>1, <1>2 DEF Items

\* The slots of the job are slots.
LEMMA Members == IInv => \A k \in Items : k \in Slots
BY PoolAssumption DEF IInv, Types, Items, Slots

\* What Stage says of the results alone.
LEMMA Outcome ==
  ASSUME IInv, NEW j \in Slots
  PROVE  /\ pc[j] \in {"report", "writing"} => res[j] \in Whole
         /\ pc[j] \notin {"writing", "leave", "returned"} => results[j] = None
         /\ pc[j] = "writing" => results[j] = "torn"
<1>1. Stage(j)
  BY DEF IInv
<1> QED
  BY <1>1 DEF Stage

\* The type invariant of the module follows.
LEMMA InvType == IInv => TypeOK
<1> SUFFICES ASSUME IInv PROVE TypeOK
  OBVIOUS
<1>1. /\ Cardinality(With(Whole)) \in 0..count
      /\ Cardinality(With({"ok"})) \in 0..count
  BY Counted, PoolAssumption DEF IInv, Types, With
<1>2. Cardinality(With({"ok"})) <= Cardinality(With(Whole))
  <2>1. With({"ok"}) \subseteq With(Whole)
    BY DEF With, Whole
  <2>2. IsFiniteSet(With(Whole))
    BY Counted DEF IInv, With
  <2> QED
    BY <2>1, <2>2, FS_Subset
<1>3. /\ done \in 0..count /\ success \in 0..count /\ failed \in 0..count
      /\ total \in Nat
  BY <1>1, <1>2, PoolAssumption DEF IInv, Tally, Types
<1> QED
  BY <1>3 DEF IInv, Types, Pool, TypeOK, Elements

-----------------------------------------------------------------------------
\* The invariant holds before any job.
LEMMA InitIInv == Init => IInv
<1> SUFFICES ASSUME Init PROVE IInv
  OBVIOUS
<1> USE PoolAssumption, NoneAssumption
<1>1. Types
  BY DEF Init, Types, NoPoll, Elements, Sends!Init, Sends!Final, Whole
<1>2. \A i \in Slots : Stage(i)
  BY DEF Init, Stage, Slots
<1>3. OneWriter
  BY DEF Init, OneWriter
<1>4. With(Whole) = {} /\ With({"ok"}) = {} /\ Busy = {}
  BY DEF Init, With, Items, Busy
<1>5. Tally /\ Pool
  BY <1>4, FS_EmptySet DEF Init, Tally, Pool
<1> QED
  BY <1>1, <1>2, <1>3, <1>5 DEF IInv

-----------------------------------------------------------------------------
\* One step of a goroutine, a poll or the node keeps the types.
LEMMA NextTypes == IInv /\ [Next]_vars => Types'
<1> SUFFICES ASSUME IInv, [Next]_vars PROVE Types'
  OBVIOUS
<1> USE PoolAssumption, NoneAssumption
    DEF IInv, Types, jobVars, counters, sends, Goto, Return, Slots, Items
<1>1. ASSUME NEW n \in 0..(MaxCount + 1), NEW asked \in 0..(Limit + 1),
             BulkTransfer(n, asked)
      PROVE  Types'
  <2>1. UNCHANGED <<pc, res, results, poll, chain>>
    BY <1>1 DEF BulkTransfer
  <2>2. /\ status' = "running" /\ count' \in 0..MaxCount
        /\ launched = 0 /\ launched' = 0 /\ 0 \in 0..count'
    BY <1>1 DEF BulkTransfer
  <2>3. workers' \in 0..Limit \union {Default}
    BY <1>1 DEF BulkTransfer, Concurrency
  <2> QED
    BY <2>1, <2>2, <2>3
<1>2. CASE Launch
  <2>1. UNCHANGED <<status, count, workers, res, results, poll, chain>>
    BY <1>2 DEF Launch
  <2>2. launched' \in 0..count
    BY <1>2 DEF Launch
  <2>3. pc' = [pc EXCEPT ![launched + 1] = "claim"]
    BY <1>2 DEF Launch
  <2> QED
    BY <2>1, <2>2, <2>3
<1>3. CASE Complete
  <2>1. /\ UNCHANGED <<count, workers, launched, pc, res, results, poll, chain>>
        /\ status' = "completed"
    BY <1>3 DEF Complete
  <2> QED
    BY <2>1
<1>4. ASSUME NEW i \in Items, ClaimError(i) \/ Claimed(i) PROVE Types'
  BY <1>4 DEF ClaimError, Claimed, Sends!Answer, Whole
<1>5. ASSUME NEW i \in Items, Prepare(i) \/ PassedOn(i) PROVE Types'
  <2>1. UNCHANGED <<status, count, workers, launched, results, poll, chain>>
    BY <1>5 DEF Prepare, PassedOn, Sends!Answer
  <2>2. \E at \in {"transfer", "report"} : pc' = [pc EXCEPT ![i] = at]
    BY <1>5 DEF Prepare, PassedOn
  <2>3. res' = res \/ \E r \in Whole : res' = [res EXCEPT ![i] = r]
    BY <1>5 DEF Prepare, PassedOn, Whole
  <2> QED
    BY <2>1, <2>2, <2>3
<1>6. ASSUME NEW i \in Items, Report(i) \/ Unlock(i) \/ Leave(i) PROVE Types'
  <2>1. UNCHANGED <<status, count, workers, launched, res, poll, chain>>
    BY <1>6 DEF Report, Unlock, Leave
  <2>2. \E at \in {"writing", "leave", "returned"} : pc' = [pc EXCEPT ![i] = at]
    BY <1>6 DEF Report, Unlock, Leave
  <2>3. \E r \in Whole \union {None, "torn"} : results' = [results EXCEPT ![i] = r]
    <3>1. CASE Report(i) \/ Unlock(i)
      <4>1. res[i] \in Whole \union {None}
        BY Members
      <4> QED
        BY <3>1, <4>1 DEF Report, Unlock
    <3>2. CASE Leave(i)
      <4>1. results' = [results EXCEPT ![i] = results[i]]
        BY <3>2 DEF Leave
      <4>2. results[i] \in Whole \union {None, "torn"}
        BY Members
      <4> QED
        BY <4>1, <4>2
    <3> QED
      BY <1>6, <3>1, <3>2
  <2> QED
    BY <2>1, <2>2, <2>3
<1>7. ASSUME NEW i \in Items, Render(i) PROVE Types'
  <2>1. /\ UNCHANGED <<status, count, workers, launched, pc, res, results, chain>>
        /\ i \in Slots
    BY <1>7, Members DEF Render
  <2>2. results[i] \in Whole \union {None, "torn"}
    BY <2>1
  <2>3. PICK e \in Elements, at \in {"answered", "render"} :
          poll' = [poll EXCEPT !.seen[i] = e, !.pc = at]
    BY <1>7, <2>2 DEF Render, Elements
  <2>4. poll' \in [pc : {"idle", "render", "answered"}, status : {"none", "running", "completed"},
                   done : Nat, success : Nat, seen : [Slots -> Elements]]
    BY <2>3
  <2> QED
    BY <2>1, <2>4
<1>8. CASE Snapshot
  <2>1. done \in Nat /\ success \in Nat
    BY InvType DEF TypeOK
  <2> QED
    BY <1>8, <2>1 DEF Snapshot, NoPoll, Elements
<1>9. CASE Node
  BY <1>9 DEF Node, Sends!Accept, Sends!Finish, Sends!Final
<1>10. CASE UNCHANGED vars
  BY <1>10 DEF vars
<1> HIDE DEF Types, IInv
<1> QED
  BY <1>1, <1>2, <1>3, <1>4, <1>5, <1>6, <1>7, <1>8, <1>9, <1>10 DEF Next, Goroutine

\* A result follows its goroutine, and the chain goes no way back.
LEMMA NextStage == IInv /\ [Next]_vars => \A k \in Slots : Stage(k)'
<1> SUFFICES ASSUME IInv, [Next]_vars, NEW k \in Slots PROVE Stage(k)'
  OBVIOUS
<1> USE PoolAssumption, NoneAssumption
    DEF IInv, Types, jobVars, counters, sends, Goto, Return, Slots, Items, Stage, Whole
<1>1. ASSUME NEW n \in 0..(MaxCount + 1), NEW asked \in 0..(Limit + 1),
             BulkTransfer(n, asked)
      PROVE  Stage(k)'
  BY <1>1 DEF BulkTransfer
<1>2. CASE Launch
  BY <1>2 DEF Launch
<1>3. CASE Complete
  BY <1>3 DEF Complete
<1>4. ASSUME NEW i \in Items, ClaimError(i) \/ Claimed(i) PROVE Stage(k)'
  <2>1. CASE ClaimError(i)
    <3>1. UNCHANGED <<chain, launched, results>>
      BY <2>1 DEF ClaimError, Sends!Answer
    <3> QED
      BY <2>1, <3>1 DEF ClaimError
  <2>2. CASE Claimed(i)
    <3>1. UNCHANGED <<chain, launched, results, res>> /\ chain[<<i, "claim">>] \in Sends!Final
      BY <2>2 DEF Claimed, Sends!Answer
    <3>2. pc[i] = "claim" /\ pc' = [pc EXCEPT ![i] = "mode"]
      BY <2>2 DEF Claimed
    <3> QED
      BY <3>1, <3>2
  <2> QED
    BY <1>4, <2>1, <2>2
<1>5. ASSUME NEW i \in Items, Prepare(i) PROVE Stage(k)'
  BY <1>5 DEF Prepare
<1>6. ASSUME NEW i \in Items, PassedOn(i) PROVE Stage(k)'
  <2>1. PICK a \in {"ok", "error", "errorWithHash"} :
          /\ Sends!Answer(<<i, "transfer">>, a)
          /\ Return(i, CASE a = "ok" -> "ok" [] a = "error" -> "error"
                         [] a = "errorWithHash" -> "hash")
    BY <1>6 DEF PassedOn
  <2>2. UNCHANGED <<chain, launched, results>> /\ pc[i] = "transfer"
    BY <1>6, <2>1 DEF PassedOn, Sends!Answer
  <2>3. /\ a = "ok" => chain[<<i, "transfer">>] \in Sends!Final
        /\ a = "errorWithHash" => chain[<<i, "transfer">>] # "unknown"
    BY <2>1 DEF Sends!Answer
  <2>4. "unknown" \notin Sends!Final
    BY DEF Sends!Final
  <2> QED
    BY <2>1, <2>2, <2>3, <2>4
<1>7. ASSUME NEW i \in Items, Report(i) \/ Unlock(i) \/ Leave(i) PROVE Stage(k)'
  <2>1. UNCHANGED <<chain, launched, res>>
    BY <1>7 DEF Report, Unlock, Leave
  <2>2. CASE Report(i)
    BY <2>1, <2>2 DEF Report
  <2>3. CASE Unlock(i)
    BY <2>1, <2>3 DEF Unlock
  <2>4. CASE Leave(i)
    BY <2>1, <2>4 DEF Leave
  <2> QED
    BY <1>7, <2>2, <2>3, <2>4
<1>8. ASSUME NEW i \in Items, Render(i) PROVE Stage(k)'
  BY <1>8 DEF Render
<1>9. CASE Snapshot
  BY <1>9 DEF Snapshot
<1>10. CASE Node
  <2>1. UNCHANGED <<launched, pc, res, results>>
    BY <1>10 DEF Node
  <2>2. ASSUME NEW t \in Txs
        PROVE  /\ chain[t] # "unknown" => chain'[t] # "unknown"
               /\ chain[t] \in Sends!Final => chain'[t] \in Sends!Final
    BY <1>10 DEF Node, Sends!Accept, Sends!Finish, Sends!Final
  <2>3. <<k, "claim">> \in Txs /\ <<k, "transfer">> \in Txs
    BY DEF Txs
  <2>4. \A s \in {"claim", "transfer"} :
          /\ chain[<<k, s>>] # "unknown" => chain'[<<k, s>>] # "unknown"
          /\ chain[<<k, s>>] \in Sends!Final => chain'[<<k, s>>] \in Sends!Final
    BY <2>2, <2>3
  <2>5. Stage(k)
    OBVIOUS
  <2> QED
    BY ONLY <2>1, <2>4, <2>5 DEF Stage
<1>11. CASE UNCHANGED vars
  BY <1>11 DEF vars
<1> HIDE DEF Stage, IInv, Types
<1> QED
  BY <1>1, <1>2, <1>3, <1>4, <1>5, <1>6, <1>7, <1>8, <1>9, <1>10, <1>11
  DEF Next, Goroutine

\* The lock is taken only when nobody holds it.
LEMMA NextOneWriter == IInv /\ [Next]_vars => OneWriter'
<1> SUFFICES ASSUME IInv, [Next]_vars PROVE OneWriter'
  OBVIOUS
<1> USE DEF IInv, Types, jobVars, counters, sends, Goto, Return, OneWriter
<1>1. CASE UNCHANGED pc
  BY <1>1
<1>2. CASE Launch
  BY <1>2, PoolAssumption DEF Launch, Slots
<1>3. ASSUME NEW i \in Items, ClaimError(i) \/ Claimed(i) \/ Prepare(i) \/ PassedOn(i)
      PROVE  OneWriter'
  BY <1>3 DEF ClaimError, Claimed, Prepare, PassedOn
<1>4. ASSUME NEW i \in Items, Report(i) PROVE OneWriter'
  <2>1. \A j \in Slots : pc[j] # "writing"
    <3>1. ASSUME NEW j \in Slots, pc[j] = "writing" PROVE j \in Items
      BY <3>1, Within
    <3> QED
      BY <1>4, <3>1 DEF Report, Locked
  <2> QED
    BY <1>4, <2>1 DEF Report
<1>5. ASSUME NEW i \in Items, Unlock(i) \/ Leave(i) PROVE OneWriter'
  BY <1>5 DEF Unlock, Leave
<1>6. ASSUME NEW i \in Items, Render(i) PROVE UNCHANGED pc
  BY <1>6 DEF Render
<1>7. CASE Complete \/ Snapshot \/ Node \/ UNCHANGED vars
  BY <1>7, <1>1 DEF Complete, Snapshot, Node, vars
<1>8. ASSUME NEW n \in 0..(MaxCount + 1), NEW asked \in 0..(Limit + 1),
             BulkTransfer(n, asked)
      PROVE  UNCHANGED pc
  BY <1>8 DEF BulkTransfer
<1> HIDE DEF OneWriter, IInv, Types
<1> QED
  BY <1>1, <1>2, <1>3, <1>4, <1>5, <1>6, <1>7, <1>8 DEF Next, Goroutine

-----------------------------------------------------------------------------
\* Whole results change only when a goroutine gives the lock back.
LEMMA SameTally ==
  ASSUME IInv, UNCHANGED <<count, counters>>,
         \A k \in Slots : results[k] \in Whole \/ results'[k] \in Whole
                            => results'[k] = results[k]
  PROVE  Tally'
<1>1. \A k \in Items : k \in Slots
  BY Members
<1>2. With(Whole)' = With(Whole) /\ With({"ok"})' = With({"ok"})
  BY <1>1 DEF With, Items, Whole
<1> QED
  BY <1>2 DEF IInv, Tally, counters

\* Unlock counts the result it writes; every other step counts nothing and changes
\* no whole result.
LEMMA NextTally == IInv /\ [Next]_vars => Tally'
<1> SUFFICES ASSUME IInv, [Next]_vars PROVE Tally'
  OBVIOUS
<1> USE NoneAssumption DEF jobVars, counters
<1>1. ASSUME NEW n \in 0..(MaxCount + 1), NEW asked \in 0..(Limit + 1),
             BulkTransfer(n, asked)
      PROVE  Tally'
  <2>1. \A k \in Slots : results[k] = None
    <3>1. Items = {}
      BY <1>1 DEF BulkTransfer, IInv, Types, Items
    <3> QED
      BY <3>1, Within, Outcome
  <2>2. \A k \in Items' : k \in Slots
    BY <1>1, PoolAssumption DEF BulkTransfer, Items, Slots
  <2>3. count = 0
    BY <1>1 DEF BulkTransfer, IInv, Types
  <2>4. With(Whole) = {} /\ With({"ok"}) = {}
    BY <2>3 DEF With, Items
  <2>5. With(Whole)' = {} /\ With({"ok"})' = {}
    BY <1>1, <2>1, <2>2 DEF BulkTransfer, With, Whole
  <2> QED
    BY <1>1, <2>4, <2>5 DEF BulkTransfer, IInv, Tally
<1>2. CASE UNCHANGED <<count, counters, results>>
  BY <1>2, SameTally
<1>3. ASSUME NEW i \in Items, Report(i) PROVE Tally'
  <2>1. i \in Slots /\ results[i] = None /\ results \in [Slots -> Whole \union {None, "torn"}]
    BY <1>3, Members, Outcome DEF Report, IInv, Types
  <2>2. results' = [results EXCEPT ![i] = "torn"] /\ UNCHANGED <<count, counters>>
    BY <1>3 DEF Report
  <2>3. ASSUME NEW k \in Slots, results[k] \in Whole \/ results'[k] \in Whole
        PROVE  results'[k] = results[k]
    BY <2>1, <2>2, <2>3 DEF Whole
  <2> QED
    BY <2>2, <2>3, SameTally
<1>4. ASSUME NEW i \in Items, Unlock(i) PROVE Tally'
  <2>1. /\ i \in Slots /\ results[i] = "torn" /\ res[i] \in Whole
        /\ results \in [Slots -> Whole \union {None, "torn"}]
    BY <1>4, Members, Outcome DEF Unlock, IInv, Types
  <2>2. results' = [results EXCEPT ![i] = res[i]] /\ count' = count
    BY <1>4 DEF Unlock
  <2>3. \A k \in Items : k \in Slots
    BY Members
  <2>4. /\ i \notin With(Whole) /\ i \notin With({"ok"})
        /\ With(Whole)' = With(Whole) \union {i}
        /\ With({"ok"})' = IF res[i] = "ok" THEN With({"ok"}) \union {i} ELSE With({"ok"})
    BY <2>1, <2>2, <2>3 DEF With, Items, Whole
  <2>5. /\ IsFiniteSet(With(Whole)) /\ Cardinality(With(Whole)) \in Nat
        /\ IsFiniteSet(With({"ok"})) /\ Cardinality(With({"ok"})) \in Nat
    BY Counted DEF IInv, With
  <2>6. /\ Cardinality(With(Whole)') = Cardinality(With(Whole)) + 1
        /\ Cardinality(With({"ok"})') =
             IF res[i] = "ok" THEN Cardinality(With({"ok"})) + 1 ELSE Cardinality(With({"ok"}))
    BY <2>4, <2>5, FS_AddElement
  <2> DEFINE w == Cardinality(With(Whole))
             s == Cardinality(With({"ok"}))
  <2>7. /\ done = w /\ success = s /\ failed = w - s /\ total = s * Amount
        /\ w \in Nat /\ s \in Nat /\ Amount \in Nat
    BY <2>5, PoolAssumption DEF IInv, Tally
  <2>8. /\ done' = done + 1
        /\ IF res[i] = "ok"
           THEN success' = success + 1 /\ total' = total + Amount /\ failed' = failed
           ELSE failed' = done' - success /\ success' = success /\ total' = total
    BY <1>4 DEF Unlock
  <2> HIDE DEF w, s
  <2>9. /\ done' = w + 1
        /\ success' = IF res[i] = "ok" THEN s + 1 ELSE s
        /\ failed' = done' - success' /\ total' = success' * Amount
    BY <2>7, <2>8
  <2> QED
    BY <2>6, <2>9 DEF Tally, w, s
<1>5. ASSUME NEW i \in Items, ClaimError(i) \/ Claimed(i) \/ Prepare(i) \/ PassedOn(i)
                               \/ Leave(i) \/ Render(i)
      PROVE  UNCHANGED <<count, counters, results>>
  BY <1>5 DEF ClaimError, Claimed, Prepare, PassedOn, Leave, Render
<1>6. CASE Launch \/ Complete \/ Snapshot \/ Node \/ UNCHANGED vars
  BY <1>6, <1>2 DEF Launch, Complete, Snapshot, Node, vars
<1> QED
  BY <1>1, <1>2, <1>3, <1>4, <1>5, <1>6 DEF Next, Goroutine

-----------------------------------------------------------------------------
\* Only the loop makes a goroutine busy, and only with a place free.
LEMMA NextPool == IInv /\ [Next]_vars => Pool'
<1> SUFFICES ASSUME IInv, [Next]_vars PROVE Pool'
  OBVIOUS
<1> USE DEF jobVars, Goto, Return
<1>0. /\ IsFiniteSet(Busy) /\ Cardinality(Busy) \in Nat /\ workers \in Nat
      /\ Cardinality(Busy) <= workers
      /\ pc \in [Slots -> {"idle", "claim", "mode", "transfer", "report", "writing",
                           "leave", "returned"}]
  BY Counted, PoolAssumption DEF IInv, Busy, Pool, Types
<1>1. ASSUME NEW n \in 0..(MaxCount + 1), NEW asked \in 0..(Limit + 1),
             BulkTransfer(n, asked)
      PROVE  Pool'
  <2>1. \A k \in Slots : pc[k] = "idle"
    BY <1>1, Within DEF BulkTransfer, IInv, Types, Items
  <2>2. \A k \in Items' : k \in Slots
    BY <1>1, PoolAssumption DEF BulkTransfer, Items, Slots
  <2>3. Busy' = {}
    BY <1>1, <2>1, <2>2 DEF BulkTransfer, Busy
  <2>4. workers' \in Nat
    BY <1>1, PoolAssumption DEF BulkTransfer, Concurrency
  <2> QED
    BY <2>3, <2>4, FS_EmptySet DEF Pool
<1>2. CASE Launch
  <2>1. launched + 1 \in Items /\ \A k \in Items : k \in Slots
    BY <1>2, PoolAssumption DEF Launch, IInv, Types, Items, Slots
  <2>2. pc' = [pc EXCEPT ![launched + 1] = "claim"] /\ UNCHANGED <<count, workers>>
        /\ Cardinality(Busy) < workers
    BY <1>2 DEF Launch
  <2>3. Busy' = Busy \union {launched + 1}
    BY <1>0, <2>1, <2>2 DEF Busy, Items
  <2>4. Cardinality(Busy') <= Cardinality(Busy) + 1
    BY <1>0, <2>3, FS_AddElement
  <2>5. Cardinality(Busy') \in Nat
    BY <1>0, <2>3, FS_AddElement, FS_CardinalityType
  <2> QED
    BY <1>0, <2>2, <2>4, <2>5 DEF Pool
<1>3. ASSUME NEW i \in Items, Goroutine(i) PROVE Pool'
  <2>1. \A k \in Items : k \in Slots
    BY Members
  <2>2. /\ UNCHANGED <<count, workers>> /\ pc[i] # "returned" /\ pc[i] # "idle"
        /\ \E at \in {"mode", "transfer", "report", "writing", "leave", "returned"} :
             pc' = [pc EXCEPT ![i] = at]
    BY <1>3 DEF Goroutine, ClaimError, Claimed, Prepare, PassedOn, Report, Unlock, Leave
  <2>3. Busy' \subseteq Busy
    BY <1>0, <2>1, <2>2 DEF Busy, Items
  <2>4. Cardinality(Busy') <= Cardinality(Busy) /\ Cardinality(Busy') \in Nat
    BY <1>0, <2>3, FS_Subset, FS_CardinalityType
  <2> QED
    BY <1>0, <2>2, <2>4 DEF Pool
<1>4. CASE UNCHANGED <<count, workers, pc>>
  BY <1>4 DEF IInv, Pool, Busy, Items
<1>5. CASE Complete \/ Snapshot \/ Node \/ UNCHANGED vars
  BY <1>4, <1>5 DEF Complete, Snapshot, Node, vars
<1>6. ASSUME NEW i \in Items, Render(i) PROVE UNCHANGED <<count, workers, pc>>
  BY <1>6 DEF Render
<1> QED
  BY <1>1, <1>2, <1>3, <1>4, <1>5, <1>6 DEF Next

-----------------------------------------------------------------------------
\* IInv holds in every reachable state.
LEMMA Inductive == Spec => []IInv
<1>1. IInv /\ [Next]_vars => IInv'
  BY NextTypes, NextStage, NextOneWriter, NextTally, NextPool DEF IInv, Slots
<1> QED
  BY InitIInv, <1>1, PTL DEF Spec

\* Every variable has its type, and no more goroutines run than the semaphore has
\* places, for any number of accounts and any concurrency.
THEOREM TypeCorrect == Spec => []TypeOK
BY Inductive, InvType, PTL

\* Whoever takes the lock of a job finds counters that add up and agree with the
\* results, in whatever order the goroutines have ended.
THEOREM CountersTrue == Spec => []CountersAddUp
<1>1. IInv => CountersAddUp
  BY DEF IInv, Tally, CountersAddUp
<1> QED
  BY Inductive, <1>1, PTL

\* What the results of a job say of its transactions is true of the chain, also
\* while a result is being written.
THEOREM ResultsAreTrue == Spec => []ResultsTrue
<1>1. IInv => ResultsTrue
  <2> SUFFICES ASSUME IInv, NEW i \in Slots, results[i] \in {"hash", "ok"}
               PROVE  /\ chain[<<i, "transfer">>] # "unknown"
                      /\ results[i] = "ok" => chain[<<i, "transfer">>] \in Sends!Final
                      /\ chain[<<i, "claim">>] \in Sends!Final
    BY DEF ResultsTrue
  <2>1. results[i] = res[i]
    BY NoneAssumption DEF IInv, Types, Stage
  <2> QED
    BY <2>1 DEF IInv, Stage
<1> QED
  BY Inductive, <1>1, PTL

-----------------------------------------------------------------------------
(* The answers.  What a poll has rendered, or would render now, only gains  *)
(* whole results.                                                           *)

Shown(r) == {i \in Items : (IF poll.seen[i] = None THEN results[i]
                                                   ELSE poll.seen[i]) \in r}

Ahead == poll.done <= Cardinality(Shown(Whole)) /\ poll.success <= Cardinality(Shown({"ok"}))

\* The slice is rendered from the first element to the last.
Rendered(m) == \A k \in Items : poll.seen[k] # None <=> k <= m

Prefix ==
  /\ poll.pc = "render" => \E m \in 0..(count - 1) : Rendered(m)
  /\ poll.pc = "answered" => \A k \in Items : poll.seen[k] # None
  /\ IF status = "none" THEN poll.pc = "idle" ELSE count # 0

\* Once a job has completed nothing of it changes.
Ended ==
  /\ status = "completed" => \A i \in Items : pc[i] = "returned"
  /\ poll.status = "completed" =>
       /\ status = "completed" /\ poll.done = done /\ poll.success = success
       /\ \A k \in Items : poll.seen[k] # None => poll.seen[k] = results[k]

PollInv == Ahead /\ Prefix /\ Ended

Countable ==
  /\ IsFiniteSet(Shown(Whole)) /\ Cardinality(Shown(Whole)) \in Nat
  /\ IsFiniteSet(Shown({"ok"})) /\ Cardinality(Shown({"ok"})) \in Nat

\* What a poll shows can be counted, before a step and after it.
LEMMA ShownCountable == IInv => Countable
BY Counted DEF IInv, Shown, Countable

LEMMA ShownCountableNext == IInv' => Countable'
<1>1. IInv => Countable
  BY ShownCountable
<1> QED
  BY <1>1, PTL

\* Steps that render nothing.
LEMMA SamePoll ==
  ASSUME IInv, IInv', PollInv, poll' = poll, Items \subseteq Items',
         \A k \in Items : results[k] \in Whole => results'[k] = results[k]
  PROVE  Ahead'
<1>1. Shown(Whole) \subseteq Shown(Whole)' /\ Shown({"ok"}) \subseteq Shown({"ok"})'
  BY DEF Shown, Whole
<1>2. Countable /\ Countable'
  BY ShownCountable, ShownCountableNext
<1>3. /\ Cardinality(Shown(Whole)) <= Cardinality(Shown(Whole)')
      /\ Cardinality(Shown({"ok"})) <= Cardinality(Shown({"ok"})')
  BY <1>1, <1>2, FS_Subset DEF Countable
<1>4. poll.done \in Nat /\ poll.success \in Nat
  BY DEF IInv, Types
<1> QED
  BY <1>2, <1>3, <1>4 DEF PollInv, Ahead, Countable
\* The element a poll renders next is the first it has not rendered.
LEMMA Cursor ==
  ASSUME IInv, PollInv, NEW i \in Items, Render(i)
  PROVE  poll.seen[i] = None /\ \A k \in Items : poll.seen[k] # None <=> k <= i - 1
<1>1. PICK m \in 0..(count - 1) : Rendered(m)
  BY DEF Render, PollInv, Prefix
<1>2. count \in Nat /\ m \in Nat /\ m < count
  BY PoolAssumption DEF IInv, Types
<1>3. {k \in Items : poll.seen[k] # None} = 1..m
  BY <1>1, <1>2 DEF Rendered, Items
<1>4. Cardinality(1..m) = m
  BY <1>2, FS_Interval
<1>5. i = 1 + Cardinality({k \in Items : poll.seen[k] # None})
  BY DEF Render
<1>6. i = 1 + m
  BY <1>3, <1>4, <1>5
<1> QED
  BY <1>1, <1>2, <1>6 DEF Rendered, Items

\* Every result of a job that has completed is whole.
LEMMA WholeAtEnd ==
  ASSUME IInv, PollInv, status = "completed", NEW k \in Items
  PROVE  results[k] \in Whole
<1>1. k \in Slots /\ pc[k] = "returned"
  BY Members DEF PollInv, Ended
<1> QED
  BY <1>1 DEF IInv, Stage

\* A result that an answer counts is shown whole, whenever it is rendered.
LEMMA NextAhead == IInv /\ IInv' /\ PollInv /\ [Next]_vars => Ahead'
<1> SUFFICES ASSUME IInv, IInv', PollInv, [Next]_vars PROVE Ahead'
  OBVIOUS
<1> USE NoneAssumption DEF jobVars, counters
<1>1. ASSUME NEW n \in 0..(MaxCount + 1), NEW asked \in 0..(Limit + 1),
             BulkTransfer(n, asked)
      PROVE  Ahead'
  <2>1. Items = {} /\ poll' = poll
    BY <1>1 DEF BulkTransfer, IInv, Types, Items
  <2> QED
    BY <2>1, SamePoll
<1>2. ASSUME NEW i \in Items, Report(i) \/ Unlock(i) PROVE Ahead'
  <2>1. poll' = poll /\ count' = count /\ results[i] \notin Whole
    BY <1>2, Members, Outcome DEF Report, Unlock, Whole
  <2>2. \A k \in Items : k # i => results'[k] = results[k]
    BY <1>2, Members DEF Report, Unlock, IInv, Types
  <2> QED
    BY <2>1, <2>2, SamePoll DEF Items
<1>3. CASE UNCHANGED <<poll, count, results>>
  BY <1>3, SamePoll DEF Items
<1>4. CASE Snapshot
  <2>1. poll'.done = done /\ poll'.success = success
        /\ UNCHANGED <<count, results>> /\ \A k \in Slots : poll'.seen[k] = None
    BY <1>4 DEF Snapshot, NoPoll
  <2>2. Shown(Whole)' = With(Whole) /\ Shown({"ok"})' = With({"ok"})
    BY <2>1, Members DEF Shown, With, Items
  <2>3. /\ done = Cardinality(With(Whole)) /\ success = Cardinality(With({"ok"}))
        /\ done \in Nat /\ success \in Nat
    BY InvType DEF IInv, Tally, TypeOK
  <2> QED
    BY <2>1, <2>2, <2>3 DEF Ahead
<1>5. ASSUME NEW i \in Items, Render(i) PROVE Ahead'
  <2>1. /\ UNCHANGED <<count, results>> /\ poll.seen[i] = None
        /\ poll'.done = poll.done /\ poll'.success = poll.success
        /\ poll'.seen = [poll.seen EXCEPT ![i] = IF results[i] = None THEN "empty"
                                                                    ELSE results[i]]
    BY <1>5, Cursor DEF Render, IInv, Types
  <2>2. \A k \in Items : poll'.seen[k] = IF k = i THEN IF results[i] = None THEN "empty"
                                                                          ELSE results[i]
                                          ELSE poll.seen[k]
    BY <2>1, Members DEF IInv, Types
  <2>3. Shown(Whole)' = Shown(Whole) /\ Shown({"ok"})' = Shown({"ok"})
    BY <2>1, <2>2 DEF Shown, Items, Whole
  <2> QED
    BY <2>1, <2>3 DEF PollInv, Ahead
<1>6. ASSUME NEW i \in Items, ClaimError(i) \/ Claimed(i) \/ Prepare(i) \/ PassedOn(i)
                               \/ Leave(i)
      PROVE  UNCHANGED <<poll, count, results>>
  BY <1>6 DEF ClaimError, Claimed, Prepare, PassedOn, Leave
<1>7. CASE Launch \/ Complete \/ Node \/ UNCHANGED vars
  BY <1>7, <1>3 DEF Launch, Complete, Node, vars
<1> QED
  BY <1>1, <1>2, <1>3, <1>4, <1>5, <1>6, <1>7 DEF Next, Goroutine

\* An answer is rendered from the first element to the last.
LEMMA NextPrefix == IInv /\ PollInv /\ [Next]_vars => Prefix'
<1> SUFFICES ASSUME IInv, PollInv, [Next]_vars PROVE Prefix'
  OBVIOUS
<1> USE DEF jobVars, counters
<1>1. ASSUME NEW n \in 0..(MaxCount + 1), NEW asked \in 0..(Limit + 1),
             BulkTransfer(n, asked)
      PROVE  Prefix'
  BY <1>1 DEF BulkTransfer, PollInv, Prefix
<1>2. CASE UNCHANGED <<poll, count>> /\ (status = "none" <=> status' = "none")
  BY <1>2 DEF PollInv, Prefix, Rendered, Items
<1>3. CASE Snapshot
  <2>1. count \in Nat /\ count # 0 /\ UNCHANGED <<count, status>> /\ status # "none"
    BY <1>3, PoolAssumption DEF Snapshot, PollInv, Prefix, IInv, Types
  <2>2. poll'.pc = "render" /\ \A k \in Slots : poll'.seen[k] = None
    BY <1>3 DEF Snapshot, NoPoll
  <2>3. Rendered(0)'
    BY <2>1, <2>2, Members DEF Rendered, Items
  <2>4. 0 \in 0..(count - 1)
    BY <2>1
  <2> QED
    BY <2>1, <2>2, <2>3, <2>4 DEF Prefix
<1>4. ASSUME NEW i \in Items, Render(i) PROVE Prefix'
  <2>0. \A k \in Items : poll.seen[k] # None <=> k <= i - 1
    BY <1>4, Cursor
  <2>1. UNCHANGED <<count, status>> /\ count \in Nat
    BY <1>4, PoolAssumption DEF Render, IInv, Types
  <2>2. \A k \in Items : poll'.seen[k] # None <=> k <= i
    <3>1. \A k \in Items : poll'.seen[k] =
            IF k = i THEN IF results[i] = None THEN "empty" ELSE results[i] ELSE poll.seen[k]
      BY <1>4, Members DEF Render, IInv, Types
    <3>2. poll'.seen[i] # None /\ \A k \in Items : k # i => poll'.seen[k] = poll.seen[k]
      BY <3>1, NoneAssumption
    <3> QED
      BY <2>0, <3>2, <2>1 DEF Items
  <2>3. poll'.pc = IF i = count THEN "answered" ELSE "render"
    BY <1>4 DEF Render, IInv, Types
  <2>4. CASE i = count
    BY <2>1, <2>2, <2>3, <2>4, <1>4 DEF Prefix, PollInv, Items, Render
  <2>5. CASE i # count
    <3>1. i \in 0..(count - 1)
      BY <2>1, <2>5 DEF Items
    <3>2. Rendered(i)'
      BY <2>1, <2>2 DEF Rendered, Items
    <3> QED
      BY <2>1, <2>3, <2>5, <3>1, <3>2, <1>4 DEF Prefix, PollInv, Render
  <2> QED
    BY <2>4, <2>5
<1>5. ASSUME NEW i \in Items, Goroutine(i) PROVE UNCHANGED <<poll, count, status>>
  BY <1>5 DEF Goroutine, ClaimError, Claimed, Prepare, PassedOn, Report, Unlock, Leave
<1>6. CASE Launch \/ Complete \/ Node \/ UNCHANGED vars
  BY <1>6, <1>2 DEF Launch, Complete, Node, vars
<1> QED
  BY <1>1, <1>2, <1>3, <1>4, <1>5, <1>6 DEF Next

\* A job that has completed stays as it is.
LEMMA NextEnded == IInv /\ PollInv /\ [Next]_vars => Ended'
<1> SUFFICES ASSUME IInv, PollInv, [Next]_vars PROVE Ended'
  OBVIOUS
<1> USE DEF jobVars, counters, PollInv, Ended
<1>1. ASSUME NEW n \in 0..(MaxCount + 1), NEW asked \in 0..(Limit + 1),
             BulkTransfer(n, asked)
      PROVE  Ended'
  BY <1>1 DEF BulkTransfer
<1>2. CASE UNCHANGED <<status, count, pc, results, counters, poll>>
  BY <1>2 DEF Items
<1>3. CASE Launch
  BY <1>3 DEF Launch, Items
<1>4. CASE Complete
  BY <1>4 DEF Complete, Items
<1>5. ASSUME NEW i \in Items, Goroutine(i) PROVE Ended'
  <2>1. pc[i] # "returned" /\ UNCHANGED <<status, count, poll>>
    BY <1>5 DEF Goroutine, ClaimError, Claimed, Prepare, PassedOn, Report, Unlock, Leave
  <2> QED
    BY <2>1
<1>6. CASE Snapshot
  <2>1. /\ UNCHANGED <<status, count, pc, results, counters>>
        /\ poll'.status = status /\ poll'.done = done /\ poll'.success = success
        /\ \A k \in Slots : poll'.seen[k] = None
    BY <1>6 DEF Snapshot, NoPoll
  <2> QED
    BY <2>1, Members DEF Items
<1>7. ASSUME NEW i \in Items, Render(i) PROVE Ended'
  <2>1. /\ UNCHANGED <<status, count, pc, results, counters>>
        /\ poll'.status = poll.status /\ poll'.done = poll.done
        /\ poll'.success = poll.success
        /\ poll'.seen = [poll.seen EXCEPT ![i] = IF results[i] = None THEN "empty"
                                                                    ELSE results[i]]
    BY <1>7 DEF Render, IInv, Types
  <2>2. \A k \in Items : k # i => poll'.seen[k] = poll.seen[k]
    BY <2>1
  <2>3. poll.status = "completed" => poll'.seen[i] = results[i]
    BY <2>1, WholeAtEnd, NoneAssumption, Members DEF IInv, Types, Whole
  <2> QED
    BY <2>1, <2>2, <2>3 DEF Items
<1>8. CASE Node \/ UNCHANGED vars
  BY <1>8, <1>2 DEF Node, vars
<1> HIDE DEF Ended, PollInv
<1> QED
  BY <1>1, <1>2, <1>3, <1>4, <1>5, <1>6, <1>7, <1>8 DEF Next
\* An answer is never behind its counters, and once it says completed all results
\* in it are whole and agree with them, although it renders a slice that others
\* are writing to.
THEOREM AnswersKeepUp == Spec => []AnswerNotBehind
<1>1. Init => PollInv
  <2> SUFFICES ASSUME Init PROVE PollInv
    OBVIOUS
  <2>1. Items = {} /\ poll = NoPoll /\ status = "none"
    BY DEF Init, Items
  <2>2. Shown(Whole) = {} /\ Shown({"ok"}) = {}
    BY <2>1 DEF Shown
  <2>3. Ahead
    BY <2>1, <2>2, FS_EmptySet DEF Ahead, NoPoll
  <2> QED
    BY <2>1, <2>3 DEF PollInv, Prefix, Ended, NoPoll
<1>2. IInv /\ IInv' /\ PollInv /\ [Next]_vars => PollInv'
  BY NextAhead, NextPrefix, NextEnded DEF PollInv
<1>3. IInv /\ PollInv => AnswerNotBehind
  <2> SUFFICES ASSUME IInv, PollInv, poll.pc = "answered"
               PROVE  AnswerNotBehind
    BY DEF AnswerNotBehind
  <2> DEFINE seen(r) == {i \in Items : poll.seen[i] \in r}
  <2>1. seen(Whole) = Shown(Whole) /\ seen({"ok"}) = Shown({"ok"})
    BY DEF Shown, PollInv, Prefix
  <2>2. poll.done <= Cardinality(seen(Whole)) /\ poll.success <= Cardinality(seen({"ok"}))
    BY <2>1 DEF PollInv, Ahead
  <2>3. ASSUME poll.status = "completed"
        PROVE  /\ poll.done = count /\ Cardinality(seen(Whole)) = count
               /\ poll.success = Cardinality(seen({"ok"}))
    <3>1. /\ status = "completed" /\ poll.done = done /\ poll.success = success
          /\ \A k \in Items : poll.seen[k] = results[k]
      BY <2>3 DEF PollInv, Ended, Prefix
    <3>2. seen(Whole) = Items /\ With(Whole) = Items /\ seen({"ok"}) = With({"ok"})
      BY <3>1, WholeAtEnd DEF With
    <3>3. Cardinality(Items) = count
      BY FS_Interval, PoolAssumption DEF IInv, Types, Items
    <3> QED
      BY <3>1, <3>2, <3>3 DEF IInv, Tally
  <2> QED
    BY <2>2, <2>3 DEF AnswerNotBehind
<1> QED
  BY Inductive, <1>1, <1>2, <1>3, PTL DEF Spec

-----------------------------------------------------------------------------
(* The safety half of JobCompletes: a running job is never stuck. *)

\* Each transaction is answered once, to the goroutine that waits for it, and
\* the semaphore of a running job has a place.
Waiting ==
  /\ \A i \in Slots :
       /\ pc[i] \in {"idle", "claim"} => answer[<<i, "claim">>] = "none"
       /\ pc[i] \in {"idle", "claim", "mode", "transfer"} =>
            answer[<<i, "transfer">>] = "none"
  /\ answer \in [Txs -> {"none", "ok", "error", "errorWithHash"}]
  /\ status # "none" => workers > 0

\* A goroutine that has a step to take: a call that may still be answered, or a
\* lock that is free or its own.
CanStep(i) ==
  \/ pc[i] \in {"claim", "transfer"} /\ answer[<<i, pc[i]>>] = "none"
  \/ pc[i] \in {"mode", "writing", "leave"}
  \/ pc[i] = "report" /\ ~ Locked

CanLaunch == launched < count /\ Cardinality(Busy) < workers

CanComplete == launched = count /\ \A i \in Items : pc[i] = "returned"

NeverStuck ==
  status = "running" => CanLaunch \/ CanComplete \/ \E i \in Items : CanStep(i)

LEMMA SameWaiting ==
  ASSUME Waiting, UNCHANGED answer,
         \A i \in Slots : \/ pc'[i] = pc[i]
                          \/ pc[i] \in {"idle", "claim"} /\ pc'[i] = "claim"
                          \/ pc[i] = "mode" /\ pc'[i] = "transfer"
                          \/ pc'[i] \in {"report", "writing", "leave", "returned"},
         status' # "none" => workers' > 0
  PROVE  Waiting'
BY DEF Waiting

LEMMA GoroutineWaiting ==
  ASSUME IInv, Waiting, NEW i \in Items, Goroutine(i)
  PROVE  Waiting'
<1> USE DEF IInv, Types, jobVars, sends
<1>1. i \in Slots
  BY Members
<1>2. workers' = workers /\ status' = status
  BY DEF Goroutine, ClaimError, Claimed, Prepare, PassedOn, Report, Unlock, Leave
<1>3. CASE Prepare(i) \/ Report(i) \/ Unlock(i) \/ Leave(i)
  <2>1. UNCHANGED answer
    BY <1>3 DEF Prepare, Report, Unlock, Leave
  <2>2. \A k \in Slots : \/ pc'[k] = pc[k]
                         \/ pc[k] = "mode" /\ pc'[k] = "transfer"
                         \/ pc'[k] \in {"report", "writing", "leave", "returned"}
    BY <1>1, <1>3 DEF Prepare, Report, Unlock, Leave, Goto, Return
  <2>3. QED
    BY <1>2, <2>1, <2>2, SameWaiting DEF Waiting
<1>4. CASE ClaimError(i) \/ Claimed(i)
  <2>1. PICK a \in {"ok", "error", "errorWithHash"} : Sends!Answer(<<i, "claim">>, a)
    BY <1>4 DEF ClaimError, Claimed
  <2>2. answer' = [answer EXCEPT ![<<i, "claim">>] = a] /\ <<i, "claim">> \in Txs
    BY <1>1, <2>1 DEF Sends!Answer, Txs
  <2>3. pc[i] = "claim" /\ (pc' = [pc EXCEPT ![i] = "report"] \/ pc' = [pc EXCEPT ![i] = "mode"])
    BY <1>4 DEF ClaimError, Claimed, Goto, Return
  <2>4. \A k \in Slots : /\ k # i => answer'[<<k, "claim">>] = answer[<<k, "claim">>]
                         /\ answer'[<<k, "transfer">>] = answer[<<k, "transfer">>]
    BY <2>2 DEF Txs, Waiting
  <2>5. answer' \in [Txs -> {"none", "ok", "error", "errorWithHash"}]
    BY <2>2 DEF Waiting
  <2>6. QED
    BY <1>1, <1>2, <2>3, <2>4, <2>5 DEF Waiting
<1>5. CASE PassedOn(i)
  <2>1. PICK a \in {"ok", "error", "errorWithHash"} : Sends!Answer(<<i, "transfer">>, a)
    BY <1>5 DEF PassedOn
  <2>2. answer' = [answer EXCEPT ![<<i, "transfer">>] = a] /\ <<i, "transfer">> \in Txs
    BY <1>1, <2>1 DEF Sends!Answer, Txs
  <2>3. pc' = [pc EXCEPT ![i] = "report"]
    BY <1>5 DEF PassedOn, Goto, Return
  <2>4. \A k \in Slots : /\ k # i => answer'[<<k, "transfer">>] = answer[<<k, "transfer">>]
                         /\ answer'[<<k, "claim">>] = answer[<<k, "claim">>]
    BY <2>2 DEF Txs, Waiting
  <2>5. answer' \in [Txs -> {"none", "ok", "error", "errorWithHash"}]
    BY <2>2 DEF Waiting
  <2>6. QED
    BY <1>1, <1>2, <2>3, <2>4, <2>5 DEF Waiting
<1>6. QED
  BY <1>3, <1>4, <1>5 DEF Goroutine

LEMMA NextWaiting == IInv /\ Waiting /\ [Next]_vars => Waiting'
<1> SUFFICES ASSUME IInv, Waiting, [Next]_vars PROVE Waiting'
  OBVIOUS
<1> USE DEF IInv, Types, jobVars, sends
<1>1. ASSUME NEW n \in 0..(MaxCount + 1), NEW asked \in 0..(Limit + 1), BulkTransfer(n, asked)
      PROVE  Waiting'
  <2>1. workers' > 0
    BY <1>1, PoolAssumption DEF BulkTransfer, Concurrency
  <2>2. QED
    BY <1>1, <2>1, SameWaiting DEF BulkTransfer
<1>2. CASE Launch
  <2>1. launched + 1 \in Slots
    BY <1>2, PoolAssumption DEF Launch, Slots
  <2>2. Stage(launched + 1)
    BY <2>1
  <2>3. pc[launched + 1] = "idle"
    BY <2>2, PoolAssumption DEF Stage
  <2>4. QED
    BY <1>2, <2>1, <2>3, SameWaiting DEF Launch, Goto, Waiting
<1>3. CASE Complete
  BY <1>3, SameWaiting DEF Complete, Waiting
<1>4. ASSUME NEW i \in Items, Goroutine(i) PROVE Waiting'
  BY <1>4, GoroutineWaiting
<1>5. CASE Snapshot \/ \E i \in Items : Render(i)
  BY <1>5, SameWaiting DEF Snapshot, Render, Waiting
<1>6. CASE Node
  BY <1>6, SameWaiting DEF Node, Waiting, Sends!Accept, Sends!Finish
<1>7. CASE UNCHANGED vars
  BY <1>7, SameWaiting DEF vars, Waiting
<1>8. QED
  BY <1>1, <1>2, <1>3, <1>4, <1>5, <1>6, <1>7 DEF Next

\* If a place is taken its holder can go on, or waits for a lock whose holder
\* can; if none is, there is a place for the next goroutine or none is left.
LEMMA Unstuck == IInv /\ Waiting => NeverStuck
<1> SUFFICES ASSUME IInv, Waiting, status = "running" PROVE
                 CanLaunch \/ CanComplete \/ \E i \in Items : CanStep(i)
  BY DEF NeverStuck
<1>1. /\ count \in Nat /\ launched \in 0..count /\ workers \in Nat /\ workers > 0
      /\ \A i \in Items : i \in Slots
  BY Members, PoolAssumption DEF IInv, Types, Waiting
<1>2. CASE \E i \in Busy : TRUE
  <2>1. PICK i \in Items : pc[i] \notin {"idle", "returned"}
    BY <1>2 DEF Busy
  <2>2. CASE Locked
    BY <2>2 DEF Locked, CanStep
  <2>3. CASE ~ Locked
    <3>1. i \in Slots /\ pc[i] \in {"claim", "mode", "transfer", "report", "writing", "leave"}
      BY <1>1, <2>1 DEF IInv, Types
    <3>2. /\ pc[i] = "claim" => answer[<<i, "claim">>] = "none"
          /\ pc[i] = "transfer" => answer[<<i, "transfer">>] = "none"
      BY <3>1 DEF Waiting
    <3>3. CanStep(i)
      BY <2>3, <3>1, <3>2 DEF CanStep
    <3>4. QED
      BY <3>3
  <2>4. QED
    BY <2>2, <2>3
<1>3. CASE Busy = {}
  <2>1. Cardinality(Busy) < workers
    BY <1>1, <1>3, FS_EmptySet
  <2>2. CASE launched < count
    BY <2>1, <2>2 DEF CanLaunch
  <2>3. CASE launched = count
    <3>1. ASSUME NEW i \in Items PROVE pc[i] = "returned"
      <4>1. i \in Slots /\ ~ (i > launched)
        BY <1>1, <2>3 DEF Items
      <4>2. pc[i] # "idle"
        BY <4>1 DEF IInv, Stage
      <4>3. QED
        BY <1>3, <4>2 DEF Busy
    <3>2. QED
      BY <2>3, <3>1 DEF CanComplete
  <2>4. QED
    BY <1>1, <2>2, <2>3
<1>4. QED
  BY <1>2, <1>3

\* However the goroutines, the semaphore, the lock and the node interleave, a
\* running job has a step to take: the loop can start a goroutine, the job can
\* end, or some goroutine can go on.  No goroutine waits for an answer that was
\* already given, and the lock and the places never wait for each other.
THEOREM JobNeverStuck == Spec => []NeverStuck
<1>1. Init => Waiting
  BY DEF Init, Waiting, Sends!Init, Txs
<1>2. IInv /\ Waiting /\ [Next]_vars => Waiting'
  BY NextWaiting
<1>3. IInv /\ Waiting => NeverStuck
  BY Unstuck
<1>4. QED
  BY <1>1, <1>2, <1>3, Inductive, PTL DEF Spec

-----------------------------------------------------------------------------
(* The composition with TxOutcome. *)

LEMMA NextSends == IInv /\ [Next]_vars => [Sends!Next]_(Sends!vars)
<1> SUFFICES ASSUME IInv, [Next]_vars PROVE [Sends!Next]_(Sends!vars)
  OBVIOUS
<1> USE DEF sends, Sends!vars
<1>1. ASSUME NEW n \in 0..(MaxCount + 1), NEW asked \in 0..(Limit + 1), BulkTransfer(n, asked)
      PROVE  UNCHANGED Sends!vars
  BY <1>1 DEF BulkTransfer
<1>2. CASE Launch \/ Complete \/ Snapshot \/ \E i \in Items : Render(i)
  BY <1>2 DEF Launch, Complete, Snapshot, Render
<1>3. ASSUME NEW i \in Items, Goroutine(i) PROVE [Sends!Next]_(Sends!vars)
  <2>1. <<i, "claim">> \in Txs /\ <<i, "transfer">> \in Txs
    BY Members DEF Txs
  <2>2. CASE Prepare(i) \/ Report(i) \/ Unlock(i) \/ Leave(i)
    BY <2>2 DEF Prepare, Report, Unlock, Leave
  <2>3. CASE ClaimError(i) \/ Claimed(i) \/ PassedOn(i)
    <3>1. \E t \in Txs, a \in {"ok", "error", "errorWithHash"} : Sends!Answer(t, a)
      BY <2>1, <2>3 DEF ClaimError, Claimed, PassedOn
    <3>2. QED
      BY <3>1 DEF Sends!Next
  <2>4. QED
    BY <1>3, <2>2, <2>3 DEF Goroutine
<1>4. CASE Node
  <2>1. \E t \in Txs : Sends!Accept(t) \/ Sends!Finish(t)
    BY <1>4 DEF Node
  <2>2. QED
    BY <2>1 DEF Sends!Next
<1>5. CASE UNCHANGED vars
  BY <1>5 DEF vars
<1>6. QED
  BY <1>1, <1>2, <1>3, <1>4, <1>5 DEF Next

\* The claims and transfers of a job, interleaved with everything else it does,
\* are a behaviour of TxOutcome: no step of the job moves a transaction
\* otherwise, asks for an answer twice or forgets one.  SubmissionProofs shows
\* that the retries and polls of a single call implement the same module.
THEOREM SendsAreOutcomes == Spec => Sends!Spec
<1>1. Init => Sends!Init
  BY DEF Init
<1>2. QED
  BY <1>1, Inductive, NextSends, PTL DEF Spec, Sends!Spec

=============================================================================
