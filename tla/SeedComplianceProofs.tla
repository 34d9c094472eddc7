------------------------ MODULE SeedComplianceProofs ------------------------
(***************************************************************************)
(* Proofs about SeedCompliance for any users, amounts and bounds.  None of *)
(* the four properties is inductive: each is about what an earlier job     *)
(* did, and a job knows of it only through its marks and its views.  IInv  *)
(* adds what they tell it: a stage that is behind the job is marked        *)
(* (Behind), a mark stands for what its stage left on the chain            *)
(* (MarksStand), without its mark a mint is still owed (MintOwed), and the *)
(* receiver's balance remembers that it was paid (PaidShows).              *)
(***************************************************************************)
EXTENDS SeedCompliance, TLAPS

\* Where a job is once it is past the stage that creates the token, sets the mode,
\* adds the requirement, or pays the receiver.
AfterAccept  == {"reject", "probe", "verify"}
AfterRequire == {"mint", "mintSend", "accept", "pay"} \union AfterAccept
AfterMode    == {"requirements"} \union AfterRequire
AfterCreate  == {"mode"} \union AfterMode

\* What a job has done is marked when it is past it.
Behind ==
  /\ pc \in AfterCreate => "create" \in marks
  /\ pc \in AfterMode => "mode" \in marks
  /\ pc \in AfterRequire => "requirements" \in marks
  /\ pc \in AfterAccept => "accept" \in marks

\* A mark that is kept anywhere stands for what its stage does, or for a call the
\* chain failed, or for a refusal that was passed over.
MarksStand ==
  /\ "create" \in marks \union saved => created \/ "create" \in quiet
  /\ "mode" \in marks \union saved => mode \/ "mode" \in quiet
  /\ "requirements" \in marks \union saved => required \/ "require" \in quiet \/ waived
  /\ "accept" \in marks \union saved => held.receiver > 0 \/ "pay" \in quiet

\* A job without the mint mark has been forgiven every mint so far.
MintOwed ==
  /\ pc # "idle" /\ "mint" \notin marks => minted <= forgotten
  /\ pc = "mintSend" => "mint" \notin marks

\* A payment shows in the balance, and a job that is about to pay saw none.
PaidShows ==
  /\ paid > 0 => held.receiver > 0
  /\ pc = "pay" => paid = 0

IInv ==
  /\ TypeOK
  /\ Behind /\ MarksStand /\ CompletedShows
  /\ MintOwed /\ MintedOnce
  /\ PaidShows /\ PaidOnce

-----------------------------------------------------------------------------
\* The chain carries out what it can: the balances stay natural numbers and the
\* receiver's never falls.
LEMMA ExecuteGrows ==
  ASSUME TypeOK, NEW op \in Ops, Possible(op), Execute(op)
  PROVE  /\ created' \in BOOLEAN /\ mode' \in BOOLEAN /\ required' \in BOOLEAN
         /\ held' \in [{"minter", "receiver"} -> Nat]
         /\ created => created'
         /\ mode => mode'
         /\ required => required'
         /\ op = "create" => created'
         /\ op = "mode" => mode'
         /\ op = "require" => required'
         /\ held'.receiver >= held.receiver
         /\ op = "pay" => held'.receiver > held.receiver
<1>1. Full \in Nat /\ Part \in Nat /\ Part > 0
  BY SetupAssumption
<1>2. held \in [{"minter", "receiver"} -> Nat]
  BY DEF TypeOK
<1>3. /\ created' \in BOOLEAN /\ mode' \in BOOLEAN /\ required' \in BOOLEAN
      /\ created => created'
      /\ mode => mode'
      /\ required => required'
      /\ op = "create" => created'
      /\ op = "mode" => mode'
      /\ op = "require" => required'
  BY DEF Execute, TypeOK
<1>4. CASE op = "mint"
  BY <1>1, <1>2, <1>3, <1>4 DEF Execute
<1>5. CASE op = "pay"
  BY <1>1, <1>2, <1>3, <1>5 DEF Execute, Possible
<1>6. CASE op \notin {"mint", "pay"}
  <2>1. held' = held
    BY <1>6 DEF Execute, Ops
  <2> QED
    BY <1>2, <1>3, <1>6, <2>1
<1> QED
  BY <1>4, <1>5, <1>6

\* A call that returns leaves its operation on the chain, or in quiet.
LEMMA DoneKeeps ==
  ASSUME TypeOK, NEW op \in Ops, Done(op)
  PROVE  /\ created' \in BOOLEAN /\ mode' \in BOOLEAN /\ required' \in BOOLEAN
         /\ held' \in [{"minter", "receiver"} -> Nat]
         /\ quiet' \subseteq Ops /\ quiet \subseteq quiet'
         /\ minted' \in Nat /\ paid' \in Nat
         /\ late' = late /\ lost' = lost
         /\ created => created'
         /\ mode => mode'
         /\ required => required'
         /\ op = "create" => created' \/ "create" \in quiet'
         /\ op = "mode" => mode' \/ "mode" \in quiet'
         /\ op = "require" => required' \/ "require" \in quiet'
         /\ op = "pay" => held'.receiver > held.receiver \/ "pay" \in quiet'
         /\ held'.receiver >= held.receiver
         /\ minted' = minted \/ (op = "mint" /\ minted' = minted + 1)
         /\ paid' = paid \/ (op = "pay" /\ paid' = paid + 1 /\ held'.receiver > held.receiver)
<1>1. CASE /\ Possible(op) /\ Execute(op) /\ UNCHANGED quiet
           /\ minted' = IF op = "mint" THEN minted + 1 ELSE minted
           /\ paid' = IF op = "pay" THEN paid + 1 ELSE paid
  <2>1. late' = late /\ lost' = lost
    BY DEF Done
  <2>2. minted \in Nat /\ paid \in Nat /\ quiet \subseteq Ops
    BY DEF TypeOK
  <2> QED
    BY <1>1, <2>1, <2>2, ExecuteGrows
<1>2. CASE quiet' = quiet \union {op} /\ UNCHANGED <<chain, minted, paid>>
  <2>1. held \in [{"minter", "receiver"} -> Nat] /\ held' = held
    BY <1>2 DEF TypeOK, chain
  <2>2. quiet' \subseteq Ops /\ quiet \subseteq quiet' /\ op \in quiet'
    BY <1>2 DEF TypeOK
  <2>3. /\ late' = late /\ lost' = lost /\ minted' = minted /\ paid' = paid
        /\ created' = created /\ mode' = mode /\ required' = required /\ held' = held
    BY <1>2 DEF Done, chain
  <2>4. /\ created \in BOOLEAN /\ mode \in BOOLEAN /\ required \in BOOLEAN
        /\ minted \in Nat /\ paid \in Nat
    BY DEF TypeOK
  <2> QED
    BY <2>1, <2>2, <2>3, <2>4
<1> QED
  BY <1>1, <1>2 DEF Done

\* A call that ends in an error leaves the chain alone; it may come late.
LEMMA FailedKeeps ==
  ASSUME TypeOK, NEW op \in Ops, Failed(op)
  PROVE  /\ late' \subseteq Ops \X (1..MaxLost) /\ lost' \in 0..MaxLost
         /\ UNCHANGED <<chain, history>>
<1>1. CASE UNCHANGED <<late, lost>>
  BY <1>1 DEF Failed, TypeOK
<1>2. CASE lost < MaxLost /\ lost' = lost + 1 /\ late' = late \union {<<op, lost'>>}
  <2>0. MaxLost \in Nat /\ lost \in 0..MaxLost
    BY SetupAssumption DEF TypeOK
  <2>1. lost' \in 1..MaxLost
    BY <1>2, <2>0
  <2>2. late \subseteq Ops \X (1..MaxLost)
    BY DEF TypeOK
  <2>3. late' \subseteq Ops \X (1..MaxLost) /\ lost' \in 0..MaxLost
    BY <1>2, <2>0, <2>1, <2>2
  <2> QED
    BY <2>3 DEF Failed
<1> QED
  BY <1>1, <1>2 DEF Failed

-----------------------------------------------------------------------------
(* The type invariant.  What a step does to the job and what it does to the *)
(* chain are typed apart.                                                   *)

JobTypes ==
  /\ pc \in {"idle", "mintSend", "pay", "probe"} \union Stages
  /\ marks \subseteq Stages /\ saved \subseteq Stages
  /\ probed \in Users \union {Nobody}
  /\ pc = "probe" => probed \in Users
  /\ outcome \in {"none", "completed", "failed"}

ChainTypes ==
  /\ created \in BOOLEAN /\ mode \in BOOLEAN /\ required \in BOOLEAN
  /\ held \in [{"minter", "receiver"} -> Nat]
  /\ late \subseteq Ops \X (1..MaxLost) /\ lost \in 0..MaxLost
  /\ quiet \subseteq Ops /\ minted \in Nat /\ paid \in Nat

RestTypes ==
  /\ jobs \in 0..MaxJobs
  /\ certified \subseteq Users /\ changes \in 0..MaxChanges
  /\ forgotten \in Nat
  /\ waived \in BOOLEAN

LEMMA TypeParts == TypeOK <=> JobTypes /\ ChainTypes /\ RestTypes
BY DEF TypeOK, JobTypes, ChainTypes, RestTypes

\* A call that returns, or fails, leaves the chain well typed.
LEMMA CallTypes ==
  ASSUME TypeOK, NEW op \in Ops, Done(op) \/ Failed(op)
  PROVE  ChainTypes'
<1>1. CASE Done(op)
  <2>1. late \subseteq Ops \X (1..MaxLost) /\ lost \in 0..MaxLost
    BY DEF TypeOK
  <2> QED
    BY <1>1, <2>1, DoneKeeps DEF ChainTypes
<1>2. CASE Failed(op)
  <2>1. /\ late' \subseteq Ops \X (1..MaxLost) /\ lost' \in 0..MaxLost
        /\ UNCHANGED <<chain, history>>
    BY <1>2, FailedKeeps
  <2>2. ChainTypes
    BY TypeParts
  <2> QED
    BY <2>1, <2>2 DEF ChainTypes, chain, history
<1> QED
  BY <1>1, <1>2

\* Every step keeps the type invariant.
LEMMA NextType ==
  ASSUME TypeOK, [Next]_vars
  PROVE  TypeOK'
<1>0. JobTypes /\ ChainTypes /\ RestTypes
  BY TypeParts
<1>1. MaxJobs \in Nat /\ MaxChanges \in Nat /\ Dust \in Nat /\ Dust > 0
  BY SetupAssumption
<1>2. CASE Start
  <2>1. JobTypes'
    BY <1>0, <1>2 DEF Start, JobTypes, At, Goto, Stages
  <2>2. ChainTypes'
    BY <1>0, <1>2 DEF Start, ChainTypes, chain, history
  <2>3. jobs' \in 0..MaxJobs
    <3>1. jobs < MaxJobs /\ jobs' = jobs + 1
      BY <1>2 DEF Start
    <3>2. jobs \in 0..MaxJobs
      BY <1>0 DEF RestTypes
    <3> QED
      BY <1>1, <3>1, <3>2
  <2>4. forgotten' \in Nat
    <3>1. forgotten' = forgotten + 1 \/ forgotten' = forgotten
      BY <1>2 DEF Start
    <3>2. forgotten \in Nat
      BY <1>0 DEF RestTypes
    <3> QED
      BY <3>1, <3>2
  <2>5. RestTypes'
    BY <1>0, <1>2, <2>3, <2>4 DEF Start, RestTypes, certs
  <2> QED
    BY <2>1, <2>2, <2>5 DEF TypeOK, JobTypes, ChainTypes, RestTypes
<1>3. CASE LateExecute
  <2>1. PICK call \in late : /\ late' = late \ {call}
                             /\ Possible(call[1]) /\ Execute(call[1])
    BY <1>3 DEF LateExecute
  <2>2. late \subseteq Ops \X (1..MaxLost)
    BY <1>0 DEF ChainTypes
  <2>3. call[1] \in Ops
    BY <2>1, <2>2
  <2>4. /\ created' \in BOOLEAN /\ mode' \in BOOLEAN /\ required' \in BOOLEAN
        /\ held' \in [{"minter", "receiver"} -> Nat]
    BY <2>1, <2>3, ExecuteGrows
  <2>5. ChainTypes'
    BY <1>0, <1>3, <2>1, <2>2, <2>4 DEF LateExecute, ChainTypes, history
  <2>6. JobTypes' /\ RestTypes'
    BY <1>0, <1>3 DEF LateExecute, JobTypes, RestTypes, job, certs
  <2> QED
    BY <2>5, <2>6 DEF TypeOK, JobTypes, ChainTypes, RestTypes
<1>4. CASE Certify
  <2>1. JobTypes' /\ ChainTypes'
    BY <1>0, <1>4 DEF Certify, JobTypes, ChainTypes, job, chain, history
  <2>2. certified' \subseteq Users
    BY <1>0, <1>4 DEF Certify, RestTypes
  <2>3. changes' \in 0..MaxChanges
    <3>1. changes < MaxChanges /\ changes' = changes + 1
      BY <1>4 DEF Certify
    <3>2. changes \in 0..MaxChanges
      BY <1>0 DEF RestTypes
    <3> QED
      BY <1>1, <3>1, <3>2
  <2>4. RestTypes'
    BY <1>0, <1>4, <2>2, <2>3 DEF Certify, RestTypes
  <2> QED
    BY <2>1, <2>4 DEF TypeOK, JobTypes, ChainTypes, RestTypes
<1>5. CASE Create \/ SetMode \/ Require \/ Mint \/ Pay
  <2>1. ChainTypes'
    <3>1. \A op \in Ops : Done(op) => ChainTypes'
      BY CallTypes
    <3>2. UNCHANGED <<chain, late, lost, history>> => ChainTypes'
      BY <1>0 DEF ChainTypes, chain, history
    <3>3. Ops = {"create", "mode", "require", "mint", "pay"}
      BY DEF Ops
    <3>4. \/ Done("create") \/ Done("mode") \/ Done("require") \/ Done("mint")
          \/ Done("pay") \/ UNCHANGED <<chain, late, lost, history>>
      BY <1>5, Zenon DEF Create, SetMode, Require, Mint, Pay
    <3> QED
      BY <3>1, <3>2, <3>3, <3>4
  <2>2. JobTypes'
    <3>1. \E stage, next \in Stages : Mark(stage) /\ Goto(next)
      BY <1>5 DEF Create, SetMode, Require, Mint, Pay, Stages
    <3>2. probed' = probed
      BY <1>5 DEF Create, SetMode, Require, Mint, Pay
    <3> QED
      BY <1>0, <3>1, <3>2 DEF Mark, Goto, JobTypes, Stages
  <2>3. RestTypes'
    BY <1>0, <1>5 DEF Create, SetMode, Require, Mint, Pay, RestTypes, certs
  <2> QED
    BY <2>1, <2>2, <2>3 DEF TypeOK, JobTypes, ChainTypes, RestTypes
<1>6. CASE CallError
  <2>1. \E op \in Ops : Failed(op)
    BY <1>6 DEF CallError, CallOf, Ops
  <2>2. ChainTypes'
    BY <2>1, CallTypes
  <2>3. JobTypes'
    BY <1>0, <1>6 DEF CallError, Fail, End, JobTypes
  <2>4. RestTypes'
    BY <1>0, <1>6 DEF CallError, RestTypes, certs
  <2> QED
    BY <2>2, <2>3, <2>4 DEF TypeOK, JobTypes, ChainTypes, RestTypes
<1>7. CASE ProbeThrough
  <2>1. held \in [{"minter", "receiver"} -> Nat]
    BY <1>0 DEF ChainTypes
  <2>2. held' \in [{"minter", "receiver"} -> Nat]
    BY <1>1, <1>7, <2>1 DEF ProbeThrough
  <2>3. ChainTypes'
    BY <1>0, <1>7, <2>2 DEF ProbeThrough, ChainTypes, history
  <2>4. JobTypes'
    BY <1>0, <1>7 DEF ProbeThrough, Fail, End, JobTypes
  <2>5. RestTypes'
    BY <1>0, <1>7 DEF ProbeThrough, RestTypes, certs
  <2> QED
    BY <2>3, <2>4, <2>5 DEF TypeOK, JobTypes, ChainTypes, RestTypes
<1>8. CASE RejectOther \/ ProbeBlocked
  <2>1. ChainTypes'
    BY <1>0, <1>8 DEF RejectOther, ProbeBlocked, ChainTypes, chain, history
  <2>2. JobTypes'
    <3>1. CASE RejectOther
      <4>1. certified \subseteq Users
        BY <1>0 DEF RestTypes
      <4>2. PICK seen \in SUBSET Users :
              IF seen \subseteq certified
              THEN Mark("reject") /\ Goto("verify") /\ UNCHANGED probed
              ELSE /\ probed' \in seen \ certified /\ Goto("probe")
                   /\ UNCHANGED <<marks, saved>>
        BY <3>1 DEF RejectOther
      <4>3. CASE seen \subseteq certified
        BY <1>0, <4>2, <4>3 DEF JobTypes, Mark, Goto, Stages
      <4>4. CASE ~ (seen \subseteq certified)
        <5>1. probed' \in Users /\ pc' = "probe" /\ UNCHANGED <<marks, saved, outcome>>
          BY <4>2, <4>4 DEF Goto
        <5> QED
          BY <1>0, <5>1 DEF JobTypes
      <4> QED
        BY <4>3, <4>4
    <3>2. CASE ProbeBlocked
      BY <1>0, <3>2 DEF ProbeBlocked, JobTypes, Mark, Goto, Stages
    <3> QED
      BY <1>8, <3>1, <3>2
  <2>3. RestTypes'
    BY <1>0, <1>8 DEF RejectOther, ProbeBlocked, RestTypes, certs
  <2> QED
    BY <2>1, <2>2, <2>3 DEF TypeOK, JobTypes, ChainTypes, RestTypes
<1>9. CASE \/ Credential \/ MintRead \/ AcceptRead \/ ViewError \/ RejectVictim
           \/ ProbeError \/ Verify \/ Crash
  <2>1. ChainTypes'
    BY <1>0, <1>9 DEF Credential, MintRead, AcceptRead, ViewError, RejectVictim,
       ProbeError, Verify, Crash, ChainTypes, chain, history
  <2>2. RestTypes'
    BY <1>0, <1>9 DEF Credential, MintRead, AcceptRead, ViewError, RejectVictim,
       ProbeError, Verify, Crash, RestTypes, certs
  <2>3. JobTypes'
    BY <1>0, <1>9 DEF Credential, MintRead, AcceptRead, ViewError, RejectVictim,
       ProbeError, Verify, Crash, JobTypes, Mark, Goto, Fail, End, Stages
  <2> QED
    BY <2>1, <2>2, <2>3 DEF TypeOK, JobTypes, ChainTypes, RestTypes
<1>10. CASE \E stage \in Stages, next \in Stages : Pass(stage, next)
  BY <1>0, <1>10 DEF Pass, Goto, TypeOK, JobTypes, ChainTypes, RestTypes, chain,
     certs, history, Stages
<1>11. CASE UNCHANGED vars
  BY <1>11 DEF TypeOK, vars, job, chain, certs, history
<1> QED
  BY <1>2, <1>3, <1>4, <1>5, <1>6, <1>7, <1>8, <1>9, <1>10, <1>11 DEF Next, Job, Stages

-----------------------------------------------------------------------------
(* The strengthening, conjunct by conjunct. *)

\* A job marks a stage as it leaves it, and loses marks only when it starts.
LEMMA NextBehind ==
  ASSUME TypeOK, Behind, [Next]_vars
  PROVE  Behind'
<1> USE DEF Behind, AfterCreate, AfterMode, AfterRequire, AfterAccept
<1>1. CASE Start \/ CallError \/ ViewError \/ ProbeThrough \/ ProbeError \/ Crash \/ Verify
  <2>1. pc' \in {"credential", "idle"}
    BY <1>1 DEF Start, CallError, ViewError, ProbeThrough, ProbeError, Crash,
       Verify, Fail, End, Goto
  <2> QED
    BY <2>1
<1>2. CASE Certify \/ LateExecute \/ UNCHANGED vars
  BY <1>2 DEF Certify, LateExecute, vars, job
<1>3. CASE \/ Credential \/ Create \/ SetMode \/ Require \/ MintRead \/ Mint
           \/ AcceptRead \/ Pay
  BY <1>3 DEF Credential, Create, SetMode, Require, MintRead, Mint, AcceptRead, Pay,
     At, Mark, Goto
<1>4. CASE RejectVictim \/ RejectOther \/ ProbeBlocked
  BY <1>4 DEF RejectVictim, RejectOther, ProbeBlocked, At, Mark, Goto
<1>5. CASE \/ Pass("credential", "create") \/ Pass("create", "mode")
           \/ Pass("mode", "requirements") \/ Pass("requirements", "mint")
           \/ Pass("mint", "accept") \/ Pass("accept", "reject")
           \/ Pass("reject", "verify")
  BY <1>5 DEF Pass, At, Goto
<1> QED
  BY <1>1, <1>2, <1>3, <1>4, <1>5 DEF Next, Job

\* Nothing is taken back: what is on the chain stays, the receiver's balance never
\* falls, and what went wrong is remembered.
Grows ==
  /\ created => created'
  /\ mode => mode'
  /\ required => required'
  /\ held'.receiver >= held.receiver
  /\ quiet \subseteq quiet'
  /\ waived => waived'

LEMMA NextGrows ==
  ASSUME TypeOK, [Next]_vars
  PROVE  Grows
<1>1. held.receiver \in Nat /\ held.minter \in Nat
  BY DEF TypeOK
<1>2. UNCHANGED <<chain, history>> /\ (waived => waived') => Grows
  BY <1>1 DEF chain, history, Grows
<1>3. \A op \in Ops : Done(op) /\ (waived => waived') => Grows
  BY DoneKeeps DEF Grows
<1>4. Ops = {"create", "mode", "require", "mint", "pay"}
  BY DEF Ops
<1>5. CASE \/ Start \/ Credential \/ MintRead \/ AcceptRead \/ ViewError
           \/ RejectVictim \/ RejectOther \/ ProbeBlocked \/ ProbeError \/ Verify
           \/ Crash \/ Certify
  BY <1>2, <1>5 DEF Start, Credential, MintRead, AcceptRead, ViewError, RejectVictim,
     RejectOther, ProbeBlocked, ProbeError, Verify, Crash, Certify
<1>6. CASE LateExecute
  <2>1. PICK call \in late : Possible(call[1]) /\ Execute(call[1])
    BY <1>6 DEF LateExecute
  <2>2. late \subseteq Ops \X (1..MaxLost)
    BY DEF TypeOK
  <2>3. call[1] \in Ops
    BY <2>1, <2>2
  <2> QED
    BY <1>6, <2>1, <2>3, ExecuteGrows DEF LateExecute, history, Grows
<1>7. CASE Create \/ SetMode \/ Require \/ Mint \/ Pay
  <2>1. waived => waived'
    BY <1>7 DEF Create, SetMode, Require, Mint, Pay
  <2>2. \/ Done("create") \/ Done("mode") \/ Done("require") \/ Done("mint")
        \/ Done("pay") \/ UNCHANGED <<chain, late, lost, history>>
    BY <1>7, Zenon DEF Create, SetMode, Require, Mint, Pay
  <2> QED
    BY <1>2, <1>3, <1>4, <2>1, <2>2
<1>8. CASE CallError
  <2>1. UNCHANGED <<chain, history>>
    BY <1>4, <1>8, FailedKeeps DEF CallError, CallOf
  <2> QED
    BY <1>2, <1>8, <2>1 DEF CallError
<1>9. CASE ProbeThrough
  <2>1. Dust \in Nat
    BY SetupAssumption
  <2>2. held'.receiver >= held.receiver
    BY <1>1, <1>9, <2>1 DEF ProbeThrough
  <2> QED
    BY <1>9, <2>2 DEF ProbeThrough, history, Grows
<1>10. CASE \E stage \in Stages, next \in Stages : Pass(stage, next)
  BY <1>2, <1>10 DEF Pass
<1>11. CASE UNCHANGED vars
  BY <1>2, <1>11 DEF vars
<1> QED
  BY <1>5, <1>6, <1>7, <1>8, <1>9, <1>10, <1>11 DEF Next, Job, Stages

\* What a stage does is on the chain, or failed in silence, before it is marked.
LEMMA NextMarksStand ==
  ASSUME TypeOK, MarksStand, [Next]_vars
  PROVE  MarksStand'
<1> DEFINE Kept(new) == marks' \union saved' \subseteq marks \union saved \union new
<1>1. Grows
  BY NextGrows
<1>2. held.receiver \in Nat /\ held'.receiver \in Nat
  <2>1. TypeOK'
    BY NextType
  <2> QED
    BY <2>1 DEF TypeOK
<1>3. \A new : Kept(new) /\ new \intersect {"create", "mode", "requirements", "accept"} = {}
               => MarksStand'
  BY <1>1, <1>2 DEF MarksStand, Grows
<1>4. marks' \union saved' \subseteq marks \union saved => MarksStand'
  BY <1>1, <1>2 DEF MarksStand, Grows
<1>5. \A stage : Mark(stage) => Kept({stage})
  BY DEF Mark
<1>6. Ops = {"create", "mode", "require", "mint", "pay"}
  BY DEF Ops
<1>7. CASE Create
  <2>1. created' \/ "create" \in quiet'
    <3>1. CASE Done("create")
      BY <1>6, <3>1, DoneKeeps
    <3>2. CASE created /\ UNCHANGED <<chain, late, lost, history>>
      BY <3>2 DEF chain
    <3> QED
      BY <1>7, <3>1, <3>2 DEF Create
  <2>2. Kept({"create"})
    BY <1>5, <1>7 DEF Create
  <2> QED
    BY <1>1, <1>2, <2>1, <2>2 DEF MarksStand, Grows
<1>8. CASE SetMode
  <2>1. mode' \/ "mode" \in quiet'
    BY <1>6, <1>8, DoneKeeps DEF SetMode
  <2>2. Kept({"mode"})
    BY <1>5, <1>8 DEF SetMode
  <2> QED
    BY <1>1, <1>2, <2>1, <2>2 DEF MarksStand, Grows
<1>9. CASE Require
  <2>1. required' \/ "require" \in quiet' \/ waived'
    <3>1. CASE Done("require")
      BY <1>6, <3>1, DoneKeeps
    <3>2. CASE /\ waived' = (waived \/ ~ required)
               /\ UNCHANGED <<chain, late, lost, history>>
      BY <3>2 DEF chain
    <3> QED
      BY <1>9, <3>1, <3>2 DEF Require
  <2>2. Kept({"requirements"})
    BY <1>5, <1>9 DEF Require
  <2> QED
    BY <1>1, <1>2, <2>1, <2>2 DEF MarksStand, Grows
<1>10. CASE Pay
  <2>1. held'.receiver > held.receiver \/ "pay" \in quiet'
    BY <1>6, <1>10, DoneKeeps DEF Pay
  <2>2. Kept({"accept"})
    BY <1>5, <1>10 DEF Pay
  <2>3. held'.receiver > 0 \/ "pay" \in quiet'
    BY <1>2, <2>1
  <2> QED
    BY <1>1, <1>2, <2>2, <2>3 DEF MarksStand, Grows
<1>11. CASE AcceptRead
  <2>1. CASE held.receiver = 0
    <3>1. marks' \union saved' \subseteq marks \union saved
      BY <1>11, <2>1 DEF AcceptRead
    <3> QED
      BY <1>4, <3>1
  <2>2. CASE held.receiver # 0
    <3>1. Kept({"accept"})
      BY <1>5, <1>11, <2>2 DEF AcceptRead
    <3>2. held'.receiver > 0
      BY <1>2, <1>11, <2>2 DEF AcceptRead, chain
    <3> QED
      BY <1>1, <1>2, <3>1, <3>2 DEF MarksStand, Grows
  <2> QED
    BY <2>1, <2>2
<1>12. CASE Credential \/ MintRead \/ Mint \/ RejectOther \/ ProbeBlocked \/ Verify
  <2>1. Kept({"credential", "mint", "reject", "verify"})
    BY <1>12 DEF Credential, MintRead, Mint, RejectOther, ProbeBlocked, Verify, Mark
  <2> QED
    BY <1>3, <2>1
<1>13. CASE \/ Start \/ CallError \/ ViewError \/ RejectVictim \/ ProbeThrough
            \/ ProbeError \/ Crash \/ LateExecute \/ Certify \/ UNCHANGED vars
            \/ \E stage \in Stages, next \in Stages : Pass(stage, next)
  <2>1. marks' \union saved' \subseteq marks \union saved
    BY <1>13 DEF Start, CallError, ViewError, RejectVictim, ProbeThrough, ProbeError,
       Crash, LateExecute, Certify, Pass, Fail, vars, job
  <2> QED
    BY <1>4, <2>1
<1> QED
  BY <1>7, <1>8, <1>9, <1>10, <1>11, <1>12, <1>13 DEF Next, Job, Stages

\* A job completes from its last stage, where every mark it relies on is there.
LEMMA NextCompleted ==
  ASSUME TypeOK, Behind, MarksStand, CompletedShows, [Next]_vars
  PROVE  CompletedShows'
<1>1. Grows
  BY NextGrows
<1>2. held.receiver \in Nat /\ held'.receiver \in Nat
  <2>1. TypeOK'
    BY NextType
  <2> QED
    BY <2>1 DEF TypeOK
<1>3. CASE Verify
  <2>1. "create" \in marks /\ "mode" \in marks /\ "accept" \in marks
    BY <1>3 DEF Verify, At, Behind, AfterCreate, AfterMode, AfterRequire, AfterAccept
  <2>2. /\ created \/ "create" \in quiet
        /\ mode \/ "mode" \in quiet
        /\ held.receiver > 0 \/ "pay" \in quiet
    BY <2>1 DEF MarksStand
  <2> QED
    BY <1>1, <1>2, <2>2 DEF CompletedShows, Grows
<1>4. CASE ~ Verify
  <2>1. outcome' = outcome \/ outcome' = "failed"
    BY <1>4 DEF Next, Job, Start, Pass, Credential, Create, SetMode, Require, MintRead,
       Mint, AcceptRead, Pay, CallError, ViewError, RejectVictim, RejectOther,
       ProbeBlocked, ProbeThrough, ProbeError, Crash, LateExecute, Certify, Goto, Fail,
       End, vars, job
  <2> QED
    BY <1>1, <1>2, <2>1 DEF CompletedShows, Grows
<1> QED
  BY <1>3, <1>4

\* A mint is answered only in a job without the mark, which was forgiven the
\* mints before it; the job is marked with it.
LEMMA NextMint ==
  ASSUME TypeOK, MintOwed, MintedOnce, [Next]_vars
  PROVE  MintOwed' /\ MintedOnce'
<1>1. minted \in Nat /\ forgotten \in Nat
  BY DEF TypeOK
<1>2. minted' = minted /\ forgotten' = forgotten => MintedOnce'
  BY DEF MintedOnce
<1>3. \A op \in Ops \ {"mint"} : Done(op) => minted' = minted
  BY DoneKeeps
<1>4. Ops = {"create", "mode", "require", "mint", "pay"}
  BY DEF Ops
<1>5. CASE Start
  <2>1. minted' = minted /\ pc' = "credential"
    BY <1>5 DEF Start, Goto, history
  <2>2. forgotten' = IF minted > 0 /\ "mint" \notin marks' THEN forgotten + 1 ELSE forgotten
    BY <1>5 DEF Start
  <2>3. "mint" \notin marks' => minted <= forgotten'
    BY <1>1, <2>2 DEF MintedOnce
  <2>4. minted <= 1 + forgotten'
    BY <1>1, <2>2 DEF MintedOnce
  <2> QED
    BY <2>1, <2>3, <2>4 DEF MintOwed, MintedOnce
<1>6. CASE Mint
  <2>1. "mint" \notin marks /\ minted <= forgotten
    BY <1>6 DEF Mint, At, MintOwed
  <2>2. minted' = minted \/ minted' = minted + 1
    BY <1>4, <1>6, DoneKeeps DEF Mint
  <2>3. forgotten' = forgotten /\ "mint" \in marks' /\ pc' = "accept"
    BY <1>6 DEF Mint, Mark, Goto
  <2> QED
    BY <1>1, <2>1, <2>2, <2>3 DEF MintOwed, MintedOnce
<1>7. CASE Create \/ SetMode \/ Require \/ Pay
  <2>1. minted' = minted
    <3>1. \/ Done("create") \/ Done("mode") \/ Done("require") \/ Done("pay")
          \/ UNCHANGED <<chain, late, lost, history>>
      BY <1>7, Zenon DEF Create, SetMode, Require, Pay
    <3>2. UNCHANGED <<chain, late, lost, history>> => minted' = minted
      BY DEF history
    <3> QED
      BY <1>3, <1>4, <3>1, <3>2
  <2>2. forgotten' = forgotten /\ pc # "idle" /\ marks \subseteq marks' /\ pc' # "mintSend"
    BY <1>7 DEF Create, SetMode, Require, Pay, At, Mark, Goto
  <2> QED
    BY <1>2, <2>1, <2>2 DEF MintOwed
<1>8. CASE MintRead
  BY <1>2, <1>8 DEF MintRead, MintOwed, At, Mark, Goto, history
<1>9. CASE CallError
  <2>1. minted' = minted
    BY <1>4, <1>9, FailedKeeps DEF CallError, CallOf, history
  <2>2. forgotten' = forgotten /\ pc' = "idle"
    BY <1>9 DEF CallError, Fail, End
  <2> QED
    BY <1>2, <2>1, <2>2 DEF MintOwed
<1>10. CASE ViewError \/ ProbeError \/ ProbeThrough \/ Crash \/ Verify
  <2>1. minted' = minted /\ forgotten' = forgotten /\ pc' = "idle"
    BY <1>10 DEF ViewError, ProbeError, ProbeThrough, Crash, Verify, Fail, End, history
  <2> QED
    BY <1>2, <2>1 DEF MintOwed
<1>11. CASE Credential \/ AcceptRead \/ RejectVictim \/ RejectOther \/ ProbeBlocked
  <2>1. minted' = minted /\ forgotten' = forgotten
    BY <1>11 DEF Credential, AcceptRead, RejectVictim, RejectOther, ProbeBlocked, history
  <2>2. pc # "idle" /\ marks \subseteq marks' /\ pc' # "mintSend"
    BY <1>11 DEF Credential, AcceptRead, RejectVictim, RejectOther, ProbeBlocked, At, Mark,
       Goto
  <2> QED
    BY <1>2, <2>1, <2>2 DEF MintOwed
<1>12. CASE \E stage, next \in Stages : Pass(stage, next)
  <2>1. minted' = minted /\ forgotten' = forgotten
    BY <1>12 DEF Pass, history
  <2>2. pc # "idle" /\ marks' = marks /\ pc' # "mintSend"
    BY <1>12 DEF Pass, At, Goto, Stages
  <2> QED
    BY <1>2, <2>1, <2>2 DEF MintOwed
<1>13. CASE LateExecute \/ Certify \/ UNCHANGED vars
  BY <1>2, <1>13 DEF LateExecute, Certify, vars, job, history, MintOwed
<1> QED
  BY <1>5, <1>6, <1>7, <1>8, <1>9, <1>10, <1>11, <1>12, <1>13 DEF Next, Job, Stages

\* The receiver's balance never falls, so a payment that was made is seen.
LEMMA NextPaid ==
  ASSUME TypeOK, PaidShows, PaidOnce, [Next]_vars
  PROVE  PaidShows' /\ PaidOnce'
<1>1. paid \in Nat /\ held \in [{"minter", "receiver"} -> Nat] /\ held.receiver \in Nat
  BY DEF TypeOK
<1>2. held' \in [{"minter", "receiver"} -> Nat] /\ held'.receiver \in Nat
  <2>1. TypeOK'
    BY NextType
  <2> QED
    BY <2>1 DEF TypeOK
<1>3. paid' = paid /\ held'.receiver >= held.receiver /\ pc' # "pay" => PaidShows' /\ PaidOnce'
  BY <1>1, <1>2 DEF PaidShows, PaidOnce
<1>4. \A op \in Ops : Done(op) => held'.receiver >= held.receiver
  BY DoneKeeps
<1>5. \A op \in Ops \ {"pay"} : Done(op) => paid' = paid
  BY DoneKeeps
<1>6. Ops = {"create", "mode", "require", "mint", "pay"}
  BY DEF Ops
<1>7. UNCHANGED <<chain, history>> => paid' = paid /\ held'.receiver >= held.receiver
  BY <1>1 DEF chain, history
<1>8. CASE Pay
  <2>1. paid = 0 /\ pc' = "reject"
    BY <1>8 DEF Pay, At, Goto, PaidShows
  <2>2. paid' = paid \/ (paid' = paid + 1 /\ held'.receiver > held.receiver)
    BY <1>6, <1>8, DoneKeeps DEF Pay
  <2> QED
    BY <1>1, <1>2, <2>1, <2>2 DEF PaidShows, PaidOnce
<1>9. CASE AcceptRead
  <2>1. paid' = paid /\ held' = held
    BY <1>9 DEF AcceptRead, chain, history
  <2>2. pc' = "pay" => held.receiver = 0
    BY <1>9 DEF AcceptRead, Goto
  <2> QED
    BY <1>1, <2>1, <2>2 DEF PaidShows, PaidOnce
<1>10. CASE Create \/ SetMode \/ Require \/ Mint
  <2>1. \/ Done("create") \/ Done("mode") \/ Done("require") \/ Done("mint")
        \/ UNCHANGED <<chain, late, lost, history>>
    BY <1>10, Zenon DEF Create, SetMode, Require, Mint
  <2>2. paid' = paid /\ held'.receiver >= held.receiver
    BY <1>4, <1>5, <1>6, <1>7, <2>1
  <2>3. pc' # "pay"
    BY <1>10 DEF Create, SetMode, Require, Mint, Goto
  <2> QED
    BY <1>3, <2>2, <2>3
<1>11. CASE LateExecute
  <2>1. PICK call \in late : Possible(call[1]) /\ Execute(call[1])
    BY <1>11 DEF LateExecute
  <2>2. late \subseteq Ops \X (1..MaxLost)
    BY DEF TypeOK
  <2>3. call[1] \in Ops
    BY <2>1, <2>2
  <2>4. held'.receiver >= held.receiver
    BY <2>1, <2>3, ExecuteGrows
  <2>5. paid' = paid /\ pc' = pc
    BY <1>11 DEF LateExecute, job, history
  <2> QED
    BY <1>1, <1>2, <2>4, <2>5 DEF PaidShows, PaidOnce
<1>12. CASE Certify \/ UNCHANGED vars
  BY <1>12 DEF Certify, vars, job, chain, history, PaidShows, PaidOnce
<1>13. CASE CallError
  <2>1. UNCHANGED <<chain, history>>
    BY <1>6, <1>13, FailedKeeps DEF CallError, CallOf
  <2> QED
    BY <1>3, <1>7, <1>13, <2>1 DEF CallError, Fail, End
<1>14. CASE ProbeThrough
  <2>1. Dust \in Nat
    BY SetupAssumption
  <2>2. held'.receiver >= held.receiver
    BY <1>1, <1>14, <2>1 DEF ProbeThrough
  <2> QED
    BY <1>3, <1>14, <2>2 DEF ProbeThrough, Fail, End, history
<1>15. CASE \/ Start \/ Credential \/ MintRead \/ ViewError \/ RejectVictim
            \/ RejectOther \/ ProbeBlocked \/ ProbeError \/ Verify \/ Crash
  <2>1. UNCHANGED <<chain, history>>
    BY <1>15 DEF Start, Credential, MintRead, ViewError, RejectVictim, RejectOther,
       ProbeBlocked, ProbeError, Verify, Crash
  <2>2. pc' # "pay"
    BY <1>15 DEF Start, Credential, MintRead, ViewError, RejectVictim, RejectOther,
       ProbeBlocked, ProbeError, Verify, Crash, Fail, End, Goto
  <2> QED
    BY <1>3, <1>7, <2>1, <2>2
<1>16. CASE \E stage, next \in Stages : Pass(stage, next)
  <2>1. UNCHANGED <<chain, history>> /\ pc' # "pay"
    BY <1>16 DEF Pass, Goto, Stages
  <2> QED
    BY <1>3, <1>7, <2>1
<1> QED
  BY <1>8, <1>9, <1>10, <1>11, <1>12, <1>13, <1>14, <1>15, <1>16 DEF Next, Job, Stages

-----------------------------------------------------------------------------
(* The theorems. *)

\* At the start nothing is marked, minted or paid.
LEMMA InitIInv == Init => IInv
<1> SUFFICES ASSUME Init PROVE IInv
  OBVIOUS
<1>1. JobTypes
  BY DEF Init, JobTypes, Stages
<1>2. ChainTypes
  <2>1. held \in [{"minter", "receiver"} -> Nat]
    BY DEF Init
  <2>2. lost \in 0..MaxLost
    BY SetupAssumption DEF Init
  <2> QED
    BY <2>1, <2>2 DEF Init, ChainTypes
<1>3. RestTypes
  <2>1. jobs \in 0..MaxJobs /\ changes \in 0..MaxChanges
    BY SetupAssumption DEF Init
  <2> QED
    BY <2>1 DEF Init, RestTypes
<1>4. Behind /\ MarksStand /\ CompletedShows
  BY DEF Init, Behind, AfterCreate, AfterMode, AfterRequire, AfterAccept, MarksStand,
     CompletedShows
<1>5. MintOwed /\ MintedOnce /\ PaidShows /\ PaidOnce
  BY DEF Init, MintOwed, MintedOnce, PaidShows, PaidOnce
<1> QED
  BY <1>1, <1>2, <1>3, <1>4, <1>5, TypeParts DEF IInv

\* The strengthening is inductive.
LEMMA NextIInv ==
  ASSUME IInv, [Next]_vars
  PROVE  IInv'
BY NextType, NextBehind, NextMarksStand, NextCompleted, NextMint, NextPaid DEF IInv

\* In every state of every behaviour the strengthening holds.
THEOREM Inductive == Spec => []IInv
<1>1. IInv /\ [Next]_vars => IInv'
  BY NextIInv
<1> QED
  BY InitIInv, <1>1, PTL DEF Spec

\* Every variable keeps its type (TypeOK): no balance of the demonstration token
\* falls below zero, whatever is carried out late.
THEOREM TypeCorrect == Spec => []TypeOK
<1>1. IInv => TypeOK
  BY DEF IInv
<1> QED
  BY Inductive, <1>1, PTL

\* The whole amount is minted once per time the mint mark was lost, and once
\* more (MintedOnce; seed_runner.go, the mint stage).
THEOREM MintedOnceHolds == Spec => []MintedOnce
<1>1. IInv => MintedOnce
  BY DEF IInv
<1> QED
  BY Inductive, <1>1, PTL

\* The certified receiver is paid by at most one answered transfer, however many
\* jobs run and whatever marks they lose (PaidOnce; the accept stage).
THEOREM PaidOnceHolds == Spec => []PaidOnce
<1>1. IInv => PaidOnce
  BY DEF IInv
<1> QED
  BY Inductive, <1>1, PTL

\* A job demonstrates its rules only once they are in force, unless the chain
\* failed the call that sets one without an error, or refused the requirement with
\* a code that is passed over as a duplicate (RulesFirst; the mode and requirements
\* stages).
THEOREM RulesFirstHolds == Spec => []RulesFirst
<1>1. IInv => RulesFirst
  BY DEF IInv, Behind, MarksStand, RulesFirst, AfterMode, AfterRequire, AfterAccept
<1> QED
  BY Inductive, <1>1, PTL

\* A job that ends "completed" leaves a token that exists, demands certificates and
\* has reached the receiver, unless the chain failed one of those calls without an
\* error, although the job may have done none of it itself (CompletedShows).
THEOREM CompletedShowsHolds == Spec => []CompletedShows
<1>1. IInv => CompletedShows
  BY DEF IInv
<1> QED
  BY Inductive, <1>1, PTL

=============================================================================
