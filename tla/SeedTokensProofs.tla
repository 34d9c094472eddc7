-------------------------- MODULE SeedTokensProofs --------------------------
(***************************************************************************)
(* Proofs about SeedTokens for any plan, any balances an earlier job left  *)
(* and any bounds.  The transactions fill the slots from the first on      *)
(* (Filled), and the job waits for the answer to the last (Waiting).       *)
(* Balances only grow, so what was read stays a lower bound (Reads), and   *)
(* until the mint is answered all that was given since is unacknowledged   *)
(* (Ahead).  From there follow what completion means (Funded), what was    *)
(* minted (MintedAsPlanned) and that the freeze is carried out once        *)
(* (OneFreeze).                                                            *)
(***************************************************************************)
EXTENDS SeedTokens, FiniteSetTheorems, TLAPS

Sending == {"createSent", "mintSent", "freezeSent"}

JobTypes ==
  /\ pc \in {"idle", "create", "read", "mintTry", "freeze", "frozen"} \union Sending
  /\ marks \subseteq Stages /\ saved \subseteq Stages
  /\ have \in [Holders -> Nat \union {None}] /\ diff \in Amounts
  /\ attempt \in 0..(RetryMax - 1) /\ held \in Nat
  /\ outcome \in {"none", "completed", "failed"}
  /\ jobs \in 0..MaxJobs /\ first \in 0..MaxSends

NodeTypes ==
  /\ body \in [Slots -> Op \union {None}]
  /\ chain \in [Slots -> {"unknown", "pending", "success", "failed", "prefail"}]
  /\ answer \in [Slots -> {"none", "ok", "error", "errorWithHash"}]

LedgerTypes ==
  /\ created \in BOOLEAN /\ start \in Before
  /\ bal \in Amounts /\ unacked \in Amounts /\ frozen \in Nat

\* The transactions sent are the first slots; the others are untouched, and an
\* answer ok is given only to a transaction that has ended.
Filled ==
  /\ \E k \in 0..MaxSends : Sent = 1..k
  /\ \A n \in Slots \ Sent : chain[n] = "unknown" /\ answer[n] = "none"
  /\ \A n \in Slots : answer[n] = "ok" => chain[n] \in {"success", "failed", "prefail"}

\* What the job sent last, and is waiting for.
Waiting ==
  /\ first <= Last
  /\ pc \in Sending => first < Last /\ answer[Last] = "none"
  /\ pc = "mintSent" => body[Last] = [op |-> "mint", by |-> diff]
  /\ pc = "createSent" => body[Last].op = "create"
  /\ pc = "freezeSent" => body[Last].op = "freeze"

\* What was read is still there, and what is missing was computed from it.
Reads ==
  /\ pc \in {"idle", "create", "createSent"} => have = Unread
  /\ \A h \in Holders : have[h] # None => have[h] <= bal[h]
  /\ pc \in {"mintTry", "mintSent"} => /\ \A h \in Holders : have[h] # None
                                       /\ diff = Missing(have)
  /\ pc = "mintSent" /\ chain[Last] = "success" =>
       \A h \in Holders : have[h] + diff[h] <= bal[h]

\* What the holders were given after they were read is not acknowledged yet.
Ahead ==
  /\ pc \in {"read", "mintTry", "mintSent"} =>
       \A h \in Holders : have[h] # None => bal[h] <= have[h] + unacked[h]
  /\ pc = "mintSent" /\ chain[Last] = "success" =>
       \A h \in Holders : diff[h] <= unacked[h]

\* The funds are there, or a mint of this job was failed without an error.
Funds ==
  \/ \A h \in Holders : bal[h] >= Want[h]
  \/ \E n \in Sent : n > first /\ body[n].op = "mint" /\ FailedQuietly(n)

\* ... as soon as the mint stage is over, and as long as the job is the last one.
Funded ==
  pc \in {"freeze", "frozen", "freezeSent"} \/ (pc = "idle" /\ outcome = "completed")
    => Funds

\* The freezes that were carried out and answered for.
Freezes == {n \in Sent : /\ body[n].op = "freeze" /\ chain[n] = "success"
                         /\ answer[n] = "ok"}

\* One that was carried out shows in what is frozen; the job sends one only
\* when nothing is, and then none has been answered for.
OneFreeze ==
  /\ \A n \in Sent : body[n].op = "freeze" =>
       /\ body[n].by[Frozen] > 0
       /\ chain[n] = "success" => frozen > 0
  /\ pc = "freezeSent" => Freezes = {}
  /\ \A m, n \in Freezes : m = n

IInv ==
  /\ JobTypes /\ NodeTypes /\ LedgerTypes
  /\ Filled /\ Waiting
  /\ Reads /\ Ahead
  /\ Funded /\ MintedAsPlanned /\ OneFreeze

-----------------------------------------------------------------------------
(* What a caller and the node do to the transactions. *)

Final == {"success", "failed", "prefail"}

LEMMA FinalIs == Sends!Final = Final
BY DEF Sends!Final, Final

\* The number of transactions is the number of the last.
LEMMA Prefix ==
  ASSUME Filled
  PROVE  Last \in 0..MaxSends /\ Sent = 1..Last
<1>1. PICK k \in 0..MaxSends : Sent = 1..k
  BY DEF Filled
<1>2. k \in Nat
  BY <1>1, PlanAssumption
<1>3. Cardinality(1..k) = k
  BY <1>2, FS_Interval
<1> QED
  BY <1>1, <1>3 DEF Last

\* Sending fills the next slot.
LEMMA SendStep ==
  ASSUME NodeTypes, Filled, NEW op, NEW by, [op |-> op, by |-> by] \in Op, Send(op, by)
  PROVE  /\ Last + 1 \in Slots /\ Last + 1 \notin Sent
         /\ Sent' = Sent \union {Last + 1} /\ Last' = Last + 1
         /\ body' \in [Slots -> Op \union {None}]
         /\ body'[Last + 1] = [op |-> op, by |-> by]
         /\ \A n \in Sent : body'[n] = body[n]
         /\ chain' = chain /\ answer' = answer
         /\ chain[Last + 1] = "unknown" /\ answer[Last + 1] = "none"
         /\ Filled'
<1>1. MaxSends \in Nat /\ Last \in 0..MaxSends /\ Sent = 1..Last
  BY Prefix, PlanAssumption
<1>2. Last < MaxSends /\ chain' = chain /\ answer' = answer
      /\ body' = [body EXCEPT ![Last + 1] = [op |-> op, by |-> by]]
  BY DEF Send
<1>3. Last + 1 \in Slots /\ Last + 1 \notin Sent /\ Sent \subseteq Slots
      /\ 1..(Last + 1) = Sent \union {Last + 1} /\ Last + 1 \in 0..MaxSends
  BY <1>1, <1>2 DEF Slots
<1>4. [op |-> op, by |-> by] # None
  BY NoneAssumption
<1>5. /\ body' \in [Slots -> Op \union {None}]
      /\ body'[Last + 1] = [op |-> op, by |-> by]
      /\ \A n \in Slots \ {Last + 1} : body'[n] = body[n]
  BY <1>2, <1>3 DEF NodeTypes
<1>6. Sent' = Sent \union {Last + 1}
  BY <1>3, <1>4, <1>5 DEF Sent
<1>7. Sent' = 1..(Last + 1)
  BY <1>3, <1>6
<1>8. Filled'
  <2>1. \A n \in Slots \ Sent' : chain'[n] = "unknown" /\ answer'[n] = "none"
    BY <1>2, <1>6 DEF Filled
  <2>2. \A n \in Slots : answer'[n] = "ok" => chain'[n] \in {"success", "failed", "prefail"}
    BY <1>2 DEF Filled
  <2> QED
    BY <1>3, <1>7, <2>1, <2>2 DEF Filled
<1>9. Last' = Last + 1
  <2>1. Cardinality(1..(Last + 1)) = Last + 1
    BY <1>1, FS_Interval
  <2> QED
    BY <1>7, <2>1 DEF Last
<1> QED
  BY <1>2, <1>3, <1>5, <1>6, <1>8, <1>9 DEF Filled

\* The answer goes to the transaction that is waited for.
LEMMA AnswerStep ==
  ASSUME JobTypes, NodeTypes, Filled, Waiting, pc \in Sending,
         NEW a \in {"ok", "error", "errorWithHash"}, Answered(a)
  PROVE  /\ Last \in Sent /\ Last \in Slots
         /\ body' = body /\ chain' = chain
         /\ answer' = [answer EXCEPT ![Last] = a]
         /\ answer' \in [Slots -> {"none", "ok", "error", "errorWithHash"}]
         /\ answer'[Last] = a /\ \A n \in Slots \ {Last} : answer'[n] = answer[n]
         /\ Sent' = Sent /\ Last' = Last
         /\ a = "ok" => chain[Last] \in Final
         /\ Filled'
<1>1. MaxSends \in Nat /\ Last \in 0..MaxSends /\ Sent = 1..Last
  BY Prefix, PlanAssumption
<1>2. Last \in Sent /\ Last \in Slots
  <2>1. first < Last /\ first \in Nat
    BY <1>1 DEF Waiting, JobTypes
  <2> QED
    BY <1>1, <2>1 DEF Slots
<1>3. /\ body' = body /\ chain' = chain
      /\ answer' = [answer EXCEPT ![Last] = a]
      /\ a = "ok" => chain[Last] \in Final
  BY FinalIs DEF Answered, Sends!Answer
<1>4. Sent' = Sent /\ Last' = Last
  BY <1>3 DEF Sent, Last
<1>5. /\ answer' \in [Slots -> {"none", "ok", "error", "errorWithHash"}]
      /\ answer'[Last] = a /\ \A n \in Slots \ {Last} : answer'[n] = answer[n]
  BY <1>2, <1>3 DEF NodeTypes
<1>6. Filled'
  <2>1. \A n \in Slots \ Sent' : chain'[n] = "unknown" /\ answer'[n] = "none"
    BY <1>2, <1>3, <1>4, <1>5 DEF Filled
  <2>2. \A n \in Slots : answer'[n] = "ok" => chain'[n] \in {"success", "failed", "prefail"}
    BY <1>2, <1>3, <1>5 DEF Filled, Final
  <2> QED
    BY <1>4, <2>1, <2>2 DEF Filled
<1> QED
  BY <1>2, <1>3, <1>4, <1>5, <1>6

\* The node takes a transaction, or ends one that was not answered ok.
LEMMA NodeStep ==
  ASSUME NodeTypes, Filled, NEW n \in Sent, Sends!Accept(n) \/ Sends!Finish(n),
         body' = body
  PROVE  /\ n \in Slots /\ answer' = answer
         /\ Sent' = Sent /\ Last' = Last
         /\ chain' \in [Slots -> {"unknown", "pending", "success", "failed", "prefail"}]
         /\ \A m \in Slots \ {n} : chain'[m] = chain[m]
         /\ chain[n] \notin Final /\ answer[n] # "ok"
         /\ chain'[n] = "success" => Sends!Finish(n)
         /\ Filled'
<1>1. n \in Slots
  BY DEF Sent
<1>2. /\ answer' = answer /\ chain[n] \in {"unknown", "pending"}
      /\ \E f \in Final \union {"pending"} : chain' = [chain EXCEPT ![n] = f]
      /\ Sends!Accept(n) => chain' = [chain EXCEPT ![n] = "pending"]
  BY FinalIs DEF Sends!Accept, Sends!Finish
<1>3. /\ chain' \in [Slots -> {"unknown", "pending", "success", "failed", "prefail"}]
      /\ \A m \in Slots \ {n} : chain'[m] = chain[m]
      /\ Sends!Accept(n) => chain'[n] = "pending"
  BY <1>1, <1>2 DEF NodeTypes, Final
<1>4. answer[n] # "ok"
  BY <1>1, <1>2 DEF Filled
<1>5. Sent' = Sent /\ Last' = Last
  BY DEF Sent, Last
<1>6. Filled'
  <2>1. \A m \in Slots \ Sent' : chain'[m] = "unknown" /\ answer'[m] = "none"
    BY <1>2, <1>3, <1>5 DEF Filled
  <2>2. \A m \in Slots : answer'[m] = "ok" => chain'[m] \in {"success", "failed", "prefail"}
    BY <1>1, <1>2, <1>3, <1>4 DEF Filled
  <2> QED
    BY <1>5, <2>1, <2>2 DEF Filled
<1> QED
  BY <1>1, <1>2, <1>3, <1>4, <1>5, <1>6 DEF Final

-----------------------------------------------------------------------------
(* The operators of the plan. *)

\* What is missing, and what is to be frozen, are amounts.
LEMMA AmountTypes ==
  /\ Nothing \in Amounts
  /\ \A read \in [Holders -> Nat] : Missing(read) \in Amounts
  /\ \A b \in Nat : FreezeAmount(b) \in Nat
  /\ \A x \in Nat : [Nothing EXCEPT ![Frozen] = x] \in Amounts
                    /\ [Nothing EXCEPT ![Frozen] = x][Frozen] = x
<1>1. Nothing \in Amounts
  BY DEF Nothing, Amounts
<1>2. ASSUME NEW read \in [Holders -> Nat] PROVE Missing(read) \in Amounts
  <2>1. \A h \in Holders : (IF read[h] < Want[h] THEN Want[h] - read[h] ELSE 0) \in Nat
    <3> SUFFICES ASSUME NEW h \in Holders
                 PROVE  (IF read[h] < Want[h] THEN Want[h] - read[h] ELSE 0) \in Nat
      OBVIOUS
    <3>1. read[h] \in Nat /\ Want[h] \in Nat
      BY PlanAssumption
    <3> QED
      BY <3>1
  <2> QED
    BY <2>1 DEF Missing, Amounts
<1>3. ASSUME NEW b \in Nat PROVE FreezeAmount(b) \in Nat
  BY DEF FreezeAmount
<1>4. ASSUME NEW x \in Nat
      PROVE  /\ [Nothing EXCEPT ![Frozen] = x] \in Amounts
             /\ [Nothing EXCEPT ![Frozen] = x][Frozen] = x
  BY PlanAssumption DEF Nothing, Amounts
<1> QED
  BY <1>1, <1>2, <1>3, <1>4

\* What a transaction gives is an amount.
LEMMA GivenType ==
  ASSUME NodeTypes, NEW n \in Sent
  PROVE  /\ body[n] \in Op /\ body[n].by \in Amounts
         /\ Given(n) \in Amounts
         /\ body[n].op = "mint" => Given(n) = body[n].by
         /\ body[n].op # "mint" => Given(n) = Nothing
<1>1. body[n] \in Op
  BY DEF NodeTypes, Sent
<1>2. body[n].by \in Amounts
  BY <1>1, AmountTypes DEF Op
<1> QED
  BY <1>1, <1>2, AmountTypes DEF Given

\* Balances read in full are amounts.
LEMMA ReadInFull ==
  ASSUME JobTypes, \A h \in Holders : have[h] # None
  PROVE  have \in [Holders -> Nat]
BY DEF JobTypes

\* To carry out a transaction is to give what it gives.
LEMMA ExecuteStep ==
  ASSUME NodeTypes, LedgerTypes, NEW n \in Sent, Execute(n)
  PROVE  /\ LedgerTypes'
         /\ \A h \in Holders : /\ bal'[h] = bal[h] + Given(n)[h]
                               /\ unacked'[h] = unacked[h] + Given(n)[h]
                               /\ bal[h] \in Nat /\ unacked[h] \in Nat
                               /\ Given(n)[h] \in Nat
         /\ frozen' >= frozen /\ start' = start
         /\ body[n].op = "freeze" => frozen' = frozen + body[n].by[Frozen]
<1>1. /\ Given(n) \in Amounts /\ body[n].by \in Amounts
      /\ bal \in Amounts /\ unacked \in Amounts /\ frozen \in Nat
      /\ created \in BOOLEAN /\ start \in Before
  BY GivenType DEF LedgerTypes
<1>2. \A h \in Holders : bal[h] \in Nat /\ unacked[h] \in Nat /\ Given(n)[h] \in Nat
  BY <1>1 DEF Amounts
<1>3. /\ bal' = [h \in Holders |-> bal[h] + Given(n)[h]]
      /\ unacked' = [h \in Holders |-> unacked[h] + Given(n)[h]]
      /\ created' = (created \/ body[n].op = "create") /\ start' = start
      /\ frozen' = IF body[n].op = "freeze" THEN frozen + body[n].by[Frozen] ELSE frozen
  BY DEF Execute
<1>4. bal' \in Amounts /\ unacked' \in Amounts
  BY <1>2, <1>3 DEF Amounts
<1>5. body[n].by[Frozen] \in Nat
  BY <1>1, PlanAssumption DEF Amounts
<1>6. frozen' \in Nat /\ frozen' >= frozen
  BY <1>1, <1>3, <1>5
<1>7. created' \in BOOLEAN
  BY <1>3
<1> QED
  BY <1>1, <1>2, <1>3, <1>4, <1>6, <1>7 DEF LedgerTypes

-----------------------------------------------------------------------------
(* The type invariant. *)

\* A step that ends the job leaves it well typed.
LEMMA EndTypes ==
  ASSUME JobTypes, NEW how \in {"completed", "failed"}, End(how),
         marks' \subseteq Stages, saved' \subseteq Stages,
         jobs' = jobs, first' = first
  PROVE  JobTypes'
<1>1. have' \in [Holders -> Nat \union {None}] /\ diff' \in Amounts
  BY AmountTypes DEF End, Unread
<1>2. attempt' \in 0..(RetryMax - 1) /\ held' \in Nat
  BY PlanAssumption DEF End
<1> QED
  BY <1>1, <1>2 DEF End, JobTypes

\* Marking a stage keeps both sets of marks within the stages.
LEMMA MarkTypes ==
  ASSUME JobTypes, NEW stage \in Stages, Mark(stage)
  PROVE  marks' \subseteq Stages /\ saved' \subseteq Stages
BY DEF JobTypes, Mark

LEMMA NextJobTypes ==
  ASSUME IInv, [Next]_vars
  PROVE  JobTypes'
<1>0. JobTypes /\ "create" \in Stages /\ "mint" \in Stages /\ "freeze" \in Stages
  BY DEF IInv, Stages
<1> USE <1>0 DEF Sending
<1>1. CASE Start
  <2>1. jobs' \in 0..MaxJobs
    <3>1. jobs < MaxJobs /\ jobs' = jobs + 1 /\ MaxJobs \in Nat /\ jobs \in 0..MaxJobs
      BY <1>1, PlanAssumption DEF Start, JobTypes
    <3> QED
      BY <3>1
  <2>2. first' \in 0..MaxSends
    BY <1>1, Prefix DEF Start, IInv
  <2>3. marks' \subseteq Stages /\ saved' \subseteq Stages
    BY <1>1 DEF Start, JobTypes
  <2> QED
    BY <1>1, <2>1, <2>2, <2>3 DEF Start, Goto, JobTypes
<1>2. CASE CreateSkip \/ CreateSend \/ MintSend \/ FreezeSend
  BY <1>2 DEF CreateSkip, CreateSend, MintSend, FreezeSend, Goto, JobTypes
<1>3. CASE CreateDone \/ MintDone \/ MintSkip
  <2>1. marks' \subseteq Stages /\ saved' \subseteq Stages
    BY <1>3, MarkTypes DEF CreateDone, MintDone, MintSkip, JobTypes
  <2> QED
    BY <1>3, <2>1 DEF CreateDone, MintDone, MintSkip, Goto, JobTypes
<1>4. CASE CreateError \/ ViewError \/ FreezeError \/ Crash \/ (MintError /\ Fail)
  <2>1. Fail /\ jobs' = jobs /\ first' = first
    BY <1>4 DEF CreateError, ViewError, FreezeError, Crash, MintError
  <2>2. marks' \subseteq Stages /\ saved' \subseteq Stages
    BY <2>1 DEF Fail, JobTypes
  <2> QED
    BY <2>1, <2>2, EndTypes DEF Fail
<1>5. CASE \E h \in Holders : ReadBalance(h)
  <2>1. PICK h \in Holders : ReadBalance(h)
    BY <1>5
  <2>2. bal[h] \in Nat
    BY DEF IInv, LedgerTypes, Amounts
  <2>3. have' \in [Holders -> Nat \union {None}]
    BY <2>1, <2>2 DEF ReadBalance, JobTypes
  <2> QED
    BY <2>1, <2>3 DEF ReadBalance, past, JobTypes
<1>6. CASE MintBegin
  <2>1. diff' \in Amounts
    BY <1>6, ReadInFull, AmountTypes DEF MintBegin, AllRead
  <2>2. attempt' \in 0..(RetryMax - 1)
    BY <1>6, PlanAssumption DEF MintBegin
  <2> QED
    BY <1>6, <2>1, <2>2 DEF MintBegin, Goto, JobTypes
<1>7. CASE MintError /\ ~ Fail
  <2>1. /\ attempt + 1 < RetryMax /\ attempt' = attempt + 1 /\ Goto("mintTry")
        /\ UNCHANGED <<marks, have, diff, held, saved>>
    BY <1>7 DEF MintError
  <2>2. attempt' \in 0..(RetryMax - 1)
    <3>1. attempt \in 0..(RetryMax - 1) /\ RetryMax \in Nat
      BY PlanAssumption DEF JobTypes
    <3> QED
      BY <2>1, <3>1
  <2> QED
    BY <1>7, <2>1, <2>2 DEF MintError, Goto, JobTypes
<1>8. CASE FreezeRead
  <2>1. held' \in Nat
    BY <1>8, PlanAssumption DEF FreezeRead, IInv, LedgerTypes, Amounts
  <2> QED
    BY <1>8, <2>1 DEF FreezeRead, Goto, JobTypes
<1>9. CASE FreezeSkip \/ FreezeDone
  <2>1. jobs' = jobs /\ first' = first /\ End("completed")
    BY <1>9 DEF FreezeSkip, FreezeDone, Complete
  <2>2. marks' \subseteq Stages /\ saved' \subseteq Stages
    BY <1>9, MarkTypes DEF FreezeSkip, FreezeDone, Complete, JobTypes
  <2> QED
    BY <2>1, <2>2, EndTypes
<1>10. CASE Accept \/ Finish \/ UNCHANGED vars
  BY <1>10 DEF Accept, Finish, vars, job, past, JobTypes
<1> QED
  BY <1>1, <1>2, <1>3, <1>4, <1>5, <1>6, <1>7, <1>8, <1>9, <1>10 DEF Next, Job

-----------------------------------------------------------------------------
(* What each kind of step does to the transactions and the balances. *)

\* Steps that neither send nor answer.
Inward ==
  \/ Start \/ CreateSkip \/ (\E h \in Holders : ReadBalance(h)) \/ ViewError
  \/ MintSkip \/ MintBegin \/ FreezeRead \/ FreezeSkip \/ Crash \/ UNCHANGED vars

Asking    == CreateSend \/ MintSend \/ FreezeSend
Answering == CreateDone \/ CreateError \/ MintDone \/ MintError \/ FreezeDone \/ FreezeError

LEMMA Kinds ==
  [Next]_vars => Inward \/ Asking \/ Answering \/ Accept \/ Finish
BY DEF Next, Job, Inward, Asking, Answering

LEMMA InwardStep ==
  ASSUME Inward
  PROVE  /\ UNCHANGED <<sends, ledger>>
         /\ Sent' = Sent /\ Last' = Last
<1>1. UNCHANGED <<sends, ledger>>
  BY DEF Inward, Start, CreateSkip, ReadBalance, ViewError, MintSkip, MintBegin,
     FreezeRead, FreezeSkip, Crash, vars
<1> QED
  BY <1>1 DEF sends, Sent, Last

\* What is sent: the mint of what is missing, a freeze that freezes something.
LEMMA AskingStep ==
  ASSUME IInv, Asking
  PROVE  \E op \in Stages, by \in Amounts :
            /\ [op |-> op, by |-> by] \in Op /\ Send(op, by)
            /\ CreateSend => op = "create"
            /\ MintSend => op = "mint" /\ by = diff
            /\ FreezeSend => op = "freeze" /\ by[Frozen] > 0
            /\ UNCHANGED ledger /\ first' = first
<1>1. CASE CreateSend
  <2>1. [op |-> "create", by |-> Nothing] \in Op /\ "create" \in Stages
    BY DEF Op, Stages
  <2>2. Send("create", Nothing) /\ UNCHANGED ledger /\ first' = first /\ pc = "create"
    BY <1>1 DEF CreateSend
  <2>3. ~ MintSend /\ ~ FreezeSend
    BY <2>2 DEF MintSend, FreezeSend
  <2> QED
    BY <2>1, <2>2, <2>3, AmountTypes
<1>2. CASE MintSend
  <2>1. diff \in Amounts
    BY DEF IInv, JobTypes
  <2>2. [op |-> "mint", by |-> diff] \in Op /\ "mint" \in Stages
    BY <2>1 DEF Op, Stages
  <2>3. Send("mint", diff) /\ UNCHANGED ledger /\ first' = first /\ pc = "mintTry"
    BY <1>2 DEF MintSend
  <2>4. ~ CreateSend /\ ~ FreezeSend
    BY <2>3 DEF CreateSend, FreezeSend
  <2> QED
    BY <2>1, <2>2, <2>3, <2>4
<1>3. CASE FreezeSend
  <2> DEFINE by == [Nothing EXCEPT ![Frozen] = FreezeAmount(held)]
  <2>1. FreezeAmount(held) \in Nat /\ FreezeAmount(held) # 0
    BY <1>3, AmountTypes DEF IInv, JobTypes, FreezeSend
  <2>2. by \in Amounts /\ by[Frozen] = FreezeAmount(held)
    BY <2>1, AmountTypes
  <2>3. Send("freeze", by) /\ UNCHANGED ledger /\ first' = first /\ pc = "frozen"
    BY <1>3 DEF FreezeSend
  <2>4. ~ CreateSend /\ ~ MintSend
    BY <2>3 DEF CreateSend, MintSend
  <2> HIDE DEF by
  <2>5. [op |-> "freeze", by |-> by] \in Op /\ "freeze" \in Stages /\ by[Frozen] > 0
    BY <2>1, <2>2 DEF Op, Stages
  <2> QED
    BY <2>2, <2>3, <2>4, <2>5
<1> QED
  BY <1>1, <1>2, <1>3 DEF Asking

\* The answer to the last transaction; only that of a mint acknowledges anything.
LEMMA AnsweringStep ==
  ASSUME IInv, Answering
  PROVE  /\ pc \in Sending
         /\ \E a \in {"ok", "error", "errorWithHash"} :
               /\ Answered(a)
               /\ MintDone \/ FreezeDone => a = "ok"
         /\ ~ MintDone => unacked' = unacked
         /\ UNCHANGED <<created, start, bal, frozen>> /\ first' = first
         /\ pc' \notin Sending
<1>1. pc \in Sending
  BY DEF Answering, CreateDone, CreateError, MintDone, MintError, FreezeDone, FreezeError,
     Sending
<1>2. \E a \in {"ok", "error", "errorWithHash"} :
        /\ Answered(a)
        /\ MintDone \/ FreezeDone => a = "ok"
  <2>1. CASE MintDone \/ FreezeDone
    BY <2>1 DEF MintDone, FreezeDone
  <2>2. CASE CreateDone
    BY <2>2 DEF CreateDone, MintDone, FreezeDone
  <2>3. CASE CreateError \/ MintError \/ FreezeError
    <3>1. \E a \in {"error", "errorWithHash"} : Answered(a)
      BY <2>3 DEF CreateError, MintError, FreezeError
    <3> QED
      BY <2>1, <3>1
  <2> QED
    BY <2>1, <2>2, <2>3 DEF Answering
<1>3. ~ MintDone => unacked' = unacked
  BY DEF Answering, CreateDone, CreateError, MintError, FreezeDone, FreezeError, ledger
<1>4. UNCHANGED <<created, start, bal, frozen>> /\ first' = first
  BY DEF Answering, CreateDone, CreateError, MintDone, MintError, FreezeDone, FreezeError,
     ledger
<1>5. pc' \notin Sending
  BY DEF Answering, CreateDone, CreateError, MintDone, MintError, FreezeDone, FreezeError,
     Goto, Fail, Complete, End, Sending
<1> QED
  BY <1>1, <1>2, <1>3, <1>4, <1>5

\* What the node carries out is added to the balances, and not acknowledged.
LEMMA FinishStep ==
  ASSUME IInv, NEW n \in Sent, Sends!Finish(n), body' = body,
         IF chain'[n] = "success" THEN Possible(n) /\ Execute(n) ELSE UNCHANGED ledger
  PROVE  /\ LedgerTypes' /\ start' = start
         /\ \A h \in Holders : /\ bal[h] \in Nat /\ bal'[h] \in Nat /\ bal[h] <= bal'[h]
                               /\ unacked[h] \in Nat /\ unacked'[h] \in Nat
                               /\ bal'[h] - bal[h] = unacked'[h] - unacked[h]
         /\ chain'[n] = "success" =>
               \A h \in Holders : bal'[h] = bal[h] + Given(n)[h]
                                  /\ unacked'[h] = unacked[h] + Given(n)[h]
         /\ frozen \in Nat /\ frozen' \in Nat /\ frozen' >= frozen
         /\ chain'[n] = "success" /\ body[n].op = "freeze" =>
               frozen' = frozen + body[n].by[Frozen]
<1>1. CASE chain'[n] = "success"
  <2>1. Execute(n)
    BY <1>1
  <2>2. /\ LedgerTypes' /\ start' = start
        /\ \A h \in Holders : /\ bal'[h] = bal[h] + Given(n)[h]
                              /\ unacked'[h] = unacked[h] + Given(n)[h]
                              /\ bal[h] \in Nat /\ unacked[h] \in Nat
                              /\ Given(n)[h] \in Nat
        /\ frozen' >= frozen
        /\ body[n].op = "freeze" => frozen' = frozen + body[n].by[Frozen]
    BY <2>1, ExecuteStep DEF IInv
  <2>3. frozen \in Nat /\ frozen' \in Nat
    BY <2>2 DEF IInv, LedgerTypes
  <2>4. \A h \in Holders : /\ bal'[h] \in Nat /\ bal[h] <= bal'[h] /\ unacked'[h] \in Nat
                           /\ bal'[h] - bal[h] = unacked'[h] - unacked[h]
    BY <2>2
  <2> QED
    BY <2>2, <2>3, <2>4
<1>2. CASE chain'[n] # "success"
  <2>1. created' = created /\ start' = start /\ bal' = bal /\ frozen' = frozen
        /\ unacked' = unacked
    BY <1>2 DEF ledger
  <2>2. LedgerTypes' /\ frozen \in Nat /\ bal \in Amounts /\ unacked \in Amounts
    BY <2>1 DEF IInv, LedgerTypes
  <2>3. \A h \in Holders : bal[h] \in Nat /\ unacked[h] \in Nat
    BY <2>2 DEF Amounts
  <2> QED
    BY <1>2, <2>1, <2>2, <2>3
<1> QED
  BY <1>1, <1>2

-----------------------------------------------------------------------------
(* The strengthening, conjunct by conjunct. *)

\* The transactions and the ledger stay well typed, and the slots filled in order.
LEMMA NextNode ==
  ASSUME IInv, [Next]_vars
  PROVE  NodeTypes' /\ LedgerTypes' /\ Filled'
<1>0. NodeTypes /\ LedgerTypes /\ Filled /\ Waiting /\ JobTypes
  BY DEF IInv
<1>1. CASE Inward
  BY <1>0, <1>1, InwardStep DEF NodeTypes, LedgerTypes, Filled, sends, ledger
<1>2. CASE Asking
  <2>1. PICK op \in Stages, by \in Amounts :
          /\ [op |-> op, by |-> by] \in Op /\ Send(op, by)
          /\ UNCHANGED ledger
    BY <1>2, AskingStep
  <2>2. body' \in [Slots -> Op \union {None}] /\ chain' = chain /\ answer' = answer /\ Filled'
    BY <1>0, <2>1, SendStep
  <2> QED
    BY <1>0, <2>1, <2>2 DEF NodeTypes, LedgerTypes, ledger
<1>3. CASE Answering
  <2>1. PICK a \in {"ok", "error", "errorWithHash"} : Answered(a)
    BY <1>3, AnsweringStep
  <2>2. pc \in Sending
    BY <1>3, AnsweringStep
  <2>3. /\ body' = body /\ chain' = chain /\ Filled'
        /\ answer' \in [Slots -> {"none", "ok", "error", "errorWithHash"}]
        /\ Last \in Sent
    BY <1>0, <2>1, <2>2, AnswerStep
  <2>4. unacked' \in Amounts
    <3>1. CASE ~ MintDone
      BY <1>0, <1>3, <3>1, AnsweringStep DEF LedgerTypes
    <3>2. CASE MintDone
      <4>1. /\ pc = "mintSent"
            /\ unacked' = [h \in Holders |-> IF chain[Last] = "success"
                              THEN unacked[h] - body[Last].by[h] ELSE unacked[h]]
        BY <3>2 DEF MintDone
      <4>2. body[Last].by = diff /\ diff \in Amounts /\ unacked \in Amounts
        BY <1>0, <4>1 DEF Waiting, JobTypes, LedgerTypes
      <4>3. chain[Last] = "success" => \A h \in Holders : diff[h] <= unacked[h]
        BY <4>1 DEF IInv, Ahead
      <4>4. \A h \in Holders : diff[h] \in Nat /\ unacked[h] \in Nat
        BY <4>2 DEF Amounts
      <4>5. \A h \in Holders : (IF chain[Last] = "success"
                                THEN unacked[h] - body[Last].by[h] ELSE unacked[h]) \in Nat
        BY <4>2, <4>3, <4>4
      <4> QED
        BY <4>1, <4>5 DEF Amounts
    <3> QED
      BY <3>1, <3>2
  <2>5. UNCHANGED <<created, start, bal, frozen>>
    BY <1>3, AnsweringStep
  <2> QED
    BY <1>0, <2>3, <2>4, <2>5 DEF NodeTypes, LedgerTypes
<1>4. CASE Accept
  <2>1. PICK n \in Sent : Sends!Accept(n) /\ body' = body /\ UNCHANGED ledger
    BY <1>4 DEF Accept
  <2> QED
    BY <1>0, <2>1, NodeStep DEF NodeTypes, LedgerTypes, ledger
<1>5. CASE Finish
  <2>1. PICK n \in Sent :
          /\ Sends!Finish(n) /\ body' = body
          /\ IF chain'[n] = "success" THEN Possible(n) /\ Execute(n) ELSE UNCHANGED ledger
    BY <1>5 DEF Finish
  <2>2. LedgerTypes'
    BY <2>1, FinishStep
  <2>3. answer' = answer /\ Filled'
        /\ chain' \in [Slots -> {"unknown", "pending", "success", "failed", "prefail"}]
    BY <1>0, <2>1, NodeStep
  <2> QED
    BY <1>0, <2>1, <2>2, <2>3 DEF NodeTypes
<1> QED
  BY <1>1, <1>2, <1>3, <1>4, <1>5, Kinds

\* A step of the node leaves the job alone, and nothing that was sent changes.
LEMMA NodeKeeps ==
  ASSUME IInv, Accept \/ Finish
  PROVE  /\ UNCHANGED <<job, saved, past, body, answer>>
         /\ Sent' = Sent /\ Last' = Last
         /\ \A h \in Holders : /\ bal[h] \in Nat /\ bal'[h] \in Nat /\ bal[h] <= bal'[h]
                               /\ unacked[h] \in Nat /\ unacked'[h] \in Nat
                               /\ bal'[h] - bal[h] = unacked'[h] - unacked[h]
         /\ start' = start
         /\ frozen \in Nat /\ frozen' \in Nat /\ frozen' >= frozen
         /\ \A n \in Sent :
              /\ chain[n] \in Final => chain'[n] = chain[n]
              /\ chain'[n] = "success" /\ chain[n] # "success" =>
                   /\ answer[n] # "ok"
                   /\ \A h \in Holders : bal'[h] = bal[h] + Given(n)[h]
                                         /\ unacked'[h] = unacked[h] + Given(n)[h]
                   /\ body[n].op = "freeze" => frozen' = frozen + body[n].by[Frozen]
<1>0. NodeTypes /\ Filled /\ LedgerTypes
  BY DEF IInv
<1>1. CASE Accept
  <2>1. PICK n \in Sent : Sends!Accept(n) /\ UNCHANGED <<job, saved, past, body, ledger>>
    BY <1>1 DEF Accept
  <2>2. /\ n \in Slots /\ answer' = answer /\ Sent' = Sent /\ Last' = Last
        /\ \A m \in Slots \ {n} : chain'[m] = chain[m]
        /\ chain[n] \notin Final
        /\ chain'[n] = "success" => Sends!Finish(n)
    BY <1>0, <2>1, NodeStep
  <2>3. chain'[n] # "success"
    BY <2>1, <2>2 DEF Sends!Accept, Sends!Finish
  <2>4. \A m \in Sent : /\ chain[m] \in Final => chain'[m] = chain[m]
                        /\ chain'[m] = "success" => chain[m] = "success"
    BY <2>2, <2>3 DEF Sent
  <2>5. /\ start' = start /\ bal' = bal /\ unacked' = unacked /\ frozen' = frozen
        /\ frozen \in Nat /\ \A h \in Holders : bal[h] \in Nat /\ unacked[h] \in Nat
    BY <1>0, <2>1 DEF ledger, LedgerTypes, Amounts
  <2> QED
    BY <2>1, <2>2, <2>4, <2>5
<1>2. CASE Finish
  <2>1. PICK n \in Sent :
          /\ Sends!Finish(n) /\ UNCHANGED <<job, saved, past, body>>
          /\ IF chain'[n] = "success" THEN Possible(n) /\ Execute(n) ELSE UNCHANGED ledger
    BY <1>2 DEF Finish
  <2>2. /\ n \in Slots /\ answer' = answer /\ Sent' = Sent /\ Last' = Last
        /\ \A m \in Slots \ {n} : chain'[m] = chain[m]
        /\ chain[n] \notin Final /\ answer[n] # "ok"
    BY <1>0, <2>1, NodeStep
  <2>3. /\ start' = start
        /\ \A h \in Holders : /\ bal[h] \in Nat /\ bal'[h] \in Nat /\ bal[h] <= bal'[h]
                              /\ unacked[h] \in Nat /\ unacked'[h] \in Nat
                              /\ bal'[h] - bal[h] = unacked'[h] - unacked[h]
        /\ chain'[n] = "success" =>
              \A h \in Holders : bal'[h] = bal[h] + Given(n)[h]
                                 /\ unacked'[h] = unacked[h] + Given(n)[h]
        /\ frozen \in Nat /\ frozen' \in Nat /\ frozen' >= frozen
        /\ chain'[n] = "success" /\ body[n].op = "freeze" =>
              frozen' = frozen + body[n].by[Frozen]
    BY <2>1, FinishStep
  <2>4. \A m \in Sent \ {n} : chain'[m] = chain[m]
    BY <2>2 DEF Sent
  <2> QED
    BY <2>1, <2>2, <2>3, <2>4
<1> QED
  BY <1>1, <1>2

\* The job waits for the transaction it sent last, in the slot after the others.
LEMMA NextWaiting ==
  ASSUME IInv, [Next]_vars
  PROVE  Waiting'
<1>0. NodeTypes /\ Filled /\ Waiting /\ JobTypes /\ Last \in Nat /\ first \in Nat
  BY Prefix, PlanAssumption DEF IInv, JobTypes
<1>1. CASE Inward
  <2>1. Last' = Last /\ body' = body /\ answer' = answer
    BY <1>1, InwardStep DEF sends
  <2>2. CASE UNCHANGED vars
    BY <1>0, <2>1, <2>2 DEF Waiting, vars, job, past
  <2>3. CASE ~ UNCHANGED vars
    <3>1. pc' \notin Sending /\ (first' = first \/ first' = Last)
      BY <1>1, <2>3 DEF Inward, Start, CreateSkip, ReadBalance, ViewError, MintSkip,
         MintBegin, FreezeRead, FreezeSkip, Crash, Goto, Fail, Complete, End, past, Sending
    <3> QED
      BY <1>0, <2>1, <3>1 DEF Waiting, Sending
  <2> QED
    BY <2>2, <2>3
<1>2. CASE Asking
  <2>1. PICK op \in Stages, by \in Amounts :
          /\ [op |-> op, by |-> by] \in Op /\ Send(op, by)
          /\ CreateSend => op = "create"
          /\ MintSend => op = "mint" /\ by = diff
          /\ FreezeSend => op = "freeze" /\ by[Frozen] > 0
          /\ first' = first
    BY <1>2, AskingStep
  <2>2. /\ Last' = Last + 1 /\ body'[Last + 1] = [op |-> op, by |-> by]
        /\ answer'[Last + 1] = "none"
    BY <1>0, <2>1, SendStep
  <2>3. first' < Last'
    BY <1>0, <2>1, <2>2 DEF Waiting
  <2>4. /\ pc' = "mintSent" => op = "mint" /\ by = diff'
        /\ pc' = "createSent" => op = "create"
        /\ pc' = "freezeSent" => op = "freeze"
    BY <1>2, <2>1 DEF Asking, CreateSend, MintSend, FreezeSend, Goto
  <2>5. first' <= Last'
    BY <1>0, <2>1, <2>2, <2>3
  <2>6. answer'[Last'] = "none" /\ body'[Last'] = [op |-> op, by |-> by]
    BY <2>2
  <2>7. body'[Last'].op = op
    BY <2>6
  <2> QED
    BY <2>3, <2>4, <2>5, <2>6, <2>7 DEF Waiting
<1>3. CASE Answering
  <2>1. PICK a \in {"ok", "error", "errorWithHash"} : Answered(a)
    BY <1>3, AnsweringStep
  <2>2. pc \in Sending /\ pc' \notin Sending /\ first' = first
    BY <1>3, AnsweringStep
  <2>3. Last' = Last
    BY <1>0, <2>1, <2>2, AnswerStep
  <2> QED
    BY <1>0, <2>2, <2>3 DEF Waiting, Sending
<1>4. CASE Accept \/ Finish
  <2>1. UNCHANGED <<job, past, body, answer>> /\ Last' = Last
    BY <1>4, NodeKeeps
  <2> QED
    BY <1>0, <2>1 DEF Waiting, job, past
<1> QED
  BY <1>1, <1>2, <1>3, <1>4, Kinds

\* Balances only grow, so what was read stays covered.
LEMMA NextReads ==
  ASSUME IInv, [Next]_vars
  PROVE  Reads'
<1>0. /\ NodeTypes /\ Filled /\ Waiting /\ JobTypes /\ LedgerTypes /\ Reads
      /\ NodeTypes' /\ LedgerTypes'
      /\ \A h \in Holders : bal[h] \in Nat /\ bal'[h] \in Nat
  <2>1. NodeTypes' /\ LedgerTypes'
    BY NextNode
  <2> QED
    BY <2>1 DEF IInv, LedgerTypes, Amounts
<1>1. CASE Inward
  <2>1. Last' = Last /\ chain' = chain /\ bal' = bal
    BY <1>1, InwardStep DEF sends, ledger
  <2>2. CASE Start
    BY <1>0, <2>1, <2>2 DEF Start, Goto, Reads
  <2>3. CASE \E h \in Holders : ReadBalance(h)
    <3>1. PICK h \in Holders : /\ pc = "read" /\ pc' = pc
                               /\ have' = [have EXCEPT ![h] = bal[h]]
      BY <2>3 DEF ReadBalance
    <3>2. have'[h] = bal[h] /\ \A g \in Holders \ {h} : have'[g] = have[g]
      BY <1>0, <3>1 DEF JobTypes
    <3> QED
      BY <1>0, <2>1, <3>1, <3>2 DEF Reads
  <2>4. CASE MintBegin
    BY <1>0, <2>1, <2>4 DEF MintBegin, AllRead, Goto, Reads
  <2>5. CASE CreateSkip \/ MintSkip \/ FreezeRead
    BY <1>0, <2>1, <2>5 DEF CreateSkip, MintSkip, FreezeRead, Goto, Reads
  <2>6. CASE ViewError \/ FreezeSkip \/ Crash
    <3>1. pc' = "idle" /\ have' = Unread
      BY <2>6 DEF ViewError, FreezeSkip, Crash, Fail, Complete, End
    <3> QED
      BY <3>1 DEF Reads, Unread
  <2>7. CASE UNCHANGED vars
    BY <1>0, <2>1, <2>7 DEF vars, job, Reads
  <2> QED
    BY <1>1, <2>2, <2>3, <2>4, <2>5, <2>6, <2>7 DEF Inward
<1>2. CASE Asking
  <2>1. /\ have' = have /\ diff' = diff /\ bal' = bal
        /\ pc' \in Sending /\ (pc' = "mintSent" => pc = "mintTry")
        /\ pc \in {"create", "mintTry", "frozen"}
        /\ pc' = "createSent" => pc = "create"
    BY <1>2 DEF Asking, CreateSend, MintSend, FreezeSend, Goto, ledger, Sending
  <2>2. chain'[Last'] = "unknown"
    BY <1>0, <1>2, AskingStep, SendStep
  <2> QED
    BY <1>0, <2>1, <2>2 DEF Reads, Sending
<1>3. CASE Answering
  <2>1. bal' = bal
    BY <1>3, AnsweringStep
  <2>2. CASE CreateDone \/ MintDone \/ (MintError /\ ~ Fail)
    <3>1. /\ have' = have /\ diff' = diff
          /\ pc' \in {"read", "freeze", "mintTry"}
          /\ pc' = "mintTry" => pc = "mintSent"
      BY <2>2 DEF CreateDone, MintDone, MintError, Goto
    <3> QED
      BY <1>0, <2>1, <3>1 DEF Reads
  <2>3. CASE CreateError \/ FreezeDone \/ FreezeError \/ (MintError /\ Fail)
    <3>1. pc' = "idle" /\ have' = Unread
      BY <2>3 DEF CreateError, FreezeDone, FreezeError, Fail, Complete, End
    <3> QED
      BY <3>1 DEF Reads, Unread
  <2> QED
    BY <1>3, <2>2, <2>3 DEF Answering
<1>4. CASE Accept \/ Finish
  <2>1. /\ pc' = pc /\ have' = have /\ diff' = diff /\ Last' = Last
        /\ \A h \in Holders : bal[h] <= bal'[h]
    BY <1>4, NodeKeeps DEF job
  <2>2. \A h \in Holders : have'[h] # None => have'[h] <= bal'[h]
    <3> SUFFICES ASSUME NEW h \in Holders, have[h] # None PROVE have[h] <= bal'[h]
      BY <2>1
    <3>1. have[h] \in Nat /\ have[h] <= bal[h] /\ bal[h] <= bal'[h]
      BY <1>0, <2>1 DEF Reads, JobTypes
    <3> QED
      BY <1>0, <3>1
  <2>3. pc' = "mintSent" /\ chain'[Last'] = "success" =>
          \A h \in Holders : have'[h] + diff'[h] <= bal'[h]
    <3> SUFFICES ASSUME pc = "mintSent", chain'[Last] = "success", NEW h \in Holders
                 PROVE  have[h] + diff[h] <= bal'[h]
      BY <2>1
    <3>1. /\ have[h] \in Nat /\ diff[h] \in Nat /\ bal[h] \in Nat /\ bal'[h] \in Nat
          /\ have[h] <= bal[h] /\ bal[h] <= bal'[h]
      BY <1>0, <2>1 DEF Reads, JobTypes, Amounts
    <3>2. CASE chain[Last] = "success"
      BY <1>0, <3>1, <3>2 DEF Reads
    <3>3. CASE chain[Last] # "success"
      <4>1. Last \in Sent
        <5>1. first < Last /\ first \in Nat /\ Last \in Nat /\ Sent = 1..Last
          BY <1>0, Prefix, PlanAssumption DEF Waiting, Sending, JobTypes
        <5> QED
          BY <5>1
      <4>2. body[Last] = [op |-> "mint", by |-> diff]
        BY <1>0 DEF Waiting
      <4>3. Given(Last) = diff
        BY <4>2 DEF Given
      <4>4. bal'[h] = bal[h] + Given(Last)[h]
        BY <1>4, <3>3, <4>1, NodeKeeps
      <4> QED
        BY <3>1, <4>3, <4>4
    <3> QED
      BY <3>2, <3>3
  <2> QED
    BY <1>0, <2>1, <2>2, <2>3 DEF Reads
<1> QED
  BY <1>1, <1>2, <1>3, <1>4, Kinds

\* Until its answer a mint, and whatever came late in between, is unacknowledged.
LEMMA NextAhead ==
  ASSUME IInv, [Next]_vars
  PROVE  Ahead'
<1>0. /\ NodeTypes /\ Filled /\ Waiting /\ JobTypes /\ LedgerTypes /\ Reads /\ Ahead
      /\ \A h \in Holders : bal[h] \in Nat /\ unacked[h] \in Nat
  BY DEF IInv, LedgerTypes, Amounts
<1>1. CASE Inward
  <2>1. Last' = Last /\ chain' = chain /\ bal' = bal /\ unacked' = unacked
    BY <1>1, InwardStep DEF sends, ledger
  <2>2. CASE CreateSkip
    <3>1. have' = Unread /\ pc' = "read"
      BY <1>0, <2>2 DEF CreateSkip, Goto, Reads
    <3> QED
      BY <3>1 DEF Ahead, Unread
  <2>3. CASE \E h \in Holders : ReadBalance(h)
    <3>1. PICK h \in Holders : /\ pc = "read" /\ pc' = pc
                               /\ have' = [have EXCEPT ![h] = bal[h]]
      BY <2>3 DEF ReadBalance
    <3>2. have'[h] = bal[h] /\ \A g \in Holders \ {h} : have'[g] = have[g]
      BY <1>0, <3>1 DEF JobTypes
    <3>3. bal[h] <= bal[h] + unacked[h]
      BY <1>0
    <3> QED
      BY <1>0, <2>1, <3>1, <3>2, <3>3 DEF Ahead
  <2>4. CASE MintBegin
    BY <1>0, <2>1, <2>4 DEF MintBegin, AllRead, Goto, Ahead
  <2>5. CASE Start \/ ViewError \/ MintSkip \/ FreezeRead \/ FreezeSkip \/ Crash
    <3>1. pc' \in {"create", "idle", "freeze", "frozen"}
      BY <2>5 DEF Start, ViewError, MintSkip, FreezeRead, FreezeSkip, Crash, Goto, Fail,
         Complete, End
    <3> QED
      BY <3>1 DEF Ahead
  <2>6. CASE UNCHANGED vars
    BY <1>0, <2>1, <2>6 DEF vars, job, Ahead
  <2> QED
    BY <1>1, <2>2, <2>3, <2>4, <2>5, <2>6 DEF Inward
<1>2. CASE Asking
  <2>1. /\ have' = have /\ diff' = diff /\ bal' = bal /\ unacked' = unacked
        /\ pc' \in Sending /\ (pc' = "mintSent" => pc = "mintTry")
    BY <1>2 DEF Asking, CreateSend, MintSend, FreezeSend, Goto, ledger, Sending
  <2>2. chain'[Last'] = "unknown"
    BY <1>0, <1>2, AskingStep, SendStep
  <2> QED
    BY <1>0, <2>1, <2>2 DEF Ahead, Sending
<1>3. CASE Answering
  <2>1. bal' = bal
    BY <1>3, AnsweringStep
  <2>2. CASE CreateDone
    <3>1. have' = Unread /\ pc' = "read"
      BY <1>0, <2>2 DEF CreateDone, Goto, Reads
    <3> QED
      BY <3>1 DEF Ahead, Unread
  <2>3. CASE MintError /\ ~ Fail
    <3>1. have' = have /\ pc = "mintSent" /\ pc' = "mintTry"
      BY <2>3 DEF MintError, Goto
    <3>2. ~ MintDone
      BY <3>1 DEF MintDone, Goto
    <3>3. unacked' = unacked
      BY <1>3, <3>2, AnsweringStep
    <3> QED
      BY <1>0, <2>1, <3>1, <3>3 DEF Ahead
  <2>4. CASE CreateError \/ MintDone \/ FreezeDone \/ FreezeError \/ (MintError /\ Fail)
    <3>1. pc' \in {"idle", "freeze"}
      BY <2>4 DEF CreateError, MintDone, FreezeDone, FreezeError, Fail, Complete, End, Goto
    <3> QED
      BY <3>1 DEF Ahead
  <2> QED
    BY <1>3, <2>2, <2>3, <2>4 DEF Answering
<1>4. CASE Accept \/ Finish
  <2>1. /\ pc' = pc /\ have' = have /\ diff' = diff /\ Last' = Last
        /\ \A h \in Holders : /\ bal'[h] \in Nat /\ unacked'[h] \in Nat
                              /\ bal[h] <= bal'[h]
                              /\ bal'[h] - bal[h] = unacked'[h] - unacked[h]
    BY <1>4, NodeKeeps DEF job
  <2>2. ASSUME pc \in {"read", "mintTry", "mintSent"}, NEW h \in Holders, have[h] # None
        PROVE  bal'[h] <= have[h] + unacked'[h]
    <3>1. have[h] \in Nat /\ bal[h] <= have[h] + unacked[h]
      BY <1>0, <2>2 DEF Ahead, JobTypes
    <3> QED
      BY <1>0, <2>1, <3>1
  <2>3. ASSUME pc = "mintSent", chain'[Last] = "success", NEW h \in Holders
        PROVE  diff[h] <= unacked'[h]
    <3>1. diff[h] \in Nat
      BY <1>0 DEF JobTypes, Amounts
    <3>2. CASE chain[Last] = "success"
      <4>1. diff[h] <= unacked[h]
        BY <1>0, <2>3, <3>2 DEF Ahead
      <4> QED
        BY <1>0, <2>1, <3>1, <4>1
    <3>3. CASE chain[Last] # "success"
      <4>1. Last \in Sent
        <5>1. first < Last /\ first \in Nat /\ Last \in Nat /\ Sent = 1..Last
          BY <1>0, <2>3, Prefix, PlanAssumption DEF Waiting, Sending, JobTypes
        <5> QED
          BY <5>1
      <4>2. body[Last] = [op |-> "mint", by |-> diff]
        BY <1>0, <2>3 DEF Waiting
      <4>3. Given(Last) = diff
        BY <4>2 DEF Given
      <4>4. unacked'[h] = unacked[h] + Given(Last)[h]
        BY <1>4, <2>3, <3>3, <4>1, NodeKeeps
      <4> QED
        BY <1>0, <3>1, <4>3, <4>4
    <3> QED
      BY <3>2, <3>3
  <2> QED
    BY <2>1, <2>2, <2>3 DEF Ahead
<1> QED
  BY <1>1, <1>2, <1>3, <1>4, Kinds

\* What a mint that is answered for adds brings a holder to the plan, counted from
\* what it had when it was read.
LEMMA NextPlanned ==
  ASSUME IInv, [Next]_vars
  PROVE  MintedAsPlanned'
<1> SUFFICES ASSUME NEW h \in Holders
             PROVE  \/ bal'[h] <= Want[h] + unacked'[h]
                    \/ bal'[h] <= start'[h] + unacked'[h]
  BY DEF MintedAsPlanned
<1>0. /\ bal[h] \in Nat /\ unacked[h] \in Nat /\ Want[h] \in Nat /\ start[h] \in Nat
      /\ bal[h] <= Want[h] + unacked[h] \/ bal[h] <= start[h] + unacked[h]
  BY PlanAssumption DEF IInv, LedgerTypes, Amounts, MintedAsPlanned
<1>1. CASE UNCHANGED <<start, bal, unacked>>
  BY <1>0, <1>1
<1>2. CASE MintDone
  <2>1. /\ pc = "mintSent" /\ bal' = bal
        /\ unacked'[h] = IF chain[Last] = "success" THEN unacked[h] - body[Last].by[h]
                                                    ELSE unacked[h]
    BY <1>2 DEF MintDone
  <2>2. body[Last] = [op |-> "mint", by |-> diff]
    BY <2>1 DEF IInv, Waiting
  <2>3. /\ have[h] \in Nat /\ diff[h] = IF have[h] < Want[h] THEN Want[h] - have[h] ELSE 0
        /\ bal[h] <= have[h] + unacked[h]
    <3>1. have[h] # None /\ diff = Missing(have)
      BY <2>1 DEF IInv, Reads
    <3>2. bal[h] <= have[h] + unacked[h]
      BY <2>1, <3>1 DEF IInv, Ahead
    <3>3. have[h] \in Nat
      BY <3>1 DEF IInv, JobTypes
    <3> QED
      BY <3>1, <3>2, <3>3 DEF Missing
  <2>4. start' = start
    BY <1>2 DEF MintDone
  <2> QED
    BY <1>0, <2>1, <2>2, <2>3, <2>4
<1>3. CASE Accept \/ Finish
  <2>1. /\ start' = start /\ bal'[h] \in Nat /\ unacked'[h] \in Nat
        /\ bal'[h] - bal[h] = unacked'[h] - unacked[h]
    BY <1>3, NodeKeeps
  <2> QED
    BY <1>0, <2>1
<1>4. CASE Inward \/ Asking \/ (Answering /\ ~ MintDone)
  <2>1. CASE Inward
    BY <1>1, <2>1, InwardStep DEF ledger
  <2>2. CASE Asking
    BY <1>1, <2>2, AskingStep DEF ledger
  <2>3. CASE Answering /\ ~ MintDone
    BY <1>1, <2>3, AnsweringStep
  <2> QED
    BY <1>4, <2>1, <2>2, <2>3
<1> QED
  BY <1>2, <1>3, <1>4, Kinds

\* While the job is the last one, what it did stays done.
LEMMA FundsStay ==
  ASSUME IInv, [Next]_vars, Funds, first' = first
  PROVE  Funds'
<1>0. NodeTypes /\ Filled /\ Waiting /\ JobTypes /\ Want \in Amounts
  BY PlanAssumption DEF IInv, Amounts
<1> DEFINE Quiet(n) == n > first /\ body[n].op = "mint" /\ FailedQuietly(n)
<1>1. /\ \A h \in Holders : bal[h] \in Nat /\ bal'[h] \in Nat /\ bal[h] <= bal'[h]
      /\ \A n \in Sent : FailedQuietly(n) =>
           n \in Sent' /\ body'[n] = body[n] /\ FailedQuietly(n)'
  <2>0. /\ \A h \in Holders : bal[h] \in Nat
        /\ \A h \in Holders : bal[h] <= bal[h]
    BY DEF IInv, LedgerTypes, Amounts
  <2>1. CASE Inward
    <3>1. bal' = bal /\ body' = body /\ chain' = chain /\ answer' = answer /\ Sent' = Sent
      BY <2>1, InwardStep DEF sends, ledger
    <3> QED
      BY <2>0, <3>1 DEF FailedQuietly
  <2>2. CASE Asking
    <3>1. PICK op \in Stages, by \in Amounts :
            [op |-> op, by |-> by] \in Op /\ Send(op, by) /\ UNCHANGED ledger
      BY <2>2, AskingStep
    <3>2. /\ bal' = bal /\ chain' = chain /\ answer' = answer
          /\ \A n \in Sent : n \in Sent' /\ body'[n] = body[n]
      BY <1>0, <3>1, SendStep DEF ledger
    <3> QED
      BY <2>0, <3>2 DEF FailedQuietly
  <2>3. CASE Answering
    <3>1. PICK a \in {"ok", "error", "errorWithHash"} : Answered(a)
      BY <2>3, AnsweringStep
    <3>2. pc \in Sending /\ bal' = bal
      BY <2>3, AnsweringStep
    <3>3. /\ body' = body /\ chain' = chain /\ Sent' = Sent
          /\ \A n \in Slots \ {Last} : answer'[n] = answer[n]
      BY <1>0, <3>1, <3>2, AnswerStep
    <3>4. answer[Last] = "none" /\ Sent \subseteq Slots
      BY <1>0, <3>2 DEF Waiting, Sent
    <3> QED
      BY <2>0, <3>2, <3>3, <3>4 DEF FailedQuietly
  <2>4. CASE Accept \/ Finish
    <3>1. /\ body' = body /\ answer' = answer /\ Sent' = Sent
          /\ \A n \in Sent : chain[n] \in Final => chain'[n] = chain[n]
          /\ \A h \in Holders : bal[h] \in Nat /\ bal'[h] \in Nat /\ bal[h] <= bal'[h]
      BY <2>4, NodeKeeps
    <3> QED
      BY <3>1 DEF FailedQuietly, Final
  <2> QED
    BY <2>1, <2>2, <2>3, <2>4, Kinds
<1>2. CASE \A h \in Holders : bal[h] >= Want[h]
  <2>1. \A h \in Holders : Want[h] \in Nat
    BY <1>0 DEF Amounts
  <2>2. \A h \in Holders : bal'[h] >= Want[h]
    BY <1>1, <1>2, <2>1
  <2> QED
    BY <2>2 DEF Funds
<1>3. CASE \E n \in Sent : Quiet(n)
  <2>1. PICK n \in Sent : Quiet(n)
    BY <1>3
  <2>2. n \in Sent' /\ body'[n] = body[n] /\ FailedQuietly(n)'
    BY <1>1, <2>1
  <2> QED
    BY <2>1, <2>2 DEF Funds
<1> QED
  BY <1>2, <1>3 DEF Funds

\* A job completes only after its mint stage, which found nothing missing or was
\* answered for.
LEMMA NextFunded ==
  ASSUME IInv, [Next]_vars
  PROVE  Funded'
<1>0. NodeTypes /\ Filled /\ Waiting /\ JobTypes /\ Reads /\ Funded
      /\ \A h \in Holders : Want[h] \in Nat /\ bal[h] \in Nat
  BY PlanAssumption DEF IInv, LedgerTypes, Amounts
<1> DEFINE Minted == \/ pc \in {"freeze", "frozen", "freezeSent"}
                     \/ pc = "idle" /\ outcome = "completed"
<1>1. Minted' => MintSkip \/ MintDone \/ (Minted /\ first' = first)
  <2>1. CASE UNCHANGED vars \/ (\E h \in Holders : ReadBalance(h)) \/ Accept \/ Finish
    BY <2>1 DEF vars, job, past, ReadBalance, Accept, Finish
  <2>2. CASE Start \/ CreateSkip \/ CreateSend \/ CreateDone
    BY <2>2 DEF Start, CreateSkip, CreateSend, CreateDone, Goto
  <2>3. CASE MintBegin \/ MintSend
    BY <2>3 DEF MintBegin, MintSend, Goto
  <2>4. CASE MintError
    <3>1. pc' = "mintTry" \/ (pc' = "idle" /\ outcome' = "failed")
      BY <2>4 DEF MintError, Goto, Fail, End
    <3> QED
      BY <3>1
  <2>5. CASE CreateError \/ ViewError \/ FreezeError \/ Crash
    <3>1. pc' = "idle" /\ outcome' = "failed"
      BY <2>5 DEF CreateError, ViewError, FreezeError, Crash, Fail, End
    <3> QED
      BY <3>1
  <2>6. CASE FreezeRead \/ FreezeSkip \/ FreezeSend \/ FreezeDone
    <3>1. pc \in {"freeze", "frozen", "freezeSent"} /\ first' = first
      BY <2>6 DEF FreezeRead, FreezeSkip, FreezeSend, FreezeDone
    <3> QED
      BY <3>1
  <2> QED
    BY <2>1, <2>2, <2>3, <2>4, <2>5, <2>6 DEF Next, Job
<1>2. CASE MintSkip
  <2>1. /\ \A h \in Holders : have[h] # None
        /\ Missing(have) = Nothing /\ bal' = bal
    BY <1>2 DEF MintSkip, AllRead, ledger
  <2>2. have \in [Holders -> Nat]
    BY <1>0, <2>1, ReadInFull
  <2>3. \A h \in Holders : bal[h] >= Want[h]
    <3> SUFFICES ASSUME NEW h \in Holders PROVE bal[h] >= Want[h]
      OBVIOUS
    <3>1. /\ have[h] \in Nat /\ have[h] <= bal[h]
          /\ Missing(have)[h] = 0
      BY <1>0, <2>1, <2>2 DEF Reads, Nothing
    <3>2. Missing(have)[h] = IF have[h] < Want[h] THEN Want[h] - have[h] ELSE 0
      BY DEF Missing
    <3> QED
      BY <1>0, <3>1, <3>2
  <2> QED
    BY <2>1, <2>3 DEF Funded, Funds
<1>3. CASE MintDone
  <2>1. pc = "mintSent" /\ Answered("ok") /\ bal' = bal /\ first' = first
    BY <1>3 DEF MintDone
  <2>2. /\ Last \in Sent /\ Sent' = Sent /\ chain' = chain /\ body' = body
        /\ answer'[Last] = "ok" /\ chain[Last] \in Final
    BY <1>0, <2>1, AnswerStep DEF Sending
  <2>3. CASE chain[Last] = "success"
    <3>1. /\ \A h \in Holders : have[h] # None /\ have[h] + diff[h] <= bal[h]
          /\ diff = Missing(have)
      BY <1>0, <2>1, <2>3 DEF Reads
    <3>2. have \in [Holders -> Nat]
      BY <1>0, <3>1, ReadInFull
    <3>3. \A h \in Holders : bal[h] >= Want[h]
      <4> SUFFICES ASSUME NEW h \in Holders PROVE bal[h] >= Want[h]
        OBVIOUS
      <4>1. /\ have[h] \in Nat /\ have[h] + diff[h] <= bal[h]
            /\ diff[h] = IF have[h] < Want[h] THEN Want[h] - have[h] ELSE 0
        BY <3>1, <3>2 DEF Missing
      <4> QED
        BY <1>0, <4>1
    <3> QED
      BY <2>1, <3>3 DEF Funded, Funds
  <2>4. CASE chain[Last] # "success"
    <3>1. FailedQuietly(Last)'
      BY <2>2, <2>4, AnswerStep, <1>0, <2>1 DEF FailedQuietly, Final, Sending
    <3>2. Last > first
      BY <1>0, <2>1, Prefix, PlanAssumption DEF Waiting, Sending, JobTypes
    <3>3. body[Last].op = "mint" /\ Last' = Last
      BY <1>0, <2>1, <2>2 DEF Waiting, Last
    <3> QED
      BY <2>1, <2>2, <3>1, <3>2, <3>3 DEF Funded, Funds
  <2> QED
    BY <2>3, <2>4
<1>4. CASE Minted /\ first' = first
  <2>1. Funds
    BY <1>0, <1>4 DEF Funded
  <2> QED
    BY <1>4, <2>1, FundsStay DEF Funded
<1> QED
  BY <1>1, <1>2, <1>3, <1>4 DEF Funded

\* A freeze is sent only while nothing is frozen, so none was carried out before.
LEMMA NextOneFreeze ==
  ASSUME IInv, [Next]_vars
  PROVE  OneFreeze'
<1>0. /\ NodeTypes /\ Filled /\ Waiting /\ JobTypes /\ OneFreeze
      /\ frozen \in Nat
      /\ \A n \in Sent : n \in Slots /\ body[n] \in Op /\ body[n].by \in Amounts
      /\ \A n \in Sent : body[n].by[Frozen] \in Nat
  <2>1. \A n \in Sent : body[n] \in Op /\ body[n].by \in Amounts
    BY GivenType DEF IInv
  <2> QED
    BY <2>1, PlanAssumption DEF IInv, LedgerTypes, Sent, Amounts
<1>1. CASE Inward
  <2>1. UNCHANGED <<sends, ledger>> /\ Sent' = Sent
    BY <1>1, InwardStep
  <2>2. Freezes' = Freezes
    BY <2>1 DEF Freezes, sends
  <2>3. pc' = "freezeSent" => pc = "freezeSent"
    BY <1>1 DEF Inward, Start, CreateSkip, ReadBalance, ViewError, MintSkip, MintBegin,
       FreezeRead, FreezeSkip, Crash, Goto, Fail, Complete, End, vars, job
  <2> QED
    BY <1>0, <2>1, <2>2, <2>3 DEF OneFreeze, sends, ledger
<1>2. CASE Asking
  <2>1. PICK op \in Stages, by \in Amounts :
          /\ [op |-> op, by |-> by] \in Op /\ Send(op, by)
          /\ CreateSend => op = "create"
          /\ MintSend => op = "mint"
          /\ FreezeSend => op = "freeze" /\ by[Frozen] > 0
          /\ UNCHANGED ledger
    BY <1>2, AskingStep
  <2>2. /\ Sent' = Sent \union {Last + 1} /\ Last + 1 \notin Sent
        /\ body'[Last + 1] = [op |-> op, by |-> by]
        /\ \A n \in Sent : body'[n] = body[n]
        /\ chain' = chain /\ answer' = answer /\ frozen' = frozen
        /\ chain[Last + 1] = "unknown"
    BY <1>0, <2>1, SendStep DEF ledger
  <2>3. op = "freeze" => by[Frozen] > 0
    BY <1>2, <2>1 DEF Asking
  <2>4. Freezes' = Freezes
    BY <2>2 DEF Freezes
  <2>5. \A n \in Sent' : body'[n].op = "freeze" =>
          body'[n].by[Frozen] > 0 /\ (chain'[n] = "success" => frozen' > 0)
    <3>1. CASE \A n \in Sent : body[n].op = "freeze" =>
                 body[n].by[Frozen] > 0 /\ (chain[n] = "success" => frozen > 0)
      BY <2>2, <2>3, <3>1
    <3> QED
      BY <1>0, <3>1 DEF OneFreeze
  <2>6. pc' = "freezeSent" => Freezes = {}
    <3>1. pc' = "freezeSent" => FreezeSend
      BY <1>2 DEF Asking, CreateSend, MintSend, Goto
    <3>2. FreezeSend => frozen = 0
      BY DEF FreezeSend
    <3>3. frozen = 0 => Freezes = {}
      BY <1>0 DEF OneFreeze, Freezes
    <3> QED
      BY <3>1, <3>2, <3>3
  <2> QED
    BY <1>0, <2>4, <2>5, <2>6 DEF OneFreeze
<1>3. CASE Answering
  <2>1. PICK a \in {"ok", "error", "errorWithHash"} : Answered(a)
    BY <1>3, AnsweringStep
  <2>2. pc \in Sending /\ pc' \notin Sending /\ frozen' = frozen
    BY <1>3, AnsweringStep
  <2>3. /\ Last \in Sent /\ body' = body /\ chain' = chain /\ Sent' = Sent
        /\ \A n \in Slots \ {Last} : answer'[n] = answer[n]
    BY <1>0, <2>1, <2>2, AnswerStep
  <2>4. CASE pc = "freezeSent"
    <3>1. Freezes = {}
      BY <1>0, <2>4 DEF OneFreeze
    <3>2. Freezes' \subseteq {Last}
      BY <1>0, <2>3, <3>1 DEF Freezes
    <3> QED
      BY <1>0, <2>2, <2>3, <3>2 DEF OneFreeze, Sending
  <2>5. CASE pc # "freezeSent"
    <3>1. body[Last].op # "freeze"
      <4>1. CASE pc = "createSent"
        BY <1>0, <4>1 DEF Waiting
      <4>2. CASE pc = "mintSent"
        <5>1. body[Last] = [op |-> "mint", by |-> diff]
          BY <1>0, <4>2 DEF Waiting
        <5> QED
          BY <5>1
      <4> QED
        BY <2>2, <2>5, <4>1, <4>2 DEF Sending
    <3>2. Freezes' = Freezes
      BY <1>0, <2>3, <3>1 DEF Freezes
    <3> QED
      BY <1>0, <2>2, <2>3, <3>2 DEF OneFreeze, Sending
  <2> QED
    BY <2>4, <2>5
<1>4. CASE Accept \/ Finish
  <2>1. /\ pc' = pc /\ body' = body /\ answer' = answer /\ Sent' = Sent
        /\ frozen' \in Nat /\ frozen' >= frozen
        /\ \A n \in Sent :
             /\ chain[n] = "success" => chain'[n] = "success"
             /\ chain'[n] = "success" /\ chain[n] # "success" =>
                  /\ answer[n] # "ok"
                  /\ body[n].op = "freeze" => frozen' = frozen + body[n].by[Frozen]
    BY <1>4, NodeKeeps DEF job, Final
  <2>2. Freezes' = Freezes
    BY <2>1 DEF Freezes
  <2>3. ASSUME NEW n \in Sent, body[n].op = "freeze"
        PROVE  body[n].by[Frozen] > 0 /\ (chain'[n] = "success" => frozen' > 0)
    <3>1. body[n].by[Frozen] > 0 /\ (chain[n] = "success" => frozen > 0)
      BY <1>0, <2>3 DEF OneFreeze
    <3>2. CASE chain'[n] = "success" /\ chain[n] # "success"
      <4>1. frozen' = frozen + body[n].by[Frozen]
        BY <2>1, <2>3, <3>2
      <4> QED
        BY <1>0, <3>1, <4>1
    <3>3. CASE chain[n] = "success"
      BY <1>0, <2>1, <3>1, <3>3
    <3> QED
      BY <3>1, <3>2, <3>3
  <2> QED
    BY <1>0, <2>1, <2>2, <2>3 DEF OneFreeze
<1> QED
  BY <1>1, <1>2, <1>3, <1>4, Kinds

-----------------------------------------------------------------------------
(* The theorems. *)

\* At the start nothing was sent, read, minted or frozen.
LEMMA InitIInv == Init => IInv
<1> SUFFICES ASSUME Init PROVE IInv
  OBVIOUS
<1>1. Sent = {} /\ Last = 0
  BY FS_EmptySet DEF Init, Sent, Last
<1>2. JobTypes
  BY AmountTypes, PlanAssumption DEF Init, JobTypes, Unread, Sending
<1>3. NodeTypes
  BY DEF Init, Sends!Init, NodeTypes
<1>4. LedgerTypes
  <2>1. start \in Before /\ bal = start /\ frozen = 0 /\ unacked = Nothing
        /\ created \in BOOLEAN
    BY DEF Init
  <2> QED
    BY <2>1, AmountTypes, PlanAssumption DEF LedgerTypes, Amounts
<1>5. Filled
  <2>1. 0 \in 0..MaxSends /\ Sent = 1..0
    BY <1>1, PlanAssumption
  <2>2. \A n \in Slots : chain[n] = "unknown" /\ answer[n] = "none"
    BY DEF Init, Sends!Init
  <2> QED
    BY <2>1, <2>2 DEF Filled
<1>6. Waiting
  BY <1>1 DEF Init, Waiting, Sending
<1>7. Reads /\ Ahead
  BY DEF Init, Reads, Ahead, Unread
<1>8. Funded
  BY DEF Init, Funded
<1>9. MintedAsPlanned
  <2> SUFFICES ASSUME NEW h \in Holders PROVE bal[h] <= start[h] + unacked[h]
    BY DEF MintedAsPlanned
  <2>1. bal[h] = start[h] /\ unacked[h] = 0 /\ bal[h] \in Nat
    BY <1>4 DEF Init, Nothing, LedgerTypes, Amounts
  <2> QED
    BY <2>1
<1>10. OneFreeze
  BY <1>1 DEF Init, OneFreeze, Freezes
<1> QED
  BY <1>2, <1>3, <1>4, <1>5, <1>6, <1>7, <1>8, <1>9, <1>10 DEF IInv

LEMMA NextIInv == IInv /\ [Next]_vars => IInv'
<1> SUFFICES ASSUME IInv, [Next]_vars PROVE IInv'
  OBVIOUS
<1> QED
  BY NextJobTypes, NextNode, NextWaiting, NextReads, NextAhead, NextFunded, NextPlanned,
     NextOneFreeze DEF IInv

\* The conjunction of the named parts holds in every state of every behaviour.
THEOREM Inductive == Spec => []IInv
BY InitIInv, NextIInv, PTL DEF Spec

\* Every variable has its type, and the transactions sent are the first slots.
THEOREM TypeCorrect == Spec => []TypeOK
<1>1. IInv => TypeOK
  <2> SUFFICES ASSUME IInv PROVE TypeOK
    OBVIOUS
  <2>1. \A n \in Slots : body[n] # None => body[n].op \in Stages /\ body[n].by \in Amounts
    <3> SUFFICES ASSUME NEW n \in Slots, body[n] # None
                 PROVE  body[n].op \in Stages /\ body[n].by \in Amounts
      OBVIOUS
    <3>1. body[n] \in Op
      BY DEF IInv, NodeTypes
    <3> QED
      BY <3>1, AmountTypes DEF Op, Stages
  <2>2. \A n \in Slots : body[n] # None /\ n > 1 => body[n - 1] # None
    <3>1. PICK k \in 0..MaxSends : Sent = 1..k
      BY DEF IInv, Filled
    <3> QED
      BY <3>1, PlanAssumption DEF Sent, Slots
  <2> QED
    BY <2>1, <2>2 DEF IInv, JobTypes, LedgerTypes, TypeOK, Sending
<1> QED
  BY <1>1, Inductive, PTL

\* A job that completes leaves every planned holder with at least the planned
\* amount, also when an earlier job marked the stage without effect, unless the
\* chain failed a mint of this job and flowSendTx answered ok for it.
THEOREM CompletedFundsHolds == Spec => []CompletedFunds
<1>1. IInv => CompletedFunds
  BY DEF IInv, Funded, Funds, CompletedFunds
<1> QED
  BY <1>1, Inductive, PTL

\* A holder gets more than planned, or than it had before, only by mints that were
\* not answered for, whatever the order of reads, retries, crashes and restarts.
THEOREM MintedAsPlannedHolds == Spec => []MintedAsPlanned
<1>1. IInv => MintedAsPlanned
  BY DEF IInv
<1> QED
  BY <1>1, Inductive, PTL

\* However many jobs run, the demonstration freezes once, not counting
\* transactions whose answer was lost.
THEOREM FrozenOnceHolds == Spec => []FrozenOnce
<1>1. IInv => FrozenOnce
  <2> SUFFICES ASSUME IInv PROVE Cardinality(Freezes) <= 1
    BY DEF FrozenOnce, Freezes
  <2>1. CASE Freezes = {}
    BY <2>1, FS_EmptySet
  <2>2. CASE Freezes # {}
    <3>1. PICK n : Freezes = {n}
      BY <2>2 DEF IInv, OneFreeze
    <3>2. Cardinality(Freezes) = 1
      BY <3>1, FS_Singleton
    <3> QED
      BY <3>2
  <2> QED
    BY <2>1, <2>2
<1> QED
  BY <1>1, Inductive, PTL

-----------------------------------------------------------------------------
(* The composition with TxOutcome. *)

LEMMA NextSends == IInv /\ [Next]_vars => [Sends!Next]_(Sends!vars)
<1> SUFFICES ASSUME IInv, [Next]_vars PROVE [Sends!Next]_(Sends!vars)
  OBVIOUS
<1>1. CASE Inward
  BY <1>1, InwardStep DEF sends, Sends!vars
<1>2. CASE Asking
  <2>1. \E op \in Stages, by \in Amounts : Send(op, by)
    BY <1>2, AskingStep
  <2> QED
    BY <2>1 DEF Send, Sends!vars
<1>3. CASE Answering
  <2>1. PICK a \in {"ok", "error", "errorWithHash"} : Answered(a)
    BY <1>3, AnsweringStep
  <2>2. Last \in Slots
    BY <1>3, <2>1, AnsweringStep, AnswerStep DEF IInv
  <2>3. Sends!Answer(Last, a)
    BY <2>1 DEF Answered
  <2> QED
    BY <2>2, <2>3 DEF Sends!Next
<1>4. CASE Accept \/ Finish
  <2>1. \E n \in Slots : Sends!Accept(n) \/ Sends!Finish(n)
    BY <1>4 DEF Accept, Finish, Sent
  <2> QED
    BY <2>1 DEF Sends!Next
<1> QED
  BY <1>1, <1>2, <1>3, <1>4, Kinds

\* However jobs retry, end and are started again, what becomes of their
\* transactions is a behaviour of TxOutcome: every answer goes to a transaction
\* that was sent, and is the only one to it.
THEOREM SendsAreOutcomes == Spec => Sends!Spec
<1>1. Init => Sends!Init
  BY DEF Init
<1> QED
  BY <1>1, Inductive, NextSends, PTL DEF Spec, Sends!Spec

=============================================================================
