--------------------------- MODULE SubmissionProofs ---------------------------
(***************************************************************************)
(* Proofs about the parts of a submission.                                 *)
(*                                                                         *)
(* TxSubmit, for any set of transactions, any number of attempts and of    *)
(* polls.  IInv says of each transaction on its own how the client's state *)
(* agrees with the node's (Agreed) and what the first attempt tells        *)
(* (OneAttempt).                                                           *)
(*                                                                         *)
(* Signing, for any networks, keys, requests and bodies.  SigningIInv says *)
(* of each request how the signatures it has follow from its body and from *)
(* the lists it saw (Settled), and what is known of the role in turn       *)
(* (Asked).  Nothing is said of lists and cache beyond their types: a list *)
(* may be stale at any time, and the properties name that case.            *)
(*                                                                         *)
(* Varint, for every number and any width of a byte.  Its two functions    *)
(* are recursive: Iterates shows that such definitions have the value they *)
(* describe, and the theorems follow by looking at the least number for    *)
(* which they would fail.                                                  *)
(***************************************************************************)
EXTENDS Signing, TxSubmit, Varint, FiniteSetTheorems, TLAPS

-----------------------------------------------------------------------------
(* TxSubmit. *)

\* No retry exceeds maxRetries: a post is made only with an attempt left.
AttemptLeft(t) ==
    /\ pc[t] = "idle" => attempt[t] = 0
    /\ pc[t] = "post" => attempt[t] < MaxRetries
    /\ pc[t] = "sent" => attempt[t] > 0

\* A poll is started, and an answer "ok" waits, only for a transaction the
\* node accepted; what was returned agrees with the chain.
Agreed(t) ==
    /\ pc[t] = "poll" => chain[t] # "unknown"
    /\ reply[t] = "ok" => chain[t] # "unknown"
    /\ result[t] # "none" <=> pc[t] = "done"
    /\ result[t] = "ok" =>
          chain[t] \in (IF t \in Checked THEN {"success"} ELSE Final)
    /\ result[t] = "errorWithHash" => chain[t] # "unknown"

\* As long as only the first attempt was made, the client waits for the answer
\* to the one request the node may have received.
OneAttempt(t) ==
    /\ attempt[t] = 0 => /\ wire[t] = {}
                         /\ reply[t] = "none"
                         /\ chain[t] = "unknown"
    /\ pc[t] = "sent" /\ attempt[t] = 1 =>
          /\ wire[t] \subseteq {1}
          /\ reply[t] # "none" => wire[t] = {}
          /\ reply[t] # "ok" => chain[t] = "unknown"
    /\ result[t] = "rejected" /\ attempt[t] = 1 =>
          chain[t] = "unknown" /\ wire[t] = {}

Good(t) == AttemptLeft(t) /\ Agreed(t) /\ OneAttempt(t)

IInv == TypeOK /\ \A t \in Txs : Good(t)

-----------------------------------------------------------------------------
LEMMA InitIInv == Init => IInv
BY TxAssumption
DEF Init, IInv, TypeOK, Good, AttemptLeft, Agreed, OneAttempt, Replies,
    Results, Final, Attempts

LEMMA NextType == IInv /\ [Next]_vars => TypeOK'
<1> SUFFICES ASSUME IInv, [Next]_vars PROVE TypeOK'
  OBVIOUS
<1> USE TxAssumption
    DEF IInv, TypeOK, Replies, Results, Final, Attempts, clientVars, Return
<1>1. ASSUME NEW t \in Txs, Call(t) PROVE TypeOK'
  BY <1>1 DEF Call
<1>2. ASSUME NEW t \in Txs, Post(t) PROVE TypeOK'
  BY <1>2 DEF Post, Good, AttemptLeft
<1>3. ASSUME NEW t \in Txs, Response(t) PROVE TypeOK'
  BY <1>3 DEF Response
<1>4. ASSUME NEW t \in Txs, NetError(t) \/ BodyError(t) PROVE TypeOK'
  BY <1>4 DEF NetError, BodyError
<1>5. ASSUME NEW t \in Txs, PollFinal(t) \/ PollAgain(t) \/ Deadline(t)
      PROVE  TypeOK'
  BY <1>5 DEF PollFinal, PollAgain, Deadline
<1>6. ASSUME NEW t \in Txs, Node(t) PROVE TypeOK'
  BY <1>6 DEF Node, Lose, Receive, Execute
<1>7. CASE UNCHANGED vars
  BY <1>7 DEF vars
<1> HIDE DEF IInv, TypeOK
<1>8. QED
  BY <1>1, <1>2, <1>3, <1>4, <1>5, <1>6, <1>7 DEF Next, Client

\* A step of one transaction's call, or of the node on it, keeps that
\* transaction's part of the invariant and does not touch the others.
LEMMA StepGood ==
    ASSUME IInv, NEW t \in Txs, Call(t) \/ Client(t) \/ Node(t)
    PROVE  \A s \in Txs : Good(s)'
<1> USE TxAssumption
    DEF IInv, TypeOK, Replies, Results, Final, Attempts, clientVars, Return,
        Good, AttemptLeft, Agreed, OneAttempt
<1>1. CASE Call(t)
  BY <1>1 DEF Call
<1>2. CASE Post(t)
  BY <1>2 DEF Post
<1>3. CASE Response(t)
  BY <1>3 DEF Response
<1>4. CASE NetError(t) \/ BodyError(t)
  BY <1>4 DEF NetError, BodyError
<1>5. CASE PollFinal(t) \/ PollAgain(t) \/ Deadline(t)
  BY <1>5 DEF PollFinal, PollAgain, Deadline
<1>6. CASE Lose(t)
  BY <1>6 DEF Lose
<1>7. CASE Receive(t)
  <2>1. PICK i \in wire[t], r \in Replies \ {"none"} :
            /\ wire' = [wire EXCEPT ![t] = @ \ {i}]
            /\ r = "ok" =>
                  chain' = [chain EXCEPT ![t] = IF @ = "unknown" THEN "pending" ELSE @]
            /\ r # "ok" => UNCHANGED chain
            /\ reply' = IF pc[t] = "sent" /\ i = attempt[t]
                        THEN [reply EXCEPT ![t] = r] ELSE reply
            /\ UNCHANGED clientVars
    BY <1>7 DEF Receive
  <2>2. Good(t)'
    <3>1. CASE r = "ok"
      BY <2>1, <3>1
    <3>2. CASE r # "ok"
      BY <2>1, <3>2
    <3>3. QED
      BY <3>1, <3>2
  <2>3. ASSUME NEW s \in Txs, s # t PROVE Good(s)'
    BY <2>1, <2>3
  <2>4. QED
    BY <2>2, <2>3
<1>8. CASE Execute(t)
  BY <1>8 DEF Execute
<1>9. QED
  BY <1>1, <1>2, <1>3, <1>4, <1>5, <1>6, <1>7, <1>8 DEF Client, Node

LEMMA NextIInv == IInv /\ [Next]_vars => IInv'
<1> SUFFICES ASSUME IInv, [Next]_vars PROVE IInv'
  OBVIOUS
<1>1. CASE UNCHANGED vars
  BY <1>1
  DEF vars, clientVars, IInv, TypeOK, Good, AttemptLeft, Agreed, OneAttempt
<1>2. CASE Next
  <2>1. \A s \in Txs : Good(s)'
    BY <1>2, StepGood DEF Next
  <2>2. QED
    BY <2>1, NextType DEF IInv
<1>3. QED
  BY <1>1, <1>2

LEMMA Inductive == Spec => []IInv
BY InitIInv, NextIInv, PTL DEF Spec

-----------------------------------------------------------------------------
\* Every reachable state is well typed; in particular no POST is attempted more
\* than maxRetries times (TypeOK).
THEOREM TypeCorrect == Spec => []TypeOK
<1>1. IInv => TypeOK
  BY DEF IInv
<1>2. QED
  BY Inductive, <1>1, PTL

\* What flowSendTx and sftFlowSendWait return agrees with the chain: ok only
\* for a finished transaction (OkMeansFinal).
THEOREM OkIsFinal == Spec => []OkMeansFinal
<1>1. IInv => OkMeansFinal
  BY DEF IInv, Good, Agreed, OkMeansFinal, Final
<1>2. QED
  BY Inductive, <1>1, PTL

\* The hash is returned with an error only for an accepted transaction
\* (HashMeansAccepted).
THEOREM HashIsAccepted == Spec => []HashMeansAccepted
<1>1. IInv => HashMeansAccepted
  BY DEF IInv, Good, Agreed, HashMeansAccepted
<1>2. QED
  BY Inductive, <1>1, PTL

\* sftFlowSendWait returns ok only for a transaction that took effect
\* (CheckedOkMeansSuccess).
THEOREM CheckedOkIsSuccess == Spec => []CheckedOkMeansSuccess
<1>1. IInv => CheckedOkMeansSuccess
  BY TxAssumption DEF IInv, Good, Agreed, CheckedOkMeansSuccess
<1>2. QED
  BY Inductive, <1>1, PTL

\* A rejection of the first attempt is final (FirstRejectionIsFinal).
THEOREM FirstRejection == Spec => []FirstRejectionIsFinal
<1>1. IInv => FirstRejectionIsFinal
  BY DEF IInv, Good, OneAttempt, FirstRejectionIsFinal
<1>2. QED
  BY Inductive, <1>1, PTL

-----------------------------------------------------------------------------
\* Refinement.  The answer as TxOutcome sees it: the code of a rejection is
\* one more error.
Seen(r) == IF r = "rejected" THEN "error" ELSE r

LEMMA RefineReturn ==
    ASSUME IInv, NEW t \in Txs, NEW r \in Results \ {"none"},
           pc[t] # "done", result' = [result EXCEPT ![t] = r],
           UNCHANGED chain,
           r = "ok" => chain[t] \in Final,
           r = "errorWithHash" => chain[t] # "unknown"
    PROVE  Outcome!Next
<1> DEFINE answer == [u \in Txs |-> IF result[u] = "rejected" THEN "error"
                                    ELSE result[u]]
<1>1. result[t] = "none" /\ answer[t] = "none"
  BY DEF IInv, Good, Agreed
<1>2. answer' = [answer EXCEPT ![t] = Seen(r)]
  BY DEF IInv, TypeOK, Seen
<1>3. Outcome!Answer(t, Seen(r))
  BY <1>1, <1>2 DEF Outcome!Answer, Outcome!Final, Final, Seen
<1>4. Seen(r) \in {"ok", "error", "errorWithHash"}
  BY DEF Seen, Results
<1>5. QED
  BY <1>3, <1>4 DEF Outcome!Next

LEMMA RefineClient ==
    ASSUME IInv, NEW t \in Txs, Call(t) \/ Client(t)
    PROVE  Outcome!Next \/ UNCHANGED <<result, chain>>
<1> USE DEF Return, Results
<1>1. CASE Call(t) \/ Post(t) \/ PollAgain(t)
  BY <1>1 DEF Call, Post, PollAgain
<1>2. CASE Response(t)
  BY <1>2, RefineReturn DEF Response
<1>3. CASE NetError(t)
  BY <1>3, RefineReturn DEF NetError
<1>4. CASE BodyError(t)
  BY <1>4, RefineReturn DEF BodyError
<1>5. CASE PollFinal(t)
  BY <1>5, RefineReturn DEF PollFinal, Final
<1>6. CASE Deadline(t)
  BY <1>6, RefineReturn DEF Deadline, IInv, Good, Agreed
<1>7. QED
  BY <1>1, <1>2, <1>3, <1>4, <1>5, <1>6 DEF Client

LEMMA RefineNode ==
    ASSUME IInv, NEW t \in Txs, Node(t)
    PROVE  Outcome!Next \/ UNCHANGED <<result, chain>>
<1> USE DEF clientVars
<1>1. CASE Lose(t)
  BY <1>1 DEF Lose
<1>2. CASE Receive(t)
  <2>1. UNCHANGED result
    BY <1>2 DEF Receive
  <2>2. \/ UNCHANGED chain
        \/ chain' = [chain EXCEPT ![t] = IF @ = "unknown" THEN "pending" ELSE @]
    BY <1>2 DEF Receive
  <2>3. CASE chain[t] = "unknown"
    BY <2>1, <2>2, <2>3 DEF Outcome!Next, Outcome!Accept
  <2>4. CASE chain[t] # "unknown"
    BY <2>1, <2>2, <2>4 DEF IInv, TypeOK
  <2>5. QED
    BY <2>3, <2>4
<1>3. CASE Execute(t)
  BY <1>3 DEF Execute, Outcome!Next, Outcome!Finish, Outcome!Final, Final
<1>4. QED
  BY <1>1, <1>2, <1>3 DEF Node

\* The submission with its retries and the wait with its polls implement the
\* promise of TxOutcome (ImplementsOutcome).
THEOREM Refinement == Spec => ImplementsOutcome
<1>1. Init => Outcome!Init
  BY DEF Init, Outcome!Init
<1>2. IInv /\ [Next]_vars => [Outcome!Next]_(Outcome!vars)
  <2> SUFFICES ASSUME IInv, [Next]_vars
               PROVE  Outcome!Next \/ UNCHANGED Outcome!vars
    OBVIOUS
  <2>1. UNCHANGED <<result, chain>> => UNCHANGED Outcome!vars
    BY DEF Outcome!vars
  <2>2. CASE UNCHANGED vars
    BY <2>1, <2>2 DEF vars, clientVars
  <2>3. CASE Next
    BY <2>1, <2>3, RefineClient, RefineNode DEF Next
  <2>4. QED
    BY <2>2, <2>3
<1>3. QED
  BY <1>1, <1>2, Inductive, PTL DEF Spec, ImplementsOutcome, Outcome!Spec

-----------------------------------------------------------------------------
\* The safety half of CallReturns.  Budget(t) bounds the steps the client can
\* still take for t: two for every attempt left (the post and its end), one
\* for every poll left, and the return.
Active == {"post", "sent", "poll"}

Budget(t) ==
    CASE pc[t] = "post" -> 2 * (MaxRetries - attempt[t]) + MaxPolls + 2
      [] pc[t] = "sent" -> 2 * (MaxRetries - attempt[t]) + MaxPolls + 3
      [] pc[t] = "poll" -> MaxPolls - polls[t] + 1
      [] OTHER -> 0

\* While a call runs nothing gives it more steps, neither the network and the
\* node nor the other calls, and every step of its own uses one up.
BudgetSpent ==
    \A t \in Txs :
        /\ Budget(t) \in Nat
        /\ pc[t] \in Active => /\ Budget(t)' <= Budget(t)
                               /\ Client(t) => Budget(t)' < Budget(t)

\* A call starts with two steps for each of maxRetries, one for each poll, and
\* two more.
Started ==
    \A t \in Txs :
        pc[t] = "idle" /\ pc'[t] # "idle" =>
            Budget(t)' = 2 * MaxRetries + MaxPolls + 2

LEMMA BudgetNat ==
    ASSUME IInv, NEW t \in Txs
    PROVE  Budget(t) \in Nat
<1>1. /\ MaxRetries \in Nat /\ MaxPolls \in Nat
      /\ attempt[t] \in 0..MaxRetries /\ polls[t] \in 0..MaxPolls
  BY TxAssumption DEF IInv, TypeOK
<1>2. QED
  BY <1>1 DEF Budget

\* The retries and polls of t's own client.
LEMMA ClientSpends ==
    ASSUME IInv, NEW t \in Txs, Client(t), pc[t] \in Active
    PROVE  Budget(t)' < Budget(t)
<1>1. /\ MaxRetries \in Nat /\ MaxPolls \in Nat
      /\ attempt[t] \in 0..MaxRetries /\ polls[t] \in 0..MaxPolls
      /\ pc[t] = "post" => attempt[t] < MaxRetries
  BY TxAssumption DEF IInv, TypeOK, Good, AttemptLeft
<1>2. /\ DOMAIN pc = Txs /\ DOMAIN attempt = Txs /\ DOMAIN polls = Txs
      /\ pc = [s \in Txs |-> pc[s]]
      /\ attempt = [s \in Txs |-> attempt[s]]
      /\ polls = [s \in Txs |-> polls[s]]
  BY DEF IInv, TypeOK
<1>3. CASE Post(t)
  BY <1>1, <1>2, <1>3 DEF Post, Budget
<1>4. ASSUME Response(t) \/ NetError(t) \/ BodyError(t)
      PROVE  Budget(t)' < Budget(t)
  <2>1. /\ pc[t] = "sent" /\ pc'[t] \in {"post", "poll", "done"}
        /\ UNCHANGED <<attempt, polls>>
    BY <1>2, <1>4 DEF Response, NetError, BodyError, Return
  <2>2. QED
    BY <1>1, <2>1 DEF Budget
<1>5. ASSUME PollFinal(t) \/ Deadline(t)
      PROVE  Budget(t)' < Budget(t)
  <2>1. pc[t] = "poll" /\ pc'[t] = "done"
    BY <1>2, <1>5 DEF PollFinal, Deadline, Return
  <2>2. QED
    BY <1>1, <2>1 DEF Budget
<1>6. CASE PollAgain(t)
  BY <1>1, <1>2, <1>6 DEF PollAgain, Budget
<1>7. QED
  BY <1>3, <1>4, <1>5, <1>6 DEF Client

\* A step of another call, and every step of the node, leaves the budget.
LEMMA OthersLeave ==
    ASSUME IInv, NEW t \in Txs, NEW s \in Txs,
           Call(s) \/ Client(s) \/ Node(s), s # t \/ Node(s)
    PROVE  Budget(t)' = Budget(t)
<1>1. pc'[t] = pc[t] /\ attempt'[t] = attempt[t] /\ polls'[t] = polls[t]
  <2> USE DEF IInv, TypeOK, clientVars, Return
  <2>1. CASE Node(s)
    BY <2>1 DEF Node, Lose, Receive, Execute
  <2>2. CASE s # t /\ (Call(s) \/ Post(s) \/ Response(s))
    BY <2>2 DEF Call, Post, Response
  <2>3. CASE s # t /\ (NetError(s) \/ BodyError(s))
    BY <2>3 DEF NetError, BodyError
  <2>4. CASE s # t /\ (PollFinal(s) \/ PollAgain(s) \/ Deadline(s))
    BY <2>4 DEF PollFinal, PollAgain, Deadline
  <2>5. QED
    BY <2>1, <2>2, <2>3, <2>4 DEF Client
<1>2. QED
  BY <1>1 DEF Budget

\* A call takes at most 2 * maxRetries + pollTimeout / pollPeriod + 2 steps of
\* its own, whatever is lost, late or answered meanwhile (BudgetSpent,
\* Started): with a client that keeps running it returns, which is CallReturns.
THEOREM CallsAreBounded == Spec => [][BudgetSpent /\ Started]_vars
<1>1. IInv /\ [Next]_vars => [BudgetSpent /\ Started]_vars
  <2> SUFFICES ASSUME IInv, Next PROVE BudgetSpent /\ Started
    OBVIOUS
  <2>1. PICK s \in Txs : Call(s) \/ Client(s) \/ Node(s)
    BY DEF Next
  <2>2. ASSUME NEW t \in Txs, pc[t] \in Active PROVE Budget(t)' <= Budget(t)
    <3>1. Budget(t) \in Nat
      BY BudgetNat
    <3>2. Budget(t)' \in Nat
      <4>1. IInv'
        BY NextIInv
      <4>2. /\ MaxRetries \in Nat /\ MaxPolls \in Nat
            /\ attempt'[t] \in 0..MaxRetries /\ polls'[t] \in 0..MaxPolls
        BY <4>1, TxAssumption DEF IInv, TypeOK
      <4>3. QED
        BY <4>2 DEF Budget
    <3>3. CASE s # t \/ Node(s)
      BY <2>1, <3>1, <3>3, OthersLeave
    <3>4. CASE Call(t)
      BY <2>2, <3>4 DEF Call, Active
    <3>5. CASE Client(t)
      BY <2>2, <3>1, <3>2, <3>5, ClientSpends
    <3>6. QED
      BY <2>1, <3>3, <3>4, <3>5
  <2>3. BudgetSpent
    BY <2>2, BudgetNat, ClientSpends DEF BudgetSpent
  <2>4. ASSUME NEW t \in Txs, pc[t] = "idle", pc'[t] # "idle"
        PROVE  Budget(t)' = 2 * MaxRetries + MaxPolls + 2
    <3>1. s = t /\ ~Node(s)
      <4> USE DEF IInv, TypeOK, clientVars, Return
      <4>1. ~Node(s)
        BY <2>4 DEF Node, Lose, Receive, Execute
      <4>2. CASE Call(s)
        BY <2>4, <4>1, <4>2 DEF Call
      <4>3. CASE Post(s) \/ Response(s)
        BY <2>4, <4>1, <4>3 DEF Post, Response
      <4>4. CASE NetError(s) \/ BodyError(s)
        BY <2>4, <4>1, <4>4 DEF NetError, BodyError
      <4>5. CASE PollFinal(s) \/ PollAgain(s) \/ Deadline(s)
        BY <2>4, <4>1, <4>5 DEF PollFinal, PollAgain, Deadline
      <4>6. QED
        BY <2>1, <4>1, <4>2, <4>3, <4>4, <4>5 DEF Client
    <3>2. Call(t)
      BY <2>1, <2>4, <3>1
      DEF Client, Post, Response, NetError, BodyError, PollFinal, PollAgain,
          Deadline
    <3>3. pc'[t] = "post" /\ attempt'[t] = 0
      BY <2>4, <3>2 DEF Call, IInv, TypeOK, Good, AttemptLeft
    <3>4. QED
      BY <3>3, TxAssumption DEF Budget
  <2>5. QED
    BY <2>3, <2>4 DEF Started
<1>2. QED
  BY <1>1, Inductive, PTL DEF Spec

-----------------------------------------------------------------------------
(* Signing: lists of signers. *)

LEMMA ListIs ==
  ASSUME NEW l \in Lists
  PROVE  /\ l \in Seq(Keys) /\ Len(l) \in Nat /\ DOMAIN l = 1..Len(l)
         /\ \A i, j \in 1..Len(l) : l[i] = l[j] => i = j
<1>1. PICK n \in 0..MaxSigners : l \in [1..n -> Keys] /\ \A i, j \in 1..n : i # j => l[i] # l[j]
  BY DEF Lists
<1>2. n \in Nat
  BY <1>1, BoundAssumption
<1>3. l \in Seq(Keys) /\ Len(l) = n
  BY <1>1, <1>2
<1> QED
  BY <1>1, <1>2, <1>3

LEMMA ShortLists ==
  /\ <<>> \in Lists
  /\ \A a \in Keys : <<a>> \in Lists
<1>1. 0 \in 0..MaxSigners /\ 1 \in 0..MaxSigners
  BY BoundAssumption
<1>2. <<>> \in [1..0 -> Keys] /\ \A i, j \in 1..0 : i # j => <<>>[i] # <<>>[j]
  OBVIOUS
<1>3. ASSUME NEW a \in Keys
      PROVE  <<a>> \in [1..1 -> Keys] /\ \A i, j \in 1..1 : i # j => <<a>>[i] # <<a>>[j]
  BY <1>3
<1>4. ASSUME NEW n \in 0..MaxSigners, NEW l \in [1..n -> Keys],
             \A i, j \in 1..n : i # j => l[i] # l[j]
      PROVE  l \in Lists
  BY <1>4 DEF Lists
<1> QED
  BY <1>1, <1>2, <1>3, <1>4

\* The slot of a key is where the list has it.
LEMMA SlotIs ==
  ASSUME NEW l \in Lists, NEW i \in DOMAIN l
  PROVE  SlotOf(l[i], l) = i - 1
<1>1. /\ DOMAIN l = 1..Len(l) /\ Len(l) \in Nat
      /\ \A m, j \in 1..Len(l) : l[m] = l[j] => m = j
  BY ListIs
<1>2. {m \in DOMAIN l : l[m] = l[i]} = {i}
  BY <1>1
<1>3. i \in Nat
  BY <1>1
<1>4. Min({i}) = i
  BY <1>3 DEF Min
<1> QED
  BY <1>2, <1>4 DEF SlotOf

-----------------------------------------------------------------------------
(* Signing: decisions. *)

Reasons == {"keyRequired", "notListed", "modeRequired", "chooseSlot", "range"}
Answers == Reasons \union
  {"none", "badRequest", "badSigners", "simulate_failed", "noAddress", "build", "error",
   "simulated", "ok", "rejected"}

Modes == [type : {"pubkey"}, pk : Keys] \union [type : {"multisig"}, slot : Nat]
Errors == [type : {"error"}, why : Reasons]
Sigs == [addr : Keys, mode : Modes, seen : SUBSET Lists]

LEMMA ErrorIs == \A why \in Reasons : Error(why) \in Errors
BY DEF Error, Errors

LEMMA KindOf ==
  /\ \A m \in Errors : m.type = "error" /\ m.why \in Reasons
  /\ \A m \in Modes : m.type # "error" /\ m.type # "none"
  /\ \A m \in Modes : m.type = "pubkey" => m.pk \in Keys
  /\ \A m \in Modes : m.type = "multisig" => m.slot \in Nat
  /\ \A k \in Keys : PubKey(k) \in Modes /\ PubKey(k).type = "pubkey" /\ PubKey(k).pk = k
  /\ \A i \in Nat : Multisig(i) \in Modes /\ Multisig(i).type = "multisig" /\ Multisig(i).slot = i
  /\ Absent.type = "none"
BY DEF Errors, Modes, PubKey, Multisig, Absent

LEMMA DecideIs ==
  ASSUME NEW mode \in Modes \union {Absent}, NEW list \in Lists
  PROVE  /\ Decide(mode, list) \in Modes \union Errors
         /\ mode.type = "none" /\ Decide(mode, list).type # "error" =>
              Decide(mode, list) = Multisig(0) /\ Len(list) = 1
         /\ mode.type = "pubkey" /\ Decide(mode, list).type # "error" =>
              \/ list = <<>> /\ Decide(mode, list) = mode
              \/ \E i \in DOMAIN list : list[i] = mode.pk /\ Decide(mode, list) = Multisig(i - 1)
         /\ mode.type = "multisig" /\ Decide(mode, list).type # "error" =>
              Decide(mode, list) = mode
<1>1. DOMAIN list = 1..Len(list) /\ Len(list) \in Nat
  BY ListIs
<1>2. \A i \in DOMAIN list : i - 1 \in Nat
  BY <1>1
<1>3. mode \in Modes \/ mode.type = "none"
  BY KindOf
<1>4. CASE mode.type = "multisig"
  <2>1. Decide(mode, list) = IF list # <<>> /\ mode.slot >= Len(list) THEN Error("range")
                             ELSE mode
    BY <1>4 DEF Decide
  <2>2. Error("range") \in Errors
    BY ErrorIs DEF Reasons
  <2> QED
    BY <1>3, <1>4, <2>1, <2>2, KindOf
<1>5. CASE mode.type = "pubkey"
  <2>1. Decide(mode, list) =
          IF list = <<>> THEN mode
          ELSE IF \E i \in DOMAIN list : list[i] = mode.pk
               THEN Multisig(SlotOf(mode.pk, list)) ELSE Error("notListed")
    BY <1>5 DEF Decide
  <2>2. mode \in Modes
    BY <1>3, <1>5
  <2>3. CASE list = <<>>
    BY <1>5, <2>1, <2>2, <2>3
  <2>4. CASE list # <<>> /\ \E i \in DOMAIN list : list[i] = mode.pk
    <3>1. PICK i \in DOMAIN list : list[i] = mode.pk
      BY <2>4
    <3>2. Decide(mode, list) = Multisig(i - 1)
      BY <2>1, <2>4, <3>1, SlotIs
    <3> QED
      BY <1>2, <1>5, <3>1, <3>2, KindOf
  <2>5. CASE list # <<>> /\ ~ \E i \in DOMAIN list : list[i] = mode.pk
    <3>1. Decide(mode, list) \in Errors
      BY <2>1, <2>5, ErrorIs DEF Reasons
    <3> QED
      BY <1>5, <3>1, KindOf
  <2> QED
    BY <2>3, <2>4, <2>5
<1>6. CASE mode.type = "none"
  <2>1. Decide(mode, list) =
          IF list = <<>> THEN Error("modeRequired")
          ELSE IF Len(list) = 1 THEN Multisig(0) ELSE Error("chooseSlot")
    BY <1>6 DEF Decide
  <2>2. Error("modeRequired") \in Errors /\ Error("chooseSlot") \in Errors
    BY ErrorIs DEF Reasons
  <2>3. CASE list # <<>> /\ Len(list) = 1
    BY <1>6, <2>1, <2>3, KindOf
  <2>4. CASE ~ (list # <<>> /\ Len(list) = 1)
    <3>1. Decide(mode, list) \in Errors
      BY <2>1, <2>2, <2>4
    <3> QED
      BY <1>6, <3>1, KindOf
  <2> QED
    BY <2>3, <2>4
<1>7. mode.type \in {"multisig", "pubkey", "none"}
  BY DEF Modes, Absent
<1> QED
  BY <1>4, <1>5, <1>6, <1>7

\* What the body says of a role depends on the body and on the phase alone.
Given(b, phase, role) == GivenMode([body |-> b, phase |-> phase], role)

LEMMA GivenIs ==
  ASSUME NEW q, NEW role
  PROVE  GivenMode(q, role) = Given(q.body, q.phase, role)
BY DEF GivenMode, Given, Held, Listed

LEMMA GivenTypes ==
  ASSUME NEW b \in Body, NEW phase \in {"try", "send"}, NEW role \in Role
  PROVE  /\ Given(b, phase, role) \in Modes \union {Absent} \union Errors
         /\ phase = "send" /\ Given(b, phase, role).type # "error" =>
              role.key \in Keys /\ Given(b, phase, role).type # "none"
<1>1. /\ role.pk \in Keys \union {None} /\ role.key \in Keys \union {None}
      /\ role.type \in {"none", "pubkey", "multisig"} /\ role.index \in Nat
  BY DEF Role
<1>2. role.index % Wrap \in Nat
  <2>1. Wrap \in Nat /\ Wrap > 0
    BY BoundAssumption
  <2> QED
    BY <1>1, <2>1
<1> DEFINE q == [body |-> b, phase |-> phase]
           key == First(role.pk, Held(q, role))
<1>3. key \in Keys \union {None} /\ (phase = "send" /\ role.key # None => key # None)
  BY <1>1 DEF First, Held
<1>4. Given(b, phase, role) =
        IF phase = "send" /\ role.key = None THEN Error("keyRequired")
        ELSE IF role.type = "multisig" THEN Multisig(role.index % Wrap)
        ELSE IF key # None THEN PubKey(key)
        ELSE IF role.type = "none" THEN Absent ELSE Error("keyRequired")
  BY DEF Given, GivenMode
<1> HIDE DEF key
<1>5. Error("keyRequired") \in Errors
  BY ErrorIs DEF Reasons
<1>6. Multisig(role.index % Wrap) \in Modes /\ (key # None => PubKey(key) \in Modes)
  BY <1>2, <1>3, KindOf
<1>7. Given(b, phase, role) \in Modes \union {Absent} \union Errors
  BY <1>4, <1>5, <1>6
<1>8. ASSUME phase = "send", Given(b, phase, role).type # "error"
      PROVE  role.key \in Keys /\ Given(b, phase, role).type # "none"
  <2>1. role.key \in Keys
    BY <1>1, <1>4, <1>5, <1>8, KindOf
  <2>2. role.key # None
    BY <2>1, BoundAssumption
  <2>3. Given(b, phase, role) \in Modes
    BY <1>3, <1>4, <1>6, <1>8, <2>2
  <2> QED
    BY <2>1, <2>3, KindOf
<1> QED
  BY <1>7, <1>8
-----------------------------------------------------------------------------
(* Signing: requests. *)

Queries == [pc : {"idle", "look", "fetch", "store", "ready", "done"},
            body : Body \union {None}, net : Nets \union {None},
            phase : {"none", "try", "send"}, mode : Modes \union {Absent}, read : Lists,
            seen : SUBSET Lists, got : Seq(Sigs), dry : Seq(Sigs), answer : Answers]

\* A signature is what became of the mode the body gives and of the lists seen:
\* a mode that is given is decided on one list, one that is left open is slot 0
\* of an account that was seen with one signer.
Settled(given, s) ==
  /\ given.type # "error" /\ IsFiniteSet(s.seen)
  /\ given.type = "none" => s.mode = Multisig(0) /\ \E l \in s.seen : Len(l) = 1
  /\ given.type # "none" => \E l \in Lists : s.seen = {l} /\ s.mode = Decide(given, l)

\* The signatures of the first roles of a body.
Signed(b, phase, sigs) ==
  /\ Len(sigs) <= Len(b.roles)
  /\ \A i \in DOMAIN sigs : Settled(Given(b, phase, b.roles[i]), sigs[i])

\* A request that has signatures to its name: those of this phase so far, and for
\* write-safe those of the simulation, all of them, once it submits.
Open(q) ==
  /\ q.body \in Body /\ q.net \in Nets /\ q.phase \in {"try", "send"}
  /\ Signed(q.body, q.phase, q.got)
  /\ q.phase = "send" /\ q.body.endpoint = "safe" =>
       Len(q.dry) = Len(q.body.roles) /\ Signed(q.body, "try", q.dry)

\* The mode of the role in turn: as it was given, or slot 0 after the first
\* lookup when it was left open.
Asked(q) ==
  LET given == Given(q.body, q.phase, Turn(q))
  IN  /\ given.type # "error" /\ Account(q) \in Keys /\ Len(q.got) < Len(q.body.roles)
      /\ \/ q.mode = given /\ q.seen = {}
         \/ /\ given.type = "none" /\ q.mode = Multisig(0)
            /\ \E l \in Lists : Len(l) = 1 /\ q.seen = {l}

InTurn == {"look", "fetch", "store"}

Followed(q) ==
  /\ q.pc \in InTurn \union {"ready"} => Open(q)
  /\ q.pc \in InTurn => Asked(q)
  /\ q.pc = "store" => q.read # <<>>
  /\ q.pc = "ready" => Len(q.got) = Len(q.body.roles)
  /\ q.pc \in {"idle", "done"} => q.phase = "none"

GoodRequest(q) == q \in Queries /\ Followed(q)

LEMMA IdleIsGood == GoodRequest(Idle)
<1>1. <<>> \in Lists /\ <<>> \in Seq(Sigs)
  BY ShortLists
<1>2. Idle \in Queries
  BY <1>1 DEF Idle, Queries, Answers
<1>3. Idle.pc = "idle" /\ Idle.phase = "none"
  BY DEF Idle
<1> QED
  BY <1>2, <1>3 DEF GoodRequest, Followed, InTurn

LEMMA AnsweredIsGood ==
  ASSUME NEW how \in Answers
  PROVE  GoodRequest(Answered(how))
<1>1. <<>> \in Lists /\ <<>> \in Seq(Sigs)
  BY ShortLists
<1>2. Answered(how) \in Queries
  BY <1>1 DEF Answered, Idle, Queries
<1>3. Answered(how).pc = "done" /\ Answered(how).phase = "none"
  BY DEF Answered, Idle
<1> QED
  BY <1>2, <1>3 DEF GoodRequest, Followed, InTurn

LEMMA RefusedIsGood ==
  ASSUME NEW q, NEW why \in Answers
  PROVE  GoodRequest(Refused(q, why))
<1>1. "simulate_failed" \in Answers
  BY DEF Answers
<1> QED
  BY <1>1, AnsweredIsGood DEF Refused

\* Whose turn it is depends on the body, the phase and the signatures alone.
LEMMA SameTurn ==
  ASSUME NEW p, NEW q, p.body = q.body, p.phase = q.phase, p.got = q.got
  PROVE  Turn(p) = Turn(q) /\ Account(p) = Account(q)
BY DEF Account, AddressOf, Turn, Roles, Held, Listed

LEMMA RolesAre ==
  ASSUME NEW b \in Body
  PROVE  /\ b.roles \in Seq(Role) /\ Len(b.roles) \in Nat
         /\ \A i \in 1..Len(b.roles) : b.roles[i] \in Role
<1>1. b.roles \in Seq(Role)
  BY DEF Body
<1> QED
  BY <1>1

LEMMA TurnIs ==
  ASSUME NEW q \in Queries, q.body \in Body, Len(q.got) < Len(q.body.roles)
  PROVE  Turn(q) = q.body.roles[Len(q.got) + 1] /\ Turn(q) \in Role
<1>1. Len(q.got) \in Nat
  BY DEF Queries
<1>2. Len(q.got) + 1 \in 1..Len(q.body.roles)
  BY <1>1, RolesAre
<1> QED
  BY <1>2, RolesAre DEF Turn, Roles

LEMMA AddressIs ==
  ASSUME NEW q, NEW role \in Role
  PROVE  AddressOf(q, role) \in Keys \union {None}
<1>1. /\ role.addr \in Keys \union {None} /\ role.pk \in Keys \union {None}
      /\ role.key \in Keys \union {None}
  BY DEF Role
<1> QED
  BY <1>1 DEF AddressOf, First, Held

LEMMA ProceedIsGood ==
  ASSUME NEW q \in Queries, Open(q)
  PROVE  GoodRequest(Proceed(q))
<1>1. q.body \in Body /\ q.phase \in {"try", "send"} /\ Len(q.got) <= Len(q.body.roles)
  BY DEF Open, Signed
<1>2. Len(q.got) \in Nat /\ Len(q.body.roles) \in Nat
  BY <1>1, RolesAre DEF Queries
<1>3. CASE Len(q.got) = Len(q.body.roles)
  <2> DEFINE p == [q EXCEPT !.pc = "ready"]
  <2>1. Proceed(q) = p
    BY <1>3 DEF Proceed, Roles
  <2>2. /\ p \in Queries /\ p.pc = "ready" /\ p.body = q.body /\ p.net = q.net
        /\ p.phase = q.phase /\ p.got = q.got /\ p.dry = q.dry
    BY DEF Queries
  <2> HIDE DEF p
  <2>3. Open(p)
    BY <2>2 DEF Open
  <2> QED
    BY <1>3, <2>1, <2>2, <2>3 DEF GoodRequest, Followed, InTurn
<1>4. CASE Len(q.got) # Len(q.body.roles)
  <2> DEFINE mode == GivenMode(q, Turn(q))
             p == [q EXCEPT !.pc = "look", !.mode = mode, !.read = <<>>, !.seen = {}]
  <2>1. Len(q.got) < Len(q.body.roles)
    BY <1>1, <1>2, <1>4
  <2>2. Turn(q) \in Role
    BY <1>1, <2>1, TurnIs
  <2>3. mode = Given(q.body, q.phase, Turn(q))
    BY GivenIs
  <2>4. mode \in Modes \union {Absent} \union Errors
    BY <1>1, <2>2, <2>3, GivenTypes
  <2>5. Account(q) \in Keys \union {None}
    BY <2>2, AddressIs DEF Account
  <2>6. Proceed(q) = IF Account(q) = None THEN Refused(q, "noAddress")
                     ELSE IF mode.type = "error" THEN Refused(q, mode.why) ELSE p
    BY <1>4 DEF Proceed, Roles
  <2> HIDE DEF mode
  <2>7. CASE Account(q) = None
    <3>1. "noAddress" \in Answers
      BY DEF Answers
    <3> QED
      BY <2>6, <2>7, <3>1, RefusedIsGood
  <2>8. CASE Account(q) # None /\ mode.type = "error"
    <3>1. mode.why \in Answers
      BY <2>4, <2>8, KindOf DEF Answers
    <3> QED
      BY <2>6, <2>8, <3>1, RefusedIsGood
  <2>9. CASE Account(q) # None /\ mode.type # "error"
    <3>1. mode \in Modes \union {Absent} /\ <<>> \in Lists
      BY <2>4, <2>9, KindOf, ShortLists
    <3>2. /\ p \in Queries /\ p.pc = "look" /\ p.body = q.body /\ p.net = q.net
          /\ p.phase = q.phase /\ p.got = q.got /\ p.dry = q.dry
          /\ p.mode = mode /\ p.seen = {}
      BY <3>1 DEF Queries
    <3>3. Proceed(q) = p
      BY <2>6, <2>9
    <3> HIDE DEF p
    <3>4. Open(p)
      BY <3>2 DEF Open
    <3>5. Turn(p) = Turn(q) /\ Account(p) = Account(q)
      BY <3>2, SameTurn
    <3>6. Asked(p)
      BY <2>1, <2>3, <2>5, <2>9, <3>2, <3>5 DEF Asked
    <3> QED
      BY <3>2, <3>3, <3>4, <3>6 DEF GoodRequest, Followed, InTurn
  <2> QED
    BY <2>7, <2>8, <2>9
<1> QED
  BY <1>3, <1>4

LEMMA BeginIsGood ==
  ASSUME NEW q \in Queries, Open(q)
  PROVE  GoodRequest(Begin(q))
<1>1. "badSigners" \in Answers
  BY DEF Answers
<1> QED
  BY <1>1, ProceedIsGood, RefusedIsGood DEF Begin

\* What is decided on one more list.
LEMMA ResolveIsGood ==
  ASSUME NEW q, GoodRequest(q), q.pc \in InTurn, NEW list \in Lists
  PROVE  GoodRequest(Resolve(q, list))
<1>1. q \in Queries /\ Open(q) /\ Asked(q)
  BY DEF GoodRequest, Followed
<1> DEFINE given == Given(q.body, q.phase, Turn(q))
           mode  == Decide(q.mode, list)
           seen  == q.seen \union {list}
<1>2. /\ given.type # "error" /\ Account(q) \in Keys /\ Len(q.got) < Len(q.body.roles)
      /\ \/ q.mode = given /\ q.seen = {}
         \/ /\ given.type = "none" /\ q.mode = Multisig(0)
            /\ \E l \in Lists : Len(l) = 1 /\ q.seen = {l}
  BY <1>1 DEF Asked
<1>3. /\ q.body \in Body /\ q.net \in Nets /\ q.phase \in {"try", "send"}
      /\ Signed(q.body, q.phase, q.got)
      /\ q.phase = "send" /\ q.body.endpoint = "safe" =>
           Len(q.dry) = Len(q.body.roles) /\ Signed(q.body, "try", q.dry)
  BY <1>1 DEF Open
<1>4. q.mode \in Modes \union {Absent} /\ q.seen \in SUBSET Lists
  BY <1>1 DEF Queries
<1>5. mode \in Modes \union Errors
  BY <1>4, DecideIs
<1>6. seen \in SUBSET Lists /\ IsFiniteSet(seen)
  <2>1. q.seen = {} \/ \E l \in Lists : q.seen = {l}
    BY <1>2
  <2>2. IsFiniteSet(q.seen)
    BY <2>1, FS_EmptySet, FS_Singleton
  <2> QED
    BY <1>4, <2>2, FS_AddElement
<1> DEFINE turn == [q EXCEPT !.pc = "look", !.mode = mode, !.read = <<>>, !.seen = seen]
           sig  == [addr |-> Account(q), mode |-> mode, seen |-> seen]
           next == [q EXCEPT !.got = Append(q.got, sig)]
<1>7. Resolve(q, list) = IF mode.type = "error" THEN Refused(q, mode.why)
                         ELSE IF q.mode.type = "none" THEN turn ELSE Proceed(next)
  BY DEF Resolve
<1> HIDE DEF given, mode, seen
<1>8. CASE mode.type = "error"
  <2>1. mode.why \in Answers
    BY <1>5, <1>8, KindOf DEF Answers
  <2> QED
    BY <1>7, <1>8, <2>1, RefusedIsGood
<1>9. CASE mode.type # "error" /\ q.mode.type = "none"
  <2>1. mode = Multisig(0) /\ Len(list) = 1
    BY <1>4, <1>9, DecideIs DEF mode
  <2>2. q.mode = given /\ q.seen = {}
    BY <1>2, <1>9, KindOf
  <2>3. mode \in Modes /\ <<>> \in Lists
    BY <1>5, <1>9, KindOf, ShortLists
  <2>4. /\ turn \in Queries /\ turn.pc = "look" /\ turn.body = q.body /\ turn.net = q.net
        /\ turn.phase = q.phase /\ turn.got = q.got /\ turn.dry = q.dry
        /\ turn.mode = mode /\ turn.seen = seen
    BY <1>1, <1>6, <2>3 DEF Queries
  <2>5. Resolve(q, list) = turn
    BY <1>7, <1>9
  <2> HIDE DEF turn
  <2>6. Open(turn)
    BY <1>3, <2>4 DEF Open
  <2>7. Turn(turn) = Turn(q) /\ Account(turn) = Account(q)
    BY <2>4, SameTurn
  <2>8. Asked(turn)
    <3>1. Given(turn.body, turn.phase, Turn(turn)) = given
      BY <2>4, <2>7 DEF given
    <3>2. given.type = "none" /\ turn.mode = Multisig(0)
      BY <1>9, <2>1, <2>2, <2>4
    <3>3. Len(list) = 1 /\ turn.seen = {list}
      BY <2>1, <2>2, <2>4 DEF seen
    <3> QED
      BY <1>2, <2>4, <2>7, <3>1, <3>2, <3>3 DEF Asked
  <2> QED
    BY <2>4, <2>5, <2>6, <2>8 DEF GoodRequest, Followed, InTurn
<1>10. CASE mode.type # "error" /\ q.mode.type # "none"
  <2>1. mode \in Modes
    BY <1>5, <1>10, KindOf
  <2>2. sig \in Sigs
    BY <1>2, <1>6, <2>1 DEF Sigs
  <2>3. q.got \in Seq(Sigs)
    BY <1>1 DEF Queries
  <2>4. Settled(given, sig)
    <3>1. sig.mode = mode /\ sig.seen = seen
      OBVIOUS
    <3>2. CASE q.mode = given /\ q.seen = {}
      <4>1. sig.seen = {list} /\ sig.mode = Decide(given, list)
        BY <3>1, <3>2 DEF mode, seen
      <4> QED
        BY <1>2, <1>6, <1>10, <3>1, <3>2, <4>1 DEF Settled
    <3>3. CASE /\ given.type = "none" /\ q.mode = Multisig(0)
               /\ \E l \in Lists : Len(l) = 1 /\ q.seen = {l}
      <4>1. mode = q.mode
        BY <1>4, <1>10, <3>3, DecideIs, KindOf DEF mode
      <4>2. \E l \in seen : Len(l) = 1
        BY <3>3 DEF seen
      <4> QED
        BY <1>2, <1>6, <3>1, <3>3, <4>1, <4>2 DEF Settled
    <3> QED
      BY <1>2, <3>2, <3>3
  <2> HIDE DEF sig
  <2>5. Append(q.got, sig) \in Seq(Sigs)
    BY <2>2, <2>3
  <2>6. /\ next \in Queries /\ next.body = q.body /\ next.net = q.net
        /\ next.phase = q.phase /\ next.dry = q.dry /\ next.got = Append(q.got, sig)
    BY <1>1, <2>5 DEF Queries
  <2>7. Resolve(q, list) = Proceed(next)
    BY <1>7, <1>10
  <2> HIDE DEF next
  <2>8. Signed(q.body, q.phase, Append(q.got, sig))
    <3>1. /\ Len(q.got) \in Nat /\ DOMAIN q.got = 1..Len(q.got)
          /\ DOMAIN Append(q.got, sig) = 1..(Len(q.got) + 1)
          /\ Len(Append(q.got, sig)) = Len(q.got) + 1
      BY <2>2, <2>3
    <3>2. Len(q.got) + 1 <= Len(q.body.roles)
      BY <1>2, <1>3, <3>1, RolesAre
    <3>3. ASSUME NEW i \in DOMAIN Append(q.got, sig)
          PROVE  Settled(Given(q.body, q.phase, q.body.roles[i]), Append(q.got, sig)[i])
      <4>1. CASE i = Len(q.got) + 1
        <5>1. Append(q.got, sig)[i] = sig
          BY <2>2, <2>3, <3>1, <4>1
        <5>2. Turn(q) = q.body.roles[i]
          BY <4>1 DEF Turn, Roles
        <5> QED
          BY <2>4, <5>1, <5>2 DEF given
      <4>2. CASE i # Len(q.got) + 1
        <5>1. i \in DOMAIN q.got
          BY <3>1, <3>3, <4>2
        <5>2. Append(q.got, sig)[i] = q.got[i]
          BY <2>2, <2>3, <3>1, <5>1
        <5> QED
          BY <1>3, <5>1, <5>2 DEF Signed
      <4> QED
        BY <4>1, <4>2
    <3> QED
      BY <3>1, <3>2, <3>3 DEF Signed
  <2>9. Open(next)
    BY <1>3, <2>6, <2>8 DEF Open
  <2> QED
    BY <2>6, <2>7, <2>9, ProceedIsGood
<1> QED
  BY <1>8, <1>9, <1>10

-----------------------------------------------------------------------------
(* Signing: the invariant. *)

Shared ==
  /\ current \in Nets /\ switches \in 0..MaxSwitches /\ changes \in 0..MaxChanges
  /\ onchain \in [Nets -> [Keys -> Lists]]
  /\ cache \in [Keys -> (Lists \ {<<>>}) \union {None}]

AllGood == req \in [Requests -> Queries] /\ \A r \in Requests : GoodRequest(req[r])

SigningIInv == Shared /\ AllGood

LEMMA SigningStart ==
  ASSUME SigningInit
  PROVE  SigningIInv
<1>1. Shared
  <2>1. current \in Nets /\ switches \in 0..MaxSwitches /\ changes \in 0..MaxChanges
    BY BoundAssumption DEF SigningInit
  <2>2. onchain \in [Nets -> [Keys -> Lists]]
    BY DEF SigningInit
  <2>3. cache \in [Keys -> (Lists \ {<<>>}) \union {None}]
    BY DEF SigningInit
  <2> QED
    BY <2>1, <2>2, <2>3 DEF Shared
<1>2. AllGood
  BY IdleIsGood DEF SigningInit, AllGood, GoodRequest
<1> QED
  BY <1>1, <1>2 DEF SigningIInv

LEMMA StepIsGood ==
  ASSUME AllGood, NEW r \in Requests, NEW q, GoodRequest(q), Step(r, q)
  PROVE  AllGood'
<1>1. req' = [req EXCEPT ![r] = q]
  BY DEF Step
<1>2. q \in Queries
  BY DEF GoodRequest
<1>3. req' \in [Requests -> Queries]
  BY <1>1, <1>2 DEF AllGood
<1>4. \A s \in Requests : GoodRequest(req'[s])
  <2>1. \A s \in Requests : req'[s] = q \/ req'[s] = req[s]
    BY <1>1 DEF AllGood
  <2> QED
    BY <2>1 DEF AllGood
<1> QED
  BY <1>3, <1>4 DEF AllGood, GoodRequest, Followed, Open, Asked, Signed, Settled

LEMMA ReceiveKeeps ==
  ASSUME SigningIInv, NEW r \in Requests, ReceiveRequest(r)
  PROVE  SigningIInv'
<1>1. PICK b \in Bodies[r] :
        Step(r, IF BadRequest(b) THEN Answered("badRequest")
                ELSE Begin([Idle EXCEPT !.body = b, !.net = First(b.net, current),
                              !.phase = IF b.endpoint = "write" THEN "send" ELSE "try"]))
  BY DEF ReceiveRequest
<1> DEFINE q == [Idle EXCEPT !.body = b, !.net = First(b.net, current),
                   !.phase = IF b.endpoint = "write" THEN "send" ELSE "try"]
<1>2. b \in Body
  BY BodyAssumption
<1>3. First(b.net, current) \in Nets
  <2>1. b.net \in Nets \union {None} /\ current \in Nets
    BY <1>2 DEF Body, SigningIInv, Shared
  <2> QED
    BY <2>1 DEF First
<1>4. Idle \in Queries /\ Idle.got = <<>>
  BY IdleIsGood DEF GoodRequest, Idle
<1>5. /\ q \in Queries /\ q.body = b /\ q.net = First(b.net, current) /\ q.got = <<>>
      /\ q.phase = IF b.endpoint = "write" THEN "send" ELSE "try"
  BY <1>2, <1>3, <1>4 DEF Queries
<1>6. Step(r, IF BadRequest(b) THEN Answered("badRequest") ELSE Begin(q))
  BY <1>1
<1> HIDE DEF q
<1>7. Signed(b, q.phase, <<>>)
  BY <1>2, RolesAre DEF Signed
<1>8. Open(q)
  BY <1>2, <1>3, <1>5, <1>7 DEF Open
<1>9. GoodRequest(IF BadRequest(b) THEN Answered("badRequest") ELSE Begin(q))
  <2>1. "badRequest" \in Answers
    BY DEF Answers
  <2>2. GoodRequest(Begin(q)) /\ GoodRequest(Answered("badRequest"))
    BY <1>5, <1>8, <2>1, BeginIsGood, AnsweredIsGood
  <2> QED
    BY <2>2
<1>10. AllGood'
  BY <1>6, <1>9, StepIsGood DEF SigningIInv
<1> QED
  BY <1>10 DEF ReceiveRequest, SigningIInv, Shared

\* A request in turn knows its network and the account it asks about.
LEMMA InTurnIs ==
  ASSUME SigningIInv, NEW r \in Requests, req[r].pc \in InTurn
  PROVE  /\ GoodRequest(req[r]) /\ req[r] \in Queries /\ Open(req[r]) /\ Asked(req[r])
         /\ req[r].net \in Nets /\ Account(req[r]) \in Keys /\ req[r].read \in Lists
         /\ onchain[req[r].net][Account(req[r])] \in Lists
         /\ cache[Account(req[r])] # None => cache[Account(req[r])] \in Lists
<1>1. GoodRequest(req[r]) /\ req[r] \in Queries /\ Open(req[r]) /\ Asked(req[r])
  BY DEF SigningIInv, AllGood, GoodRequest, Followed
<1>2. req[r].net \in Nets /\ Account(req[r]) \in Keys
  BY <1>1 DEF Open, Asked
<1>3. req[r].read \in Lists
  BY <1>1 DEF Queries
<1> QED
  BY <1>1, <1>2, <1>3 DEF SigningIInv, Shared

LEMMA LookHitKeeps ==
  ASSUME SigningIInv, NEW r \in Requests, LookHit(r)
  PROVE  SigningIInv'
<1>1. req[r].pc \in InTurn
  BY DEF LookHit, InTurn
<1>2. GoodRequest(req[r]) /\ cache[Account(req[r])] \in Lists
  BY <1>1, InTurnIs DEF LookHit
<1>3. GoodRequest(Resolve(req[r], cache[Account(req[r])]))
  BY <1>1, <1>2, ResolveIsGood
<1>4. AllGood'
  BY <1>3, StepIsGood DEF LookHit, SigningIInv
<1> QED
  BY <1>4 DEF LookHit, SigningIInv, Shared

\* A request in turn goes on asking about the same account.
LEMMA StillAsked ==
  ASSUME NEW q, q \in Queries, Open(q), Asked(q),
         NEW p, p \in Queries, p.pc \in InTurn, p.pc = "store" => p.read # <<>>,
         p.body = q.body, p.net = q.net, p.phase = q.phase, p.got = q.got, p.dry = q.dry,
         p.mode = q.mode, p.seen = q.seen
  PROVE  GoodRequest(p)
<1>1. Open(p)
  BY DEF Open
<1>2. Turn(p) = Turn(q) /\ Account(p) = Account(q)
  BY SameTurn
<1>3. Asked(p)
  BY <1>2 DEF Asked
<1> QED
  BY <1>1, <1>3 DEF GoodRequest, Followed, InTurn

LEMMA LookMissKeeps ==
  ASSUME SigningIInv, NEW r \in Requests, LookMiss(r)
  PROVE  SigningIInv'
<1> DEFINE q == req[r]
           p == [q EXCEPT !.pc = "fetch"]
<1>1. q \in Queries /\ Open(q) /\ Asked(q)
  BY InTurnIs DEF LookMiss, InTurn
<1>2. /\ p \in Queries /\ p.pc = "fetch"
      /\ p.body = q.body /\ p.net = q.net /\ p.phase = q.phase /\ p.got = q.got
      /\ p.dry = q.dry /\ p.mode = q.mode /\ p.seen = q.seen
  BY <1>1 DEF Queries
<1>3. Step(r, p)
  BY DEF LookMiss
<1> HIDE DEF p, q
<1>4. p.pc \in InTurn /\ p.pc # "store"
  BY <1>2 DEF InTurn
<1>5. GoodRequest(p)
  BY <1>1, <1>2, <1>4, StillAsked
<1>6. AllGood'
  BY <1>3, <1>5, StepIsGood DEF SigningIInv
<1> QED
  BY <1>6 DEF LookMiss, SigningIInv, Shared

LEMMA FetchListedKeeps ==
  ASSUME SigningIInv, NEW r \in Requests, FetchListed(r)
  PROVE  SigningIInv'
<1> DEFINE q == req[r]
           list == onchain[q.net][Account(q)]
           p == [q EXCEPT !.pc = "store", !.read = list]
<1>1. q \in Queries /\ Open(q) /\ Asked(q) /\ list \in Lists
  BY InTurnIs DEF FetchListed, InTurn
<1>2. list # <<>> /\ Step(r, p)
  BY DEF FetchListed
<1> HIDE DEF list
<1>3. /\ p \in Queries /\ p.pc = "store" /\ p.read = list
      /\ p.body = q.body /\ p.net = q.net /\ p.phase = q.phase /\ p.got = q.got
      /\ p.dry = q.dry /\ p.mode = q.mode /\ p.seen = q.seen
  BY <1>1 DEF Queries
<1> HIDE DEF p, q
<1>4. p.pc \in InTurn /\ p.read # <<>>
  BY <1>2, <1>3 DEF InTurn
<1>5. GoodRequest(p)
  BY <1>1, <1>3, <1>4, StillAsked
<1>6. AllGood'
  BY <1>2, <1>5, StepIsGood DEF SigningIInv
<1> QED
  BY <1>6 DEF FetchListed, SigningIInv, Shared

LEMMA FetchNothingKeeps ==
  ASSUME SigningIInv, NEW r \in Requests, FetchNothing(r)
  PROVE  SigningIInv'
<1>1. req[r].pc \in InTurn /\ Step(r, Resolve(req[r], <<>>))
  BY DEF FetchNothing, InTurn
<1>2. GoodRequest(Resolve(req[r], <<>>))
  BY <1>1, InTurnIs, ResolveIsGood, ShortLists
<1>3. AllGood'
  BY <1>1, <1>2, StepIsGood DEF SigningIInv
<1> QED
  BY <1>3 DEF FetchNothing, SigningIInv, Shared

LEMMA StoreKeeps ==
  ASSUME SigningIInv, NEW r \in Requests, Store(r)
  PROVE  SigningIInv'
<1>1. req[r].pc \in InTurn /\ Step(r, Resolve(req[r], req[r].read))
  BY DEF Store, InTurn
<1>2. GoodRequest(req[r]) /\ req[r].read \in Lists /\ req[r].read # <<>> /\ Account(req[r]) \in Keys
  BY <1>1, InTurnIs DEF Store, GoodRequest, Followed
<1>3. AllGood'
  BY <1>1, <1>2, ResolveIsGood, StepIsGood DEF SigningIInv
<1>4. cache' \in [Keys -> (Lists \ {<<>>}) \union {None}]
  BY <1>2 DEF Store, SigningIInv, Shared
<1> QED
  BY <1>3, <1>4 DEF Store, SigningIInv, Shared

\* The actions that only refuse the request.
LEMMA EndsKeep ==
  ASSUME SigningIInv, NEW r \in Requests,
         BuildError(r) \/ SimulateFails(r) \/ SubmitRejected(r)
  PROVE  SigningIInv'
<1>1. "build" \in Answers /\ "error" \in Answers /\ "rejected" \in Answers
  BY DEF Answers
<1>2. \E q : GoodRequest(q) /\ Step(r, q)
  BY <1>1, RefusedIsGood, AnsweredIsGood DEF BuildError, SimulateFails, SubmitRejected
<1>3. AllGood'
  BY <1>2, StepIsGood DEF SigningIInv
<1> QED
  BY <1>3 DEF BuildError, SimulateFails, SubmitRejected, SigningIInv, Shared

\* A request whose roles are all signed.
LEMMA ReadyIs ==
  ASSUME SigningIInv, NEW r \in Requests, req[r].pc = "ready"
  PROVE  req[r] \in Queries /\ Open(req[r]) /\ Len(req[r].got) = Len(req[r].body.roles)
BY DEF SigningIInv, AllGood, GoodRequest, Followed

LEMMA SimulatePassesKeeps ==
  ASSUME SigningIInv, NEW r \in Requests, SimulatePasses(r)
  PROVE  SigningIInv'
<1> DEFINE q == req[r]
           p == [q EXCEPT !.phase = "send", !.dry = q.got, !.got = <<>>]
<1>1. q \in Queries /\ Open(q) /\ Len(q.got) = Len(q.body.roles)
  BY ReadyIs DEF SimulatePasses
<1>2. /\ q.phase = "try"
      /\ Step(r, IF q.body.endpoint = "simulate" THEN Answered("simulated") ELSE Begin(p))
  BY DEF SimulatePasses
<1>3. /\ p \in Queries /\ p.body = q.body /\ p.net = q.net /\ p.phase = "send"
      /\ p.got = <<>> /\ p.dry = q.got
  <2>1. q.got \in Seq(Sigs) /\ <<>> \in Seq(Sigs)
    BY <1>1 DEF Queries
  <2> QED
    BY <1>1, <2>1 DEF Queries
<1> HIDE DEF p, q
<1>4. Open(p)
  <2>1. q.body \in Body /\ q.net \in Nets /\ Signed(q.body, "try", q.got)
    BY <1>1, <1>2 DEF Open
  <2>2. Signed(q.body, "send", <<>>)
    BY <2>1, RolesAre DEF Signed
  <2> QED
    BY <1>1, <1>3, <2>1, <2>2 DEF Open
<1>5. "simulated" \in Answers
  BY DEF Answers
<1>6. GoodRequest(IF q.body.endpoint = "simulate" THEN Answered("simulated") ELSE Begin(p))
  <2>1. GoodRequest(Answered("simulated")) /\ GoodRequest(Begin(p))
    BY <1>3, <1>4, <1>5, AnsweredIsGood, BeginIsGood
  <2> QED
    BY <2>1
<1>7. AllGood'
  BY <1>2, <1>6, StepIsGood DEF SigningIInv
<1> QED
  BY <1>7 DEF SimulatePasses, SigningIInv, Shared

LEMMA SubmitAcceptedKeeps ==
  ASSUME SigningIInv, NEW r \in Requests, SubmitAccepted(r)
  PROVE  SigningIInv'
<1> DEFINE q == req[r]
           new == {q.got[i].addr : i \in {j \in DOMAIN q.got : q.got[j].mode.type = "pubkey"}}
<1>1. onchain' = [onchain EXCEPT ![q.net] = [a \in Keys |-> IF a \in new THEN <<a>> ELSE @[a]]]
  BY DEF SubmitAccepted
<1>2. q.net \in Nets
  BY ReadyIs DEF SubmitAccepted, Open
<1> HIDE DEF new
<1>3. onchain' \in [Nets -> [Keys -> Lists]]
  <2>1. onchain[q.net] \in [Keys -> Lists]
    BY <1>2 DEF SigningIInv, Shared
  <2>2. [a \in Keys |-> IF a \in new THEN <<a>> ELSE onchain[q.net][a]] \in [Keys -> Lists]
    BY <2>1, ShortLists
  <2> QED
    BY <1>1, <2>2 DEF SigningIInv, Shared
<1>4. "ok" \in Answers
  BY DEF Answers
<1>5. AllGood'
  BY <1>4, AnsweredIsGood, StepIsGood DEF SubmitAccepted, SigningIInv
<1> QED
  BY <1>3, <1>5 DEF SubmitAccepted, SigningIInv, Shared

LEMMA WorldKeeps ==
  ASSUME SigningIInv,
         \/ \E n \in Nets : Switch(n)
         \/ \E a \in Keys : Expire(a)
         \/ \E n \in Nets, a \in Keys : SignersChange(n, a)
  PROVE  SigningIInv'
<1>1. req' = req
  BY DEF Switch, Expire, SignersChange
<1>2. AllGood'
  BY <1>1 DEF SigningIInv, AllGood, GoodRequest, Followed, Open, Asked, Signed, Settled
<1>3. Shared'
  <2>1. CASE \E n \in Nets : Switch(n)
    BY <2>1, BoundAssumption DEF Switch, SigningIInv, Shared
  <2>2. CASE \E a \in Keys : Expire(a)
    BY <2>2 DEF Expire, SigningIInv, Shared
  <2>3. CASE \E n \in Nets, a \in Keys : SignersChange(n, a)
    <3>1. PICK n \in Nets, a \in Keys : SignersChange(n, a)
      BY <2>3
    <3>2. PICK l \in Lists : onchain' = [onchain EXCEPT ![n][a] = l]
      BY <3>1 DEF SignersChange
    <3>3. onchain' \in [Nets -> [Keys -> Lists]]
      BY <3>2 DEF SigningIInv, Shared
    <3>4. changes' \in 0..MaxChanges
      BY <3>1, BoundAssumption DEF SignersChange, SigningIInv, Shared
    <3> QED
      BY <3>1, <3>3, <3>4 DEF SignersChange, SigningIInv, Shared
  <2> QED
    BY <2>1, <2>2, <2>3
<1> QED
  BY <1>2, <1>3 DEF SigningIInv

LEMMA SigningStep ==
  ASSUME SigningIInv, [SigningNext]_signingVars
  PROVE  SigningIInv'
<1>1. CASE UNCHANGED signingVars
  BY <1>1 DEF signingVars, SigningIInv, Shared, AllGood, GoodRequest, Followed, Open, Asked,
     Signed, Settled
<1>2. CASE \E r \in Requests :
             \/ ReceiveRequest(r) \/ LookHit(r) \/ LookMiss(r)
             \/ FetchListed(r) \/ FetchNothing(r) \/ Store(r)
             \/ BuildError(r) \/ SimulateFails(r) \/ SimulatePasses(r)
             \/ SubmitAccepted(r) \/ SubmitRejected(r)
  BY <1>2, ReceiveKeeps, LookHitKeeps, LookMissKeeps, FetchListedKeeps, FetchNothingKeeps,
     StoreKeeps, EndsKeep, SimulatePassesKeeps, SubmitAcceptedKeeps
<1>3. CASE \/ \E n \in Nets : Switch(n)
           \/ \E a \in Keys : Expire(a)
           \/ \E n \in Nets, a \in Keys : SignersChange(n, a)
  BY <1>3, WorldKeeps
<1> QED
  BY <1>1, <1>2, <1>3 DEF SigningNext

LEMMA SigningInductive == SigningSpec => []SigningIInv
BY SigningStart, SigningStep, PTL DEF SigningSpec

-----------------------------------------------------------------------------
(* Signing: the theorems. *)

\* Every variable has its type: a request that asks for signers knows its network
\* and an account, and the cache holds no empty list (SigningTypes).
THEOREM RequestsTyped == SigningSpec => []SigningTypes
<1>1. SigningIInv => SigningTypes
  <2> SUFFICES ASSUME SigningIInv PROVE SigningTypes
    OBVIOUS
  <2>1. ASSUME NEW r \in Requests
        PROVE  /\ req[r].pc \in {"idle", "look", "fetch", "store", "ready", "done"}
               /\ req[r].pc \in {"look", "fetch", "store"} =>
                    /\ req[r].net \in Nets /\ Account(req[r]) \in Keys /\ req[r].read \in Lists
    <3>1. req[r] \in Queries
      BY DEF SigningIInv, AllGood
    <3> QED
      BY <3>1, InTurnIs DEF Queries, InTurn
  <2> QED
    BY <2>1 DEF SigningTypes, SigningIInv, Shared
<1> QED
  BY SigningInductive, <1>1, PTL

\* A set with two members has more than one.
LEMMA TwoMembers ==
  ASSUME NEW S, IsFiniteSet(S), NEW a \in S, NEW b \in S, a # b
  PROVE  Cardinality(S) > 1
<1>1. Cardinality(S) \in Nat /\ Cardinality(S) # 0
  BY FS_CardinalityType, FS_EmptySet
<1>2. Cardinality(S) # 1
  BY FS_Singleton
<1> QED
  BY <1>1, <1>2

\* With the private keys a role is given the mode it was given without, or the
\* key of an account whose mode was left open.
LEMMA TwoPhases ==
  ASSUME NEW b \in Body, NEW role \in Role,
         Given(b, "send", role).type # "error", Given(b, "try", role).type # "error"
  PROVE  \/ Given(b, "try", role) = Given(b, "send", role)
         \/ /\ Given(b, "try", role).type = "none"
            /\ \E k \in Keys : Given(b, "send", role) = PubKey(k)
<1> DEFINE q(phase) == [body |-> b, phase |-> phase]
           key(phase) == First(role.pk, Held(q(phase), role))
<1>1. \A phase : Given(b, phase, role) =
        IF phase = "send" /\ role.key = None THEN Error("keyRequired")
        ELSE IF role.type = "multisig" THEN Multisig(role.index % Wrap)
        ELSE IF key(phase) # None THEN PubKey(key(phase))
        ELSE IF role.type = "none" THEN Absent ELSE Error("keyRequired")
  BY DEF Given, GivenMode
<1>2. Error("keyRequired").type = "error"
  BY DEF Error
<1>3. role.key \in Keys
  BY GivenTypes
<1>4. role.key # None /\ role.pk \in Keys \union {None}
  BY <1>3, BoundAssumption DEF Role
<1>5. key("send") = First(role.pk, role.key) /\ key("try") \in {key("send"), role.pk}
  BY DEF First, Held
<1>6. key("send") \in Keys /\ (role.pk # None => key("try") = key("send"))
  BY <1>3, <1>4, <1>5 DEF First
<1>7. key("send") # None
  BY <1>6, BoundAssumption
<1> HIDE DEF key, q
<1>8. CASE role.type = "multisig"
  BY <1>1, <1>4, <1>8
<1>9. CASE role.type # "multisig" /\ key("try") = key("send")
  BY <1>1, <1>4, <1>7, <1>9
<1>10. CASE role.type # "multisig" /\ key("try") # key("send")
  <2>1. key("try") = None
    BY <1>4, <1>5, <1>6, <1>10
  <2>2. Given(b, "try", role) = IF role.type = "none" THEN Absent ELSE Error("keyRequired")
    BY <1>1, <1>10, <2>1
  <2>3. Given(b, "try", role) = Absent
    BY <1>2, <2>2
  <2>4. Given(b, "send", role) = PubKey(key("send"))
    BY <1>1, <1>4, <1>7, <1>10
  <2> QED
    BY <1>6, <2>3, <2>4, KindOf
<1> QED
  BY <1>8, <1>9, <1>10

\* The signatures of the two phases, decided on one list, are the same.
LEMMA SameDecision ==
  ASSUME NEW b \in Body, NEW role \in Role, NEW s \in Sigs, NEW d \in Sigs,
         Settled(Given(b, "send", role), s), Settled(Given(b, "try", role), d)
  PROVE  s.mode = d.mode \/ Cardinality(s.seen \union d.seen) > 1
<1> DEFINE sent == Given(b, "send", role)
           tried == Given(b, "try", role)
<1>1. sent.type # "error" /\ tried.type # "error"
  BY DEF Settled
<1>2. sent.type # "none"
  BY <1>1, GivenTypes
<1>3. PICK l \in Lists : s.seen = {l} /\ s.mode = Decide(sent, l)
  BY <1>2 DEF Settled
<1>4. IsFiniteSet(s.seen \union d.seen)
  BY FS_Union DEF Settled
<1>5. \A m \in d.seen : m # l => Cardinality(s.seen \union d.seen) > 1
  <2> TAKE m \in d.seen
  <2>1. l \in s.seen \union d.seen /\ m \in s.seen \union d.seen
    BY <1>3
  <2> QED
    BY <1>4, <2>1, TwoMembers
<1>6. tried = sent \/ (tried.type = "none" /\ \E k \in Keys : sent = PubKey(k))
  BY <1>1, TwoPhases
<1>7. CASE tried = sent
  <2>1. PICK m \in Lists : d.seen = {m} /\ d.mode = Decide(sent, m)
    BY <1>2, <1>7 DEF Settled
  <2> QED
    BY <1>3, <1>5, <2>1
<1>8. CASE tried.type = "none" /\ \E k \in Keys : sent = PubKey(k)
  <2>1. d.mode = Multisig(0) /\ \E m \in d.seen : Len(m) = 1
    BY <1>8 DEF Settled
  <2>2. PICK m \in d.seen : Len(m) = 1
    BY <2>1
  <2>3. PICK k \in Keys : sent = PubKey(k)
    BY <1>8
  <2>4. CASE m = l
    <3>1. s.mode.type # "error" /\ sent \in Modes /\ sent.type = "pubkey"
      BY <2>3, KindOf DEF Sigs
    <3>2. \/ l = <<>>
          \/ \E i \in DOMAIN l : s.mode = Multisig(i - 1)
      BY <1>3, <3>1, DecideIs
    <3>3. l # <<>> /\ DOMAIN l = 1..1
      BY <2>2, <2>4, ListIs
    <3> QED
      BY <2>1, <3>2, <3>3
  <2> QED
    BY <1>5, <2>4
<1> QED
  BY <1>6, <1>7, <1>8

\* write-safe submits the signatures it simulated, unless it saw other signers the
\* second time (SubmittedAsSimulated): the private keys, which the simulation does
\* not see, change no decision.
THEOREM SubmitsWhatItSimulated == SigningSpec => []SubmittedAsSimulated
<1>1. SigningIInv => SubmittedAsSimulated
  <2> SUFFICES ASSUME SigningIInv, NEW r \in Requests,
                      req[r].phase = "send", req[r].body.endpoint = "safe",
                      NEW i \in DOMAIN req[r].got
               PROVE  \/ req[r].got[i].mode = req[r].dry[i].mode
                      \/ Cardinality(req[r].got[i].seen \union req[r].dry[i].seen) > 1
    BY DEF SubmittedAsSimulated
  <2> DEFINE q == req[r]
  <2>1. q \in Queries /\ Followed(q)
    BY DEF SigningIInv, AllGood, GoodRequest
  <2>2. Open(q)
    BY <2>1 DEF Followed, Queries, InTurn
  <2>3. /\ q.body \in Body /\ Signed(q.body, "send", q.got)
        /\ Len(q.dry) = Len(q.body.roles) /\ Signed(q.body, "try", q.dry)
    BY <2>2 DEF Open
  <2>4. q.got \in Seq(Sigs) /\ q.dry \in Seq(Sigs)
    BY <2>1 DEF Queries
  <2>5. i \in 1..Len(q.got) /\ Len(q.got) \in Nat /\ Len(q.got) <= Len(q.body.roles)
    BY <2>3, <2>4 DEF Signed
  <2>6. i \in 1..Len(q.body.roles) /\ i \in DOMAIN q.dry
    BY <2>3, <2>4, <2>5, RolesAre
  <2>7. q.body.roles[i] \in Role /\ q.got[i] \in Sigs /\ q.dry[i] \in Sigs
    BY <2>3, <2>4, <2>6, RolesAre
  <2>8. /\ Settled(Given(q.body, "send", q.body.roles[i]), q.got[i])
        /\ Settled(Given(q.body, "try", q.body.roles[i]), q.dry[i])
    BY <2>3, <2>6 DEF Signed
  <2> QED
    BY <2>3, <2>7, <2>8, SameDecision
<1> QED
  BY SigningInductive, <1>1, PTL

\* What the node checks holds of a signature that was decided on the list it has,
\* for a role whose mode the caller gave right or left open.
LEMMA FreshVerifies ==
  ASSUME SigningIInv, NEW r \in Requests, Open(req[r]), req[r].phase = "send",
         NEW i \in DOMAIN req[r].got, ~ Misgiven(Roles(req[r])[i]),
         req[r].got[i].seen = {onchain[req[r].net][req[r].got[i].addr]}
  PROVE  Verifies(req[r], i)
<1> DEFINE q == req[r]
           s == q.got[i]
           list == onchain[q.net][s.addr]
           role == q.body.roles[i]
           given == Given(q.body, "send", role)
<1>1. q \in Queries /\ q.body \in Body /\ q.net \in Nets /\ Signed(q.body, "send", q.got)
  BY DEF SigningIInv, AllGood, Open
<1>2. q.got \in Seq(Sigs)
  BY <1>1 DEF Queries
<1>3. s \in Sigs /\ role \in Role
  <2>1. i \in 1..Len(q.got) /\ Len(q.got) \in Nat /\ Len(q.got) <= Len(q.body.roles)
    BY <1>1, <1>2 DEF Signed
  <2> QED
    BY <1>1, <1>2, <2>1, RolesAre
<1>4. list \in Lists
  BY <1>1, <1>3 DEF Sigs, SigningIInv, Shared
<1>5. Settled(given, s)
  BY <1>1 DEF Signed
<1>6. role.type # "multisig" /\ role.pk \in {None, role.key}
  BY DEF Misgiven, Roles
<1>7. given.type # "error" /\ role.key \in Keys /\ given.type # "none"
  BY <1>1, <1>3, <1>5, GivenTypes DEF Settled
<1>8. role.key # None
  BY <1>7, BoundAssumption
<1>9. given = PubKey(role.key)
  BY <1>6, <1>8 DEF Given, GivenMode, Held, First
<1>10. s.mode = Decide(given, list)
  BY <1>5, <1>7 DEF Settled
<1>11. given \in Modes /\ given.type = "pubkey" /\ given.pk = role.key
  BY <1>7, <1>9, KindOf
<1>12. s.mode \in Modes /\ s.mode.type # "error"
  BY <1>3, KindOf DEF Sigs
<1> HIDE DEF given, list, role, s, q
<1>13. \/ list = <<>> /\ s.mode = given
       \/ \E j \in DOMAIN list : list[j] = role.key /\ s.mode = Multisig(j - 1)
  BY <1>4, <1>10, <1>11, <1>12, DecideIs
<1>14. Verifies(q, i) = IF s.mode.type = "pubkey" THEN list = <<>> /\ role.key = s.mode.pk
                        ELSE s.mode.slot < Len(list) /\ list[s.mode.slot + 1] = role.key
  BY DEF Verifies, Roles, q, s, list, role
<1>15. CASE list = <<>> /\ s.mode = given
  BY <1>11, <1>14, <1>15 DEF q
<1>16. CASE \E j \in DOMAIN list : list[j] = role.key /\ s.mode = Multisig(j - 1)
  <2>1. PICK j \in DOMAIN list : list[j] = role.key /\ s.mode = Multisig(j - 1)
    BY <1>16
  <2>2. j \in 1..Len(list) /\ Len(list) \in Nat
    BY <1>4, ListIs
  <2>3. j - 1 \in Nat /\ j - 1 < Len(list) /\ (j - 1) + 1 = j
    BY <2>2
  <2>4. s.mode.type = "multisig" /\ s.mode.slot = j - 1
    BY <2>1, <2>3, KindOf
  <2> QED
    BY <1>14, <2>1, <2>3, <2>4 DEF q
<1> QED
  BY <1>13, <1>15, <1>16

\* A submission is rejected for a signature only if the caller misgave it or the
\* list it was decided on is not the chain's (OnlyStaleRejected).
THEOREM RejectedOnlyIfStale == SigningSpec => OnlyStaleRejected
<1>1. ASSUME SigningIInv, NEW r \in Requests, SubmitRejected(r)
      PROVE  \E i \in DOMAIN req[r].got :
               LET s == req[r].got[i]
               IN  Misgiven(Roles(req[r])[i]) \/ s.seen # {onchain[req[r].net][s.addr]}
  <2>1. req[r].phase = "send" /\ Open(req[r])
    BY <1>1, ReadyIs DEF SubmitRejected
  <2>2. PICK i \in DOMAIN req[r].got : ~ Verifies(req[r], i)
    BY <1>1 DEF SubmitRejected
  <2> QED
    BY <1>1, <2>1, <2>2, FreshVerifies
<1>2. SigningIInv =>
        [\A r \in Requests : SubmitRejected(r) =>
           \E i \in DOMAIN req[r].got :
             LET s == req[r].got[i]
             IN  Misgiven(Roles(req[r])[i]) \/ s.seen # {onchain[req[r].net][s.addr]}]_signingVars
  BY <1>1
<1> QED
  BY SigningInductive, <1>2, PTL DEF OnlyStaleRejected

-----------------------------------------------------------------------------
(* Varint: induction over numbers, by the least counterexample. *)

\* Every non-empty set of numbers has a least element.
LEMMA Least ==
    ASSUME NEW S, S \subseteq Nat, S # {}
    PROVE  \E i \in S : \A k \in S : i <= k
<1> DEFINE Less == {ss \in Nat \X Nat : ss[1] < ss[2]}
<1>1. IsWellFoundedOn(Less, Nat)
  BY NatLessThanWellFounded DEF OpToRel
<1>2. PICK i \in S : \A k \in S : <<k, i>> \notin Less
  <2> HIDE DEF Less
  <2>1. QED
    BY <1>1, WFMin
<1>3. ASSUME NEW k \in S PROVE i <= k
  <2>1. i \in Nat /\ k \in Nat
    OBVIOUS
  <2>2. ~(k < i)
    BY <1>2, <2>1
  <2>3. QED
    BY <2>1, <2>2
<1>4. QED
  BY <1>3

LEMMA Division ==
    ASSUME NEW k \in Nat, k >= Group
    PROVE  /\ k \div Group \in Nat /\ k \div Group < k
           /\ k % Group \in 0..(Group - 1)
           /\ k = Group * (k \div Group) + (k % Group)
<1>1. Group \in Nat /\ Group > 1
  BY GroupAssumption
<1> HIDE DEF Group
<1>2. /\ k \div Group \in Int
      /\ k % Group \in 0..(Group - 1)
      /\ k = Group * (k \div Group) + (k % Group)
  BY <1>1
<1>3. k \div Group >= 0 /\ k \div Group < k
  BY <1>1, <1>2
<1> QED BY <1>1, <1>2, <1>3


-----------------------------------------------------------------------------
(* Varint: the recursive definitions have the values they say. *)

\* Start and repeat: the values f[0], f[1], .. exist as one function.
Upto(V, z, G, n, f) ==
    /\ f \in [0..n -> V]
    /\ f[0] = z
    /\ \A i \in 0..n : i > 0 => f[i] = G[f[i - 1]]

LEMMA UptoAgree ==
    ASSUME NEW V, NEW z \in V, NEW G \in [V -> V],
           NEW n \in Nat, NEW f, Upto(V, z, G, n, f),
           NEW m \in Nat, NEW g, Upto(V, z, G, m, g)
    PROVE  \A i \in Nat : i <= n /\ i <= m => f[i] = g[i]
<1> DEFINE Bad == {i \in Nat : i <= n /\ i <= m /\ f[i] # g[i]}
<1>1. SUFFICES ASSUME Bad # {} PROVE FALSE
  OBVIOUS
<1>2. PICK i \in Bad : \A k \in Bad : i <= k
  <2>1. Bad \subseteq Nat
    OBVIOUS
  <2> HIDE DEF Bad
  <2>2. QED
    BY <1>1, <2>1, Least
<1>3. i > 0
  BY DEF Upto
<1>4. i - 1 \notin Bad /\ i - 1 \in Nat /\ i - 1 <= n /\ i - 1 <= m
  BY <1>2, <1>3
<1>5. f[i - 1] = g[i - 1]
  BY <1>4
<1>6. f[i] = G[f[i - 1]] /\ g[i] = G[g[i - 1]]
  BY <1>3 DEF Upto
<1>7. QED
  BY <1>5, <1>6

LEMMA UptoExists ==
    ASSUME NEW V, NEW z \in V, NEW G \in [V -> V]
    PROVE  \A n \in Nat : \E f : Upto(V, z, G, n, f)
<1> DEFINE Bad == {n \in Nat : ~ \E f : Upto(V, z, G, n, f)}
<1>1. SUFFICES ASSUME Bad # {} PROVE FALSE
  OBVIOUS
<1>2. PICK n \in Bad : \A k \in Bad : n <= k
  <2>1. Bad \subseteq Nat
    OBVIOUS
  <2> HIDE DEF Bad
  <2>2. QED
    BY <1>1, <2>1, Least
<1>3. CASE n = 0
  <2>1. Upto(V, z, G, 0, [i \in 0..0 |-> z])
    BY DEF Upto
  <2>2. QED
    BY <1>3, <2>1
<1>4. CASE n > 0
  <2>1. n - 1 \in Nat /\ n - 1 \notin Bad
    BY <1>2, <1>4
  <2>2. PICK f : Upto(V, z, G, n - 1, f)
    BY <2>1
  <2> DEFINE g == [i \in 0..n |-> IF i = n THEN G[f[n - 1]] ELSE f[i]]
  <2>3. \A i \in 0..(n - 1) : g[i] = f[i] /\ f[i] \in V
    BY <2>2 DEF Upto
  <2>4. g[n] = G[f[n - 1]] /\ g[n] \in V
    <3>1. n \in 0..n /\ n - 1 \in 0..(n - 1)
      BY <1>4
    <3>2. f[n - 1] \in V
      BY <2>3, <3>1
    <3>3. g[n] = G[f[n - 1]]
      BY <3>1
    <3>4. QED
      BY <3>2, <3>3
  <2>5. g \in [0..n -> V]
    <3>1. ASSUME NEW i \in 0..n PROVE g[i] \in V
      <4>1. i = n \/ i \in 0..(n - 1)
        OBVIOUS
      <4> HIDE DEF g
      <4>2. QED
        BY <2>3, <2>4, <4>1
    <3>2. QED
      BY <3>1
  <2>6. g[0] = z
    BY <1>4, <2>2, <2>3 DEF Upto
  <2>7. ASSUME NEW i \in 0..n, i > 0 PROVE g[i] = G[g[i - 1]]
    <3>1. CASE i = n
      BY <1>4, <2>3, <2>4, <3>1
    <3>2. CASE i < n
      <4>1. i \in 0..(n - 1) /\ i - 1 \in 0..(n - 1)
        BY <2>7, <3>2
      <4>2. f[i] = G[f[i - 1]]
        BY <2>2, <2>7, <4>1 DEF Upto
      <4>3. QED
        BY <2>3, <4>1, <4>2
    <3>3. QED
      BY <2>7, <3>1, <3>2
  <2> HIDE DEF g
  <2>8. Upto(V, z, G, n, g)
    BY <2>5, <2>6, <2>7 DEF Upto
  <2>9. QED
    BY <2>8
<1>5. QED
  BY <1>3, <1>4

LEMMA Iterates ==
    ASSUME NEW V, NEW z \in V, NEW G \in [V -> V]
    PROVE  \E f \in [Nat -> V] : /\ f[0] = z
                                 /\ \A n \in Nat : f[n + 1] = G[f[n]]
<1> DEFINE h == [n \in Nat |-> CHOOSE f : Upto(V, z, G, n, f)]
           f == [n \in Nat |-> h[n][n]]
<1>1. ASSUME NEW n \in Nat PROVE Upto(V, z, G, n, h[n])
  BY UptoExists
<1> HIDE DEF h
<1>2. ASSUME NEW n \in Nat PROVE f[n] = h[n][n] /\ f[n] \in V
  <2>1. h[n] \in [0..n -> V] /\ n \in 0..n
    BY <1>1 DEF Upto
  <2>2. QED
    BY <2>1
<1>3. f[0] = z
  BY <1>1, <1>2 DEF Upto
<1>4. ASSUME NEW n \in Nat PROVE f[n + 1] = G[f[n]]
  <2>1. n + 1 \in Nat /\ n + 1 \in 0..(n + 1) /\ n + 1 > 0
    OBVIOUS
  <2>2. h[n + 1][n + 1] = G[h[n + 1][n + 1 - 1]]
    BY <1>1, <2>1 DEF Upto
  <2>3. h[n + 1][n] = h[n][n]
    BY <1>1, <2>1, UptoAgree
  <2>4. QED
    BY <1>2, <2>1, <2>2, <2>3
<1>5. f \in [Nat -> V]
  BY <1>2
<1>6. QED
  BY <1>3, <1>4, <1>5

\* VarUint is what its definition says: the longer and longer approximations
\* of it settle, at k once k divisions are allowed.
LEMMA VarUintDef ==
    VarUint = [k \in Nat |-> IF k < Group THEN <<k>>
                             ELSE <<Group + (k % Group)>> \o VarUint[k \div Group]]
<1> HIDE DEF Group
<1> DEFINE V == [Nat -> Seq(Nat)]
           Enc(r, k) == IF k < Group THEN <<k>>
                        ELSE <<Group + (k % Group)>> \o r[k \div Group]
           z == [k \in Nat |-> <<k>>]
           G == [r \in V |-> [k \in Nat |-> Enc(r, k)]]
<1>1. z \in V
  OBVIOUS
<1>2. G \in [V -> V]
  <2>1. ASSUME NEW r \in V, NEW k \in Nat PROVE Enc(r, k) \in Seq(Nat)
    <3>1. CASE k < Group
      BY <3>1
    <3>2. CASE k >= Group
      <4>1. k \div Group \in Nat /\ k % Group \in 0..(Group - 1)
        BY <3>2, Division
      <4>2. Group + (k % Group) \in Nat
        BY <4>1, GroupAssumption
      <4>3. r[k \div Group] \in Seq(Nat) /\ <<Group + (k % Group)>> \in Seq(Nat)
        BY <4>1, <4>2
      <4>4. <<Group + (k % Group)>> \o r[k \div Group] \in Seq(Nat)
        BY <4>3
      <4>5. Enc(r, k) = <<Group + (k % Group)>> \o r[k \div Group]
        <5>1. ~(k < Group)
          BY <3>2, GroupAssumption
        <5>2. QED
          BY <5>1
      <4>6. QED
        BY <4>4, <4>5
    <3>3. QED
      BY <3>1, <3>2, GroupAssumption
  <2> HIDE DEF Enc
  <2>2. ASSUME NEW r \in V PROVE [k \in Nat |-> Enc(r, k)] \in V
    BY <2>1
  <2> HIDE DEF V
  <2>3. QED
    BY <2>2
<1>3. PICK f \in [Nat -> V] : /\ f[0] = z
                              /\ \A n \in Nat : f[n + 1] = G[f[n]]
  <2> HIDE DEF V, z, G
  <2>1. QED
    BY <1>1, <1>2, Iterates
<1>4. ASSUME NEW n \in Nat, NEW k \in Nat PROVE f[n + 1][k] = Enc(f[n], k)
  <2>1. f[n + 1] = G[f[n]] /\ f[n] \in V
    BY <1>3
  <2>2. QED
    BY <2>1
<1>5. \A k \in Nat : f[0][k] = <<k>>
  BY <1>3
<1> HIDE DEF V, z, G
\* Once n >= k, one more division changes nothing at k.
<1>6. \A n \in Nat : \A k \in 0..n : f[n + 1][k] = f[n][k]
  <2> DEFINE Bad == {n \in Nat : \E k \in 0..n : f[n + 1][k] # f[n][k]}
  <2>1. SUFFICES ASSUME Bad # {} PROVE FALSE
    OBVIOUS
  <2>2. PICK n \in Bad : \A i \in Bad : n <= i
    <3>1. Bad \subseteq Nat
      OBVIOUS
    <3> HIDE DEF Bad
    <3>2. QED
      BY <2>1, <3>1, Least
  <2>3. PICK k \in 0..n : f[n + 1][k] # f[n][k]
    OBVIOUS
  <2>4. f[n + 1][k] = Enc(f[n], k)
    BY <1>4
  <2>5. CASE n = 0
    BY <1>5, <2>3, <2>4, <2>5, GroupAssumption
  <2>6. CASE n > 0
    <3>1. n - 1 \in Nat /\ n - 1 \notin Bad /\ n - 1 + 1 = n
      BY <2>2, <2>6
    <3>2. f[n][k] = Enc(f[n - 1], k)
      BY <1>4, <3>1
    <3>3. k >= Group
      BY <2>3, <2>4, <3>2, GroupAssumption
    <3>4. k \div Group \in 0..(n - 1)
      BY <3>3, Division
    <3>5. f[n][k \div Group] = f[n - 1][k \div Group]
      BY <3>1, <3>4
    <3>6. QED
      BY <2>3, <2>4, <3>2, <3>5
  <2>7. QED
    BY <2>5, <2>6
<1>7. \A n \in Nat : \A k \in 0..n : f[n][k] = f[k][k]
  <2> DEFINE Bad == {n \in Nat : \E k \in 0..n : f[n][k] # f[k][k]}
  <2>1. SUFFICES ASSUME Bad # {} PROVE FALSE
    OBVIOUS
  <2>2. PICK n \in Bad : \A i \in Bad : n <= i
    <3>1. Bad \subseteq Nat
      OBVIOUS
    <3> HIDE DEF Bad
    <3>2. QED
      BY <2>1, <3>1, Least
  <2>3. PICK k \in 0..n : f[n][k] # f[k][k]
    OBVIOUS
  <2>4. k < n /\ n - 1 \in Nat /\ k \in 0..(n - 1) /\ n - 1 + 1 = n
    BY <2>3
  <2>5. n - 1 \notin Bad
    BY <2>2, <2>4
  <2>6. f[n][k] = f[n - 1][k]
    BY <1>6, <2>4
  <2>7. f[n - 1][k] = f[k][k]
    BY <2>4, <2>5
  <2>8. QED
    BY <2>3, <2>6, <2>7
<1> DEFINE F == [k \in Nat |-> f[k][k]]
<1>8. ASSUME NEW k \in Nat PROVE F[k] = Enc(F, k)
  <2>1. CASE k < Group
    <3>1. Enc(F, k) = <<k>> /\ F[k] = f[k][k]
      BY <2>1
    <3>2. CASE k = 0
      BY <1>5, <3>1, <3>2
    <3>3. CASE k > 0
      <4>1. k - 1 \in Nat /\ k - 1 + 1 = k
        BY <3>3
      <4>2. f[k][k] = Enc(f[k - 1], k)
        BY <1>4, <4>1
      <4>3. QED
        BY <2>1, <3>1, <4>2
    <3>4. QED
      BY <3>2, <3>3
  <2>2. CASE k >= Group
    <3>1. k - 1 \in Nat /\ k - 1 + 1 = k /\ ~(k < Group)
      BY <2>2, GroupAssumption
    <3>2. f[k][k] = Enc(f[k - 1], k)
      BY <1>4, <3>1
    <3>3. k \div Group \in Nat /\ k \div Group \in 0..(k - 1)
      BY <2>2, Division
    <3>4. f[k - 1][k \div Group] = f[k \div Group][k \div Group]
      BY <1>7, <3>1, <3>3
    <3>5. F[k \div Group] = f[k \div Group][k \div Group] /\ F[k] = f[k][k]
      BY <3>3
    <3>6. QED
      BY <3>1, <3>2, <3>4, <3>5
  <2>3. QED
    BY <2>1, <2>2, GroupAssumption
<1>9. F = [k \in Nat |-> Enc(F, k)]
  <2>1. \A k \in Nat : F[k] = Enc(F, k)
    BY <1>8
  <2>2. F = [k \in Nat |-> F[k]]
    OBVIOUS
  <2> HIDE DEF F, Enc
  <2>3. QED
    BY <2>1, <2>2
<1>10. \E g : g = [k \in Nat |-> IF k < Group THEN <<k>>
                                 ELSE <<Group + (k % Group)>> \o g[k \div Group]]
  <2> HIDE DEF F
  <2>1. QED
    BY <1>9
<1>11. QED
  BY <1>10 DEF VarUint

LEMMA VarUintIs ==
    \A k \in Nat :
        /\ k < Group => VarUint[k] = <<k>>
        /\ k >= Group =>
              VarUint[k] = <<Group + (k % Group)>> \o VarUint[k \div Group]
<1> HIDE DEF Group
<1>1. ASSUME NEW k \in Nat
      PROVE  VarUint[k] = IF k < Group THEN <<k>>
                          ELSE <<Group + (k % Group)>> \o VarUint[k \div Group]
  BY VarUintDef
<1>2. ASSUME NEW k \in Nat, k >= Group PROVE ~(k < Group)
  BY <1>2, GroupAssumption
<1>3. QED
  BY <1>1, <1>2, Zenon

LEMMA Concat ==
    ASSUME NEW s \in Seq(Nat), NEW t \in Seq(Nat)
    PROVE  /\ s \o t \in Seq(Nat)
           /\ Len(s) \in Nat /\ Len(t) \in Nat
           /\ Len(s \o t) = Len(s) + Len(t)
           /\ \A i \in 1..Len(s) : (s \o t)[i] = s[i]
           /\ \A i \in 1..Len(t) : (s \o t)[Len(s) + i] = t[i]
OBVIOUS

LEMMA VarUintType == \A k \in Nat : VarUint[k] \in Seq(Nat) /\ Len(VarUint[k]) >= 1
<1> HIDE DEF Group
<1> DEFINE Bad == {k \in Nat : ~(VarUint[k] \in Seq(Nat) /\ Len(VarUint[k]) >= 1)}
<1>1. SUFFICES ASSUME Bad # {} PROVE FALSE
  OBVIOUS
<1>2. PICK k \in Bad : \A i \in Bad : k <= i
  <2>1. Bad \subseteq Nat
    OBVIOUS
  <2> HIDE DEF Bad
  <2>2. QED
    BY <1>1, <2>1, Least
<1>3. CASE k < Group
  <2>1. VarUint[k] = <<k>>
    BY <1>3, VarUintIs
  <2>2. k \in Nat /\ <<k>> \in Seq(Nat) /\ Len(<<k>>) = 1
    OBVIOUS
  <2>3. VarUint[k] \in Seq(Nat) /\ Len(VarUint[k]) >= 1
    BY <2>1, <2>2
  <2>4. QED
    BY <2>3
<1>4. CASE k >= Group
  <2>1. /\ k \div Group \in Nat /\ k \div Group < k
        /\ k % Group \in 0..(Group - 1)
    BY <1>4, Division
  <2>2. VarUint[k \div Group] \in Seq(Nat)
    BY <1>2, <2>1
  <2>3. VarUint[k] = <<Group + (k % Group)>> \o VarUint[k \div Group]
    BY <1>4, VarUintIs
  <2>4. Group + (k % Group) \in Nat
    BY <2>1, GroupAssumption
  <2> DEFINE head == <<Group + (k % Group)>>
             rest == VarUint[k \div Group]
  <2>5. head \in Seq(Nat) /\ Len(head) = 1 /\ rest \in Seq(Nat)
    BY <2>2, <2>4
  <2> HIDE DEF head, rest
  <2>6. head \o rest \in Seq(Nat) /\ Len(head \o rest) >= 1
    BY <2>5, Concat
  <2>7. VarUint[k] \in Seq(Nat) /\ Len(VarUint[k]) >= 1
    BY <2>3, <2>6 DEF head, rest
  <2>8. QED
    BY <2>7
<1>5. QED
  BY <1>3, <1>4, GroupAssumption


\* The reader, likewise: the one that may read n bytes is made from the one
\* that may read n - 1.
LEMMA ReadVarUintDef ==
    ReadVarUint =
      [left \in Nat |-> [bs \in Seq(Nat) |-> [at \in Positions |->
        IF left = 0 \/ at > Len(bs) THEN Short
        ELSE IF bs[at] < Group THEN Read(bs[at], at + 1)
        ELSE LET rest == ReadVarUint[left - 1][bs][at + 1]
             IN  IF rest = Short THEN Short
                 ELSE Read(bs[at] - Group + Group * rest.v, rest.at)]]]
<1> HIDE DEF Group
<1> DEFINE Found == [v : Nat, at : Nat]
           V == [Seq(Nat) -> [Positions -> Found]]
           More(rest, b) == IF rest = Short THEN Short
                            ELSE Read(b - Group + Group * rest.v, rest.at)
           Dec(r, bs, at) == IF at > Len(bs) THEN Short
                             ELSE IF bs[at] < Group THEN Read(bs[at], at + 1)
                             ELSE More(r[bs][at + 1], bs[at])
           z == [bs \in Seq(Nat) |-> [at \in Positions |-> Short]]
           G == [r \in V |->
                   [bs \in Seq(Nat) |-> [at \in Positions |-> Dec(r, bs, at)]]]
<1>1. Short \in Found
  BY DEF Short, Read
<1>2. z \in V
  <2> HIDE DEF Found
  <2>1. QED
    BY <1>1
<1>3. ASSUME NEW r \in V, NEW bs \in Seq(Nat), NEW at \in Positions
      PROVE  Dec(r, bs, at) \in Found
  <2>1. at \in Nat /\ at > 0 /\ at + 1 \in Positions /\ Len(bs) \in Nat
    BY DEF Positions
  <2>2. CASE at > Len(bs)
    BY <1>1, <2>2
  <2>3. CASE at <= Len(bs)
    <3>1. bs[at] \in Nat /\ ~(at > Len(bs))
      BY <2>1, <2>3
    <3>2. CASE bs[at] < Group
      BY <3>1, <3>2, <2>1 DEF Read
    <3>3. CASE ~(bs[at] < Group)
      <4>1. r[bs][at + 1] \in Found
        BY <2>1
      <4>2. ASSUME NEW rest \in Found PROVE More(rest, bs[at]) \in Found
        <5>1. bs[at] - Group \in Nat /\ Group * rest.v \in Nat /\ rest.at \in Nat
          BY <3>1, <3>3, GroupAssumption
        <5>2. bs[at] - Group + Group * rest.v \in Nat
          BY <5>1
        <5>3. QED
          BY <1>1, <5>1, <5>2 DEF Read
      <4>3. Dec(r, bs, at) = More(r[bs][at + 1], bs[at])
        <5> HIDE DEF More
        <5>1. QED
          BY <3>1, <3>3
      <4> HIDE DEF Dec, More
      <4>4. QED
        BY <4>1, <4>2, <4>3
    <3>4. QED
      BY <3>2, <3>3
  <2>4. QED
    BY <2>1, <2>2, <2>3
<1>4. G \in [V -> V]
  <2> HIDE DEF Dec, Found
  <2>1. ASSUME NEW r \in V
        PROVE  [bs \in Seq(Nat) |-> [at \in Positions |-> Dec(r, bs, at)]] \in V
    BY <1>3
  <2> HIDE DEF V
  <2>2. QED
    BY <2>1
<1>5. PICK f \in [Nat -> V] : /\ f[0] = z
                              /\ \A n \in Nat : f[n + 1] = G[f[n]]
  <2> HIDE DEF V, z, G
  <2>1. QED
    BY <1>2, <1>4, Iterates
<1> DEFINE Row(g, left, bs, at) ==
             IF left = 0 \/ at > Len(bs) THEN Short
             ELSE IF bs[at] < Group THEN Read(bs[at], at + 1)
             ELSE More(g[left - 1][bs][at + 1], bs[at])
<1>6. ASSUME NEW left \in Nat
      PROVE  f[left] = [bs \in Seq(Nat) |-> [at \in Positions |-> Row(f, left, bs, at)]]
  <2>1. CASE left = 0
    <3>1. \A bs \in Seq(Nat), at \in Positions : Row(f, left, bs, at) = Short
      BY <2>1
    <3> HIDE DEF Row, V
    <3>2. QED
      BY <1>5, <2>1, <3>1
  <2>2. CASE left > 0
    <3>1. left - 1 \in Nat /\ left - 1 + 1 = left
      BY <2>2
    <3>2. f[left] = G[f[left - 1]] /\ f[left - 1] \in V
      <4> HIDE DEF G, V, z
      <4>1. QED
        BY <1>5, <3>1
    <3>3. f[left] = [bs \in Seq(Nat) |-> [at \in Positions |-> Dec(f[left - 1], bs, at)]]
      <4> HIDE DEF V, Dec
      <4>1. QED
        BY <3>2
    <3>4. \A bs \in Seq(Nat), at \in Positions :
             Dec(f[left - 1], bs, at) = Row(f, left, bs, at)
      <4> HIDE DEF More
      <4>1. QED
        BY <2>2
    <3> HIDE DEF Dec, Row
    <3>5. QED
      BY <3>3, <3>4
  <2>3. QED
    BY <2>1, <2>2
<1>7. f = [left \in Nat |-> [bs \in Seq(Nat) |-> [at \in Positions |->
             Row(f, left, bs, at)]]]
  <2>1. f = [left \in Nat |-> f[left]]
    <3> HIDE DEF V
    <3>1. QED
      OBVIOUS
  <2> HIDE DEF Row
  <2>2. QED
    BY <1>6, <2>1
<1>8. QED
  BY <1>7 DEF ReadVarUint

LEMMA ReadVarUintIs ==
    ASSUME NEW left \in Nat, NEW bs \in Seq(Nat), NEW at \in Positions,
           left > 0, at <= Len(bs)
    PROVE  /\ bs[at] < Group => ReadVarUint[left][bs][at] = Read(bs[at], at + 1)
           /\ \A v \in Nat, next \in Positions :
                 (bs[at] >= Group /\ ReadVarUint[left - 1][bs][at + 1] = Read(v, next))
                 => ReadVarUint[left][bs][at] = Read(bs[at] - Group + Group * v, next)
<1> HIDE DEF Group
<1>1. left # 0 /\ ~(at > Len(bs)) /\ bs[at] \in Nat
  BY DEF Positions
<1> DEFINE Cell(l, b, a) ==
             IF l = 0 \/ a > Len(b) THEN Short
             ELSE IF b[a] < Group THEN Read(b[a], a + 1)
             ELSE LET rest == ReadVarUint[l - 1][b][a + 1]
                  IN  IF rest = Short THEN Short
                      ELSE Read(b[a] - Group + Group * rest.v, rest.at)
           Line(l, b) == [a \in Positions |-> Cell(l, b, a)]
           Table(l) == [b \in Seq(Nat) |-> Line(l, b)]
<1>2. ReadVarUint[left][bs][at] = Cell(left, bs, at)
  <2>1. ReadVarUint = [l \in Nat |-> Table(l)]
    BY ReadVarUintDef
  <2> HIDE DEF Table
  <2>2. ReadVarUint[left] = Table(left)
    BY <2>1
  <2> HIDE DEF Line
  <2>3. Table(left)[bs] = Line(left, bs)
    BY DEF Table
  <2> HIDE DEF Cell
  <2>4. Line(left, bs)[at] = Cell(left, bs, at)
    BY DEF Line
  <2>5. QED
    BY <2>2, <2>3, <2>4
<1>3. ASSUME bs[at] < Group
      PROVE  ReadVarUint[left][bs][at] = Read(bs[at], at + 1) /\ ~(bs[at] >= Group)
  <2>1. Cell(left, bs, at) = Read(bs[at], at + 1)
    BY <1>1, <1>3
  <2>2. ~(bs[at] >= Group)
    BY <1>1, <1>3, GroupAssumption
  <2> HIDE DEF Cell
  <2>3. QED
    BY <1>2, <2>1, <2>2
<1>4. ASSUME bs[at] >= Group, NEW v \in Nat, NEW next \in Positions,
             ReadVarUint[left - 1][bs][at + 1] = Read(v, next)
      PROVE  ReadVarUint[left][bs][at] = Read(bs[at] - Group + Group * v, next)
  <2>1. ~(bs[at] < Group)
    BY <1>1, <1>4, GroupAssumption
  <2>2. Read(v, next) # Short /\ Read(v, next).v = v /\ Read(v, next).at = next
    BY DEF Read, Short, Positions
  <2>3. Cell(left, bs, at) = Read(bs[at] - Group + Group * v, next)
    BY <1>1, <1>4, <2>1, <2>2
  <2> HIDE DEF Cell
  <2>4. QED
    BY <1>2, <2>3
<1> HIDE DEF Cell
<1>5. QED
  BY <1>3, <1>4


-----------------------------------------------------------------------------
(* Varint: reading back. *)

\* The bytes part stand in bs from the position at on.
Stands(part, bs, at) ==
    /\ at + Len(part) - 1 <= Len(bs)
    /\ \A i \in 1..Len(part) : bs[at + i - 1] = part[i]

LEMMA Rebuilt ==
    ASSUME NEW q \in Nat, NEW r \in Nat
    PROVE  (Group + r) - Group + Group * q = Group * q + r
<1> DEFINE p == Group * q
<1>1. p \in Nat /\ Group \in Nat
  BY GroupAssumption
<1> HIDE DEF p, Group
<1>2. QED
  BY <1>1 DEF p

\* A smaller quotient, for a number below Group times p.
LEMMA QuotientBelow ==
    ASSUME NEW q \in Nat, NEW r \in Nat, NEW p \in Nat,
           Group * q + r < Group * p
    PROVE  q < p
<1> HIDE DEF Group
<1>1. SUFFICES ASSUME NEW d \in Nat, q = p + d PROVE FALSE
  <2>1. q >= p => q - p \in Nat /\ q = p + (q - p)
    OBVIOUS
  <2>2. QED
    BY <2>1
<1>2. Group * (p + d) = Group * p + Group * d
  BY GroupAssumption
<1>3. Group * p \in Nat /\ Group * d \in Nat
  BY GroupAssumption
<1>4. QED
  BY <1>1, <1>2, <1>3

LEMMA ReadsBack ==
    \A k \in Nat : \A bs \in Seq(Nat), at \in Positions, left \in Nat :
        Len(VarUint[k]) <= left /\ Stands(VarUint[k], bs, at)
        => ReadVarUint[left][bs][at] = Read(k, at + Len(VarUint[k]))
<1> HIDE DEF Group
<1> DEFINE Back(k) ==
             \A bs \in Seq(Nat), at \in Positions, left \in Nat :
               Len(VarUint[k]) <= left /\ Stands(VarUint[k], bs, at)
               => ReadVarUint[left][bs][at] = Read(k, at + Len(VarUint[k]))
           Bad == {k \in Nat : ~Back(k)}
<1>1. SUFFICES ASSUME Bad # {} PROVE FALSE
  OBVIOUS
<1>2. PICK k \in Bad : \A i \in Bad : k <= i
  <2>1. Bad \subseteq Nat
    OBVIOUS
  <2> HIDE DEF Bad
  <2>2. QED
    BY <1>1, <2>1, Least
<1>3. k \in Nat /\ ~Back(k)
  OBVIOUS
<1>4. SUFFICES ASSUME NEW bs \in Seq(Nat), NEW at \in Positions, NEW left \in Nat,
                      Len(VarUint[k]) <= left, Stands(VarUint[k], bs, at)
               PROVE  ReadVarUint[left][bs][at] = Read(k, at + Len(VarUint[k]))
  BY <1>3
<1> HIDE DEF Back, Bad
<1>5. VarUint[k] \in Seq(Nat) /\ Len(VarUint[k]) \in Nat /\ Len(VarUint[k]) >= 1
  BY <1>3, VarUintType
<1>6. /\ at \in Nat /\ at > 0 /\ left > 0
      /\ at <= Len(bs) /\ bs[at] = VarUint[k][1]
  <2>1. at \in Nat /\ at > 0 /\ Len(bs) \in Nat /\ left > 0
    BY <1>4, <1>5 DEF Positions
  <2>2. at <= Len(bs)
    BY <1>4, <1>5, <2>1 DEF Stands
  <2>3. 1 \in 1..Len(VarUint[k]) /\ at + 1 - 1 = at
    BY <1>5, <2>1
  <2>4. bs[at + 1 - 1] = VarUint[k][1]
    BY <1>4, <2>3 DEF Stands
  <2>5. QED
    BY <2>1, <2>2, <2>3, <2>4
<1>7. CASE k < Group
  <2>1. VarUint[k] = <<k>>
    BY <1>3, <1>7, VarUintIs
  <2>2. Len(VarUint[k]) = 1 /\ VarUint[k][1] = k
    BY <2>1
  <2>3. ReadVarUint[left][bs][at] = Read(bs[at], at + 1)
    BY <1>6, <1>7, <2>2, ReadVarUintIs
  <2>4. QED
    BY <1>6, <2>2, <2>3
<1>8. CASE k >= Group
  <2> DEFINE q == k \div Group
             r == k % Group
             rest == VarUint[q]
  <2>1. /\ q \in Nat /\ q < k /\ r \in 0..(Group - 1)
        /\ k = Group * q + r
    BY <1>3, <1>8, Division
  <2>2. VarUint[k] = <<Group + r>> \o rest
    BY <1>3, <1>8, VarUintIs
  <2> HIDE DEF q, r
  <2>3. r \in Nat /\ Group + r \in Nat /\ Group + r >= Group
    BY <2>1, GroupAssumption
  <2>4. rest \in Seq(Nat) /\ Len(rest) \in Nat
    BY <2>1, VarUintType
  <2> HIDE DEF rest
  <2>5. /\ Len(VarUint[k]) = Len(rest) + 1
        /\ VarUint[k][1] = Group + r
        /\ \A i \in 1..Len(rest) : VarUint[k][i + 1] = rest[i]
    <3> DEFINE b == Group + r
    <3>1. b \in Nat /\ VarUint[k] = <<b>> \o rest
      BY <2>2, <2>3
    <3> HIDE DEF b
    <3>2. QED
      BY <2>4, <3>1 DEF b
  <2>6. left - 1 \in Nat /\ at + 1 \in Positions /\ Len(rest) <= left - 1
    BY <1>4, <1>6, <2>4, <2>5 DEF Positions
  <2>7. Stands(rest, bs, at + 1)
    <3>1. at + 1 + Len(rest) - 1 <= Len(bs)
      BY <1>4, <1>6, <2>4, <2>5 DEF Stands
    <3>2. ASSUME NEW i \in 1..Len(rest) PROVE bs[at + 1 + i - 1] = rest[i]
      <4>1. i + 1 \in 1..Len(VarUint[k]) /\ at + (i + 1) - 1 = at + 1 + i - 1
        <5>1. i \in Nat /\ i >= 1 /\ i <= Len(rest) /\ at \in Nat
          BY <1>6, <2>4
        <5>2. i + 1 \in 1..(Len(rest) + 1)
          BY <2>4, <5>1
        <5>3. QED
          BY <2>5, <5>1, <5>2
      <4>2. bs[at + (i + 1) - 1] = VarUint[k][i + 1]
        BY <1>4, <4>1 DEF Stands
      <4>3. QED
        BY <2>5, <4>1, <4>2
    <3>3. QED
      BY <3>1, <3>2 DEF Stands
  <2>8. Back(q)
    <3>1. q \notin Bad
      BY <1>2, <1>3, <2>1
    <3>2. QED
      BY <2>1, <3>1 DEF Bad
  <2>9. ReadVarUint[left - 1][bs][at + 1] = Read(q, at + 1 + Len(rest))
    BY <2>6, <2>7, <2>8 DEF Back, rest
  <2>10. at + 1 + Len(rest) \in Positions
    BY <1>6, <2>4 DEF Positions
  <2>11. bs[at] = Group + r
    BY <1>6, <2>5
  <2>12. ReadVarUint[left][bs][at] = Read(bs[at] - Group + Group * q, at + 1 + Len(rest))
    BY <1>6, <2>1, <2>3, <2>9, <2>10, <2>11, ReadVarUintIs
  <2>13. bs[at] - Group + Group * q = k /\ at + 1 + Len(rest) = at + Len(VarUint[k])
    <3>1. bs[at] - Group + Group * q = k
      BY <2>1, <2>3, <2>11, Rebuilt
    <3>2. at + 1 + Len(rest) = at + Len(VarUint[k])
      BY <1>6, <2>4, <2>5
    <3>3. QED
      BY <3>1, <3>2
  <2>14. QED
    BY <2>12, <2>13
<1>9. QED
  BY <1>3, <1>7, <1>8, GroupAssumption

\* Every number is read back from what was written of it, whatever stands
\* before and after it in the body, by a reader that may take that many bytes.
THEOREM VarUintReadsBack ==
    ASSUME NEW k \in Nat, NEW before \in Seq(Nat), NEW after \in Seq(Nat),
           NEW left \in Nat, Len(VarUint[k]) <= left
    PROVE  ReadVarUint[left][before \o VarUint[k] \o after][Len(before) + 1]
             = Read(k, Len(before) + Len(VarUint[k]) + 1)
<1> DEFINE part == VarUint[k]
           bs   == before \o part \o after
           at   == Len(before) + 1
<1>1. part \in Seq(Nat)
  BY VarUintType
<1> HIDE DEF part
<1>2. /\ before \o part \in Seq(Nat) /\ bs \in Seq(Nat)
      /\ Len(before) \in Nat /\ Len(part) \in Nat /\ Len(after) \in Nat
      /\ Len(bs) = Len(before) + Len(part) + Len(after)
      /\ at \in Positions
  BY <1>1, Concat DEF Positions
<1>3. ASSUME NEW i \in 1..Len(part) PROVE bs[at + i - 1] = part[i]
  <2>1. /\ Len(before) + i \in 1..Len(before \o part)
        /\ at + i - 1 = Len(before) + i
    BY <1>1, <1>2, Concat
  <2>2. bs[Len(before) + i] = (before \o part)[Len(before) + i]
    BY <1>2, <2>1, Concat
  <2>3. (before \o part)[Len(before) + i] = part[i]
    BY <1>1, Concat
  <2>4. QED
    BY <2>1, <2>2, <2>3
<1>4. Stands(part, bs, at)
  BY <1>2, <1>3 DEF Stands
<1> HIDE DEF bs, at
<1>5. ReadVarUint[left][bs][at] = Read(k, at + Len(part))
  BY <1>2, <1>4, ReadsBack DEF part
<1>6. at + Len(part) = Len(before) + Len(part) + 1
  BY <1>2 DEF at
<1>7. QED
  BY <1>5, <1>6 DEF part, bs, at

\* No varint is another one, or the beginning of another one, so a length, a
\* count or a number cannot swallow a byte of what follows it.
THEOREM VarUintUnambiguous ==
    ASSUME NEW k \in Nat, NEW l \in Nat, NEW x \in Seq(Nat), NEW y \in Seq(Nat),
           VarUint[k] \o x = VarUint[l] \o y
    PROVE  k = l
<1> DEFINE left == Len(VarUint[k]) + Len(VarUint[l])
<1>1. Len(VarUint[k]) \in Nat /\ Len(VarUint[l]) \in Nat
  BY VarUintType
<1>2. left \in Nat /\ Len(VarUint[k]) <= left /\ Len(VarUint[l]) <= left
  <2>1. \A a, b \in Nat : a + b \in Nat /\ a <= a + b /\ b <= a + b
    OBVIOUS
  <2>2. QED
    BY <1>1, <2>1
<1> HIDE DEF left
<1>3. ASSUME NEW m \in Nat, NEW z \in Seq(Nat), Len(VarUint[m]) <= left
      PROVE  ReadVarUint[left][VarUint[m] \o z][1].v = m
  <2>1. VarUint[m] \in Seq(Nat) /\ Len(VarUint[m]) \in Nat
    BY VarUintType
  <2>2. <<>> \in Seq(Nat) /\ Len(<<>>) = 0 /\ <<>> \o VarUint[m] = VarUint[m]
    BY <2>1
  <2>3. ReadVarUint[left][<<>> \o VarUint[m] \o z][Len(<<>>) + 1]
          = Read(m, Len(<<>>) + Len(VarUint[m]) + 1)
    BY <1>2, <1>3, <2>2, VarUintReadsBack
  <2>4. Len(<<>>) + 1 = 1
    BY <2>2
  <2>5. ReadVarUint[left][VarUint[m] \o z][1] = Read(m, Len(<<>>) + Len(VarUint[m]) + 1)
    BY <2>2, <2>3, <2>4
  <2>6. QED
    BY <2>5 DEF Read
<1>4. ReadVarUint[left][VarUint[k] \o x][1].v = k
  BY <1>2, <1>3
<1>5. ReadVarUint[left][VarUint[l] \o y][1].v = l
  BY <1>2, <1>3
<1>6. QED
  BY <1>4, <1>5, Zenon

\* A number below Group^n takes at most n bytes; power is the sequence of these
\* powers.  With 64 bits in groups of seven, ten bytes are enough: the bound of
\* decodeViewVarUint refuses nothing serializeVarUint64 wrote.
THEOREM VarUintFits ==
    ASSUME NEW power \in [Nat -> Nat], power[0] = 1,
           \A n \in Nat : power[n + 1] = Group * power[n]
    PROVE  \A n \in Nat \ {0} : \A k \in Nat :
             k < power[n] => Len(VarUint[k]) <= n
<1> HIDE DEF Group
<1> DEFINE Bad == {n \in Nat \ {0} : \E k \in Nat : k < power[n] /\ ~(Len(VarUint[k]) <= n)}
<1>1. SUFFICES ASSUME Bad # {} PROVE FALSE
  OBVIOUS
<1>2. PICK n \in Bad : \A i \in Bad : n <= i
  <2>1. Bad \subseteq Nat
    OBVIOUS
  <2> HIDE DEF Bad
  <2>2. QED
    BY <1>1, <2>1, Least
<1>3. PICK k \in Nat : k < power[n] /\ ~(Len(VarUint[k]) <= n)
  OBVIOUS
<1>3a. n \in Nat \ {0}
  OBVIOUS
<1> HIDE DEF Bad
<1>4. n \in Nat /\ n >= 1 /\ n - 1 \in Nat /\ n - 1 + 1 = n
  BY <1>3a
<1>5. k >= Group
  <2>1. CASE k < Group
    <3>1. VarUint[k] = <<k>>
      BY <2>1, VarUintIs
    <3>2. Len(VarUint[k]) = 1
      BY <3>1
    <3>3. QED
      BY <1>3, <1>4, <3>2
  <2>2. QED
    BY <2>1, GroupAssumption
<1> DEFINE q == k \div Group
<1>6. q \in Nat /\ k % Group \in 0..(Group - 1) /\ k = Group * q + (k % Group)
  BY <1>5, Division
<1>7. /\ VarUint[k] = <<Group + (k % Group)>> \o VarUint[q]
      /\ VarUint[q] \in Seq(Nat) /\ Len(VarUint[q]) \in Nat
  <2>1. VarUint[k] = <<Group + (k % Group)>> \o VarUint[q]
    BY <1>5, VarUintIs
  <2> HIDE DEF q
  <2>2. VarUint[q] \in Seq(Nat)
    BY <1>6, VarUintType
  <2>3. Len(VarUint[q]) \in Nat
    <3>1. \A s \in Seq(Nat) : Len(s) \in Nat
      OBVIOUS
    <3>2. QED
      BY <2>2, <3>1
  <2>4. QED
    BY <2>1, <2>2, <2>3, Zenon
<1>8. Len(VarUint[k]) = Len(VarUint[q]) + 1
  <2>1. Group + (k % Group) \in Nat
    BY <1>6, GroupAssumption
  <2> HIDE DEF q
  <2>2. <<Group + (k % Group)>> \in Seq(Nat) /\ Len(<<Group + (k % Group)>>) = 1
    BY <2>1
  <2>3. QED
    BY <1>7, <2>2, Concat
<1> HIDE DEF q
<1>9. power[n] = Group * power[n - 1] /\ power[n - 1] \in Nat
  BY <1>4
<1>10. q < power[n - 1]
  <2>1. k % Group \in Nat
    BY <1>6, GroupAssumption
  <2>2. Group * q + (k % Group) < Group * power[n - 1]
    BY <1>3, <1>6, <1>9
  <2>3. QED
    BY <1>6, <1>9, <2>1, <2>2, QuotientBelow
<1>11. CASE n = 1
  <2>1. power[n - 1] = 1
    BY <1>11
  <2>2. power[n] = Group
    BY <1>9, <2>1, GroupAssumption
  <2>3. QED
    BY <1>3, <1>5, <2>2, GroupAssumption
<1>12. CASE n > 1
  <2>1. n - 1 \in Nat \ {0} /\ n - 1 < n
    BY <1>4, <1>12
  <2>2. n - 1 \notin Bad
    BY <1>2, <1>4, <2>1
  <2>3. Len(VarUint[q]) <= n - 1
    BY <1>6, <1>10, <2>1, <2>2 DEF Bad
  <2>4. \A a \in Nat : a <= n - 1 => a + 1 <= n
    BY <1>4
  <2>5. Len(VarUint[k]) <= n
    BY <1>7, <1>8, <2>3, <2>4
  <2>6. QED
    BY <1>3, <2>5
<1>13. QED
  BY <1>4, <1>11, <1>12
=============================================================================
