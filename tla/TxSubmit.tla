------------------------------ MODULE TxSubmit ------------------------------
(***************************************************************************)
(* One call of flowSendTx (handler/flow_helpers.go) per transaction: the   *)
(* submission over HTTP with its retries (gosdk-develop/tools/http.go,     *)
(* rpcClientV1.go SubmitTx) and the polling for the result                 *)
(* (WaitForTransaction).  sftFlowSendWait is the same call with a check of *)
(* the receipt at the end.  The node and the network are external: copies  *)
(* of a request may be lost or arrive after the client gave up on them,    *)
(* and so may answers.                                                     *)
(***************************************************************************)
EXTENDS Naturals

CONSTANTS
    Txs,        \* the transactions, one call each
    Checked,    \* those sent with sftFlowSendWait, the others with flowSendTx
    MaxRetries, \* attempts of one HTTP POST (maxRetries = 3)
    MaxPolls    \* polls before the deadline (pollTimeout / pollPeriod)

ASSUME TxAssumption ==
    /\ Checked \subseteq Txs
    /\ MaxRetries \in Nat \ {0}
    /\ MaxPolls \in Nat \ {0}

VARIABLES
    pc,       \* where the call is
    attempt,  \* attempts of the POST made so far
    polls,    \* polls made so far
    wire,     \* attempts whose request the node has not received yet
    reply,    \* the node's answer to the current attempt
    result,   \* what the call returned
    chain     \* the state of the transaction at the node

clientVars == <<pc, attempt, polls, result>>
vars == <<clientVars, wire, reply, chain>>

Final    == {"success", "failed", "prefail"}
Attempts == 1..MaxRetries
Replies  == {"none", "ok", "rejected", "5xx"}
\* An error "error" comes without the hash, "rejected" is one that carries the
\* node's code, "errorWithHash" is returned once the submission succeeded.
Results  == {"none", "ok", "error", "rejected", "errorWithHash"}

TypeOK ==
    /\ pc \in [Txs -> {"idle", "post", "sent", "poll", "done"}]
    /\ attempt \in [Txs -> 0..MaxRetries]
    /\ polls \in [Txs -> 0..MaxPolls]
    /\ wire \in [Txs -> SUBSET Attempts]
    /\ reply \in [Txs -> Replies]
    /\ result \in [Txs -> Results]
    /\ chain \in [Txs -> {"unknown", "pending"} \cup Final]

Init ==
    /\ pc = [t \in Txs |-> "idle"]
    /\ attempt = [t \in Txs |-> 0]
    /\ polls = [t \in Txs |-> 0]
    /\ wire = [t \in Txs |-> {}]
    /\ reply = [t \in Txs |-> "none"]
    /\ result = [t \in Txs |-> "none"]
    /\ chain = [t \in Txs |-> "unknown"]

Return(t, r) ==
    /\ pc' = [pc EXCEPT ![t] = "done"]
    /\ result' = [result EXCEPT ![t] = r]

-----------------------------------------------------------------------------
(* Mistakes, refuted by the properties. *)

\* The submission's error is ignored and the wait is started anyway.
NetErrorIgnored(t) ==
    /\ pc[t] = "sent"
    /\ pc' = [pc EXCEPT ![t] = IF attempt[t] < MaxRetries THEN "post" ELSE "poll"]
    /\ UNCHANGED <<attempt, polls, wire, reply, result, chain>>

\* The bound is applied to a counter that every retry sets back.
NetErrorForever(t) ==
    /\ pc[t] = "sent"
    /\ pc' = [pc EXCEPT ![t] = "post"]
    /\ attempt' = [attempt EXCEPT ![t] = 0]
    /\ UNCHANGED <<polls, wire, reply, result, chain>>

\* Every retry is counted as the first attempt.
PostUncounted(t) ==
    /\ pc[t] = "post"
    /\ attempt' = [attempt EXCEPT ![t] = 1]
    /\ wire' = [wire EXCEPT ![t] = @ \cup {1}]
    /\ reply' = [reply EXCEPT ![t] = "none"]
    /\ pc' = [pc EXCEPT ![t] = "sent"]
    /\ UNCHANGED <<polls, result, chain>>

\* The receipt of a checked transaction is not looked at.
PollUnchecked(t) ==
    /\ pc[t] = "poll"
    /\ polls[t] < MaxPolls
    /\ chain[t] \in Final
    /\ Return(t, "ok")
    /\ UNCHANGED <<attempt, polls, wire, reply, chain>>

-----------------------------------------------------------------------------
(* The client *)

Call(t) ==
    /\ pc[t] = "idle"
    /\ pc' = [pc EXCEPT ![t] = "post"]
    /\ UNCHANGED <<attempt, polls, wire, reply, result, chain>>

\* One attempt of httpPost, with a fresh body.
Post(t) ==
    /\ pc[t] = "post"
    /\ attempt' = [attempt EXCEPT ![t] = @ + 1]
    /\ wire' = [wire EXCEPT ![t] = @ \cup {attempt[t] + 1}]
    /\ reply' = [reply EXCEPT ![t] = "none"]
    /\ pc' = [pc EXCEPT ![t] = "sent"]
    /\ UNCHANGED <<polls, result, chain>>

\* The answer arrives: 5xx is retried while attempts are left, everything else
\* ends the POST.
Response(t) ==
    /\ pc[t] = "sent"
    /\ reply[t] # "none"
    /\ \/ /\ reply[t] = "ok"
          /\ pc' = [pc EXCEPT ![t] = "poll"]
          /\ UNCHANGED result
       \/ /\ reply[t] = "rejected"
          /\ Return(t, "rejected")
       \/ /\ reply[t] = "5xx"
          /\ IF attempt[t] < MaxRetries
             THEN /\ pc' = [pc EXCEPT ![t] = "post"]
                  /\ UNCHANGED result
             ELSE Return(t, "error")
    /\ UNCHANGED <<attempt, polls, wire, reply, chain>>

\* A dial error, a reset or the 30 s timeout of the HTTP client, before or
\* after the node received the request.
NetError(t) ==
    /\ pc[t] = "sent"
    /\ IF attempt[t] < MaxRetries
       THEN /\ pc' = [pc EXCEPT ![t] = "post"]
            /\ UNCHANGED result
       ELSE Return(t, "error")
    /\ UNCHANGED <<attempt, polls, wire, reply, chain>>

\* The status line came but reading or decoding the body fails: no retry.
BodyError(t) ==
    /\ pc[t] = "sent"
    /\ reply[t] # "none"
    /\ Return(t, "error")
    /\ UNCHANGED <<attempt, polls, wire, reply, chain>>

\* WaitForTransaction sees a receipt that is not pending.
PollFinal(t) ==
    /\ pc[t] = "poll"
    /\ polls[t] < MaxPolls
    /\ chain[t] \in Final
    /\ Return(t, IF t \in Checked /\ chain[t] # "success"
                 THEN "errorWithHash" ELSE "ok")
    /\ UNCHANGED <<attempt, polls, wire, reply, chain>>

\* The poll fails or finds the transaction pending: wait for the ticker.
PollAgain(t) ==
    /\ pc[t] = "poll"
    /\ polls[t] < MaxPolls
    /\ polls' = [polls EXCEPT ![t] = @ + 1]
    /\ UNCHANGED <<pc, attempt, wire, reply, result, chain>>

\* The deadline is checked before every poll; polls have a duration of their
\* own, so it may pass after any number of them.
Deadline(t) ==
    /\ pc[t] = "poll"
    /\ polls[t] > 0
    /\ Return(t, "errorWithHash")
    /\ UNCHANGED <<attempt, polls, wire, reply, chain>>

-----------------------------------------------------------------------------
(* The network and the node (external) *)

Lose(t) ==
    /\ \E i \in wire[t] : wire' = [wire EXCEPT ![t] = @ \ {i}]
    /\ UNCHANGED <<clientVars, reply, chain>>

\* The node receives a copy, possibly long after the client gave up on it, and
\* its answer reaches the client only if the client still waits for it.
Receive(t) ==
    \E i \in wire[t], r \in Replies \ {"none"} :
        /\ wire' = [wire EXCEPT ![t] = @ \ {i}]
        /\ r = "ok" =>
              chain' = [chain EXCEPT ![t] = IF @ = "unknown" THEN "pending" ELSE @]
        /\ r # "ok" => UNCHANGED chain
        /\ reply' = IF pc[t] = "sent" /\ i = attempt[t]
                    THEN [reply EXCEPT ![t] = r] ELSE reply
        /\ UNCHANGED clientVars

Execute(t) ==
    /\ chain[t] = "pending"
    /\ \E f \in Final : chain' = [chain EXCEPT ![t] = f]
    /\ UNCHANGED <<clientVars, wire, reply>>

-----------------------------------------------------------------------------
Client(t) ==
    \/ Post(t) \/ Response(t) \/ NetError(t) \/ BodyError(t)
    \/ PollFinal(t) \/ PollAgain(t) \/ Deadline(t)

Node(t) == Lose(t) \/ Receive(t) \/ Execute(t)

Next == \E t \in Txs : Call(t) \/ Client(t) \/ Node(t)

Spec == Init /\ [][Next]_vars

\* Only the client's own goroutine is fair: the HTTP timeout and the deadline
\* come whatever the node and the network do.
FairSpec == Spec /\ \A t \in Txs : WF_vars(Client(t))

-----------------------------------------------------------------------------
(* Properties *)

\* flowSendTx answers ok only for a transaction the chain has finished.
OkMeansFinal == \A t \in Txs : result[t] = "ok" => chain[t] \in Final

\* "txHash is returned too, so that a transaction that was submitted can be
\* traced" (flow_helpers.go:107): the hash is there only if the node knows it.
HashMeansAccepted ==
    \A t \in Txs : result[t] = "errorWithHash" => chain[t] # "unknown"

\* sftFlowSendWait answers ok only for a transaction that took effect.
CheckedOkMeansSuccess ==
    \A t \in Checked : result[t] = "ok" => chain[t] = "success"

\* A rejection of the first attempt is the last word: the transaction is not
\* and will not be accepted.  (After a retry it is not: the lost first attempt
\* may be the accepted one.)
FirstRejectionIsFinal ==
    \A t \in Txs :
        result[t] = "rejected" /\ attempt[t] = 1 =>
            chain[t] = "unknown" /\ wire[t] = {}

\* flow_helpers.go:106: an execution error on the chain is returned as an
\* error, so ok means that the transaction took effect.
OkMeansSuccess == \A t \in Txs : result[t] = "ok" => chain[t] = "success"

\* Every call returns, whatever the node does.
CallReturns == \A t \in Txs : pc[t] = "post" ~> pc[t] = "done"

\* The call with its retries and polls implements the promise of TxOutcome.
Outcome == INSTANCE TxOutcome WITH
    answer <- [t \in Txs |-> IF result[t] = "rejected" THEN "error" ELSE result[t]]

ImplementsOutcome == Outcome!Spec
=============================================================================
