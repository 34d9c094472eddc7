------------------------------ MODULE TxOutcome ------------------------------
(***************************************************************************)
(* What a caller of flowSendTx may rely on.  The node may accept a         *)
(* transaction at any moment after the call, even after an error was       *)
(* returned; what it accepted it finishes once.  "ok" is answered only for *)
(* a finished transaction, an error that names the hash only for an        *)
(* accepted one, and each call answers once.                               *)
(***************************************************************************)
CONSTANT Txs

Final == {"success", "failed", "prefail"}

VARIABLES chain, answer

vars == <<chain, answer>>

Init ==
    /\ chain = [t \in Txs |-> "unknown"]
    /\ answer = [t \in Txs |-> "none"]

Accept(t) ==
    /\ chain[t] = "unknown"
    /\ chain' = [chain EXCEPT ![t] = "pending"]
    /\ UNCHANGED answer

Finish(t) ==
    /\ chain[t] = "pending"
    /\ \E f \in Final : chain' = [chain EXCEPT ![t] = f]
    /\ UNCHANGED answer

Answer(t, a) ==
    /\ answer[t] = "none"
    /\ a = "ok" => chain[t] \in Final
    /\ a = "errorWithHash" => chain[t] # "unknown"
    /\ answer' = [answer EXCEPT ![t] = a]
    /\ UNCHANGED chain

Next ==
    \E t \in Txs :
        \/ Accept(t) \/ Finish(t)
        \/ \E a \in {"ok", "error", "errorWithHash"} : Answer(t, a)

Spec == Init /\ [][Next]_vars
=============================================================================
