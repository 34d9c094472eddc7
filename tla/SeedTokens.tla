----------------------------- MODULE SeedTokens -----------------------------
(***************************************************************************)
(* The tokens module of a seed job (handler/seed_runner.go runTokens) for  *)
(* one token of the plan: create it, mint what the planned holders lack,   *)
(* freeze a third of one holder's balance, with a mark in the state file   *)
(* after each stage.  Jobs follow one another, a crash may end one at any  *)
(* point and the next starts from the marks that were saved.  The token    *)
(* may exist from a job of another configuration with the same seed        *)
(* phrase; the transfers of other modules are left out.                    *)
(*                                                                         *)
(* Every transaction goes through flowSendTx, of which only the promise    *)
(* (TxOutcome) is used: an answer may be an error although the node takes  *)
(* the transaction, now or later, and may be ok although the chain failed  *)
(* it.                                                                     *)
(***************************************************************************)
EXTENDS Naturals, FiniteSets

CONSTANTS
  Holders,     \* the accounts of spec.MintAmounts and the demo user
  Want,        \* the amount planned for each, 0 for one not in MintAmounts
  Before,      \* balances that a job of another configuration may have left
  Frozen,      \* spec.FreezeDemoUser
  RetryMax,    \* seedMintRetryMax
  MaxSends,    \* bound: transactions sent in a behaviour
  MaxJobs,     \* bound: jobs started in a behaviour
  None         \* nothing sent, nothing read

ASSUME PlanAssumption ==
  /\ Want \in [Holders -> Nat] /\ Before \subseteq [Holders -> Nat]
  /\ Frozen \in Holders
  /\ RetryMax \in Nat \ {0} /\ MaxSends \in Nat /\ MaxJobs \in Nat

VARIABLES
  pc,        \* where the job is
  marks,     \* the job's copy of the marks
  have,      \* the balances read so far
  diff,      \* what the mint stage found missing
  attempt,   \* tries of MintBatch made
  held,      \* the balance the freeze stage read
  saved,     \* the marks in the state file
  outcome,   \* how the last job ended
  jobs,      \* jobs started
  first,     \* transactions sent before the current job
  body,      \* the transactions sent, in order
  chain,     \* the state of each at the node
  answer,    \* the answer flowSendTx gave to each
  created,   \* the token exists
  start,     \* history: the balances at the beginning
  bal,       \* balances on the chain
  frozen,    \* what is frozen of the demo holder's balance
  unacked    \* history: what mints gave each without an answer ok so far

job  == <<pc, marks, have, diff, attempt, held>>
past == <<outcome, jobs, first>>
sends == <<body, chain, answer>>
ledger == <<created, start, bal, frozen, unacked>>
vars == <<job, saved, past, sends, ledger>>

Slots  == 1..MaxSends
Stages == {"create", "mint", "freeze"}
Amounts == [Holders -> Nat]
Nothing == [h \in Holders |-> 0]
Unread  == [h \in Holders |-> None]
Op == [op: {"create"}, by: {Nothing}] \union
      [op: {"mint", "freeze"}, by: Amounts]

ASSUME NoneAssumption == None \notin Nat \union Op

\* The submission and the wait, as far as a caller may rely on them.
Sends == INSTANCE TxOutcome WITH Txs <- Slots

Sent == {n \in Slots : body[n] # None}
Last == Cardinality(Sent)

Init ==
  /\ pc = "idle" /\ marks = {} /\ saved = {}
  /\ have = Unread /\ diff = Nothing /\ attempt = 0 /\ held = 0
  /\ outcome = "none" /\ jobs = 0 /\ first = 0
  /\ body = [n \in Slots |-> None] /\ Sends!Init
  /\ start \in Before /\ bal = start /\ created = (start # Nothing) /\ frozen = 0
  /\ unacked = Nothing

\* A mistake: the whole planned amount is minted to whoever lacks some of it.
MissingWhole(read) == [h \in Holders |-> IF read[h] < Want[h] THEN Want[h] ELSE 0]

\* seedMintDiffs: what each holder lacks.
Missing(read) == [h \in Holders |-> IF read[h] < Want[h] THEN Want[h] - read[h] ELSE 0]
\* seedFreezeAmount.
FreezeAmount(b) == b \div 3
-----------------------------------------------------------------------------
(* Steps of the job. *)

\* state.Mark, then Save, whose error is ignored.
Mark(stage) ==
  /\ marks' = marks \union {stage}
  /\ saved' \in {saved, marks \union {stage}}

End(how) ==
  /\ pc' = "idle" /\ outcome' = how
  /\ have' = Unread /\ diff' = Nothing /\ attempt' = 0 /\ held' = 0

Fail == End("failed") /\ marks' = {} /\ UNCHANGED saved

Goto(at) == pc' = at /\ UNCHANGED outcome

Send(op, by) ==
  /\ Last < MaxSends
  /\ body' = [body EXCEPT ![Last + 1] = [op |-> op, by |-> by]]
  /\ UNCHANGED <<chain, answer>>

\* The answer to the transaction sent last.
Answered(a) == Sends!Answer(Last, a) /\ UNCHANGED body
-----------------------------------------------------------------------------
(* Mistakes: the code as a plausible bug would leave it. *)

\* A marked mint stage is skipped without a look at the balances.
ReadNoneMarked(h) ==
  /\ pc = "read" /\ have[h] = None
  /\ have' = [have EXCEPT ![h] = IF "mint" \in marks THEN Want[h] ELSE bal[h]]
  /\ UNCHANGED <<pc, marks, diff, attempt, held, saved, past, sends, ledger>>

\* The freeze stage does not ask the chain whether it was carried out before.
FreezeBlind ==
  /\ pc = "frozen" /\ FreezeAmount(held) # 0
  /\ Send("freeze", [Nothing EXCEPT ![Frozen] = FreezeAmount(held)])
  /\ Goto("freezeSent")
  /\ UNCHANGED <<marks, have, diff, attempt, held, saved, jobs, first, ledger>>

-----------------------------------------------------------------------------
\* POST /api/tool/seed: the marks are loaded; a reset forgets them and saves.
Start == \E reset \in BOOLEAN :
  /\ pc = "idle" /\ jobs < MaxJobs
  /\ jobs' = jobs + 1 /\ first' = Last
  /\ IF reset THEN marks' = {} /\ saved' \in {saved, {}}
              ELSE marks' = saved /\ UNCHANGED saved
  /\ Goto("create")
  /\ UNCHANGED <<have, diff, attempt, held, sends, ledger>>

CreateSkip ==
  /\ pc = "create" /\ "create" \in marks
  /\ Goto("read")
  /\ UNCHANGED <<marks, have, diff, attempt, held, saved, jobs, first, sends, ledger>>

CreateSend ==
  /\ pc = "create" /\ "create" \notin marks
  /\ Send("create", Nothing)
  /\ Goto("createSent")
  /\ UNCHANGED <<marks, have, diff, attempt, held, saved, jobs, first, ledger>>

\* Created, or refused with code 516 because the token exists.
CreateDone ==
  /\ pc = "createSent"
  /\ \/ Answered("ok")
     \/ created /\ Answered("error")
  /\ Mark("create") /\ Goto("read")
  /\ UNCHANGED <<have, diff, attempt, held, jobs, first, ledger>>

CreateError ==
  /\ pc = "createSent"
  /\ \E a \in {"error", "errorWithHash"} : Answered(a)
  /\ Fail
  /\ UNCHANGED <<jobs, first, ledger>>

\* The balances are read one by one; the chain goes on in between.
ReadBalance(h) ==
  /\ pc = "read" /\ have[h] = None
  /\ have' = [have EXCEPT ![h] = bal[h]]
  /\ UNCHANGED <<pc, marks, diff, attempt, held, saved, past, sends, ledger>>

ViewError ==
  /\ \/ pc = "read" /\ \E h \in Holders : have[h] = None
     \/ pc \in {"freeze", "frozen"} /\ "freeze" \notin marks
  /\ Fail
  /\ UNCHANGED <<jobs, first, sends, ledger>>

AllRead == pc = "read" /\ \A h \in Holders : have[h] # None

\* Nothing is missing: a stage that has its mark is passed over.
MintSkip ==
  /\ AllRead /\ Missing(have) = Nothing
  /\ IF "mint" \in marks THEN UNCHANGED <<marks, saved>> ELSE Mark("mint")
  /\ Goto("freeze")
  /\ UNCHANGED <<have, diff, attempt, held, jobs, first, sends, ledger>>

\* Something is missing: it is minted, whether the stage has its mark or not.
MintBegin ==
  /\ AllRead /\ Missing(have) # Nothing
  /\ diff' = Missing(have) /\ attempt' = 0
  /\ Goto("mintTry")
  /\ UNCHANGED <<marks, have, held, saved, jobs, first, sends, ledger>>

MintSend ==
  /\ pc = "mintTry"
  /\ Send("mint", diff)
  /\ Goto("mintSent")
  /\ UNCHANGED <<marks, have, diff, attempt, held, saved, jobs, first, ledger>>

MintDone ==
  /\ pc = "mintSent"
  /\ Answered("ok")
  /\ Mark("mint") /\ Goto("freeze")
  /\ unacked' = [h \in Holders |-> IF chain[Last] = "success"
                                  THEN unacked[h] - body[Last].by[h] ELSE unacked[h]]
  /\ UNCHANGED <<have, diff, attempt, held, jobs, first, created, start, bal, frozen>>

\* Any error is retried after a pause, with the amounts computed before.
MintError ==
  /\ pc = "mintSent"
  /\ \E a \in {"error", "errorWithHash"} : Answered(a)
  /\ IF attempt + 1 < RetryMax
     THEN /\ attempt' = attempt + 1 /\ Goto("mintTry")
          /\ UNCHANGED <<marks, have, diff, held, saved>>
     ELSE Fail
  /\ UNCHANGED <<jobs, first, ledger>>

\* Two views, the balance first; then the decision.
FreezeRead ==
  /\ pc = "freeze" /\ "freeze" \notin marks
  /\ held' = bal[Frozen]
  /\ Goto("frozen")
  /\ UNCHANGED <<marks, have, diff, attempt, saved, jobs, first, sends, ledger>>

Complete(stage) == End("completed") /\ Mark(stage)

FreezeSkip ==
  /\ \/ /\ pc = "freeze" /\ "freeze" \in marks
        /\ End("completed") /\ UNCHANGED <<marks, saved>>
     \/ /\ pc = "frozen" /\ (frozen > 0 \/ FreezeAmount(held) = 0)
        /\ Complete("freeze")
  /\ UNCHANGED <<jobs, first, sends, ledger>>

FreezeSend ==
  /\ pc = "frozen" /\ frozen = 0 /\ FreezeAmount(held) # 0
  /\ Send("freeze", [Nothing EXCEPT ![Frozen] = FreezeAmount(held)])
  /\ Goto("freezeSent")
  /\ UNCHANGED <<marks, have, diff, attempt, held, saved, jobs, first, ledger>>

FreezeDone ==
  /\ pc = "freezeSent"
  /\ Answered("ok")
  /\ Complete("freeze")
  /\ UNCHANGED <<jobs, first, ledger>>

FreezeError ==
  /\ pc = "freezeSent"
  /\ \E a \in {"error", "errorWithHash"} : Answered(a)
  /\ Fail
  /\ UNCHANGED <<jobs, first, ledger>>

\* The process ends: only the file and the chain remain.
Crash ==
  /\ pc # "idle"
  /\ Fail
  /\ UNCHANGED <<jobs, first, sends, ledger>>
-----------------------------------------------------------------------------
(* The node (external): it may take a transaction long after the caller gave *)
(* up, executes it once, and may fail it for reasons of its own.             *)

Accept == \E n \in Sent :
  /\ Sends!Accept(n)
  /\ UNCHANGED <<job, saved, past, body, ledger>>

Possible(n) ==
  CASE body[n].op = "create" -> ~ created
    [] body[n].op = "mint"   -> created
    [] body[n].op = "freeze" -> frozen + body[n].by[Frozen] <= bal[Frozen]

Given(n) == IF body[n].op = "mint" THEN body[n].by ELSE Nothing

Execute(n) ==
  /\ created' = (created \/ body[n].op = "create")
  /\ bal' = [h \in Holders |-> bal[h] + Given(n)[h]]
  /\ unacked' = [h \in Holders |-> unacked[h] + Given(n)[h]]
  /\ frozen' = IF body[n].op = "freeze" THEN frozen + body[n].by[Frozen] ELSE frozen
  /\ UNCHANGED start

Finish == \E n \in Sent :
  /\ Sends!Finish(n)
  /\ IF chain'[n] = "success" THEN Possible(n) /\ Execute(n) ELSE UNCHANGED ledger
  /\ UNCHANGED <<job, saved, past, body>>
-----------------------------------------------------------------------------
Job ==
  \/ CreateSkip \/ CreateSend \/ CreateDone \/ CreateError
  \/ \E h \in Holders : ReadBalance(h)
  \/ ViewError
  \/ MintSkip \/ MintBegin \/ MintSend \/ MintDone \/ MintError
  \/ FreezeRead \/ FreezeSkip \/ FreezeSend \/ FreezeDone \/ FreezeError

Next == Start \/ Job \/ Crash \/ Accept \/ Finish

Spec == Init /\ [][Next]_vars

-----------------------------------------------------------------------------
(* Properties *)

\* Every variable has its type, and the transactions sent are the first slots.
TypeOK ==
  /\ pc \in {"idle", "create", "createSent", "read", "mintTry", "mintSent",
             "freeze", "frozen", "freezeSent"}
  /\ marks \subseteq Stages /\ saved \subseteq Stages
  /\ have \in [Holders -> Nat \union {None}] /\ diff \in Amounts
  /\ attempt \in 0..(RetryMax - 1) /\ held \in Nat
  /\ outcome \in {"none", "completed", "failed"}
  /\ jobs \in 0..MaxJobs /\ first \in 0..MaxSends
  /\ \A n \in Slots : body[n] # None => /\ body[n].op \in Stages
                                        /\ body[n].by \in Amounts
                                        /\ n > 1 => body[n - 1] # None
  /\ created \in BOOLEAN /\ start \in Before /\ bal \in Amounts /\ frozen \in Nat
  /\ unacked \in Amounts

\* The chain failed it, and flowSendTx returned no error.
FailedQuietly(n) == answer[n] = "ok" /\ chain[n] \in {"failed", "prefail"}

\* A job that completes leaves every planned holder with at least the planned
\* amount, also when an earlier job marked the stage without effect, unless the
\* chain failed a mint of this job and flowSendTx answered ok for it.
CompletedFunds ==
  pc = "idle" /\ outcome = "completed" =>
    \/ \A h \in Holders : bal[h] >= Want[h]
    \/ \E n \in Sent : n > first /\ body[n].op = "mint" /\ FailedQuietly(n)

\* A holder gets more than planned, or than it had before, only by mints whose
\* answer was lost, and by no more than they gave: no order of reads, retries,
\* crashes and restarts mints twice what was answered for.
MintedAsPlanned ==
  \A h \in Holders : \/ bal[h] <= Want[h] + unacked[h]
                     \/ bal[h] <= start[h] + unacked[h]

\* However many jobs run, with or without reset, the demonstration freezes once,
\* not counting transactions whose answer was lost.
FrozenOnce ==
  Cardinality({n \in Sent : /\ body[n].op = "freeze" /\ chain[n] = "success"
                            /\ answer[n] = "ok"}) <= 1

=============================================================================
