------------------------------ MODULE SeedSft ------------------------------
(***************************************************************************)
(* The sft module of a seed job (handler/seed_runner_flows.go runSft) for  *)
(* one collection, over the plan that seed_plan_v2.go derives from the     *)
(* job's configuration: create the collection, give every scenario a slot  *)
(* with its tokens, then run the scenario's post operations.  Jobs follow  *)
(* one another; each starts from the marks in the state file, which a      *)
(* crash or a Save that failed may have left behind, or after a reset.     *)
(*                                                                         *)
(* The three kernels of sft_flow_handler.go look at the receipt; the post  *)
(* operations go through seedSendSingle, which does not, so that the chain *)
(* may fail one quietly.  A call that ends in an error may still be        *)
(* carried out.  The chain may also be wiped (a new genesis) while the     *)
(* state file stays, the case the source provides for by recreating.       *)
(***************************************************************************)
EXTENDS Naturals, Sequences, FiniteSets

CONSTANTS
  Configs,    \* configurations of the job: the sft part of SeedConfig
  MaxJobs,    \* bound: jobs started in a behaviour
  MaxLost,    \* bound: calls that end in an error although the chain may act
  MaxWipes    \* bound: times the chain starts again from genesis

Scenarios == {"transferable", "frozen", "merge", "burn", "reject_transfer"}

\* ValidateSeedConfig: the slots may outnumber the scenarios.
Valid(c) ==
  /\ c.slots \in 1..20 /\ c.perSlot \in 1..100 /\ c.postOps \in BOOLEAN
  /\ c.scenarios \in Seq(Scenarios) /\ c.scenarios # <<>>
  /\ \A i, j \in DOMAIN c.scenarios : c.scenarios[i] = c.scenarios[j] => i = j

ASSUME ConfigAssumption ==
  /\ \A c \in Configs : Valid(c)
  /\ MaxJobs \in Nat /\ MaxLost \in Nat /\ MaxWipes \in Nat

VARIABLES
  cfg,        \* the configuration; the same one at every job of the namespace
  pc,         \* where the job is
  k,          \* the number of the slot it is at
  cur, got,   \* the slot on the chain it is filling and the tokens minted so far
  o,          \* the post operation it is at
  marks,      \* the job's copy of the marks
  ids,        \* the token ids its marks carry, by scenario
  own,        \* scenarios whose mark was made by this job, not read from the file
  outcome,    \* how the last job ended
  file,       \* marks and token ids in the state file
  jobs,       \* jobs started
  sft, slots, tokens,   \* the chain: the collection, its slots, their tokens
  late,       \* transactions the chain may still carry out
  lost,       \* number of calls that ended in such an error
  wipes,      \* times the chain was wiped
  unseen,     \* history: wiped since the collection was last looked at
  quiet       \* history: post operations the chain failed although the call did not

at      == <<pc, k, cur, got, o>>
memory  == <<marks, ids, own>>
chain   == <<sft, slots, tokens>>
network == <<late, lost>>
vars    == <<cfg, at, memory, outcome, file, jobs, chain, network, wipes, unseen, quiet>>
-----------------------------------------------------------------------------
(* The plan. *)

Key(n) == cfg.scenarios[1 + ((n - 1) % Len(cfg.scenarios))]

TransferableAll(key) == TRUE

Transferable(key) == key # "reject_transfer"

PostOps(key) ==
  IF ~ cfg.postOps THEN <<>> ELSE
  CASE key = "transferable" -> IF cfg.perSlot >= 3 THEN <<"transfer", "transfer">>
                                                   ELSE <<>>
    [] key = "frozen" -> <<"freeze">>
    [] key = "merge" -> IF cfg.perSlot >= 2 THEN <<"merge">> ELSE <<>>
    [] key \in {"burn", "reject_transfer"} -> <<key>>

CreateStage == <<"create">>
SlotStage(key) == <<"slot", key>>
PostStage(key, i) == <<"post", key, i>>

Stages == {CreateStage} \union {SlotStage(key) : key \in Scenarios}
            \union {PostStage(key, i) : key \in Scenarios, i \in 1..2}

Init ==
  /\ cfg \in Configs
  /\ pc = "idle" /\ k = 1 /\ cur = 0 /\ got = <<>> /\ o = 1
  /\ marks = {} /\ ids = [key \in Scenarios |-> <<>>] /\ own = {}
  /\ outcome = "none" /\ file = [marks |-> {}, ids |-> ids] /\ jobs = 0
  /\ sft = FALSE /\ slots = <<>> /\ tokens = <<>>
  /\ late = {} /\ lost = 0 /\ wipes = 0 /\ unseen = FALSE /\ quiet = {}
-----------------------------------------------------------------------------
(* The chain (external): what it answers to a call and what it does.  Every *)
(* token is minted with one share to the plan's first user; a merge deletes *)
(* the token it merges from.                                                *)

Call(op, key, args) == [op |-> op, key |-> key, args |-> args]

Locked(t) == ~ Transferable(slots[tokens[t].slot])

Verdict(c) ==
  IF c.op = "create_sft" THEN IF sft THEN "SftAlreadyExists" ELSE "ok"
  ELSE IF ~ sft THEN "SftNotFound"
  ELSE IF c.op = "create_slot" THEN "ok"
  ELSE IF c.op = "mint"
    THEN IF c.args[1] \in DOMAIN slots THEN "ok" ELSE "SlotNotFound"
  ELSE IF \E i \in DOMAIN c.args :
            c.args[i] \notin DOMAIN tokens \/ tokens[c.args[i]].gone
    THEN "TokenNotFound"
  ELSE LET t == c.args[1] IN
    CASE c.op = "freeze" -> IF tokens[t].frozen THEN "TokenFrozen" ELSE "ok"
      [] c.op = "merge" ->
           IF tokens[t].slot # tokens[c.args[2]].slot THEN "SlotMismatch"
           ELSE IF tokens[t].frozen \/ tokens[c.args[2]].frozen THEN "TokenFrozen"
           ELSE IF tokens[t].share = 0 THEN "InsufficientBalance" ELSE "ok"
      [] c.op = "burn" -> IF tokens[t].share = 0 THEN "InsufficientBalance" ELSE "ok"
      [] c.op = "transfer" ->        \* signed by the admin, who holds no share
           IF Locked(t) THEN "SlotLocked" ELSE "InsufficientBalance"
      [] c.op = "reject_transfer" -> \* signed by the holder
           IF Locked(t) THEN "SlotLocked"
           ELSE IF tokens[t].frozen THEN "TokenFrozen"
           ELSE IF tokens[t].share = 0 THEN "InsufficientBalance" ELSE "ok"

Execute(c) ==
  /\ sft' = (sft \/ c.op = "create_sft")
  /\ slots' = IF c.op = "create_slot" THEN Append(slots, c.key) ELSE slots
  /\ tokens' =
       CASE c.op = "mint" -> Append(tokens, [slot |-> c.args[1], share |-> 1,
                                             frozen |-> FALSE, gone |-> FALSE])
         [] c.op = "freeze" -> [tokens EXCEPT ![c.args[1]].frozen = TRUE]
         [] c.op \in {"burn", "reject_transfer"} ->
              [tokens EXCEPT ![c.args[1]].share = @ - 1]
         [] c.op = "merge" ->
              LET taken == [tokens EXCEPT ![c.args[1]] = [@ EXCEPT !.gone = TRUE,
                                                                   !.share = 0]]
              IN [taken EXCEPT ![c.args[2]].share = @ + tokens[c.args[1]].share]
         [] OTHER -> tokens

LateExecute == \E c \in late :
  /\ late' = late \ {c}
  /\ Verdict(c) = "ok" /\ Execute(c)
  /\ UNCHANGED <<cfg, at, memory, outcome, file, jobs, lost, wipes, unseen, quiet>>

Wipe ==
  /\ wipes < MaxWipes /\ wipes' = wipes + 1 /\ unseen' = TRUE
  /\ sft' = FALSE /\ slots' = <<>> /\ tokens' = <<>> /\ late' = {}
  /\ UNCHANGED <<cfg, at, memory, outcome, file, jobs, lost, quiet>>
-----------------------------------------------------------------------------
(* Steps of the job. *)

\* Mark, then Save, whose error is ignored.
Mark(stage, ids2) ==
  /\ marks' = marks \union {stage} /\ ids' = ids2
  /\ file' \in {file, [marks |-> marks', ids |-> ids2]}

Goto(next) == pc' = next /\ UNCHANGED outcome

End(how) ==
  /\ pc' = "idle" /\ outcome' = how
  /\ k' = 1 /\ cur' = 0 /\ got' = <<>> /\ o' = 1

Fail == End("failed") /\ UNCHANGED <<memory, file>>

\* A call ends in an error: refused, never sent, or sent and not waited for.
Failed(c) ==
  /\ \/ UNCHANGED network
     \/ lost < MaxLost /\ lost' = lost + 1 /\ late' = late \union {c}
  /\ UNCHANGED chain

\* sftFlowSendWait: the receipt says that the chain has carried the call out.
Carried(c) == Verdict(c) = "ok" /\ Execute(c) /\ UNCHANGED network

Scenario == Key(k)

CreateSft == Call("create_sft", "", <<>>)
CreateSlotCall == Call("create_slot", Scenario, <<>>)
MintCall == Call("mint", Scenario, <<cur>>)

Start == \E reset \in BOOLEAN :
  /\ pc = "idle" /\ jobs < MaxJobs /\ jobs' = jobs + 1
  /\ IF reset
     THEN /\ marks' = {} /\ ids' = [key \in Scenarios |-> <<>>]
          /\ file' \in {file, [marks |-> {}, ids |-> ids']}
     ELSE marks' = file.marks /\ ids' = file.ids /\ UNCHANGED file
  /\ own' = {} /\ Goto("create")
  /\ UNCHANGED <<cfg, k, cur, got, o, chain, network, wipes, unseen, quiet>>

\* Mistake: a mark of the create stage is believed.
CreateBelieved ==
  /\ pc = "create"
  /\ \/ /\ sft \/ CreateStage \in marks
        /\ UNCHANGED <<chain, network>>
     \/ Carried(CreateSft)
  /\ IF CreateStage \in marks THEN UNCHANGED <<memory, file>>
                              ELSE Mark(CreateStage, ids) /\ UNCHANGED own
  /\ unseen' = FALSE /\ Goto("slot")
  /\ UNCHANGED <<cfg, k, cur, got, o, jobs, wipes, quiet>>

\* The view finds the collection; or it does not, or fails, and the collection is
\* created, or the chain says that it exists and the error is tolerated.
Create ==
  /\ pc = "create"
  /\ \/ sft /\ UNCHANGED <<chain, network>>
     \/ Carried(CreateSft)
  /\ \/ sft /\ CreateStage \in marks /\ UNCHANGED <<memory, file>>
     \/ Mark(CreateStage, ids) /\ UNCHANGED own
  /\ unseen' = FALSE /\ Goto("slot")
  /\ UNCHANGED <<cfg, k, cur, got, o, jobs, wipes, quiet>>

\* The slot of the scenario exists by its mark, or is created.
SlotMarked ==
  /\ pc = "slot" /\ k <= cfg.slots /\ SlotStage(Scenario) \in marks
  /\ o' = 1 /\ Goto("post")
  /\ UNCHANGED <<cfg, k, cur, got, memory, file, jobs, chain, network, wipes, unseen,
                 quiet>>

EnsureSlot ==
  /\ pc = "slot" /\ k <= cfg.slots /\ SlotStage(Scenario) \notin marks
  /\ Carried(CreateSlotCall)
  /\ cur' = Len(slots') /\ got' = <<>> /\ Goto("mint")
  /\ UNCHANGED <<cfg, k, o, memory, file, jobs, wipes, unseen, quiet>>

\* Mistake: a mint that fails is left out.
MintOneOrNone ==
  /\ pc = "mint" /\ Len(got) < cfg.perSlot
  /\ \/ Carried(MintCall) /\ got' = Append(got, Len(tokens'))
     \/ Failed(MintCall) /\ got' = Append(got, 0)
  /\ UNCHANGED <<cfg, pc, k, cur, o, memory, outcome, file, jobs, wipes, unseen, quiet>>

MintOne ==
  /\ pc = "mint" /\ Len(got) < cfg.perSlot
  /\ Carried(MintCall) /\ got' = Append(got, Len(tokens'))
  /\ UNCHANGED <<cfg, pc, k, cur, o, memory, outcome, file, jobs, wipes, unseen, quiet>>

MarkSlot ==
  /\ pc = "mint" /\ Len(got) = cfg.perSlot
  /\ Mark(SlotStage(Scenario), [ids EXCEPT ![Scenario] = got])
  /\ own' = own \union {Scenario}
  /\ cur' = 0 /\ got' = <<>> /\ o' = 1 /\ Goto("post")
  /\ UNCHANGED <<cfg, k, jobs, chain, network, wipes, unseen, quiet>>

\* A kernel call ends in an error.  A crash during a call is the same to the chain.
KernelError ==
  /\ \/ pc = "create" /\ Failed(CreateSft)
     \/ pc = "slot" /\ k <= cfg.slots /\ SlotStage(Scenario) \notin marks
        /\ Failed(CreateSlotCall)
     \/ pc = "mint" /\ Len(got) < cfg.perSlot /\ Failed(MintCall)
  /\ Fail
  /\ UNCHANGED <<cfg, jobs, wipes, unseen, quiet>>
-----------------------------------------------------------------------------
(* Post operations. *)

\* The ids of a mark read from the file are a list of JSON numbers.  Those of a
\* mark made by this job are a slice of integers, for which the type assertion
\* of the code finds no list.
TokenIds(key) == IF key \in own THEN <<>> ELSE ids[key]

PostCall ==
  LET t == TokenIds(Scenario)
      op == PostOps(Scenario)[o]
  IN Call(op, Scenario, CASE op = "burn" -> <<t[Len(t)]>>
                          [] op = "merge" -> <<t[1], t[2]>>
                          [] OTHER -> <<t[1]>>)

PostDue == pc = "post" /\ TokenIds(Scenario) # <<>> /\ o <= Len(PostOps(Scenario))

PostRuns == PostDue /\ PostStage(Scenario, o) \notin marks

Tolerated(op) ==
  IF op = "freeze" THEN {"TokenFrozen", "TokenNotFound"}
                   ELSE {"InsufficientBalance", "TokenNotFound"}

MarkPost == Mark(PostStage(Scenario, o), ids) /\ UNCHANGED own /\ o' = o + 1

PostMarked ==
  /\ PostDue /\ PostStage(Scenario, o) \in marks /\ o' = o + 1
  /\ UNCHANGED <<cfg, pc, k, cur, got, memory, outcome, file, jobs, chain, network,
                 wipes, unseen, quiet>>

\* Returned without an error: the chain has done it or has failed it quietly.
PostDone ==
  /\ PostRuns /\ PostCall.op # "reject_transfer"
  /\ \/ Carried(PostCall) /\ UNCHANGED quiet
     \/ quiet' = quiet \union {PostCall.op} /\ UNCHANGED <<chain, network>>
  /\ MarkPost
  /\ UNCHANGED <<cfg, pc, k, cur, got, outcome, jobs, wipes, unseen>>

\* Refused with a code that is taken for done already.
PostTolerated ==
  /\ PostRuns /\ PostCall.op # "reject_transfer"
  /\ Verdict(PostCall) \in Tolerated(PostCall.op)
  /\ MarkPost
  /\ UNCHANGED <<cfg, pc, k, cur, got, outcome, jobs, chain, network, wipes, unseen, quiet>>

\* Mistake: whatever the error, the operation counts as done.
PostErrorTolerated ==
  /\ PostRuns
  /\ Failed(PostCall) /\ MarkPost
  /\ UNCHANGED <<cfg, pc, k, cur, got, outcome, jobs, wipes, unseen, quiet>>

\* Any other error ends the job.
PostError ==
  /\ PostRuns /\ PostCall.op # "reject_transfer"
  /\ Failed(PostCall) /\ Fail
  /\ UNCHANGED <<cfg, jobs, wipes, unseen, quiet>>

\* The transfer that must be refused: any error counts as the refusal.
RejectRefused ==
  /\ PostRuns /\ PostCall.op = "reject_transfer"
  /\ Failed(PostCall) /\ MarkPost
  /\ UNCHANGED <<cfg, pc, k, cur, got, outcome, jobs, wipes, unseen, quiet>>

\* No error, whether or not the share has moved: the job stops.
RejectThrough ==
  /\ PostRuns /\ PostCall.op = "reject_transfer"
  /\ Carried(PostCall) \/ UNCHANGED <<chain, network>>
  /\ Fail
  /\ UNCHANGED <<cfg, jobs, wipes, unseen, quiet>>

NextSlot ==
  /\ pc = "post" /\ ~ PostDue
  /\ k' = k + 1 /\ o' = 1 /\ Goto("slot")
  /\ UNCHANGED <<cfg, cur, got, memory, file, jobs, chain, network, wipes, unseen, quiet>>

Complete ==
  /\ pc = "slot" /\ k > cfg.slots
  /\ End("completed")
  /\ UNCHANGED <<cfg, memory, file, jobs, chain, network, wipes, unseen, quiet>>

Crash ==
  /\ pc # "idle" /\ Fail
  /\ UNCHANGED <<cfg, jobs, chain, network, wipes, unseen, quiet>>
-----------------------------------------------------------------------------
Job ==
  \/ Create \/ SlotMarked \/ EnsureSlot \/ MintOne \/ MarkSlot \/ KernelError
  \/ PostMarked \/ PostDone \/ PostTolerated \/ PostError
  \/ RejectRefused \/ RejectThrough \/ NextSlot \/ Complete

Next == Start \/ Job \/ Crash \/ LateExecute \/ Wipe

Spec == Init /\ [][Next]_vars
-----------------------------------------------------------------------------
(* Properties *)

Records == {[marks |-> marks, ids |-> ids], file}

Tokens == [slot : Nat \ {0}, share : Nat, frozen : BOOLEAN, gone : BOOLEAN]

\* Every variable has its type, and a slot mark carries the tokens of the slot.
TypeOK ==
  /\ cfg \in Configs
  /\ pc \in {"idle", "create", "slot", "mint", "post"}
  /\ k \in 1..(cfg.slots + 1) /\ cur \in Nat /\ got \in Seq(Nat) /\ o \in 1..3
  /\ Len(got) <= cfg.perSlot
  /\ own \subseteq Scenarios /\ outcome \in {"none", "completed", "failed"}
  /\ \A r \in Records :
       /\ r.marks \subseteq Stages /\ r.ids \in [Scenarios -> Seq(Nat)]
       /\ \A key \in Scenarios : SlotStage(key) \in r.marks <=> r.ids[key] # <<>>
  /\ jobs \in 0..MaxJobs /\ sft \in BOOLEAN
  /\ slots \in Seq(Scenarios) /\ tokens \in Seq(Tokens)
  /\ Cardinality(late) <= MaxLost /\ lost \in 0..MaxLost /\ wipes \in 0..MaxWipes
  /\ unseen \in BOOLEAN /\ quiet \subseteq {"transfer", "freeze", "merge", "burn"}

\* The mark of a slot names as many distinct tokens as the plan asks for, all of
\* them minted into one slot of that scenario, whatever calls failed or came late.
SlotsWhole == wipes = 0 => \A r \in Records, key \in Scenarios :
  SlotStage(key) \in r.marks =>
    LET t == r.ids[key] IN
    /\ Len(t) = cfg.perSlot
    /\ \A i, j \in DOMAIN t : t[i] = t[j] => i = j
    /\ \E s \in DOMAIN slots : /\ slots[s] = key
                               /\ \A i \in DOMAIN t : t[i] \in DOMAIN tokens
                                                      /\ tokens[t[i]].slot = s

TookEffect(op, t) ==
  CASE op = "freeze" -> tokens[t[1]].frozen
    [] op = "merge" -> tokens[t[1]].gone
    [] op = "burn" -> tokens[t[Len(t)]].share = 0
    [] OTHER -> TRUE   \* a transfer of the admin moves nothing

\* A post operation is marked only if the chain has carried it out on the tokens
\* its slot mark names, or has failed it without an error of the call.
OpsEarned == wipes = 0 => \A r \in Records, key \in Scenarios :
  \A i \in DOMAIN PostOps(key) : PostStage(key, i) \in r.marks =>
    PostOps(key)[i] \in quiet \/ TookEffect(PostOps(key)[i], r.ids[key])

\* Jobs that repeat operations whose marks were lost, and calls carried out late,
\* never touch a token in a way its scenario does not plan: nothing leaves a slot
\* that is not transferable, only frozen slots are frozen, only merge slots merge,
\* and a burn slot's holder keeps all shares but one.
PlannedEffects == wipes = 0 =>
  /\ \A t \in DOMAIN tokens :
       LET key == slots[tokens[t].slot] IN
       /\ tokens[t].frozen => key = "frozen"
       /\ tokens[t].gone => key = "merge"
       /\ tokens[t].share = 0 => key \in {"merge", "burn"}
  /\ \A s \in DOMAIN slots : slots[s] = "burn" =>
       Cardinality({t \in DOMAIN tokens : tokens[t].slot = s /\ tokens[t].share = 0}) <= 1

\* A job that completes has seen the collection on the chain: only a wipe after
\* that can have taken it away, never one from before the job.
SftStands == pc = "idle" /\ outcome = "completed" => sft \/ unseen

\* API.md:2763: of the scenarios, frozen is frozen after minting, merge makes one
\* of two, burn burns one and reject_transfer is tried: a job that completes has
\* done the post operations of its plan.
PostOpsDone ==
  pc = "idle" /\ outcome = "completed" =>
    \A n \in 1..cfg.slots : \A i \in DOMAIN PostOps(Key(n)) :
      PostStage(Key(n), i) \in marks
=============================================================================
