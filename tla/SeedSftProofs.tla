---------------------------- MODULE SeedSftProofs ----------------------------
(***************************************************************************)
(* Proofs about SeedSft for any configurations and any bounds.  While a    *)
(* slot is filled nothing else has touched it (Filling), so that the list  *)
(* its mark gets is new.  Every call that may still arrive is aimed at     *)
(* tokens of its own scenario (Aimed), the token a merge takes from is     *)
(* never one that another merges into (Apart), and the burn calls for one  *)
(* slot name one token (BurnOne).  From there follow what a mark names     *)
(* (SlotsWhole), what a post mark stands for (OpsEarned) and what late and *)
(* repeated calls can do to the tokens (PlannedEffects).                   *)
(***************************************************************************)
EXTENDS SeedSft, SequenceTheorems, FiniteSetTheorems, TLAPS

PostOpNames == {"transfer", "freeze", "merge", "burn", "reject_transfer"}

\* Each post operation belongs to one scenario.
Belongs(op, key) ==
  \/ op = "transfer" /\ key = "transferable"
  \/ op = "freeze" /\ key = "frozen"
  \/ op = key /\ key \in {"merge", "burn", "reject_transfer"}

PostCalls == {c \in [op : PostOpNames, key : Scenarios, args : Seq(Nat)] :
                /\ Belongs(c.op, c.key)
                /\ Len(c.args) = IF c.op = "merge" THEN 2 ELSE 1}

KernelCalls == {c \in [op : {"create_sft", "create_slot", "mint"},
                       key : Scenarios \union {""}, args : Seq(Nat)] :
                  /\ c.op # "create_sft" => c.key \in Scenarios
                  /\ c.op = "mint" => Len(c.args) = 1}

Calls == KernelCalls \union PostCalls

JobTypes ==
  /\ cfg \in Configs
  /\ pc \in {"idle", "create", "slot", "mint", "post"}
  /\ k \in 1..(cfg.slots + 1) /\ cur \in Nat /\ got \in Seq(Nat) /\ o \in 1..3
  /\ Len(got) <= cfg.perSlot
  /\ pc \in {"mint", "post"} => k <= cfg.slots
  /\ pc = "mint" => SlotStage(Scenario) \notin marks
  /\ own \subseteq Scenarios /\ outcome \in {"none", "completed", "failed"}
  /\ jobs \in 0..MaxJobs /\ lost \in 0..MaxLost /\ wipes \in 0..MaxWipes
  /\ unseen \in BOOLEAN /\ quiet \subseteq {"transfer", "freeze", "merge", "burn"}

\* A slot mark carries as many tokens as planned; post marks come after it.
RecordType(r) ==
  /\ r.marks \subseteq Stages /\ r.ids \in [Scenarios -> Seq(Nat)]
  /\ \A key \in Scenarios :
       /\ SlotStage(key) \in r.marks => Len(r.ids[key]) = cfg.perSlot
       /\ SlotStage(key) \notin r.marks => r.ids[key] = <<>>
       /\ \A i \in 1..2 : PostStage(key, i) \in r.marks => SlotStage(key) \in r.marks

MarkTypes ==
  /\ file = [marks |-> file.marks, ids |-> file.ids]
  /\ \A r \in Records : RecordType(r)

ChainTypes ==
  /\ sft \in BOOLEAN /\ slots \in Seq(Scenarios) /\ tokens \in Seq(Tokens)
  /\ \A t \in DOMAIN tokens : tokens[t].slot \in DOMAIN slots
  /\ late \subseteq Calls /\ IsFiniteSet(late) /\ Cardinality(late) <= lost

In(t, s) == t \in DOMAIN tokens /\ tokens[t].slot = s

\* The scenario a token was made for.
Of(t) == slots[tokens[t].slot]

\* A post call that may still arrive names tokens of its own scenario.
Aimed == \A c \in late : c.op \in PostOpNames =>
  \A i \in DOMAIN c.args : c.args[i] \in DOMAIN tokens /\ Of(c.args[i]) = c.key

\* What may have been done to a token of each scenario.
Effects == \A t \in DOMAIN tokens :
  /\ tokens[t].frozen => Of(t) = "frozen"
  /\ tokens[t].gone => Of(t) = "merge"
  /\ tokens[t].share = 0 => Of(t) \in {"merge", "burn"}
  /\ Of(t) = "merge" /\ tokens[t].share = 0 => tokens[t].gone
  /\ Of(t) # "merge" => tokens[t].share <= 1

\* A token that was or may be merged into another, and one that may be merged into.
IsFrom(x) ==
  \/ x \in DOMAIN tokens /\ tokens[x].gone
  \/ \E c \in late : c.op = "merge" /\ c.args[1] = x
  \/ \E r \in Records : SlotStage("merge") \in r.marks /\ r.ids["merge"][1] = x
IsInto(x) ==
  \/ \E c \in late : c.op = "merge" /\ c.args[2] = x
  \/ \E r \in Records : /\ SlotStage("merge") \in r.marks /\ cfg.perSlot >= 2
                        /\ r.ids["merge"][2] = x

\* A token of a burn slot that was or may be burnt.
IsBurnt(x) ==
  \/ x \in DOMAIN tokens /\ Of(x) = "burn" /\ tokens[x].share = 0
  \/ \E c \in late : c.op = "burn" /\ c.args[1] = x
  \/ \E r \in Records : SlotStage("burn") \in r.marks
                        /\ r.ids["burn"][Len(r.ids["burn"])] = x

Apart == \A x \in DOMAIN tokens : ~ (IsFrom(x) /\ IsInto(x))

BurnOne == \A x, y \in DOMAIN tokens :
  IsBurnt(x) /\ IsBurnt(y) /\ tokens[x].slot = tokens[y].slot => x = y

\* The slot being filled holds what was minted for it, and nothing has touched it.
Filling == pc = "mint" =>
  /\ cur \in DOMAIN slots /\ slots[cur] = Scenario
  /\ \A i \in DOMAIN got : In(got[i], cur)
  /\ \A i, j \in DOMAIN got : got[i] = got[j] => i = j
  /\ \A x \in DOMAIN tokens : IsFrom(x) \/ IsInto(x) \/ IsBurnt(x) => tokens[x].slot # cur

Stands == pc \in {"slot", "mint", "post"} \/ (pc = "idle" /\ outcome = "completed")
            => sft \/ unseen

\* What is true as long as the chain was not wiped.
Tidy == /\ Aimed /\ Effects /\ Apart /\ BurnOne /\ Filling
        /\ SlotsWhole /\ OpsEarned

IInv == /\ JobTypes /\ MarkTypes /\ ChainTypes /\ Stands
        /\ wipes = 0 => Tidy

-----------------------------------------------------------------------------
(* The plan and its operators. *)

LEMMA Remainder ==
  ASSUME NEW n \in Nat \ {0}, NEW m \in Nat \ {0}
  PROVE  1 + ((n - 1) % m) \in 1..m
<1>1. n - 1 \in Nat
  OBVIOUS
<1> DEFINE a == n - 1
<1> HIDE DEF a
<1>2. a % m \in 0..(m - 1)
  BY <1>1 DEF a
<1> QED
  BY <1>2 DEF a

\* The numbers of a valid configuration.
LEMMA Plan ==
  ASSUME cfg \in Configs
  PROVE  /\ cfg.slots \in 1..20 /\ cfg.perSlot \in 1..100 /\ cfg.postOps \in BOOLEAN
         /\ \A n \in Nat \ {0} : Key(n) \in Scenarios
<1>1. Valid(cfg)
  BY ConfigAssumption
<1>2. ASSUME NEW n \in Nat \ {0} PROVE Key(n) \in Scenarios
  <2>1. cfg.scenarios \in Seq(Scenarios) /\ Len(cfg.scenarios) \in Nat \ {0}
    BY <1>1 DEF Valid
  <2>2. 1 + ((n - 1) % Len(cfg.scenarios)) \in 1..Len(cfg.scenarios)
    BY <2>1, Remainder
  <2> QED
    BY <2>1, <2>2 DEF Key
<1> QED
  BY <1>1, <1>2 DEF Valid

\* The post operations of a scenario are its own, and two at most.
LEMMA PostOpsAre ==
  ASSUME NEW key \in Scenarios
  PROVE  /\ PostOps(key) \in Seq(PostOpNames) /\ Len(PostOps(key)) \in 0..2
         /\ \A i \in DOMAIN PostOps(key) :
              /\ i \in 1..2 /\ PostOps(key)[i] \in PostOpNames
              /\ Belongs(PostOps(key)[i], key)
              /\ PostOps(key)[i] = "merge" => cfg.perSlot >= 2
<1>1. CASE PostOps(key) = <<>>
  BY <1>1
<1>2. CASE key = "transferable" /\ PostOps(key) = <<"transfer", "transfer">>
  <2> DEFINE ops == <<"transfer", "transfer">>
  <2>1. /\ ops \in Seq(PostOpNames) /\ Len(ops) = 2 /\ DOMAIN ops = 1..2
        /\ \A i \in 1..2 : ops[i] = "transfer"
    BY DEF PostOpNames
  <2> HIDE DEF ops
  <2>2. PostOps(key) = ops
    BY <1>2 DEF ops
  <2> QED
    BY <1>2, <2>1, <2>2 DEF PostOpNames, Belongs
<1>3. CASE key = "frozen" /\ PostOps(key) = <<"freeze">>
  <2> DEFINE ops == <<"freeze">>
  <2>1. ops \in Seq(PostOpNames) /\ Len(ops) = 1 /\ DOMAIN ops = 1..1 /\ ops[1] = "freeze"
    BY DEF PostOpNames
  <2> HIDE DEF ops
  <2>2. PostOps(key) = ops
    BY <1>3 DEF ops
  <2> QED
    BY <1>3, <2>1, <2>2 DEF PostOpNames, Belongs
<1>4. CASE key = "merge" /\ PostOps(key) = <<"merge">> /\ cfg.perSlot >= 2
  <2> DEFINE ops == <<"merge">>
  <2>1. ops \in Seq(PostOpNames) /\ Len(ops) = 1 /\ DOMAIN ops = 1..1 /\ ops[1] = "merge"
    BY DEF PostOpNames
  <2> HIDE DEF ops
  <2>2. PostOps(key) = ops
    BY <1>4 DEF ops
  <2> QED
    BY <1>4, <2>1, <2>2 DEF PostOpNames, Belongs
<1>5. CASE key \in {"burn", "reject_transfer"} /\ PostOps(key) = <<key>>
  <2> DEFINE ops == <<key>>
  <2>1. ops \in Seq(PostOpNames) /\ Len(ops) = 1 /\ DOMAIN ops = 1..1 /\ ops[1] = key
    BY <1>5 DEF PostOpNames
  <2> QED
    BY <1>5, <2>1 DEF PostOpNames, Belongs
<1> QED
  BY <1>1, <1>2, <1>3, <1>4, <1>5 DEF PostOps, Scenarios

\* The marks of different stages differ.
LEMMA StagesDiffer ==
  /\ CreateStage \in Stages
  /\ \A key \in Scenarios :
       /\ SlotStage(key) \in Stages /\ SlotStage(key) # CreateStage
       /\ \A key2 \in Scenarios : SlotStage(key) = SlotStage(key2) => key = key2
       /\ \A i \in 1..2 :
            /\ PostStage(key, i) \in Stages /\ PostStage(key, i) # CreateStage
            /\ \A key2 \in Scenarios :
                 /\ PostStage(key, i) # SlotStage(key2)
                 /\ \A j \in 1..2 :
                      PostStage(key, i) = PostStage(key2, j) => key = key2 /\ i = j
<1>1. /\ CreateStage[1] = "create"
      /\ \A key \in Scenarios : SlotStage(key)[1] = "slot" /\ SlotStage(key)[2] = key
      /\ \A key \in Scenarios, i \in 1..2 :
           /\ PostStage(key, i)[1] = "post" /\ PostStage(key, i)[2] = key
           /\ PostStage(key, i)[3] = i
  BY DEF CreateStage, SlotStage, PostStage
<1>2. \A key \in Scenarios : SlotStage(key) \in Stages
  BY DEF Stages
<1>3. \A key \in Scenarios, i \in 1..2 : PostStage(key, i) \in Stages
  BY DEF Stages
<1>4. CreateStage \in Stages
  BY DEF Stages
<1>5. \A key \in Scenarios :
        /\ SlotStage(key) # CreateStage
        /\ \A key2 \in Scenarios : SlotStage(key) = SlotStage(key2) => key = key2
  BY <1>1
<1>6. \A key, key2 \in Scenarios, i, j \in 1..2 :
        /\ PostStage(key, i) # CreateStage /\ PostStage(key, i) # SlotStage(key2)
        /\ PostStage(key, i) = PostStage(key2, j) => key = key2 /\ i = j
  BY <1>1
<1> QED
  BY <1>2, <1>3, <1>4, <1>5, <1>6

-----------------------------------------------------------------------------
(* Calls, and what the chain does with them. *)

\* The scenario of a slot that is worked on.
LEMMA ScenarioIs ==
  ASSUME JobTypes
  PROVE  /\ Scenario \in Scenarios /\ cfg.perSlot \in 1..100 /\ cfg.slots \in 1..20
         /\ k \in Nat /\ k >= 1
BY Plan DEF JobTypes, Scenario

\* The calls of the kernels.
LEMMA KernelIs ==
  ASSUME JobTypes
  PROVE  /\ CreateSft \in KernelCalls /\ CreateSlotCall \in KernelCalls
         /\ MintCall \in KernelCalls
<1>1. Scenario \in Scenarios /\ cur \in Nat
  BY ScenarioIs DEF JobTypes
<1>2. <<>> \in Seq(Nat) /\ <<cur>> \in Seq(Nat) /\ Len(<<cur>>) = 1
  BY <1>1
<1> QED
  BY <1>1, <1>2 DEF CreateSft, CreateSlotCall, MintCall, Call, KernelCalls

\* The call of a post operation names tokens of the list its slot mark carries.
LEMMA PostCallIs ==
  ASSUME JobTypes, MarkTypes, PostRuns
  PROVE  /\ Scenario \in Scenarios /\ SlotStage(Scenario) \in marks
         /\ ids[Scenario] \in Seq(Nat) /\ Len(ids[Scenario]) = cfg.perSlot
         /\ cfg.perSlot \in 1..100
         /\ o \in DOMAIN PostOps(Scenario) /\ o \in 1..2
         /\ PostCall \in PostCalls /\ PostCall.key = Scenario
         /\ PostCall.op = PostOps(Scenario)[o]
         /\ PostCall.op = "merge" => /\ cfg.perSlot >= 2
                                     /\ PostCall.args[1] = ids[Scenario][1]
                                     /\ PostCall.args[2] = ids[Scenario][2]
         /\ PostCall.op = "burn" => PostCall.args[1] = ids[Scenario][Len(ids[Scenario])]
         /\ PostCall.op \notin {"merge", "burn"} => PostCall.args[1] = ids[Scenario][1]
         /\ \A i \in DOMAIN PostCall.args :
              \E j \in DOMAIN ids[Scenario] : PostCall.args[i] = ids[Scenario][j]
<1> DEFINE t == ids[Scenario]
           op == PostOps(Scenario)[o]
<1>1. Scenario \in Scenarios /\ cfg.perSlot \in 1..100
  BY ScenarioIs
<1>2. TokenIds(Scenario) = t /\ t # <<>>
  BY DEF PostRuns, PostDue, TokenIds
<1>3. RecordType([marks |-> marks, ids |-> ids])
  BY DEF MarkTypes, Records
<1>4. /\ SlotStage(Scenario) \in marks /\ t \in Seq(Nat) /\ Len(t) = cfg.perSlot
  BY <1>1, <1>2, <1>3 DEF RecordType
<1>5. o \in DOMAIN PostOps(Scenario)
  BY <1>1, PostOpsAre DEF PostRuns, PostDue, JobTypes
<1>6. /\ op \in PostOpNames /\ Belongs(op, Scenario) /\ o \in 1..2
      /\ op = "merge" => cfg.perSlot >= 2
  BY <1>1, <1>5, PostOpsAre
<1>7. PostCall = [op |-> op, key |-> Scenario,
                  args |-> CASE op = "burn" -> <<t[Len(t)]>>
                             [] op = "merge" -> <<t[1], t[2]>>
                             [] OTHER -> <<t[1]>>]
  BY <1>2 DEF PostCall, Call
<1> HIDE DEF t, op
<1>8. CASE op = "merge"
  <2>1. PostCall = [op |-> op, key |-> Scenario, args |-> <<t[1], t[2]>>]
    BY <1>7, <1>8
  <2>2. 1 \in DOMAIN t /\ 2 \in DOMAIN t /\ t[1] \in Nat /\ t[2] \in Nat
    BY <1>1, <1>4, <1>6, <1>8
  <2>3. <<t[1], t[2]>> \in Seq(Nat) /\ Len(<<t[1], t[2]>>) = 2
        /\ DOMAIN <<t[1], t[2]>> = 1..2
    BY <2>2
  <2>4. PostCall \in PostCalls
    BY <1>1, <1>6, <1>8, <2>1, <2>3 DEF PostCalls
  <2>5. /\ PostCall.args[1] = t[1] /\ PostCall.args[2] = t[2]
        /\ \A i \in DOMAIN PostCall.args : \E j \in DOMAIN t : PostCall.args[i] = t[j]
    BY <2>1, <2>2, <2>3
  <2> QED
    BY <1>1, <1>4, <1>5, <1>6, <1>8, <2>1, <2>4, <2>5 DEF t, op
<1>9. Len(t) \in DOMAIN t /\ 1 \in DOMAIN t /\ t[1] \in Nat /\ t[Len(t)] \in Nat
  <2>1. DOMAIN t = 1..cfg.perSlot /\ \A i \in DOMAIN t : t[i] \in Nat
    BY <1>4
  <2>2. 1 \in 1..cfg.perSlot /\ cfg.perSlot \in 1..cfg.perSlot
    BY <1>1
  <2> QED
    BY <1>4, <2>1, <2>2
<1>10. CASE op = "burn"
  <2>1. PostCall = [op |-> op, key |-> Scenario, args |-> <<t[Len(t)]>>]
    BY <1>7, <1>10
  <2>2. <<t[Len(t)]>> \in Seq(Nat) /\ Len(<<t[Len(t)]>>) = 1 /\ DOMAIN <<t[Len(t)]>> = 1..1
    BY <1>9
  <2>3. PostCall \in PostCalls
    BY <1>1, <1>6, <1>10, <2>1, <2>2 DEF PostCalls
  <2>4. /\ PostCall.args[1] = t[Len(t)]
        /\ \A i \in DOMAIN PostCall.args : \E j \in DOMAIN t : PostCall.args[i] = t[j]
    BY <1>9, <2>1, <2>2
  <2> QED
    BY <1>1, <1>4, <1>5, <1>6, <1>10, <2>1, <2>3, <2>4 DEF t, op
<1>11. CASE op \notin {"merge", "burn"}
  <2>1. PostCall = [op |-> op, key |-> Scenario, args |-> <<t[1]>>]
    BY <1>7, <1>11
  <2>2. <<t[1]>> \in Seq(Nat) /\ Len(<<t[1]>>) = 1 /\ DOMAIN <<t[1]>> = 1..1
    BY <1>9
  <2>3. PostCall \in PostCalls
    BY <1>1, <1>6, <1>11, <2>1, <2>2 DEF PostCalls
  <2>4. /\ PostCall.args[1] = t[1]
        /\ \A i \in DOMAIN PostCall.args : \E j \in DOMAIN t : PostCall.args[i] = t[j]
    BY <1>9, <2>1, <2>2
  <2> QED
    BY <1>1, <1>4, <1>5, <1>6, <1>11, <2>1, <2>3, <2>4 DEF t, op
<1> QED
  BY <1>8, <1>10, <1>11

\* What the chain requires of a post call that it carries out.
LEMMA PostVerdict ==
  ASSUME NEW c \in PostCalls, Verdict(c) = "ok"
  PROVE  /\ \A i \in DOMAIN c.args : c.args[i] \in DOMAIN tokens /\ ~ tokens[c.args[i]].gone
         /\ 1 \in DOMAIN c.args
         /\ c.op = "merge" => 2 \in DOMAIN c.args
         /\ c.op \in {"freeze", "merge", "burn", "reject_transfer"}
         /\ c.op \in {"merge", "burn", "reject_transfer"} => tokens[c.args[1]].share # 0
         /\ c.op = "reject_transfer" => Transferable(Of(c.args[1]))
<1>1. /\ c.op \in PostOpNames /\ c.args \in Seq(Nat)
      /\ Len(c.args) = IF c.op = "merge" THEN 2 ELSE 1
  BY DEF PostCalls
<1>2. 1 \in DOMAIN c.args /\ (c.op = "merge" => 2 \in DOMAIN c.args)
  BY <1>1
<1>3. \A i \in DOMAIN c.args : c.args[i] \in DOMAIN tokens /\ ~ tokens[c.args[i]].gone
  BY <1>1 DEF Verdict, PostOpNames
<1> DEFINE t == c.args[1]
<1>4. "ok" = CASE c.op = "freeze" -> IF tokens[t].frozen THEN "TokenFrozen" ELSE "ok"
      [] c.op = "merge" ->
           IF tokens[t].slot # tokens[c.args[2]].slot THEN "SlotMismatch"
           ELSE IF tokens[t].frozen \/ tokens[c.args[2]].frozen THEN "TokenFrozen"
           ELSE IF tokens[t].share = 0 THEN "InsufficientBalance" ELSE "ok"
      [] c.op = "burn" -> IF tokens[t].share = 0 THEN "InsufficientBalance" ELSE "ok"
      [] c.op = "transfer" ->
           IF Locked(t) THEN "SlotLocked" ELSE "InsufficientBalance"
      [] c.op = "reject_transfer" ->
           IF Locked(t) THEN "SlotLocked"
           ELSE IF tokens[t].frozen THEN "TokenFrozen"
           ELSE IF tokens[t].share = 0 THEN "InsufficientBalance" ELSE "ok"
  BY <1>1, <1>3 DEF Verdict, PostOpNames
<1>5. c.op # "transfer"
  BY <1>4
<1>6. c.op \in {"merge", "burn", "reject_transfer"} => tokens[t].share # 0
  BY <1>4
<1>7. c.op = "reject_transfer" => Transferable(Of(t))
  BY <1>4 DEF Locked, Of
<1> QED
  BY <1>1, <1>2, <1>3, <1>5, <1>6, <1>7 DEF PostOpNames

\* A call that is carried out keeps what slots and tokens were made for.
LEMMA MintEffect ==
  ASSUME ChainTypes, NEW c \in Calls, c.op = "mint", Verdict(c) = "ok", Execute(c)
  PROVE  /\ sft' = sft /\ slots' = slots /\ c.args[1] \in DOMAIN slots
         /\ Len(tokens') = Len(tokens) + 1
         /\ tokens' \in Seq(Tokens)
         /\ DOMAIN tokens' = DOMAIN tokens \union {Len(tokens')}
         /\ Len(tokens') \notin DOMAIN tokens
         /\ \A t \in DOMAIN tokens : tokens'[t] = tokens[t]
         /\ tokens'[Len(tokens')] = [slot |-> c.args[1], share |-> 1,
                                     frozen |-> FALSE, gone |-> FALSE]
<1>1. c.args[1] \in DOMAIN slots /\ sft
  BY DEF Verdict
<1> DEFINE new == [slot |-> c.args[1], share |-> 1, frozen |-> FALSE, gone |-> FALSE]
<1>2. sft' = sft /\ slots' = slots /\ tokens' = Append(tokens, new)
  BY <1>1 DEF Execute, ChainTypes
<1>3. new \in Tokens
  <2>1. c.args[1] \in Nat \ {0}
    BY <1>1 DEF ChainTypes
  <2> QED
    BY <2>1 DEF Tokens
<1>4. new.slot = c.args[1] /\ new.share = 1 /\ new.frozen = FALSE /\ new.gone = FALSE
  OBVIOUS
<1> HIDE DEF new
<1>5. /\ tokens' \in Seq(Tokens) /\ Len(tokens') = Len(tokens) + 1
      /\ \A t \in 1..Len(tokens) : tokens'[t] = tokens[t]
      /\ tokens'[Len(tokens) + 1] = new
  BY <1>2, <1>3 DEF ChainTypes
<1>6. /\ DOMAIN tokens = 1..Len(tokens) /\ DOMAIN tokens' = 1..(Len(tokens) + 1)
      /\ Len(tokens) \in Nat
  BY <1>5 DEF ChainTypes
<1>7. /\ DOMAIN tokens' = DOMAIN tokens \union {Len(tokens')}
      /\ Len(tokens') \notin DOMAIN tokens
  BY <1>5, <1>6
<1> QED
  BY <1>1, <1>2, <1>5, <1>6, <1>7 DEF new

LEMMA SlotEffect ==
  ASSUME ChainTypes, NEW c \in Calls, c.op = "create_slot", Verdict(c) = "ok", Execute(c)
  PROVE  /\ sft' = sft /\ tokens' = tokens
         /\ slots' \in Seq(Scenarios) /\ Len(slots') = Len(slots) + 1
         /\ \A n \in DOMAIN slots : slots'[n] = slots[n]
         /\ Len(slots') \notin DOMAIN slots /\ slots'[Len(slots')] = c.key
         /\ DOMAIN slots' = DOMAIN slots \union {Len(slots')}
<1>1. c.key \in Scenarios
  BY DEF Calls, KernelCalls, PostCalls
<1>2. sft' = sft /\ tokens' = tokens /\ slots' = Append(slots, c.key)
  BY DEF Execute, Verdict, ChainTypes
<1>3. /\ slots' \in Seq(Scenarios) /\ Len(slots') = Len(slots) + 1
      /\ \A n \in 1..Len(slots) : slots'[n] = slots[n]
      /\ slots'[Len(slots) + 1] = c.key
  BY <1>1, <1>2 DEF ChainTypes
<1>4. /\ DOMAIN slots = 1..Len(slots) /\ DOMAIN slots' = 1..(Len(slots) + 1)
      /\ Len(slots) \in Nat
  BY <1>3 DEF ChainTypes
<1> QED
  BY <1>2, <1>3, <1>4

\* Freezes, transfers, burns and merges touch the tokens they name, each in its way.
LEMMA PostEffect ==
  ASSUME ChainTypes, NEW c \in PostCalls, Verdict(c) = "ok", Execute(c)
  PROVE  /\ sft' = sft /\ slots' = slots
         /\ tokens' \in Seq(Tokens) /\ DOMAIN tokens' = DOMAIN tokens
         /\ \A t \in DOMAIN tokens :
              /\ tokens'[t].slot = tokens[t].slot
              /\ tokens'[t].frozen <=> tokens[t].frozen \/ (c.op = "freeze" /\ t = c.args[1])
              /\ tokens'[t].gone <=> tokens[t].gone \/ (c.op = "merge" /\ t = c.args[1])
              /\ c.op = "freeze" => tokens'[t].share = tokens[t].share
              /\ c.op \in {"burn", "reject_transfer"} =>
                   tokens'[t].share = IF t = c.args[1] THEN tokens[t].share - 1
                                                       ELSE tokens[t].share
              /\ c.op = "merge" =>
                   /\ t \notin {c.args[1], c.args[2]} => tokens'[t].share = tokens[t].share
                   /\ t = c.args[2] => tokens'[t].share # 0
<1>1. /\ 1 \in DOMAIN c.args /\ c.args[1] \in DOMAIN tokens
      /\ c.op = "merge" => 2 \in DOMAIN c.args /\ c.args[2] \in DOMAIN tokens
      /\ c.op \in {"freeze", "merge", "burn", "reject_transfer"}
      /\ c.op \in {"merge", "burn", "reject_transfer"} => tokens[c.args[1]].share # 0
  BY PostVerdict
<1>2. /\ DOMAIN tokens = 1..Len(tokens) /\ tokens \in Seq(Tokens)
      /\ \A t \in DOMAIN tokens : tokens[t] \in Tokens
  BY DEF ChainTypes
<1>3. sft' = sft /\ slots' = slots
  BY <1>1 DEF Execute, ChainTypes
<1> DEFINE a == c.args[1]
           b == c.args[2]
<1>4. CASE c.op = "freeze"
  <2>1. tokens' = [tokens EXCEPT ![a].frozen = TRUE]
    BY <1>4 DEF Execute
  <2> HIDE DEF a, b
  <2> DEFINE new == [tokens[a] EXCEPT !.frozen = TRUE]
  <2>2. tokens' = [tokens EXCEPT ![a] = new] /\ a \in DOMAIN tokens
    BY <1>1, <1>2, <2>1 DEF a
  <2>3. /\ new \in Tokens /\ new.frozen /\ new.slot = tokens[a].slot
        /\ new.share = tokens[a].share /\ new.gone = tokens[a].gone
    BY <1>2, <2>2 DEF Tokens
  <2> HIDE DEF new
  <2>4. /\ tokens' \in Seq(Tokens) /\ DOMAIN tokens' = DOMAIN tokens
        /\ tokens'[a] = new /\ \A t \in DOMAIN tokens \ {a} : tokens'[t] = tokens[t]
    BY <1>2, <2>2, <2>3
  <2> QED
    BY <1>2, <1>3, <1>4, <2>3, <2>4 DEF a
<1>5. CASE c.op \in {"burn", "reject_transfer"}
  <2>1. tokens' = [tokens EXCEPT ![a].share = @ - 1]
    BY <1>5 DEF Execute
  <2>2. a \in DOMAIN tokens /\ tokens[a].share # 0
    BY <1>1, <1>5
  <2> HIDE DEF a, b
  <2> DEFINE new == [tokens[a] EXCEPT !.share = tokens[a].share - 1]
  <2>3. tokens' = [tokens EXCEPT ![a] = new]
    BY <1>2, <2>1, <2>2
  <2>4. /\ new \in Tokens /\ new.frozen = tokens[a].frozen /\ new.slot = tokens[a].slot
        /\ new.share = tokens[a].share - 1 /\ new.gone = tokens[a].gone
    <3>1. tokens[a] \in Tokens /\ tokens[a].share \in Nat
      BY <1>2, <2>2 DEF Tokens
    <3>2. tokens[a].share - 1 \in Nat
      BY <2>2, <3>1
    <3> QED
      BY <3>1, <3>2 DEF Tokens
  <2> HIDE DEF new
  <2>5. /\ tokens' \in Seq(Tokens) /\ DOMAIN tokens' = DOMAIN tokens
        /\ tokens'[a] = new /\ \A t \in DOMAIN tokens \ {a} : tokens'[t] = tokens[t]
    BY <1>2, <2>2, <2>3, <2>4
  <2> QED
    BY <1>2, <1>3, <1>5, <2>4, <2>5 DEF a
<1>6. CASE c.op = "merge"
  <2>1. tokens' = LET merged == [tokens EXCEPT ![a] = [@ EXCEPT !.gone = TRUE, !.share = 0]]
                  IN [merged EXCEPT ![b].share = @ + tokens[a].share]
    BY <1>6 DEF Execute
  <2>2. a \in DOMAIN tokens /\ b \in DOMAIN tokens /\ tokens[a].share # 0
    BY <1>1, <1>6
  <2> HIDE DEF a, b
  <2> DEFINE taken == [tokens[a] EXCEPT !.gone = TRUE, !.share = 0]
             one == [tokens EXCEPT ![a] = taken]
  <2>3. tokens' = [one EXCEPT ![b].share = @ + tokens[a].share]
    BY <2>1
  <2>4. /\ taken \in Tokens /\ taken.gone /\ taken.share = 0
        /\ taken.slot = tokens[a].slot /\ taken.frozen = tokens[a].frozen
    BY <1>2, <2>2 DEF Tokens
  <2> HIDE DEF taken
  <2>5. /\ one \in Seq(Tokens) /\ DOMAIN one = DOMAIN tokens /\ one[a] = taken
        /\ \A t \in DOMAIN tokens \ {a} : one[t] = tokens[t]
        /\ \A t \in DOMAIN tokens : one[t] \in Tokens
    BY <1>2, <2>2, <2>4
  <2> HIDE DEF one
  <2> DEFINE given == [one[b] EXCEPT !.share = one[b].share + tokens[a].share]
  <2>6. /\ given \in Tokens /\ given.share = one[b].share + tokens[a].share
        /\ given.slot = one[b].slot /\ given.frozen = one[b].frozen
        /\ given.gone = one[b].gone
    <3>1. one[b] \in Tokens /\ tokens[a].share \in Nat
      BY <1>2, <2>2, <2>5 DEF Tokens
    <3> QED
      BY <3>1 DEF Tokens
  <2>7. tokens' = [one EXCEPT ![b] = given]
    BY <2>2, <2>3, <2>5
  <2> HIDE DEF given
  <2>8. /\ tokens' \in Seq(Tokens) /\ DOMAIN tokens' = DOMAIN tokens /\ tokens'[b] = given
        /\ \A t \in DOMAIN tokens \ {b} : tokens'[t] = one[t]
    BY <1>2, <2>2, <2>5, <2>6, <2>7
  <2>9. given.share # 0
    <3>1. one[b].share \in Nat /\ tokens[a].share \in Nat
      BY <1>2, <2>2, <2>5 DEF Tokens
    <3> QED
      BY <2>2, <2>6, <3>1
  <2>10. ASSUME NEW t \in DOMAIN tokens
         PROVE  /\ tokens'[t].slot = tokens[t].slot
                /\ tokens'[t].frozen <=> tokens[t].frozen
                /\ tokens'[t].gone <=> tokens[t].gone \/ t = a
                /\ t \notin {a, b} => tokens'[t].share = tokens[t].share
                /\ t = b => tokens'[t].share # 0
    <3>1. /\ one[t].slot = tokens[t].slot
          /\ one[t].frozen <=> tokens[t].frozen
          /\ one[t].gone <=> tokens[t].gone \/ t = a
      BY <2>4, <2>5, <2>10
    <3>2. CASE t = b
      BY <2>6, <2>8, <2>9, <3>1, <3>2
    <3>3. CASE t # b
      BY <2>5, <2>8, <3>1, <3>3
    <3> QED
      BY <3>2, <3>3
  <2> QED
    BY <1>3, <1>6, <2>8, <2>10 DEF a, b
<1> QED
  BY <1>1, <1>4, <1>5, <1>6

\* Nothing that was made is taken back, and new tokens are untouched.
LEMMA ExecuteStep ==
  ASSUME ChainTypes, NEW c \in Calls, Verdict(c) = "ok", Execute(c)
  PROVE  /\ sft' \in BOOLEAN /\ (sft => sft')
         /\ slots' \in Seq(Scenarios) /\ tokens' \in Seq(Tokens)
         /\ DOMAIN slots \subseteq DOMAIN slots'
         /\ \A n \in DOMAIN slots : slots'[n] = slots[n]
         /\ DOMAIN tokens \subseteq DOMAIN tokens'
         /\ \A t \in DOMAIN tokens' : tokens'[t].slot \in DOMAIN slots'
         /\ \A t \in DOMAIN tokens : /\ tokens'[t].slot = tokens[t].slot
                                     /\ slots'[tokens'[t].slot] = slots[tokens[t].slot]
                                     /\ c \in KernelCalls => tokens'[t] = tokens[t]
         /\ \A t \in DOMAIN tokens' \ DOMAIN tokens :
              c \in KernelCalls /\ tokens'[t].share = 1
              /\ tokens'[t].frozen = FALSE /\ tokens'[t].gone = FALSE
<1>1. CASE c \in PostCalls
  <2>1. c \notin KernelCalls
    BY <1>1 DEF PostCalls, KernelCalls, PostOpNames
  <2>2. /\ sft' = sft /\ slots' = slots
        /\ tokens' \in Seq(Tokens) /\ DOMAIN tokens' = DOMAIN tokens
        /\ \A t \in DOMAIN tokens : tokens'[t].slot = tokens[t].slot
    BY <1>1, PostEffect
  <2> QED
    BY <2>1, <2>2 DEF ChainTypes
<1>2. CASE c \in KernelCalls
  <2>0. c.op \in {"create_sft", "create_slot", "mint"} /\ c \notin PostCalls
    BY <1>2 DEF KernelCalls, PostCalls, PostOpNames
  <2>1. CASE c.op = "create_sft"
    <3>1. sft' = TRUE /\ slots' = slots /\ tokens' = tokens
      BY <2>1 DEF Execute
    <3> QED
      BY <3>1, <1>2 DEF ChainTypes
  <2>2. CASE c.op = "create_slot"
    <3>1. /\ sft' = sft /\ tokens' = tokens /\ slots' \in Seq(Scenarios)
          /\ \A n \in DOMAIN slots : slots'[n] = slots[n]
          /\ DOMAIN slots' = DOMAIN slots \union {Len(slots')}
      BY <2>2, SlotEffect
    <3> QED
      BY <3>1, <1>2 DEF ChainTypes
  <2>3. CASE c.op = "mint"
    <3>1. /\ sft' = sft /\ slots' = slots /\ c.args[1] \in DOMAIN slots
          /\ tokens' \in Seq(Tokens)
          /\ DOMAIN tokens' = DOMAIN tokens \union {Len(tokens')}
          /\ \A t \in DOMAIN tokens : tokens'[t] = tokens[t]
          /\ tokens'[Len(tokens')] = [slot |-> c.args[1], share |-> 1,
                                      frozen |-> FALSE, gone |-> FALSE]
      BY <2>3, MintEffect
    <3> DEFINE new == tokens'[Len(tokens')]
    <3>2. new.slot = c.args[1] /\ new.share = 1 /\ new.frozen = FALSE /\ new.gone = FALSE
      BY <3>1
    <3>3. ASSUME NEW t \in DOMAIN tokens
          PROVE  /\ tokens'[t].slot \in DOMAIN slots' /\ tokens'[t].slot = tokens[t].slot
                 /\ slots'[tokens'[t].slot] = slots[tokens[t].slot]
                 /\ tokens'[t] = tokens[t]
      BY <3>1 DEF ChainTypes
    <3>4. \A t \in DOMAIN tokens' \ DOMAIN tokens : t = Len(tokens')
      BY <3>1
    <3>5. \A t \in DOMAIN tokens' \ DOMAIN tokens :
             /\ c \in KernelCalls /\ tokens'[t].share = 1
             /\ tokens'[t].frozen = FALSE /\ tokens'[t].gone = FALSE
             /\ tokens'[t].slot \in DOMAIN slots'
      BY <1>2, <3>1, <3>2, <3>4
    <3>6. \A t \in DOMAIN tokens' : tokens'[t].slot \in DOMAIN slots'
      BY <3>3, <3>5
    <3>7. sft' \in BOOLEAN /\ (sft => sft') /\ slots' \in Seq(Scenarios)
      BY <3>1 DEF ChainTypes
    <3> QED
      BY <3>1, <3>3, <3>5, <3>6, <3>7
  <2> QED
    BY <2>0, <2>1, <2>2, <2>3
<1> QED
  BY <1>1, <1>2 DEF Calls

\* The calls that the job makes or that may still arrive.
Issued(c) == c \in KernelCalls \/ c \in late \/ (PostRuns /\ c = PostCall)

\* Unless the chain is wiped, a step carries out one such call or none, and leaves
\* at most one behind.
LEMMA ChainStep ==
  ASSUME IInv, [Next]_vars, ~ Wipe
  PROVE  /\ cfg' = cfg /\ wipes' = wipes
         /\ \/ UNCHANGED chain
            \/ \E c \in Calls : Issued(c) /\ Verdict(c) = "ok" /\ Execute(c)
         /\ \/ late' \subseteq late /\ lost' = lost
            \/ /\ lost < MaxLost /\ lost' = lost + 1
               /\ \E c \in Calls : Issued(c) /\ late' = late \union {c}
<1> DEFINE Carry == \E c \in Calls : Issued(c) /\ Verdict(c) = "ok" /\ Execute(c)
           Leave == \/ late' = late /\ lost' = lost
                    \/ /\ lost < MaxLost /\ lost' = lost + 1
                       /\ \E c \in Calls : Issued(c) /\ late' = late \union {c}
<1>1. /\ \A c \in {CreateSft, CreateSlotCall, MintCall} : c \in Calls /\ Issued(c)
      /\ PostRuns => PostCall \in Calls /\ Issued(PostCall)
      /\ late \subseteq Calls
  BY KernelIs, PostCallIs DEF IInv, Calls, Issued, ChainTypes
<1>2. ASSUME NEW c \in Calls, Issued(c) PROVE /\ Carried(c) => Carry /\ UNCHANGED network
                                              /\ Failed(c) => Leave /\ UNCHANGED chain
  BY <1>2 DEF Carried, Failed, network
<1>3. ASSUME UNCHANGED <<cfg, chain, network, wipes>>
      PROVE  /\ cfg' = cfg /\ wipes' = wipes /\ UNCHANGED chain /\ Leave
  BY <1>3 DEF network
<1> HIDE DEF Carry
<1>4. CASE UNCHANGED <<cfg, chain, network, wipes>>
  BY <1>3, <1>4
<1>5. CASE Create \/ EnsureSlot \/ MintOne
  <2>1. cfg' = cfg /\ wipes' = wipes
    BY <1>5 DEF Create, EnsureSlot, MintOne
  <2>2. UNCHANGED <<chain, network>> \/ \E c \in {CreateSft, CreateSlotCall, MintCall} : Carried(c)
    BY <1>5 DEF Create, EnsureSlot, MintOne
  <2>3. (UNCHANGED chain \/ Carry) /\ UNCHANGED network
    BY <1>1, <1>2, <2>2
  <2> QED
    BY <2>1, <2>3 DEF Carry, network
<1>6. CASE KernelError
  <2>1. cfg' = cfg /\ wipes' = wipes
    BY <1>6 DEF KernelError
  <2>2. \E c \in {CreateSft, CreateSlotCall, MintCall} : Failed(c)
    BY <1>6 DEF KernelError
  <2>3. UNCHANGED chain /\ Leave
    BY <1>1, <1>2, <2>2
  <2> QED
    BY <2>1, <2>3
<1>7. CASE PostDone \/ RejectThrough
  <2>1. /\ cfg' = cfg /\ wipes' = wipes /\ PostRuns
        /\ Carried(PostCall) \/ UNCHANGED <<chain, network>>
    BY <1>7 DEF PostDone, RejectThrough
  <2>2. (UNCHANGED chain \/ Carry) /\ UNCHANGED network
    BY <1>1, <1>2, <2>1
  <2> QED
    BY <2>1, <2>2 DEF Carry, network
<1>8. CASE PostError \/ RejectRefused
  <2>1. cfg' = cfg /\ wipes' = wipes /\ PostRuns /\ Failed(PostCall)
    BY <1>8 DEF PostError, RejectRefused
  <2>2. UNCHANGED chain /\ Leave
    BY <1>1, <1>2, <2>1
  <2> QED
    BY <2>1, <2>2
<1>9. CASE LateExecute
  <2>1. PICK c \in late : /\ late' = late \ {c} /\ lost' = lost
                          /\ Verdict(c) = "ok" /\ Execute(c)
    BY <1>9 DEF LateExecute
  <2>2. cfg' = cfg /\ wipes' = wipes
    BY <1>9 DEF LateExecute
  <2> QED
    BY <1>1, <2>1, <2>2 DEF Issued
<1>10. CASE Start \/ SlotMarked \/ MarkSlot \/ PostMarked \/ PostTolerated
  BY <1>4, <1>10 DEF Start, SlotMarked, MarkSlot, PostMarked, PostTolerated
<1>11. CASE NextSlot \/ Complete \/ Crash \/ UNCHANGED vars
  BY <1>4, <1>11 DEF NextSlot, Complete, Crash, vars
<1> QED
  BY <1>5, <1>6, <1>7, <1>8, <1>9, <1>10, <1>11 DEF Next, Job

\* The record a step makes, if it makes one.
Fresh(r) ==
  \/ r = [marks |-> {}, ids |-> [key \in Scenarios |-> <<>>]]
  \/ r = [marks |-> marks \union {CreateStage}, ids |-> ids]
  \/ /\ MarkSlot
     /\ r = [marks |-> marks \union {SlotStage(Scenario)},
             ids |-> [ids EXCEPT ![Scenario] = got]]
  \/ /\ PostRuns /\ (PostDone \/ PostTolerated \/ RejectRefused)
     /\ r = [marks |-> marks \union {PostStage(Scenario, o)}, ids |-> ids]

LEMMA RecordStep ==
  ASSUME IInv, [Next]_vars
  PROVE  /\ file' = [marks |-> file'.marks, ids |-> file'.ids]
         /\ \A r \in Records' : r \in Records \/ Fresh(r)
<1>1. file = [marks |-> file.marks, ids |-> file.ids]
  BY DEF IInv, MarkTypes
<1> DEFINE now == [marks |-> marks', ids |-> ids']
<1>2. Records' = {now, file'}
  BY DEF Records
<1>3. ASSUME now \in Records \/ Fresh(now), file' \in {file, now}
      PROVE  /\ file' = [marks |-> file'.marks, ids |-> file'.ids]
             /\ \A r \in Records' : r \in Records \/ Fresh(r)
  <2>1. file \in Records /\ now = [marks |-> now.marks, ids |-> now.ids]
    BY DEF Records
  <2> HIDE DEF now
  <2> QED
    BY <1>1, <1>2, <1>3, <2>1
<1>4. CASE UNCHANGED <<memory, file>>
  BY <1>3, <1>4 DEF memory, Records
<1>5. CASE Start
  <2>1. PICK reset \in BOOLEAN :
          IF reset
          THEN /\ marks' = {} /\ ids' = [key \in Scenarios |-> <<>>]
               /\ file' \in {file, [marks |-> {}, ids |-> ids']}
          ELSE marks' = file.marks /\ ids' = file.ids /\ UNCHANGED file
    BY <1>5 DEF Start
  <2>2. CASE reset
    BY <1>3, <2>1, <2>2 DEF Fresh
  <2>3. CASE ~ reset
    BY <1>1, <1>3, <2>1, <2>3 DEF Records
  <2> QED
    BY <2>2, <2>3
<1>6. CASE Create
  <2>1. UNCHANGED <<memory, file>> \/ Mark(CreateStage, ids)
    BY <1>6 DEF Create
  <2>2. CASE Mark(CreateStage, ids)
    BY <1>3, <2>2 DEF Mark, Fresh
  <2> QED
    BY <1>4, <2>1, <2>2
<1>7. CASE MarkSlot
  <2>1. Mark(SlotStage(Scenario), [ids EXCEPT ![Scenario] = got])
    BY <1>7 DEF MarkSlot
  <2> QED
    BY <1>3, <1>7, <2>1 DEF Mark, Fresh
<1>8. CASE PostDone \/ PostTolerated \/ RejectRefused
  <2>1. PostRuns /\ Mark(PostStage(Scenario, o), ids)
    BY <1>8 DEF PostDone, PostTolerated, RejectRefused, MarkPost
  <2> QED
    BY <1>3, <1>8, <2>1 DEF Mark, Fresh
<1>9. CASE SlotMarked \/ EnsureSlot \/ MintOne \/ PostMarked \/ NextSlot \/ Complete
  BY <1>4, <1>9 DEF SlotMarked, EnsureSlot, MintOne, PostMarked, NextSlot, Complete
<1>10. CASE KernelError \/ PostError \/ RejectThrough \/ Crash
  BY <1>4, <1>10 DEF KernelError, PostError, RejectThrough, Crash, Fail
<1>11. CASE LateExecute \/ Wipe \/ UNCHANGED vars
  BY <1>4, <1>11 DEF LateExecute, Wipe, vars
<1> QED
  BY <1>5, <1>6, <1>7, <1>8, <1>9, <1>10, <1>11 DEF Next, Job

-----------------------------------------------------------------------------
(* The type invariant. *)

LEMMA NextChainTypes ==
  ASSUME IInv, [Next]_vars
  PROVE  ChainTypes' /\ lost' \in 0..MaxLost
<1>0. ChainTypes /\ lost \in 0..MaxLost /\ MaxLost \in Nat
  BY ConfigAssumption DEF IInv, JobTypes
<1>1. CASE Wipe
  <2>1. sft' = FALSE /\ slots' = <<>> /\ tokens' = <<>> /\ late' = {} /\ lost' = lost
    BY <1>1 DEF Wipe
  <2>2. IsFiniteSet({}) /\ Cardinality({}) = 0
    BY FS_EmptySet
  <2>3. late' \subseteq Calls' /\ IsFiniteSet(late') /\ Cardinality(late') <= lost'
    BY <1>0, <2>1, <2>2
  <2>4. slots' \in Seq(Scenarios) /\ tokens' \in Seq(Tokens) /\ DOMAIN tokens' = {}
    BY <2>1
  <2> QED
    BY <1>0, <2>1, <2>3, <2>4 DEF ChainTypes
<1>2. CASE ~ Wipe
  <2>1. /\ UNCHANGED chain \/ \E c \in Calls : Verdict(c) = "ok" /\ Execute(c)
        /\ \/ late' \subseteq late /\ lost' = lost
           \/ /\ lost < MaxLost /\ lost' = lost + 1
              /\ \E c \in Calls : late' = late \union {c}
    BY <1>2, ChainStep
  <2>2. /\ sft' \in BOOLEAN /\ slots' \in Seq(Scenarios) /\ tokens' \in Seq(Tokens)
        /\ \A t \in DOMAIN tokens' : tokens'[t].slot \in DOMAIN slots'
    <3>1. CASE UNCHANGED chain
      BY <1>0, <3>1 DEF ChainTypes, chain
    <3>2. CASE \E c \in Calls : Verdict(c) = "ok" /\ Execute(c)
      BY <1>0, <3>2, ExecuteStep
    <3> QED
      BY <2>1, <3>1, <3>2
  <2>3. IsFiniteSet(late) /\ Cardinality(late) \in Nat /\ late \subseteq Calls
        /\ Cardinality(late) <= lost
    BY <1>0, FS_CardinalityType DEF ChainTypes
  <2>4. CASE late' \subseteq late /\ lost' = lost
    <3>1. IsFiniteSet(late') /\ Cardinality(late') <= Cardinality(late)
      BY <2>3, <2>4, FS_Subset
    <3>2. Cardinality(late') \in Nat
      BY <3>1, FS_CardinalityType
    <3>3. Cardinality(late') <= lost'
      BY <1>0, <2>3, <2>4, <3>1, <3>2
    <3> QED
      BY <1>0, <2>2, <2>3, <2>4, <3>1, <3>3 DEF ChainTypes, Calls, KernelCalls, PostCalls
  <2>5. CASE /\ lost < MaxLost /\ lost' = lost + 1
             /\ \E c \in Calls : late' = late \union {c}
    <3>1. PICK c \in Calls : late' = late \union {c}
      BY <2>5
    <3>2. IsFiniteSet(late') /\ Cardinality(late') <= Cardinality(late) + 1
      <4>1. /\ IsFiniteSet(late')
            /\ Cardinality(late') = IF c \in late THEN Cardinality(late)
                                                 ELSE Cardinality(late) + 1
        BY <2>3, <3>1, FS_AddElement
      <4> QED
        BY <2>3, <4>1
    <3>3. Cardinality(late') \in Nat
      BY <3>2, FS_CardinalityType
    <3>4. Cardinality(late') <= lost' /\ lost' \in 0..MaxLost
      BY <1>0, <2>3, <2>5, <3>2, <3>3
    <3>5. late' \subseteq Calls
      BY <2>3, <3>1
    <3> QED
      BY <2>2, <3>2, <3>4, <3>5 DEF ChainTypes, Calls, KernelCalls, PostCalls
  <2> QED
    BY <2>1, <2>4, <2>5
<1> QED
  BY <1>1, <1>2

\* Every record stays well typed: a slot is marked with a full list, a post
\* operation only where its slot is marked.
LEMMA NextMarkTypes ==
  ASSUME IInv, [Next]_vars
  PROVE  MarkTypes'
<1>0. JobTypes /\ MarkTypes /\ cfg.perSlot \in 1..100 /\ Scenario \in Scenarios
  BY ScenarioIs DEF IInv
<1>1. cfg' = cfg
  BY DEF Next, Job, Start, Create, SlotMarked, EnsureSlot, MintOne, MarkSlot, KernelError,
     PostMarked, PostDone, PostTolerated, PostError, RejectRefused, RejectThrough, NextSlot,
     Complete, Crash, LateExecute, Wipe, vars
<1>2. RecordType([marks |-> marks, ids |-> ids])
  BY <1>0 DEF MarkTypes, Records
<1>3. /\ marks \subseteq Stages /\ ids \in [Scenarios -> Seq(Nat)]
      /\ \A key \in Scenarios :
           /\ SlotStage(key) \in marks => Len(ids[key]) = cfg.perSlot
           /\ SlotStage(key) \notin marks => ids[key] = <<>>
           /\ \A i \in 1..2 : PostStage(key, i) \in marks => SlotStage(key) \in marks
  BY <1>2 DEF RecordType
<1>4. ASSUME NEW r, Fresh(r)
      PROVE  RecordType(r)
  <2>1. CASE r = [marks |-> {}, ids |-> [key \in Scenarios |-> <<>>]]
    BY <2>1 DEF RecordType
  <2>2. CASE r = [marks |-> marks \union {CreateStage}, ids |-> ids]
    <3>1. r.marks = marks \union {CreateStage} /\ r.ids = ids
      BY <2>2
    <3> QED
      BY <1>3, <3>1, StagesDiffer DEF RecordType
  <2>3. CASE /\ MarkSlot
             /\ r = [marks |-> marks \union {SlotStage(Scenario)},
                     ids |-> [ids EXCEPT ![Scenario] = got]]
    <3>1. /\ r.marks = marks \union {SlotStage(Scenario)}
          /\ r.ids = [ids EXCEPT ![Scenario] = got]
      BY <2>3
    <3>2. Len(got) = cfg.perSlot /\ got \in Seq(Nat)
      BY <1>0, <2>3 DEF MarkSlot, JobTypes
    <3>3. /\ r.ids \in [Scenarios -> Seq(Nat)] /\ r.ids[Scenario] = got
          /\ \A key \in Scenarios \ {Scenario} : r.ids[key] = ids[key]
      BY <1>0, <1>3, <3>1, <3>2
    <3>4. r.marks \subseteq Stages /\ SlotStage(Scenario) \in r.marks
      BY <1>0, <1>3, <3>1, StagesDiffer
    <3>5. \A key \in Scenarios :
            /\ SlotStage(key) \in r.marks <=> SlotStage(key) \in marks \/ key = Scenario
            /\ \A i \in 1..2 : PostStage(key, i) \in r.marks <=> PostStage(key, i) \in marks
      BY <1>0, <3>1, StagesDiffer
    <3> QED
      BY <1>0, <1>3, <3>2, <3>3, <3>4, <3>5 DEF RecordType
  <2>4. CASE /\ PostRuns
             /\ r = [marks |-> marks \union {PostStage(Scenario, o)}, ids |-> ids]
    <3>1. r.marks = marks \union {PostStage(Scenario, o)} /\ r.ids = ids
      BY <2>4
    <3>2. SlotStage(Scenario) \in marks /\ o \in 1..2
      BY <1>0, <2>4, PostCallIs
    <3>3. r.marks \subseteq Stages
      BY <1>0, <1>3, <3>1, <3>2, StagesDiffer
    <3>4. \A key \in Scenarios :
            /\ SlotStage(key) \in r.marks <=> SlotStage(key) \in marks
            /\ \A i \in 1..2 : PostStage(key, i) \in r.marks
                                 => PostStage(key, i) \in marks \/ key = Scenario
      BY <1>0, <3>1, <3>2, StagesDiffer
    <3> QED
      BY <1>3, <3>1, <3>2, <3>3, <3>4 DEF RecordType
  <2> QED
    BY <1>4, <2>1, <2>2, <2>3, <2>4 DEF Fresh
<1>5. ASSUME NEW r \in Records' PROVE RecordType(r)
  BY <1>0, <1>4, RecordStep DEF MarkTypes
<1>6. \A r \in Records' : RecordType(r)'
  BY <1>1, <1>5 DEF RecordType
<1> QED
  BY <1>6, RecordStep DEF MarkTypes

LEMMA NextJobTypes ==
  ASSUME IInv, [Next]_vars
  PROVE  JobTypes'
<1>0. /\ JobTypes /\ cfg.perSlot \in 1..100 /\ Scenario \in Scenarios /\ cfg.slots \in 1..20
      /\ k \in Nat /\ k >= 1 /\ lost' \in 0..MaxLost
      /\ MaxJobs \in Nat /\ MaxWipes \in Nat
  BY ScenarioIs, NextChainTypes, ConfigAssumption DEF IInv
<1> DEFINE At == /\ pc' \in {"idle", "create", "slot", "mint", "post"}
                 /\ k' \in 1..(cfg.slots + 1) /\ cur' \in Nat /\ got' \in Seq(Nat)
                 /\ o' \in 1..3 /\ Len(got') <= cfg.perSlot
                 /\ pc' \in {"mint", "post"} => k' <= cfg.slots
           Told == own' \subseteq Scenarios /\ outcome' \in {"none", "completed", "failed"}
           Counts == /\ jobs' \in 0..MaxJobs /\ wipes' \in 0..MaxWipes
                     /\ unseen' \in BOOLEAN
                     /\ quiet' \subseteq {"transfer", "freeze", "merge", "burn"}
<1>1. cfg' = cfg
  BY DEF Next, Job, Start, Create, SlotMarked, EnsureSlot, MintOne, MarkSlot, KernelError,
     PostMarked, PostDone, PostTolerated, PostError, RejectRefused, RejectThrough, NextSlot,
     Complete, Crash, LateExecute, Wipe, vars
<1>2. pc' = "mint" => (SlotStage(Scenario) \notin marks)'
  <2>1. ASSUME k' = k, marks' = marks, SlotStage(Scenario) \notin marks
        PROVE  (SlotStage(Scenario) \notin marks)'
    BY <1>1, <2>1 DEF Scenario, Key, SlotStage
  <2>2. CASE EnsureSlot
    BY <2>1, <2>2 DEF EnsureSlot, memory
  <2>3. CASE MintOne \/ LateExecute \/ Wipe \/ UNCHANGED vars
    <3>1. k' = k /\ marks' = marks /\ pc' = pc
      BY <2>3 DEF MintOne, LateExecute, Wipe, vars, at, memory
    <3> QED
      BY <1>0, <2>1, <3>1 DEF JobTypes
  <2>4. CASE Start \/ Create \/ SlotMarked \/ MarkSlot \/ NextSlot
    BY <2>4 DEF Start, Create, SlotMarked, MarkSlot, NextSlot, Goto
  <2>5. CASE PostMarked \/ PostDone \/ PostTolerated \/ RejectRefused
    <3>1. pc' = "post"
      BY <2>5 DEF PostMarked, PostDone, PostTolerated, RejectRefused, PostRuns, PostDue
    <3> QED
      BY <3>1
  <2>6. CASE KernelError \/ PostError \/ RejectThrough \/ Complete \/ Crash
    BY <2>6 DEF KernelError, PostError, RejectThrough, Complete, Crash, Fail, End
  <2> QED
    BY <2>2, <2>3, <2>4, <2>5, <2>6 DEF Next, Job
<1>3. At
  <2>0. <<>> \in Seq(Nat) /\ Len(<<>>) = 0 /\ 0 <= cfg.perSlot
    BY <1>0
  <2>1. CASE KernelError \/ PostError \/ RejectThrough \/ Complete \/ Crash
    <3>1. pc' = "idle" /\ k' = 1 /\ cur' = 0 /\ got' = <<>> /\ o' = 1
      BY <2>1 DEF KernelError, PostError, RejectThrough, Complete, Crash, Fail, End
    <3> QED
      BY <1>0, <2>0, <3>1
  <2>2. CASE Start \/ Create
    <3>1. UNCHANGED <<k, cur, got, o>> /\ pc' \in {"create", "slot"}
      BY <2>2 DEF Start, Create, Goto
    <3> QED
      BY <1>0, <3>1 DEF JobTypes
  <2>3. CASE SlotMarked
    <3>1. UNCHANGED <<k, cur, got>> /\ o' = 1 /\ pc' = "post" /\ k <= cfg.slots
      BY <2>3 DEF SlotMarked, Goto
    <3> QED
      BY <1>0, <3>1 DEF JobTypes
  <2>4. CASE EnsureSlot
    <3>1. /\ k' = k /\ o' = o /\ pc' = "mint" /\ k <= cfg.slots
          /\ cur' = Len(slots') /\ got' = <<>>
      BY <2>4 DEF EnsureSlot, Goto
    <3>2. slots' \in Seq(Scenarios)
      BY NextChainTypes DEF ChainTypes
    <3>3. cur' \in Nat
      BY <3>1, <3>2
    <3> QED
      BY <1>0, <2>0, <3>1, <3>3 DEF JobTypes
  <2>5. CASE MintOne
    <3>1. /\ UNCHANGED <<pc, k, cur, o>> /\ Len(got) < cfg.perSlot
          /\ got' = Append(got, Len(tokens'))
      BY <2>5 DEF MintOne
    <3>2. Len(tokens') \in Nat
      BY NextChainTypes DEF ChainTypes
    <3>3. got' \in Seq(Nat) /\ Len(got') = Len(got) + 1 /\ Len(got) \in Nat
      <4>1. \A m \in Nat : /\ Append(got, m) \in Seq(Nat)
                           /\ Len(Append(got, m)) = Len(got) + 1 /\ Len(got) \in Nat
        BY <1>0 DEF JobTypes
      <4> QED
        BY <3>1, <3>2, <4>1
    <3>4. Len(got') <= cfg.perSlot
      <4>1. Len(got') = Len(got) + 1 /\ Len(got) \in Nat
        BY <3>3
      <4>2. Len(got) < cfg.perSlot
        BY <3>1, Zenon
      <4>3. cfg.perSlot \in Nat
        BY <1>0
      <4>4. \A m, n \in Nat : m < n => m + 1 <= n
        OBVIOUS
      <4> QED
        BY <4>1, <4>2, <4>3, <4>4
    <3>5. /\ pc \in {"idle", "create", "slot", "mint", "post"}
          /\ k \in 1..(cfg.slots + 1) /\ cur \in Nat /\ o \in 1..3
          /\ pc \in {"mint", "post"} => k <= cfg.slots
      BY <1>0 DEF JobTypes
    <3>6. got' \in Seq(Nat)
      BY <3>3
    <3> QED
      BY <3>1, <3>4, <3>5, <3>6
  <2>6. CASE MarkSlot
    <3>1. k' = k /\ cur' = 0 /\ got' = <<>> /\ o' = 1 /\ pc = "mint" /\ pc' = "post"
      BY <2>6 DEF MarkSlot, Goto
    <3> QED
      BY <1>0, <2>0, <3>1 DEF JobTypes
  <2>7. CASE PostMarked \/ PostDone \/ PostTolerated \/ RejectRefused
    <3>1. UNCHANGED <<pc, k, cur, got>> /\ o' = o + 1 /\ o <= Len(PostOps(Scenario))
      BY <2>7 DEF PostMarked, PostDone, PostTolerated, RejectRefused, MarkPost, PostRuns,
         PostDue
    <3>2. o' \in 1..3
      BY <1>0, <3>1, PostOpsAre DEF JobTypes
    <3> QED
      BY <1>0, <3>1, <3>2 DEF JobTypes
  <2>8. CASE NextSlot
    <3>1. UNCHANGED <<cur, got>> /\ k' = k + 1 /\ o' = 1 /\ pc = "post" /\ pc' = "slot"
      BY <2>8 DEF NextSlot, Goto
    <3>2. k <= cfg.slots
      BY <1>0, <3>1 DEF JobTypes
    <3>3. k' \in 1..(cfg.slots + 1)
      BY <1>0, <3>1, <3>2
    <3> QED
      BY <1>0, <3>1, <3>3 DEF JobTypes
  <2>9. CASE LateExecute \/ Wipe \/ UNCHANGED vars
    BY <1>0, <2>9 DEF LateExecute, Wipe, vars, at, JobTypes
  <2> QED
    BY <2>1, <2>2, <2>3, <2>4, <2>5, <2>6, <2>7, <2>8, <2>9 DEF Next, Job
<1>4. Told
  <2>1. own' \in {own, {}, own \union {Scenario}}
    BY DEF Next, Job, Start, Create, SlotMarked, EnsureSlot, MintOne, MarkSlot, KernelError,
       PostMarked, PostDone, PostTolerated, PostError, RejectRefused, RejectThrough, NextSlot,
       Complete, Crash, LateExecute, Wipe, vars, memory, MarkPost, Fail
  <2>2. outcome' \in {outcome, "completed", "failed"}
    BY DEF Next, Job, Start, Create, SlotMarked, EnsureSlot, MintOne, MarkSlot, KernelError,
       PostMarked, PostDone, PostTolerated, PostError, RejectRefused, RejectThrough, NextSlot,
       Complete, Crash, LateExecute, Wipe, vars, Goto, Fail, End
  <2> QED
    BY <1>0, <2>1, <2>2 DEF JobTypes
<1>5. Counts
  <2>1. CASE Start
    BY <1>0, <2>1 DEF Start, JobTypes
  <2>2. CASE Wipe
    BY <1>0, <2>2 DEF Wipe, JobTypes
  <2>3. CASE PostDone
    <3>1. /\ UNCHANGED <<jobs, wipes, unseen>> /\ quiet' \subseteq quiet \union {PostCall.op}
          /\ PostRuns /\ PostCall.op # "reject_transfer"
      BY <2>3 DEF PostDone
    <3>2. PostCall.op \in PostOpNames
      BY <1>0, <3>1, PostCallIs DEF PostCalls, IInv
    <3> QED
      BY <1>0, <3>1, <3>2 DEF JobTypes, PostOpNames
  <2>4. CASE Create
    BY <1>0, <2>4 DEF Create, JobTypes
  <2>5. CASE ~ Start /\ ~ Wipe /\ ~ PostDone /\ ~ Create
    <3>1. UNCHANGED <<jobs, wipes, unseen, quiet>>
      BY <2>5 DEF Next, Job, SlotMarked, EnsureSlot, MintOne, MarkSlot, KernelError,
         PostMarked, PostTolerated, PostError, RejectRefused, RejectThrough, NextSlot,
         Complete, Crash, LateExecute, vars
    <3> QED
      BY <1>0, <3>1 DEF JobTypes
  <2> QED
    BY <2>1, <2>2, <2>3, <2>4, <2>5
<1> QED
  BY <1>0, <1>1, <1>2, <1>3, <1>4, <1>5 DEF JobTypes

\* The collection is there since the job looked at it, or was wiped.
LEMMA NextStands ==
  ASSUME IInv, [Next]_vars
  PROVE  Stands'
<1>1. CASE Wipe
  BY <1>1 DEF Wipe, Stands
<1>2. CASE Create
  <2>1. sft'
    <3>1. CASE sft /\ UNCHANGED <<chain, network>>
      BY <3>1 DEF chain
    <3>2. CASE Carried(CreateSft)
      BY <3>2 DEF Carried, CreateSft, Call, Execute
    <3> QED
      BY <1>2, <3>1, <3>2 DEF Create
  <2> QED
    BY <2>1 DEF Stands
<1>3. CASE ~ Wipe /\ ~ Create
  <2>1. sft => sft'
    <3>1. CASE UNCHANGED chain
      BY <3>1 DEF chain
    <3>2. CASE \E c \in Calls : Verdict(c) = "ok" /\ Execute(c)
      BY <3>2, ExecuteStep DEF IInv
    <3> QED
      BY <1>3, <3>1, <3>2, ChainStep
  <2>2. unseen' = unseen
    BY <1>3 DEF Next, Job, Start, SlotMarked, EnsureSlot, MintOne, MarkSlot, KernelError,
       PostMarked, PostDone, PostTolerated, PostError, RejectRefused, RejectThrough,
       NextSlot, Complete, Crash, LateExecute, vars
  <2>3. pc' \in {"slot", "mint", "post"} \/ (pc' = "idle" /\ outcome' = "completed")
          => pc \in {"slot", "mint", "post"} \/ (pc = "idle" /\ outcome = "completed")
    <3>1. CASE SlotMarked \/ EnsureSlot \/ MintOne \/ MarkSlot \/ Complete
      BY <3>1 DEF SlotMarked, EnsureSlot, MintOne, MarkSlot, Complete
    <3>2. CASE PostMarked \/ PostDone \/ PostTolerated \/ RejectRefused \/ NextSlot
      BY <3>2 DEF PostMarked, PostDone, PostTolerated, RejectRefused, NextSlot, PostRuns,
         PostDue
    <3>3. CASE KernelError \/ PostError \/ RejectThrough \/ Crash
      BY <3>3 DEF KernelError, PostError, RejectThrough, Crash, Fail, End
    <3>4. CASE Start \/ LateExecute \/ UNCHANGED vars
      BY <3>4 DEF Start, LateExecute, vars, at, Goto
    <3> QED
      BY <1>3, <3>1, <3>2, <3>3, <3>4 DEF Next, Job
  <2> QED
    BY <2>1, <2>2, <2>3 DEF IInv, Stands
<1> QED
  BY <1>1, <1>2, <1>3

-----------------------------------------------------------------------------
(* As long as the chain is not wiped. *)

\* What a mark of a slot says about the chain, and a mark of a post operation.
Whole(r, key) ==
  LET t == r.ids[key] IN
  /\ Len(t) = cfg.perSlot
  /\ \A i, j \in DOMAIN t : t[i] = t[j] => i = j
  /\ \E s \in DOMAIN slots : /\ slots[s] = key
                             /\ \A i \in DOMAIN t : t[i] \in DOMAIN tokens
                                                    /\ tokens[t[i]].slot = s
Earned(r, key, i) ==
  PostOps(key)[i] \in quiet \/ TookEffect(PostOps(key)[i], r.ids[key])

LEMMA WholeAndEarned ==
  ASSUME wipes = 0
  PROVE  /\ SlotsWhole <=> \A r \in Records, key \in Scenarios :
                             SlotStage(key) \in r.marks => Whole(r, key)
         /\ OpsEarned <=> \A r \in Records, key \in Scenarios :
                            \A i \in DOMAIN PostOps(key) :
                              PostStage(key, i) \in r.marks => Earned(r, key, i)
BY DEF SlotsWhole, OpsEarned, Whole, Earned

\* The tokens a mark names, or a call that may still arrive, were made for its
\* scenario.
LEMMA MarkedAimed ==
  ASSUME IInv, wipes = 0, NEW r \in Records, NEW key \in Scenarios,
         SlotStage(key) \in r.marks
  PROVE  /\ r.ids[key] \in Seq(Nat) /\ Len(r.ids[key]) = cfg.perSlot
         /\ cfg.perSlot \in 1..100 /\ DOMAIN r.ids[key] = 1..cfg.perSlot
         /\ \A i, j \in DOMAIN r.ids[key] : r.ids[key][i] = r.ids[key][j] => i = j
         /\ \A i \in DOMAIN r.ids[key] : r.ids[key][i] \in DOMAIN tokens
                                         /\ Of(r.ids[key][i]) = key
<1>1. r.ids[key] \in Seq(Nat) /\ cfg.perSlot \in 1..100
  BY ScenarioIs DEF IInv, MarkTypes, RecordType
<1>2. Whole(r, key)
  BY WholeAndEarned DEF IInv, Tidy
<1>3. PICK s \in DOMAIN slots : /\ slots[s] = key
                                /\ \A i \in DOMAIN r.ids[key] :
                                     /\ r.ids[key][i] \in DOMAIN tokens
                                     /\ tokens[r.ids[key][i]].slot = s
  BY <1>2 DEF Whole
<1>4. /\ Len(r.ids[key]) = cfg.perSlot
      /\ \A i, j \in DOMAIN r.ids[key] : r.ids[key][i] = r.ids[key][j] => i = j
  BY <1>2 DEF Whole
<1>5. DOMAIN r.ids[key] = 1..cfg.perSlot
  BY <1>1, <1>4
<1> QED
  BY <1>1, <1>3, <1>4, <1>5 DEF Of

\* A post call names tokens of its scenario, in the parts that the marks give them.
LEMMA IssuedAimed ==
  ASSUME IInv, wipes = 0, NEW c \in PostCalls, Issued(c)
  PROVE  /\ Belongs(c.op, c.key) /\ c.op \in PostOpNames
         /\ 1 \in DOMAIN c.args /\ (c.op = "merge" => 2 \in DOMAIN c.args)
         /\ DOMAIN c.args = IF c.op = "merge" THEN 1..2 ELSE 1..1
         /\ \A i \in DOMAIN c.args : c.args[i] \in DOMAIN tokens /\ Of(c.args[i]) = c.key
         /\ c.op = "merge" => IsFrom(c.args[1]) /\ IsInto(c.args[2])
         /\ c.op = "burn" => IsBurnt(c.args[1])
<1>1. /\ Belongs(c.op, c.key) /\ c.op \in PostOpNames
      /\ DOMAIN c.args = IF c.op = "merge" THEN 1..2 ELSE 1..1
  BY DEF PostCalls
<1>2. 1 \in DOMAIN c.args /\ (c.op = "merge" => 2 \in DOMAIN c.args)
  BY <1>1
<1>3. CASE c \in late
  <2>1. \A i \in DOMAIN c.args : c.args[i] \in DOMAIN tokens /\ Of(c.args[i]) = c.key
    BY <1>1, <1>3 DEF IInv, Tidy, Aimed
  <2> QED
    BY <1>1, <1>2, <1>3, <2>1 DEF IsFrom, IsInto, IsBurnt
<1>4. CASE PostRuns /\ c = PostCall
  <2> DEFINE r == [marks |-> marks, ids |-> ids]
             t == ids[Scenario]
  <2>1. /\ Scenario \in Scenarios /\ SlotStage(Scenario) \in marks /\ c.key = Scenario
        /\ c.op = "merge" => /\ cfg.perSlot >= 2
                             /\ c.args[1] = t[1] /\ c.args[2] = t[2]
        /\ c.op = "burn" => c.args[1] = t[Len(t)]
        /\ \A i \in DOMAIN c.args : \E j \in DOMAIN t : c.args[i] = t[j]
    BY <1>4, PostCallIs DEF IInv
  <2>2. r \in Records /\ r.marks = marks /\ r.ids = ids
    BY DEF Records
  <2>3. \A i \in DOMAIN t : t[i] \in DOMAIN tokens /\ Of(t[i]) = Scenario
    BY <2>1, <2>2, MarkedAimed
  <2>4. \A i \in DOMAIN c.args : c.args[i] \in DOMAIN tokens /\ Of(c.args[i]) = c.key
    BY <2>1, <2>3
  <2> HIDE DEF r
  <2>5. c.op = "merge" => IsFrom(c.args[1]) /\ IsInto(c.args[2])
    <3> SUFFICES ASSUME c.op = "merge" PROVE IsFrom(c.args[1]) /\ IsInto(c.args[2])
      OBVIOUS
    <3>1. Scenario = "merge"
      BY <1>1, <2>1 DEF Belongs
    <3> QED
      BY <2>1, <2>2, <3>1 DEF IsFrom, IsInto
  <2>6. c.op = "burn" => IsBurnt(c.args[1])
    <3> SUFFICES ASSUME c.op = "burn" PROVE IsBurnt(c.args[1])
      OBVIOUS
    <3>1. Scenario = "burn"
      BY <1>1, <2>1 DEF Belongs
    <3> QED
      BY <2>1, <2>2, <3>1 DEF IsBurnt
  <2> QED
    BY <1>1, <1>2, <2>4, <2>5, <2>6
<1>5. c \notin KernelCalls
  BY DEF PostCalls, KernelCalls, PostOpNames
<1> QED
  BY <1>3, <1>4, <1>5 DEF Issued

\* Only tokens on the chain are merged or burnt, each in a slot made for that.
LEMMA TouchedAre ==
  ASSUME IInv, wipes = 0
  PROVE  /\ \A x : IsFrom(x) \/ IsInto(x) => x \in DOMAIN tokens /\ Of(x) = "merge"
         /\ \A x : IsBurnt(x) => x \in DOMAIN tokens /\ Of(x) = "burn"
<1>0. Aimed /\ Effects /\ late \subseteq Calls /\ "merge" \in Scenarios /\ "burn" \in Scenarios
  BY DEF IInv, Tidy, ChainTypes, Scenarios
<1>1. ASSUME NEW c \in late, c.op \in {"merge", "burn"}
      PROVE  /\ c.args[1] \in DOMAIN tokens /\ Of(c.args[1]) = c.op
             /\ c.op = "merge" => c.args[2] \in DOMAIN tokens /\ Of(c.args[2]) = c.op
  <2>1. c \in PostCalls /\ Issued(c)
    BY <1>0, <1>1 DEF Calls, KernelCalls, Issued
  <2>2. c.key = c.op
    BY <1>1, <2>1, IssuedAimed DEF Belongs
  <2> QED
    BY <2>1, <2>2, IssuedAimed
<1>2. ASSUME NEW r \in Records, SlotStage("merge") \in r.marks
      PROVE  /\ r.ids["merge"][1] \in DOMAIN tokens /\ Of(r.ids["merge"][1]) = "merge"
             /\ cfg.perSlot >= 2 => r.ids["merge"][2] \in DOMAIN tokens
                                    /\ Of(r.ids["merge"][2]) = "merge"
  <2>1. /\ cfg.perSlot \in 1..100 /\ DOMAIN r.ids["merge"] = 1..cfg.perSlot
        /\ \A i \in DOMAIN r.ids["merge"] : r.ids["merge"][i] \in DOMAIN tokens
                                            /\ Of(r.ids["merge"][i]) = "merge"
    BY <1>0, <1>2, MarkedAimed
  <2>2. 1 \in 1..cfg.perSlot /\ (cfg.perSlot >= 2 => 2 \in 1..cfg.perSlot)
    <3>1. cfg.perSlot \in 1..100
      BY <2>1
    <3> QED
      BY <3>1
  <2> QED
    BY <2>1, <2>2
<1>3. ASSUME NEW r \in Records, SlotStage("burn") \in r.marks
      PROVE  /\ r.ids["burn"][Len(r.ids["burn"])] \in DOMAIN tokens
             /\ Of(r.ids["burn"][Len(r.ids["burn"])]) = "burn"
  <2>1. /\ cfg.perSlot \in 1..100 /\ DOMAIN r.ids["burn"] = 1..cfg.perSlot
        /\ Len(r.ids["burn"]) = cfg.perSlot
        /\ \A i \in DOMAIN r.ids["burn"] : r.ids["burn"][i] \in DOMAIN tokens
                                           /\ Of(r.ids["burn"][i]) = "burn"
    BY <1>0, <1>3, MarkedAimed
  <2>2. cfg.perSlot \in 1..cfg.perSlot
    <3>1. cfg.perSlot \in 1..100
      BY <2>1
    <3> QED
      BY <3>1
  <2> QED
    BY <2>1, <2>2
<1>4. \A x : IsFrom(x) => x \in DOMAIN tokens /\ Of(x) = "merge"
  BY <1>0, <1>1, <1>2 DEF IsFrom, Effects
<1>5. \A x : IsInto(x) => x \in DOMAIN tokens /\ Of(x) = "merge"
  BY <1>1, <1>2 DEF IsInto
<1>6. \A x : IsBurnt(x) => x \in DOMAIN tokens /\ Of(x) = "burn"
  BY <1>1, <1>3 DEF IsBurnt
<1> QED
  BY <1>4, <1>5, <1>6

\* What a step does to the tokens there are, if the chain is not wiped.
LEMMA TokensStep ==
  ASSUME IInv, [Next]_vars, wipes' = 0
  PROVE  /\ wipes = 0 /\ ~ Wipe /\ cfg' = cfg /\ Tidy
         /\ DOMAIN slots \subseteq DOMAIN slots'
         /\ \A n \in DOMAIN slots : slots'[n] = slots[n]
         /\ DOMAIN tokens \subseteq DOMAIN tokens'
         /\ \A t \in DOMAIN tokens :
              /\ tokens'[t].slot = tokens[t].slot /\ tokens[t].slot \in DOMAIN slots
              /\ slots'[tokens'[t].slot] = slots[tokens[t].slot]
              /\ tokens[t].frozen => tokens'[t].frozen
              /\ tokens[t].gone => tokens'[t].gone
              /\ Of(t) = "burn" /\ tokens[t].share = 0 => tokens'[t].share = 0
         /\ \A t \in DOMAIN tokens' \ DOMAIN tokens :
              /\ tokens'[t].share = 1 /\ ~ tokens'[t].frozen /\ ~ tokens'[t].gone
<1>1. wipes = 0 /\ ~ Wipe
  <2>1. wipes \in Nat
    BY DEF IInv, JobTypes
  <2>2. Wipe => wipes' # 0
    BY <2>1 DEF Wipe
  <2>3. ~ Wipe => wipes' = wipes
    BY ChainStep
  <2> QED
    BY <2>2, <2>3
<1>2. Tidy /\ ChainTypes /\ cfg' = cfg
  BY <1>1, ChainStep DEF IInv
<1>3. CASE UNCHANGED chain
  BY <1>1, <1>2, <1>3 DEF chain, ChainTypes
<1>4. CASE \E c \in Calls : Issued(c) /\ Verdict(c) = "ok" /\ Execute(c)
  <2>1. PICK c \in Calls : Issued(c) /\ Verdict(c) = "ok" /\ Execute(c)
    BY <1>4
  <2>2. /\ DOMAIN slots \subseteq DOMAIN slots'
        /\ \A n \in DOMAIN slots : slots'[n] = slots[n]
        /\ DOMAIN tokens \subseteq DOMAIN tokens'
        /\ \A t \in DOMAIN tokens : /\ tokens'[t].slot = tokens[t].slot
                                    /\ tokens[t].slot \in DOMAIN slots
                                    /\ slots'[tokens'[t].slot] = slots[tokens[t].slot]
        /\ \A t \in DOMAIN tokens' \ DOMAIN tokens :
              /\ tokens'[t].share = 1 /\ ~ tokens'[t].frozen /\ ~ tokens'[t].gone
    BY <1>2, <2>1, ExecuteStep DEF ChainTypes
  <2>3. \A t \in DOMAIN tokens :
              /\ tokens[t].frozen => tokens'[t].frozen
              /\ tokens[t].gone => tokens'[t].gone
              /\ Of(t) = "burn" /\ tokens[t].share = 0 => tokens'[t].share = 0
    <3>1. CASE c \in KernelCalls
      BY <1>2, <2>1, <3>1, ExecuteStep
    <3>2. CASE c \in PostCalls
      <4>1. /\ Belongs(c.op, c.key) /\ 1 \in DOMAIN c.args
            /\ c.op = "merge" => 2 \in DOMAIN c.args
            /\ \A i \in DOMAIN c.args : c.args[i] \in DOMAIN tokens /\ Of(c.args[i]) = c.key
        BY <1>1, <2>1, <3>2, IssuedAimed
      <4>2. c.op \in {"freeze", "merge", "burn", "reject_transfer"}
            /\ (c.op \in {"merge", "burn", "reject_transfer"} => tokens[c.args[1]].share # 0)
        BY <2>1, <3>2, PostVerdict
      <4>3. \A t \in DOMAIN tokens :
              /\ tokens[t].frozen => tokens'[t].frozen
              /\ tokens[t].gone => tokens'[t].gone
        BY <1>2, <2>1, <3>2, PostEffect
      <4>4. ASSUME NEW t \in DOMAIN tokens, Of(t) = "burn", tokens[t].share = 0
            PROVE  tokens'[t].share = 0
        <5>1. CASE c.op = "freeze"
          BY <1>2, <2>1, <3>2, <4>4, <5>1, PostEffect
        <5>2. CASE c.op \in {"burn", "reject_transfer"}
          <6>1. t # c.args[1]
            BY <4>2, <4>4, <5>2
          <6> QED
            BY <1>2, <2>1, <3>2, <4>4, <5>2, <6>1, PostEffect
        <5>3. CASE c.op = "merge"
          <6>1. t \notin {c.args[1], c.args[2]}
            BY <4>1, <4>4, <5>3 DEF Belongs
          <6> QED
            BY <1>2, <2>1, <3>2, <4>4, <5>3, <6>1, PostEffect
        <5> QED
          BY <4>2, <5>1, <5>2, <5>3
      <4> QED
        BY <4>3, <4>4
    <3> QED
      BY <3>1, <3>2 DEF Calls
  <2> QED
    BY <1>1, <1>2, <2>2, <2>3
<1> QED
  BY <1>1, <1>3, <1>4, ChainStep

\* A step gives a slot mark the list it had, or that of the slot just filled.
LEMMA ListStep ==
  ASSUME IInv, [Next]_vars, NEW r \in Records', NEW key \in Scenarios,
         SlotStage(key) \in r.marks
  PROVE  \/ \E q \in Records : SlotStage(key) \in q.marks /\ r.ids[key] = q.ids[key]
         \/ MarkSlot /\ Scenario = key /\ r.ids[key] = got
<1> DEFINE q == [marks |-> marks, ids |-> ids]
<1>1. q \in Records /\ q.marks = marks /\ q.ids = ids /\ Scenario \in Scenarios
  BY ScenarioIs DEF Records, IInv
<1> HIDE DEF q
<1>2. r \in Records \/ Fresh(r)
  BY RecordStep
<1>3. CASE r = [marks |-> {}, ids |-> [s \in Scenarios |-> <<>>]]
  BY <1>3
<1>4. CASE r = [marks |-> marks \union {CreateStage}, ids |-> ids]
  <2>1. r.ids[key] = q.ids[key] /\ SlotStage(key) \in q.marks
    BY <1>1, <1>4, StagesDiffer
  <2> QED
    BY <1>1, <2>1
<1>5. CASE /\ MarkSlot
           /\ r = [marks |-> marks \union {SlotStage(Scenario)},
                   ids |-> [ids EXCEPT ![Scenario] = got]]
  <2>1. ids \in [Scenarios -> Seq(Nat)]
    BY <1>1 DEF IInv, MarkTypes, RecordType
  <2>2. CASE key = Scenario
    BY <1>1, <1>5, <2>1, <2>2
  <2>3. CASE key # Scenario
    <3>1. r.ids[key] = q.ids[key] /\ SlotStage(key) \in q.marks
      BY <1>1, <1>5, <2>1, <2>3, StagesDiffer
    <3> QED
      BY <1>1, <3>1
  <2> QED
    BY <2>2, <2>3
<1>6. CASE PostRuns /\ r = [marks |-> marks \union {PostStage(Scenario, o)}, ids |-> ids]
  <2>1. o \in 1..2
    BY <1>6, PostCallIs DEF IInv
  <2>2. r.ids[key] = q.ids[key] /\ SlotStage(key) \in q.marks
    BY <1>1, <1>6, <2>1, StagesDiffer
  <2> QED
    BY <1>1, <2>2
<1> QED
  BY <1>2, <1>3, <1>4, <1>5, <1>6 DEF Fresh

\* Only the mark of a filled slot names tokens that nothing named before.
LEMMA TouchedStep ==
  ASSUME IInv, [Next]_vars, wipes' = 0
  PROVE  /\ \A x : IsFrom(x)' =>
              \/ IsFrom(x)
              \/ MarkSlot /\ Scenario = "merge" /\ x = got[1]
         /\ \A x : IsInto(x)' =>
              \/ IsInto(x)
              \/ MarkSlot /\ Scenario = "merge" /\ cfg.perSlot >= 2 /\ x = got[2]
         /\ \A x : IsBurnt(x)' =>
              \/ IsBurnt(x)
              \/ MarkSlot /\ Scenario = "burn" /\ x = got[Len(got)]
<1>1. /\ wipes = 0 /\ ~ Wipe /\ cfg' = cfg /\ ChainTypes
      /\ Scenario \in Scenarios /\ "merge" \in Scenarios /\ "burn" \in Scenarios
  BY TokensStep, ScenarioIs DEF IInv, Scenarios
<1>2. \A c \in late' : c \in PostCalls => Issued(c)
  <2>1. \/ late' \subseteq late
        \/ \E c \in Calls : Issued(c) /\ late' = late \union {c}
    BY <1>1, ChainStep
  <2> QED
    BY <2>1 DEF Issued
<1>3. \A c \in late' : c.op \in {"merge", "burn"} => c \in PostCalls
  BY NextChainTypes DEF ChainTypes, Calls, KernelCalls
<1>4. ASSUME NEW x \in DOMAIN tokens'
      PROVE  /\ tokens'[x].gone => IsFrom(x)
             /\ Of(x)' = "burn" /\ tokens'[x].share = 0 => IsBurnt(x)
  <2>1. CASE x \notin DOMAIN tokens
    BY <1>4, <2>1, TokensStep
  <2>2. CASE x \in DOMAIN tokens
    <3>1. Of(x)' = Of(x)
      BY <2>2, TokensStep DEF Of
    <3>2. CASE UNCHANGED chain
      BY <2>2, <3>1, <3>2 DEF chain, IsFrom, IsBurnt
    <3>3. CASE \E c \in Calls : Issued(c) /\ Verdict(c) = "ok" /\ Execute(c)
      <4>1. PICK c \in Calls : Issued(c) /\ Verdict(c) = "ok" /\ Execute(c)
        BY <3>3
      <4>2. CASE c \in KernelCalls
        <5>1. tokens'[x] = tokens[x]
          BY <1>1, <2>2, <4>1, <4>2, ExecuteStep
        <5> QED
          BY <2>2, <3>1, <5>1 DEF IsFrom, IsBurnt
      <4>3. CASE c \in PostCalls
        <5>1. /\ Belongs(c.op, c.key) /\ 1 \in DOMAIN c.args
              /\ c.op = "merge" => IsFrom(c.args[1]) /\ 2 \in DOMAIN c.args
              /\ c.op = "burn" => IsBurnt(c.args[1])
              /\ \A i \in DOMAIN c.args : c.args[i] \in DOMAIN tokens
                                          /\ Of(c.args[i]) = c.key
          BY <1>1, <4>1, <4>3, IssuedAimed
        <5>2. tokens'[x].gone => IsFrom(x)
          <6>1. tokens'[x].gone <=> tokens[x].gone \/ (c.op = "merge" /\ x = c.args[1])
            BY <1>1, <2>2, <4>1, <4>3, PostEffect
          <6> QED
            BY <2>2, <5>1, <6>1 DEF IsFrom
        <5>3. ASSUME Of(x) = "burn", tokens'[x].share = 0
              PROVE  tokens[x].share = 0 \/ (c.op = "burn" /\ x = c.args[1])
          <6>1. c.op \in {"freeze", "merge", "burn", "reject_transfer"}
            BY <4>1, <4>3, PostVerdict
          <6>2. CASE c.op = "freeze"
            BY <1>1, <2>2, <4>1, <4>3, <5>3, <6>2, PostEffect
          <6>3. CASE c.op = "merge"
            <7>1. x \notin {c.args[1], c.args[2]}
              BY <5>1, <5>3, <6>3 DEF Belongs
            <7> QED
              BY <1>1, <2>2, <4>1, <4>3, <5>3, <6>3, <7>1, PostEffect
          <6>4. CASE c.op \in {"burn", "reject_transfer"}
            <7>1. CASE x = c.args[1]
              <8>1. c.op = "burn"
                BY <5>1, <5>3, <6>4, <7>1 DEF Belongs
              <8> QED
                BY <7>1, <8>1
            <7>2. CASE x # c.args[1]
              BY <1>1, <2>2, <4>1, <4>3, <5>3, <6>4, <7>2, PostEffect
            <7> QED
              BY <7>1, <7>2
          <6> QED
            BY <6>1, <6>2, <6>3, <6>4
        <5> QED
          BY <2>2, <3>1, <5>1, <5>2, <5>3 DEF IsBurnt
      <4> QED
        BY <4>1, <4>2, <4>3 DEF Calls
    <3> QED
      BY <1>1, <3>2, <3>3, ChainStep
  <2> QED
    BY <2>1, <2>2
<1>6. \A x : IsFrom(x)' => IsFrom(x) \/ (MarkSlot /\ Scenario = "merge" /\ x = got[1])
  <2> SUFFICES ASSUME NEW x, IsFrom(x)'
               PROVE  IsFrom(x) \/ (MarkSlot /\ Scenario = "merge" /\ x = got[1])
    OBVIOUS
  <2>1. CASE x \in DOMAIN tokens' /\ tokens'[x].gone
    BY <1>4, <2>1
  <2>2. CASE \E c \in late' : c.op = "merge" /\ c.args[1] = x
    BY <1>1, <1>2, <1>3, <2>2, IssuedAimed
  <2>3. CASE \E r \in Records' : SlotStage("merge") \in r.marks /\ r.ids["merge"][1] = x
    BY <1>1, ListStep, <2>3 DEF IsFrom
  <2> QED
    BY <2>1, <2>2, <2>3 DEF IsFrom, SlotStage
<1>7. \A x : IsInto(x)' =>
        IsInto(x) \/ (MarkSlot /\ Scenario = "merge" /\ cfg.perSlot >= 2 /\ x = got[2])
  <2> SUFFICES ASSUME NEW x, IsInto(x)'
               PROVE  \/ IsInto(x)
                      \/ MarkSlot /\ Scenario = "merge" /\ cfg.perSlot >= 2 /\ x = got[2]
    OBVIOUS
  <2>1. CASE \E c \in late' : c.op = "merge" /\ c.args[2] = x
    BY <1>1, <1>2, <1>3, <2>1, IssuedAimed
  <2>2. CASE \E r \in Records' : /\ SlotStage("merge") \in r.marks /\ cfg.perSlot >= 2
                                 /\ r.ids["merge"][2] = x
    BY <1>1, ListStep, <2>2 DEF IsInto
  <2> QED
    BY <1>1, <2>1, <2>2 DEF IsInto, SlotStage
<1>8. \A x : IsBurnt(x)' =>
        IsBurnt(x) \/ (MarkSlot /\ Scenario = "burn" /\ x = got[Len(got)])
  <2> SUFFICES ASSUME NEW x, IsBurnt(x)'
               PROVE  IsBurnt(x) \/ (MarkSlot /\ Scenario = "burn" /\ x = got[Len(got)])
    OBVIOUS
  <2>1. CASE x \in DOMAIN tokens' /\ Of(x)' = "burn" /\ tokens'[x].share = 0
    BY <1>4, <2>1
  <2>2. CASE \E c \in late' : c.op = "burn" /\ c.args[1] = x
    BY <1>1, <1>2, <1>3, <2>2, IssuedAimed
  <2>3. CASE \E r \in Records' : SlotStage("burn") \in r.marks
                                 /\ r.ids["burn"][Len(r.ids["burn"])] = x
    BY <1>1, ListStep, <2>3 DEF IsBurnt
  <2> QED
    BY <2>1, <2>2, <2>3 DEF IsBurnt, SlotStage
<1> QED
  BY <1>6, <1>7, <1>8

LEMMA NextAimed ==
  ASSUME IInv, [Next]_vars, wipes' = 0
  PROVE  Aimed'
<1>1. wipes = 0 /\ ~ Wipe
  BY TokensStep
<1> SUFFICES ASSUME NEW c \in late', c.op \in PostOpNames
             PROVE  \A i \in DOMAIN c.args : c.args[i] \in DOMAIN tokens' /\ Of(c.args[i])' = c.key
  BY DEF Aimed, Of
<1>2. c \in PostCalls
  BY NextChainTypes DEF ChainTypes, Calls, KernelCalls, PostOpNames
<1>3. Issued(c)
  <2>1. \/ late' \subseteq late
        \/ \E d \in Calls : Issued(d) /\ late' = late \union {d}
    BY <1>1, ChainStep
  <2> QED
    BY <2>1 DEF Issued
<1>4. \A i \in DOMAIN c.args : c.args[i] \in DOMAIN tokens /\ Of(c.args[i]) = c.key
  BY <1>1, <1>2, <1>3, IssuedAimed
<1> QED
  BY <1>4, TokensStep DEF Of

LEMMA NextEffects ==
  ASSUME IInv, [Next]_vars, wipes' = 0
  PROVE  Effects'
<1>0. /\ wipes = 0 /\ ~ Wipe /\ Effects /\ ChainTypes
      /\ \A t \in DOMAIN tokens : tokens[t].share \in Nat
  <2>1. wipes = 0 /\ ~ Wipe /\ Effects /\ ChainTypes
    BY TokensStep DEF IInv, Tidy
  <2>2. tokens \in Seq(Tokens)
    BY <2>1 DEF ChainTypes
  <2>3. \A t \in DOMAIN tokens : tokens[t] \in Tokens
    BY <2>2
  <2> QED
    BY <2>1, <2>3 DEF Tokens
<1> SUFFICES ASSUME NEW t \in DOMAIN tokens'
             PROVE  /\ tokens'[t].frozen => Of(t)' = "frozen"
                    /\ tokens'[t].gone => Of(t)' = "merge"
                    /\ tokens'[t].share = 0 => Of(t)' \in {"merge", "burn"}
                    /\ Of(t)' = "merge" /\ tokens'[t].share = 0 => tokens'[t].gone
                    /\ Of(t)' # "merge" => tokens'[t].share <= 1
  BY DEF Effects, Of
<1>1. CASE t \notin DOMAIN tokens
  <2>1. tokens'[t].share = 1 /\ ~ tokens'[t].frozen /\ ~ tokens'[t].gone
    BY <1>1, TokensStep
  <2> QED
    BY <2>1
<1>2. CASE t \in DOMAIN tokens
  <2>1. Of(t)' = Of(t)
    BY <1>2, TokensStep DEF Of
  <2>2. /\ tokens[t].frozen => Of(t) = "frozen"
        /\ tokens[t].gone => Of(t) = "merge"
        /\ tokens[t].share = 0 => Of(t) \in {"merge", "burn"}
        /\ Of(t) = "merge" /\ tokens[t].share = 0 => tokens[t].gone
        /\ Of(t) # "merge" => tokens[t].share <= 1
    BY <1>0, <1>2 DEF Effects
  <2>3. CASE tokens'[t] = tokens[t]
    BY <2>1, <2>2, <2>3
  <2>4. CASE \E c \in PostCalls : Issued(c) /\ Verdict(c) = "ok" /\ Execute(c)
    <3>1. PICK c \in PostCalls : Issued(c) /\ Verdict(c) = "ok" /\ Execute(c)
      BY <2>4
    <3>2. /\ Belongs(c.op, c.key) /\ 1 \in DOMAIN c.args
          /\ c.op = "merge" => 2 \in DOMAIN c.args
          /\ \A i \in DOMAIN c.args : c.args[i] \in DOMAIN tokens /\ Of(c.args[i]) = c.key
      BY <1>0, <3>1, IssuedAimed
    <3>3. /\ c.op \in {"freeze", "merge", "burn", "reject_transfer"}
          /\ c.op \in {"merge", "burn", "reject_transfer"} => tokens[c.args[1]].share # 0
          /\ c.op = "reject_transfer" => Transferable(Of(c.args[1]))
      BY <3>1, PostVerdict
    <3>4. /\ tokens'[t].frozen <=> tokens[t].frozen \/ (c.op = "freeze" /\ t = c.args[1])
          /\ tokens'[t].gone <=> tokens[t].gone \/ (c.op = "merge" /\ t = c.args[1])
          /\ c.op = "freeze" => tokens'[t].share = tokens[t].share
          /\ c.op \in {"burn", "reject_transfer"} =>
               tokens'[t].share = IF t = c.args[1] THEN tokens[t].share - 1
                                                   ELSE tokens[t].share
          /\ c.op = "merge" =>
               /\ t \notin {c.args[1], c.args[2]} => tokens'[t].share = tokens[t].share
               /\ t = c.args[2] => tokens'[t].share # 0
      BY <1>0, <1>2, <3>1, PostEffect
    <3>5. /\ tokens'[t].frozen => Of(t) = "frozen"
          /\ tokens'[t].gone => Of(t) = "merge"
      BY <2>2, <3>2, <3>4 DEF Belongs
    <3>6. CASE c.op = "freeze"
      BY <2>1, <2>2, <3>4, <3>5, <3>6
    <3>7. CASE c.op = "reject_transfer"
      BY <3>2, <3>3, <3>7 DEF Belongs, Transferable
    <3>8. CASE c.op = "burn"
      <4>1. CASE t # c.args[1]
        BY <2>1, <2>2, <3>4, <3>5, <3>8, <4>1
      <4>2. CASE t = c.args[1]
        <5>1. Of(t) = "burn" /\ tokens[t].share # 0 /\ tokens[t].share \in Nat
          BY <1>0, <1>2, <3>2, <3>3, <3>8, <4>2 DEF Belongs
        <5>2. tokens[t].share = 1
          BY <2>2, <5>1
        <5>3. tokens'[t].share = 0
          BY <3>4, <3>8, <4>2, <5>2
        <5> QED
          BY <2>1, <3>5, <5>1, <5>3
      <4> QED
        BY <4>1, <4>2
    <3>9. CASE c.op = "merge"
      <4>1. CASE t \notin {c.args[1], c.args[2]}
        BY <2>1, <2>2, <3>4, <3>5, <3>9, <4>1
      <4>2. CASE t \in {c.args[1], c.args[2]}
        <5>1. Of(t) = "merge"
          BY <3>2, <3>9, <4>2 DEF Belongs
        <5>2. tokens'[t].share = 0 => tokens'[t].gone
          BY <3>4, <3>9, <4>2
        <5> QED
          BY <2>1, <3>5, <5>1, <5>2
      <4> QED
        BY <4>1, <4>2
    <3> QED
      BY <3>3, <3>6, <3>7, <3>8, <3>9
  <2>5. tokens'[t] = tokens[t] \/ \E c \in PostCalls : Issued(c) /\ Verdict(c) = "ok" /\ Execute(c)
    <3>1. CASE UNCHANGED chain
      BY <3>1 DEF chain
    <3>2. CASE \E c \in Calls : Issued(c) /\ Verdict(c) = "ok" /\ Execute(c)
      <4>1. PICK c \in Calls : Issued(c) /\ Verdict(c) = "ok" /\ Execute(c)
        BY <3>2
      <4>2. CASE c \in KernelCalls
        BY <1>0, <1>2, <4>1, <4>2, ExecuteStep
      <4> QED
        BY <4>1, <4>2 DEF Calls
    <3> QED
      BY <1>0, <3>1, <3>2, ChainStep
  <2> QED
    BY <2>3, <2>4, <2>5
<1> QED
  BY <1>1, <1>2

\* The list of a filled slot: its tokens, in its slot, each once, none named before.
LEMMA FilledSlot ==
  ASSUME IInv, wipes = 0, MarkSlot
  PROVE  /\ cur \in DOMAIN slots /\ slots[cur] = Scenario
         /\ got \in Seq(Nat) /\ Len(got) = cfg.perSlot /\ cfg.perSlot \in 1..100
         /\ DOMAIN got = 1..cfg.perSlot
         /\ 1 \in DOMAIN got /\ Len(got) \in DOMAIN got
         /\ cfg.perSlot >= 2 => 2 \in DOMAIN got
         /\ \A i \in DOMAIN got : got[i] \in DOMAIN tokens /\ tokens[got[i]].slot = cur
         /\ \A i, j \in DOMAIN got : got[i] = got[j] => i = j
         /\ \A x : IsFrom(x) \/ IsInto(x) \/ IsBurnt(x) => tokens[x].slot # cur
<1>1. /\ pc = "mint" /\ Len(got) = cfg.perSlot /\ got \in Seq(Nat) /\ cfg.perSlot \in 1..100
      /\ Filling
  BY ScenarioIs DEF MarkSlot, IInv, JobTypes, Tidy
<1>2. DOMAIN got = 1..cfg.perSlot
  BY <1>1
<1>3. \A x : IsFrom(x) \/ IsInto(x) \/ IsBurnt(x) => tokens[x].slot # cur
  BY <1>1, TouchedAre DEF Filling
<1>4. /\ 1 \in 1..cfg.perSlot /\ cfg.perSlot \in 1..cfg.perSlot
      /\ cfg.perSlot >= 2 => 2 \in 1..cfg.perSlot
  <2>1. cfg.perSlot \in 1..100
    BY <1>1
  <2> QED
    BY <2>1
<1> QED
  BY <1>1, <1>2, <1>3, <1>4 DEF Filling, In

LEMMA NextApart ==
  ASSUME IInv, [Next]_vars, wipes' = 0
  PROVE  Apart'
<1>0. wipes = 0 /\ Apart
  BY TokensStep DEF IInv, Tidy
<1> SUFFICES ASSUME NEW x, IsFrom(x)', IsInto(x)' PROVE FALSE
  BY DEF Apart
<1>1. CASE IsFrom(x) /\ IsInto(x)
  BY <1>0, <1>1, TouchedAre DEF Apart
<1>2. CASE MarkSlot /\ Scenario = "merge" /\ x = got[1]
  <2>1. 1 \in DOMAIN got /\ (cfg.perSlot >= 2 => 2 \in DOMAIN got)
    BY <1>0, <1>2, FilledSlot
  <2>2. ~ IsInto(x) /\ (cfg.perSlot >= 2 => x # got[2])
    BY <1>0, <1>2, <2>1, FilledSlot
  <2> QED
    BY <2>2, TouchedStep
<1>3. CASE MarkSlot /\ Scenario = "merge" /\ cfg.perSlot >= 2 /\ x = got[2]
  <2>1. 1 \in DOMAIN got /\ 2 \in DOMAIN got
    BY <1>0, <1>3, FilledSlot
  <2>2. ~ IsFrom(x) /\ x # got[1]
    BY <1>0, <1>3, <2>1, FilledSlot
  <2> QED
    BY <2>2, TouchedStep
<1> QED
  BY <1>1, <1>2, <1>3, TouchedStep

LEMMA NextBurnOne ==
  ASSUME IInv, [Next]_vars, wipes' = 0
  PROVE  BurnOne'
<1>0. wipes = 0 /\ BurnOne
  BY TokensStep DEF IInv, Tidy
<1>1. ASSUME NEW x, IsBurnt(x)'
      PROVE  /\ x \in DOMAIN tokens /\ tokens'[x].slot = tokens[x].slot
             /\ \/ IsBurnt(x) /\ (MarkSlot => tokens[x].slot # cur)
                \/ MarkSlot /\ x = got[Len(got)] /\ tokens[x].slot = cur
  <2>1. CASE IsBurnt(x)
    BY <1>0, <2>1, TouchedAre, TokensStep, FilledSlot
  <2>2. CASE MarkSlot /\ x = got[Len(got)]
    <3>1. Len(got) \in DOMAIN got
      BY <1>0, <2>2, FilledSlot
    <3>2. x \in DOMAIN tokens /\ tokens[x].slot = cur
      BY <1>0, <2>2, <3>1, FilledSlot
    <3> QED
      BY <2>2, <3>2, TokensStep
  <2> QED
    BY <1>1, <2>1, <2>2, TouchedStep
<1>2. ASSUME NEW x, NEW y, IsBurnt(x)', IsBurnt(y)', tokens'[x].slot = tokens'[y].slot
      PROVE  x = y
  BY <1>0, <1>1, <1>2 DEF BurnOne
<1> QED
  BY <1>2 DEF BurnOne

\* A slot is filled by its own mints alone.
LEMMA NextFilling ==
  ASSUME IInv, [Next]_vars, wipes' = 0
  PROVE  Filling'
<1>0. /\ wipes = 0 /\ ~ Wipe /\ Filling /\ ChainTypes /\ cfg' = cfg
      /\ Scenario \in Scenarios /\ CreateSlotCall \in Calls /\ MintCall \in Calls
  BY TokensStep, ScenarioIs, KernelIs DEF IInv, Tidy, Calls
<1>1. \A x : ~ MarkSlot /\ (IsFrom(x)' \/ IsInto(x)' \/ IsBurnt(x)') =>
               /\ x \in DOMAIN tokens /\ tokens'[x].slot = tokens[x].slot
               /\ tokens[x].slot \in DOMAIN slots
               /\ IsFrom(x) \/ IsInto(x) \/ IsBurnt(x)
  BY <1>0, TouchedStep, TouchedAre, TokensStep
<1>2. CASE EnsureSlot
  <2>1. /\ k' = k /\ cur' = Len(slots') /\ got' = <<>> /\ ~ MarkSlot
        /\ Verdict(CreateSlotCall) = "ok" /\ Execute(CreateSlotCall)
    BY <1>2 DEF EnsureSlot, Carried, MarkSlot
  <2>2. CreateSlotCall.op = "create_slot" /\ CreateSlotCall.key = Scenario
    BY DEF CreateSlotCall, Call
  <2>3. /\ cur' \in DOMAIN slots' /\ slots'[cur'] = Scenario /\ cur' \notin DOMAIN slots
    BY <1>0, <2>1, <2>2, SlotEffect
  <2>4. Scenario' = Scenario
    BY <1>0, <2>1 DEF Scenario, Key
  <2>5. \A x \in DOMAIN tokens' : IsFrom(x)' \/ IsInto(x)' \/ IsBurnt(x)' =>
                                    tokens'[x].slot # cur'
    BY <1>1, <2>1, <2>3
  <2>6. DOMAIN got' = {}
    BY <2>1
  <2> QED
    BY <2>3, <2>4, <2>5, <2>6 DEF Filling
<1>3. CASE MintOne
  <2>1. /\ pc = "mint" /\ k' = k /\ cur' = cur /\ got' = Append(got, Len(tokens'))
        /\ Verdict(MintCall) = "ok" /\ Execute(MintCall) /\ Len(got) # cfg.perSlot
    BY <1>3, ScenarioIs DEF MintOne, Carried, IInv, JobTypes
  <2>2. MintCall.op = "mint" /\ MintCall.args[1] = cur
    BY DEF MintCall, Call
  <2>3. /\ slots' = slots /\ DOMAIN tokens' = DOMAIN tokens \union {Len(tokens')}
        /\ Len(tokens') \notin DOMAIN tokens
        /\ \A t \in DOMAIN tokens : tokens'[t] = tokens[t]
        /\ tokens'[Len(tokens')].slot = cur
    <3>1. /\ slots' = slots /\ DOMAIN tokens' = DOMAIN tokens \union {Len(tokens')}
          /\ Len(tokens') \notin DOMAIN tokens
          /\ \A t \in DOMAIN tokens : tokens'[t] = tokens[t]
          /\ tokens'[Len(tokens')] = [slot |-> MintCall.args[1], share |-> 1,
                                      frozen |-> FALSE, gone |-> FALSE]
      BY <1>0, <2>1, <2>2, MintEffect
    <3>2. tokens'[Len(tokens')].slot = MintCall.args[1]
      BY <3>1
    <3> QED
      BY <2>2, <3>1, <3>2
  <2>4. ~ MarkSlot
    BY <2>1 DEF MarkSlot
  <2>5. Scenario' = Scenario
    BY <1>0, <2>1 DEF Scenario, Key
  <2>6. /\ cur \in DOMAIN slots /\ slots[cur] = Scenario
        /\ \A i \in DOMAIN got : got[i] \in DOMAIN tokens /\ tokens[got[i]].slot = cur
        /\ \A i, j \in DOMAIN got : got[i] = got[j] => i = j
        /\ \A x \in DOMAIN tokens : IsFrom(x) \/ IsInto(x) \/ IsBurnt(x) =>
                                      tokens[x].slot # cur
    BY <1>0, <2>1 DEF Filling, In
  <2>7. /\ DOMAIN got' = DOMAIN got \union {Len(got) + 1} /\ Len(got) + 1 \notin DOMAIN got
        /\ \A i \in DOMAIN got : got'[i] = got[i]
        /\ got'[Len(got) + 1] = Len(tokens')
    <3>1. got \in Seq(Nat) /\ Len(tokens') \in Nat
      BY NextChainTypes DEF IInv, JobTypes, ChainTypes
    <3>2. /\ Len(got') = Len(got) + 1 /\ got' \in Seq(Nat) /\ Len(got) \in Nat
          /\ got'[Len(got) + 1] = Len(tokens')
          /\ \A i \in 1..Len(got) : got'[i] = got[i]
      BY <2>1, <3>1
    <3>3. DOMAIN got = 1..Len(got) /\ DOMAIN got' = 1..(Len(got) + 1)
      BY <3>1, <3>2
    <3> QED
      BY <3>2, <3>3
  <2>8. /\ \A i \in DOMAIN got' : got'[i] \in DOMAIN tokens' /\ tokens'[got'[i]].slot = cur
        /\ \A i, j \in DOMAIN got' : got'[i] = got'[j] => i = j
    <3>1. \A i \in DOMAIN got :
            /\ got'[i] = got[i] /\ got[i] # Len(tokens')
            /\ got[i] \in DOMAIN tokens' /\ tokens'[got[i]].slot = cur
      BY <2>3, <2>6, <2>7
    <3>2. \A i \in DOMAIN got' : i \in DOMAIN got \/ (i = Len(got) + 1 /\ got'[i] = Len(tokens'))
      BY <2>7
    <3>3. \A i \in DOMAIN got' : got'[i] \in DOMAIN tokens' /\ tokens'[got'[i]].slot = cur
      BY <2>3, <3>1, <3>2
    <3>4. \A i, j \in DOMAIN got' : got'[i] = got'[j] => i = j
      BY <2>6, <3>1, <3>2
    <3> QED
      BY <3>3, <3>4
  <2>9. \A x \in DOMAIN tokens' : IsFrom(x)' \/ IsInto(x)' \/ IsBurnt(x)' =>
                                    tokens'[x].slot # cur
    BY <1>1, <2>3, <2>4, <2>6
  <2> QED
    BY <2>1, <2>3, <2>5, <2>6, <2>8, <2>9 DEF Filling, In
<1>4. CASE UNCHANGED <<pc, k, cur, got>>
  <2> SUFFICES ASSUME pc = "mint" PROVE Filling'
    BY <1>4 DEF Filling
  <2>1. ~ MarkSlot
    BY <1>4 DEF MarkSlot, Goto
  <2>2. Scenario' = Scenario
    BY <1>0, <1>4 DEF Scenario, Key
  <2>3. /\ cur \in DOMAIN slots /\ slots[cur] = Scenario
        /\ \A i \in DOMAIN got : got[i] \in DOMAIN tokens /\ tokens[got[i]].slot = cur
        /\ \A i, j \in DOMAIN got : got[i] = got[j] => i = j
        /\ \A x \in DOMAIN tokens : IsFrom(x) \/ IsInto(x) \/ IsBurnt(x) =>
                                      tokens[x].slot # cur
    BY <1>0 DEF Filling, In
  <2>4. /\ cur \in DOMAIN slots' /\ slots'[cur] = Scenario
        /\ \A i \in DOMAIN got : got[i] \in DOMAIN tokens' /\ tokens'[got[i]].slot = cur
    BY <2>3, TokensStep
  <2>5. \A x \in DOMAIN tokens' : IsFrom(x)' \/ IsInto(x)' \/ IsBurnt(x)' =>
                                    tokens'[x].slot # cur
    BY <1>1, <2>1, <2>3
  <2> QED
    BY <1>4, <2>2, <2>3, <2>4, <2>5 DEF Filling, In
<1>5. CASE LateExecute \/ UNCHANGED vars
  BY <1>4, <1>5 DEF LateExecute, vars, at
<1>6. CASE Start \/ Create \/ SlotMarked \/ MarkSlot \/ NextSlot \/ Complete
  BY <1>6 DEF Start, Create, SlotMarked, MarkSlot, NextSlot, Complete, Goto, End, Filling
<1>7. CASE KernelError \/ PostError \/ RejectThrough \/ Crash
  BY <1>7 DEF KernelError, PostError, RejectThrough, Crash, Fail, End, Filling
<1>8. CASE PostMarked \/ PostDone \/ PostTolerated \/ RejectRefused
  BY <1>8 DEF PostMarked, PostDone, PostTolerated, RejectRefused, PostRuns, PostDue, Filling
<1> QED
  BY <1>0, <1>2, <1>3, <1>5, <1>6, <1>7, <1>8 DEF Next, Job

\* What a mark says of a slot stays true, and the mark of a filled slot says it.
LEMMA NextWhole ==
  ASSUME IInv, [Next]_vars, wipes' = 0
  PROVE  SlotsWhole'
<1>0. wipes = 0 /\ cfg' = cfg /\ SlotsWhole
  BY TokensStep DEF IInv, Tidy
<1> SUFFICES ASSUME NEW r \in Records', NEW key \in Scenarios, SlotStage(key) \in r.marks
             PROVE  Whole(r, key)'
  BY DEF SlotsWhole, Whole, SlotStage
<1> DEFINE t == r.ids[key]
<1>1. /\ Len(t) = cfg.perSlot
      /\ \A i, j \in DOMAIN t : t[i] = t[j] => i = j
      /\ \E s \in DOMAIN slots : /\ slots[s] = key
                                 /\ \A i \in DOMAIN t : t[i] \in DOMAIN tokens
                                                        /\ tokens[t[i]].slot = s
  <2>1. CASE \E q \in Records : SlotStage(key) \in q.marks /\ t = q.ids[key]
    <3>1. PICK q \in Records : SlotStage(key) \in q.marks /\ t = q.ids[key]
      BY <2>1
    <3>2. Whole(q, key)
      BY <1>0, <3>1, WholeAndEarned
    <3> QED
      BY <3>1, <3>2 DEF Whole
  <2>2. CASE MarkSlot /\ Scenario = key /\ t = got
    BY <1>0, <2>2, FilledSlot
  <2> QED
    BY <2>1, <2>2, ListStep
<1>2. PICK s \in DOMAIN slots : /\ slots[s] = key
                                /\ \A i \in DOMAIN t : t[i] \in DOMAIN tokens
                                                       /\ tokens[t[i]].slot = s
  BY <1>1
<1>3. /\ s \in DOMAIN slots' /\ slots'[s] = key
      /\ \A i \in DOMAIN t : t[i] \in DOMAIN tokens' /\ tokens'[t[i]].slot = s
  BY <1>2, TokensStep
<1> QED
  BY <1>0, <1>1, <1>3 DEF Whole

\* A step gives a post mark only to an operation that ran, on the list of its slot.
LEMMA PostMarkStep ==
  ASSUME IInv, [Next]_vars, NEW r \in Records', NEW key \in Scenarios, NEW i \in 1..2,
         PostStage(key, i) \in r.marks
  PROVE  \/ \E q \in Records : PostStage(key, i) \in q.marks /\ r.ids[key] = q.ids[key]
         \/ /\ PostRuns /\ (PostDone \/ PostTolerated \/ RejectRefused)
            /\ key = Scenario /\ i = o /\ r.ids[key] = ids[key]
<1> DEFINE q == [marks |-> marks, ids |-> ids]
<1>1. q \in Records /\ q.marks = marks /\ q.ids = ids /\ Scenario \in Scenarios
  BY ScenarioIs DEF Records, IInv
<1> HIDE DEF q
<1>2. r \in Records \/ Fresh(r)
  BY RecordStep
<1>3. CASE r = [marks |-> {}, ids |-> [s \in Scenarios |-> <<>>]]
  BY <1>3
<1>4. CASE r = [marks |-> marks \union {CreateStage}, ids |-> ids]
  <2>1. r.ids[key] = q.ids[key] /\ PostStage(key, i) \in q.marks
    BY <1>1, <1>4, StagesDiffer
  <2> QED
    BY <1>1, <2>1
<1>5. CASE /\ MarkSlot
           /\ r = [marks |-> marks \union {SlotStage(Scenario)},
                   ids |-> [ids EXCEPT ![Scenario] = got]]
  <2>1. RecordType(q) /\ SlotStage(Scenario) \notin marks
    BY <1>1, <1>5 DEF IInv, JobTypes, MarkTypes, MarkSlot
  <2>2. PostStage(key, i) \in q.marks
    BY <1>1, <1>5, StagesDiffer
  <2>3. key # Scenario
    BY <1>1, <2>1, <2>2 DEF RecordType
  <2>4. r.ids[key] = q.ids[key]
    BY <1>1, <1>5, <2>1, <2>3 DEF RecordType
  <2> QED
    BY <1>1, <2>2, <2>4
<1>6. CASE /\ PostRuns /\ (PostDone \/ PostTolerated \/ RejectRefused)
           /\ r = [marks |-> marks \union {PostStage(Scenario, o)}, ids |-> ids]
  <2>1. o \in 1..2 /\ r.ids[key] = ids[key]
    BY <1>6, PostCallIs DEF IInv
  <2>2. CASE PostStage(key, i) \in marks
    BY <1>1, <2>1, <2>2
  <2>3. CASE PostStage(key, i) = PostStage(Scenario, o)
    BY <1>1, <1>6, <2>1, <2>3, StagesDiffer
  <2> QED
    BY <1>6, <2>2, <2>3
<1> QED
  BY <1>2, <1>3, <1>4, <1>5, <1>6 DEF Fresh

\* What a post operation did to its tokens is not undone.
LEMMA EffectStays ==
  ASSUME IInv, [Next]_vars, wipes' = 0,
         NEW key \in Scenarios, NEW op, Belongs(op, key), NEW t,
         1 \in DOMAIN t, Len(t) \in DOMAIN t,
         \A i \in DOMAIN t : t[i] \in DOMAIN tokens /\ Of(t[i]) = key,
         TookEffect(op, t)
  PROVE  TookEffect(op, t)'
<1>1. CASE op = "freeze"
  BY <1>1, TokensStep DEF TookEffect
<1>2. CASE op = "merge"
  BY <1>2, TokensStep DEF TookEffect
<1>3. CASE op = "burn"
  <2>1. key = "burn"
    BY <1>3 DEF Belongs
  <2> QED
    BY <1>3, <2>1, TokensStep DEF TookEffect
<1>4. CASE op \notin {"freeze", "merge", "burn"}
  BY <1>4 DEF TookEffect
<1> QED
  BY <1>1, <1>2, <1>3, <1>4

\* The codes that are taken for done: the token is gone, frozen or empty.
LEMMA ToleratedMeans ==
  ASSUME NEW c \in PostCalls, c.op \in {"freeze", "merge", "burn"},
         \A i \in DOMAIN c.args : c.args[i] \in DOMAIN tokens,
         Verdict(c) \in Tolerated(c.op)
  PROVE  \/ \E i \in DOMAIN c.args : tokens[c.args[i]].gone
         \/ c.op = "freeze" /\ tokens[c.args[1]].frozen
         \/ c.op \in {"merge", "burn"} /\ tokens[c.args[1]].share = 0
<1> SUFFICES ASSUME \A i \in DOMAIN c.args : ~ tokens[c.args[i]].gone
             PROVE  \/ c.op = "freeze" /\ tokens[c.args[1]].frozen
                    \/ c.op \in {"merge", "burn"} /\ tokens[c.args[1]].share = 0
  OBVIOUS
<1>1. CASE c.op = "freeze"
  BY <1>1 DEF Verdict, Tolerated
<1>2. CASE c.op = "merge"
  BY <1>2 DEF Verdict, Tolerated
<1>3. CASE c.op = "burn"
  BY <1>3 DEF Verdict, Tolerated
<1> QED
  BY <1>1, <1>2, <1>3

\* A post operation that ran and got its mark has its effect, or failed quietly.
LEMMA NewlyEarned ==
  ASSUME IInv, [Next]_vars, wipes' = 0, PostRuns, PostDone \/ PostTolerated \/ RejectRefused,
         NEW c, c = PostCall, NEW t, t = ids[Scenario]
  PROVE  c.op \in quiet' \/ TookEffect(c.op, t)'
<1>0. /\ wipes = 0 /\ Effects /\ Apart /\ ChainTypes /\ JobTypes /\ MarkTypes
      /\ [marks |-> marks, ids |-> ids] \in Records
  BY TokensStep DEF IInv, Tidy, Records
<1>1. /\ c \in PostCalls /\ Issued(c)
      /\ c.op = "merge" => c.args[1] = t[1]
      /\ c.op = "burn" => c.args[1] = t[Len(t)]
      /\ c.op \notin {"merge", "burn"} => c.args[1] = t[1]
  BY <1>0, PostCallIs DEF Issued, IInv
<1>2. /\ 1 \in DOMAIN c.args /\ Belongs(c.op, c.key) /\ (c.op = "merge" => 2 \in DOMAIN c.args)
      /\ DOMAIN c.args = IF c.op = "merge" THEN 1..2 ELSE 1..1
      /\ \A i \in DOMAIN c.args : c.args[i] \in DOMAIN tokens /\ Of(c.args[i]) = c.key
      /\ c.op = "merge" => IsInto(c.args[2])
  BY <1>0, <1>1, IssuedAimed
<1>3. SUFFICES ASSUME c.op \in {"freeze", "merge", "burn"}, c.op \notin quiet'
               PROVE  TookEffect(c.op, t)'
  BY DEF TookEffect
<1>4. CASE Carried(c)
  <2>1. Verdict(c) = "ok" /\ Execute(c)
    BY <1>4 DEF Carried
  <2>2. c.args[1] \in DOMAIN tokens /\ Of(c.args[1]) = c.key
    BY <1>2
  <2>3. CASE c.op = "freeze"
    <3>1. tokens'[t[1]].frozen
      BY <1>0, <1>1, <2>1, <2>2, <2>3, PostEffect
    <3> QED
      BY <2>3, <3>1 DEF TookEffect
  <2>4. CASE c.op = "merge"
    <3>1. tokens'[t[1]].gone
      BY <1>0, <1>1, <2>1, <2>2, <2>4, PostEffect
    <3> QED
      BY <2>4, <3>1 DEF TookEffect
  <2>5. CASE c.op = "burn"
    <3>1. tokens[c.args[1]].share # 0
      BY <1>1, <2>1, <2>5, PostVerdict
    <3>2. tokens[c.args[1]].share <= 1
      BY <1>0, <1>2, <2>2, <2>5 DEF Effects, Belongs
    <3>3. tokens[c.args[1]].share \in Nat
      <4>1. tokens[c.args[1]] \in Tokens
        BY <1>0, <2>2 DEF ChainTypes
      <4> QED
        BY <4>1 DEF Tokens
    <3>4. tokens'[c.args[1]].share = tokens[c.args[1]].share - 1
      BY <1>0, <1>1, <2>1, <2>2, <2>5, PostEffect
    <3>5. tokens'[t[Len(t)]].share = 0
      BY <1>1, <2>5, <3>1, <3>2, <3>3, <3>4
    <3> QED
      BY <2>5, <3>5 DEF TookEffect
  <2> QED
    BY <1>3, <2>3, <2>4, <2>5
<1>5. CASE PostTolerated
  <2>1. Verdict(c) \in Tolerated(c.op) /\ tokens' = tokens
    BY <1>5 DEF PostTolerated, chain
  <2>2. \A i \in DOMAIN c.args : tokens[c.args[i]].gone => c.op = "merge" /\ i = 1
    <3> SUFFICES ASSUME NEW i \in DOMAIN c.args, tokens[c.args[i]].gone
                 PROVE  c.op = "merge" /\ i = 1
      OBVIOUS
    <3>1. c.op = "merge"
      BY <1>0, <1>2, <1>3 DEF Effects, Belongs
    <3>2. IsFrom(c.args[i])
      BY <1>2 DEF IsFrom
    <3>3. i # 2
      BY <1>0, <1>2, <3>1, <3>2 DEF Apart
    <3> QED
      BY <1>2, <3>1, <3>3
  <2>3. \/ c.op = "merge" /\ tokens[c.args[1]].gone
        \/ c.op = "freeze" /\ tokens[c.args[1]].frozen
        \/ c.op \in {"merge", "burn"} /\ tokens[c.args[1]].share = 0
    BY <1>1, <1>2, <1>3, <2>1, <2>2, ToleratedMeans
  <2>4. c.op = "merge" /\ tokens[c.args[1]].share = 0 => tokens[c.args[1]].gone
    BY <1>0, <1>2 DEF Effects, Belongs
  <2> QED
    BY <1>1, <2>1, <2>3, <2>4 DEF TookEffect
<1>6. CASE RejectRefused
  BY <1>3, <1>6 DEF RejectRefused
<1>7. PostDone => Carried(c) \/ c.op \in quiet'
  BY DEF PostDone
<1> QED
  BY <1>3, <1>4, <1>5, <1>6, <1>7

LEMMA NextEarned ==
  ASSUME IInv, [Next]_vars, wipes' = 0
  PROVE  OpsEarned'
<1>0. wipes = 0 /\ cfg' = cfg /\ OpsEarned /\ MarkTypes /\ JobTypes
  BY TokensStep DEF IInv, Tidy
<1>1. quiet \subseteq quiet'
  BY DEF Next, Job, Start, Create, SlotMarked, EnsureSlot, MintOne, MarkSlot, KernelError,
     PostMarked, PostDone, PostTolerated, PostError, RejectRefused, RejectThrough, NextSlot,
     Complete, Crash, LateExecute, Wipe, vars
<1>2. \A key \in Scenarios : PostOps(key)' = PostOps(key)
  BY <1>0 DEF PostOps
<1> SUFFICES ASSUME NEW r \in Records', NEW key \in Scenarios,
                    NEW i \in DOMAIN PostOps(key), PostStage(key, i) \in r.marks,
                    NEW op, op = PostOps(key)[i], NEW t, t = r.ids[key]
             PROVE  op \in quiet' \/ TookEffect(op, t)'
  BY <1>2 DEF OpsEarned, PostStage, TookEffect
<1>3. i \in 1..2 /\ Belongs(op, key)
  BY PostOpsAre
<1>4. CASE \E q \in Records : PostStage(key, i) \in q.marks /\ t = q.ids[key]
  <2>1. PICK q \in Records : PostStage(key, i) \in q.marks /\ t = q.ids[key]
    BY <1>4
  <2>2. SlotStage(key) \in q.marks
    BY <1>0, <1>3, <2>1 DEF MarkTypes, RecordType
  <2>3. /\ t \in Seq(Nat) /\ Len(t) = cfg.perSlot /\ DOMAIN t = 1..cfg.perSlot
        /\ cfg.perSlot \in 1..100
        /\ \A j \in DOMAIN t : t[j] \in DOMAIN tokens /\ Of(t[j]) = key
    BY <1>0, <2>1, <2>2, MarkedAimed
  <2>4. 1 \in 1..cfg.perSlot /\ cfg.perSlot \in 1..cfg.perSlot
    <3>1. cfg.perSlot \in 1..100
      BY <2>3
    <3> QED
      BY <3>1
  <2>5. op \in quiet \/ TookEffect(op, t)
    BY <1>0, <2>1, WholeAndEarned DEF Earned
  <2>6. TookEffect(op, t) => TookEffect(op, t)'
    BY <1>3, <2>3, <2>4, EffectStays
  <2> QED
    BY <1>1, <2>5, <2>6
<1>5. CASE /\ PostRuns /\ (PostDone \/ PostTolerated \/ RejectRefused)
           /\ key = Scenario /\ i = o /\ t = ids[key]
  <2>1. op = PostCall.op
    BY <1>0, <1>5, PostCallIs
  <2>2. PICK c : c = PostCall
    OBVIOUS
  <2>3. t = ids[Scenario] /\ op = c.op
    BY <1>5, <2>1, <2>2
  <2>4. c.op \in quiet' \/ TookEffect(c.op, t)'
    BY <1>5, <2>2, <2>3, NewlyEarned
  <2> QED
    BY <2>3, <2>4 DEF TookEffect
<1> QED
  BY <1>3, <1>4, <1>5, PostMarkStep

-----------------------------------------------------------------------------
(* The invariant, and what follows from it. *)

LEMMA InitIInv ==
  ASSUME Init
  PROVE  IInv
<1>1. /\ cfg.slots \in 1..20 /\ cfg.perSlot \in 1..100
      /\ MaxJobs \in Nat /\ MaxLost \in Nat /\ MaxWipes \in Nat
  BY Plan, ConfigAssumption DEF Init
<1>2. JobTypes
  <2>1. 1 \in 1..(cfg.slots + 1)
    BY <1>1
  <2>2. /\ cfg \in Configs /\ pc = "idle" /\ k = 1 /\ cur = 0 /\ got = <<>> /\ o = 1
        /\ own = {} /\ outcome = "none" /\ jobs = 0 /\ lost = 0 /\ wipes = 0
        /\ unseen = FALSE /\ quiet = {}
    BY DEF Init
  <2>3. got \in Seq(Nat) /\ Len(got) <= cfg.perSlot
    <3>1. got \in Seq(Nat) /\ Len(got) = 0
      BY <2>2
    <3>2. cfg.perSlot \in 1..100
      BY <1>1
    <3>3. 0 <= cfg.perSlot
      BY <3>2
    <3> QED
      BY <3>1, <3>3
  <2>4. o \in 1..3 /\ jobs \in 0..MaxJobs /\ lost \in 0..MaxLost /\ wipes \in 0..MaxWipes
    BY <1>1, <2>2
  <2> QED
    BY <2>1, <2>2, <2>3, <2>4 DEF JobTypes
<1>3. \A r \in Records : r.marks = {} /\ r.ids = [key \in Scenarios |-> <<>>]
  BY DEF Init, Records
<1>4. MarkTypes
  <2>1. file = [marks |-> file.marks, ids |-> file.ids]
    BY DEF Init
  <2>2. ASSUME NEW r \in Records PROVE RecordType(r)
    <3>1. <<>> \in Seq(Nat)
      OBVIOUS
    <3>2. r.ids \in [Scenarios -> Seq(Nat)]
      BY <1>3, <3>1
    <3> QED
      BY <1>3, <3>2 DEF RecordType
  <2> QED
    BY <2>1, <2>2 DEF MarkTypes
<1>5. ChainTypes
  <2>1. IsFiniteSet({}) /\ Cardinality({}) = 0
    BY FS_EmptySet
  <2>2. sft = FALSE /\ slots = <<>> /\ tokens = <<>> /\ late = {} /\ lost = 0
    BY DEF Init
  <2>3. slots \in Seq(Scenarios) /\ tokens \in Seq(Tokens) /\ DOMAIN tokens = {}
    BY <2>2
  <2>4. late \subseteq Calls /\ IsFiniteSet(late) /\ Cardinality(late) <= lost
    BY <2>1, <2>2
  <2> QED
    BY <2>2, <2>3, <2>4 DEF ChainTypes
<1>6. Stands
  BY DEF Init, Stands
<1>7. Tidy
  <2>1. late = {} /\ DOMAIN tokens = {} /\ pc # "mint"
    BY DEF Init
  <2>2. Aimed /\ Effects /\ Apart /\ BurnOne /\ Filling
    BY <2>1 DEF Aimed, Effects, Apart, BurnOne, Filling
  <2>3. SlotsWhole /\ OpsEarned
    BY <1>3 DEF SlotsWhole, OpsEarned
  <2> QED
    BY <2>2, <2>3 DEF Tidy
<1> QED
  BY <1>2, <1>4, <1>5, <1>6, <1>7 DEF IInv

LEMMA NextIInv ==
  ASSUME IInv, [Next]_vars
  PROVE  IInv'
<1>1. JobTypes' /\ MarkTypes' /\ ChainTypes' /\ Stands'
  BY NextJobTypes, NextMarkTypes, NextChainTypes, NextStands
<1>2. ASSUME wipes' = 0 PROVE Tidy'
  <2>1. Aimed' /\ Effects' /\ Apart' /\ BurnOne' /\ Filling'
    BY <1>2, NextAimed, NextEffects, NextApart, NextBurnOne, NextFilling
  <2>2. SlotsWhole' /\ OpsEarned'
    BY <1>2, NextWhole, NextEarned
  <2> QED
    BY <2>1, <2>2 DEF Tidy
<1> QED
  BY <1>1, <1>2 DEF IInv

\* The inductive invariant holds in every state the jobs and the chain reach.
THEOREM Inductive == Spec => []IInv
<1>1. Init => IInv
  BY InitIInv
<1>2. IInv /\ [Next]_vars => IInv'
  BY NextIInv
<1> QED
  BY <1>1, <1>2, PTL DEF Spec

\* Every variable has its type, and a mark of a slot carries its tokens.
THEOREM TypeCorrect == Spec => []TypeOK
<1>1. IInv => TypeOK
  <2> SUFFICES ASSUME IInv PROVE TypeOK
    OBVIOUS
  <2>1. JobTypes /\ MarkTypes /\ ChainTypes /\ cfg.perSlot \in 1..100
    BY ScenarioIs DEF IInv
  <2>2. ASSUME NEW r \in Records, NEW key \in Scenarios
        PROVE  SlotStage(key) \in r.marks <=> r.ids[key] # <<>>
    <3>1. /\ SlotStage(key) \in r.marks => Len(r.ids[key]) = cfg.perSlot
          /\ SlotStage(key) \notin r.marks => r.ids[key] = <<>>
      BY <2>1 DEF MarkTypes, RecordType
    <3>2. cfg.perSlot # 0
      BY <2>1
    <3> QED
      BY <3>1, <3>2
  <2>3. \A r \in Records : r.marks \subseteq Stages /\ r.ids \in [Scenarios -> Seq(Nat)]
    BY <2>1 DEF MarkTypes, RecordType
  <2>4. Cardinality(late) <= MaxLost
    <3>1. Cardinality(late) \in Nat /\ Cardinality(late) <= lost /\ lost \in 0..MaxLost
      BY <2>1, FS_CardinalityType DEF ChainTypes, JobTypes
    <3>2. MaxLost \in Nat
      BY ConfigAssumption
    <3> QED
      BY <3>1, <3>2
  <2> QED
    BY <2>1, <2>2, <2>3, <2>4 DEF TypeOK, JobTypes, ChainTypes
<1> QED
  BY <1>1, Inductive, PTL

\* While the chain stands, a slot's mark names as many tokens as planned, each
\* once and all in one slot of the scenario.
THEOREM SlotsWholeHolds == Spec => []SlotsWhole
<1>1. IInv => SlotsWhole
  BY DEF IInv, Tidy, SlotsWhole
<1> QED
  BY <1>1, Inductive, PTL

\* While the chain stands, a post operation is marked only when the chain has
\* carried it out on the tokens of its slot mark, or has failed it quietly.
THEOREM OpsEarnedHolds == Spec => []OpsEarned
<1>1. IInv => OpsEarned
  BY DEF IInv, Tidy, OpsEarned
<1> QED
  BY <1>1, Inductive, PTL

\* Lost marks, repeated operations and late calls never touch a token in a way that
\* its scenario does not plan, and a burn slot loses at most one share.
THEOREM PlannedEffectsHolds == Spec => []PlannedEffects
<1>1. IInv => PlannedEffects
  <2> SUFFICES ASSUME IInv, wipes = 0
               PROVE  /\ \A t \in DOMAIN tokens :
                           /\ tokens[t].frozen => Of(t) = "frozen"
                           /\ tokens[t].gone => Of(t) = "merge"
                           /\ tokens[t].share = 0 => Of(t) \in {"merge", "burn"}
                      /\ \A s \in DOMAIN slots : slots[s] = "burn" =>
                           Cardinality({t \in DOMAIN tokens :
                                          tokens[t].slot = s /\ tokens[t].share = 0}) <= 1
    BY DEF PlannedEffects, Of
  <2>1. Effects /\ BurnOne
    BY DEF IInv, Tidy
  <2>2. ASSUME NEW s \in DOMAIN slots, slots[s] = "burn"
        PROVE  Cardinality({t \in DOMAIN tokens :
                              tokens[t].slot = s /\ tokens[t].share = 0}) <= 1
    <3> DEFINE burnt == {t \in DOMAIN tokens : tokens[t].slot = s /\ tokens[t].share = 0}
    <3>1. \A x \in burnt : IsBurnt(x)
      BY <2>2 DEF IsBurnt, Of
    <3>2. \A x, y \in burnt : x = y
      BY <2>1, <3>1 DEF BurnOne
    <3> HIDE DEF burnt
    <3>3. Cardinality(burnt) <= 1
      <4>1. CASE burnt = {}
        <5>1. Cardinality(burnt) = 0
          BY <4>1, FS_EmptySet
        <5> QED
          BY <5>1
      <4>2. CASE burnt # {}
        <5>1. PICK x : x \in burnt
          BY <4>2
        <5>2. burnt = {x}
          BY <3>2, <5>1
        <5>3. Cardinality(burnt) = 1
          BY <5>2, FS_Singleton
        <5> QED
          BY <5>3
      <4> QED
        BY <4>1, <4>2
    <3> QED
      BY <3>3 DEF burnt
  <2> QED
    BY <2>1, <2>2 DEF Effects
<1> QED
  BY <1>1, Inductive, PTL

\* A completed job has seen the collection; only a later wipe takes it away.
THEOREM SftStandsHolds == Spec => []SftStands
<1>1. IInv => SftStands
  BY DEF IInv, Stands, SftStands
<1> QED
  BY <1>1, Inductive, PTL

=============================================================================
