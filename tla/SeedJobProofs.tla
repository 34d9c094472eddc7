---------------------------- MODULE SeedJobProofs ----------------------------
(***************************************************************************)
(* Proofs about SeedJob for any number of jobs, clients, configurations    *)
(* and modules, and any bound on the faults.  The properties are proved    *)
(* from one inductive invariant, IInv: the type invariant, who holds the   *)
(* slot, how far the goroutine is (Phase), what is in the two files        *)
(* (FileInv) and how a goroutine's memory relates to the file (MemInv).    *)
(* Three properties need more of the history: OrderInv says what the loop  *)
(* has behind it, LossInv which fault each repetition is due to, KeptInv   *)
(* what of a job is on disk.                                               *)
(***************************************************************************)
EXTENDS SeedJob, FiniteSetTheorems, TLAPS

\* A goroutine exists only for a request that was accepted.
Launched == \A j \in Jobs : pc[j] \in Active => spec[j] \in Specs

\* The status of a job follows its goroutine: "running" up to the critical
\* section that publishes the outcome, settled between it and the release.
Phase ==
    \A j \in Jobs :
        /\ pc[j] \in Active \ {"clear"} <=> status[j] = "running"
        /\ pc[j] = "clear" => status[j] \in {"completed", "failed"}

\* A rename is reached only with a complete image of the memory in the
\* temporary file, so the state file is always complete.
FileInv ==
    /\ FileWhole
    /\ \A j \in Jobs : pc[j] = "rename" => tmp = Image(mem[j])

\* After its load a goroutine holds everything the file holds, unless it was
\* started with reset, and beyond it only marks of its own name space.
MemInv ==
    \A j \in Jobs : pc[j] \in Active \ {"load"} =>
        /\ ~spec[j].reset => Parsed(file) \subseteq mem[j]
        /\ \A k \in mem[j] :
              \/ k[1] = spec[j].cfg
              \/ ~spec[j].reset /\ k \in Parsed(file)
        /\ spec[j].reset => resets # 0

IInv ==
    /\ TypeOK
    /\ Launched
    /\ SingleRunner
    /\ Phase
    /\ FileInv
    /\ MemInv

-----------------------------------------------------------------------------
\* A request reads: it changes nothing but its own record.
LEMMA RequestReads ==
    ASSUME NEW c \in Clients, Request(c)
    PROVE  UNCHANGED <<jobVars, diskVars, performed, faultVars>>
<1>1. CASE StartBusy(c) \/ StartRefused(c) \/ StatusSnapshot(c)
             \/ StatusStages(c) \/ Answer(c)
  BY <1>1 DEF StartBusy, StartRefused, StatusSnapshot, StatusStages, Answer
<1>2. CASE \E j \in Jobs : StatusLookup(c, j)
  BY <1>2 DEF StatusLookup
<1>3. QED
  BY <1>1, <1>2 DEF Request

LEMMA NormalizeType == \A req \in SUBSET Modules : Normalize(req) \in SUBSET Modules
<1>1. Vc \in Modules
  BY OrderAssumption DEF Precedes, Modules
<1>2. QED
  BY <1>1, OrderAssumption DEF Normalize

LEMMA InitTypeOK == Init => TypeOK /\ Launched
BY NoneAssumption DEF Init, TypeOK, Launched, Statuses, PCs, Active, Images,
   Image, Torn, Idle, Requests, RequestIn

LEMMA NextTypeOK == TypeOK /\ Launched /\ [Next]_vars => TypeOK'
<1> SUFFICES ASSUME TypeOK, Launched, [Next]_vars PROVE TypeOK'
  OBVIOUS
<1> USE DEF TypeOK, jobVars, diskVars, faultVars
<1>1. ASSUME NEW j \in Jobs, NEW cfg \in Cfgs, NEW req \in SUBSET Modules,
             NEW reset \in BOOLEAN, Start(j, cfg, req, reset)
      PROVE  TypeOK'
  <2>1. [cfg |-> cfg, mods |-> Normalize(req), reset |-> reset] \in Specs
    BY NormalizeType DEF Specs
  <2>2. QED
    BY <1>1, <2>1, NormalizeType DEF Start, Statuses, PCs, Active
<1>2. ASSUME NEW j \in Jobs, Load(j) PROVE TypeOK'
  BY <1>2 DEF Load, PCs, Active, Parsed, Images
<1>3. ASSUME NEW j \in Jobs, Perform(j) PROVE TypeOK'
  <2>1. PICK m \in Modules :
            /\ IsNext(j, m)
            /\ performed' = [performed EXCEPT ![Key(j, m)] = @ + 1]
            /\ mem' = [mem EXCEPT ![j] = @ \cup {Key(j, m)}]
    BY <1>3 DEF Perform
  <2>2. Key(j, m) \in Marks
    BY <1>3 DEF Perform, Launched, Active, Specs, Key, Marks
  <2>3. QED
    BY <1>3, <2>1, <2>2 DEF Perform, PCs, Active
<1>4. ASSUME NEW j \in Jobs, EndModule(j) PROVE TypeOK'
  BY <1>4 DEF EndModule, PCs, Active
<1>5. ASSUME NEW j \in Jobs, Fail(j) \/ Complete(j) \/ Clear(j) PROVE TypeOK'
  BY <1>5 DEF Fail, Complete, Clear, PCs, Active, Statuses
<1>6. ASSUME NEW j \in Jobs, Save(j) PROVE TypeOK'
  <2>1. Torn \in Images /\ Image(mem[j]) \in Images
    BY DEF Images, Image, Torn
  <2>2. CASE SaveOpen(j)
    BY <2>1, <2>2 DEF SaveOpen, PCs, Active
  <2>3. CASE SaveWrite(j)
    BY <2>1, <2>3 DEF SaveWrite, PCs, Active
  <2>4. CASE SaveRename(j)
    BY <2>1, <2>4 DEF SaveRename, PCs, Active
  <2>5. CASE SaveFail(j)
    BY <2>5 DEF SaveFail, PCs, Active
  <2>6. QED
    BY <1>6, <2>2, <2>3, <2>4, <2>5 DEF Save
<1>7. ASSUME NEW c \in Clients, Request(c) PROVE TypeOK'
  <2> USE DEF Requests, RequestIn
  <2>1. Idle \in Requests
    BY DEF Idle, Statuses
  <2>2. CASE StartBusy(c)
    <3>1. PICK seen \in Statuses \cup {"mixed"} :
              client' = [client EXCEPT ![c] =
                            [Idle EXCEPT !.pc = "busy", !.status = seen]]
      BY <2>2 DEF StartBusy, Statuses
    <3>2. [Idle EXCEPT !.pc = "busy", !.status = seen] \in Requests
      BY <3>1 DEF Idle
    <3>3. QED
      BY <2>2, <3>1, <3>2 DEF StartBusy
  <2>3. CASE StartRefused(c)
    <3> DEFINE r == [client[c] EXCEPT !.pc = "refused", !.job = running]
    <3>1. client' = [client EXCEPT ![c] = r]
      BY <2>3 DEF StartRefused
    <3>2. r \in Requests
      BY <2>3 DEF StartRefused
    <3> HIDE DEF r, Requests, RequestIn
    <3>3. QED
      BY <2>3, <3>1, <3>2 DEF StartRefused
  <2>4. ASSUME NEW j \in Jobs, StatusLookup(c, j) PROVE TypeOK'
    <3>1. [Idle EXCEPT !.pc = "found", !.job = j] \in Requests
      BY <2>1 DEF Idle
    <3>2. QED
      BY <2>4, <3>1 DEF StatusLookup
  <2>5. CASE StatusSnapshot(c)
    <3> DEFINE r == [client[c] EXCEPT !.pc = "snapped",
                                      !.status = status[client[c].job]]
    <3>1. client' = [client EXCEPT ![c] = r]
      BY <2>5 DEF StatusSnapshot
    <3>2. r \in Requests
      BY <2>5 DEF StatusSnapshot
    <3> HIDE DEF r, Requests, RequestIn
    <3>3. QED
      BY <2>5, <3>1, <3>2 DEF StatusSnapshot
  <2>6. CASE StatusStages(c)
    <3> DEFINE S == {m \in Modules : <<spec[client[c].job].cfg, m>> \in Parsed(file)}
               r == [client[c] EXCEPT !.pc = "answered", !.stages = S]
    <3>1. client' = [client EXCEPT ![c] = r]
      BY <2>6 DEF StatusStages
    <3>2. r \in Requests
      <4>1. S \in SUBSET Modules
        OBVIOUS
      <4> HIDE DEF S
      <4>2. client[c] \in RequestIn({"found", "snapped", "answered"}, Jobs)
        BY <2>6 DEF StatusStages
      <4>3. QED
        BY <4>1, <4>2
    <3> HIDE DEF r, Requests, RequestIn
    <3>3. QED
      BY <2>6, <3>1, <3>2 DEF StatusStages
  <2>7. CASE Answer(c)
    BY <2>1, <2>7 DEF Answer
  <2>8. QED
    BY <1>7, <2>2, <2>3, <2>4, <2>5, <2>6, <2>7 DEF Request
<1>8. CASE Crash
  <2>1. Idle \in Requests
    BY DEF Idle, Requests, RequestIn, Statuses
  <2>2. \A j \in Jobs : (IF status[j] = "none" THEN "none" ELSE "lost") \in Statuses
    BY DEF Statuses
  <2>3. QED
    BY <1>8, <2>1, <2>2 DEF Crash, PCs
<1>9. CASE UNCHANGED vars
  BY <1>9 DEF vars
<1> HIDE DEF TypeOK, jobVars, diskVars, faultVars
<1>10. QED
  BY <1>1, <1>2, <1>3, <1>4, <1>5, <1>6, <1>7, <1>8, <1>9 DEF Next, Goroutine

LEMMA NextLaunched == TypeOK /\ Launched /\ [Next]_vars => Launched'
<1> SUFFICES ASSUME TypeOK, Launched, [Next]_vars PROVE Launched'
  OBVIOUS
<1> USE DEF TypeOK, Launched, jobVars, diskVars, faultVars, Active
<1>1. ASSUME NEW j \in Jobs, NEW cfg \in Cfgs, NEW req \in SUBSET Modules,
             NEW reset \in BOOLEAN, Start(j, cfg, req, reset)
      PROVE  Launched'
  <2>1. [cfg |-> cfg, mods |-> Normalize(req), reset |-> reset] \in Specs
    BY NormalizeType DEF Specs
  <2>2. QED
    BY <1>1, <2>1 DEF Start
<1>2. ASSUME NEW j \in Jobs, Goroutine(j) PROVE Launched'
  BY <1>2 DEF Goroutine, Load, Perform, EndModule, Fail, Complete, Clear, Save,
     SaveOpen, SaveWrite, SaveRename, SaveFail
<1>3. ASSUME NEW c \in Clients, Request(c) PROVE Launched'
  BY <1>3, RequestReads
<1>4. CASE Crash
  BY <1>4 DEF Crash
<1>5. CASE UNCHANGED vars
  BY <1>5 DEF vars
<1>6. QED
  BY <1>1, <1>2, <1>3, <1>4, <1>5 DEF Next

\* Every reachable state is well typed (TypeOK): every handler and every step
\* of the goroutine keeps each variable in its range.
THEOREM TypeCorrect == Spec => []TypeOK
<1>1. TypeOK /\ Launched /\ [Next]_vars => (TypeOK /\ Launched)'
  BY NextTypeOK, NextLaunched
<1>2. QED
  BY InitTypeOK, <1>1, PTL DEF Spec

-----------------------------------------------------------------------------
\* Who holds the slot.

LEMMA InitSlot == Init => SingleRunner /\ Phase
BY NoneAssumption DEF Init, SingleRunner, Phase, Active

LEMMA NextSlot ==
    TypeOK /\ SingleRunner /\ Phase /\ [Next]_vars => SingleRunner' /\ Phase'
<1> SUFFICES ASSUME TypeOK, SingleRunner, Phase, [Next]_vars
             PROVE  SingleRunner' /\ Phase'
  OBVIOUS
<1> USE NoneAssumption
    DEF TypeOK, SingleRunner, Phase, jobVars, faultVars, Active
<1>1. ASSUME NEW j \in Jobs, NEW cfg \in Cfgs, NEW req \in SUBSET Modules,
             NEW reset \in BOOLEAN, Start(j, cfg, req, reset)
      PROVE  SingleRunner' /\ Phase'
  BY <1>1 DEF Start
<1>2. ASSUME NEW j \in Jobs,
             \/ Load(j) \/ Perform(j) \/ EndModule(j)
             \/ Fail(j) \/ Complete(j) \/ Clear(j)
      PROVE  SingleRunner' /\ Phase'
  BY <1>2 DEF Load, Perform, EndModule, Fail, Complete, Clear
<1>3. ASSUME NEW j \in Jobs, Save(j) PROVE SingleRunner' /\ Phase'
  BY <1>3 DEF Save, SaveOpen, SaveWrite, SaveRename, SaveFail
<1>4. ASSUME NEW c \in Clients, Request(c) PROVE SingleRunner' /\ Phase'
  BY <1>4, RequestReads
<1>5. CASE Crash
  BY <1>5 DEF Crash
<1>6. CASE UNCHANGED vars
  BY <1>6 DEF vars
<1> HIDE DEF TypeOK, SingleRunner, Phase
<1>7. QED
  BY <1>1, <1>2, <1>3, <1>4, <1>5, <1>6 DEF Next, Goroutine

-----------------------------------------------------------------------------
\* The files and the memory.

LEMMA NextFile ==
    TypeOK /\ SingleRunner /\ FileInv /\ [Next]_vars => FileInv'
<1> SUFFICES ASSUME TypeOK, SingleRunner, FileInv, [Next]_vars PROVE FileInv'
  OBVIOUS
<1> USE DEF TypeOK, SingleRunner, FileInv, FileWhole, jobVars, diskVars, Active
<1>1. ASSUME NEW j \in Jobs, NEW cfg \in Cfgs, NEW req \in SUBSET Modules,
             NEW reset \in BOOLEAN, Start(j, cfg, req, reset)
      PROVE  FileInv'
  BY <1>1 DEF Start
<1>2. ASSUME NEW j \in Jobs,
             \/ Load(j) \/ Perform(j) \/ EndModule(j)
             \/ Fail(j) \/ Complete(j) \/ Clear(j)
      PROVE  FileInv'
  BY <1>2 DEF Load, Perform, EndModule, Fail, Complete, Clear
<1>3. ASSUME NEW j \in Jobs, Save(j) PROVE FileInv'
  BY <1>3 DEF Save, SaveOpen, SaveWrite, SaveRename, SaveFail, Image
<1>4. ASSUME NEW c \in Clients, Request(c) PROVE FileInv'
  BY <1>4, RequestReads
<1>5. CASE Crash
  BY <1>5 DEF Crash
<1>6. CASE UNCHANGED vars
  BY <1>6 DEF vars
<1> HIDE DEF TypeOK, SingleRunner, FileInv
<1>7. QED
  BY <1>1, <1>2, <1>3, <1>4, <1>5, <1>6 DEF Next, Goroutine

LEMMA NextMem == IInv /\ [Next]_vars => MemInv'
<1> SUFFICES ASSUME IInv, [Next]_vars PROVE MemInv'
  OBVIOUS
<1> USE DEF IInv, TypeOK, SingleRunner, MemInv, jobVars, diskVars, faultVars,
       Active
<1>1. ASSUME NEW j \in Jobs, NEW cfg \in Cfgs, NEW req \in SUBSET Modules,
             NEW reset \in BOOLEAN, Start(j, cfg, req, reset)
      PROVE  MemInv'
  BY <1>1, NoneAssumption DEF Start, Parsed
<1>2. ASSUME NEW j \in Jobs, Load(j) PROVE MemInv'
  BY <1>2 DEF Load, Parsed
<1>3. ASSUME NEW j \in Jobs, Perform(j) PROVE MemInv'
  <2>1. PICK m \in Modules :
            mem' = [mem EXCEPT ![j] = @ \cup {<<spec[j].cfg, m>>}]
    BY <1>3 DEF Perform, Key
  <2>2. Parsed(file') = Parsed(file)
    BY <1>3 DEF Perform
  <2>3. \A i \in Jobs \ {j} : mem'[i] = mem[i] /\ pc'[i] = pc[i]
    BY <1>3, <2>1 DEF Perform
  <2>4. mem'[j] = mem[j] \cup {<<spec[j].cfg, m>>} /\ pc[j] = "pick"
    BY <1>3, <2>1 DEF Perform
  <2>5. spec' = spec /\ resets' = resets
    BY <1>3 DEF Perform
  <2>6. ASSUME NEW i \in Jobs, pc'[i] \in Active \ {"load"}
        PROVE  /\ ~spec'[i].reset => Parsed(file') \subseteq mem'[i]
               /\ \A k \in mem'[i] :
                     \/ k[1] = spec'[i].cfg
                     \/ ~spec'[i].reset /\ k \in Parsed(file')
               /\ spec'[i].reset => resets' # 0
    <3>1. CASE i = j
      BY <2>2, <2>4, <2>5, <3>1
    <3>2. CASE i # j
      BY <2>2, <2>3, <2>5, <2>6, <3>2
    <3>3. QED
      BY <3>1, <3>2
  <2> HIDE DEF IInv, TypeOK, SingleRunner
  <2>7. QED
    BY <2>6
<1>4. ASSUME NEW j \in Jobs,
             EndModule(j) \/ Fail(j) \/ Complete(j) \/ Clear(j)
      PROVE  MemInv'
  BY <1>4 DEF EndModule, Fail, Complete, Clear, Parsed
<1>5. ASSUME NEW j \in Jobs, SaveOpen(j) \/ SaveWrite(j) \/ SaveFail(j)
      PROVE  MemInv'
  BY <1>5 DEF SaveOpen, SaveWrite, SaveFail, Parsed
<1>6. ASSUME NEW j \in Jobs, SaveRename(j) PROVE MemInv'
  <2>1. Parsed(file') = mem[j]
    BY <1>6 DEF SaveRename, FileInv, Parsed, Image
  <2>2. QED
    BY <1>6, <2>1 DEF SaveRename
<1>7. ASSUME NEW c \in Clients, Request(c) PROVE MemInv'
  BY <1>7, RequestReads DEF Parsed
<1>8. CASE Crash
  BY <1>8 DEF Crash
<1>9. CASE UNCHANGED vars
  BY <1>9 DEF vars, Parsed
<1>10. QED
  BY <1>1, <1>2, <1>3, <1>4, <1>5, <1>6, <1>7, <1>8, <1>9
  DEF Next, Goroutine, Save

LEMMA InitIInv == Init => IInv
BY InitTypeOK, InitSlot
DEF Init, IInv, FileInv, FileWhole, MemInv, Image, Active

LEMMA NextIInv == IInv /\ [Next]_vars => IInv'
BY NextTypeOK, NextLaunched, NextSlot, NextFile, NextMem DEF IInv

LEMMA Inductive == Spec => []IInv
BY InitIInv, NextIInv, PTL DEF Spec

\* One goroutine at a time (SingleRunner): two requests, a panic or a restart
\* never leave two of them between their launch and the release of the slot.
THEOREM OneRunner == Spec => []SingleRunner
<1>1. IInv => SingleRunner
  BY DEF IInv
<1>2. QED
  BY Inductive, <1>1, PTL

\* The slot is freed after the outcome is published (FreeMeansSettled).
THEOREM SettledBeforeFree == Spec => []FreeMeansSettled
<1>1. IInv => FreeMeansSettled
  <2> SUFFICES ASSUME IInv, running = None, NEW j \in Jobs
               PROVE  status[j] # "running"
    BY DEF FreeMeansSettled
  <2>1. pc[j] \notin Active
    BY NoneAssumption DEF IInv, SingleRunner
  <2>2. QED
    BY <2>1 DEF IInv, Phase
<1>2. QED
  BY Inductive, <1>1, PTL

\* The slot tells the truth both ways (SlotExact).
THEOREM SlotIsExact == Spec => []SlotExact
BY OneRunner, SettledBeforeFree, PTL DEF SlotExact

\* The state file is whole in every state, so after every crash (FileWhole).
THEOREM FileAlwaysWhole == Spec => []FileWhole
<1>1. IInv => FileWhole
  BY DEF IInv, FileInv
<1>2. QED
  BY Inductive, <1>1, PTL

-----------------------------------------------------------------------------
\* The marks.

LEMMA NextMarked ==
    IInv /\ MarkedWasPerformed /\ [Next]_vars => MarkedWasPerformed'
<1> SUFFICES ASSUME IInv, MarkedWasPerformed, [Next]_vars
             PROVE  MarkedWasPerformed'
  OBVIOUS
<1> USE DEF IInv, TypeOK, MarkedWasPerformed, jobVars, diskVars, faultVars
<1>1. ASSUME NEW j \in Jobs, NEW cfg \in Cfgs, NEW req \in SUBSET Modules,
             NEW reset \in BOOLEAN, Start(j, cfg, req, reset)
      PROVE  MarkedWasPerformed'
  BY <1>1 DEF Start, Parsed
<1>2. ASSUME NEW j \in Jobs, Load(j) PROVE MarkedWasPerformed'
  BY <1>2 DEF Load, Parsed
<1>3. ASSUME NEW j \in Jobs, Perform(j) PROVE MarkedWasPerformed'
  <2>1. PICK m \in Modules :
            /\ performed' = [performed EXCEPT ![Key(j, m)] = @ + 1]
            /\ mem' = [mem EXCEPT ![j] = @ \cup {Key(j, m)}]
    BY <1>3 DEF Perform
  <2>2. Key(j, m) \in Marks
    BY <1>3 DEF Perform, Launched, Active, Specs, Key, Marks
  <2>3. performed'[Key(j, m)] > 0
    BY <2>1, <2>2
  <2>4. \A k \in Marks \ {Key(j, m)} :
            /\ performed'[k] = performed[k]
            /\ \A i \in Jobs : k \in mem'[i] => k \in mem[i]
    BY <2>1
  <2>5. file' = file
    BY <1>3 DEF Perform
  <2>6. QED
    BY <2>3, <2>4, <2>5 DEF Parsed
<1>4. ASSUME NEW j \in Jobs,
             EndModule(j) \/ Fail(j) \/ Complete(j) \/ Clear(j)
      PROVE  MarkedWasPerformed'
  BY <1>4 DEF EndModule, Fail, Complete, Clear, Parsed
<1>5. ASSUME NEW j \in Jobs, SaveOpen(j) \/ SaveWrite(j) \/ SaveFail(j)
      PROVE  MarkedWasPerformed'
  BY <1>5 DEF SaveOpen, SaveWrite, SaveFail, Parsed
<1>6. ASSUME NEW j \in Jobs, SaveRename(j) PROVE MarkedWasPerformed'
  BY <1>6 DEF SaveRename, FileInv, Parsed, Image
<1>7. ASSUME NEW c \in Clients, Request(c) PROVE MarkedWasPerformed'
  BY <1>7, RequestReads DEF Parsed
<1>8. CASE Crash
  BY <1>8 DEF Crash, Parsed
<1>9. CASE UNCHANGED vars
  BY <1>9 DEF vars, Parsed
<1> HIDE DEF IInv, TypeOK, MarkedWasPerformed
<1>10. QED
  BY <1>1, <1>2, <1>3, <1>4, <1>5, <1>6, <1>7, <1>8, <1>9
  DEF Next, Goroutine, Save

\* A mark, on disk or in memory, stands for a module that was carried out at
\* least once (MarkedWasPerformed), whatever crashed or failed since.
THEOREM MarksAreTrue == Spec => []MarkedWasPerformed
<1>1. Init => MarkedWasPerformed
  BY DEF Init, MarkedWasPerformed, Parsed, Image
<1>2. QED
  BY InitIInv, NextIInv, NextMarked, <1>1, PTL DEF Spec

\* What one step does to the ledger: only the rename of the job holding the
\* slot changes it, and it adds marks of that job's name space to what was
\* there, or, after a reset, to nothing.
LEMMA LedgerStep ==
    ASSUME IInv, [Next]_vars, Parsed(file') # Parsed(file)
    PROVE  \E j \in Jobs :
              /\ SaveRename(j) /\ running = j /\ status[j] = "running"
              /\ \E marks \in SUBSET {k \in Marks : k[1] = spec[j].cfg} :
                    Parsed(file') =
                        marks \cup (IF spec[j].reset THEN {} ELSE Parsed(file))
<1> USE DEF diskVars
<1>1. PICK j \in Jobs : SaveRename(j)
  BY DEF Next, Start, Goroutine, Load, Perform, EndModule, Fail, Complete,
     Clear, Save, SaveOpen, SaveWrite, SaveFail, Request, StartBusy,
     StartRefused, StatusLookup, StatusSnapshot, StatusStages, Answer, Crash,
     vars, Parsed
<1>2. running = j /\ status[j] = "running"
  BY <1>1 DEF SaveRename, IInv, SingleRunner, Phase, Active
<1>3. Parsed(file') = mem[j]
  BY <1>1 DEF SaveRename, IInv, FileInv, Parsed, Image
<1> DEFINE marks == {k \in mem[j] : k[1] = spec[j].cfg}
<1>4. marks \in SUBSET {k \in Marks : k[1] = spec[j].cfg}
  BY DEF IInv, TypeOK
<1>5. mem[j] = marks \cup (IF spec[j].reset THEN {} ELSE Parsed(file))
  BY <1>1 DEF SaveRename, IInv, MemInv, Active
<1>6. QED
  BY <1>1, <1>2, <1>3, <1>4, <1>5

\* Name spaces do not mix (NamespaceKept).
THEOREM NamespacesKept == Spec => NamespaceKept
<1> DEFINE A == \A k \in Marks :
                  (k \in Parsed(file)) # (k \in Parsed(file')) =>
                      \/ k[1] = spec[running].cfg
                      \/ spec[running].reset
<1>1. IInv /\ [Next]_vars => [A]_vars
  BY LedgerStep
<1>2. QED
  BY Inductive, <1>1, PTL DEF Spec, NamespaceKept

\* Recorded progress is never undone without a reset (ProgressKept).
THEOREM ProgressIsKept == Spec => ProgressKept
<1>1. IInv /\ [Next]_vars =>
          [resets = 0 => Parsed(file) \subseteq Parsed(file')]_vars
  <2> SUFFICES ASSUME IInv, [Next]_vars, resets = 0,
                      Parsed(file') # Parsed(file)
               PROVE  Parsed(file) \subseteq Parsed(file')
    OBVIOUS
  <2>1. PICK j \in Jobs :
            /\ SaveRename(j)
            /\ \E marks \in SUBSET {k \in Marks : k[1] = spec[j].cfg} :
                  Parsed(file') =
                      marks \cup (IF spec[j].reset THEN {} ELSE Parsed(file))
    BY LedgerStep
  <2>2. ~spec[j].reset
    <3>1. spec[j].reset \in BOOLEAN
      BY <2>1 DEF SaveRename, IInv, Launched, Active, Specs
    <3>2. QED
      BY <2>1, <3>1 DEF SaveRename, IInv, MemInv, Active
  <2>3. QED
    BY <2>1, <2>2
<1>2. QED
  BY Inductive, <1>1, PTL DEF Spec, ProgressKept

-----------------------------------------------------------------------------
\* Refinement of the abstract service.

LEMMA LedgerMarks ==
    ASSUME NEW j \in Jobs
    PROVE  Ledger!Own(j) = {k \in Marks : k[1] = spec[j].cfg}
BY DEF Ledger!Own, Ledger!Marks, Marks

LEMMA RefineStart ==
    ASSUME TypeOK, NEW j \in Jobs, NEW cfg \in Cfgs, NEW req \in SUBSET Modules,
           NEW reset \in BOOLEAN, Start(j, cfg, req, reset)
    PROVE  Ledger!Next
<1> DEFINE s == [cfg |-> cfg, mods |-> Normalize(req), reset |-> reset]
<1>1. s \in Ledger!Specs
  BY NormalizeType DEF Ledger!Specs
<1>2. Ledger!Start(j, s)
  BY DEF Start, Ledger!Start, diskVars
<1>3. QED
  BY <1>1, <1>2 DEF Ledger!Next

LEMMA RefineGoroutine ==
    ASSUME IInv, NEW j \in Jobs, Goroutine(j)
    PROVE  Ledger!Next \/ UNCHANGED Ledger!vars
<1> USE DEF Ledger!vars
<1>1. CASE Load(j) \/ Perform(j) \/ EndModule(j)
  BY <1>1 DEF Load, Perform, EndModule, diskVars
<1>2. CASE Fail(j)
  <2>1. Ledger!Settle(j, "failed")
    BY <1>2 DEF Fail, Ledger!Settle, diskVars, IInv, SingleRunner, Phase, Active
  <2>2. QED
    BY <2>1 DEF Ledger!Next
<1>3. CASE Complete(j)
  <2>1. Ledger!Settle(j, "completed")
    BY <1>3 DEF Complete, Ledger!Settle, diskVars, IInv, SingleRunner, Phase,
       Active
  <2>2. QED
    BY <2>1 DEF Ledger!Next
<1>4. CASE Clear(j)
  <2>1. Ledger!Release(j)
    BY <1>4 DEF Clear, Ledger!Release, diskVars, IInv, SingleRunner, Phase,
       Active
  <2>2. QED
    BY <2>1 DEF Ledger!Next
<1>5. CASE SaveOpen(j) \/ SaveWrite(j) \/ SaveFail(j)
  BY <1>5 DEF SaveOpen, SaveWrite, SaveFail, diskVars
<1>6. CASE SaveRename(j)
  <2>1. CASE Parsed(file') = Parsed(file)
    BY <1>6, <2>1 DEF SaveRename
  <2>2. CASE Parsed(file') # Parsed(file)
    <3>1. [Next]_vars
      BY <1>6 DEF Next, Goroutine, Save
    <3>2. PICK i \in Jobs :
              /\ SaveRename(i) /\ running = i /\ status[i] = "running"
              /\ \E marks \in SUBSET {k \in Marks : k[1] = spec[i].cfg} :
                    Parsed(file') =
                        marks \cup (IF spec[i].reset THEN {} ELSE Parsed(file))
      BY <2>2, <3>1, LedgerStep
    <3>3. PICK marks \in SUBSET Ledger!Own(i) :
              Parsed(file') =
                  marks \cup (IF spec[i].reset THEN {} ELSE Parsed(file))
      BY <3>2, LedgerMarks
    <3>4. Ledger!Commit(i, marks)
      BY <3>2, <3>3 DEF SaveRename, Ledger!Commit
    <3>5. QED
      BY <3>4 DEF Ledger!Next
  <2>3. QED
    BY <2>1, <2>2
<1>7. QED
  BY <1>1, <1>2, <1>3, <1>4, <1>5, <1>6 DEF Goroutine, Save

LEMMA RefineStep == IInv /\ [Next]_vars => [Ledger!Next]_(Ledger!vars)
<1> SUFFICES ASSUME IInv, [Next]_vars
             PROVE  Ledger!Next \/ UNCHANGED Ledger!vars
  OBVIOUS
<1>1. ASSUME NEW c \in Clients, Request(c) PROVE UNCHANGED Ledger!vars
  BY <1>1, RequestReads DEF jobVars, diskVars, Ledger!vars
<1>2. CASE Crash
  <2>1. Ledger!Restart
    BY <1>2 DEF Crash, Ledger!Restart, diskVars
  <2>2. QED
    BY <2>1 DEF Ledger!Next
<1>3. CASE UNCHANGED vars
  BY <1>3 DEF vars, jobVars, diskVars, Ledger!vars
<1>4. QED
  BY <1>1, <1>2, <1>3, RefineStart, RefineGoroutine DEF Next, IInv

\* The job, its goroutine and the three steps of Save implement the abstract
\* service, in which a Save is one atomic commit (ImplementsLedger).
THEOREM Refinement == Spec => ImplementsLedger
<1>1. Init => Ledger!Init
  BY DEF Init, Ledger!Init, NoSpec, Ledger!NoSpec, Parsed, Image
<1>2. QED
  BY <1>1, Inductive, RefineStep, PTL DEF Spec, ImplementsLedger, Ledger!Spec

-----------------------------------------------------------------------------
\* The order of the modules.

\* The modules behind the loop are marked in memory or empty, the selection is
\* closed, and no set of marks has compliance without vc.
ClosedMarks(marks) ==
    \A cfg \in Cfgs : <<cfg, Compliance>> \in marks => <<cfg, Vc>> \in marks

OrderInv ==
    /\ ClosedMarks(Parsed(file))
    /\ \A j \in Jobs :
          /\ ClosedMarks(mem[j])
          /\ pc[j] \in Active =>
                /\ todo[j] \subseteq spec[j].mods
                /\ Compliance \in spec[j].mods => Vc \in spec[j].mods
          /\ pc[j] = "load" => todo[j] = spec[j].mods
          /\ pc[j] \in Active \ {"load"} =>
                \A m \in spec[j].mods \ todo[j] : Passed(j, m)

LEMMA VcFirst == ~Precedes(Compliance, Vc)
BY OrderAssumption DEF Precedes

LEMMA NextOrder == IInv /\ OrderInv /\ [Next]_vars => OrderInv'
<1> SUFFICES ASSUME IInv, OrderInv, [Next]_vars PROVE OrderInv'
  OBVIOUS
<1> USE DEF IInv, TypeOK, OrderInv, ClosedMarks, jobVars, diskVars, Active
<1>1. ASSUME NEW j \in Jobs, NEW cfg \in Cfgs, NEW req \in SUBSET Modules,
             NEW reset \in BOOLEAN, Start(j, cfg, req, reset)
      PROVE  OrderInv'
  <2>1. Compliance \in Normalize(req) => Vc \in Normalize(req)
    <3>1. Vc \in Modules
      BY OrderAssumption DEF Precedes, Modules
    <3>2. QED
      BY <3>1 DEF Normalize
  <2>2. QED
    BY <1>1, <2>1 DEF Start, Parsed, Passed, IsDone, Key
<1>2. ASSUME NEW j \in Jobs, Load(j) PROVE OrderInv'
  BY <1>2 DEF Load, Parsed, Passed, IsDone, Key
<1>3. ASSUME NEW j \in Jobs, Perform(j) PROVE OrderInv'
  <2>1. PICK m \in Modules :
            /\ IsNext(j, m)
            /\ ~Passed(j, m)
            /\ mem' = [mem EXCEPT ![j] = @ \cup {Key(j, m)}]
    BY <1>3 DEF Perform
  <2>2. m = Compliance => IsDone(j, Vc)
    <3> SUFFICES ASSUME m = Compliance PROVE IsDone(j, Vc)
      OBVIOUS
    <3>1. Vc \in spec[j].mods
      BY <1>3, <2>1 DEF Perform, IsNext
    <3>2. Vc # Compliance
      BY VcFirst, OrderAssumption
    <3>3. Vc \notin todo[j]
      BY <2>1, <3>2, VcFirst DEF IsNext
    <3>4. Passed(j, Vc)
      BY <1>3, <3>1, <3>3 DEF Perform
    <3>5. Vc \in Planned[spec[j].cfg]
      <4>1. spec[j].cfg \in Cfgs
        BY <1>3 DEF Perform, Launched, Specs
      <4>2. Compliance \in Planned[spec[j].cfg]
        BY <2>1 DEF Passed
      <4>3. QED
        BY <4>1, <4>2, PlannedAssumption
    <3>6. QED
      BY <3>4, <3>5 DEF Passed
  <2>3. ClosedMarks(mem'[j])
    BY <2>1, <2>2 DEF Key, IsDone
  <2>4. /\ \A i \in Jobs \ {j} : mem'[i] = mem[i] /\ pc'[i] = pc[i]
        /\ mem[j] \subseteq mem'[j]
        /\ pc[j] = "pick" /\ pc'[j] = "save"
        /\ spec' = spec /\ todo' = todo /\ file' = file
    BY <1>3, <2>1 DEF Perform
  <2>5. ASSUME NEW i \in Jobs
        PROVE  /\ ClosedMarks(mem'[i])
               /\ pc'[i] \in Active =>
                     /\ todo'[i] \subseteq spec'[i].mods
                     /\ Compliance \in spec'[i].mods => Vc \in spec'[i].mods
               /\ pc'[i] = "load" => todo'[i] = spec'[i].mods
               /\ pc'[i] \in Active \ {"load"} =>
                     \A n \in spec'[i].mods \ todo'[i] :
                         \/ <<spec'[i].cfg, n>> \in mem'[i]
                         \/ n \notin Planned[spec'[i].cfg]
    <3>1. CASE i = j
      BY <2>3, <2>4, <3>1 DEF Passed, IsDone, Key
    <3>2. CASE i # j
      BY <2>4, <3>2 DEF Passed, IsDone, Key
    <3>3. QED
      BY <3>1, <3>2
  <2>6. ClosedMarks(Parsed(file'))
    BY <2>4
  <2> HIDE DEF IInv, TypeOK
  <2>7. QED
    BY <2>5, <2>6 DEF Passed, IsDone, Key
<1>4. ASSUME NEW j \in Jobs, EndModule(j) PROVE OrderInv'
  BY <1>4 DEF EndModule, Parsed, Passed, IsDone, Key
<1>5. ASSUME NEW j \in Jobs, Fail(j) \/ Complete(j) \/ Clear(j)
      PROVE  OrderInv'
  BY <1>5 DEF Fail, Complete, Clear, Parsed, Passed, IsDone, Key
<1>6. ASSUME NEW j \in Jobs, SaveOpen(j) \/ SaveWrite(j) \/ SaveFail(j)
      PROVE  OrderInv'
  BY <1>6 DEF SaveOpen, SaveWrite, SaveFail, Parsed, Passed, IsDone, Key
<1>7. ASSUME NEW j \in Jobs, SaveRename(j) PROVE OrderInv'
  <2>1. Parsed(file') = mem[j]
    BY <1>7 DEF SaveRename, FileInv, Parsed, Image
  <2>2. QED
    BY <1>7, <2>1 DEF SaveRename, Passed, IsDone, Key
<1>8. ASSUME NEW c \in Clients, Request(c) PROVE OrderInv'
  BY <1>8, RequestReads DEF Parsed, Passed, IsDone, Key
<1>9. CASE Crash
  BY <1>9 DEF Crash, Parsed
<1>10. CASE UNCHANGED vars
  BY <1>10 DEF vars, Parsed, Passed, IsDone, Key
<1> HIDE DEF IInv, TypeOK, OrderInv
<1>11. QED
  BY <1>1, <1>2, <1>3, <1>4, <1>5, <1>6, <1>7, <1>8, <1>9, <1>10
  DEF Next, Goroutine, Save

\* Compliance is carried out only with vc marked (VcBeforeCompliance).
THEOREM VcComesFirst == Spec => []VcBeforeCompliance
<1>1. Init => OrderInv
  BY DEF Init, OrderInv, ClosedMarks, Parsed, Image, Active
<1>2. OrderInv => VcBeforeCompliance
  BY DEF OrderInv, ClosedMarks, VcBeforeCompliance
<1>3. QED
  BY InitIInv, NextIInv, NextOrder, <1>1, <1>2, PTL DEF Spec

-----------------------------------------------------------------------------
(* No module is carried out again unless something lost its mark. *)

Faults == crashes + saveFails + resets
Past   == Active \ {"load"}
Saving == {"save", "write", "rename"}

\* As many repetitions as faults: a module that was carried out once more than
\* there were faults is known to whoever could carry it out again, the running
\* goroutine and, unless it is being saved, the file.
LossInv ==
    \A k \in Marks :
        /\ performed[k] <= 1 + Faults
        /\ \A j \in Jobs : pc[j] \in Past /\ k \notin mem[j] => performed[k] <= Faults
        /\ \/ performed[k] <= Faults
           \/ k \in Parsed(file)
           \/ \E j \in Jobs : pc[j] \in Saving /\ k \in mem[j]

\* How a step changes the number of faults: a reset, a failed Save and a crash
\* are one more, every other step is none.
LEMMA FaultSteps ==
    ASSUME IInv, [Next]_vars
    PROVE  /\ Faults \in Nat /\ Faults' \in Nat /\ Faults' >= Faults
           /\ \A j \in Jobs : Load(j) /\ spec[j].reset => Faults' = Faults + 1
           /\ \A j \in Jobs : SaveFail(j) => Faults' = Faults + 1
           /\ Crash => Faults' = Faults + 1
<1>1. crashes \in Nat /\ saveFails \in Nat /\ errors \in Nat /\ resets \in Nat
  BY DEF IInv, TypeOK
<1>2. \A j \in Jobs : Load(j) /\ spec[j].reset =>
          crashes' = crashes /\ saveFails' = saveFails /\ resets' = resets + 1
  BY DEF Load
<1>3. \A j \in Jobs : SaveFail(j) =>
          crashes' = crashes /\ saveFails' = saveFails + 1 /\ resets' = resets
  BY DEF SaveFail
<1>4. Crash => crashes' = crashes + 1 /\ saveFails' = saveFails /\ resets' = resets
  BY DEF Crash
<1>5. /\ crashes' = crashes \/ crashes' = crashes + 1
      /\ saveFails' = saveFails \/ saveFails' = saveFails + 1
      /\ resets' = resets \/ resets' = resets + 1
  BY DEF Next, Start, Goroutine, Load, Perform, EndModule, Fail, Complete, Clear, Save,
     SaveOpen, SaveWrite, SaveRename, SaveFail, Request, StartBusy, StartRefused,
     StatusLookup, StatusSnapshot, StatusStages, Answer, Crash, vars, faultVars
<1>6. QED
  BY <1>1, <1>2, <1>3, <1>4, <1>5 DEF Faults

\* A step accounts for every mark anew.
LEMMA NextLoss == IInv /\ LossInv /\ [Next]_vars => LossInv'
<1> SUFFICES ASSUME IInv, LossInv, [Next]_vars PROVE LossInv'
  OBVIOUS
<1> SUFFICES ASSUME NEW k \in Marks
             PROVE  /\ performed'[k] <= 1 + Faults'
                    /\ \A i \in Jobs : pc'[i] \in Past /\ k \notin mem'[i] =>
                                           performed'[k] <= Faults'
                    /\ \/ performed'[k] <= Faults'
                       \/ k \in Parsed(file')
                       \/ \E i \in Jobs : pc'[i] \in Saving /\ k \in mem'[i]
  BY DEF LossInv, Parsed
<1> DEFINE Accounted == /\ performed'[k] <= 1 + Faults'
                        /\ \A i \in Jobs : pc'[i] \in Past /\ k \notin mem'[i] =>
                                               performed'[k] <= Faults'
                        /\ \/ performed'[k] <= Faults'
                           \/ k \in Parsed(file')
                           \/ \E i \in Jobs : pc'[i] \in Saving /\ k \in mem'[i]
<1>1. /\ Faults \in Nat /\ Faults' \in Nat /\ Faults' >= Faults
      /\ performed \in [Marks -> Nat] /\ performed[k] \in Nat
      /\ pc \in [Jobs -> PCs] /\ mem \in [Jobs -> SUBSET Marks]
  BY FaultSteps DEF IInv, TypeOK
<1>2. /\ performed[k] <= 1 + Faults
      /\ \A j \in Jobs : pc[j] \in Past /\ k \notin mem[j] => performed[k] <= Faults
      /\ \/ performed[k] <= Faults
         \/ k \in Parsed(file)
         \/ \E j \in Jobs : pc[j] \in Saving /\ k \in mem[j]
  BY DEF LossInv
<1>3. \A i, j \in Jobs : pc[i] \in Active /\ pc[j] \in Active => i = j
  BY DEF IInv, SingleRunner
<1>4. performed'[k] = performed[k] /\ Faults' = Faults + 1 =>
          performed'[k] <= Faults'
  BY <1>1, <1>2
<1> USE DEF Past, Saving, Active
<1>5. ASSUME NEW j \in Jobs, NEW cfg \in Cfgs, NEW req \in SUBSET Modules,
             NEW reset \in BOOLEAN, Start(j, cfg, req, reset)
      PROVE  Accounted
  <2>1. \A i \in Jobs : pc[i] \notin Active
    BY <1>5, NoneAssumption DEF IInv, SingleRunner, Start
  <2>2. performed' = performed /\ file' = file /\ pc' = [pc EXCEPT ![j] = "load"]
    BY <1>5 DEF Start, diskVars
  <2>3. QED
    BY <1>1, <1>2, <2>1, <2>2
<1>6. ASSUME NEW j \in Jobs, Load(j)
      PROVE  Accounted
  <2>1. performed' = performed /\ file' = file /\ pc[j] = "load"
    BY <1>6 DEF Load, diskVars
  <2>2. CASE spec[j].reset
    BY <1>1, <1>2, <1>4, <1>6, <2>1, <2>2, FaultSteps
  <2>3. CASE ~spec[j].reset
    <3>1. mem' = [mem EXCEPT ![j] = Parsed(file)] /\ pc' = [pc EXCEPT ![j] = "pick"]
      BY <1>6, <2>3 DEF Load
    <3>2. \A i \in Jobs \ {j} : pc[i] \notin Active
      BY <1>3, <2>1
    <3>3. QED
      BY <1>1, <1>2, <2>1, <3>1, <3>2
  <2>4. QED
    BY <2>2, <2>3
<1>7. ASSUME NEW j \in Jobs, Perform(j)
      PROVE  Accounted
  <2>1. PICK m \in Modules :
            /\ ~IsDone(j, m)
            /\ performed' = [performed EXCEPT ![Key(j, m)] = @ + 1]
            /\ mem' = [mem EXCEPT ![j] = @ \cup {Key(j, m)}]
    BY <1>7 DEF Perform, Passed
  <2>2. file' = file /\ pc[j] = "pick" /\ pc' = [pc EXCEPT ![j] = "save"]
    BY <1>7 DEF Perform, diskVars
  <2>3. \A i \in Jobs \ {j} : pc[i] \notin Active
    BY <1>3, <2>2
  <2>4. CASE k = Key(j, m)
    <3>1. performed[k] <= Faults
      BY <1>2, <2>1, <2>2, <2>4 DEF IsDone
    <3>2. performed'[k] = performed[k] + 1
      BY <1>1, <2>1, <2>4
    <3>3. k \in mem'[j] /\ pc'[j] = "save"
      BY <1>1, <2>1, <2>2, <2>4
    <3>4. \A i \in Jobs \ {j} : pc'[i] \notin Active
      BY <1>1, <2>2, <2>3
    <3>5. QED
      BY <1>1, <3>1, <3>2, <3>3, <3>4
  <2>5. CASE k # Key(j, m)
    <3>1. performed'[k] = performed[k]
      BY <1>1, <2>1, <2>5
    <3>2. k \in mem'[j] <=> k \in mem[j]
      BY <1>1, <2>1, <2>5
    <3>3. pc'[j] = "save" /\ \A i \in Jobs \ {j} : pc'[i] \notin Active
      BY <1>1, <2>2, <2>3
    <3>4. QED
      BY <1>1, <1>2, <2>2, <2>3, <3>1, <3>2, <3>3
  <2>6. QED
    BY <2>4, <2>5
<1>8. ASSUME NEW j \in Jobs,
             EndModule(j) \/ Fail(j) \/ Complete(j) \/ Clear(j) \/ SaveOpen(j)
               \/ SaveWrite(j)
      PROVE  Accounted
  <2>1. performed' = performed /\ file' = file /\ mem' = mem
    BY <1>8 DEF EndModule, Fail, Complete, Clear, SaveOpen, SaveWrite, diskVars
  <2>2. /\ pc[j] \in Past
        /\ \E at \in {"save", "write", "rename", "clear", "done"} :
              pc' = [pc EXCEPT ![j] = at] /\ (pc[j] \in Saving => at \in Saving)
    BY <1>8 DEF EndModule, Fail, Complete, Clear, SaveOpen, SaveWrite
  <2>3. \A i \in Jobs \ {j} : pc'[i] = pc[i]
    BY <1>1, <2>2
  <2>4. pc[j] \in Saving => pc'[j] \in Saving
    BY <1>1, <2>2
  <2>5. QED
    BY <1>1, <1>2, <2>1, <2>2, <2>3, <2>4
<1>9. ASSUME NEW j \in Jobs, SaveRename(j)
      PROVE  Accounted
  <2>1. Parsed(file') = mem[j]
    BY <1>9 DEF SaveRename, IInv, FileInv, Parsed, Image
  <2>2. /\ performed' = performed /\ mem' = mem
        /\ pc[j] = "rename" /\ pc' = [pc EXCEPT ![j] = "pick"]
    BY <1>9 DEF SaveRename
  <2>3. QED
    BY <1>1, <1>2, <1>3, <2>1, <2>2
<1>10. ASSUME (\E j \in Jobs : SaveFail(j)) \/ Crash
       PROVE  Accounted
  <2>1. performed' = performed
    BY <1>10 DEF SaveFail, Crash
  <2>2. Faults' = Faults + 1
    BY <1>10, FaultSteps
  <2>3. QED
    BY <1>1, <1>4, <2>1, <2>2
<1>11. ASSUME NEW c \in Clients, Request(c)
       PROVE  /\ performed' = performed /\ file' = file /\ mem' = mem /\ pc' = pc
  BY <1>11, RequestReads DEF jobVars, diskVars
<1>12. UNCHANGED vars => performed' = performed /\ file' = file /\ mem' = mem /\ pc' = pc
  BY DEF vars, jobVars, diskVars
<1>13. ASSUME performed' = performed, file' = file, mem' = mem, pc' = pc
       PROVE  Accounted
  BY <1>1, <1>2, <1>13
<1> HIDE DEF Past, Saving, Active
<1>14. QED
  BY <1>5, <1>6, <1>7, <1>8, <1>9, <1>10, <1>11, <1>12, <1>13 DEF Next, Goroutine, Save

\* A module is carried out again only if a crash, a failed Save or a reset lost
\* its mark (RepeatNeedsLoss): resuming a job repeats nothing by itself.
THEOREM RepeatsAreLosses == Spec => []RepeatNeedsLoss
<1>1. Init => LossInv
  BY DEF Init, LossInv, Faults, Past, Active
<1>2. TypeOK /\ LossInv => RepeatNeedsLoss
  BY DEF LossInv, RepeatNeedsLoss, Faults, TypeOK
<1>3. IInv => TypeOK
  BY DEF IInv
<1>4. QED
  BY InitIInv, NextIInv, NextLoss, <1>1, <1>2, <1>3, PTL DEF Spec

-----------------------------------------------------------------------------
(* What a status answer may be missing. *)

\* The modules a job has work for.
Work(j) == spec[j].mods \cap Planned[spec[j].cfg]

\* A goroutine between two modules has everything it knows on disk, a completed
\* job has all its work there, unless the job was forgotten; and once a reset
\* is under way every other job is.
KeptInv ==
    \A j \in Jobs :
        /\ pc[j] = "pick" /\ j \notin forgotten => mem[j] \subseteq Parsed(file)
        /\ status[j] = "completed" /\ j \notin forgotten =>
              \A m \in Work(j) : Key(j, m) \in Parsed(file)
        /\ pc[j] \in Past /\ spec[j].reset =>
              \A i \in Jobs \ {j} : status[i] # "none" => i \in forgotten

\* What a request has copied of a completed job is still true.
PollInv ==
    \A c \in Clients :
        client[c].pc \in {"snapped", "answered"} /\ client[c].status = "completed" =>
            status[client[c].job] = "completed"

\* Load, Perform, a rename and the outcome of a job, one job at a time.
LEMMA NextKept == IInv /\ OrderInv /\ KeptInv /\ [Next]_vars => KeptInv'
<1> SUFFICES ASSUME IInv, OrderInv, KeptInv, [Next]_vars PROVE KeptInv'
  OBVIOUS
<1> DEFINE Kept(i) ==
      /\ pc'[i] = "pick" /\ i \notin forgotten' => mem'[i] \subseteq Parsed(file')
      /\ status'[i] = "completed" /\ i \notin forgotten' =>
            \A m \in spec'[i].mods \cap Planned[spec'[i].cfg] :
                <<spec'[i].cfg, m>> \in Parsed(file')
      /\ pc'[i] \in Past /\ spec'[i].reset =>
            \A n \in Jobs \ {i} : status'[n] # "none" => n \in forgotten'
<1>0. (\A i \in Jobs : Kept(i)) => KeptInv'
  BY DEF KeptInv, Work, Key, Parsed
<1>1. /\ pc \in [Jobs -> PCs] /\ mem \in [Jobs -> SUBSET Marks]
      /\ status \in [Jobs -> Statuses] /\ spec \in [Jobs -> Specs \cup {NoSpec}]
      /\ forgotten \in SUBSET Jobs /\ todo \in [Jobs -> SUBSET Modules]
  BY DEF IInv, TypeOK
<1>2. /\ \A i, j \in Jobs : pc[i] \in Active /\ pc[j] \in Active => i = j
      /\ \A i \in Jobs : pc[i] \in Active \ {"clear"} <=> status[i] = "running"
  BY DEF IInv, SingleRunner, Phase
<1>3. \A i \in Jobs :
        /\ pc[i] = "pick" /\ i \notin forgotten => mem[i] \subseteq Parsed(file)
        /\ status[i] = "completed" /\ i \notin forgotten =>
              \A m \in spec[i].mods \cap Planned[spec[i].cfg] :
                  <<spec[i].cfg, m>> \in Parsed(file)
        /\ pc[i] \in Past /\ spec[i].reset =>
              \A n \in Jobs \ {i} : status[n] # "none" => n \in forgotten
  BY DEF KeptInv, Work, Key
<1> USE DEF Past, Active
<1> HIDE DEF Kept
<1>4. ASSUME NEW j \in Jobs, NEW cfg \in Cfgs, NEW req \in SUBSET Modules,
             NEW reset \in BOOLEAN, Start(j, cfg, req, reset)
      PROVE  KeptInv'
  <2>1. \A i \in Jobs : pc[i] \notin Active
    BY <1>4, NoneAssumption DEF IInv, SingleRunner, Start
  <2>2. /\ file' = file /\ forgotten' = forgotten /\ mem' = mem
        /\ pc' = [pc EXCEPT ![j] = "load"]
        /\ status' = [status EXCEPT ![j] = "running"]
        /\ \A i \in Jobs \ {j} : spec'[i] = spec[i]
    BY <1>1, <1>4 DEF Start, diskVars, faultVars
  <2>3. \A i \in Jobs : Kept(i)
    BY <1>1, <1>3, <2>1, <2>2 DEF Kept
  <2>4. QED
    BY <1>0, <2>3
<1>5. ASSUME NEW j \in Jobs, Load(j) PROVE KeptInv'
  <2>1. \A i \in Jobs \ {j} : pc[i] \notin Active /\ pc'[i] = pc[i]
    BY <1>1, <1>2, <1>5 DEF Load
  <2>2. file' = file /\ status' = status /\ spec' = spec /\ status[j] = "running"
    BY <1>2, <1>5 DEF Load, diskVars
  <2>3. CASE spec[j].reset
    <3>1. /\ pc'[j] = "save"
          /\ forgotten' = forgotten \cup ({i \in Jobs : status[i] # "none"} \ {j})
      BY <1>1, <1>5, <2>3 DEF Load
    <3>2. \A i \in Jobs : Kept(i)
      BY <1>3, <2>1, <2>2, <2>3, <3>1 DEF Kept
    <3>3. QED
      BY <1>0, <3>2
  <2>4. CASE ~spec[j].reset
    <3>1. mem'[j] = Parsed(file) /\ pc'[j] = "pick" /\ forgotten' = forgotten
      BY <1>1, <1>5, <2>4 DEF Load
    <3>2. \A i \in Jobs : Kept(i)
      BY <1>3, <2>1, <2>2, <2>4, <3>1 DEF Kept
    <3>3. QED
      BY <1>0, <3>2
  <2>5. QED
    BY <2>3, <2>4
<1>6. ASSUME NEW j \in Jobs, Perform(j) \/ EndModule(j) \/ SaveOpen(j) \/ SaveWrite(j)
      PROVE  KeptInv'
  <2>1. /\ file' = file /\ status' = status /\ spec' = spec /\ forgotten' = forgotten
        /\ pc[j] \in Past
        /\ \E at \in Past \ {"pick"} : pc' = [pc EXCEPT ![j] = at]
    BY <1>6 DEF Perform, EndModule, SaveOpen, SaveWrite, diskVars, faultVars
  <2>2. \A i \in Jobs \ {j} : pc'[i] = pc[i] /\ mem'[i] = mem[i]
    BY <1>1, <1>6, <2>1 DEF Perform, EndModule, SaveOpen, SaveWrite
  <2>3. pc'[j] \in Past \ {"pick"}
    BY <1>1, <2>1
  <2>4. \A i \in Jobs : Kept(i)
    BY <1>3, <2>1, <2>2, <2>3 DEF Kept
  <2>5. QED
    BY <1>0, <2>4
<1>7. ASSUME NEW j \in Jobs, Fail(j) \/ Clear(j) PROVE KeptInv'
  <2>1. /\ file' = file /\ mem' = mem /\ spec' = spec /\ forgotten' = forgotten
        /\ pc[j] \in Past
        /\ \E at \in {"clear", "done"} : pc' = [pc EXCEPT ![j] = at]
    BY <1>7 DEF Fail, Clear, diskVars, faultVars
  <2>2. \A i \in Jobs \ {j} : pc'[i] = pc[i]
    BY <1>1, <2>1
  <2>3. pc'[j] \in {"clear", "done"}
    BY <1>1, <2>1
  <2>4. \A i \in Jobs : /\ status'[i] = "completed" => status[i] = "completed"
                        /\ status'[i] # "none" => status[i] # "none"
    BY <1>1, <1>2, <1>7, <2>1 DEF Fail, Clear
  <2>5. \A i \in Jobs : Kept(i)
    BY <1>3, <2>1, <2>2, <2>3, <2>4 DEF Kept
  <2>6. QED
    BY <1>0, <2>5
<1>8. ASSUME NEW j \in Jobs, Complete(j) PROVE KeptInv'
  <2>1. /\ file' = file /\ mem' = mem /\ spec' = spec /\ forgotten' = forgotten
        /\ pc[j] = "pick" /\ todo[j] = {} /\ pc' = [pc EXCEPT ![j] = "clear"]
        /\ status' = [status EXCEPT ![j] = "completed"]
    BY <1>8 DEF Complete, diskVars, faultVars
  <2>2. \A m \in spec[j].mods \cap Planned[spec[j].cfg] : <<spec[j].cfg, m>> \in mem[j]
    BY <2>1 DEF OrderInv, Passed, IsDone, Key
  <2>3. status[j] = "running"
    BY <1>2, <2>1
  <2>4. \A i \in Jobs : Kept(i)
    BY <1>1, <1>3, <2>1, <2>2, <2>3 DEF Kept
  <2>5. QED
    BY <1>0, <2>4
<1>9. ASSUME NEW j \in Jobs, SaveRename(j) PROVE KeptInv'
  <2>1. Parsed(file') = mem[j]
    BY <1>9 DEF SaveRename, IInv, FileInv, Parsed, Image
  <2>2. /\ status' = status /\ spec' = spec /\ mem' = mem /\ forgotten' = forgotten \ {j}
        /\ pc[j] = "rename" /\ pc' = [pc EXCEPT ![j] = "pick"]
    BY <1>9 DEF SaveRename
  <2>3. \A i \in Jobs \ {j} : pc[i] \notin Active /\ pc'[i] = pc[i]
    BY <1>1, <1>2, <2>2
  <2>4. ~spec[j].reset => Parsed(file) \subseteq mem[j]
    BY <2>2 DEF IInv, MemInv
  <2>5. status[j] = "running"
    BY <1>2, <2>2
  <2>6. ASSUME NEW i \in Jobs \ {j} PROVE Kept(i)
    <3>1. CASE spec[j].reset
      BY <1>3, <2>1, <2>2, <2>3, <3>1 DEF Kept
    <3>2. CASE ~spec[j].reset
      BY <1>3, <2>1, <2>2, <2>3, <2>4, <3>2 DEF Kept
    <3>3. QED
      BY <3>1, <3>2
  <2>7. Kept(j)
    BY <1>1, <1>3, <2>1, <2>2, <2>5 DEF Kept
  <2>8. QED
    BY <1>0, <2>6, <2>7
<1>10. ASSUME NEW j \in Jobs, SaveFail(j) PROVE KeptInv'
  <2>1. /\ file' = file /\ status' = status /\ spec' = spec /\ mem' = mem
        /\ forgotten' = forgotten \cup {j}
        /\ pc[j] \in Past /\ pc' = [pc EXCEPT ![j] = "pick"]
    BY <1>10 DEF SaveFail, diskVars
  <2>2. \A i \in Jobs : Kept(i)
    BY <1>1, <1>3, <2>1 DEF Kept
  <2>3. QED
    BY <1>0, <2>2
<1>11. CASE Crash
  <2>1. \A i \in Jobs : pc'[i] = "absent" /\ status'[i] # "completed"
    BY <1>11 DEF Crash
  <2>2. \A i \in Jobs : Kept(i)
    BY <2>1 DEF Kept
  <2>3. QED
    BY <1>0, <2>2
<1>12. CASE (\E c \in Clients : Request(c)) \/ UNCHANGED vars
  <2>1. UNCHANGED <<jobVars, diskVars, faultVars>>
    BY <1>12, RequestReads DEF vars
  <2>2. \A i \in Jobs : Kept(i)
    BY <1>3, <2>1 DEF Kept, jobVars, diskVars, faultVars
  <2>3. QED
    BY <1>0, <2>2
<1> HIDE DEF Past, Active
<1>13. QED
  BY <1>4, <1>5, <1>6, <1>7, <1>8, <1>9, <1>10, <1>11, <1>12 DEF Next, Goroutine, Save

\* A completed job stays completed as long as the process lives, and with the
\* process its requests end.
LEMMA NextPoll == IInv /\ PollInv /\ [Next]_vars => PollInv'
<1> SUFFICES ASSUME IInv, PollInv, [Next]_vars PROVE PollInv'
  OBVIOUS
<1>1. /\ client \in [Clients -> Requests] /\ status \in [Jobs -> Statuses]
  BY DEF IInv, TypeOK
<1>2. \A c \in Clients : client[c].pc \in {"snapped", "answered"} => client[c].job \in Jobs
  BY <1>1 DEF Requests, RequestIn
<1>3. CASE UNCHANGED client /\ \A j \in Jobs : status[j] = "completed" => status'[j] = "completed"
  BY <1>2, <1>3 DEF PollInv
<1>4. ASSUME NEW j \in Jobs, Goroutine(j)
      PROVE  UNCHANGED client /\ \A i \in Jobs : status[i] = "completed" => status'[i] = "completed"
  <2>1. UNCHANGED client
    BY <1>4 DEF Goroutine, Load, Perform, EndModule, Fail, Complete, Clear, Save, SaveOpen,
       SaveWrite, SaveRename, SaveFail
  <2>2. CASE Fail(j) \/ Complete(j)
    <3>1. pc[j] = "pick" /\ \A i \in Jobs \ {j} : status'[i] = status[i]
      BY <1>1, <2>2 DEF Fail, Complete
    <3>2. status[j] = "running"
      BY <3>1 DEF IInv, Phase, Active
    <3>3. QED
      BY <2>1, <3>1, <3>2
  <2>3. CASE ~(Fail(j) \/ Complete(j))
    <3>1. UNCHANGED status
      BY <1>4, <2>3 DEF Goroutine, Load, Perform, EndModule, Clear, Save, SaveOpen,
         SaveWrite, SaveRename, SaveFail
    <3>2. QED
      BY <2>1, <3>1
  <2>4. QED
    BY <2>2, <2>3
<1>5. ASSUME NEW j \in Jobs, NEW cfg \in Cfgs, NEW req \in SUBSET Modules,
             NEW reset \in BOOLEAN, Start(j, cfg, req, reset)
      PROVE  UNCHANGED client /\ \A i \in Jobs : status[i] = "completed" => status'[i] = "completed"
  BY <1>1, <1>5 DEF Start
<1>6. ASSUME NEW c \in Clients, Request(c) PROVE PollInv'
  <2>1. UNCHANGED status
    BY <1>6, RequestReads DEF jobVars
  <2>2. \A d \in Clients \ {c} : client'[d] = client[d]
    BY <1>1, <1>6 DEF Request, StartBusy, StartRefused, StatusLookup, StatusSnapshot,
       StatusStages, Answer
  <2>3. client'[c].pc \in {"snapped", "answered"} /\ client'[c].status = "completed" =>
            status[client'[c].job] = "completed"
    <3>1. CASE StartBusy(c) \/ StartRefused(c) \/ Answer(c) \/ \E j \in Jobs : StatusLookup(c, j)
      <4>1. client'[c].pc \in {"busy", "refused", "idle", "found"}
        <5>1. CASE StartBusy(c)
          <6>1. PICK seen : client' = [client EXCEPT ![c] =
                                          [Idle EXCEPT !.pc = "busy", !.status = seen]]
            BY <5>1 DEF StartBusy
          <6>2. QED
            BY <1>1, <6>1 DEF Idle
        <5>2. CASE StartRefused(c)
          BY <1>1, <5>2 DEF StartRefused, Requests, RequestIn
        <5>3. CASE Answer(c)
          BY <1>1, <5>3 DEF Answer, Idle
        <5>4. CASE \E j \in Jobs : StatusLookup(c, j)
          BY <1>1, <5>4 DEF StatusLookup, Idle
        <5>5. QED
          BY <3>1, <5>1, <5>2, <5>3, <5>4
      <4>2. QED
        BY <4>1
    <3>2. CASE StatusSnapshot(c)
      <4>1. client'[c] = [client[c] EXCEPT !.pc = "snapped", !.status = status[client[c].job]]
        BY <1>1, <3>2 DEF StatusSnapshot
      <4>2. client'[c].job = client[c].job /\ client'[c].status = status[client[c].job]
        BY <1>1, <4>1 DEF Requests, RequestIn
      <4>3. QED
        BY <4>2
    <3>3. CASE StatusStages(c)
      <4>1. client[c].pc = "snapped" /\ client'[c].job = client[c].job
            /\ client'[c].status = client[c].status
        BY <1>1, <3>3 DEF StatusStages, Requests, RequestIn
      <4>2. QED
        BY <4>1 DEF PollInv
    <3>4. QED
      BY <1>6, <3>1, <3>2, <3>3 DEF Request
  <2>4. QED
    BY <2>1, <2>2, <2>3 DEF PollInv
<1>7. CASE Crash
  BY <1>7 DEF Crash, PollInv, Idle
<1>8. CASE UNCHANGED vars
  BY <1>8 DEF vars, jobVars, PollInv
<1>9. QED
  BY <1>3, <1>4, <1>5, <1>6, <1>7, <1>8 DEF Next

\* Of a completed job the stages are read from a file that has them all.
LEMMA NextListed ==
    IInv /\ KeptInv /\ PollInv /\ CompletedListsAll /\ [Next]_vars => CompletedListsAll'
<1> SUFFICES ASSUME IInv, KeptInv, PollInv, CompletedListsAll, [Next]_vars
             PROVE  CompletedListsAll'
  OBVIOUS
<1>1. /\ client \in [Clients -> Requests] /\ status \in [Jobs -> Statuses]
      /\ spec \in [Jobs -> Specs \cup {NoSpec}]
  BY DEF IInv, TypeOK
<1>2. \A c \in Clients :
          client[c].pc \in {"snapped", "answered"} /\ client[c].status = "completed" =>
              client[c].job \in Jobs /\ status[client[c].job] = "completed"
  BY <1>1 DEF Requests, RequestIn, PollInv
<1>3. CASE UNCHANGED client /\ \A j \in Jobs : status[j] = "completed" =>
                  spec'[j] = spec[j] /\ (j \in forgotten => j \in forgotten')
  BY <1>2, <1>3 DEF CompletedListsAll
<1>4. ASSUME NEW j \in Jobs, Goroutine(j) PROVE CompletedListsAll'
  <2>1. spec' = spec /\ client' = client
    BY <1>4 DEF Goroutine, Load, Perform, EndModule, Fail, Complete, Clear, Save, SaveOpen,
       SaveWrite, SaveRename, SaveFail
  <2>2. forgotten \ {j} \subseteq forgotten' /\ (j \notin forgotten' => SaveRename(j) \/ j \notin forgotten)
    BY <1>4 DEF Goroutine, Load, Perform, EndModule, Fail, Complete, Clear, Save, SaveOpen,
       SaveWrite, SaveRename, SaveFail, faultVars
  <2>3. SaveRename(j) => status[j] = "running"
    BY DEF SaveRename, IInv, Phase, Active
  <2>4. QED
    BY <1>3, <2>1, <2>2, <2>3
<1>5. ASSUME NEW j \in Jobs, NEW cfg \in Cfgs, NEW req \in SUBSET Modules,
             NEW reset \in BOOLEAN, Start(j, cfg, req, reset)
      PROVE  CompletedListsAll'
  <2>1. status[j] = "none" /\ client' = client /\ forgotten' = forgotten
        /\ \A i \in Jobs \ {j} : spec'[i] = spec[i]
    BY <1>1, <1>5 DEF Start, faultVars
  <2>2. QED
    BY <1>3, <2>1
<1>6. ASSUME NEW c \in Clients, Request(c) PROVE CompletedListsAll'
  <2>1. UNCHANGED <<spec, forgotten, file, status>>
    BY <1>6, RequestReads DEF jobVars, diskVars, faultVars
  <2>2. \A d \in Clients \ {c} : client'[d] = client[d]
    BY <1>1, <1>6 DEF Request, StartBusy, StartRefused, StatusLookup, StatusSnapshot,
       StatusStages, Answer
  <2>3. client'[c].pc = "answered" /\ client'[c].status = "completed" =>
            \/ client'[c].job \in forgotten
            \/ Work(client'[c].job) \subseteq client'[c].stages
    <3>1. CASE StatusStages(c)
      <4> DEFINE S == {m \in Modules : <<spec[client[c].job].cfg, m>> \in Parsed(file)}
      <4>1. /\ client[c].pc = "snapped"
            /\ client' = [client EXCEPT ![c] = [client[c] EXCEPT !.pc = "answered", !.stages = S]]
        BY <3>1 DEF StatusStages
      <4>2. /\ client'[c].job = client[c].job
            /\ client'[c].status = client[c].status
            /\ client'[c].stages = S
        <5> HIDE DEF S
        <5>1. QED
          BY <1>1, <4>1 DEF Requests, RequestIn
      <4>3. SUFFICES ASSUME client[c].status = "completed", client[c].job \notin forgotten
                     PROVE  Work(client[c].job) \subseteq S
        <5> HIDE DEF S
        <5>1. QED
          BY <4>2
      <4>4. client[c].job \in Jobs /\ status[client[c].job] = "completed"
        BY <1>2, <4>1, <4>3
      <4>5. \A m \in Work(client[c].job) : <<spec[client[c].job].cfg, m>> \in Parsed(file)
        BY <4>3, <4>4 DEF KeptInv, Key
      <4>6. Work(client[c].job) \subseteq Modules
        BY <1>1, <4>4 DEF Work, Specs, NoSpec
      <4>7. QED
        BY <4>5, <4>6
    <3>2. CASE ~StatusStages(c)
      <4>1. client'[c].pc # "answered"
        <5>1. CASE StartBusy(c)
          <6>1. PICK seen : client' = [client EXCEPT ![c] =
                                          [Idle EXCEPT !.pc = "busy", !.status = seen]]
            BY <5>1 DEF StartBusy
          <6>2. QED
            BY <1>1, <6>1 DEF Idle
        <5>2. CASE StartRefused(c)
          BY <1>1, <5>2 DEF StartRefused, Requests, RequestIn
        <5>3. CASE StatusSnapshot(c)
          <6>1. PICK seen : client' = [client EXCEPT ![c] = [client[c] EXCEPT
                                           !.pc = "snapped", !.status = seen]]
            BY <5>3 DEF StatusSnapshot
          <6>2. client'[c] = [client[c] EXCEPT !.pc = "snapped", !.status = seen]
            BY <1>1, <6>1
          <6>3. client[c] \in Requests
            BY <1>1
          <6>4. QED
            BY <6>2, <6>3 DEF Requests, RequestIn
        <5>4. CASE Answer(c)
          BY <1>1, <5>4 DEF Answer, Idle
        <5>5. CASE \E j \in Jobs : StatusLookup(c, j)
          BY <1>1, <5>5 DEF StatusLookup, Idle
        <5>6. QED
          BY <1>6, <3>2, <5>1, <5>2, <5>3, <5>4, <5>5 DEF Request
      <4>2. QED
        BY <4>1
    <3>3. QED
      BY <3>1, <3>2
  <2>4. QED
    BY <2>1, <2>2, <2>3 DEF CompletedListsAll, Work
<1>7. CASE Crash
  BY <1>7 DEF Crash, CompletedListsAll, Idle
<1>8. CASE UNCHANGED vars
  BY <1>3, <1>8 DEF vars, jobVars, faultVars
<1>9. QED
  BY <1>4, <1>5, <1>6, <1>7, <1>8 DEF Next

\* A status answer "completed" lists every module of the job that its configuration
\* gives work, unless a reset or a failed Save kept the job's marks off the disk
\* (CompletedListsAll): the job's fields and the file are read at two moments, in the
\* order that is safe.
THEOREM AnswersList == Spec => []CompletedListsAll
<1>1. Init => OrderInv /\ KeptInv /\ PollInv /\ CompletedListsAll
  <2>1. Init => OrderInv
    BY DEF Init, OrderInv, ClosedMarks, Parsed, Image, Active
  <2>2. Init => KeptInv
    BY DEF Init, KeptInv, Past, Active
  <2>3. Init => PollInv /\ CompletedListsAll
    BY DEF Init, PollInv, CompletedListsAll, Idle
  <2>4. QED
    BY <2>1, <2>2, <2>3
<1>2. QED
  BY InitIInv, NextIInv, NextOrder, NextKept, NextPoll, NextListed, <1>1, PTL DEF Spec

-----------------------------------------------------------------------------
\* The safety half of SlotFreed: the holder of the slot always has a step to
\* take, and it has only so many of them.

\* Every non-empty set of numbers has a least element.
LEMMA Least ==
    ASSUME NEW S, S \subseteq Nat, S # {}
    PROVE  \E i \in S : \A k \in S : i <= k
<1> DEFINE Less == {ss \in Nat \X Nat : ss[1] < ss[2]}
<1>1. IsWellFoundedOn(Less, Nat)
  BY NatLessThanWellFounded DEF OpToRel
<1>2. PICK i \in S : \A k \in S : <<k, i>> \notin Less
  <2> HIDE DEF Less
  <2>1. QED
    BY <1>1, WFMin
<1>3. ASSUME NEW k \in S PROVE i <= k
  <2>1. i \in Nat /\ k \in Nat
    OBVIOUS
  <2>2. ~(k < i)
    BY <1>2, <2>1
  <2>3. QED
    BY <2>1, <2>2
<1>4. QED
  BY <1>3

\* The loop over SeedModuleOrder has a next module while any is left.
LEMMA NextExists ==
    ASSUME NEW j \in Jobs, todo[j] \in SUBSET Modules, todo[j] # {}
    PROVE  \E m \in Modules : IsNext(j, m)
<1> DEFINE S == {i \in DOMAIN Order : Order[i] \in todo[j]}
<1>1. DOMAIN Order \subseteq Nat
  BY OrderAssumption
<1>2. S # {} /\ S \subseteq Nat
  BY <1>1 DEF Modules
<1>3. PICK i \in S : \A k \in S : i <= k
  <2> HIDE DEF S
  <2>1. QED
    BY <1>2, Least
<1>4. ASSUME NEW n \in todo[j] \ {Order[i]} PROVE Precedes(Order[i], n)
  <2>1. PICK k \in DOMAIN Order : Order[k] = n
    BY DEF Modules
  <2>2. i < k
    <3>1. k \in S /\ k # i
      BY <2>1
    <3>2. QED
      BY <1>1, <1>3, <3>1
  <2>3. QED
    BY <2>1, <2>2 DEF Precedes
<1>5. QED
  BY <1>4 DEF IsNext, Modules

\* Whether a goroutine is at a point that some action of Goroutine leaves.
HasStep(j) ==
    \/ pc[j] \in {"load", "save", "write", "rename", "clear"}
    \/ pc[j] = "pick" /\ todo[j] = {}
    \/ pc[j] = "pick" /\ \E m \in Modules : IsNext(j, m)

\* The slot is never held by a goroutine that is gone or has nothing to do.
HolderHasStep == running # None => HasStep(running)

\* Whatever was asked, marked, failed or crashed before, the service is not
\* locked by a job that waits for nothing (HolderHasStep).
THEOREM HolderNeverStuck == Spec => []HolderHasStep
<1>1. IInv => HolderHasStep
  <2> SUFFICES ASSUME IInv, running # None PROVE HasStep(running)
    BY DEF HolderHasStep
  <2>1. running \in Jobs /\ pc[running] \in Active
    BY DEF IInv, TypeOK, SingleRunner
  <2>2. CASE pc[running] = "pick" /\ todo[running] # {}
    <3>1. todo[running] \in SUBSET Modules
      BY <2>1 DEF IInv, TypeOK
    <3>2. \E m \in Modules : IsNext(running, m)
      BY <2>1, <2>2, <3>1, NextExists
    <3>3. QED
      BY <2>2, <3>2 DEF HasStep
  <2>3. QED
    BY <2>1, <2>2 DEF HasStep, Active
<1>2. QED
  BY Inductive, <1>1, PTL

\* The modules a goroutine still has to carry out.
Undone(j) == {m \in todo[j] : ~Passed(j, m)}

\* Budget(j) bounds the steps of j's goroutine: four for every module left (its
\* end and a Save of three steps), four more for one with work left, and what
\* is left of the current Save, the completion and the release.
Rest(j) == 4 * Cardinality(todo[j]) + 4 * Cardinality(Undone(j))

Budget(j) ==
    CASE pc[j] = "load"   -> 8 * Cardinality(todo[j]) + 6
      [] pc[j] = "save"   -> Rest(j) + 5
      [] pc[j] = "write"  -> Rest(j) + 4
      [] pc[j] = "rename" -> Rest(j) + 3
      [] pc[j] = "pick"   -> Rest(j) + 2
      [] pc[j] = "clear"  -> 1
      [] OTHER -> 0

\* No request, no crash and no other job gives a goroutine more to do, and each
\* step of its own uses some of it up.
BudgetSpent ==
    \A j \in Jobs :
        /\ Budget(j) \in Nat
        /\ pc[j] \in Active =>
              /\ Budget(j)' <= Budget(j)
              /\ Goroutine(j) => Budget(j)' < Budget(j)

\* A job is launched with eight steps for each of its modules and six more,
\* whatever an earlier job left in the file.
Launch ==
    \A j \in Jobs :
        pc[j] \notin Active /\ pc'[j] \in Active =>
            Budget(j)' <= 8 * Len(Order) + 6

LEMMA ModulesFinite ==
    /\ Len(Order) \in Nat
    /\ IsFiniteSet(Modules)
    /\ Cardinality(Modules) <= Len(Order)
<1>1. Len(Order) \in Nat /\ DOMAIN Order = 1..Len(Order)
  BY OrderAssumption
<1>2. IsFiniteSet(DOMAIN Order) /\ Cardinality(DOMAIN Order) = Len(Order)
  <2>1. 1 \in Int /\ Len(Order) \in Int
    BY <1>1
  <2>2. /\ IsFiniteSet(1..Len(Order))
        /\ Cardinality(1..Len(Order)) =
              IF 1 > Len(Order) THEN 0 ELSE Len(Order) - 1 + 1
    BY <2>1, FS_Interval
  <2>3. (IF 1 > Len(Order) THEN 0 ELSE Len(Order) - 1 + 1) = Len(Order)
    BY <1>1
  <2>4. QED
    BY <1>1, <2>2, <2>3
<1>3. Order \in Surjection(DOMAIN Order, Modules)
  BY OrderAssumption DEF Surjection, Modules
<1>4. QED
  BY <1>1, <1>2, <1>3, FS_Surjection

LEMMA Counts ==
    ASSUME NEW S \in SUBSET Modules
    PROVE  IsFiniteSet(S) /\ Cardinality(S) \in Nat /\ Cardinality(S) <= Len(Order)
<1>1. IsFiniteSet(S) /\ Cardinality(S) <= Cardinality(Modules)
  BY ModulesFinite, FS_Subset
<1>2. QED
  BY <1>1, ModulesFinite, FS_CardinalityType

LEMMA RestNat ==
    ASSUME TypeOK, NEW j \in Jobs
    PROVE  /\ Cardinality(todo[j]) \in Nat
           /\ Cardinality(todo[j]) <= Len(Order)
           /\ Rest(j) \in Nat
           /\ Rest(j) <= 8 * Cardinality(todo[j])
           /\ Budget(j) \in Nat
<1>1. todo[j] \in SUBSET Modules /\ Undone(j) \in SUBSET todo[j]
  BY DEF TypeOK, Undone
<1>2. IsFiniteSet(todo[j]) /\ Cardinality(todo[j]) \in Nat /\ Cardinality(todo[j]) <= Len(Order)
  BY <1>1, Counts
<1>3. Cardinality(Undone(j)) \in Nat /\ Cardinality(Undone(j)) <= Cardinality(todo[j])
  BY <1>1, <1>2, FS_Subset, FS_CardinalityType
<1>4. Rest(j) \in Nat /\ Rest(j) <= 8 * Cardinality(todo[j])
  BY <1>2, <1>3 DEF Rest
<1>5. QED
  BY <1>2, <1>4 DEF Budget

LEMMA JobSpends ==
    ASSUME IInv, IInv', NEW j \in Jobs, Goroutine(j)
    PROVE  Budget(j)' < Budget(j)
<1>1. /\ Cardinality(todo[j]) \in Nat /\ Rest(j) \in Nat
      /\ Rest(j) <= 8 * Cardinality(todo[j])
      /\ todo[j] \in SUBSET Modules
  BY RestNat DEF IInv, TypeOK
<1>2. /\ Cardinality(todo'[j]) \in Nat /\ Rest(j)' \in Nat
      /\ Rest(j)' <= 8 * Cardinality(todo'[j])
  <2>1. TypeOK'
    BY DEF IInv
  <2>2. todo'[j] \in SUBSET Modules /\ Undone(j)' \in SUBSET todo'[j]
    BY <2>1 DEF TypeOK, Undone
  <2>3. IsFiniteSet(todo'[j]) /\ Cardinality(todo'[j]) \in Nat
    BY <2>2, Counts
  <2>4. /\ Cardinality(Undone(j)') \in Nat
        /\ Cardinality(Undone(j)') <= Cardinality(todo'[j])
    BY <2>2, <2>3, FS_Subset, FS_CardinalityType
  <2>5. QED
    BY <2>3, <2>4 DEF Rest
<1>3. /\ pc = [k \in Jobs |-> pc[k]] /\ DOMAIN pc = Jobs
      /\ todo = [k \in Jobs |-> todo[k]] /\ DOMAIN todo = Jobs
      /\ mem = [k \in Jobs |-> mem[k]] /\ DOMAIN mem = Jobs
  BY DEF IInv, TypeOK
<1>4. CASE Load(j)
  <2>1. /\ pc[j] = "load" /\ pc'[j] \in {"save", "pick"}
        /\ todo' = todo
    BY <1>3, <1>4 DEF Load
  <2>2. QED
    BY <1>1, <1>2, <2>1 DEF Budget
<1>5. CASE Perform(j)
  <2>1. PICK m \in Modules : /\ IsNext(j, m)
                             /\ ~Passed(j, m)
                             /\ mem' = [mem EXCEPT ![j] = @ \cup {Key(j, m)}]
    BY <1>5 DEF Perform
  <2>2. /\ pc[j] = "pick" /\ pc'[j] = "save"
        /\ todo' = todo /\ spec' = spec
    BY <1>3, <1>5 DEF Perform
  <2>3. Undone(j)' = Undone(j) \ {m} /\ m \in Undone(j)
    BY <1>3, <2>1, <2>2 DEF Undone, Passed, IsDone, Key, IsNext
  <2>4. IsFiniteSet(Undone(j)) /\ Cardinality(Undone(j)) \in Nat
    <3>1. Undone(j) \in SUBSET Modules
      BY <1>1 DEF Undone
    <3>2. QED
      BY <3>1, Counts
  <2>5. Cardinality(Undone(j) \ {m}) = Cardinality(Undone(j)) - 1
    BY <2>3, <2>4, FS_RemoveElement
  <2>6. Rest(j)' = Rest(j) - 4
    BY <1>1, <2>2, <2>3, <2>4, <2>5 DEF Rest
  <2>7. QED
    BY <1>1, <2>2, <2>6 DEF Budget
<1>6. CASE EndModule(j)
  <2>1. PICK m \in Modules : /\ IsNext(j, m)
                             /\ Passed(j, m)
                             /\ todo' = [todo EXCEPT ![j] = @ \ {m}]
    BY <1>6 DEF EndModule
  <2>2. /\ pc[j] = "pick" /\ pc'[j] = "save"
        /\ mem' = mem /\ spec' = spec
    BY <1>3, <1>6 DEF EndModule
  <2>3. todo'[j] = todo[j] \ {m} /\ m \in todo[j]
    BY <1>3, <2>1 DEF IsNext
  <2>4. Undone(j)' = Undone(j)
    BY <2>1, <2>2, <2>3 DEF Undone, Passed, IsDone, Key
  <2>5. Cardinality(todo[j] \ {m}) = Cardinality(todo[j]) - 1
    BY <1>1, <2>3, Counts, FS_RemoveElement
  <2>6. Cardinality(Undone(j)) \in Nat
    <3>1. Undone(j) \in SUBSET Modules
      BY <1>1 DEF Undone
    <3>2. QED
      BY <3>1, Counts
  <2>7. Rest(j)' = Rest(j) - 4
    BY <1>1, <2>3, <2>4, <2>5, <2>6 DEF Rest
  <2>8. QED
    BY <1>1, <2>2, <2>7 DEF Budget
<1>7. CASE Fail(j) \/ Complete(j)
  <2>1. pc[j] = "pick" /\ pc'[j] = "clear"
    BY <1>3, <1>7 DEF Fail, Complete
  <2>2. QED
    BY <1>1, <2>1 DEF Budget
<1>8. CASE Clear(j)
  <2>1. pc[j] = "clear" /\ pc'[j] = "done"
    BY <1>3, <1>8 DEF Clear
  <2>2. QED
    BY <2>1 DEF Budget
<1>9. CASE Save(j)
  <2>1. /\ todo' = todo /\ mem' = mem /\ spec' = spec
        /\ <<pc[j], pc'[j]>> \in
              {<<"save", "write">>, <<"write", "rename">>, <<"rename", "pick">>,
               <<"save", "pick">>, <<"write", "pick">>}
    BY <1>3, <1>9 DEF Save, SaveOpen, SaveWrite, SaveRename, SaveFail
  <2>2. Rest(j)' = Rest(j)
    BY <2>1 DEF Rest, Undone, Passed, IsDone, Key
  <2>3. QED
    BY <1>1, <2>1, <2>2 DEF Budget
<1>10. QED
  BY <1>4, <1>5, <1>6, <1>7, <1>8, <1>9 DEF Goroutine

\* Every other step either leaves a running goroutine alone or is the crash.
LEMMA OthersLeave ==
    ASSUME IInv, Next, NEW j \in Jobs, pc[j] \in Active, ~Goroutine(j)
    PROVE  \/ Budget(j)' = Budget(j)
           \/ Budget(j)' = 0
<1> USE DEF jobVars
<1>1. running = j /\ running # None
  BY NoneAssumption DEF IInv, SingleRunner
<1>2. ASSUME NEW k \in Jobs, Goroutine(k) PROVE FALSE
  <2>1. pc[k] \in Active
    BY <1>2 DEF Goroutine, Load, Perform, EndModule, Fail, Complete, Clear, Save,
       SaveOpen, SaveWrite, SaveRename, SaveFail, Active
  <2>2. QED
    BY <1>2, <2>1 DEF IInv, SingleRunner
<1>3. ASSUME NEW c \in Clients, Request(c) PROVE Budget(j)' = Budget(j)
  BY <1>3, RequestReads DEF Budget, Rest, Undone, Passed, IsDone, Key
<1>4. CASE Crash
  <2>1. pc'[j] = "absent"
    BY <1>4 DEF Crash
  <2>2. QED
    BY <2>1 DEF Budget
<1>5. QED
  BY <1>1, <1>2, <1>3, <1>4 DEF Next, Start

\* The goroutine of a job takes at most 8 * Len(SeedModuleOrder) + 6 steps, then
\* the slot is free (BudgetSpent, Launch).  With HolderNeverStuck and a
\* goroutine that keeps running this is SlotFreed.
THEOREM JobsAreBounded == Spec => [][BudgetSpent /\ Launch]_vars
<1>1. IInv /\ [Next]_vars => [BudgetSpent /\ Launch]_vars
  <2> SUFFICES ASSUME IInv, Next PROVE BudgetSpent /\ Launch
    OBVIOUS
  <2>1. IInv'
    BY NextIInv
  <2>2. ASSUME NEW j \in Jobs PROVE Budget(j) \in Nat
    BY RestNat DEF IInv
  <2>3. ASSUME NEW j \in Jobs
        PROVE  /\ Cardinality(todo'[j]) \in Nat
               /\ Cardinality(todo'[j]) <= Len(Order)
               /\ Budget(j)' \in Nat
    <3>1. todo'[j] \in SUBSET Modules /\ Undone(j)' \in SUBSET Modules
      BY <2>1 DEF IInv, TypeOK, Undone
    <3>2. /\ Cardinality(todo'[j]) \in Nat
          /\ Cardinality(todo'[j]) <= Len(Order)
          /\ Cardinality(Undone(j)') \in Nat
      BY <3>1, Counts
    <3>3. Rest(j)' \in Nat
      BY <3>2 DEF Rest
    <3>4. QED
      BY <3>2, <3>3 DEF Budget
  <2>4. BudgetSpent
    <3>1. ASSUME NEW j \in Jobs, pc[j] \in Active PROVE Budget(j)' <= Budget(j)
      <4>1. CASE Goroutine(j)
        BY <2>1, <2>2, <2>3, <4>1, JobSpends
      <4>2. CASE ~Goroutine(j)
        BY <2>2, <2>3, <3>1, <4>2, OthersLeave
      <4>3. QED
        BY <4>1, <4>2
    <3>2. QED
      BY <2>1, <2>2, <3>1, JobSpends DEF BudgetSpent
  <2>5. ASSUME NEW j \in Jobs, pc[j] \notin Active, pc'[j] \in Active
        PROVE  Budget(j)' <= 8 * Len(Order) + 6
    <3> USE DEF IInv, TypeOK, jobVars, Active
    <3>1. pc'[j] = "load"
      <4>1. ASSUME NEW k \in Jobs, NEW cfg \in Cfgs, NEW req \in SUBSET Modules,
                   NEW reset \in BOOLEAN, Start(k, cfg, req, reset)
            PROVE  pc'[j] = "load"
        BY <2>5, <4>1 DEF Start
      <4>2. ASSUME NEW k \in Jobs, Goroutine(k) PROVE FALSE
        BY <2>5, <4>2 DEF Goroutine, Load, Perform, EndModule, Fail, Complete, Clear,
           Save, SaveOpen, SaveWrite, SaveRename, SaveFail
      <4>3. ASSUME NEW c \in Clients, Request(c) PROVE FALSE
        BY <2>5, <4>3, RequestReads
      <4>4. CASE Crash
        BY <2>5, <4>4 DEF Crash
      <4>5. QED
        BY <4>1, <4>2, <4>3, <4>4 DEF Next
    <3>2. QED
      BY <2>3, <3>1, ModulesFinite DEF Budget
  <2>6. QED
    BY <2>4, <2>5 DEF Launch
<1>2. QED
  BY <1>1, Inductive, PTL DEF Spec

=============================================================================
