------------------------------- MODULE SeedJob -------------------------------
(***************************************************************************)
(* The seeding job of handler/seed_handler.go: POST /api/tool/seed starts  *)
(* one background goroutine at a time, the goroutine runs the selected     *)
(* modules in order and writes a mark per finished module to               *)
(* data/seed_state.json, and GET /api/tool/seed/status/:id reads the job   *)
(* and that file while the goroutine is running.  The process may crash    *)
(* and restart: jobs live in memory only, the state file and the chain     *)
(* survive.                                                                *)
(*                                                                         *)
(* A module is one checkpointed unit here (IsDone, perform, Mark, Save),   *)
(* unless the configuration leaves its section empty: then the code marks  *)
(* nothing and goes on.  What the stages inside a module do is the subject *)
(* of modules of their own (see README).                                   *)
(***************************************************************************)
EXTENDS Naturals, Sequences

CONSTANTS
    Jobs,         \* job ids (UnixNano time stamps in the code, never reused)
    Clients,      \* HTTP requests in flight: refused starts and status polls
    Cfgs,         \* configuration hashes, the name spaces of the state file
    Order,        \* SeedModuleOrder: the modules, in execution order
    Vc,           \* the module "vc"
    Compliance,   \* the module "compliance", which needs "vc"
    Planned,      \* the modules for which the plan of a configuration has work
    None,         \* no job: runningID = ""
    MaxCrashes,   \* bound: process crashes
    MaxSaveFails, \* bound: failing Save calls (their error is ignored)
    MaxErrors     \* bound: modules that return an error or panic

Modules == {Order[i] : i \in DOMAIN Order}
Marks   == Cfgs \X Modules

\* m stands before n in the execution order.
Precedes(m, n) ==
    \E i, k \in DOMAIN Order : i < k /\ Order[i] = m /\ Order[k] = n

ASSUME OrderAssumption ==
    /\ Order \in Seq(Modules)
    /\ \A i, k \in DOMAIN Order : Order[i] = Order[k] => i = k
    /\ Compliance \in Modules
    /\ Precedes(Vc, Compliance)

\* A configuration with compliance tokens is accepted only with certificates to
\* issue (ValidateSeedConfig).
ASSUME PlannedAssumption ==
    /\ Planned \in [Cfgs -> SUBSET Modules]
    /\ \A cfg \in Cfgs : Compliance \in Planned[cfg] => Vc \in Planned[cfg]

ASSUME NoneAssumption == None \notin Jobs

ASSUME BoundsAssumption ==
    /\ MaxCrashes \in Nat
    /\ MaxSaveFails \in Nat
    /\ MaxErrors \in Nat

VARIABLES
    running,    \* runningID, guarded by jobsMu
    status,     \* job.Status of every job id, "none" before it is created
    spec,       \* the job's ConfigHash, Modules and Reset flag
    pc,         \* where the job's goroutine is
    mem,        \* the goroutine's SeedState.data
    todo,       \* the modules the goroutine has not finished yet
    file,       \* data/seed_state.json
    tmp,        \* data/seed_state.json.tmp
    performed,  \* how often each module of each configuration was carried out
    client,     \* the HTTP requests being answered
    forgotten,  \* history: jobs whose marks a reset or a failed Save kept off the disk
    crashes, saveFails, errors, resets   \* history: faults so far

jobVars   == <<running, status, spec, pc, mem, todo>>
diskVars  == <<file, tmp>>
faultVars == <<forgotten, crashes, saveFails, errors, resets>>
vars      == <<jobVars, diskVars, performed, client, faultVars>>

-----------------------------------------------------------------------------
(* Values *)

NoSpec   == [cfg |-> None, mods |-> {}, reset |-> FALSE]
Specs    == [cfg : Cfgs, mods : SUBSET Modules, reset : BOOLEAN]
Statuses == {"none", "running", "completed", "failed", "lost"}
Active   == {"load", "pick", "save", "write", "rename", "clear"}
PCs      == Active \cup {"absent", "done"}

\* The content of a file: a complete image of a state, or what is left of
\* one (a write cut short, or no file at all), which no reader can parse.
Images       == [whole : BOOLEAN, marks : SUBSET Marks]
Image(marks) == [whole |-> TRUE, marks |-> marks]
Torn         == [whole |-> FALSE, marks |-> {}]

\* One HTTP request: a start that found the slot taken ("busy", then
\* "refused") or a status poll ("found", "snapped", then "answered").
Idle   == [pc |-> "idle", job |-> None, status |-> "none", stages |-> {}]
RequestIn(pcs, jobs) ==
    [pc     : pcs,
     job    : jobs,
     status : Statuses \cup {"mixed"},
     stages : SUBSET Modules]
Requests ==
    RequestIn({"idle", "busy", "refused"}, Jobs \cup {None})
      \cup RequestIn({"found", "snapped", "answered"}, Jobs)

\* Mistake: the selection is taken as it is, without vc for compliance.
NormalizeBare(req) == IF req = {} THEN Modules ELSE req

\* seedNormalizeModules: no selection means every module; compliance pulls
\* in vc.  They run in the order of Order whatever the request says.
Normalize(req) ==
    IF req = {} THEN Modules
    ELSE req \cup (IF Compliance \in req THEN {Vc} ELSE {})

\* LoadSeedState: a missing or unreadable file is an empty state.
Parsed(image) == IF image.whole THEN image.marks ELSE {}

\* The goroutine's name space: UsePrefix(plan.ConfigHash).
Key(j, m)    == <<spec[j].cfg, m>>
IsDone(j, m) == Key(j, m) \in mem[j]

\* There is nothing to do for m: it is marked, or its section of the plan is
\* empty, for which no mark is ever made.
Passed(j, m) == IsDone(j, m) \/ m \notin Planned[spec[j].cfg]

\* The loop over the selected modules has come to m.
IsNext(j, m) == m \in todo[j] /\ \A n \in todo[j] \ {m} : Precedes(m, n)

-----------------------------------------------------------------------------
TypeOK ==
    /\ running \in Jobs \cup {None}
    /\ status \in [Jobs -> Statuses]
    /\ spec \in [Jobs -> Specs \cup {NoSpec}]
    /\ pc \in [Jobs -> PCs]
    /\ mem \in [Jobs -> SUBSET Marks]
    /\ todo \in [Jobs -> SUBSET Modules]
    /\ file \in Images
    /\ tmp \in Images
    /\ performed \in [Marks -> Nat]
    /\ client \in [Clients -> Requests]
    /\ forgotten \in SUBSET Jobs
    /\ crashes \in Nat /\ saveFails \in Nat /\ errors \in Nat /\ resets \in Nat

Init ==
    /\ running = None
    /\ status = [j \in Jobs |-> "none"]
    /\ spec = [j \in Jobs |-> NoSpec]
    /\ pc = [j \in Jobs |-> "absent"]
    /\ mem = [j \in Jobs |-> {}]
    /\ todo = [j \in Jobs |-> {}]
    /\ file = Image({})
    /\ tmp = Torn
    /\ performed = [k \in Marks |-> 0]
    /\ client = [c \in Clients |-> Idle]
    /\ forgotten = {}
    /\ crashes = 0 /\ saveFails = 0 /\ errors = 0 /\ resets = 0

-----------------------------------------------------------------------------
(* Mistakes: variants of the actions below that a slip in the code would    *)
(* produce.  No specification uses them; the properties must refute them.  *)

\* The slot is not checked.
StartUnchecked(j, cfg, req, reset) ==
    /\ status[j] = "none"
    /\ running' = j
    /\ status' = [status EXCEPT ![j] = "running"]
    /\ spec' = [spec EXCEPT ![j] =
                   [cfg |-> cfg, mods |-> Normalize(req), reset |-> reset]]
    /\ pc' = [pc EXCEPT ![j] = "load"]
    /\ todo' = [todo EXCEPT ![j] = Normalize(req)]
    /\ UNCHANGED <<mem, diskVars, performed, client, faultVars>>

\* The job starts from an empty state although no reset was asked for.
LoadNothing(j) ==
    /\ pc[j] = "load"
    /\ pc' = [pc EXCEPT ![j] = "pick"]
    /\ UNCHANGED <<running, status, spec, mem, todo, diskVars, performed,
                   client, faultVars>>

\* The module is marked done even when it fails.
FailMarked(j) ==
    /\ pc[j] = "pick"
    /\ errors < MaxErrors
    /\ errors' = errors + 1
    /\ \E m \in Modules : /\ IsNext(j, m)
                          /\ mem' = [mem EXCEPT ![j] = @ \cup {Key(j, m)}]
    /\ status' = [status EXCEPT ![j] = "failed"]
    /\ pc' = [pc EXCEPT ![j] = "clear"]
    /\ UNCHANGED <<running, spec, todo, diskVars, performed, client,
                   forgotten, crashes, saveFails, resets>>

\* The deferred recover publishes the failure but does not free the slot.
FailHolding(j) ==
    /\ pc[j] = "pick"
    /\ todo[j] # {}
    /\ errors < MaxErrors
    /\ errors' = errors + 1
    /\ status' = [status EXCEPT ![j] = "failed"]
    /\ pc' = [pc EXCEPT ![j] = "done"]
    /\ UNCHANGED <<running, spec, mem, todo, diskVars, performed, client,
                   forgotten, crashes, saveFails, resets>>

\* The slot is freed before the outcome is published.
CompleteUnpublished(j) ==
    /\ pc[j] = "pick"
    /\ todo[j] = {}
    /\ running' = None
    /\ pc' = [pc EXCEPT ![j] = "clear"]
    /\ UNCHANGED <<status, spec, mem, todo, diskVars, performed, client,
                   faultVars>>

\* The state file itself is truncated and filled, without a temporary file.
SaveInPlace(j) ==
    /\ pc[j] = "save"
    /\ file' = Torn
    /\ pc' = [pc EXCEPT ![j] = "write"]
    /\ UNCHANGED <<running, status, spec, mem, todo, tmp, performed, client,
                   faultVars>>

\* The temporary file is written but never renamed.
SaveUnrenamed(j) ==
    /\ pc[j] = "rename"
    /\ forgotten' = forgotten \ {j}
    /\ pc' = [pc EXCEPT ![j] = "pick"]
    /\ UNCHANGED <<running, status, spec, mem, todo, diskVars, performed,
                   client, crashes, saveFails, errors, resets>>

-----------------------------------------------------------------------------
(* POST /api/tool/seed *)

\* The slot is free: register the job and launch its goroutine, all under
\* jobsMu.
Start(j, cfg, req, reset) ==
    /\ running = None
    /\ status[j] = "none"
    /\ running' = j
    /\ status' = [status EXCEPT ![j] = "running"]
    /\ spec' = [spec EXCEPT ![j] =
                   [cfg |-> cfg, mods |-> Normalize(req), reset |-> reset]]
    /\ pc' = [pc EXCEPT ![j] = "load"]
    /\ todo' = [todo EXCEPT ![j] = Normalize(req)]
    /\ UNCHANGED <<mem, diskVars, performed, client, faultVars>>

\* The slot is taken: the holder's status is read under jobsMu, while the
\* goroutine writes it under job.mu.  The read races the write and may get the
\* pointer of one string with the length of the other.
StartBusy(c) ==
    /\ client[c].pc = "idle"
    /\ running # None
    /\ \E seen \in {status[running]}
                   \cup (IF status[running] = "running" THEN {"mixed"} ELSE {}) :
          client' = [client EXCEPT ![c] =
                        [Idle EXCEPT !.pc = "busy", !.status = seen]]
    /\ UNCHANGED <<jobVars, diskVars, performed, faultVars>>

\* ... and the 409 message reads h.runningID again after the unlock.
StartRefused(c) ==
    /\ client[c].pc = "busy"
    /\ client' = [client EXCEPT ![c].pc = "refused", ![c].job = running]
    /\ UNCHANGED <<jobVars, diskVars, performed, faultVars>>

-----------------------------------------------------------------------------
(* The job's goroutine *)

\* LoadSeedState, then Reset (with its Save) when the request asked for it.
Load(j) ==
    /\ pc[j] = "load"
    /\ IF spec[j].reset
       THEN /\ mem' = [mem EXCEPT ![j] = {}]
            /\ pc' = [pc EXCEPT ![j] = "save"]
            /\ resets' = resets + 1
            /\ forgotten' = forgotten \cup ({k \in Jobs : status[k] # "none"} \ {j})
       ELSE /\ mem' = [mem EXCEPT ![j] = Parsed(file)]
            /\ pc' = [pc EXCEPT ![j] = "pick"]
            /\ UNCHANGED <<resets, forgotten>>
    /\ UNCHANGED <<running, status, spec, todo, diskVars, performed, client,
                   crashes, saveFails, errors>>

\* The next module has work that is not marked: carry it out, Mark, then Save.
Perform(j) ==
    /\ pc[j] = "pick"
    /\ \E m \in Modules :
          /\ IsNext(j, m)
          /\ ~Passed(j, m)
          /\ performed' = [performed EXCEPT ![Key(j, m)] = @ + 1]
          /\ mem' = [mem EXCEPT ![j] = @ \cup {Key(j, m)}]
    /\ pc' = [pc EXCEPT ![j] = "save"]
    /\ UNCHANGED <<running, status, spec, todo, diskVars, client, faultVars>>

\* The next module is marked or empty: leave it, with the Save that ends a module.
EndModule(j) ==
    /\ pc[j] = "pick"
    /\ \E m \in Modules :
          /\ IsNext(j, m)
          /\ Passed(j, m)
          /\ todo' = [todo EXCEPT ![j] = @ \ {m}]
    /\ pc' = [pc EXCEPT ![j] = "save"]
    /\ UNCHANGED <<running, status, spec, mem, diskVars, performed, client,
                   faultVars>>

\* A module returns an error or panics: the job is failed, in the error
\* branch or in the deferred recover.
Fail(j) ==
    /\ pc[j] = "pick"
    /\ todo[j] # {}
    /\ errors < MaxErrors
    /\ errors' = errors + 1
    /\ status' = [status EXCEPT ![j] = "failed"]
    /\ pc' = [pc EXCEPT ![j] = "clear"]
    /\ UNCHANGED <<running, spec, mem, todo, diskVars, performed, client,
                   forgotten, crashes, saveFails, resets>>

Complete(j) ==
    /\ pc[j] = "pick"
    /\ todo[j] = {}
    /\ status' = [status EXCEPT ![j] = "completed"]
    /\ pc' = [pc EXCEPT ![j] = "clear"]
    /\ UNCHANGED <<running, spec, mem, todo, diskVars, performed, client,
                   faultVars>>

\* A second critical section frees the slot.
Clear(j) ==
    /\ pc[j] = "clear"
    /\ running' = IF running = j THEN None ELSE running
    /\ pc' = [pc EXCEPT ![j] = "done"]
    /\ UNCHANGED <<status, spec, mem, todo, diskVars, performed, client,
                   faultVars>>

(* SeedState.Save: create the temporary file, fill it, rename it. *)

SaveOpen(j) ==
    /\ pc[j] = "save"
    /\ tmp' = Torn
    /\ pc' = [pc EXCEPT ![j] = "write"]
    /\ UNCHANGED <<running, status, spec, mem, todo, file, performed, client,
                   faultVars>>

SaveWrite(j) ==
    /\ pc[j] = "write"
    /\ tmp' = Image(mem[j])
    /\ pc' = [pc EXCEPT ![j] = "rename"]
    /\ UNCHANGED <<running, status, spec, mem, todo, file, performed, client,
                   faultVars>>

SaveRename(j) ==
    /\ pc[j] = "rename"
    /\ file' = tmp
    /\ tmp' = Torn
    /\ forgotten' = forgotten \ {j}
    /\ pc' = [pc EXCEPT ![j] = "pick"]
    /\ UNCHANGED <<running, status, spec, mem, todo, performed, client,
                   crashes, saveFails, errors, resets>>

\* Save returns an error, which every caller ignores.
SaveFail(j) ==
    /\ pc[j] \in {"save", "write", "rename"}
    /\ saveFails < MaxSaveFails
    /\ saveFails' = saveFails + 1
    /\ forgotten' = forgotten \cup {j}
    /\ pc' = [pc EXCEPT ![j] = "pick"]
    /\ UNCHANGED <<running, status, spec, mem, todo, diskVars, performed,
                   client, crashes, errors, resets>>

-----------------------------------------------------------------------------
(* GET /api/tool/seed/status/:id *)

\* Look the job up under jobsMu.
StatusLookup(c, j) ==
    /\ client[c].pc = "idle"
    /\ status[j] \notin {"none", "lost"}
    /\ client' = [client EXCEPT ![c] = [Idle EXCEPT !.pc = "found", !.job = j]]
    /\ UNCHANGED <<jobVars, diskVars, performed, faultVars>>

\* Copy the job's fields under job.mu ...
StatusSnapshot(c) ==
    /\ client[c].pc = "found"
    /\ client' = [client EXCEPT ![c].pc = "snapped",
                                ![c].status = status[client[c].job]]
    /\ UNCHANGED <<jobVars, diskVars, performed, faultVars>>

\* ... then read the finished stages of the job's name space from the file.
StatusStages(c) ==
    /\ client[c].pc = "snapped"
    /\ client' = [client EXCEPT ![c].pc = "answered", ![c].stages =
          {m \in Modules : <<spec[client[c].job].cfg, m>> \in Parsed(file)}]
    /\ UNCHANGED <<jobVars, diskVars, performed, faultVars>>

Answer(c) ==
    /\ client[c].pc \in {"refused", "answered"}
    /\ client' = [client EXCEPT ![c] = Idle]
    /\ UNCHANGED <<jobVars, diskVars, performed, faultVars>>

-----------------------------------------------------------------------------
\* The process dies and is started again: every goroutine, job and request
\* is gone, the two files stay as they are.
Crash ==
    /\ crashes < MaxCrashes
    /\ crashes' = crashes + 1
    /\ running' = None
    /\ status' = [j \in Jobs |-> IF status[j] = "none" THEN "none" ELSE "lost"]
    /\ pc' = [j \in Jobs |-> "absent"]
    /\ mem' = [j \in Jobs |-> {}]
    /\ todo' = [j \in Jobs |-> {}]
    /\ client' = [c \in Clients |-> Idle]
    /\ UNCHANGED <<spec, diskVars, performed, forgotten, saveFails, errors,
                   resets>>

-----------------------------------------------------------------------------
Save(j) == SaveOpen(j) \/ SaveWrite(j) \/ SaveRename(j) \/ SaveFail(j)

Goroutine(j) ==
    \/ Load(j) \/ Perform(j) \/ EndModule(j) \/ Fail(j) \/ Complete(j)
    \/ Clear(j) \/ Save(j)

Request(c) ==
    \/ StartBusy(c) \/ StartRefused(c)
    \/ \E j \in Jobs : StatusLookup(c, j)
    \/ StatusSnapshot(c) \/ StatusStages(c) \/ Answer(c)

Next ==
    \/ \E j \in Jobs, cfg \in Cfgs, req \in SUBSET Modules, reset \in BOOLEAN :
           Start(j, cfg, req, reset)
    \/ \E j \in Jobs : Goroutine(j)
    \/ \E c \in Clients : Request(c)
    \/ Crash

Spec == Init /\ [][Next]_vars

\* The goroutine keeps running: every blocking call it makes has a timeout
\* (HTTP client 30 s, WaitForTransaction 30 s) and every retry loop a bound.
FairSpec == Spec /\ \A j \in Jobs : WF_vars(Goroutine(j))

-----------------------------------------------------------------------------
(* Properties *)

\* "Only one at a time" (seed_handler.go:22): no two goroutines of this
\* process are between their launch and the release of the slot, and the
\* slot names exactly the one that is.
SingleRunner ==
    /\ \A j, k \in Jobs : pc[j] \in Active /\ pc[k] \in Active => j = k
    /\ \A j \in Jobs : pc[j] \in Active <=> running = j

\* The slot is released only after the outcome is published: when the slot
\* is free no job in memory still reads "running", so a client that may start
\* the next job never sees two running ones.
FreeMeansSettled == running = None => \A j \in Jobs : status[j] # "running"

\* The slot, read at any moment, tells the truth both ways: it names the one
\* goroutine that may touch the chain and the state file, and when it is free
\* every job of this process has its outcome published.
SlotExact == SingleRunner /\ FreeMeansSettled

\* Save goes through tmp + rename: no reader, and no restart, meets a
\* half-written state file, whatever write a crash or an error cut short.
FileWhole == file.whole

\* A mark is a fact about the chain: every mark on disk or in a goroutine
\* was carried out at least once, across crashes, resets and name spaces.
MarkedWasPerformed ==
    \A k \in Marks :
        \/ performed[k] > 0
        \/ k \notin Parsed(file) /\ \A j \in Jobs : k \notin mem[j]

\* Resume skips what is done (API.md:2731): a module is carried out again
\* only if a crash, a failed Save or a reset lost its mark.
RepeatNeedsLoss ==
    \A k \in Marks : performed[k] <= 1 + crashes + saveFails + resets

\* vc precedes compliance (seedNormalizeModules): whenever a goroutine has
\* carried out compliance, vc is marked in the same name space.
VcBeforeCompliance ==
    \A j \in Jobs : \A cfg \in Cfgs :
        <<cfg, Compliance>> \in mem[j] => <<cfg, Vc>> \in mem[j]

\* The status answer is read in an order that never under-reports: an answer
\* "completed" lists every module of the job that its plan has work for, unless a
\* reset or a failed Save dropped the job's marks.
CompletedListsAll ==
    \A c \in Clients :
        client[c].pc = "answered" /\ client[c].status = "completed" =>
            \/ client[c].job \in forgotten
            \/ LET s == spec[client[c].job]
               IN  s.mods \cap Planned[s.cfg] \subseteq client[c].stages

\* Name spaces do not mix (2026-10-19-seed-builder-v2-design.md:110): outside
\* a reset, a write of the state file changes only marks of the configuration
\* of the job holding the slot.
NamespaceKept ==
    [][\A k \in Marks :
          (k \in Parsed(file)) # (k \in Parsed(file')) =>
              \/ k[1] = spec[running].cfg
              \/ spec[running].reset]_vars

\* Without resets the marks on disk only grow: no job, error or crash undoes
\* the progress an earlier job recorded.
ProgressKept ==
    [][resets = 0 => Parsed(file) \subseteq Parsed(file')]_vars

\* A started job always ends, by success, failure or panic, and each of the
\* three ways gives the slot back: no job locks the service for good.
SlotFreed == running # None ~> running = None

\* The job and its state file implement the abstract service: the three steps
\* of Save are one commit, at the rename, and everything else leaves the ledger
\* alone.
Ledger == INSTANCE SeedLedger WITH
    slot <- running, outcome <- status, ledger <- Parsed(file)

ImplementsLedger == Ledger!Spec
=============================================================================
