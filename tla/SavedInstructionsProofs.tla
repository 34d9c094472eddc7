---------------------- MODULE SavedInstructionsProofs ----------------------
(***************************************************************************)
(* Proofs about SavedInstructions for any sets of clients and ids and any  *)
(* bodies a PUT may carry.  The properties follow from one inductive       *)
(* invariant, IInv, made of the type invariant and four parts: what a      *)
(* process that is not up holds (Stopped), what the holder of the lock has *)
(* marshalled (Buffered), where keys can be (Keys) and the three           *)
(* properties that relate the file to the memory.                          *)
(***************************************************************************)
EXTENDS SavedInstructions, TLAPS

\* A process that is not up has no request; one that is down has no memory.
Stopped ==
  /\ service # "up" => req = [c \in Clients |-> NoRequest]
  /\ service = "down" => items = {}

\* An update has assigned to the instruction and is not saving it yet.
Unsaved(id) ==
  \E c \in Clients : /\ req[c].id = id
                     /\ req[c].pc \in {"args", "assigned", "scrubbed"}

\* What is being saved lists the map, and each instruction as it is in memory
\* except for what updates have assigned meanwhile: those save after this one.
Buffered ==
  /\ lock # Nobody => Listed(buf) = items
  /\ save = "marshal" => \A id \in items : buf[id].args = obj[id].args \/ Unsaved(id)
  /\ save = "write" => \A id \in items : buf[id] = obj[id] \/ Unsaved(id)

\* The instruction of the request that holds the lock is listed or removed.
Placed ==
  \A c \in Clients : /\ req[c].pc = "deleting" => req[c].id \notin items
                     /\ req[c].pc = "creating" => req[c].id \in items

\* Keys are in the memory, in the buffer and in the file only for updates that
\* have not saved the stripped instruction.
Keys ==
  /\ \A id \in Ids : obj[id].key => \E c \in Clients : Keyed(c, id, {"assigned"})
  /\ save = "write" => \A id \in items : buf[id].key =>
       \E c \in Clients : Keyed(c, id, {"assigned", "scrubbed"})
  /\ DiskScrubbed

\* Answered creations are in every process that serves or loads.
Kept ==
  \A id \in acked : /\ whole => disk[id] # None
                    /\ service # "down" => id \in items

\* Answered deletions are final because nobody holds the pointer.
Final ==
  \A id \in gone : id \notin items /\ disk[id] = None /\ ~ Held(id)

\* Only ids that were drawn are in use.
Drawn ==
  /\ items \subseteq drawn /\ Listed(disk) \subseteq drawn
  /\ \A c \in Clients : req[c].pc # "idle" => req[c].id \in drawn

IInv ==
  /\ TypeOK
  /\ Stopped
  /\ Drawn
  /\ Buffered
  /\ Placed
  /\ Keys
  /\ DiskInStep
  /\ Kept
  /\ Final
-----------------------------------------------------------------------------
LEMMA ScrubType == ASSUME NEW i \in Item
                   PROVE  Scrubbed(i) \in Item /\ ~ Scrubbed(i).key
BY DEF Scrubbed, Item

LEMMA BlankType == Blank \in [Ids -> Item] /\ NoBuffer \in Image
BY DEF Blank, NoBuffer, Item, Image, Writers

LEMMA NoRequestPc == NoRequest \in Request /\ NoRequest.pc = "idle"
BY DEF NoRequest, Request

LEMMA ActiveRequest ==
  ASSUME TypeOK, NEW c \in Clients, req[c].pc # "idle"
  PROVE  req[c] \in [pc: Stages, id: Ids, what: SUBSET Parts]
BY NoRequestPc DEF TypeOK, Request

LEMMA InitIInv == Init => IInv
<1> SUFFICES ASSUME Init PROVE IInv
  OBVIOUS
<1>1. TypeOK
  <2>1. disk \in Image
    BY DEF Init, Image, Item, Writers
  <2>2. Listed(disk) \subseteq Ids
    BY DEF Listed
  <2>3. QED
    BY <2>1, <2>2, BlankType, NoRequestPc, NamesDiffer DEF Init, TypeOK, Holding
<1>2. Stopped /\ Buffered /\ Placed /\ Keys
  <2>1. \A id \in Ids : ~ obj[id].key
    BY DEF Init, Blank
  <2>2. QED
    BY <2>1, NoRequestPc DEF Init, Stopped, Buffered, Placed, Keys, DiskScrubbed
<1>3. DiskInStep /\ Kept /\ Final
  BY DEF Init, DiskInStep, Kept, Final
<1>4. Drawn
  BY NoRequestPc DEF Init, Drawn
<1>5. QED
  BY <1>1, <1>2, <1>3, <1>4 DEF IInv
-----------------------------------------------------------------------------
(* The type invariant. *)

LEMMA AcquireType ==
  ASSUME TypeOK, NEW c \in Clients, NEW id \in Ids,
         NEW pc \in Holding, NEW kept \in SUBSET Ids,
         Acquire(c, id, pc, kept), obj' \in [Ids -> Item],
         drawn' \subseteq Ids, acked' \subseteq drawn', drawn \subseteq drawn',
         req[c].pc \notin Holding
  PROVE  TypeOK'
<1>1. buf' \in Image
  BY DEF Acquire, Image
<1>2. req[c].what \in SUBSET Parts
  BY DEF TypeOK, Request, NoRequest
<1> DEFINE r == [pc |-> pc, id |-> id, what |-> req[c].what]
<1>3. req' = [req EXCEPT ![c] = r]
  BY DEF Acquire
<1>4. r \in Request
  BY <1>2 DEF Request, Stages
<1>5. \A x \in Clients : req'[x].pc \in Holding <=> lock' = x
  BY <1>3, NamesDiffer DEF TypeOK, Acquire
<1>6. QED
  BY <1>1, <1>3, <1>4, <1>5, NamesDiffer DEF TypeOK, Acquire, file

LEMMA MutateType ==
  ASSUME TypeOK, NEW c \in Clients, NEW from, NEW to \in Stages \ Holding,
         from \notin Holding, from # "idle",
         NEW item \in Item, Mutate(c, from, to, item)
  PROVE  TypeOK'
<1> DEFINE r == [req[c] EXCEPT !.pc = to]
<1>1. req' = [req EXCEPT ![c] = r] /\ r \in Request /\ r.pc = to
  BY ActiveRequest DEF Mutate, TypeOK, Request
<1>2. \A x \in Clients : req'[x].pc \in Holding <=> lock' = x
  BY <1>1 DEF TypeOK, Mutate, saving
<1>3. obj' \in [Ids -> Item]
  BY DEF TypeOK, Mutate
<1>4. QED
  BY <1>1, <1>2, <1>3 DEF TypeOK, Mutate, saving, file, history

\* A step that only replaces one request outside the lock.
LEMMA RequestType ==
  ASSUME TypeOK, NEW c \in Clients, NEW r \in Request,
         req[c].pc \notin Holding, r.pc \notin Holding,
         req' = [req EXCEPT ![c] = r],
         UNCHANGED <<service, memory, saving, file, history>>
  PROVE  TypeOK'
<1>1. \A x \in Clients : req'[x].pc \in Holding <=> lock' = x
  BY DEF TypeOK, saving
<1>2. QED
  BY <1>1 DEF TypeOK, memory, saving, file, history

LEMMA ReleaseType ==
  ASSUME TypeOK, NEW up \in BOOLEAN, Release(up), lock # Nobody,
         whole' \in BOOLEAN, disk' \in Image, dirty' \in BOOLEAN,
         acked' \subseteq drawn, gone' \subseteq drawn,
         service = "up" \/ service = "booting"
  PROVE  TypeOK'
<1>1. req' \in [Clients -> Request]
  BY NoRequestPc DEF TypeOK, Release
<1>2. \A x \in Clients : req'[x].pc \in Holding <=> lock' = x
  BY NoRequestPc, NamesDiffer DEF TypeOK, Release, Holding
<1>3. service' \in {"down", "up"} /\ lock' = Nobody
  BY DEF TypeOK, Release
<1>4. QED
  BY <1>1, <1>2, <1>3, BlankType, NamesDiffer DEF TypeOK, Release

LEMMA HandlerType ==
  ASSUME TypeOK, NEW c \in Clients, Handler(c)
  PROVE  TypeOK'
<1> USE NoRequestPc
<1>1. CASE Create(c)
  <2>1. PICK id \in Ids \ drawn :
          /\ req[c].pc = "idle"
          /\ obj' = [obj EXCEPT ![id] = [args |-> c, key |-> FALSE]]
          /\ Acquire(c, id, "creating", items \union {id})
          /\ drawn' = drawn \union {id}
          /\ UNCHANGED acked
    BY <1>1 DEF Create
  <2>2. obj' \in [Ids -> Item]
    BY <2>1 DEF TypeOK, Item, Writers
  <2>3. "creating" \in Holding /\ req[c].pc \notin Holding
    BY <2>1 DEF Holding
  <2>4. /\ items \union {id} \in SUBSET Ids /\ drawn' \subseteq Ids
        /\ acked' \subseteq drawn' /\ drawn \subseteq drawn'
    BY <2>1 DEF TypeOK
  <2>5. QED
    BY <2>1, <2>2, <2>3, <2>4, AcquireType
<1>2. CASE Fetch(c)
  <2>1. PICK id \in items, what \in Bodies :
          req' = [req EXCEPT ![c] = [pc |-> "fetched", id |-> id, what |-> what]]
    BY <1>2 DEF Fetch
  <2> DEFINE r == [pc |-> "fetched", id |-> id, what |-> what]
  <2>2. r \in Request
    BY <2>1, SomeBodies DEF Request, Stages, Updating, TypeOK
  <2>3. QED
    BY <1>2, <2>1, <2>2, RequestType DEF Fetch, Holding
<1>3. CASE Check(c) \/ SendBegin(c)
  <2>1. PICK id \in items, pc \in {"checked", "sending"} :
          req' = [req EXCEPT ![c] = [pc |-> pc, id |-> id, what |-> {}]]
    BY <1>3 DEF Check, SendBegin
  <2> DEFINE r == [pc |-> pc, id |-> id, what |-> {}]
  <2>2. r \in Request
    BY <2>1 DEF Request, Stages, TypeOK
  <2>3. QED
    BY <1>3, <2>1, <2>2, RequestType DEF Check, SendBegin, Holding
<1>4. CASE BadBody(c) \/ SendFill(c)
  BY <1>4, RequestType DEF BadBody, SendFill, Holding
<1>5. CASE AssignArgs(c)
  <2>1. req[c].id \in Ids
    BY <1>5, ActiveRequest DEF AssignArgs, Mutate
  <2>2. [obj[req[c].id] EXCEPT !.args = IF "args" \in req[c].what THEN c ELSE @] \in Item
    BY <2>1 DEF TypeOK, Item, Writers
  <2>3. QED
    BY <1>5, <2>2, MutateType DEF AssignArgs, Stages, Updating, Holding
<1>6. CASE AssignKeys(c)
  <2>1. req[c].id \in Ids
    BY <1>6, ActiveRequest DEF AssignKeys, Mutate
  <2>2. [obj[req[c].id] EXCEPT !.key = @ \/ "key" \in req[c].what] \in Item
    BY <2>1 DEF TypeOK, Item
  <2>3. QED
    BY <1>6, <2>2, MutateType DEF AssignKeys, Stages, Updating, Holding
<1>7. CASE Scrub(c)
  <2>1. req[c].id \in Ids
    BY <1>7, ActiveRequest DEF Scrub, Mutate
  <2>2. Scrubbed(obj[req[c].id]) \in Item
    BY <2>1, ScrubType DEF TypeOK
  <2>3. QED
    BY <1>7, <2>2, MutateType DEF Scrub, Stages, Updating, Holding
<1>8. CASE StoreUpdate(c)
  <2>1. req[c].id \in Ids
    BY <1>8, ActiveRequest DEF StoreUpdate
  <2>2. "updating" \in Holding /\ req[c].pc \notin Holding
    BY <1>8 DEF StoreUpdate, Holding
  <2>3. QED
    BY <1>8, <2>1, <2>2, AcquireType DEF StoreUpdate, TypeOK
<1>9. CASE Remove(c)
  <2>1. req[c].id \in Ids
    BY <1>9, ActiveRequest DEF Remove
  <2>2. "deleting" \in Holding /\ req[c].pc \notin Holding
    BY <1>9 DEF Remove, Holding
  <2>3. QED
    BY <1>9, <2>1, <2>2, AcquireType DEF Remove, TypeOK
<1>10. QED
  BY <1>1, <1>2, <1>3, <1>4, <1>5, <1>6, <1>7, <1>8, <1>9 DEF Handler

LEMMA SaveCases ==
  ASSUME TypeOK, Stopped
  PROVE  /\ service = "down" => lock = Nobody
         /\ save # "none" => \/ service = "booting" /\ lock = Boot
                             \/ service = "up" /\ lock \in Clients
<1>1. service # "up" => lock \notin Clients
  BY NoRequestPc DEF TypeOK, Stopped, Holding
<1>2. QED
  BY <1>1, NamesDiffer DEF TypeOK

LEMMA TypeStep == TypeOK /\ Stopped /\ Drawn /\ [Next]_vars => TypeOK'
<1> SUFFICES ASSUME TypeOK, Stopped, Drawn, [Next]_vars PROVE TypeOK'
  OBVIOUS
<1>1. CASE Load
  <2> DEFINE image == [id \in Ids |-> IF disk[id] = None THEN Blank[id]
                                                       ELSE Scrubbed(disk[id])]
  <2>1. image \in [Ids -> Item]
    BY ScrubType, BlankType DEF TypeOK, Image
  <2>2. Listed(disk) \subseteq Ids
    BY DEF Listed
  <2>3. obj' = image /\ items' = Listed(disk)
    BY <1>1 DEF Load
  <2>4. lock = Nobody
    BY <1>1, SaveCases DEF Load
  <2>5. CASE \E id \in Listed(disk) : disk[id].key
    <3>1. buf' = [id \in Ids |-> IF disk[id] = None THEN None ELSE obj'[id]]
      BY <1>1, <2>5 DEF Load
    <3>2. buf' \in Image
      BY <3>1, <2>1, <2>3 DEF Image
    <3>3. service' = "booting" /\ lock' = Boot /\ save' = "marshal"
      BY <1>1, <2>5 DEF Load
    <3>4. QED
      BY <1>1, <3>2, <3>3, <2>1, <2>2, <2>3, <2>4, NamesDiffer DEF Load, TypeOK, file
  <2>6. CASE ~ \E id \in Listed(disk) : disk[id].key
    BY <1>1, <2>1, <2>2, <2>3, <2>4, <2>6, NamesDiffer DEF Load, TypeOK, file, saving
  <2>7. QED
    BY <2>5, <2>6
<1>2. CASE Crash
  BY <1>2, BlankType, NoRequestPc, NamesDiffer
     DEF Crash, TypeOK, file, history, Holding
<1>3. ASSUME NEW c \in Clients, Handler(c) PROVE TypeOK'
  BY <1>3, HandlerType
<1>4. CASE Marshal
  <2>1. buf' \in Image
    <3>1. ASSUME NEW id \in Ids, buf[id] # None
          PROVE  [obj[id] EXCEPT !.args = buf[id].args] \in Item
      BY <3>1 DEF TypeOK, Image, Item
    <3>2. QED
      BY <1>4, <3>1 DEF Marshal, Image
  <2>2. disk' \in Image
    BY <1>4 DEF Marshal, Image
  <2>3. QED
    BY <1>4, <2>1, <2>2 DEF Marshal, TypeOK, memory, history
<1>5. CASE Write
  <2>1. lock # Nobody /\ (service = "up" \/ service = "booting")
    BY <1>5, SaveCases, NamesDiffer DEF Write, TypeOK
  <2>2. \A id \in Ids, pc \in Holding : HolderIs(pc, id) => id \in drawn
    BY DEF HolderIs, Drawn, Holding
  <2>3. acked' \subseteq drawn /\ gone' \subseteq drawn
    BY <1>5, <2>2 DEF Write, TypeOK, Holding
  <2>4. Release(TRUE) /\ whole' \in BOOLEAN /\ disk' \in Image /\ dirty' \in BOOLEAN
    BY <1>5 DEF Write, TypeOK
  <2>5. QED
    BY <2>1, <2>3, <2>4, ReleaseType
<1>6. CASE SaveFail
  <2>1. lock # Nobody /\ (service = "up" \/ service = "booting")
    BY <1>6, SaveCases, NamesDiffer DEF SaveFail, TypeOK
  <2>2. /\ Release(FALSE) /\ whole' \in BOOLEAN /\ disk' \in Image /\ dirty' \in BOOLEAN
        /\ acked' \subseteq drawn /\ gone' \subseteq drawn
    BY <1>6 DEF SaveFail, TypeOK, file
  <2>3. QED
    BY <2>1, <2>2, ReleaseType
<1>7. CASE UNCHANGED vars
  BY <1>7 DEF vars, memory, saving, file, history, TypeOK
<1>8. QED
  BY <1>1, <1>2, <1>3, <1>4, <1>5, <1>6, <1>7 DEF Next
-----------------------------------------------------------------------------
(* The other parts of the invariant. *)

Rest == Stopped /\ Drawn /\ Buffered /\ Placed /\ Keys /\ DiskInStep /\ Kept /\ Final

\* A request begins or ends without having touched an instruction.
LEMMA RequestRest ==
  ASSUME IInv, NEW c \in Clients, NEW r \in Request, service = "up",
         req[c].pc \in {"idle", "fetched", "checked", "sending"},
         r.pc \in {"idle", "fetched", "checked", "sending"},
         r.pc # "idle" => r.id \in items,
         req' = [req EXCEPT ![c] = r],
         UNCHANGED <<service, memory, saving, file, history>>
  PROVE  Rest'
<1> USE DEF IInv, memory, saving, file, history
<1>1. \A x \in Clients : x # c => req'[x] = req[x]
  BY DEF TypeOK
<1>2. req'[c] = r
  BY DEF TypeOK
<1>3. Stopped' /\ Drawn'
  BY <1>1, <1>2 DEF Stopped, Drawn
<1>4. \A id \in Ids : Unsaved(id) => Unsaved(id)'
  BY <1>1 DEF Unsaved
<1>5. Buffered' /\ DiskInStep'
  <2>1. Listed(buf)' = Listed(buf) /\ Listed(disk)' = Listed(disk)
    BY DEF Listed
  <2>2. items \subseteq Ids
    BY DEF TypeOK
  <2>3. Buffered'
    BY <1>4, <2>1, <2>2 DEF Buffered
  <2>4. DiskInStep'
    BY <1>4, <2>1, <2>2 DEF DiskInStep, Unsaved
  <2>5. QED
    BY <2>3, <2>4
<1>6. Placed'
  BY <1>1, <1>2 DEF Placed
<1>7. Keys'
  <2>1. ASSUME NEW x \in Clients, NEW id \in Ids,
               NEW stages \in SUBSET {"assigned", "scrubbed", "updating"},
               Keyed(x, id, stages)
        PROVE  Keyed(x, id, stages)'
    BY <1>1, <2>1 DEF Keyed
  <2>2. items \subseteq Ids /\ Listed(disk) \subseteq Ids /\ Listed(disk)' = Listed(disk)
    BY DEF TypeOK, Listed
  <2>3. \A id \in Ids : obj[id].key => \E x \in Clients : Keyed(x, id, {"assigned"})'
    BY <2>1 DEF Keys
  <2>4. save = "write" => \A id \in items : buf[id].key =>
          \E x \in Clients : Keyed(x, id, {"assigned", "scrubbed"})'
    BY <2>1, <2>2 DEF Keys
  <2>5. DiskScrubbed'
    BY <2>1, <2>2 DEF Keys, DiskScrubbed
  <2>6. QED
    BY <2>3, <2>4, <2>5 DEF Keys
<1>8. Kept' /\ Final'
  <2>1. \A id \in gone : ~ Held(id)'
    BY <1>1, <1>2 DEF Held, Final, Updating
  <2>2. QED
    BY <2>1 DEF Kept, Final
<1>9. QED
  BY <1>3, <1>5, <1>6, <1>7, <1>8 DEF Rest

\* An update assigns to the instruction it holds, or strips it.
LEMMA MutateRest ==
  ASSUME IInv, NEW c \in Clients, NEW from, NEW to, NEW item \in Item,
         Mutate(c, from, to, item),
         \/ from = "fetched" /\ to = "args" /\ item.key = obj[req[c].id].key
         \/ /\ from = "args" /\ to = "assigned"
            /\ item.key => obj[req[c].id].key \/ "key" \in req[c].what
         \/ from = "assigned" /\ to = "scrubbed" /\ ~ item.key
  PROVE  Rest'
<1> USE DEF IInv, saving, file, history
<1> DEFINE i == req[c].id
<1>1. i \in Ids /\ req[c].pc = from /\ service = "up"
  BY ActiveRequest DEF Mutate
<1>2. \A x \in Clients : x # c => req'[x] = req[x]
  BY DEF Mutate, TypeOK
<1>3. req'[c].pc = to /\ req'[c].id = i /\ req'[c].what = req[c].what
  <2>1. req[c] \in [pc: Stages, id: Ids, what: SUBSET Parts]
    BY <1>1, ActiveRequest
  <2>2. req'[c] = [req[c] EXCEPT !.pc = to]
    BY DEF Mutate, TypeOK
  <2>3. QED
    BY <2>1, <2>2
<1>4. obj'[i] = item /\ \A id \in Ids : id # i => obj'[id] = obj[id]
  BY <1>1 DEF Mutate, TypeOK
<1>5. Unsaved(i)' /\ \A id \in Ids : Unsaved(id) => Unsaved(id)'
  BY <1>2, <1>3 DEF Unsaved
<1>6. Stopped' /\ Drawn'
  BY <1>1, <1>2, <1>3 DEF Stopped, Drawn, Mutate, Listed
<1>7. Buffered' /\ DiskInStep'
  <2>1. Listed(buf)' = Listed(buf) /\ Listed(disk)' = Listed(disk) /\ items \subseteq Ids
    BY DEF Listed, Mutate, TypeOK
  <2>2. Buffered'
    BY <1>4, <1>5, <2>1 DEF Buffered, Mutate
  <2>3. DiskInStep'
    BY <1>4, <1>5, <2>1 DEF DiskInStep, Unsaved, Mutate
  <2>4. QED
    BY <2>2, <2>3
<1>8. Placed'
  BY <1>1, <1>2, <1>3 DEF Placed, Mutate
<1>9. Keys'
  <2>1. ASSUME NEW x \in Clients, NEW id \in Ids, NEW stages,
               \/ stages = {"assigned", "scrubbed"}
               \/ stages = {"assigned", "scrubbed", "updating"},
               Keyed(x, id, stages)
        PROVE  Keyed(x, id, stages)'
    BY <1>1, <1>2, <1>3, <2>1 DEF Keyed
  <2>2. items \subseteq Ids /\ Listed(disk) \subseteq Ids /\ Listed(disk)' = Listed(disk)
    BY DEF TypeOK, Listed, Mutate
  <2>3. ASSUME NEW id \in Ids, obj'[id].key
        PROVE  \E x \in Clients : Keyed(x, id, {"assigned"})'
    <3>1. CASE obj[id].key /\ ~ (id = i /\ from = "assigned")
      <4>1. PICK x \in Clients : Keyed(x, id, {"assigned"})
        BY <3>1 DEF Keys
      <4>2. x # c
        BY <1>1, <3>1, <4>1 DEF Keyed
      <4>3. QED
        BY <1>2, <4>1, <4>2 DEF Keyed
    <3>2. CASE id = i /\ to = "assigned" /\ "key" \in req[c].what
      BY <1>3, <3>2 DEF Keyed
    <3>3. QED
      BY <1>4, <2>3, <3>1, <3>2
  <2>4. save = "write" => \A id \in items : buf[id].key =>
          \E x \in Clients : Keyed(x, id, {"assigned", "scrubbed"})'
    BY <2>1, <2>2 DEF Keys
  <2>5. DiskScrubbed'
    BY <2>1, <2>2 DEF Keys, DiskScrubbed, Mutate
  <2>6. QED
    BY <2>3, <2>4, <2>5 DEF Keys, Mutate
<1>10. Kept' /\ Final'
  <2>1. \A id \in Ids : Held(id)' => Held(id)
    BY <1>1, <1>2, <1>3 DEF Held, Updating
  <2>2. gone \subseteq Ids
    BY DEF TypeOK
  <2>3. QED
    BY <2>1, <2>2 DEF Kept, Final, Mutate
<1>11. QED
  BY <1>6, <1>7, <1>8, <1>9, <1>10 DEF Rest

\* A handler takes the lock, changes the map and begins to save.
LEMMA AcquireRest ==
  ASSUME IInv, NEW c \in Clients, NEW id \in Ids, NEW pc, NEW kept \in SUBSET Ids,
         Acquire(c, id, pc, kept), obj' \in [Ids -> Item],
         \/ /\ req[c].pc = "idle" /\ pc = "creating"
            /\ id \notin drawn /\ drawn' = drawn \union {id}
            /\ obj' = [obj EXCEPT ![id] = [args |-> c, key |-> FALSE]]
            /\ acked' = acked /\ kept = items \union {id}
         \/ /\ req[c].pc = "scrubbed" /\ pc = "updating" /\ id = req[c].id
            /\ UNCHANGED <<obj, drawn, acked>> /\ kept = items \union {id}
         \/ /\ req[c].pc = "checked" /\ pc = "deleting" /\ id = req[c].id
            /\ UNCHANGED <<obj, drawn>> /\ acked' = acked \ {id}
            /\ kept = items \ {id}
  PROVE  Rest'
<1> USE DEF IInv, file
<1>1. \A x \in Clients : x # c => req'[x] = req[x]
  BY DEF Acquire, TypeOK
<1>2. req'[c] = [pc |-> pc, id |-> id, what |-> req[c].what]
  BY DEF Acquire, TypeOK
<1>3. items' = kept /\ save' = "marshal" /\ lock' = c /\ service = "up" /\ service' = "up"
  BY DEF Acquire
<1>4. Stopped'
  BY <1>3 DEF Stopped
<1>5. Drawn'
  <2>1. items \subseteq drawn /\ Listed(disk)' \subseteq drawn /\ drawn \subseteq drawn'
    BY DEF Drawn, Acquire, Listed
  <2>2. id \in drawn'
    BY DEF Drawn
  <2>3. QED
    BY <1>1, <1>2, <1>3, <2>1, <2>2 DEF Drawn
<1>6. Buffered'
  <2>1. \A i \in Ids : buf'[i] = IF i \in kept THEN obj'[i] ELSE None
    BY DEF Acquire
  <2>2. \A i \in Ids : obj'[i] # None
    BY NoneIsNoItem
  <2>3. Listed(buf)' = kept
    BY <2>1, <2>2 DEF Listed
  <2>4. QED
    BY <1>3, <2>1, <2>3 DEF Buffered
<1>7. Placed'
  <2>1. \A x \in Clients : x # c => req'[x].pc \notin {"creating", "deleting"}
    BY <1>1, NamesDiffer DEF TypeOK, Acquire, Holding
  <2>2. QED
    BY <1>2, <1>3, <2>1 DEF Placed
<1>8. Keys'
  <2>1. ASSUME NEW i \in Ids, obj'[i].key
        PROVE  \E x \in Clients : Keyed(x, i, {"assigned"})'
    <3>1. obj[i].key
      BY <2>1 DEF TypeOK
    <3>2. PICK x \in Clients : Keyed(x, i, {"assigned"})
      BY <3>1 DEF Keys
    <3>3. x # c
      BY <3>2 DEF Keyed
    <3>4. QED
      BY <1>1, <3>2, <3>3 DEF Keyed
  <2>2. DiskScrubbed'
    <3>1. ASSUME NEW x \in Clients, NEW i \in Ids,
                 Keyed(x, i, {"assigned", "scrubbed", "updating"})
          PROVE  Keyed(x, i, {"assigned", "scrubbed", "updating"})'
      BY <1>1, <1>2, <3>1 DEF Keyed
    <3>2. disk' = disk /\ dirty' = dirty /\ Listed(disk)' = Listed(disk) /\ Listed(disk) \subseteq Ids
      BY DEF Acquire, Listed
    <3>3. QED
      BY <1>3, <3>1, <3>2 DEF Keys, DiskScrubbed
  <2>3. QED
    BY <1>3, <2>1, <2>2 DEF Keys
<1>9. DiskInStep'
  BY <1>3, NamesDiffer DEF DiskInStep
<1>10. Kept' /\ Final'
  <2>1. \A i \in gone : ~ Held(i)'
    BY <1>1, <1>2 DEF Final, Held, Updating, TypeOK
  <2>2. id \notin gone \/ pc = "deleting"
    BY DEF Final, Held, Updating, TypeOK
  <2>3. \A i \in gone : i \notin kept
    BY <2>2 DEF Final
  <2>4. QED
    BY <1>3, <2>1, <2>3 DEF Kept, Final, Acquire
<1>11. QED
  BY <1>4, <1>5, <1>6, <1>7, <1>8, <1>9, <1>10 DEF Rest

LEMMA HandlerRest ==
  ASSUME IInv, NEW c \in Clients, Handler(c)
  PROVE  Rest'
<1> USE NoRequestPc
<1>1. CASE Create(c)
  <2>1. PICK id \in Ids \ drawn :
          /\ req[c].pc = "idle"
          /\ obj' = [obj EXCEPT ![id] = [args |-> c, key |-> FALSE]]
          /\ Acquire(c, id, "creating", items \union {id})
          /\ drawn' = drawn \union {id}
          /\ UNCHANGED acked
    BY <1>1 DEF Create
  <2>2. obj' \in [Ids -> Item] /\ items \union {id} \in SUBSET Ids
    BY <2>1 DEF IInv, TypeOK, Item, Writers
  <2>3. QED
    BY <2>1, <2>2, AcquireRest
<1>2. CASE Fetch(c) \/ Check(c) \/ SendBegin(c)
  <2>1. PICK id \in items, what \in SUBSET Parts, pc \in {"fetched", "checked", "sending"} :
          req' = [req EXCEPT ![c] = [pc |-> pc, id |-> id, what |-> what]]
    BY <1>2, SomeBodies DEF Fetch, Check, SendBegin
  <2> DEFINE r == [pc |-> pc, id |-> id, what |-> what]
  <2>2. r \in Request
    BY <2>1 DEF Request, Stages, Updating, IInv, TypeOK
  <2>3. QED
    BY <1>2, <2>1, <2>2, RequestRest DEF Fetch, Check, SendBegin
<1>3. CASE BadBody(c) \/ SendFill(c)
  BY <1>3, RequestRest DEF BadBody, SendFill
<1>4. CASE AssignArgs(c) \/ AssignKeys(c) \/ Scrub(c)
  <2>1. req[c].id \in Ids
    BY <1>4, ActiveRequest DEF AssignArgs, AssignKeys, Scrub, Mutate, IInv
  <2> DEFINE i == obj[req[c].id]
  <2>2. i \in Item
    BY <2>1 DEF IInv, TypeOK
  <2>3. CASE AssignArgs(c)
    <3> DEFINE n == [i EXCEPT !.args = IF "args" \in req[c].what THEN c ELSE @]
    <3>1. n \in Item /\ n.key = i.key
      BY <2>2 DEF Item, Writers
    <3>2. Mutate(c, "fetched", "args", n)
      BY <2>3 DEF AssignArgs
    <3>3. QED
      BY <3>1, <3>2, MutateRest
  <2>4. CASE AssignKeys(c)
    <3> DEFINE n == [i EXCEPT !.key = @ \/ "key" \in req[c].what]
    <3>1. n \in Item
      BY <2>2 DEF Item
    <3>2. n.key => i.key \/ "key" \in req[c].what
      BY <2>2 DEF Item
    <3>3. Mutate(c, "args", "assigned", n)
      BY <2>4 DEF AssignKeys
    <3>4. QED
      BY <3>1, <3>2, <3>3, MutateRest
  <2>5. CASE Scrub(c)
    <3>1. Scrubbed(i) \in Item /\ ~ Scrubbed(i).key
      BY <2>2, ScrubType
    <3>2. QED
      BY <2>5, <3>1, MutateRest DEF Scrub
  <2>6. QED
    BY <1>4, <2>3, <2>4, <2>5
<1>5. CASE StoreUpdate(c)
  <2>1. req[c].id \in Ids
    BY <1>5, ActiveRequest DEF StoreUpdate, IInv
  <2>2. obj' \in [Ids -> Item] /\ items \union {req[c].id} \in SUBSET Ids
    BY <1>5, <2>1 DEF StoreUpdate, IInv, TypeOK
  <2>3. QED
    BY <1>5, <2>1, <2>2, AcquireRest DEF StoreUpdate
<1>6. CASE Remove(c)
  <2>1. req[c].id \in Ids
    BY <1>6, ActiveRequest DEF Remove, IInv
  <2>2. obj' \in [Ids -> Item] /\ items \ {req[c].id} \in SUBSET Ids
    BY <1>6, <2>1 DEF Remove, IInv, TypeOK
  <2>3. QED
    BY <1>6, <2>1, <2>2, AcquireRest DEF Remove
<1>7. QED
  BY <1>1, <1>2, <1>3, <1>4, <1>5, <1>6 DEF Handler

LEMMA MarshalRest == ASSUME IInv, Marshal PROVE Rest'
<1> USE DEF IInv, memory, history
<1>1. UNCHANGED <<service, items, obj, lock, req, drawn, acked, gone, dirty>>
  BY DEF Marshal
<1>2. save' = "write" /\ whole' = FALSE /\ Listed(disk)' = {} /\ lock # Nobody
  BY DEF Marshal, Listed, TypeOK
<1>3. \A id \in Ids : buf'[id] = IF buf[id] = None THEN None
                                 ELSE [obj[id] EXCEPT !.args = buf[id].args]
  BY DEF Marshal
<1>4. ASSUME NEW id \in items
      PROVE  /\ buf'[id] # None /\ buf'[id].key = obj[id].key
             /\ buf'[id] = obj[id] \/ Unsaved(id)
  <2>1. id \in Ids /\ buf[id] # None
    BY <1>2, <1>4 DEF Buffered, Listed, TypeOK
  <2>2. obj[id] \in Item /\ buf[id] \in Item
    BY <2>1 DEF TypeOK, Image
  <2>3. buf'[id] = [obj[id] EXCEPT !.args = buf[id].args] /\ buf'[id] \in Item
    BY <1>3, <2>1, <2>2 DEF Item
  <2>4. buf[id].args = obj[id].args => buf'[id] = obj[id]
    BY <2>2, <2>3 DEF Item
  <2>5. buf'[id].key = obj[id].key
    BY <2>2, <2>3 DEF Item
  <2>6. buf[id].args = obj[id].args \/ Unsaved(id)
    BY <1>4 DEF Marshal, Buffered
  <2>7. QED
    BY <2>3, <2>4, <2>5, <2>6, NoneIsNoItem
<1>5. Listed(buf)' = items
  BY <1>2, <1>3, <1>4 DEF Listed, Buffered, TypeOK
<1>6. Stopped' /\ Drawn' /\ Placed'
  BY <1>1, <1>2 DEF Stopped, Drawn, Placed
<1>7. Buffered'
  BY <1>1, <1>2, <1>4, <1>5 DEF Buffered, Unsaved
<1>8. Keys'
  <2>1. \A id \in Ids : obj[id].key => \E c \in Clients : Keyed(c, id, {"assigned"})'
    BY <1>1 DEF Keys, Keyed
  <2>2. \A id \in items : buf'[id].key =>
          \E c \in Clients : Keyed(c, id, {"assigned", "scrubbed"})'
    BY <1>1, <1>4, <2>1 DEF Keyed, TypeOK
  <2>3. DiskScrubbed'
    BY <1>2 DEF DiskScrubbed
  <2>4. QED
    BY <1>1, <2>1, <2>2, <2>3 DEF Keys
<1>9. DiskInStep'
  BY <1>1, <1>2 DEF DiskInStep
<1>10. Kept' /\ Final'
  <2>1. \A id \in gone : disk'[id] = None
    BY DEF Marshal, TypeOK
  <2>2. QED
    BY <1>1, <1>2, <2>1 DEF Kept, Final, Held
<1>11. QED
  BY <1>6, <1>7, <1>8, <1>9, <1>10 DEF Rest

\* What the end of a save leaves of the requests: the holder's is over.
LEMMA ReleaseFacts ==
  ASSUME IInv, NEW up \in BOOLEAN, Release(up), save # "none"
  PROVE  /\ save' = "none" /\ lock' = Nobody /\ UNCHANGED <<obj, drawn>>
         /\ \A c \in Clients : req'[c] = IF c = lock THEN NoRequest ELSE req[c]
         /\ \A c \in Clients : req'[c].pc \notin Holding
         /\ \A id \in Ids : Unsaved(id) => Unsaved(id)'
         /\ \A id \in Ids : Held(id)' => Held(id)
         /\ \A id \in Ids, c \in Clients :
              Keyed(c, id, {"assigned", "scrubbed"}) => Keyed(c, id, {"assigned", "scrubbed"})'
         /\ \A id \in Ids, c \in Clients :
              Keyed(c, id, {"assigned"}) => Keyed(c, id, {"assigned"})'
         /\ Stopped' /\ Placed' /\ items' \subseteq items
         /\ service # "booting" => service' = service /\ items' = items /\ service = "up"
         /\ service = "booting" /\ up => service' = "up" /\ items' = items
         /\ service = "booting" /\ ~ up => service' = "down"
<1> USE DEF IInv
<1>1. save' = "none" /\ lock' = Nobody /\ UNCHANGED <<obj, drawn>>
  BY DEF Release
<1>2. \A c \in Clients : req'[c] = IF c = lock THEN NoRequest ELSE req[c]
  BY DEF Release
<1>3. \A c \in Clients : c # lock => req[c].pc \notin Holding
  BY DEF TypeOK
<1>4. \A c \in Clients : req'[c].pc \notin Holding
  BY <1>2, <1>3, NoRequestPc DEF Holding
<1>5. \A c \in Clients : c = lock => req[c].pc \in Holding
  BY DEF TypeOK
<1>6. \A id \in Ids : Unsaved(id) => Unsaved(id)'
  BY <1>2, <1>5 DEF Unsaved, Holding
<1>7. \A id \in Ids : Held(id)' => Held(id)
  BY <1>2, NoRequestPc DEF Held, Updating
<1>8. /\ \A id \in Ids, c \in Clients :
           Keyed(c, id, {"assigned", "scrubbed"}) => Keyed(c, id, {"assigned", "scrubbed"})'
      /\ \A id \in Ids, c \in Clients :
           Keyed(c, id, {"assigned"}) => Keyed(c, id, {"assigned"})'
  BY <1>2, <1>5 DEF Keyed, Holding
<1>9. /\ items' \subseteq items
      /\ service # "booting" => service' = service /\ items' = items /\ service = "up"
      /\ service = "booting" /\ up => service' = "up" /\ items' = items
      /\ service = "booting" /\ ~ up => service' = "down" /\ items' = {}
  BY SaveCases, NamesDiffer DEF Release, TypeOK
<1>10. Placed'
  BY <1>4 DEF Placed, Holding
<1>11. Stopped'
  <2>1. CASE service' = "up"
    BY <2>1 DEF Stopped
  <2>2. CASE service' # "up"
    <3>1. service = "booting" /\ ~ up
      BY <1>9, <2>2
    <3>2. req = [c \in Clients |-> NoRequest]
      BY <3>1 DEF Stopped
    <3>3. req' = [c \in Clients |-> NoRequest]
      BY <3>2 DEF Release
    <3>4. QED
      BY <1>9, <3>1, <3>3 DEF Stopped
  <2>3. QED
    BY <2>1, <2>2
<1>12. QED
  BY <1>1, <1>2, <1>4, <1>6, <1>7, <1>8, <1>9, <1>10, <1>11

LEMMA WriteRest == ASSUME IInv, Write PROVE Rest'
<1> USE DEF IInv
<1>1. Release(TRUE) /\ save = "write" /\ lock # Nobody /\ disk' = buf /\ whole' = TRUE /\ dirty' = FALSE
  BY DEF Write, TypeOK
<1>2. items' = items /\ service' = "up"
  BY <1>1, ReleaseFacts
<1>3. Listed(buf) = items /\ Listed(disk)' = items
  BY <1>1 DEF Buffered, Listed
<1>4. Drawn'
  BY <1>1, <1>2, <1>3, ReleaseFacts, NoRequestPc DEF Drawn
<1>5. Buffered'
  BY <1>1, ReleaseFacts DEF Buffered
<1>6. items \subseteq Ids
  BY DEF TypeOK
<1>7. Keys'
  <2>1. \A id \in items : buf[id].key =>
          \E c \in Clients : Keyed(c, id, {"assigned", "scrubbed"})'
    BY <1>1, <1>6, ReleaseFacts DEF Keys
  <2>2. DiskScrubbed'
    BY <1>1, <1>3, <2>1 DEF DiskScrubbed, Keyed
  <2>3. \A id \in Ids : obj'[id].key => \E c \in Clients : Keyed(c, id, {"assigned"})'
    BY <1>1, ReleaseFacts DEF Keys
  <2>4. save' = "none"
    BY <1>1, ReleaseFacts
  <2>5. QED
    BY <2>2, <2>3, <2>4 DEF Keys
<1>8. DiskInStep'
  <2>1. \A id \in items : disk'[id] = obj'[id] \/ Unsaved(id)'
    BY <1>1, <1>6, ReleaseFacts DEF Buffered
  <2>2. QED
    BY <1>1, <1>2, <1>3, <2>1 DEF DiskInStep, Unsaved
<1>9. Kept'
  <2>1. \A id \in acked' : id \in items
    <3>1. \A id \in Ids : HolderIs("creating", id) => id \in items
      BY DEF HolderIs, Placed
    <3>2. \A id \in acked : id \in items
      BY <1>1, SaveCases, NamesDiffer DEF Kept
    <3>3. QED
      BY <3>1, <3>2 DEF Write
  <2>2. QED
    BY <1>1, <1>2, <1>3, <2>1 DEF Kept, Listed
<1>10. Final'
  <2>1. \A id \in gone' : id \in Ids /\ id \notin items /\ ~ Held(id)
    <3>1. \A id \in Ids : HolderIs("deleting", id) => id \notin items
      BY DEF HolderIs, Placed
    <3>2. \A id \in gone : id \in Ids /\ id \notin items /\ ~ Held(id)
      BY DEF Final, TypeOK
    <3>3. QED
      BY <3>1, <3>2 DEF Write
  <2>2. \A id \in gone' : disk'[id] = None
    BY <1>1, <1>3, <2>1 DEF Listed
  <2>3. \A id \in gone' : ~ Held(id)'
    BY <1>1, <2>1, ReleaseFacts
  <2>4. QED
    BY <1>2, <2>1, <2>2, <2>3 DEF Final
<1>11. Stopped' /\ Placed'
  BY <1>1, ReleaseFacts
<1>12. QED
  BY <1>4, <1>5, <1>7, <1>8, <1>9, <1>10, <1>11 DEF Rest

LEMMA SaveFailRest == ASSUME IInv, SaveFail PROVE Rest'
<1> USE DEF IInv, file
<1>1. Release(FALSE) /\ save # "none" /\ UNCHANGED <<whole, disk, acked, gone>> /\ dirty' = TRUE
  BY DEF SaveFail
<1>2. items \subseteq Ids /\ gone \subseteq Ids /\ Listed(disk)' = Listed(disk)
  BY <1>1 DEF TypeOK, Listed
<1>3. Drawn'
  BY <1>1, <1>2, ReleaseFacts, NoRequestPc DEF Drawn
<1>4. Buffered' /\ DiskInStep'
  BY <1>1, ReleaseFacts DEF Buffered, DiskInStep
<1>5. Keys'
  <2>1. \A id \in Ids : obj'[id].key => \E c \in Clients : Keyed(c, id, {"assigned"})'
    BY <1>1, ReleaseFacts DEF Keys
  <2>2. QED
    BY <1>1, <2>1, ReleaseFacts DEF Keys, DiskScrubbed
<1>6. Kept' /\ Final'
  BY <1>1, <1>2, ReleaseFacts DEF Kept, Final
<1>7. Stopped' /\ Placed'
  BY <1>1, ReleaseFacts
<1>8. QED
  BY <1>3, <1>4, <1>5, <1>6, <1>7 DEF Rest

LEMMA LoadRest == ASSUME IInv, Load PROVE Rest'
<1> USE DEF IInv, file
<1>1. /\ service = "down" /\ whole /\ items' = Listed(disk) /\ dirty' = FALSE
      /\ UNCHANGED <<whole, disk, req, drawn, acked, gone>>
      /\ \A id \in Ids : obj'[id] = IF disk[id] = None THEN Blank[id] ELSE Scrubbed(disk[id])
  BY DEF Load
<1>2. lock = Nobody /\ save = "none"
  BY <1>1, SaveCases DEF TypeOK
<1>3. \A c \in Clients : req[c] = NoRequest
  BY <1>1 DEF Stopped
<1>4. Listed(disk)' = Listed(disk) /\ Listed(disk) \subseteq Ids
  BY <1>1 DEF Listed
<1>5. \A id \in Ids : obj'[id] \in Item /\ ~ obj'[id].key
  <2>1. \A id \in Ids : Blank[id] \in Item /\ ~ Blank[id].key
    BY BlankType DEF Blank
  <2>2. \A id \in Ids : disk[id] # None => disk[id] \in Item
    BY DEF TypeOK, Image
  <2>3. QED
    BY <1>1, <2>1, <2>2, ScrubType
<1>6. Stopped' /\ Drawn' /\ Placed'
  BY <1>1, <1>3, <1>4, NoRequestPc DEF Stopped, Drawn, Placed, Load
<1>7. Kept' /\ Final'
  BY <1>1, <1>4 DEF Kept, Final, Held, Listed, TypeOK
<1>8. CASE \E id \in Listed(disk) : disk[id].key
  <2>1. /\ service' = "booting" /\ lock' = Boot /\ save' = "marshal"
        /\ \A id \in Ids : buf'[id] = IF disk[id] = None THEN None ELSE obj'[id]
    BY <1>8 DEF Load
  <2>2. Listed(buf)' = Listed(disk)
    BY <1>5, <2>1, NoneIsNoItem DEF Listed
  <2>3. Buffered'
    BY <1>1, <1>4, <2>1, <2>2 DEF Buffered, Listed
  <2>4. Keys' /\ DiskInStep'
    BY <1>5, <2>1 DEF Keys, DiskScrubbed, DiskInStep
  <2>5. QED
    BY <1>6, <1>7, <2>3, <2>4 DEF Rest
<1>9. CASE ~ \E id \in Listed(disk) : disk[id].key
  <2>1. service' = "up" /\ UNCHANGED saving
    BY <1>9 DEF Load
  <2>2. lock' = Nobody /\ save' = "none"
    BY <1>2, <2>1 DEF saving
  <2>3. Buffered' /\ Keys'
    BY <1>1, <1>5, <1>9, <1>4, <2>2 DEF Buffered, Keys, DiskScrubbed
  <2>4. \A id \in Listed(disk) : disk[id] = obj'[id]
    <3>1. ASSUME NEW id \in Listed(disk) PROVE disk[id] = Scrubbed(disk[id])
      <4>1. disk[id] \in Item /\ disk[id].key = FALSE
        BY <1>4, <1>9 DEF TypeOK, Image, Listed, Item
      <4>2. QED
        BY <4>1 DEF Scrubbed, Item
    <3>2. QED
      BY <1>1, <3>1 DEF Listed
  <2>5. DiskInStep'
    BY <1>1, <1>4, <2>4 DEF DiskInStep
  <2>6. QED
    BY <1>6, <1>7, <2>3, <2>5 DEF Rest
<1>10. QED
  BY <1>8, <1>9

LEMMA CrashRest == ASSUME IInv, Crash PROVE Rest'
<1> USE DEF IInv, file, history
<1>1. /\ service' = "down" /\ items' = {} /\ lock' = Nobody /\ save' = "none"
      /\ req' = [c \in Clients |-> NoRequest] /\ obj' = Blank
      /\ UNCHANGED <<whole, disk, drawn, acked, gone, dirty>>
  BY DEF Crash
<1>2. \A id \in Ids : ~ obj'[id].key
  BY <1>1 DEF Blank
<1>3. \A c \in Clients : req'[c].pc = "idle"
  BY <1>1, NoRequestPc
<1>4. Listed(disk)' = Listed(disk)
  BY <1>1 DEF Listed
<1>5. QED
  BY <1>1, <1>2, <1>3, <1>4 DEF Rest, Stopped, Drawn, Buffered, Placed, Keys, DiskScrubbed,
     DiskInStep, Kept, Final, Held, Updating

LEMMA StutterRest == ASSUME IInv, UNCHANGED vars PROVE Rest'
BY DEF IInv, vars, memory, saving, file, history, Rest, Stopped, Drawn, Buffered, Unsaved,
   Listed, Placed, Keys, Keyed, DiskScrubbed, DiskInStep, Kept, Final, Held

LEMMA Inductive == Spec => []IInv
<1>1. IInv /\ [Next]_vars => IInv'
  <2> SUFFICES ASSUME IInv, [Next]_vars PROVE IInv'
    OBVIOUS
  <2>1. TypeOK'
    BY TypeStep DEF IInv
  <2>2. Rest'
    BY LoadRest, CrashRest, HandlerRest, MarshalRest, WriteRest, SaveFailRest, StutterRest
       DEF Next
  <2>3. QED
    BY <2>1, <2>2 DEF IInv, Rest
<1>2. QED
  BY <1>1, InitIInv, PTL DEF Spec
-----------------------------------------------------------------------------
\* Every reachable state is well typed and the lock has at most one holder.
THEOREM TypeCorrect == Spec => []TypeOK
<1>1. IInv => TypeOK
  BY DEF IInv
<1>2. QED
  BY <1>1, Inductive, PTL

\* No key stays in the memory of the store (MemoryScrubbed).
THEOREM MemoryHoldsNoKey == Spec => []MemoryScrubbed
<1>1. IInv => MemoryScrubbed
  BY DEF IInv, Keys, MemoryScrubbed, TypeOK
<1>2. QED
  BY <1>1, Inductive, PTL

\* A key in the file is about to be overwritten by the update it came with
\* (DiskScrubbed).
THEOREM FileHoldsNoKey == Spec => []DiskScrubbed
<1>1. IInv => DiskScrubbed
  BY DEF IInv, Keys
<1>2. QED
  BY <1>1, Inductive, PTL

\* Keys are stripped from memory and file (KeysStripped).
THEOREM KeysAreStripped == Spec => []KeysStripped
BY MemoryHoldsNoKey, FileHoldsNoKey, PTL DEF KeysStripped

\* The file is the memory whenever no save is under way and the last one
\* succeeded, up to updates that have not saved (DiskInStep).
THEOREM FileFollowsMemory == Spec => []DiskInStep
<1>1. IInv => DiskInStep
  BY DEF IInv
<1>2. QED
  BY <1>1, Inductive, PTL

\* Answered creations last across failed saves and restarts (AckedKept).
THEOREM CreationsLast == Spec => []AckedKept
<1>1. IInv => AckedKept
  BY DEF IInv, Kept, AckedKept
<1>2. QED
  BY <1>1, Inductive, PTL

\* Answered deletions last (GoneStaysGone).
THEOREM DeletionsLast == Spec => []GoneStaysGone
<1>1. IInv => GoneStaysGone
  BY DEF IInv, Final, GoneStaysGone
<1>2. QED
  BY <1>1, Inductive, PTL

-----------------------------------------------------------------------------
(* The book and its copy. *)

\* What the book shows of the map.
TheBook == [id \in Ids |-> IF id \in items THEN obj[id].args ELSE None]

\* Nothing is left of an image that was saved or given up, and the file is
\* written only after it was truncated.
Rested ==
  /\ lock = Nobody => buf = NoBuffer
  /\ save = "write" => ~ whole

LEMMA TextsOf ==
  ASSUME NEW f \in Image
  PROVE  /\ \A id \in Ids : Texts(f)[id] = None <=> f[id] = None
         /\ Book!Shown(Texts(f)) = Listed(f)
BY NoneIsNoItem DEF Texts, Image, Item, Book!Shown, Listed

LEMMA BlankTexts == Texts(NoBuffer) = Book!Blank
BY DEF Texts, NoBuffer, Book!Blank

LEMMA RestedHolds == IInv /\ Rested /\ [Next]_vars => Rested'
<1> SUFFICES ASSUME IInv, Rested, [Next]_vars PROVE Rested'
  OBVIOUS
<1> USE DEF Rested
<1>1. CASE Load
  BY <1>1, NamesDiffer DEF Load, saving, file
<1>2. CASE Crash
  BY <1>2 DEF Crash
<1>3. ASSUME NEW c \in Clients, Handler(c) PROVE Rested'
  <2>1. c # Nobody
    BY NamesDiffer
  <2>2. QED
    BY <1>3, <2>1 DEF Handler, Create, StoreUpdate, Remove, Acquire, Fetch, BadBody,
         AssignArgs, AssignKeys, Scrub, Mutate, Check, SendBegin, SendFill, saving, file
<1>4. CASE Marshal
  BY <1>4 DEF Marshal, IInv, TypeOK
<1>5. CASE Write \/ SaveFail
  BY <1>5 DEF Write, SaveFail, Release
<1>6. CASE UNCHANGED vars
  BY <1>6 DEF vars, saving, file
<1>7. QED
  BY <1>1, <1>2, <1>3, <1>4, <1>5, <1>6 DEF Next

\* Taking the lock is the moment at which the book changes.
LEMMA AcquireChanges ==
  ASSUME IInv, NEW c \in Clients, NEW id \in Ids, NEW pc, NEW kept \in SUBSET Ids,
         NEW w \in Writers \union {None},
         Acquire(c, id, pc, kept), obj' \in [Ids -> Item],
         \A i \in Ids \ {id} : obj'[i].args = obj[i].args,
         kept \ {id} = items \ {id},
         w = IF id \in kept THEN obj'[id].args ELSE None,
         w # None => id \notin gone,
         acked' = IF w = None THEN acked \ {id} ELSE acked
  PROVE  Book!Change(id, w)
<1>1. TheBook' = [TheBook EXCEPT ![id] = w]
  BY DEF TheBook, Acquire
<1>2. Texts(buf)' = TheBook'
  <2>1. \A i \in Ids : obj'[i] # None
    BY NoneIsNoItem
  <2>2. buf' = [i \in Ids |-> IF i \in kept THEN obj'[i] ELSE None] /\ items' = kept
    BY DEF Acquire
  <2>3. QED
    BY <2>1, <2>2 DEF Texts, TheBook
<1>3. lock = Nobody /\ lock' = c /\ c # Nobody
  BY NamesDiffer DEF Acquire
<1>4. service = "up" /\ service' = "up" /\ whole' = whole /\ Texts(disk)' = Texts(disk) /\ gone' = gone
  BY DEF Acquire, file, Texts
<1>5. QED
  BY <1>1, <1>2, <1>3, <1>4 DEF Book!Change, TheBook

\* A change of one instruction's arguments, without the lock, is an amendment
\* or, when the map does not list the instruction any more, not seen.
LEMMA MutateAmends ==
  ASSUME IInv, NEW c \in Clients, NEW from, NEW to, NEW item \in Item,
         req[c].id \in Ids, Mutate(c, from, to, item)
  PROVE  \/ Book!Amend(req[c].id, item.args) /\ item.args \in Writers
         \/ UNCHANGED Book!vars
<1> DEFINE id == req[c].id
<1>1. obj' = [obj EXCEPT ![id] = item] /\ items' = items
  BY DEF Mutate
<1>2. /\ service = "up" /\ service' = service /\ lock' = lock /\ buf' = buf
      /\ whole' = whole /\ disk' = disk /\ acked' = acked /\ gone' = gone
  BY DEF Mutate, saving, file, history
<1>3. Texts(buf)' = Texts(buf) /\ Texts(disk)' = Texts(disk)
  BY <1>2 DEF Texts
<1>4. CASE id \in items
  <2>1. TheBook' = [TheBook EXCEPT ![id] = item.args]
    BY <1>1, <1>4 DEF TheBook, IInv, TypeOK
  <2>2. TheBook[id] # None /\ item.args \in Writers
    BY <1>4, NoneIsNoItem DEF TheBook, IInv, TypeOK, Item
  <2>3. QED
    BY <1>2, <1>3, <2>1, <2>2 DEF Book!Amend, Book!disk, Book!said, TheBook
<1>5. CASE id \notin items
  <2>1. TheBook' = TheBook
    BY <1>1, <1>5 DEF TheBook, IInv, TypeOK
  <2>2. QED
    BY <1>2, <1>3, <2>1 DEF Book!vars, Book!store, Book!disk, Book!said, TheBook
<1>6. QED
  BY <1>4, <1>5

LEMMA HandlerBook ==
  ASSUME IInv, NEW c \in Clients, Handler(c)
  PROVE  [Book!Next]_(Book!vars)
<1> USE DEF IInv
<1>1. CASE Create(c)
  <2>1. PICK id \in Ids \ drawn :
          /\ req[c].pc = "idle"
          /\ obj' = [obj EXCEPT ![id] = [args |-> c, key |-> FALSE]]
          /\ Acquire(c, id, "creating", items \union {id})
          /\ UNCHANGED acked
    BY <1>1 DEF Create
  <2>2. obj' \in [Ids -> Item] /\ items \union {id} \in SUBSET Ids
    BY <2>1 DEF TypeOK, Item, Writers
  <2>3. obj'[id].args = c /\ \A i \in Ids \ {id} : obj'[i].args = obj[i].args
    BY <2>1 DEF TypeOK
  <2>4. c # None /\ c \in Writers /\ id \notin gone
    BY <2>1, NoneIsNoItem DEF Writers, TypeOK
  <2>5. Book!Change(id, c)
    BY <2>1, <2>2, <2>3, <2>4, AcquireChanges
  <2>6. QED
    BY <2>4, <2>5 DEF Book!Next
<1>2. CASE Fetch(c) \/ BadBody(c) \/ Check(c) \/ SendBegin(c) \/ SendFill(c)
  <2>1. UNCHANGED <<service, memory, saving, file, history>>
    BY <1>2 DEF Fetch, BadBody, Check, SendBegin, SendFill
  <2>2. UNCHANGED Book!vars
    BY <2>1 DEF memory, saving, file, history, Texts,
                Book!vars, Book!store, Book!disk, Book!said
  <2>3. QED
    BY <2>2
<1>3. CASE AssignArgs(c)
  <2>1. req[c].id \in Ids
    BY <1>3, ActiveRequest DEF AssignArgs, Mutate
  <2> DEFINE item == [obj[req[c].id] EXCEPT
                        !.args = IF "args" \in req[c].what THEN c ELSE @]
  <2>2. item \in Item
    BY <2>1 DEF TypeOK, Item, Writers
  <2>3. Mutate(c, "fetched", "args", item)
    BY <1>3 DEF AssignArgs
  <2> HIDE DEF item
  <2>4. QED
    BY <2>1, <2>2, <2>3, MutateAmends DEF Book!Next
<1>4. CASE AssignKeys(c)
  <2>1. req[c].id \in Ids
    BY <1>4, ActiveRequest DEF AssignKeys, Mutate
  <2> DEFINE item == [obj[req[c].id] EXCEPT !.key = @ \/ "key" \in req[c].what]
  <2>2. item \in Item
    BY <2>1 DEF TypeOK, Item
  <2>3. Mutate(c, "args", "assigned", item)
    BY <1>4 DEF AssignKeys
  <2> HIDE DEF item
  <2>4. QED
    BY <2>1, <2>2, <2>3, MutateAmends DEF Book!Next
<1>5. CASE Scrub(c)
  <2>1. req[c].id \in Ids
    BY <1>5, ActiveRequest DEF Scrub, Mutate
  <2>2. Scrubbed(obj[req[c].id]) \in Item
    BY <2>1, ScrubType DEF TypeOK
  <2>3. QED
    BY <1>5, <2>1, <2>2, MutateAmends DEF Scrub, Book!Next
<1>6. CASE StoreUpdate(c)
  <2>1. PICK id \in Ids : id = req[c].id
    BY <1>6, ActiveRequest DEF StoreUpdate
  <2>2. PICK w \in Writers : w = obj[id].args
    BY DEF TypeOK, Item
  <2>3. obj' = obj /\ acked' = acked /\ Acquire(c, id, "updating", items \union {id})
    BY <1>6, <2>1 DEF StoreUpdate
  <2>4. Held(id)
    BY <1>6, <2>1 DEF StoreUpdate, Held, Updating
  <2>5. id \notin gone /\ w # None
    BY <2>4, NoneIsNoItem DEF Final
  <2>6. obj' \in [Ids -> Item] /\ items \union {id} \in SUBSET Ids
    BY <2>3 DEF TypeOK
  <2>7. Book!Change(id, w)
    BY <2>2, <2>3, <2>5, <2>6, AcquireChanges
  <2>8. QED
    BY <2>7 DEF Book!Next
<1>7. CASE Remove(c)
  <2> DEFINE id == req[c].id
  <2>1. id \in Ids /\ obj' = obj /\ acked' = acked \ {id}
        /\ Acquire(c, id, "deleting", items \ {id})
    BY <1>7, ActiveRequest DEF Remove
  <2>2. obj' \in [Ids -> Item] /\ items \ {id} \in SUBSET Ids
    BY <2>1 DEF TypeOK
  <2>3. Book!Change(id, None)
    BY <2>1, <2>2, AcquireChanges
  <2>4. QED
    BY <2>1, <2>3 DEF Book!Next
<1>8. QED
  BY <1>1, <1>2, <1>3, <1>4, <1>5, <1>6, <1>7 DEF Handler

\* A save that ends leaves the map as it was, but for a process that stops.
LEMMA ReleaseBook ==
  ASSUME IInv, NEW up \in BOOLEAN, Release(up), lock # Nobody, lock # Boot \/ up,
         service # "down"
  PROVE  /\ service' # "down" /\ TheBook' = TheBook
         /\ lock' = Nobody /\ Texts(buf)' = Book!Blank
<1>1. buf' = NoBuffer /\ lock' = Nobody /\ obj' = obj /\ items' = items /\ service' # "down"
  BY DEF Release
<1>2. Texts(buf)' = Texts(NoBuffer)
  BY <1>1 DEF Texts
<1>3. QED
  BY <1>1, <1>2, BlankTexts DEF TheBook

LEMMA WriteBook == ASSUME IInv, Rested, Write PROVE Book!Next
<1> DEFINE new == {id \in Ids : HolderIs("creating", id)}
           old == {id \in Ids : HolderIs("deleting", id) /\ ~ Held(id)}
<1>1. lock # Nobody /\ service # "down"
  BY SaveCases, NamesDiffer DEF Write, IInv, TypeOK
<1>2. /\ service' # "down" /\ TheBook' = TheBook
      /\ lock' = Nobody /\ Texts(buf)' = Book!Blank
  BY <1>1, ReleaseBook DEF Write
<1>3. Listed(buf) = items /\ Book!Shown(Texts(buf)) = items
  BY <1>1, TextsOf DEF IInv, Buffered, TypeOK
<1>4. new \subseteq items /\ old \cap items = {}
  BY DEF HolderIs, IInv, Placed
<1>5. whole' = TRUE /\ Texts(disk)' = Texts(buf) /\ acked' = acked \union new
      /\ gone' = gone \union old
  BY DEF Write, Texts
<1>6. ~ whole
  BY DEF Write, Rested
<1>7. Book!Complete(new, old)
  BY <1>1, <1>2, <1>3, <1>4, <1>5, <1>6 DEF Book!Complete, Book!store, TheBook
<1>8. QED
  BY <1>7 DEF Book!Next

LEMMA SaveFailBook == ASSUME IInv, SaveFail PROVE Book!Next
<1>1. lock # Nobody /\ service # "down"
  BY SaveCases, NamesDiffer DEF SaveFail, IInv, TypeOK
<1>2. /\ lock' = Nobody /\ buf' = NoBuffer /\ acked' = acked /\ gone' = gone
      /\ whole' = whole /\ disk' = disk
  BY DEF SaveFail, Release, file
<1>3. Texts(buf)' = Book!Blank /\ Texts(disk)' = Texts(disk)
  <2>1. Texts(buf)' = Texts(NoBuffer)
    BY <1>2 DEF Texts
  <2>2. QED
    BY <1>2, <2>1, BlankTexts DEF Texts
<1>4. CASE lock = Boot
  <2>1. service' = "down" /\ items' = {}
    BY <1>4 DEF SaveFail, Release
  <2>2. TheBook' = Book!Blank
    BY <2>1 DEF TheBook, Book!Blank
  <2>3. Book!Close
    BY <1>1, <1>2, <1>3, <2>1, <2>2 DEF Book!Close, Book!said, TheBook
  <2>4. QED
    BY <2>3 DEF Book!Next
<1>5. CASE lock # Boot
  <2>1. service' # "down" /\ TheBook' = TheBook
    BY <1>1, <1>5 DEF SaveFail, Release, TheBook
  <2>2. Book!GiveUp
    BY <1>1, <1>2, <1>3, <2>1 DEF Book!GiveUp, Book!store, Book!said, TheBook
  <2>3. QED
    BY <2>2 DEF Book!Next
<1>6. QED
  BY <1>4, <1>5

\* The keys are read, the arguments of the image stay; the file is truncated.
LEMMA MarshalBook == ASSUME IInv, Marshal PROVE Book!Next
<1>1. lock # Nobody
  BY DEF Marshal, IInv, TypeOK
<1>2. Texts(buf)' = Texts(buf)
  <2>1. buf' = [id \in Ids |-> IF buf[id] = None THEN None
                               ELSE [obj[id] EXCEPT !.args = buf[id].args]]
    BY DEF Marshal
  <2>2. ASSUME NEW id \in Ids, buf[id] # None
        PROVE  buf'[id] # None /\ buf'[id].args = buf[id].args
    <3>1. obj[id] \in Item /\ buf[id] \in Item
      BY <2>2 DEF IInv, TypeOK, Image
    <3>2. buf'[id] = [obj[id] EXCEPT !.args = buf[id].args]
      BY <2>1, <2>2
    <3>3. buf'[id] \in Item /\ buf'[id].args = buf[id].args
      BY <3>1, <3>2 DEF Item
    <3>4. QED
      BY <3>3, NoneIsNoItem
  <2>3. ASSUME NEW id \in Ids, buf[id] = None PROVE buf'[id] = None
    BY <2>1, <2>3
  <2>4. QED
    BY <2>2, <2>3 DEF Texts
<1>3. whole' = FALSE /\ Texts(disk)' = Book!Blank
  BY DEF Marshal, Texts, Book!Blank
<1>4. /\ service' = service /\ TheBook' = TheBook /\ lock' = lock
      /\ acked' = acked /\ gone' = gone
  BY DEF Marshal, memory, history, TheBook
<1>5. Book!Damage
  BY <1>1, <1>2, <1>3, <1>4 DEF Book!Damage, Book!store, Book!said, TheBook
<1>6. QED
  BY <1>5 DEF Book!Next

\* What is loaded is what the file lists, stripped, and is saved again if it
\* had to be stripped.
LEMMA LoadBook == ASSUME IInv, Rested, Load PROVE Book!Next
<1>1. /\ service = "down" /\ whole /\ service' \in {"booting", "up"}
      /\ UNCHANGED <<whole, disk, acked, gone>> /\ lock = Nobody
  BY SaveCases DEF Load, IInv, TypeOK, file
<1>2. Texts(disk)' = Texts(disk)
  BY <1>1 DEF Texts
<1>3. \A id \in Ids : disk[id] # None =>
        Scrubbed(disk[id]) # None /\ Scrubbed(disk[id]).args = disk[id].args
  <2>1. ASSUME NEW id \in Ids, disk[id] # None
        PROVE  Scrubbed(disk[id]) # None /\ Scrubbed(disk[id]).args = disk[id].args
    <3>1. disk[id] \in Item
      BY <2>1 DEF IInv, TypeOK, Image
    <3>2. QED
      BY <3>1, ScrubType, NoneIsNoItem DEF Scrubbed, Item
  <2>2. QED
    BY <2>1
<1>4. /\ items' = Listed(disk)
      /\ obj' = [id \in Ids |-> IF disk[id] = None THEN Blank[id]
                                                   ELSE Scrubbed(disk[id])]
  BY DEF Load
<1>5. TheBook' = Texts(disk)
  BY <1>3, <1>4 DEF TheBook, Texts, Listed
<1>6. CASE \E id \in Listed(disk) : disk[id].key
  <2>1. /\ buf' = [id \in Ids |-> IF disk[id] = None THEN None ELSE obj'[id]]
        /\ lock' = Boot
    BY <1>6 DEF Load
  <2>2. Texts(buf)' = Texts(disk)
    BY <1>3, <1>4, <2>1 DEF Texts
  <2>3. Book!Open
    BY <1>1, <1>2, <1>5, <2>1, <2>2, NamesDiffer DEF Book!Open, Book!said, TheBook
  <2>4. QED
    BY <2>3 DEF Book!Next
<1>7. CASE ~ \E id \in Listed(disk) : disk[id].key
  <2>1. UNCHANGED <<lock, buf>>
    BY <1>7 DEF Load, saving
  <2>2. Texts(buf)' = Texts(buf)
    BY <2>1 DEF Texts
  <2>3. Book!Open
    BY <1>1, <1>2, <1>5, <2>1, <2>2 DEF Book!Open, Book!said, TheBook
  <2>4. QED
    BY <2>3 DEF Book!Next
<1>8. QED
  BY <1>6, <1>7

LEMMA CrashBook == ASSUME IInv, Crash PROVE Book!Next
<1>1. /\ service # "down" /\ service' = "down" /\ items' = {} /\ lock' = Nobody
      /\ buf' = NoBuffer /\ UNCHANGED <<whole, disk, acked, gone>>
  BY DEF Crash, file, history
<1>2. TheBook' = Book!Blank /\ Texts(disk)' = Texts(disk)
  BY <1>1 DEF TheBook, Book!Blank, Texts
<1>3. Texts(buf)' = Texts(NoBuffer)
  BY <1>1 DEF Texts
<1>4. Book!Close
  BY <1>1, <1>2, <1>3, BlankTexts DEF Book!Close, Book!said, TheBook
<1>5. QED
  BY <1>4 DEF Book!Next

LEMMA RefineStep == IInv /\ Rested /\ [Next]_vars => [Book!Next]_(Book!vars)
<1> SUFFICES ASSUME IInv, Rested, [Next]_vars PROVE [Book!Next]_(Book!vars)
  OBVIOUS
<1>1. CASE Load
  BY <1>1, LoadBook
<1>2. CASE Crash
  BY <1>2, CrashBook
<1>3. ASSUME NEW c \in Clients, Handler(c) PROVE [Book!Next]_(Book!vars)
  BY <1>3, HandlerBook
<1>4. CASE Marshal
  BY <1>4, MarshalBook
<1>5. CASE Write
  BY <1>5, WriteBook
<1>6. CASE SaveFail
  BY <1>6, SaveFailBook
<1>7. CASE UNCHANGED vars
  <2>1. UNCHANGED Book!vars
    BY <1>7 DEF vars, memory, saving, file, history, Texts,
                Book!vars, Book!store, Book!disk, Book!said
  <2>2. QED
    BY <2>1
<1>8. QED
  BY <1>1, <1>2, <1>3, <1>4, <1>5, <1>6, <1>7 DEF Next

LEMMA RefineInit == Init => Book!Init /\ Rested
<1> SUFFICES ASSUME Init PROVE Book!Init /\ Rested
  OBVIOUS
<1>1. Rested
  BY DEF Init, Rested
<1>2. Texts(buf) = Book!Blank /\ TheBook = Book!Blank
  BY BlankTexts DEF Init, TheBook, Book!Blank
<1>3. Texts(disk) \in [Ids -> {Original, None}]
  BY DEF Init, Texts
<1>4. QED
  BY <1>1, <1>2, <1>3 DEF Init, Book!Init, TheBook

\* The store implements the book (ImplementsBook): its requests, pointers and
\* the two-step marshalling and writing of save() add nothing that a book with
\* a copy could not do.
THEOREM Refinement == Spec => ImplementsBook
<1>1. IInv /\ Rested /\ [Next]_vars => Rested'
  BY RestedHolds
<1>2. QED
  BY <1>1, RefineInit, Inductive, RefineStep, PTL DEF Spec, ImplementsBook, Book!Spec

\* In the book, a replacement under way is of what the book shows.
Replaced ==
  /\ lock # Nobody => service # "down" /\ Book!Shown(Texts(buf)) = Book!Shown(TheBook)
  /\ acked \subseteq Ids /\ gone \subseteq Ids
  /\ service = "down" => TheBook = Book!Blank

LEMMA BookStep ==
  Replaced /\ Book!Kept /\ Book!Final /\ [Book!Next]_(Book!vars)
    => (Replaced /\ Book!Kept /\ Book!Final)'
<1> SUFFICES ASSUME Replaced, Book!Kept, Book!Final, [Book!Next]_(Book!vars)
             PROVE  (Replaced /\ Book!Kept /\ Book!Final)'
  OBVIOUS
<1> DEFINE b == TheBook
           n == Texts(buf)
           d == Texts(disk)
           up == service # "down"
           replacing == lock # Nobody
<1>1. /\ \A id \in acked : (whole => d[id] # None) /\ (up => b[id] # None)
      /\ \A id \in gone : b[id] = None /\ d[id] = None
  BY DEF Book!Kept, Book!Final, TheBook
<1>2. SUFFICES /\ \A id \in acked' : (whole' => d'[id] # None) /\ (up' => b'[id] # None)
               /\ \A id \in gone' : b'[id] = None /\ d'[id] = None
               /\ Replaced'
  BY DEF Book!Kept, Book!Final, TheBook
<1>3. Book!Shown(n) = {id \in Ids : n[id] # None} /\ Book!Shown(b) = {id \in Ids : b[id] # None}
      /\ Book!Shown(n)' = {id \in Ids : n'[id] # None} /\ Book!Shown(b)' = {id \in Ids : b'[id] # None}
  BY DEF Book!Shown
<1>4. b = [id \in Ids |-> b[id]]
  BY DEF TheBook
<1>5. CASE Book!Open
  <2>1. ~ up /\ whole /\ up' /\ b' = d /\ d' = d /\ acked' = acked /\ gone' = gone
        /\ ((replacing' /\ n' = d) \/ replacing' = replacing)
    BY <1>5 DEF Book!Open, Book!said, TheBook
  <2>2. QED
    BY <1>1, <1>2, <1>3, <2>1 DEF Replaced
<1>6. CASE Book!Close
  <2>1. ~ up' /\ b' = Book!Blank /\ ~ replacing' /\ d' = d /\ whole' = whole
        /\ acked' = acked /\ gone' = gone
    BY <1>6 DEF Book!Close, Book!said, TheBook
  <2>2. QED
    BY <1>1, <1>2, <2>1 DEF Replaced, Book!Blank
<1>7. ASSUME NEW id \in Ids, NEW w \in Writers \union {None}, Book!Change(id, w)
      PROVE  /\ \A i \in acked' : (whole' => d'[i] # None) /\ (up' => b'[i] # None)
             /\ \A i \in gone' : b'[i] = None /\ d'[i] = None
             /\ Replaced'
  <2>1. /\ up /\ up' = up /\ whole' = whole /\ d' = d /\ gone' = gone
        /\ b' = [b EXCEPT ![id] = w] /\ n' = b' /\ (w # None => id \notin gone)
        /\ acked' = IF w = None THEN acked \ {id} ELSE acked
    BY <1>7 DEF Book!Change, TheBook
  <2>2. QED
    BY <1>1, <1>3, <1>4, <2>1 DEF Replaced
<1>8. ASSUME NEW id \in Ids, NEW w \in Writers, Book!Amend(id, w)
      PROVE  /\ \A i \in acked' : (whole' => d'[i] # None) /\ (up' => b'[i] # None)
             /\ \A i \in gone' : b'[i] = None /\ d'[i] = None
             /\ Replaced'
  <2>1. /\ up /\ up' = up /\ whole' = whole /\ d' = d /\ n' = n /\ replacing' = replacing
        /\ b[id] # None /\ b' = [b EXCEPT ![id] = w] /\ acked' = acked /\ gone' = gone
    BY <1>8 DEF Book!Amend, Book!disk, Book!said, TheBook
  <2>2. w # None
    BY NoneIsNoItem
  <2>3. QED
    BY <1>1, <1>3, <1>4, <2>1, <2>2 DEF Replaced
<1>9. CASE Book!Damage
  <2>1. /\ up' = up /\ b' = b /\ n' = n /\ replacing' = replacing /\ ~ whole'
        /\ d' = Book!Blank /\ acked' = acked /\ gone' = gone
    BY <1>9 DEF Book!Damage, Book!store, Book!said, TheBook
  <2>2. QED
    BY <1>1, <1>2, <1>3, <2>1 DEF Replaced, Book!Blank
<1>10. CASE Book!GiveUp
  <2>1. /\ up' = up /\ b' = b /\ ~ replacing' /\ whole' = whole
        /\ d' = d /\ acked' = acked /\ gone' = gone
    BY <1>10 DEF Book!GiveUp, Book!store, Book!said, TheBook
  <2>2. QED
    BY <1>1, <1>2, <1>3, <2>1 DEF Replaced
<1>11. ASSUME NEW new \in SUBSET Ids, NEW old \in SUBSET Ids, Book!Complete(new, old)
       PROVE  /\ \A i \in acked' : (whole' => d'[i] # None) /\ (up' => b'[i] # None)
              /\ \A i \in gone' : b'[i] = None /\ d'[i] = None
              /\ Replaced'
  <2>1. /\ replacing /\ new \subseteq Book!Shown(n) /\ old \cap Book!Shown(n) = {}
        /\ up' = up /\ b' = b /\ ~ replacing' /\ d' = n
        /\ acked' = acked \union new /\ gone' = gone \union old
    BY <1>11 DEF Book!Complete, Book!store, TheBook
  <2>2. Book!Shown(n) = Book!Shown(b) /\ up
    BY <2>1 DEF Replaced
  <2>3. QED
    BY <1>1, <1>3, <2>1, <2>2 DEF Replaced
<1>12. CASE UNCHANGED Book!vars
  <2>1. /\ up' = up /\ b' = b /\ n' = n /\ replacing' = replacing /\ whole' = whole
        /\ d' = d /\ acked' = acked /\ gone' = gone
    BY <1>12 DEF Book!vars, Book!store, Book!disk, Book!said, TheBook
  <2>2. QED
    BY <1>1, <1>2, <1>3, <2>1 DEF Replaced
<1>13. QED
  BY <1>2, <1>5, <1>6, <1>7, <1>8, <1>9, <1>10, <1>11, <1>12 DEF Book!Next

\* The rules of the book suffice, without a look at the requests, the pointers
\* or the lock, for answered creations to last and answered deletions to be
\* final.
THEOREM BookKeepsItsWord == Book!Spec => [](Book!Kept /\ Book!Final)
<1>1. Book!Init => Replaced /\ Book!Kept /\ Book!Final
  BY DEF Book!Init, Book!Kept, Book!Final, Replaced, TheBook
<1>2. QED
  BY <1>1, BookStep, PTL DEF Book!Spec

=============================================================================
