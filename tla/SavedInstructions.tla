------------------------- MODULE SavedInstructions -------------------------
(***************************************************************************)
(* The store of saved instructions and the handlers over it                *)
(* (handler/saved_instruction_handler.go).                                 *)
(*                                                                         *)
(* The store is a map from ids to POINTERS, guarded by a read/write lock   *)
(* and written whole to one JSON file by every change.  The lock guards    *)
(* the map, not the instructions: UpdateSavedInstruction takes the pointer *)
(* out, assigns the request's fields (a private key among them) to the     *)
(* shared instruction, strips the key fields and only then takes the lock  *)
(* and saves, while other requests may be saving the same instruction.     *)
(*                                                                         *)
(* An instruction is abstracted to the request that last wrote its         *)
(* arguments (the fields that are kept) and whether some key field of it   *)
(* is set (the fields that are not).                                       *)
(***************************************************************************)
CONSTANTS
  Clients,      \* slots for requests in flight
  Ids,          \* the ids generateID may draw (random 64 bits: each drawn once)
  Bodies,       \* which parts of an instruction a PUT body may carry
  Original,     \* the writer of what an earlier process left in the file
  None,         \* no instruction: the file's entry of an id it does not list
  Nobody,       \* the lock is free
  Boot          \* the lock's holder while the process loads the file

Parts == {"args", "key"}

ASSUME SomeBodies == Bodies \subseteq SUBSET Parts

ASSUME NamesDiffer ==
  /\ Original \notin Clients
  /\ {Nobody, Boot} \cap Clients = {}
  /\ Nobody # Boot

VARIABLES
  service,      \* "down" | "booting" | "up": the console's process
  items,        \* s.items: the ids in the map
  obj,          \* the instruction each id's pointer leads to
  lock,         \* who holds s.mu for writing
  save,         \* where the holder is in save()
  buf,          \* what save() has marshalled
  whole,        \* the file parses as JSON (an absent file is an empty list)
  disk,         \* what it lists
  req,          \* the request each client has in flight
  drawn,        \* history: ids handed out so far
  acked,        \* history: created with answer 200, no deletion begun
  gone,         \* history: deleted with answer 200 while no update held them
  dirty         \* history: the last save of this process failed

memory == <<items, obj>>
saving == <<lock, save, buf>>
file   == <<whole, disk>>
history == <<drawn, acked, gone, dirty>>
vars == <<service, memory, saving, file, req, history>>

Writers == Clients \union {Original}
Item  == [args: Writers, key: BOOLEAN]
Image == [Ids -> Item \union {None}]
Updating == {"fetched", "args", "assigned", "scrubbed", "updating"}
Holding  == {"creating", "updating", "deleting"}
Stages   == Updating \union Holding \union {"checked", "sending"}
NoRequest == [pc |-> "idle", id |-> None, what |-> {}]
Request  == {NoRequest} \union [pc: Stages, id: Ids, what: SUBSET Parts]

ASSUME NoneIsNoItem == None \notin Item \union Writers

\* scrubSecrets: every key field emptied.
Scrubbed(i) == [i EXCEPT !.key = FALSE]
Blank == [id \in Ids |-> [args |-> Original, key |-> FALSE]]
NoBuffer == [id \in Ids |-> None]
Listed(f) == {id \in Ids : f[id] # None}

\* A file of an earlier version may still hold keys.
Init ==
  /\ service = "down" /\ items = {} /\ lock = Nobody /\ save = "none"
  /\ whole = TRUE
  /\ disk \in [Ids -> [args: {Original}, key: BOOLEAN]
                        \union {None}]
  /\ obj = Blank /\ buf = NoBuffer
  /\ req = [c \in Clients |-> NoRequest]
  /\ drawn = Listed(disk) /\ acked = {} /\ gone = {} /\ dirty = FALSE
-----------------------------------------------------------------------------
(* Mistakes: the code as a plausible bug would leave it. *)

\* load() takes a file that does not parse for an empty one.
LoadForgiving ==
  /\ service = "down"
  /\ service' = "up" /\ items' = Listed(disk)
  /\ obj' = [id \in Ids |-> IF disk[id] = None THEN Blank[id] ELSE disk[id]]
  /\ dirty' = FALSE
  /\ UNCHANGED <<saving, file, req, drawn, acked, gone>>

\* The keys of a send are filled into the stored instruction's own signers.
SendShared(c) ==
  /\ service = "up" /\ req[c].pc = "sending"
  /\ req' = [req EXCEPT ![c] = NoRequest]
  /\ obj' = [obj EXCEPT ![req[c].id].key = TRUE]
  /\ UNCHANGED <<service, items, saving, file, history>>

\* An update that ends without store.Update.
ScrubUnsaved(c) ==
  /\ service = "up" /\ req[c].pc = "assigned"
  /\ req' = [req EXCEPT ![c] = NoRequest]
  /\ obj' = [obj EXCEPT ![req[c].id] = Scrubbed(@)]
  /\ UNCHANGED <<service, items, saving, file, history>>

\* The list is marshalled before the instruction is deleted from the map.
RemoveLate(c) ==
  /\ service = "up" /\ lock = Nobody /\ req[c].pc = "checked"
  /\ items' = items \ {req[c].id}
  /\ lock' = c /\ save' = "marshal"
  /\ buf' = [i \in Ids |-> IF i \in items THEN obj[i] ELSE None]
  /\ req' = [req EXCEPT ![c].pc = "deleting"]
  /\ acked' = acked \ {req[c].id}
  /\ UNCHANGED <<service, file, gone, dirty, obj, drawn>>

-----------------------------------------------------------------------------
\* load() at start-up: a file that does not parse is fatal (main.go), one that
\* holds keys is stripped and saved again before the service is up.
Load ==
  /\ service = "down" /\ whole
  /\ items' = Listed(disk)
  /\ obj' = [id \in Ids |-> IF disk[id] = None THEN Blank[id]
                                               ELSE Scrubbed(disk[id])]
  /\ IF \E id \in Listed(disk) : disk[id].key
     THEN /\ service' = "booting" /\ lock' = Boot /\ save' = "marshal"
          /\ buf' = [id \in Ids |-> IF disk[id] = None THEN None
                                                         ELSE obj'[id]]
     ELSE service' = "up" /\ UNCHANGED saving
  /\ dirty' = FALSE
  /\ UNCHANGED <<file, req, drawn, acked, gone>>

\* The process ends at any point: the memory and the requests are lost.
Crash ==
  /\ service # "down"
  /\ service' = "down" /\ items' = {}
  /\ obj' = Blank /\ buf' = NoBuffer
  /\ lock' = Nobody /\ save' = "none"
  /\ req' = [c \in Clients |-> NoRequest]
  /\ UNCHANGED <<file, history>>
-----------------------------------------------------------------------------
\* A handler takes the write lock, changes the map and starts to marshal.  The
\* marshaller reads an instruction field by field, outside any lock an update
\* would take: the arguments now, the rest in Marshal.
Acquire(c, id, pc, kept) ==
  /\ service = "up" /\ lock = Nobody
  /\ items' = kept
  /\ lock' = c /\ save' = "marshal"
  /\ buf' = [i \in Ids |-> IF i \in kept THEN obj'[i] ELSE None]
  /\ req' = [req EXCEPT ![c] = [pc |-> pc, id |-> id, what |-> @.what]]
  /\ UNCHANGED <<service, file, gone, dirty>>

\* CreateSavedInstruction: a new instruction, stripped before it is stored.
Create(c) == \E id \in Ids \ drawn :
  /\ req[c].pc = "idle"
  /\ obj' = [obj EXCEPT ![id] = [args |-> c, key |-> FALSE]]
  /\ Acquire(c, id, "creating", items \union {id})
  /\ drawn' = drawn \union {id}
  /\ UNCHANGED acked

\* UpdateSavedInstruction: the pointer is taken under the read lock ...
Fetch(c) == \E id \in items, what \in Bodies :
  /\ service = "up" /\ lock = Nobody /\ req[c].pc = "idle"
  /\ req' = [req EXCEPT ![c] = [pc |-> "fetched", id |-> id, what |-> what]]
  /\ UNCHANGED <<service, memory, saving, file, history>>

\* ... the body may not parse ...
BadBody(c) ==
  /\ service = "up" /\ req[c].pc = "fetched"
  /\ req' = [req EXCEPT ![c] = NoRequest]
  /\ UNCHANGED <<service, memory, saving, file, history>>

\* ... the fields present in it are assigned in place, without the lock ...
Mutate(c, from, to, item) ==
  /\ service = "up" /\ req[c].pc = from
  /\ req' = [req EXCEPT ![c].pc = to]
  /\ obj' = [obj EXCEPT ![req[c].id] = item]
  /\ UNCHANGED <<service, items, saving, file, history>>

AssignArgs(c) ==
  LET i == obj[req[c].id] IN
  Mutate(c, "fetched", "args",
         [i EXCEPT !.args = IF "args" \in req[c].what THEN c ELSE @])

AssignKeys(c) ==
  LET i == obj[req[c].id] IN
  Mutate(c, "args", "assigned", [i EXCEPT !.key = @ \/ "key" \in req[c].what])

\* ... the keys are stripped ...
Scrub(c) == Mutate(c, "assigned", "scrubbed", Scrubbed(obj[req[c].id]))

\* ... and the pointer is put back into the map, whatever happened to the map
\* meanwhile: an instruction deleted in between is listed again.
StoreUpdate(c) ==
  /\ req[c].pc = "scrubbed"
  /\ UNCHANGED <<obj, drawn, acked>>
  /\ Acquire(c, req[c].id, "updating", items \union {req[c].id})

\* DeleteSavedInstruction: a check under the read lock, then the deletion.
Check(c) == \E id \in items :
  /\ service = "up" /\ lock = Nobody /\ req[c].pc = "idle"
  /\ req' = [req EXCEPT ![c] = [pc |-> "checked", id |-> id, what |-> {}]]
  /\ UNCHANGED <<service, memory, saving, file, history>>

Remove(c) ==
  /\ req[c].pc = "checked"
  /\ UNCHANGED <<obj, drawn>>
  /\ Acquire(c, req[c].id, "deleting", items \ {req[c].id})
  /\ acked' = acked \ {req[c].id}

\* ExecuteSavedInstruction, mode send: the keys of the request and of the
\* configured accounts go into a deep copy of the instruction.  The other modes
\* and the plain reads take the pointer the same way and change nothing.
SendBegin(c) == \E id \in items :
  /\ service = "up" /\ lock = Nobody /\ req[c].pc = "idle"
  /\ req' = [req EXCEPT ![c] = [pc |-> "sending", id |-> id, what |-> {}]]
  /\ UNCHANGED <<service, memory, saving, file, history>>

SendFill(c) ==
  /\ service = "up" /\ req[c].pc = "sending"
  /\ req' = [req EXCEPT ![c] = NoRequest]
  /\ UNCHANGED <<service, memory, saving, file, history>>
-----------------------------------------------------------------------------
\* save(): the rest of the instructions is read, then os.WriteFile truncates ...
Marshal ==
  /\ save = "marshal"
  /\ buf' = [id \in Ids |-> IF buf[id] = None THEN None
                            ELSE [obj[id] EXCEPT !.args = buf[id].args]]
  /\ save' = "write"
  /\ whole' = FALSE /\ disk' = [id \in Ids |-> None]
  /\ UNCHANGED <<service, memory, lock, req, history>>

\* The holder's request is answered and the lock released.
Release(up) ==
  /\ lock' = Nobody /\ save' = "none"
  /\ service' = IF lock = Boot /\ up THEN "up" ELSE IF lock = Boot THEN "down"
                ELSE service
  /\ items' = IF lock = Boot /\ ~ up THEN {} ELSE items
  /\ req' = [c \in Clients |-> IF c = lock THEN NoRequest ELSE req[c]]
  /\ buf' = NoBuffer
  /\ UNCHANGED <<obj, drawn>>

Held(id) == \E c \in Clients : req[c].id = id /\ req[c].pc \in Updating

HolderIs(pc, id) == \E c \in Clients : /\ lock = c
                                      /\ req[c].pc = pc /\ req[c].id = id

\* ... and writes: the handler answers 200.
Write ==
  /\ save = "write"
  /\ whole' = TRUE /\ disk' = buf
  /\ Release(TRUE)
  /\ dirty' = FALSE
  /\ acked' = acked \union {id \in Ids : HolderIs("creating", id)}
  /\ gone' = gone \union {id \in Ids : HolderIs("deleting", id) /\ ~ Held(id)}

\* An error before the truncation keeps the old file, one after it leaves a
\* damaged one.  The handler answers 500 and the map keeps the change; an error
\* while loading is fatal.
SaveFail ==
  /\ save \in {"marshal", "write"}
  /\ Release(FALSE)
  /\ dirty' = TRUE
  /\ UNCHANGED <<file, acked, gone>>
-----------------------------------------------------------------------------
Handler(c) ==
  \/ Create(c)
  \/ Fetch(c) \/ BadBody(c) \/ AssignArgs(c) \/ AssignKeys(c) \/ Scrub(c)
  \/ StoreUpdate(c)
  \/ Check(c) \/ Remove(c)
  \/ SendBegin(c) \/ SendFill(c)

Next ==
  \/ Load \/ Crash
  \/ \E c \in Clients : Handler(c)
  \/ Marshal \/ Write \/ SaveFail

Spec == Init /\ [][Next]_vars

-----------------------------------------------------------------------------
(* Properties *)

\* Every variable has its type; the lock is held exactly while a save is under
\* way, by the request that says so or by the process that is loading.
TypeOK ==
  /\ service \in {"down", "booting", "up"}
  /\ items \subseteq Ids /\ obj \in [Ids -> Item]
  /\ lock \in Clients \union {Nobody, Boot}
  /\ save \in {"none", "marshal", "write"}
  /\ buf \in Image /\ whole \in BOOLEAN /\ disk \in Image
  /\ req \in [Clients -> Request]
  /\ drawn \subseteq Ids /\ acked \subseteq drawn /\ gone \subseteq drawn
  /\ dirty \in BOOLEAN
  /\ lock = Nobody <=> save = "none"
  /\ lock = Boot <=> service = "booting"
  /\ \A c \in Clients : req[c].pc \in Holding <=> lock = c

\* The request of c has put a key into the instruction id and its save is not over.
Keyed(c, id, stages) ==
  /\ req[c].id = id /\ req[c].pc \in stages /\ "key" \in req[c].what

\* A key is in the memory of the store only between the assignment of an update
\* that carries it and the same update's scrubSecrets: no create, load or send
\* leaves one there, and no other update of the instruction can make one stay.
MemoryScrubbed ==
  \A id \in items : obj[id].key => \E c \in Clients : Keyed(c, id, {"assigned"})

\* While the service is up and its last save succeeded, a key is in the file
\* only while the update that carries it is still on its way to its own save,
\* which will write the instruction without it.
DiskScrubbed ==
  service = "up" /\ ~ dirty =>
    \A id \in Listed(disk) : disk[id].key =>
      \E c \in Clients : Keyed(c, id, {"assigned", "scrubbed", "updating"})

\* The store strips keys: what a send or an update puts in is gone from memory
\* with the same request and from the file with that request's save.
KeysStripped == MemoryScrubbed /\ DiskScrubbed

\* While no save is under way and the last one succeeded, the file is whole and
\* lists exactly the instructions in memory, each as it is in memory unless an
\* update has assigned to it and not saved yet.
DiskInStep ==
  service = "up" /\ lock = Nobody /\ ~ dirty =>
    /\ whole
    /\ Listed(disk) = items
    /\ \A id \in items : disk[id] = obj[id] \/
         \E c \in Clients : /\ req[c].id = id
                            /\ req[c].pc \in {"args", "assigned", "scrubbed"}

\* An instruction whose creation was answered 200 and whose deletion was not
\* begun is in every file that parses and in the memory of every process that
\* serves, across failed saves of other requests, crashes and restarts.
AckedKept ==
  \A id \in acked : /\ whole => disk[id] # None
                    /\ service = "up" => id \in items

\* An instruction whose deletion was answered 200 while no update had its
\* pointer is never seen again, neither in memory nor in the file.
GoneStaysGone ==
  \A id \in gone : id \notin items /\ disk[id] = None

\* The arguments of the instructions that an image of the store lists.
Texts(f) == [id \in Ids |-> IF f[id] = None THEN None ELSE f[id].args]

\* The store as InstructionBook sees it: what a process that loads or serves
\* has in its map, the file, and the image that is to become the file.
Book == INSTANCE InstructionBook WITH
  up        <- service # "down",
  book      <- [id \in Ids |-> IF id \in items THEN obj[id].args ELSE None],
  replacing <- lock # Nobody,
  next      <- Texts(buf),
  sound     <- whole,
  copy      <- Texts(disk),
  promised  <- acked,
  closed    <- gone

\* Pointers, requests that assign without the lock, a marshaller that reads an
\* instruction in two steps and a save that truncates before it writes amount to
\* a book and its copy: the file is always damaged or the map exactly as some
\* change left it, no two changes share a save, a process starts only from a
\* whole file, and what was answered 200 stays created or deleted.
ImplementsBook == Book!Spec

=============================================================================
