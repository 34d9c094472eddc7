-------------------------- MODULE InstructionBook --------------------------
(***************************************************************************)
(* What the store of saved instructions promises, without requests, locks, *)
(* pointers, marshalling or keys: a book that a serving process keeps and  *)
(* a copy of it that outlives the process.                                 *)
(*                                                                         *)
(* The book changes by one instruction at a time, and every change is      *)
(* followed by one attempt to replace the copy by the book as it was at    *)
(* the change.  An attempt damages the copy before it completes it, and no *)
(* process starts from a damaged copy.  An instruction may be promised     *)
(* only when a copy that shows it is complete, and closed for ever only    *)
(* when a copy that does not show it is.                                   *)
(***************************************************************************)
CONSTANTS Ids, Writers, Original, None

VARIABLES
  up,        \* a process serves
  book,      \* who wrote each instruction it shows, None where it shows none
  replacing, \* the copy is to be replaced ...
  next,      \* ... by this
  sound,     \* the copy is not damaged
  copy,      \* what it lists
  promised,  \* created, and said to be so
  closed     \* deleted, and said to be so

store == <<up, book>>
disk  == <<replacing, next, sound, copy>>
said  == <<promised, closed>>
vars  == <<store, disk, said>>

Blank == [id \in Ids |-> None]
Shown(b) == {id \in Ids : b[id] # None}

Init ==
  /\ up = FALSE /\ book = Blank
  /\ replacing = FALSE /\ next = Blank
  /\ sound = TRUE /\ copy \in [Ids -> {Original, None}]
  /\ promised = {} /\ closed = {}

\* A process starts from the copy, and may first write it again.
Open ==
  /\ ~ up /\ sound
  /\ up' = TRUE /\ book' = copy
  /\ \/ replacing' = TRUE /\ next' = copy
     \/ UNCHANGED <<replacing, next>>
  /\ UNCHANGED <<sound, copy, said>>

\* The process ends.
Close ==
  /\ up
  /\ up' = FALSE /\ book' = Blank
  /\ replacing' = FALSE /\ next' = Blank
  /\ UNCHANGED <<sound, copy, said>>

\* An instruction is written, or removed (None), and the copy must follow.
Change(id, w) ==
  /\ up /\ ~ replacing
  /\ w # None => id \notin closed
  /\ book' = [book EXCEPT ![id] = w]
  /\ replacing' = TRUE /\ next' = book'
  /\ promised' = IF w = None THEN promised \ {id} ELSE promised
  /\ UNCHANGED <<up, sound, copy, closed>>

\* The text of an instruction changes in the book at any time, ahead of the
\* change that will write it.
Amend(id, w) ==
  /\ up /\ book[id] # None
  /\ book' = [book EXCEPT ![id] = w]
  /\ UNCHANGED <<up, disk, said>>

Damage ==
  /\ replacing
  /\ sound' = FALSE /\ copy' = Blank
  /\ UNCHANGED <<store, replacing, next, said>>

\* The copy is complete: what it shows may be promised, what it does not show
\* may be closed.
Complete(new, old) ==
  /\ replacing /\ ~ sound
  /\ new \subseteq Shown(next) /\ old \cap Shown(next) = {}
  /\ sound' = TRUE /\ copy' = next
  /\ replacing' = FALSE /\ next' = Blank
  /\ promised' = promised \union new /\ closed' = closed \union old
  /\ UNCHANGED store

\* The attempt ends without a copy; the book keeps the change.
GiveUp ==
  /\ replacing
  /\ replacing' = FALSE /\ next' = Blank
  /\ UNCHANGED <<store, sound, copy, said>>

Next ==
  \/ Open \/ Close
  \/ \E id \in Ids :
       \/ \E w \in Writers \union {None} : Change(id, w)
       \/ \E w \in Writers : Amend(id, w)
  \/ Damage \/ GiveUp
  \/ \E new, old \in SUBSET Ids : Complete(new, old)

Spec == Init /\ [][Next]_vars
-----------------------------------------------------------------------------
(* What follows from these rules. *)

\* What was promised is in every copy a process may start from and in every
\* book that is shown.
Kept ==
  \A id \in promised : /\ sound => copy[id] # None
                       /\ up => book[id] # None

\* What was closed is never seen again.
Final == \A id \in closed : book[id] = None /\ copy[id] = None
=============================================================================
