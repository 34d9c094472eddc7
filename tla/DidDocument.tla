---------------------------- MODULE DidDocument ----------------------------
(***************************************************************************)
(* How a flow makes sure that an account has a DID document                *)
(* (handler/did_handler.go didEnsureDocument): view the document; create   *)
(* it, with an alias when one is wanted; or, where it exists, add what is  *)
(* missing.  POST /api/tool/did/create, vc-flow, vc-issue and the vc       *)
(* module of a seed job all run this code, concurrently, on the same       *)
(* accounts; nothing but the chain orders their writes.                    *)
(*                                                                         *)
(* A write is a call of didSend.  It ends without an error, and the chain  *)
(* has carried it out or failed it quietly, because flowSendTx does not    *)
(* look at the receipt; or it is refused with the code of a rule it breaks *)
(* or ends in another error, after which the chain may still carry it out. *)
(* VcIssuance puts the document steps together with the rest of a flow.    *)
(***************************************************************************)
EXTENDS Naturals, Sequences, FiniteSets

CONSTANTS
  Flows,      \* requests and job steps that may run at the same time
  Parties,    \* accounts
  Aliases,    \* alias strings
  NoAlias,    \* no alias wanted, or none bound
  NoDoc,      \* the account has no document
  Requests,   \* what a flow may be asked for
  MaxRetries, \* didAliasMaxRetries
  MaxRuns,    \* bound: runs of flows other than did/create, all together
  MaxFaults   \* bound: calls that end in an error although the chain may act, and
              \* changes made by the other endpoints and by others, all together

ASSUME BoundsAssumption ==
  /\ IsFiniteSet(Flows) /\ NoAlias \notin Aliases
  /\ MaxRetries \in Nat /\ MaxRuns \in Nat /\ MaxFaults \in Nat

\* What is wanted of a document.  With fixed the suffix of the alias is given, so
\* that the full name is one and the same at every attempt; otherwise it is drawn.
Wants == [alias : Aliases \union {NoAlias}, fixed : BOOLEAN, optional : BOOLEAN,
          service : BOOLEAN, avatar : BOOLEAN]

Docs == [type : {"Personal", "Organization"}, active : BOOLEAN,
         alias : Aliases \union {NoAlias}, services : Nat, avatar : BOOLEAN]

ASSUME NoDocAssumption == NoDoc \notin Docs

VARIABLES
  flow,       \* each flow's request and local state
  docs,       \* the documents on the chain
  bound,      \* full names with a given suffix that are bound, to anyone
  late,       \* writes the chain may still carry out
  lost,       \* number of calls that ended in such an error
  edits       \* changes by others so far

network == <<late, lost>>
-----------------------------------------------------------------------------
(* The flow a step belongs to. *)

Party(f) == IF flow[f].stage = "issuer" THEN flow[f].req.issuer
                                        ELSE flow[f].req.subject
Want(f) == IF flow[f].stage = "issuer" THEN flow[f].req.issuerDid
                                       ELSE flow[f].req.subjectDid
Type(f) == IF flow[f].stage = "issuer" THEN "Organization" ELSE flow[f].req.type

Ensuring(f, at) == flow[f].stage \in {"issuer", "subject"} /\ flow[f].at = at

\* The stages of a flow.  A did/create request has one of them.
After(f) ==
  CASE flow[f].stage = "issuer" -> "org"
    [] flow[f].stage = "org" -> "subject"
    [] flow[f].stage = "subject" -> IF flow[f].req.kind = "did" THEN "done"
                                                                ELSE "disclose"
    [] flow[f].stage = "disclose" -> "verify"
    [] flow[f].stage = "verify" -> "done"

Local(f, r) == flow' = [flow EXCEPT ![f] = r]

\* The flow leaves its stage.
Advance(f, r) == Local(f, [r EXCEPT !.stage = After(f), !.at = "look", !.todo = <<>>,
                                    !.tries = 0, !.n = 1])

\* A run that fails forgets what it was doing.
FailWith(f, code) ==
  Local(f, [flow[f] EXCEPT !.stage = "failed", !.at = "look", !.todo = <<>>, !.tries = 0,
                           !.n = 1, !.blind = FALSE, !.quiet = {}, !.why = code])

Quietly(f, op) == [flow[f] EXCEPT !.quiet = @ \union {op}]
-----------------------------------------------------------------------------
(* The chain (external): the rules a write breaks, and what it does. *)

Missing(p) == IF docs[p] = NoDoc THEN {"DidNotFound"}
              ELSE IF ~ docs[p].active THEN {"DidDeactivated"} ELSE {}

Taken(c) == IF c.alias # NoAlias /\ c.fixed /\ c.alias \in bound
            THEN {"NameAlreadyBound"} ELSE {}

DocRules(c) ==
  IF c.op = "Create"
  THEN Taken(c) \union IF docs[c.party] # NoDoc THEN {"DidAlreadyExists"} ELSE {}
  ELSE Missing(c.party) \union Taken(c)

\* A drawn suffix may hit a name that is bound.
Refusals(c, rules) ==
  rules \union IF c.alias # NoAlias /\ ~ c.fixed THEN {"NameAlreadyBound"} ELSE {}

\* A name that a document gave up stays bound.
Binds(c) == bound' = bound \union IF c.alias # NoAlias /\ c.fixed THEN {c.alias} ELSE {}

DocExecute(c) ==
  /\ docs' = [docs EXCEPT ![c.party] =
       CASE c.op = "Create" -> [type |-> c.type, active |-> TRUE, alias |-> c.alias,
                                services |-> IF c.service THEN 1 ELSE 0,
                                avatar |-> c.avatar]
         [] c.op = "SetAlias" -> [@ EXCEPT !.alias = c.alias]
         [] c.op = "AddService" -> [@ EXCEPT !.services = @ + 1]
         [] c.op = "SetAvatarUri" -> [@ EXCEPT !.avatar = TRUE]]
  /\ Binds(c)

\* The transactions a flow sends for its document: Create stands for Create and
\* CreateWithAlias.
DocCall(op, p, type, want, alias) ==
  [op |-> op, party |-> p, type |-> type, alias |-> alias, fixed |-> want.fixed,
   service |-> want.service, avatar |-> want.avatar]

CreateCall(f, alias) == DocCall("Create", Party(f), Type(f), Want(f), alias)

FillCall(f) ==
  LET op == Head(flow[f].todo)
  IN DocCall(op, Party(f), Type(f), Want(f),
             IF op = "SetAlias" THEN Want(f).alias ELSE NoAlias)

Carried(c) == DocRules(c) = {} /\ DocExecute(c) /\ UNCHANGED network

NotCarried == UNCHANGED <<docs, bound, network>>

Lost(c) ==
  /\ \/ UNCHANGED network
     \/ lost + edits < MaxFaults /\ lost' = lost + 1 /\ late' = late \union {c}
  /\ UNCHANGED <<docs, bound>>
-----------------------------------------------------------------------------
(* The steps of didEnsureDocument. *)

\* Mistakes: the backfill adds the service whatever the document says; it wants
\* the alias bound whenever one was asked for.
BackfillService(doc, want) ==
  (IF want.alias # NoAlias /\ doc.alias # want.alias THEN <<"SetAlias">> ELSE <<>>)
    \o (IF want.service THEN <<"AddService">> ELSE <<>>)
    \o (IF want.avatar /\ ~ doc.avatar THEN <<"SetAvatarUri">> ELSE <<>>)

BackfillAlias(doc, want) ==
  (IF want.alias # NoAlias THEN <<"SetAlias">> ELSE <<>>)
    \o (IF want.service /\ doc.services = 0 THEN <<"AddService">> ELSE <<>>)
    \o (IF want.avatar /\ ~ doc.avatar THEN <<"SetAvatarUri">> ELSE <<>>)

\* What an existing document lacks.  The alias is compared without its suffix.
Backfill(doc, want) ==
  (IF want.alias # NoAlias /\ doc.alias # want.alias THEN <<"SetAlias">> ELSE <<>>)
    \o (IF want.service /\ doc.services = 0 THEN <<"AddService">> ELSE <<>>)
    \o (IF want.avatar /\ ~ doc.avatar THEN <<"SetAvatarUri">> ELSE <<>>)

\* The Document view.  When it fails the account is taken to have none.
ViewDocument(f) == \E answers \in BOOLEAN :
  /\ Ensuring(f, "look")
  /\ LET seen == IF answers THEN docs[Party(f)] ELSE NoDoc
         r    == [flow[f] EXCEPT !.blind = @ \/ ~ answers]
     IN IF seen = NoDoc THEN Local(f, [r EXCEPT !.at = "create"])
        ELSE IF Backfill(seen, Want(f)) = <<>> THEN Advance(f, r)
        ELSE Local(f, [r EXCEPT !.at = "fill", !.todo = Backfill(seen, Want(f))])
  /\ NotCarried

\* Create or CreateWithAlias ends without an error.
CreateDone(f) ==
  /\ Ensuring(f, "create")
  /\ \/ Carried(CreateCall(f, Want(f).alias)) /\ Advance(f, flow[f])
     \/ NotCarried /\ Advance(f, Quietly(f, "create"))

\* The name is taken: another suffix is drawn, if it is not a given one; else what
\* the caller does without an alias if the alias is optional.
AliasTaken(f, give_up) ==
  IF ~ Want(f).fixed /\ flow[f].tries < MaxRetries
  THEN Local(f, [flow[f] EXCEPT !.tries = @ + 1])
  ELSE IF Want(f).optional THEN give_up ELSE FailWith(f, "NameAlreadyBound")

CreateRefused(f) ==
  LET c == CreateCall(f, Want(f).alias) IN
  /\ Ensuring(f, "create") /\ NotCarried
  /\ \E code \in Refusals(c, DocRules(c)) :
       IF code = "NameAlreadyBound"
         THEN AliasTaken(f, Local(f, [flow[f] EXCEPT !.at = "plain"]))
       ELSE IF Want(f).alias = NoAlias THEN Advance(f, flow[f])
       ELSE FailWith(f, code)

\* The second Create, without the alias.
CreatePlain(f) ==
  LET c == CreateCall(f, NoAlias) IN
  /\ Ensuring(f, "plain")
  /\ \/ Carried(c) /\ Advance(f, flow[f])
     \/ NotCarried /\ Advance(f, Quietly(f, "create"))
     \/ DocRules(c) # {} /\ NotCarried /\ Advance(f, flow[f])

Filled(f, r) ==
  IF Len(r.todo) = 1 THEN Advance(f, r)
  ELSE Local(f, [r EXCEPT !.todo = Tail(@), !.tries = 0])

FillDone(f) ==
  /\ Ensuring(f, "fill")
  /\ \/ Carried(FillCall(f)) /\ Filled(f, flow[f])
     \/ NotCarried /\ Filled(f, Quietly(f, "fill"))

\* Mistake: an alias that is taken stops the flow although it is optional.
FillRefusedStrictly(f) ==
  /\ Ensuring(f, "fill") /\ NotCarried
  /\ \E code \in Refusals(FillCall(f), DocRules(FillCall(f))) :
       IF code = "NameAlreadyBound"
       THEN AliasTaken(f, FailWith(f, code)) ELSE FailWith(f, code)

\* An optional alias that is taken is passed over; other refusals stop the flow.
FillRefused(f) ==
  /\ Ensuring(f, "fill") /\ NotCarried
  /\ \E code \in Refusals(FillCall(f), DocRules(FillCall(f))) :
       IF code = "NameAlreadyBound"
       THEN AliasTaken(f, Filled(f, flow[f])) ELSE FailWith(f, code)

\* A write ends in another error.
EnsureError(f) ==
  /\ \/ Ensuring(f, "create") /\ Lost(CreateCall(f, Want(f).alias))
     \/ Ensuring(f, "plain") /\ Lost(CreateCall(f, NoAlias))
     \/ Ensuring(f, "fill") /\ Lost(FillCall(f))
  /\ FailWith(f, "error")

Ensure(f) ==
  \/ ViewDocument(f) \/ CreateDone(f) \/ CreateRefused(f) \/ CreatePlain(f)
  \/ FillDone(f) \/ FillRefused(f) \/ EnsureError(f)
-----------------------------------------------------------------------------
(* Changes made beside the flows: by the DID handler's single-write         *)
(* endpoints (an avatar, an update of a service and the keys change nothing *)
(* that the flows do not do themselves), and other users' names.            *)

\* With a given suffix; a drawn one binds a name nobody else wants.
SetAlias(p, a) ==
  /\ Missing(p) = {} /\ a \notin bound
  /\ docs' = [docs EXCEPT ![p].alias = a] /\ bound' = bound \union {a}

AddService(p) ==
  /\ Missing(p) = {} /\ docs' = [docs EXCEPT ![p].services = @ + 1]
  /\ UNCHANGED bound

RemoveService(p) ==
  /\ Missing(p) = {} /\ docs[p].services > 0
  /\ docs' = [docs EXCEPT ![p].services = @ - 1]
  /\ UNCHANGED bound

Deactivate(p) ==
  /\ Missing(p) = {} /\ docs' = [docs EXCEPT ![p].active = FALSE]
  /\ UNCHANGED bound

BindElsewhere(a) == a \notin bound /\ bound' = bound \union {a} /\ UNCHANGED docs

GivenNames == {r.issuerDid.alias : r \in {q \in Requests : q.issuerDid.fixed}} \ {NoAlias}

Edit ==
  /\ lost + edits < MaxFaults /\ edits' = edits + 1
  /\ \/ \E p \in Parties : AddService(p) \/ RemoveService(p) \/ Deactivate(p)
     \/ \E a \in GivenNames : BindElsewhere(a) \/ \E p \in Parties : SetAlias(p, a)
  /\ UNCHANGED <<flow, network>>
=============================================================================
