----------------------------- MODULE VcIssuance -----------------------------
(***************************************************************************)
(* The flows that give an account a certificate: POST /api/tool/vc-flow    *)
(* (handler/vc_flow_handler.go), POST /api/tool/vc-issue and the vc module *)
(* of a seed job (handler/vc_issue.go IssueVcToAccount), and did/create,   *)
(* which is the document step alone.  A flow funds both accounts, ensures  *)
(* the issuer's document, registers the issuer's organisation, ensures the *)
(* subject's document, discloses one certificate per schema and reads them *)
(* back.  Each step first asks the chain whether it is already done.       *)
(*                                                                         *)
(* Funding either ends the flow or leaves no trace here: balances are not  *)
(* modelled.  Certificates are signed off the chain, which changes nothing.*)
(***************************************************************************)
EXTENDS DidDocument

CONSTANTS
  Schemas     \* certificate schemas

ASSUME RequestAssumption == Requests # {} /\
  \A r \in Requests :
     /\ r.kind \in {"did", "vc-flow", "vc-issue"}
     /\ r.issuer \in Parties /\ r.subject \in Parties
     /\ r.kind # "did" => r.issuer # r.subject /\ r.type = "Personal"
     /\ r.type \in {"Personal", "Organization"}
     /\ r.issuerDid \in Wants /\ r.subjectDid \in Wants
     /\ r.schemas \in Seq(Schemas) /\ r.schemas # <<>>
     \* only IssueVcToAccount sets AliasOptional; VcFlow clears it
     /\ r.issuerDid.optional = (r.kind = "vc-issue")
     /\ r.subjectDid.optional = (r.kind = "vc-issue")

VARIABLES
  orgs,       \* accounts registered as organisations
  certs,      \* certificates on the chain: <<subject, schema, issuer>>
  runs,       \* runs started, other than did/create
  needed      \* history, of a running flow: something it ensures has been missing in
              \* this run, or one of its own views has failed

identity == <<docs, bound, orgs, certs>>
vars == <<flow, docs, bound, late, lost, edits, orgs, certs, runs, needed>>

Idle == [req |-> CHOOSE r \in Requests : TRUE, stage |-> "none", at |-> "look",
         todo |-> <<>>, tries |-> 0, n |-> 1, blind |-> FALSE, quiet |-> {},
         why |-> "none"]

Init ==
  /\ flow = [f \in Flows |-> Idle] /\ runs = 0
  /\ docs = [p \in Parties |-> NoDoc] /\ bound = {}
  /\ orgs = {} /\ certs = {}
  /\ late = {} /\ lost = 0 /\ edits = 0
  /\ needed = [f \in Flows |-> FALSE]
-----------------------------------------------------------------------------
(* The chain (external): organisations and certificates. *)

Rules(c) ==
  CASE c.op = "RegisterOrganization" ->
         Missing(c.party)
           \union (IF docs[c.party] # NoDoc /\ docs[c.party].type # "Organization"
                   THEN {"NotOrganization"} ELSE {})
           \union (IF c.party \in orgs THEN {"OrganizationAlreadyExists"} ELSE {})
    [] c.op = "DiscloseVcAttestation" ->
         Missing(c.party) \union Missing(c.issuer)
           \union (IF <<c.party, c.schema, c.issuer>> \in certs
                   THEN {"VcAttestationAlreadyExists"} ELSE {})
    [] OTHER -> DocRules(c)

Execute(c) ==
  /\ orgs' = orgs \union IF c.op = "RegisterOrganization" THEN {c.party} ELSE {}
  /\ certs' = certs \union IF c.op = "DiscloseVcAttestation"
                           THEN {<<c.party, c.schema, c.issuer>>} ELSE {}
  /\ IF c.op \in {"RegisterOrganization", "DiscloseVcAttestation"}
     THEN UNCHANGED <<docs, bound>> ELSE DocExecute(c)

LateExecute == \E c \in late :
  /\ late' = late \ {c}
  /\ Rules(c) = {} /\ Execute(c)
  /\ UNCHANGED <<flow, lost, edits, runs>>
-----------------------------------------------------------------------------
Running(f) == flow[f].stage \notin {"none", "done", "failed"}

At(f, stage, at) == flow[f].stage = stage /\ flow[f].at = at

Issuer(f) == flow[f].req.issuer
Subject(f) == flow[f].req.subject
Schema(f) == flow[f].req.schemas[flow[f].n]

RegisterCall(f) == [op |-> "RegisterOrganization", party |-> Issuer(f)]
DiscloseCall(f) == [op |-> "DiscloseVcAttestation", party |-> Subject(f),
                    schema |-> Schema(f), issuer |-> Issuer(f)]

\* On to the next schema of the stage, or to the next stage.
NextSchema(f, r) ==
  IF r.stage # "disclose" \/ r.n = Len(r.req.schemas) THEN Advance(f, r)
  ELSE Local(f, [r EXCEPT !.n = @ + 1, !.at = "look"])

\* A call ends without an error; the chain may have failed it.
Sent(f, c, op) ==
  \/ Rules(c) = {} /\ Execute(c) /\ NextSchema(f, flow[f]) /\ UNCHANGED network
  \/ NextSchema(f, Quietly(f, op)) /\ UNCHANGED <<identity, network>>

\* Every view may fail.
Seen(f, answers) == [flow[f] EXCEPT !.blind = @ \/ ~ answers]

Start(f) == \E r \in Requests :
  /\ ~ Running(f)
  /\ IF r.kind = "did" THEN UNCHANGED runs ELSE runs < MaxRuns /\ runs' = runs + 1
  /\ Local(f, [Idle EXCEPT !.req = r,
                           !.stage = IF r.kind = "did" THEN "subject" ELSE "faucet"])
  /\ UNCHANGED <<identity, network, edits>>

\* Both accounts hold enough gas, or are given it by the faucet; or the flow ends.
Faucet(f) ==
  /\ flow[f].stage = "faucet"
  /\ \/ Local(f, [flow[f] EXCEPT !.stage = "issuer"])
     \/ FailWith(f, "faucet")
  /\ UNCHANGED <<identity, network, edits, runs>>

EnsureDid(f) == Ensure(f) /\ UNCHANGED <<orgs, certs, edits, runs>>

\* Whatever schemas the organisation was registered with, it is not registered again.
ViewOrganization(f) == \E answers \in BOOLEAN :
  /\ At(f, "org", "look")
  /\ IF answers /\ Issuer(f) \in orgs
     THEN Advance(f, flow[f])
     ELSE Local(f, [Seen(f, answers) EXCEPT !.at = "send"])
  /\ UNCHANGED <<identity, network, edits, runs>>

RegisterOrganization(f) ==
  /\ At(f, "org", "send")
  /\ Sent(f, RegisterCall(f), "register")
  /\ UNCHANGED <<edits, runs>>

RegisterRefused(f) == \E code \in Rules(RegisterCall(f)) :
  /\ At(f, "org", "send")
  /\ IF code = "OrganizationAlreadyExists" THEN Advance(f, flow[f])
                                           ELSE FailWith(f, code)
  /\ UNCHANGED <<identity, network, edits, runs>>

ViewCertificate(f) == \E answers \in BOOLEAN :
  /\ At(f, "disclose", "look")
  /\ IF answers /\ <<Subject(f), Schema(f), Issuer(f)>> \in certs
     THEN NextSchema(f, flow[f])
     ELSE Local(f, [Seen(f, answers) EXCEPT !.at = "send"])
  /\ UNCHANGED <<identity, network, edits, runs>>

Disclose(f) ==
  /\ At(f, "disclose", "send")
  /\ Sent(f, DiscloseCall(f), "disclose")
  /\ UNCHANGED <<edits, runs>>

\* Mistake: any refusal is taken for a certificate that is there already.
DiscloseAnyRefusal(f) == \E code \in Rules(DiscloseCall(f)) :
  /\ At(f, "disclose", "send")
  /\ NextSchema(f, flow[f])
  /\ UNCHANGED <<identity, network, edits, runs>>

DiscloseRefused(f) == \E code \in Rules(DiscloseCall(f)) :
  /\ At(f, "disclose", "send")
  /\ IF code = "VcAttestationAlreadyExists" THEN NextSchema(f, flow[f])
                                            ELSE FailWith(f, code)
  /\ UNCHANGED <<identity, network, edits, runs>>

CallError(f) ==
  /\ \E c \in (IF At(f, "org", "send") THEN {RegisterCall(f)} ELSE {})
                \union (IF At(f, "disclose", "send") THEN {DiscloseCall(f)} ELSE {}) :
       Lost(c)
  /\ FailWith(f, "error")
  /\ UNCHANGED <<orgs, certs, edits, runs>>

\* Mistake: one certificate that is listed is enough.
VerifyOne(f, listed) == \E s \in DOMAIN flow[f].req.schemas :
  \E c \in listed : c[2] = flow[f].req.schemas[s]

\* A certificate counts as listed by its schema, whoever issued it.
VerifyAll(f, listed) == \A s \in DOMAIN flow[f].req.schemas :
  \E c \in listed : c[2] = flow[f].req.schemas[s]

\* The DisclosedVcs view lists the subject's certificates, or fails.  Only vc-issue
\* fails when one is not listed.
Verify(f) == \E listed \in {{}, {c \in certs : c[1] = Subject(f)}} :
  /\ flow[f].stage = "verify"
  /\ IF flow[f].req.kind = "vc-flow" \/ VerifyAll(f, listed)
     THEN Advance(f, flow[f]) ELSE FailWith(f, "not listed")
  /\ UNCHANGED <<identity, network, edits, runs>>

Step(f) ==
  \/ Start(f) \/ Faucet(f) \/ EnsureDid(f)
  \/ ViewOrganization(f) \/ RegisterOrganization(f) \/ RegisterRefused(f)
  \/ ViewCertificate(f) \/ Disclose(f) \/ DiscloseRefused(f)
  \/ CallError(f) \/ Verify(f)

Others == LateExecute \/ (Edit /\ UNCHANGED <<orgs, certs, runs>>)
-----------------------------------------------------------------------------
(* Everything a request asks for is on the chain. *)

Ready(p, want) ==
  /\ docs[p] # NoDoc
  /\ want.alias \in {NoAlias, docs[p].alias}
  /\ want.service => docs[p].services > 0
  /\ want.avatar => docs[p].avatar

Certified(r) == \A s \in DOMAIN r.schemas :
  <<r.subject, r.schemas[s], r.issuer>> \in certs

InPlace(r) ==
  /\ Ready(r.subject, r.subjectDid)
  /\ r.kind # "did" => /\ Ready(r.issuer, r.issuerDid) /\ r.issuer \in orgs
                       /\ Certified(r)

\* The history is kept beside every step.
Record == needed' = [f \in Flows |->
  Running(f)' /\ (~ InPlace(flow[f].req)' \/ flow'[f].blind \/ (Running(f) /\ needed[f]))]

Next == (Others \/ \E f \in Flows : Step(f)) /\ Record

Spec == Init /\ [][Next]_vars
-----------------------------------------------------------------------------
(* Properties *)

\* A flow that ends without an error leaves what it ensures: the documents, the
\* organisation and every certificate are on the chain, whoever else was writing
\* and whatever views failed, unless the chain failed one of the flow's own writes
\* without an error of the call.
OkMeansThere == \A f \in Flows :
  LET r == flow[f].req IN
  flow[f].stage = "done" =>
    /\ docs[r.subject] # NoDoc \/ "create" \in flow[f].quiet
    /\ r.kind # "did" =>
         /\ docs[r.issuer] # NoDoc \/ "create" \in flow[f].quiet
         /\ r.issuer \in orgs \/ "register" \in flow[f].quiet
         /\ Certified(r) \/ "disclose" \in flow[f].quiet

\* A vc-issue that ends without an error has seen a certificate of every schema on
\* the chain, even if a disclosure failed quietly: the subject has one, though
\* perhaps from another issuer.
IssuedOnChain == \A f \in Flows :
  LET r == flow[f].req IN
  flow[f].stage = "done" /\ r.kind = "vc-issue" =>
    \A s \in DOMAIN r.schemas : \E i \in Parties : <<r.subject, r.schemas[s], i>> \in certs

\* The same service is registered more than once only by flows that viewed the
\* document at the same time, by a write that was given up or by a change of the
\* document in between, never by a later run.
ServicesBounded == \A p \in Parties :
  docs[p] # NoDoc => docs[p].services <= Cardinality(Flows) + lost + edits

\* A flow whose aliases are optional never fails because a name is taken, whether
\* the document has to be created or exists.
OptionalNeverBlocks == \A f \in Flows :
  flow[f].req.kind = "vc-issue" => flow[f].why # "NameAlreadyBound"

\* A flow that finds everything in place, and stays to find it so, sends nothing.
SettledRerun == \A f \in Flows :
  Running(f) /\ flow[f].at # "look" => needed[f]

Stages == {"none", "faucet", "issuer", "org", "subject", "disclose", "verify",
           "done", "failed"}
TypeOK ==
  /\ \A f \in Flows :
       /\ flow[f].req \in Requests /\ flow[f].stage \in Stages
       /\ flow[f].at \in {"look", "create", "plain", "fill", "send"}
       /\ flow[f].todo \in Seq({"SetAlias", "AddService", "SetAvatarUri"})
       /\ flow[f].at = "fill" <=> flow[f].todo # <<>>
       /\ flow[f].tries \in 0..MaxRetries /\ flow[f].n \in DOMAIN flow[f].req.schemas
       /\ flow[f].blind \in BOOLEAN
  /\ docs \in [Parties -> Docs \union {NoDoc}] /\ bound \subseteq Aliases
  /\ orgs \subseteq Parties /\ certs \subseteq Parties \X Schemas \X Parties
  /\ lost \in Nat /\ edits \in Nat /\ lost + edits <= MaxFaults
  /\ Cardinality(late) <= lost
  /\ runs \in 0..MaxRuns /\ needed \in [Flows -> BOOLEAN]
=============================================================================
