-------------------------- MODULE VcIssuanceProofs --------------------------
(***************************************************************************)
(* Proofs about VcIssuance for any flows, accounts and requests.  Documents*)
(* registrations and certificates are never taken back, so that what a     *)
(* flow has found or made stays (Progressed).  The services of a document  *)
(* are counted together with those that are still to come (Services): a    *)
(* flow sets out to add one only when it has seen none.                    *)
(***************************************************************************)
EXTENDS VcIssuance, FiniteSetTheorems, SequenceTheorems, TLAPS

Fills == {"SetAlias", "AddService", "SetAvatarUri"}
Writes == {"create", "fill", "register", "disclose"}
Codes == {"none", "faucet", "error", "not listed", "NameAlreadyBound",
          "DidAlreadyExists", "DidNotFound", "DidDeactivated", "NotOrganization",
          "OrganizationAlreadyExists", "VcAttestationAlreadyExists"}

DocCalls == [op : {"Create"} \union Fills, party : Parties,
             type : {"Personal", "Organization"}, alias : Aliases \union {NoAlias},
             fixed : BOOLEAN, service : BOOLEAN, avatar : BOOLEAN]
RegisterCalls == [op : {"RegisterOrganization"}, party : Parties]
DiscloseCalls == [op : {"DiscloseVcAttestation"}, party : Parties, schema : Schemas,
                  issuer : Parties]
Calls == DocCalls \union RegisterCalls \union DiscloseCalls

FlowRecords == [req : Requests, stage : Stages,
                at : {"look", "create", "plain", "fill", "send"}, todo : Seq(Fills),
                tries : 0..MaxRetries, n : Nat, blind : BOOLEAN,
                quiet : SUBSET Writes, why : Codes]

Has(s, x) == \E i \in DOMAIN s : s[i] = x
Once(s) == \A i, j \in DOMAIN s : s[i] = s[j] => i = j

\* Where a flow can be: which places belong to which stages, which stages to which
\* requests, and what is left to fill in is there once.
Placed(r) ==
  /\ r.n \in DOMAIN r.req.schemas
  /\ r.at = "fill" <=> r.todo # <<>>
  /\ Once(r.todo)
  /\ r.stage \in {"issuer", "subject"} => r.at # "send"
  /\ r.stage \in {"org", "disclose"} => r.at \in {"look", "send"}
  /\ r.stage \notin {"issuer", "subject", "org", "disclose"} => r.at = "look"
  /\ r.req.kind = "did" => r.stage \in {"none", "subject", "done", "failed"}
  /\ r.req.kind = "vc-issue" => r.why # "NameAlreadyBound"

FlowTypes == flow \in [Flows -> FlowRecords] /\ \A f \in Flows : Placed(flow[f])

ChainTypes ==
  /\ docs \in [Parties -> Docs \union {NoDoc}] /\ bound \subseteq Aliases
  /\ orgs \subseteq Parties /\ certs \subseteq Parties \X Schemas \X Parties
  /\ lost \in Nat /\ edits \in Nat /\ lost + edits <= MaxFaults
  /\ late \subseteq Calls /\ IsFiniteSet(late) /\ Cardinality(late) <= lost
  /\ runs \in 0..MaxRuns /\ needed \in [Flows -> BOOLEAN]

\* What a flow has found or made, unless a write of its own failed quietly.
HasDoc(r, p) == docs[p] # NoDoc \/ "create" \in r.quiet
HasCert(r, s) == <<r.req.subject, r.req.schemas[s], r.req.issuer>> \in certs
                 \/ "disclose" \in r.quiet
Progressed(r) ==
  /\ r.at = "fill" => docs[IF r.stage = "issuer" THEN r.req.issuer
                                                 ELSE r.req.subject] # NoDoc
  /\ r.stage \in {"disclose", "verify", "done"} => HasDoc(r, r.req.subject)
  /\ r.req.kind # "did" =>
       /\ r.stage \in {"org", "subject", "disclose", "verify", "done"}
            => HasDoc(r, r.req.issuer)
       /\ r.stage \in {"subject", "disclose", "verify", "done"}
            => r.req.issuer \in orgs \/ "register" \in r.quiet
       /\ r.stage = "disclose" => \A s \in 1..(r.n - 1) : HasCert(r, s)
       /\ r.stage \in {"verify", "done"} => \A s \in DOMAIN r.req.schemas : HasCert(r, s)

\* A service that was called for, in vain so far, goes to a document that exists.
LateAdds(p) == {c \in late : c.op = "AddService" /\ c.party = p}
Late == \A p \in Parties : LateAdds(p) # {} => docs[p] # NoDoc

\* Flows that are going to add a service.
Adds(r, p) == /\ r.at = "fill" /\ Has(r.todo, "AddService")
              /\ p = IF r.stage = "issuer" THEN r.req.issuer ELSE r.req.subject
Adders(p) == {f \in Flows : Adds(flow[f], p)}

Services == \A p \in Parties : docs[p] # NoDoc =>
  docs[p].services + Cardinality(Adders(p)) + Cardinality(LateAdds(p))
    <= Cardinality(Flows) + lost + edits

IInv == /\ FlowTypes /\ ChainTypes /\ Late /\ Services
        /\ \A f \in Flows : Progressed(flow[f])
        /\ IssuedOnChain /\ SettledRerun

-----------------------------------------------------------------------------
(* What is left to fill in. *)

\* Joining two lists without common elements.
LEMMA Joined ==
  ASSUME NEW s \in Seq(Fills), NEW t \in Seq(Fills), Once(s), Once(t),
         \A x : ~ (Has(s, x) /\ Has(t, x))
  PROVE  /\ s \o t \in Seq(Fills) /\ Once(s \o t)
         /\ \A x : Has(s \o t, x) => Has(s, x) \/ Has(t, x)
         /\ s \o t # <<>> => s # <<>> \/ t # <<>>
<1> DEFINE u == s \o t
<1>1. /\ u \in Seq(Fills) /\ Len(u) = Len(s) + Len(t)
      /\ Len(s) \in Nat /\ Len(t) \in Nat
      /\ \A i \in 1..Len(u) : u[i] = IF i <= Len(s) THEN s[i] ELSE t[i - Len(s)]
  OBVIOUS
<1>2. DOMAIN u = 1..(Len(s) + Len(t)) /\ DOMAIN s = 1..Len(s) /\ DOMAIN t = 1..Len(t)
  BY <1>1
<1> HIDE DEF u
<1>3. \A i \in DOMAIN u : \/ i \in DOMAIN s /\ u[i] = s[i]
                          \/ /\ i - Len(s) \in DOMAIN t /\ u[i] = t[i - Len(s)]
                             /\ i \notin DOMAIN s
  BY <1>1, <1>2
<1>4. \A x : Has(u, x) => Has(s, x) \/ Has(t, x)
  BY <1>3 DEF Has
<1>5. Once(u)
  <2> SUFFICES ASSUME NEW i \in DOMAIN u, NEW j \in DOMAIN u, u[i] = u[j] PROVE i = j
    BY DEF Once
  <2>1. CASE i \in DOMAIN s /\ j \in DOMAIN s
    BY <1>3, <2>1 DEF Once
  <2>2. CASE i \notin DOMAIN s /\ j \notin DOMAIN s
    <3>1. i - Len(s) = j - Len(s)
      BY <1>3, <2>2 DEF Once
    <3>2. i \in Int /\ j \in Int /\ Len(s) \in Int
      BY <1>1, <1>2
    <3> QED
      BY <3>1, <3>2
  <2>3. CASE i \in DOMAIN s /\ j \notin DOMAIN s
    <3>1. Has(s, u[i]) /\ Has(t, u[i])
      BY <1>3, <2>3 DEF Has
    <3> QED
      BY <3>1
  <2>4. CASE i \notin DOMAIN s /\ j \in DOMAIN s
    <3>1. Has(s, u[i]) /\ Has(t, u[i])
      BY <1>3, <2>4 DEF Has
    <3> QED
      BY <3>1
  <2> QED
    BY <2>1, <2>2, <2>3, <2>4
<1>6. u # <<>> => s # <<>> \/ t # <<>>
  <2> SUFFICES ASSUME s = <<>>, t = <<>> PROVE u = <<>>
    OBVIOUS
  <2>1. Len(s) = 0 /\ Len(t) = 0
    OBVIOUS
  <2>2. Len(u) = 0
    BY <1>1, <2>1
  <2> QED
    BY <1>1, <2>2
<1> QED
  BY <1>1, <1>4, <1>5, <1>6 DEF u

\* A list of one write, or of none.
LEMMA Single ==
  ASSUME NEW P \in BOOLEAN, NEW x \in Fills, NEW s, s = IF P THEN <<x>> ELSE <<>>
  PROVE  /\ s \in Seq(Fills) /\ Once(s)
         /\ \A y : Has(s, y) => P /\ y = x
         /\ s # <<>> => P
<1>1. CASE P
  <2>1. s = <<x>>
    BY <1>1
  <2>2. s \in Seq(Fills) /\ DOMAIN s = 1..1 /\ s[1] = x
    BY <2>1
  <2> QED
    BY <1>1, <2>2 DEF Once, Has
<1>2. CASE ~ P
  <2>1. s = <<>>
    BY <1>2
  <2>2. s \in Seq(Fills) /\ DOMAIN s = {}
    BY <2>1
  <2> QED
    BY <1>2, <2>1, <2>2 DEF Once, Has
<1> QED
  BY <1>1, <1>2

\* What an existing document lacks: each write once, the service only if the
\* document has none, nothing if it has all that is wanted.
LEMMA BackfillIs ==
  ASSUME NEW doc, NEW want
  PROVE  /\ Backfill(doc, want) \in Seq(Fills) /\ Once(Backfill(doc, want))
         /\ Has(Backfill(doc, want), "AddService") => doc.services = 0
         /\ Backfill(doc, want) # <<>> =>
              \/ want.alias \notin {NoAlias, doc.alias}
              \/ want.service /\ doc.services = 0
              \/ want.avatar /\ ~ doc.avatar
<1> DEFINE P == want.alias # NoAlias /\ doc.alias # want.alias
           Q == want.service /\ doc.services = 0
           R == want.avatar /\ ~ doc.avatar
           a == IF P THEN <<"SetAlias">> ELSE <<>>
           b == IF Q THEN <<"AddService">> ELSE <<>>
           c == IF R THEN <<"SetAvatarUri">> ELSE <<>>
<1>1. P \in BOOLEAN /\ Q \in BOOLEAN /\ R \in BOOLEAN
  OBVIOUS
<1>2. Backfill(doc, want) = (a \o b) \o c
  BY DEF Backfill
<1>3. \A x : (x = "AddService" /\ Q => doc.services = 0) /\ (Q => want.service /\ doc.services = 0)
             /\ (P => want.alias \notin {NoAlias, doc.alias})
             /\ (R => want.avatar /\ ~ doc.avatar)
  OBVIOUS
<1> HIDE DEF P, Q, R
<1>4. "SetAlias" \in Fills /\ "AddService" \in Fills /\ "SetAvatarUri" \in Fills
  BY DEF Fills
<1>5. /\ a \in Seq(Fills) /\ Once(a) /\ (a # <<>> => P)
      /\ \A y : Has(a, y) => P /\ y = "SetAlias"
  BY <1>1, <1>4, Single
<1>6. /\ b \in Seq(Fills) /\ Once(b) /\ (b # <<>> => Q)
      /\ \A y : Has(b, y) => Q /\ y = "AddService"
  BY <1>1, <1>4, Single
<1>7. /\ c \in Seq(Fills) /\ Once(c) /\ (c # <<>> => R)
      /\ \A y : Has(c, y) => R /\ y = "SetAvatarUri"
  BY <1>1, <1>4, Single
<1> HIDE DEF a, b, c
<1>8. /\ a \o b \in Seq(Fills) /\ Once(a \o b)
      /\ \A x : Has(a \o b, x) => Has(a, x) \/ Has(b, x)
      /\ a \o b # <<>> => a # <<>> \/ b # <<>>
  BY <1>5, <1>6, Joined
<1>9. /\ (a \o b) \o c \in Seq(Fills) /\ Once((a \o b) \o c)
      /\ \A x : Has((a \o b) \o c, x) => Has(a \o b, x) \/ Has(c, x)
      /\ (a \o b) \o c # <<>> => a \o b # <<>> \/ c # <<>>
  <2>1. \A x : ~ (Has(a \o b, x) /\ Has(c, x))
    BY <1>5, <1>6, <1>7, <1>8
  <2> QED
    BY <1>7, <1>8, <2>1, Joined
<1> QED
  BY <1>2, <1>3, <1>5, <1>6, <1>7, <1>8, <1>9

\* After the first write of the list has gone.
LEMMA RestOf ==
  ASSUME NEW s \in Seq(Fills), s # <<>>, Once(s)
  PROVE  /\ Head(s) \in Fills /\ Has(s, Head(s))
         /\ Tail(s) \in Seq(Fills) /\ Once(Tail(s)) /\ ~ Has(Tail(s), Head(s))
         /\ \A x : Has(Tail(s), x) => Has(s, x)
         /\ Len(s) # 1 => Tail(s) # <<>>
<1>1. /\ Len(s) \in Nat /\ Len(s) >= 1 /\ DOMAIN s = 1..Len(s) /\ Head(s) = s[1]
  OBVIOUS
<1>2. /\ Tail(s) \in Seq(Fills) /\ Len(Tail(s)) = Len(s) - 1
      /\ \A i \in 1..(Len(s) - 1) : Tail(s)[i] = s[i + 1]
  BY <1>1
<1>3. DOMAIN Tail(s) = 1..(Len(s) - 1)
  BY <1>2
<1>4. 1 \in DOMAIN s /\ \A i \in DOMAIN s : s[i] \in Fills
  BY <1>1
<1>5. \A i \in DOMAIN Tail(s) : i + 1 \in DOMAIN s /\ i + 1 # 1 /\ Tail(s)[i] = s[i + 1]
  BY <1>1, <1>2, <1>3
<1>6. \A i, j \in DOMAIN Tail(s) : i + 1 = j + 1 => i = j
  BY <1>1, <1>3
<1>7. Once(Tail(s)) /\ ~ Has(Tail(s), Head(s))
  <2> DEFINE t == Tail(s)
  <2>1. \A i \in DOMAIN t : \E k \in DOMAIN s : k = i + 1 /\ k # 1 /\ t[i] = s[k]
    BY <1>5
  <2>2. \A i, j \in DOMAIN t : i + 1 = j + 1 => i = j
    BY <1>6
  <2> HIDE DEF t
  <2>3. Once(t)
    BY <2>1, <2>2 DEF Once
  <2>4. ~ Has(t, s[1])
    BY <1>4, <2>1 DEF Once, Has
  <2> QED
    BY <1>1, <2>3, <2>4 DEF t
<1>8. \A x : Has(Tail(s), x) => Has(s, x)
  BY <1>5 DEF Has
<1>9. Len(s) # 1 => Tail(s) # <<>>
  <2>1. Len(s) # 1 => Len(Tail(s)) # 0
    BY <1>1, <1>2
  <2>2. \A t : t = <<>> => Len(t) = 0
    OBVIOUS
  <2> QED
    BY <2>1, <2>2
<1>10. Head(s) \in Fills /\ Has(s, Head(s))
  BY <1>1, <1>4 DEF Has
<1> QED
  BY <1>2, <1>7, <1>8, <1>9, <1>10

-----------------------------------------------------------------------------
(* Calls, and what the chain does with them. *)

\* A flow's account, wishes and calls in the steps of its documents.
LEMMA CallsAre ==
  ASSUME FlowTypes, NEW f \in Flows
  PROVE  /\ flow[f] \in FlowRecords /\ Placed(flow[f]) /\ flow[f].req \in Requests
         /\ Party(f) \in Parties /\ Want(f) \in Wants
         /\ Want(f).optional = (flow[f].req.kind = "vc-issue")
         /\ Issuer(f) \in Parties /\ Subject(f) \in Parties /\ Schema(f) \in Schemas
         /\ CreateCall(f, Want(f).alias) \in DocCalls /\ CreateCall(f, NoAlias) \in DocCalls
         /\ flow[f].at = "fill" => FillCall(f) \in DocCalls /\ FillCall(f).op = Head(flow[f].todo)
         /\ FillCall(f).party = Party(f)
         /\ RegisterCall(f) \in RegisterCalls /\ DiscloseCall(f) \in DiscloseCalls
<1>1. flow[f] \in FlowRecords /\ Placed(flow[f])
  BY DEF FlowTypes
<1>2. /\ flow[f].req \in Requests /\ flow[f].todo \in Seq(Fills)
      /\ flow[f].n \in DOMAIN flow[f].req.schemas
      /\ flow[f].at = "fill" => flow[f].todo # <<>>
  BY <1>1 DEF FlowRecords, Placed
<1> DEFINE r == flow[f].req
<1>3. /\ r.issuer \in Parties /\ r.subject \in Parties
      /\ r.type \in {"Personal", "Organization"}
      /\ r.issuerDid \in Wants /\ r.subjectDid \in Wants
      /\ r.schemas \in Seq(Schemas)
      /\ r.issuerDid.optional = (r.kind = "vc-issue")
      /\ r.subjectDid.optional = (r.kind = "vc-issue")
  BY <1>2, RequestAssumption
<1>4. /\ Party(f) \in Parties /\ Want(f) \in Wants
      /\ Want(f).optional = (flow[f].req.kind = "vc-issue")
      /\ Type(f) \in {"Personal", "Organization"}
  BY <1>3 DEF Party, Want, Type
<1>5. Issuer(f) \in Parties /\ Subject(f) \in Parties /\ Schema(f) \in Schemas
  BY <1>2, <1>3 DEF Issuer, Subject, Schema
<1>6. /\ Want(f).alias \in Aliases \union {NoAlias} /\ Want(f).fixed \in BOOLEAN
      /\ Want(f).service \in BOOLEAN /\ Want(f).avatar \in BOOLEAN
  BY <1>4 DEF Wants
<1>7. CreateCall(f, Want(f).alias) \in DocCalls /\ CreateCall(f, NoAlias) \in DocCalls
  BY <1>4, <1>6 DEF CreateCall, DocCall, DocCalls
<1>8. flow[f].at = "fill" => FillCall(f) \in DocCalls
  <2> SUFFICES ASSUME flow[f].at = "fill" PROVE FillCall(f) \in DocCalls
    OBVIOUS
  <2>1. Head(flow[f].todo) \in Fills
    BY <1>1, <1>2, RestOf DEF Placed
  <2> QED
    BY <1>4, <1>6, <2>1 DEF FillCall, DocCall, DocCalls
<1>9. FillCall(f).party = Party(f) /\ FillCall(f).op = Head(flow[f].todo)
  BY DEF FillCall, DocCall
<1>10. RegisterCall(f) \in RegisterCalls /\ DiscloseCall(f) \in DiscloseCalls
  BY <1>5 DEF RegisterCall, RegisterCalls, DiscloseCall, DiscloseCalls
<1> QED
  BY <1>1, <1>2, <1>4, <1>5, <1>7, <1>8, <1>9, <1>10

\* The sorts of calls do not meet.
LEMMA SortsDiffer ==
  ASSUME NEW c \in Calls
  PROVE  /\ c.party \in Parties
         /\ c \in RegisterCalls <=> c.op = "RegisterOrganization"
         /\ c \in DiscloseCalls <=> c.op = "DiscloseVcAttestation"
         /\ c \in DocCalls <=> c.op \in {"Create"} \union Fills
         /\ c.op \in {"RegisterOrganization", "DiscloseVcAttestation", "Create"} \union Fills
BY DEF Calls, DocCalls, RegisterCalls, DiscloseCalls, Fills

\* A document is made with one service at most; only AddService adds one later.
LEMMA DocEffect ==
  ASSUME ChainTypes, NEW c \in DocCalls, DocRules(c) = {}, DocExecute(c)
  PROVE  /\ docs' \in [Parties -> Docs \union {NoDoc}] /\ bound' \subseteq Aliases
         /\ \A p \in Parties : docs[p] # NoDoc => docs'[p] # NoDoc
         /\ \A p \in Parties \ {c.party} : docs'[p] = docs[p]
         /\ docs'[c.party] # NoDoc
         /\ c.op = "Create" => docs[c.party] = NoDoc /\ docs'[c.party].services <= 1
         /\ c.op # "Create" => docs[c.party] # NoDoc
         /\ c.op \in {"SetAlias", "SetAvatarUri"} =>
              docs'[c.party].services = docs[c.party].services
         /\ c.op = "AddService" => docs'[c.party].services = docs[c.party].services + 1
<1>1. /\ c.op \in {"Create"} \union Fills /\ c.party \in Parties
      /\ c.type \in {"Personal", "Organization"} /\ c.alias \in Aliases \union {NoAlias}
      /\ c.service \in BOOLEAN /\ c.avatar \in BOOLEAN
  BY DEF DocCalls
<1>2. docs \in [Parties -> Docs \union {NoDoc}] /\ bound \subseteq Aliases
  BY DEF ChainTypes
<1>3. bound' \subseteq Aliases
  BY <1>1, <1>2 DEF DocExecute, Binds
<1>4. /\ c.op = "Create" => docs[c.party] = NoDoc
      /\ c.op # "Create" => docs[c.party] # NoDoc
  BY DEF DocRules, Missing
<1> DEFINE doc == docs[c.party]
           new == CASE c.op = "Create" -> [type |-> c.type, active |-> TRUE,
                                           alias |-> c.alias,
                                           services |-> IF c.service THEN 1 ELSE 0,
                                           avatar |-> c.avatar]
                    [] c.op = "SetAlias" -> [doc EXCEPT !.alias = c.alias]
                    [] c.op = "AddService" -> [doc EXCEPT !.services = @ + 1]
                    [] c.op = "SetAvatarUri" -> [doc EXCEPT !.avatar = TRUE]
<1>5. docs' = [docs EXCEPT ![c.party] = new]
  BY DEF DocExecute
<1>6. c.op # "Create" => doc \in Docs
  BY <1>1, <1>2, <1>4
<1>7. /\ new \in Docs
      /\ c.op = "Create" => new.services <= 1
      /\ c.op \in {"SetAlias", "SetAvatarUri"} => new.services = doc.services
      /\ c.op = "AddService" => new.services = doc.services + 1
  <2>1. CASE c.op = "Create"
    <3> DEFINE n == IF c.service THEN 1 ELSE 0
    <3>1. new = [type |-> c.type, active |-> TRUE, alias |-> c.alias, services |-> n,
                 avatar |-> c.avatar]
      BY <2>1
    <3>2. n \in Nat /\ n <= 1
      OBVIOUS
    <3> HIDE DEF n, new
    <3>3. new \in Docs /\ new.services = n
      BY <1>1, <3>1, <3>2 DEF Docs
    <3> QED
      BY <2>1, <3>2, <3>3
  <2>2. CASE c.op = "SetAlias"
    <3>1. new = [doc EXCEPT !.alias = c.alias]
      BY <2>2
    <3> QED
      BY <1>1, <1>6, <2>2, <3>1 DEF Docs
  <2>3. CASE c.op = "AddService"
    <3>1. new = [doc EXCEPT !.services = @ + 1]
      BY <2>3
    <3> QED
      BY <1>1, <1>6, <2>3, <3>1 DEF Docs
  <2>4. CASE c.op = "SetAvatarUri"
    <3>1. new = [doc EXCEPT !.avatar = TRUE]
      BY <2>4
    <3> QED
      BY <1>1, <1>6, <2>4, <3>1 DEF Docs
  <2> QED
    BY <1>1, <2>1, <2>2, <2>3, <2>4 DEF Fills
<1> HIDE DEF new
<1>8. /\ docs' \in [Parties -> Docs \union {NoDoc}] /\ docs'[c.party] = new
      /\ \A p \in Parties \ {c.party} : docs'[p] = docs[p]
  BY <1>1, <1>2, <1>5, <1>7
<1>9. new # NoDoc
  BY <1>7, NoDocAssumption
<1> QED
  BY <1>1, <1>3, <1>4, <1>7, <1>8, <1>9

\* What was written stays.
Grows == /\ \A p \in Parties : docs[p] # NoDoc => docs'[p] # NoDoc
         /\ orgs \subseteq orgs' /\ certs \subseteq certs'

IdentityTypes ==
  /\ docs \in [Parties -> Docs \union {NoDoc}] /\ bound \subseteq Aliases
  /\ orgs \subseteq Parties /\ certs \subseteq Parties \X Schemas \X Parties

LEMMA ExecuteStep ==
  ASSUME ChainTypes, NEW c \in Calls, Rules(c) = {}, Execute(c)
  PROVE  /\ Grows /\ IdentityTypes'
         /\ c.op \in {"RegisterOrganization", "DiscloseVcAttestation"} => docs' = docs
         /\ c.op = "RegisterOrganization" => c.party \in orgs'
         /\ c.op = "DiscloseVcAttestation" => <<c.party, c.schema, c.issuer>> \in certs'
<1>1. CASE c \in DocCalls
  <2>1. c.op \notin {"RegisterOrganization", "DiscloseVcAttestation"}
    BY <1>1 DEF DocCalls, Fills
  <2>2. /\ DocRules(c) = {} /\ DocExecute(c) /\ orgs' = orgs /\ certs' = certs
    BY <2>1 DEF Rules, Execute
  <2> QED
    BY <1>1, <2>1, <2>2, DocEffect DEF Grows, IdentityTypes, ChainTypes
<1>2. CASE c \in RegisterCalls
  <2>1. /\ c.op = "RegisterOrganization" /\ c.party \in Parties
        /\ docs' = docs /\ bound' = bound /\ orgs' = orgs \union {c.party} /\ certs' = certs
    BY <1>2 DEF RegisterCalls, Execute
  <2> QED
    BY <2>1 DEF Grows, IdentityTypes, ChainTypes
<1>3. CASE c \in DiscloseCalls
  <2>1. /\ c.op = "DiscloseVcAttestation" /\ c.party \in Parties
        /\ c.schema \in Schemas /\ c.issuer \in Parties
        /\ docs' = docs /\ bound' = bound /\ orgs' = orgs
        /\ certs' = certs \union {<<c.party, c.schema, c.issuer>>}
    BY <1>3 DEF DiscloseCalls, Execute
  <2> QED
    BY <2>1 DEF Grows, IdentityTypes, ChainTypes
<1> QED
  BY <1>1, <1>2, <1>3 DEF Calls

\* Changes by others.
LEMMA EditStep ==
  ASSUME ChainTypes, Edit, UNCHANGED <<orgs, certs, runs>>
  PROVE  /\ Grows /\ IdentityTypes' /\ flow' = flow
         /\ late' = late /\ lost' = lost /\ edits' = edits + 1 /\ lost + edits < MaxFaults
         /\ \A p \in Parties : docs[p] = NoDoc => docs'[p] = NoDoc
         /\ \A p \in Parties : docs[p] # NoDoc => docs'[p].services <= docs[p].services + 1
<1>1. /\ edits' = edits + 1 /\ flow' = flow /\ late' = late /\ lost' = lost
      /\ lost + edits < MaxFaults
  BY DEF Edit, network
<1>2. /\ docs \in [Parties -> Docs \union {NoDoc}] /\ bound \subseteq Aliases
      /\ orgs' = orgs /\ certs' = certs
  BY DEF ChainTypes
<1>3. GivenNames \subseteq Aliases
  BY RequestAssumption DEF GivenNames, Wants
<1> DEFINE Good == /\ Grows /\ IdentityTypes'
                   /\ \A q \in Parties : docs[q] = NoDoc => docs'[q] = NoDoc
                   /\ \A q \in Parties : docs[q] # NoDoc =>
                        docs'[q].services <= docs[q].services + 1
<1>4. ASSUME NEW p \in Parties, docs[p] # NoDoc, NEW d \in Docs,
             d.services <= docs[p].services + 1,
             docs' = [docs EXCEPT ![p] = d], bound' \subseteq Aliases
      PROVE  Good
  <2>1. docs' \in [Parties -> Docs \union {NoDoc}]
    BY <1>2, <1>4
  <2>2. docs'[p] = d /\ d # NoDoc /\ \A q \in Parties \ {p} : docs'[q] = docs[q]
    BY <1>2, <1>4, NoDocAssumption
  <2>3. \A q \in Parties : docs[q] # NoDoc => docs[q].services \in Nat
    BY <1>2 DEF Docs
  <2>4. \A q \in Parties : docs[q] # NoDoc => docs'[q].services <= docs[q].services + 1
    BY <1>4, <2>2, <2>3
  <2> QED
    BY <1>2, <1>4, <2>1, <2>2, <2>4 DEF Grows, IdentityTypes, ChainTypes
<1>5. ASSUME docs' = docs, bound' \subseteq Aliases PROVE Good
  <2>1. \A q \in Parties : docs[q] # NoDoc => docs[q].services \in Nat
    BY <1>2 DEF Docs
  <2>2. \A q \in Parties : docs[q] # NoDoc => docs'[q].services <= docs[q].services + 1
    BY <1>5, <2>1
  <2>3. Grows /\ IdentityTypes'
    BY <1>2, <1>5 DEF Grows, IdentityTypes, ChainTypes
  <2>4. \A q \in Parties : docs[q] = NoDoc => docs'[q] = NoDoc
    BY <1>5
  <2> QED
    BY <2>2, <2>3, <2>4
<1> HIDE DEF Good
<1>6. ASSUME NEW p \in Parties, AddService(p) PROVE Good
  <2>1. docs[p] \in Docs /\ docs[p] # NoDoc
    BY <1>2, <1>6 DEF AddService, Missing
  <2>2. [docs[p] EXCEPT !.services = @ + 1] \in Docs
    BY <2>1 DEF Docs
  <2>3. [docs[p] EXCEPT !.services = @ + 1].services <= docs[p].services + 1
    BY <2>1 DEF Docs
  <2>4. docs' = [docs EXCEPT ![p] = [docs[p] EXCEPT !.services = @ + 1]] /\ bound' = bound
    BY <1>6 DEF AddService
  <2> QED
    BY <1>2, <1>4, <2>1, <2>2, <2>3, <2>4
<1>7. ASSUME NEW p \in Parties, RemoveService(p) PROVE Good
  <2>1. docs[p] \in Docs /\ docs[p] # NoDoc /\ docs[p].services > 0
    BY <1>2, <1>7 DEF RemoveService, Missing
  <2>2. [docs[p] EXCEPT !.services = @ - 1] \in Docs
    BY <2>1 DEF Docs
  <2>3. [docs[p] EXCEPT !.services = @ - 1].services <= docs[p].services + 1
    BY <2>1 DEF Docs
  <2>4. docs' = [docs EXCEPT ![p] = [docs[p] EXCEPT !.services = @ - 1]] /\ bound' = bound
    BY <1>7 DEF RemoveService
  <2> QED
    BY <1>2, <1>4, <2>1, <2>2, <2>3, <2>4
<1>8. ASSUME NEW p \in Parties, Deactivate(p) PROVE Good
  <2>1. docs[p] \in Docs /\ docs[p] # NoDoc
    BY <1>2, <1>8 DEF Deactivate, Missing
  <2>2. [docs[p] EXCEPT !.active = FALSE] \in Docs
    BY <2>1 DEF Docs
  <2>3. [docs[p] EXCEPT !.active = FALSE].services <= docs[p].services + 1
    BY <2>1 DEF Docs
  <2>4. docs' = [docs EXCEPT ![p] = [docs[p] EXCEPT !.active = FALSE]] /\ bound' = bound
    BY <1>8 DEF Deactivate
  <2> QED
    BY <1>2, <1>4, <2>1, <2>2, <2>3, <2>4
<1>9. ASSUME NEW p \in Parties, NEW a \in GivenNames, SetAlias(p, a) PROVE Good
  <2>1. docs[p] \in Docs /\ docs[p] # NoDoc /\ a \in Aliases
    BY <1>2, <1>3, <1>9 DEF SetAlias, Missing
  <2>2. [docs[p] EXCEPT !.alias = a] \in Docs
    BY <2>1 DEF Docs
  <2>3. [docs[p] EXCEPT !.alias = a].services <= docs[p].services + 1
    BY <2>1 DEF Docs
  <2>4. docs' = [docs EXCEPT ![p] = [docs[p] EXCEPT !.alias = a]] /\ bound' \subseteq Aliases
    BY <1>2, <1>9, <2>1 DEF SetAlias
  <2> QED
    BY <1>4, <2>1, <2>2, <2>3, <2>4
<1>10. ASSUME NEW a \in GivenNames, BindElsewhere(a) PROVE Good
  BY <1>2, <1>3, <1>5, <1>10 DEF BindElsewhere, Good
<1>11. Good
  BY <1>6, <1>7, <1>8, <1>9, <1>10 DEF Edit
<1> QED
  BY <1>1, <1>11 DEF Good

-----------------------------------------------------------------------------
(* The record a flow goes on with. *)

BusyStages == {"issuer", "org", "subject", "disclose", "verify"}

\* A flow's step that puts a placed record keeps the types.
LEMMA LocalIs ==
  ASSUME FlowTypes, NEW f \in Flows, NEW r \in FlowRecords, Placed(r), Local(f, r)
  PROVE  /\ FlowTypes' /\ flow'[f] = r
         /\ \A g \in Flows \ {f} : flow'[g] = flow[g]
<1>1. flow' = [flow EXCEPT ![f] = r] /\ flow \in [Flows -> FlowRecords]
  BY DEF Local, FlowTypes
<1>2. /\ flow' \in [Flows -> FlowRecords] /\ flow'[f] = r
      /\ \A g \in Flows \ {f} : flow'[g] = flow[g]
  BY <1>1
<1>3. \A g \in Flows : Placed(flow'[g])
  BY <1>2 DEF FlowTypes
<1>4. \A g \in Flows : Placed(flow[g])'
  BY <1>3 DEF Placed
<1> QED
  BY <1>2, <1>4 DEF FlowTypes

\* On to the next stage.
LEMMA AdvanceIs ==
  ASSUME FlowTypes, NEW f \in Flows, NEW r \in FlowRecords, Placed(r),
         r.stage = flow[f].stage, r.req = flow[f].req, r.stage \in BusyStages, Advance(f, r)
  PROVE  /\ FlowTypes' /\ \A g \in Flows \ {f} : flow'[g] = flow[g]
         /\ flow'[f].req = r.req /\ flow'[f].stage = After(f) /\ flow'[f].at = "look"
         /\ flow'[f].quiet = r.quiet /\ flow'[f].blind = r.blind /\ flow'[f].n = 1
<1> DEFINE q == [r EXCEPT !.stage = After(f), !.at = "look", !.todo = <<>>, !.tries = 0,
                          !.n = 1]
<1>1. After(f) \in {"org", "subject", "disclose", "verify", "done"}
      /\ (r.req.kind = "did" => After(f) = "done")
  BY DEF After, BusyStages, Placed
<1>2. MaxRetries \in Nat /\ 1 \in DOMAIN r.req.schemas
  <2>1. r.req \in Requests
    BY DEF FlowRecords
  <2>2. r.req.schemas \in Seq(Schemas) /\ r.req.schemas # <<>>
    BY <2>1, RequestAssumption
  <2> QED
    BY <2>2, BoundsAssumption
<1>3. <<>> \in Seq(Fills) /\ After(f) \in Stages /\ 0 \in 0..MaxRetries
  BY <1>1, <1>2 DEF Stages
<1>4. /\ q \in FlowRecords /\ q.req = r.req /\ q.stage = After(f) /\ q.at = "look"
      /\ q.todo = <<>> /\ q.n = 1 /\ q.quiet = r.quiet /\ q.blind = r.blind /\ q.why = r.why
  BY <1>3 DEF FlowRecords
<1>5. Local(f, q)
  BY DEF Advance
<1> HIDE DEF q
<1>6. Placed(q)
  <2>1. Once(q.todo) /\ 1 \in DOMAIN q.req.schemas
    BY <1>2, <1>4 DEF Once
  <2> QED
    BY <1>1, <1>4, <2>1 DEF Placed
<1> QED
  BY <1>4, <1>5, <1>6, LocalIs

\* A run that fails.
LEMMA FailIs ==
  ASSUME FlowTypes, NEW f \in Flows, NEW code \in Codes,
         flow[f].req.kind = "vc-issue" => code # "NameAlreadyBound", FailWith(f, code)
  PROVE  /\ FlowTypes' /\ \A g \in Flows \ {f} : flow'[g] = flow[g]
         /\ flow'[f].req = flow[f].req /\ flow'[f].stage = "failed" /\ flow'[f].at = "look"
<1> DEFINE q == [flow[f] EXCEPT !.stage = "failed", !.at = "look", !.todo = <<>>,
                                !.tries = 0, !.n = 1, !.blind = FALSE, !.quiet = {},
                                !.why = code]
<1>1. flow[f] \in FlowRecords
  BY DEF FlowTypes
<1>2. MaxRetries \in Nat /\ 1 \in DOMAIN flow[f].req.schemas
  <2>1. flow[f].req \in Requests
    BY <1>1 DEF FlowRecords
  <2>2. flow[f].req.schemas \in Seq(Schemas) /\ flow[f].req.schemas # <<>>
    BY <2>1, RequestAssumption
  <2> QED
    BY <2>2, BoundsAssumption
<1>3. <<>> \in Seq(Fills) /\ "failed" \in Stages /\ 0 \in 0..MaxRetries
  BY <1>2 DEF Stages
<1>4. /\ q \in FlowRecords /\ q.req = flow[f].req /\ q.stage = "failed" /\ q.at = "look"
      /\ q.todo = <<>> /\ q.n = 1 /\ q.why = code
  BY <1>1, <1>3 DEF FlowRecords
<1>5. Local(f, q)
  BY DEF FailWith
<1> HIDE DEF q
<1>6. Placed(q)
  <2>1. Once(q.todo) /\ 1 \in DOMAIN q.req.schemas
    BY <1>2, <1>4 DEF Once
  <2> QED
    BY <1>4, <2>1 DEF Placed
<1> QED
  BY <1>4, <1>5, <1>6, LocalIs

\* What has been found or made stays so for a flow that does not move.
LEMMA ProgressStays ==
  ASSUME FlowTypes, Grows, NEW f \in Flows, Progressed(flow[f]), flow'[f] = flow[f]
  PROVE  Progressed(flow[f])'
<1> DEFINE r == flow[f]
<1>1. r \in FlowRecords /\ r.req \in Requests
  BY DEF FlowTypes, FlowRecords
<1>2. r.req.issuer \in Parties /\ r.req.subject \in Parties
  BY <1>1, RequestAssumption
<1> QED
  BY <1>2 DEF Progressed, HasDoc, HasCert, Grows

\* What a step of flow f does to the flows.
Does(f) ==
  /\ FlowTypes' /\ \A g \in Flows \ {f} : flow'[g] = flow[g]
  /\ Progressed(flow[f])'
  /\ \A p \in Parties : Adds(flow[f], p)' =>
       Adds(flow[f], p) \/ (docs[p].services = 0 /\ docs' = docs)
  /\ Running(f)' /\ flow'[f].at # "look" =>
       \/ Running(f) /\ flow[f].at # "look"
       \/ flow'[f].blind \/ ~ InPlace(flow[f].req)'
  /\ flow'[f].stage = "done" /\ flow'[f].req.kind = "vc-issue" =>
       \A s \in DOMAIN flow'[f].req.schemas : \E i \in Parties :
         <<flow'[f].req.subject, flow'[f].req.schemas[s], i>> \in certs'

LEMMA FailDoes ==
  ASSUME FlowTypes, NEW f \in Flows, NEW code \in Codes,
         flow[f].req.kind = "vc-issue" => code # "NameAlreadyBound", FailWith(f, code)
  PROVE  Does(f)
<1>1. /\ FlowTypes' /\ \A g \in Flows \ {f} : flow'[g] = flow[g]
      /\ flow'[f].req = flow[f].req /\ flow'[f].stage = "failed" /\ flow'[f].at = "look"
  BY FailIs
<1> QED
  BY <1>1 DEF Does, Progressed, Adds, Running

\* Leaving a stage with what the stage ensures.
LEMMA AdvanceDoes ==
  ASSUME FlowTypes, Grows, NEW f \in Flows, Progressed(flow[f]),
         NEW r \in FlowRecords, Placed(r), r.stage = flow[f].stage, r.req = flow[f].req,
         flow[f].quiet \subseteq r.quiet, r.stage \in BusyStages, Advance(f, r),
         r.stage = "subject" => docs'[r.req.subject] # NoDoc \/ "create" \in r.quiet,
         r.stage = "issuer" => docs'[r.req.issuer] # NoDoc \/ "create" \in r.quiet,
         r.stage = "org" => r.req.issuer \in orgs' \/ "register" \in r.quiet,
         r.stage = "disclose" => \A s \in DOMAIN r.req.schemas :
              <<r.req.subject, r.req.schemas[s], r.req.issuer>> \in certs'
                \/ "disclose" \in r.quiet,
         r.stage = "verify" /\ r.req.kind = "vc-issue" =>
              \A s \in DOMAIN r.req.schemas : \E i \in Parties :
                <<r.req.subject, r.req.schemas[s], i>> \in certs'
  PROVE  Does(f)
<1>1. /\ FlowTypes' /\ \A g \in Flows \ {f} : flow'[g] = flow[g]
      /\ flow'[f].req = r.req /\ flow'[f].stage = After(f) /\ flow'[f].at = "look"
      /\ flow'[f].quiet = r.quiet /\ flow'[f].n = 1
  BY AdvanceIs
<1>2. r.req.issuer \in Parties /\ r.req.subject \in Parties
  BY RequestAssumption DEF FlowRecords
<1>3. Placed(flow[f])
  BY DEF FlowTypes
<1>4. r.req.kind = "did" => r.stage = "subject"
  BY DEF Placed, BusyStages
<1>5. Progressed(flow[f])'
  <2>1. CASE r.stage = "issuer"
    BY <1>1, <1>4, <2>1 DEF After, Progressed, HasDoc
  <2>2. CASE r.stage = "org"
    BY <1>1, <1>2, <1>4, <2>2 DEF After, Progressed, HasDoc, Grows
  <2>3. CASE r.stage = "subject"
    BY <1>1, <1>2, <1>4, <2>3 DEF After, Progressed, HasDoc, Grows
  <2>4. CASE r.stage = "disclose"
    BY <1>1, <1>2, <1>4, <2>4 DEF After, Progressed, HasDoc, HasCert, Grows
  <2>5. CASE r.stage = "verify"
    BY <1>1, <1>2, <1>4, <2>5 DEF After, Progressed, HasDoc, HasCert, Grows
  <2> QED
    BY <2>1, <2>2, <2>3, <2>4, <2>5 DEF BusyStages
<1>6. flow'[f].stage = "done" /\ flow'[f].req.kind = "vc-issue" => r.stage = "verify"
  BY <1>1 DEF After, BusyStages
<1> QED
  BY <1>1, <1>5, <1>6 DEF Does, Adds

-----------------------------------------------------------------------------
(* Each step of a flow. *)

\* What is known of a flow before its step.
Knows(f) == FlowTypes /\ ChainTypes /\ Progressed(flow[f])

\* Moving to another place of the stage.
LEMMA MoveDoes ==
  ASSUME FlowTypes, Grows, NEW f \in Flows, Progressed(flow[f]),
         NEW r \in FlowRecords, Placed(r), r.stage = flow[f].stage, r.req = flow[f].req,
         flow[f].quiet \subseteq r.quiet, r.n = flow[f].n, r.stage # "done", Local(f, r),
         r.at = "fill" => docs'[Party(f)] # NoDoc,
         r.at = "fill" /\ Has(r.todo, "AddService") =>
           \/ flow[f].at = "fill" /\ Has(flow[f].todo, "AddService")
           \/ docs[Party(f)].services = 0 /\ docs' = docs,
         r.at # "look" => \/ flow[f].at # "look" \/ r.blind
                          \/ ~ InPlace(flow[f].req) /\ UNCHANGED <<docs, orgs, certs>>
  PROVE  Does(f)
<1>1. FlowTypes' /\ flow'[f] = r /\ \A g \in Flows \ {f} : flow'[g] = flow[g]
  BY LocalIs
<1>2. r.req.issuer \in Parties /\ r.req.subject \in Parties
  BY RequestAssumption DEF FlowRecords
<1>3. Party(f) = IF r.stage = "issuer" THEN r.req.issuer ELSE r.req.subject
  BY DEF Party
<1>4. Progressed(flow[f])'
  BY <1>1, <1>2, <1>3 DEF Progressed, HasDoc, HasCert, Grows
<1>5. \A p \in Parties : Adds(flow[f], p)' =>
        Adds(flow[f], p) \/ (docs[p].services = 0 /\ docs' = docs)
  BY <1>1, <1>3 DEF Adds, Has
<1>6. UNCHANGED <<docs, orgs, certs>> => (InPlace(flow[f].req)' <=> InPlace(flow[f].req))
  BY <1>1 DEF InPlace, Ready, Certified
<1>7. Running(f)' /\ flow'[f].at # "look" =>
        \/ Running(f) /\ flow[f].at # "look"
        \/ flow'[f].blind \/ ~ InPlace(flow[f].req)'
  BY <1>1, <1>6 DEF Running
<1> QED
  BY <1>1, <1>4, <1>5, <1>7 DEF Does

\* A flow before its first run.
LEMMA IdleIs ==
  /\ Idle \in FlowRecords /\ Placed(Idle)
  /\ Idle.stage = "none" /\ Idle.at = "look" /\ Idle.n = 1 /\ Idle.why = "none"
<1> DEFINE c == CHOOSE d \in Requests : TRUE
<1>1. c \in Requests
  BY RequestAssumption
<1>2. Idle = [req |-> c, stage |-> "none", at |-> "look", todo |-> <<>>, tries |-> 0,
              n |-> 1, blind |-> FALSE, quiet |-> {}, why |-> "none"]
  BY DEF Idle
<1> HIDE DEF c
<1>3. MaxRetries \in Nat /\ 1 \in DOMAIN c.schemas
  <2>1. c.schemas \in Seq(Schemas) /\ c.schemas # <<>>
    BY <1>1, RequestAssumption
  <2> QED
    BY <2>1, BoundsAssumption
<1>4. <<>> \in Seq(Fills) /\ 0 \in 0..MaxRetries /\ Once(<<>>)
  BY <1>3 DEF Once
<1>5. Idle \in FlowRecords
  BY <1>1, <1>2, <1>4 DEF FlowRecords, Stages, Codes
<1>6. Placed(Idle)
  BY <1>2, <1>3, <1>4 DEF Placed
<1> QED
  BY <1>2, <1>5, <1>6

LEMMA StartDoes ==
  ASSUME NEW f \in Flows, Knows(f), Start(f)
  PROVE  Does(f)
<1>1. PICK r \in Requests :
        /\ ~ Running(f) /\ UNCHANGED identity
        /\ Local(f, [Idle EXCEPT !.req = r,
                                 !.stage = IF r.kind = "did" THEN "subject" ELSE "faucet"])
  BY DEF Start
<1> DEFINE first == IF r.kind = "did" THEN "subject" ELSE "faucet"
           q == [Idle EXCEPT !.req = r, !.stage = first]
<1>2. /\ first \in {"subject", "faucet"} /\ (first = "subject" <=> r.kind = "did")
      /\ Local(f, q)
  BY <1>1
<1>3. MaxRetries \in Nat /\ \A d \in Requests : 1 \in DOMAIN d.schemas
  <2>1. \A d \in Requests : d.schemas \in Seq(Schemas) /\ d.schemas # <<>>
    BY RequestAssumption
  <2> QED
    BY <2>1, BoundsAssumption
<1>4. Idle \in FlowRecords /\ Placed(Idle) /\ Idle.at = "look"
  BY <1>3, IdleIs
<1> HIDE DEF first
<1>5. /\ q \in FlowRecords /\ q.req = r /\ q.stage = first /\ q.at = "look" /\ q.n = Idle.n
      /\ q.todo = Idle.todo /\ q.why = Idle.why /\ Idle.n = 1 /\ Idle.why = "none"
  BY <1>2, <1>4, IdleIs DEF FlowRecords, Stages
<1> HIDE DEF q
<1>6. Placed(q)
  BY <1>2, <1>3, <1>4, <1>5 DEF Placed
<1>7. FlowTypes' /\ flow'[f] = q /\ \A g \in Flows \ {f} : flow'[g] = flow[g]
  BY <1>2, <1>5, <1>6, LocalIs DEF Knows
<1>8. /\ flow'[f].at = "look" /\ flow'[f].stage \in {"subject", "faucet"}
      /\ flow'[f].stage = "subject" => flow'[f].req.kind = "did"
  BY <1>2, <1>5, <1>7
<1> QED
  BY <1>7, <1>8 DEF Does, Progressed, Adds

LEMMA FaucetDoes ==
  ASSUME NEW f \in Flows, Knows(f), Faucet(f)
  PROVE  Does(f)
<1>1. flow[f].stage = "faucet" /\ flow[f] \in FlowRecords /\ Placed(flow[f])
  BY DEF Faucet, Knows, FlowTypes
<1>2. CASE FailWith(f, "faucet")
  BY <1>2, FailDoes DEF Codes, Knows
<1>3. CASE Local(f, [flow[f] EXCEPT !.stage = "issuer"])
  <2> DEFINE q == [flow[f] EXCEPT !.stage = "issuer"]
  <2>1. /\ q \in FlowRecords /\ q.stage = "issuer" /\ q.at = flow[f].at
        /\ q.todo = flow[f].todo /\ q.n = flow[f].n /\ q.req = flow[f].req
        /\ q.why = flow[f].why
    BY <1>1 DEF FlowRecords, Stages
  <2> HIDE DEF q
  <2>2. Placed(q) /\ q.at = "look"
    BY <1>1, <2>1 DEF Placed
  <2>3. FlowTypes' /\ flow'[f] = q /\ \A g \in Flows \ {f} : flow'[g] = flow[g]
    BY <1>3, <2>1, <2>2, LocalIs DEF Knows, q
  <2> QED
    BY <2>1, <2>2, <2>3 DEF Does, Progressed, Adds
<1> QED
  BY <1>2, <1>3 DEF Faucet

\* Nothing but the flow changes.
LEMMA QuietGrows ==
  ASSUME UNCHANGED <<docs, orgs, certs>>
  PROVE  Grows
BY DEF Grows

LEMMA ViewDocumentDoes ==
  ASSUME NEW f \in Flows, Knows(f), ViewDocument(f), UNCHANGED <<orgs, certs>>
  PROVE  Does(f)
<1>0. /\ flow[f] \in FlowRecords /\ Placed(flow[f]) /\ flow[f].at = "look"
      /\ flow[f].stage \in {"issuer", "subject"}
      /\ Party(f) \in Parties /\ FlowTypes /\ Progressed(flow[f]) /\ docs' = docs
  BY CallsAre DEF Knows, ViewDocument, Ensuring, NotCarried
<1>1. Grows
  BY <1>0, QuietGrows
<1> DEFINE q(a) == [flow[f] EXCEPT !.blind = @ \/ ~ a]
           seen(a) == IF a THEN docs[Party(f)] ELSE NoDoc
<1>2. PICK a \in BOOLEAN :
        IF seen(a) = NoDoc THEN Local(f, [q(a) EXCEPT !.at = "create"])
        ELSE IF Backfill(seen(a), Want(f)) = <<>> THEN Advance(f, q(a))
        ELSE Local(f, [q(a) EXCEPT !.at = "fill", !.todo = Backfill(seen(a), Want(f))])
  BY DEF ViewDocument
<1>3. /\ q(a) \in FlowRecords /\ q(a).stage = flow[f].stage /\ q(a).req = flow[f].req
      /\ q(a).quiet = flow[f].quiet /\ q(a).n = flow[f].n /\ q(a).at = flow[f].at
      /\ q(a).todo = flow[f].todo /\ q(a).why = flow[f].why /\ (~ a => q(a).blind)
  BY <1>0 DEF FlowRecords
<1>4. Placed(q(a))
  BY <1>0, <1>3 DEF Placed
<1> HIDE DEF q
\* What is missing from the document is missing from the whole.
<1>5. ASSUME ~ Ready(Party(f), Want(f))
      PROVE  ~ InPlace(flow[f].req)
  <2>1. CASE flow[f].stage = "issuer"
    <3>1. flow[f].req.kind # "did"
      BY <1>0, <2>1 DEF Placed
    <3>2. Party(f) = flow[f].req.issuer /\ Want(f) = flow[f].req.issuerDid
      BY <2>1 DEF Party, Want
    <3> QED
      BY <1>5, <3>1, <3>2 DEF InPlace
  <2>2. CASE flow[f].stage = "subject"
    <3>1. Party(f) = flow[f].req.subject /\ Want(f) = flow[f].req.subjectDid
      BY <2>2 DEF Party, Want
    <3> QED
      BY <1>5, <3>1 DEF InPlace
  <2> QED
    BY <1>0, <2>1, <2>2
<1>7. CASE seen(a) = NoDoc
  <2> DEFINE r == [q(a) EXCEPT !.at = "create"]
  <2>1. /\ r \in FlowRecords /\ r.stage = flow[f].stage /\ r.req = flow[f].req
        /\ r.quiet = flow[f].quiet /\ r.n = flow[f].n /\ r.at = "create"
        /\ r.todo = flow[f].todo /\ r.why = flow[f].why /\ (~ a => r.blind)
    BY <1>3 DEF FlowRecords
  <2>2. Local(f, r)
    BY <1>2, <1>7
  <2> HIDE DEF r
  <2>3. Placed(r)
    BY <1>0, <2>1 DEF Placed
  <2>4. ~ a \/ (~ InPlace(flow[f].req) /\ UNCHANGED <<docs, orgs, certs>>)
    BY <1>0, <1>5, <1>7 DEF Ready
  <2> QED
    BY <1>0, <1>1, <2>1, <2>2, <2>3, <2>4, MoveDoes
<1>8. CASE seen(a) # NoDoc /\ Backfill(seen(a), Want(f)) = <<>>
  <2>1. Advance(f, q(a)) /\ docs[Party(f)] # NoDoc
    BY <1>2, <1>8
  <2>2. /\ flow[f].stage = "subject" => Party(f) = flow[f].req.subject
        /\ flow[f].stage = "issuer" => Party(f) = flow[f].req.issuer
    BY DEF Party
  <2> QED
    BY <1>0, <1>1, <1>3, <1>4, <2>1, <2>2, AdvanceDoes DEF BusyStages
<1>9. CASE seen(a) # NoDoc /\ Backfill(seen(a), Want(f)) # <<>>
  <2> DEFINE b == Backfill(docs[Party(f)], Want(f))
             r == [q(a) EXCEPT !.at = "fill", !.todo = b]
  <2>1. docs[Party(f)] # NoDoc /\ seen(a) = docs[Party(f)] /\ Local(f, r) /\ b # <<>>
    BY <1>2, <1>9
  <2>2. /\ b \in Seq(Fills) /\ Once(b)
        /\ Has(b, "AddService") => docs[Party(f)].services = 0
        /\ ~ Ready(Party(f), Want(f))
    <3>1. /\ b \in Seq(Fills) /\ Once(b)
          /\ Has(b, "AddService") => docs[Party(f)].services = 0
          /\ \/ Want(f).alias \notin {NoAlias, docs[Party(f)].alias}
             \/ Want(f).service /\ docs[Party(f)].services = 0
             \/ Want(f).avatar /\ ~ docs[Party(f)].avatar
      BY <2>1, BackfillIs
    <3> HIDE DEF b
    <3>2. ~ Ready(Party(f), Want(f))
      BY <3>1 DEF Ready
    <3> QED
      BY <3>1, <3>2
  <2> HIDE DEF b
  <2>3. /\ r \in FlowRecords /\ r.stage = flow[f].stage /\ r.req = flow[f].req
        /\ r.quiet = flow[f].quiet /\ r.n = flow[f].n /\ r.at = "fill"
        /\ r.todo = b /\ r.why = flow[f].why
    BY <1>3, <2>2 DEF FlowRecords
  <2> HIDE DEF r
  <2>4. Placed(r)
    BY <1>0, <2>1, <2>2, <2>3 DEF Placed
  <2>5. ~ InPlace(flow[f].req) /\ UNCHANGED <<docs, orgs, certs>>
    BY <1>0, <1>5, <2>2
  <2> QED
    BY <1>0, <1>1, <2>1, <2>2, <2>3, <2>4, <2>5, MoveDoes
<1> QED
  BY <1>7, <1>8, <1>9

\* Writes of documents, put into the terms of the whole chain.
LEMMA DocWrite ==
  ASSUME ChainTypes, NEW c \in DocCalls, UNCHANGED <<orgs, certs>>, DocExecute(c),
         DocRules(c) = {}
  PROVE  Rules(c) = {} /\ Execute(c) /\ Grows /\ docs'[c.party] # NoDoc
<1>1. c \in Calls /\ c.op \notin {"RegisterOrganization", "DiscloseVcAttestation"}
  BY DEF Calls, DocCalls, Fills
<1>2. Rules(c) = {} /\ Execute(c)
  BY <1>1 DEF Rules, Execute
<1> QED
  BY <1>1, <1>2, ExecuteStep, DocEffect

\* The record of a flow one of whose writes failed quietly.
LEMMA QuietlyIs ==
  ASSUME FlowTypes, NEW f \in Flows, NEW op \in Writes
  PROVE  /\ Quietly(f, op) \in FlowRecords /\ Placed(Quietly(f, op))
         /\ Quietly(f, op).quiet = flow[f].quiet \union {op}
         /\ Quietly(f, op).req = flow[f].req /\ Quietly(f, op).stage = flow[f].stage
         /\ Quietly(f, op).at = flow[f].at /\ Quietly(f, op).todo = flow[f].todo
         /\ Quietly(f, op).n = flow[f].n
<1>1. flow[f] \in FlowRecords /\ Placed(flow[f])
  BY DEF FlowTypes
<1>2. /\ Quietly(f, op) \in FlowRecords
      /\ Quietly(f, op).quiet = flow[f].quiet \union {op}
      /\ Quietly(f, op).req = flow[f].req /\ Quietly(f, op).stage = flow[f].stage
      /\ Quietly(f, op).at = flow[f].at /\ Quietly(f, op).todo = flow[f].todo
      /\ Quietly(f, op).n = flow[f].n /\ Quietly(f, op).why = flow[f].why
  BY <1>1 DEF Quietly, FlowRecords
<1>3. Placed(Quietly(f, op))
  BY <1>1, <1>2 DEF Placed
<1> QED
  BY <1>2, <1>3

\* The document step is over: the document is there, or its creation failed quietly.
LEMMA EnsuredDoes ==
  ASSUME NEW f \in Flows, Knows(f), Grows, flow[f].stage \in {"issuer", "subject"},
         \/ Advance(f, flow[f]) /\ docs'[Party(f)] # NoDoc
         \/ Advance(f, Quietly(f, "create"))
  PROVE  Does(f)
<1>1. /\ flow[f] \in FlowRecords /\ Placed(flow[f]) /\ FlowTypes /\ Progressed(flow[f])
      /\ flow[f].stage \in BusyStages
  BY DEF Knows, FlowTypes, BusyStages
<1>2. /\ flow[f].stage = "subject" => Party(f) = flow[f].req.subject
      /\ flow[f].stage = "issuer" => Party(f) = flow[f].req.issuer
  BY DEF Party
<1>3. CASE Advance(f, flow[f]) /\ docs'[Party(f)] # NoDoc
  BY <1>1, <1>2, <1>3, AdvanceDoes
<1>4. CASE Advance(f, Quietly(f, "create"))
  <2> DEFINE r == Quietly(f, "create")
  <2>1. /\ r \in FlowRecords /\ Placed(r) /\ r.quiet = flow[f].quiet \union {"create"}
        /\ r.req = flow[f].req /\ r.stage = flow[f].stage
    BY <1>1, QuietlyIs DEF Writes
  <2>2. Advance(f, r)
    BY <1>4
  <2> HIDE DEF r
  <2> QED
    BY <1>1, <2>1, <2>2, AdvanceDoes
<1> QED
  BY <1>3, <1>4

LEMMA CreateDoneDoes ==
  ASSUME NEW f \in Flows, Knows(f), CreateDone(f), UNCHANGED <<orgs, certs>>
  PROVE  Does(f)
<1> DEFINE c == CreateCall(f, Want(f).alias)
<1>0. /\ flow[f].stage \in {"issuer", "subject"} /\ c \in DocCalls /\ c.party = Party(f)
      /\ ChainTypes
  BY CallsAre DEF CreateDone, Ensuring, Knows, CreateCall, DocCall
<1>1. CASE Carried(c) /\ Advance(f, flow[f])
  <2>1. Grows /\ docs'[Party(f)] # NoDoc
    BY <1>0, <1>1, DocWrite DEF Carried
  <2> QED
    BY <1>0, <1>1, <2>1, EnsuredDoes
<1>2. CASE NotCarried /\ Advance(f, Quietly(f, "create"))
  <2>1. Grows
    BY <1>2, QuietGrows DEF NotCarried
  <2> QED
    BY <1>0, <1>2, <2>1, EnsuredDoes
<1> QED
  BY <1>1, <1>2 DEF CreateDone

LEMMA CreatePlainDoes ==
  ASSUME NEW f \in Flows, Knows(f), CreatePlain(f), UNCHANGED <<orgs, certs>>
  PROVE  Does(f)
<1> DEFINE c == CreateCall(f, NoAlias)
<1>0. /\ flow[f].stage \in {"issuer", "subject"} /\ c \in DocCalls /\ c.party = Party(f)
      /\ c.op = "Create" /\ c.alias = NoAlias /\ ChainTypes
  BY CallsAre DEF CreatePlain, Ensuring, Knows, CreateCall, DocCall
<1>1. CASE Carried(c) /\ Advance(f, flow[f])
  <2>1. Grows /\ docs'[Party(f)] # NoDoc
    BY <1>0, <1>1, DocWrite DEF Carried
  <2> QED
    BY <1>0, <1>1, <2>1, EnsuredDoes
<1>2. CASE NotCarried /\ Advance(f, Quietly(f, "create"))
  <2>1. Grows
    BY <1>2, QuietGrows DEF NotCarried
  <2> QED
    BY <1>0, <1>2, <2>1, EnsuredDoes
<1>3. CASE DocRules(c) # {} /\ NotCarried /\ Advance(f, flow[f])
  <2>1. docs[Party(f)] # NoDoc
    BY <1>0, <1>3 DEF DocRules, Taken
  <2>2. Grows /\ docs' = docs
    BY <1>3, QuietGrows DEF NotCarried
  <2> QED
    BY <1>0, <1>3, <2>1, <2>2, EnsuredDoes
<1> QED
  BY <1>1, <1>2, <1>3 DEF CreatePlain

\* A name is taken: the flow draws another, or goes on without one if it may.
LEMMA AliasTakenIs ==
  ASSUME FlowTypes, NEW f \in Flows, NEW GiveUp, AliasTaken(f, GiveUp)
  PROVE  \/ flow[f].tries + 1 \in 0..MaxRetries
            /\ Local(f, [flow[f] EXCEPT !.tries = @ + 1])
         \/ GiveUp
         \/ flow[f].req.kind # "vc-issue" /\ FailWith(f, "NameAlreadyBound")
<1>1. flow[f] \in FlowRecords /\ Want(f).optional = (flow[f].req.kind = "vc-issue")
  BY CallsAre
<1>2. flow[f].tries \in 0..MaxRetries /\ MaxRetries \in Nat
  BY <1>1, BoundsAssumption DEF FlowRecords
<1>3. CASE ~ Want(f).fixed /\ flow[f].tries < MaxRetries
  BY <1>2, <1>3 DEF AliasTaken
<1>4. CASE ~ (~ Want(f).fixed /\ flow[f].tries < MaxRetries)
  BY <1>1, <1>4 DEF AliasTaken
<1> QED
  BY <1>3, <1>4

\* The codes of the refusals.
LEMMA RefusalCodes ==
  ASSUME NEW c, NEW code \in Refusals(c, DocRules(c))
  PROVE  /\ code \in Codes
         /\ code \notin {"NameAlreadyBound", "DidNotFound", "DidDeactivated"} =>
              code = "DidAlreadyExists" /\ c.op = "Create" /\ docs[c.party] # NoDoc
BY DEF Refusals, DocRules, Taken, Missing, Codes

\* The flow tries the same write again.
LEMMA RetryDoes ==
  ASSUME NEW f \in Flows, Knows(f), UNCHANGED <<docs, orgs, certs>>,
         flow[f].stage \in {"issuer", "subject"}, flow[f].at # "look",
         flow[f].tries + 1 \in 0..MaxRetries, Local(f, [flow[f] EXCEPT !.tries = @ + 1])
  PROVE  Does(f)
<1> DEFINE r == [flow[f] EXCEPT !.tries = @ + 1]
<1>1. /\ flow[f] \in FlowRecords /\ Placed(flow[f]) /\ FlowTypes /\ Progressed(flow[f])
  BY DEF Knows, FlowTypes
<1>2. /\ r \in FlowRecords /\ r.stage = flow[f].stage /\ r.req = flow[f].req
      /\ r.quiet = flow[f].quiet /\ r.n = flow[f].n /\ r.at = flow[f].at
      /\ r.todo = flow[f].todo /\ r.why = flow[f].why
  BY <1>1 DEF FlowRecords
<1>3. Local(f, r) /\ Grows
  BY QuietGrows
<1> HIDE DEF r
<1>4. Placed(r)
  BY <1>1, <1>2 DEF Placed
<1>5. r.at = "fill" => docs'[Party(f)] # NoDoc
  BY <1>1, <1>2 DEF Progressed, Party
<1> QED
  BY <1>1, <1>2, <1>3, <1>4, <1>5, MoveDoes

LEMMA CreateRefusedDoes ==
  ASSUME NEW f \in Flows, Knows(f), CreateRefused(f), UNCHANGED <<orgs, certs>>
  PROVE  Does(f)
<1> DEFINE c == CreateCall(f, Want(f).alias)
           GiveUp == Local(f, [flow[f] EXCEPT !.at = "plain"])
<1>0. /\ flow[f].stage \in {"issuer", "subject"} /\ flow[f].at = "create"
      /\ c.party = Party(f) /\ c.op = "Create" /\ UNCHANGED <<docs, orgs, certs>>
      /\ flow[f] \in FlowRecords /\ Placed(flow[f]) /\ FlowTypes /\ Progressed(flow[f])
      /\ Grows
  BY QuietGrows
     DEF CreateRefused, Ensuring, Knows, CreateCall, DocCall, NotCarried, FlowTypes
<1>1. PICK code \in Refusals(c, DocRules(c)) :
        IF code = "NameAlreadyBound" THEN AliasTaken(f, GiveUp)
        ELSE IF Want(f).alias = NoAlias THEN Advance(f, flow[f]) ELSE FailWith(f, code)
  BY DEF CreateRefused
<1>2. /\ code \in Codes
      /\ code \notin {"NameAlreadyBound", "DidNotFound", "DidDeactivated"} =>
           docs[Party(f)] # NoDoc
      /\ code \notin {"DidNotFound", "DidDeactivated"}
  BY <1>0, RefusalCodes DEF Refusals, DocRules, Taken
<1>3. ASSUME GiveUp PROVE Does(f)
  <2> DEFINE r == [flow[f] EXCEPT !.at = "plain"]
  <2>1. /\ r \in FlowRecords /\ r.stage = flow[f].stage /\ r.req = flow[f].req
        /\ r.quiet = flow[f].quiet /\ r.n = flow[f].n /\ r.at = "plain"
        /\ r.todo = flow[f].todo /\ r.why = flow[f].why
    BY <1>0 DEF FlowRecords
  <2>2. Local(f, r)
    BY <1>3
  <2> HIDE DEF r
  <2>3. Placed(r)
    BY <1>0, <2>1 DEF Placed
  <2> QED
    BY <1>0, <2>1, <2>2, <2>3, MoveDoes
<1> HIDE DEF GiveUp
<1>4. CASE code = "NameAlreadyBound"
  <2>1. AliasTaken(f, GiveUp)
    BY <1>1, <1>4
  <2>2. \/ flow[f].tries + 1 \in 0..MaxRetries
           /\ Local(f, [flow[f] EXCEPT !.tries = @ + 1])
        \/ GiveUp
        \/ flow[f].req.kind # "vc-issue" /\ FailWith(f, "NameAlreadyBound")
    BY <1>0, <2>1, AliasTakenIs
  <2> QED
    BY <1>0, <1>2, <1>3, <1>4, <2>2, RetryDoes, FailDoes
<1>5. CASE code # "NameAlreadyBound"
  BY <1>0, <1>1, <1>2, <1>5, EnsuredDoes, FailDoes
<1> QED
  BY <1>4, <1>5

\* One write less to fill in.
LEMMA FilledDoes ==
  ASSUME NEW f \in Flows, Knows(f), Grows, flow[f].stage \in {"issuer", "subject"},
         flow[f].at = "fill", NEW r \in FlowRecords, Placed(r), r.stage = flow[f].stage,
         r.req = flow[f].req, r.at = "fill", r.todo = flow[f].todo, r.n = flow[f].n,
         flow[f].quiet \subseteq r.quiet, Filled(f, r)
  PROVE  /\ Does(f)
         /\ Head(flow[f].todo) = "AddService" => \A p \in Parties : ~ Adds(flow[f], p)'
<1>1. /\ FlowTypes /\ Progressed(flow[f]) /\ flow[f] \in FlowRecords /\ Placed(flow[f])
      /\ Party(f) \in Parties
  BY CallsAre DEF Knows
<1>2. /\ r.todo \in Seq(Fills) /\ r.todo # <<>> /\ Once(r.todo)
      /\ MaxRetries \in Nat
  BY BoundsAssumption DEF FlowRecords, Placed
<1>3. docs[Party(f)] # NoDoc /\ docs'[Party(f)] # NoDoc
  BY <1>1 DEF Progressed, Party, Grows
<1>4. CASE Len(r.todo) = 1
  <2>1. Advance(f, r)
    BY <1>4 DEF Filled
  <2>2. r.stage \in BusyStages
    BY DEF BusyStages
  <2>3. /\ r.stage = "subject" => docs'[r.req.subject] # NoDoc
        /\ r.stage = "issuer" => docs'[r.req.issuer] # NoDoc
    BY <1>3 DEF Party
  <2>4. Does(f)
    BY <1>1, <2>1, <2>2, <2>3, AdvanceDoes
  <2>5. flow'[f].at = "look"
    BY <1>1, <2>1, <2>2, AdvanceIs
  <2> QED
    BY <2>4, <2>5 DEF Adds
<1>5. CASE Len(r.todo) # 1
  <2> DEFINE rest == Tail(r.todo)
             q == [r EXCEPT !.todo = rest, !.tries = 0]
  <2>1. Local(f, q)
    BY <1>5 DEF Filled
  <2>2. /\ rest \in Seq(Fills) /\ Once(rest) /\ ~ Has(rest, Head(r.todo)) /\ rest # <<>>
        /\ \A x : Has(rest, x) => Has(r.todo, x)
    BY <1>2, <1>5, RestOf
  <2> HIDE DEF rest
  <2>9. 0 \in 0..MaxRetries
    BY <1>2
  <2>3. /\ q \in FlowRecords /\ q.stage = r.stage /\ q.req = r.req /\ q.quiet = r.quiet
        /\ q.n = r.n /\ q.at = "fill" /\ q.todo = rest /\ q.why = r.why
    BY <2>2, <2>9 DEF FlowRecords
  <2> HIDE DEF q
  <2>4. Placed(q)
    BY <2>2, <2>3 DEF Placed
  <2>5. Does(f)
    BY <1>1, <1>3, <2>1, <2>2, <2>3, <2>4, MoveDoes
  <2>6. flow'[f] = q
    BY <1>1, <2>1, <2>3, <2>4, LocalIs
  <2>7. Head(flow[f].todo) = "AddService" => ~ Has(flow'[f].todo, "AddService")
    BY <2>2, <2>3, <2>6
  <2>8. Head(flow[f].todo) = "AddService" => \A p \in Parties : ~ Adds(flow[f], p)'
    BY <2>7 DEF Adds, Has
  <2> QED
    BY <2>5, <2>8
<1> QED
  BY <1>4, <1>5

LEMMA FillDoneDoes ==
  ASSUME NEW f \in Flows, Knows(f), FillDone(f), UNCHANGED <<orgs, certs>>
  PROVE  /\ Does(f)
         /\ \/ NotCarried
            \/ /\ Carried(FillCall(f)) /\ FillCall(f) \in DocCalls
               /\ FillCall(f).party = Party(f) /\ flow[f].at = "fill"
               /\ FillCall(f).op = Head(flow[f].todo)
               /\ FillCall(f).op = "AddService" => \A p \in Parties : ~ Adds(flow[f], p)'
<1>0. /\ flow[f].stage \in {"issuer", "subject"} /\ flow[f].at = "fill"
      /\ FillCall(f) \in DocCalls /\ FillCall(f).op = Head(flow[f].todo)
      /\ FillCall(f).party = Party(f) /\ flow[f] \in FlowRecords /\ Placed(flow[f])
      /\ FlowTypes /\ ChainTypes
  BY CallsAre DEF FillDone, Ensuring, Knows
<1>1. CASE Carried(FillCall(f)) /\ Filled(f, flow[f])
  <2>1. Grows
    BY <1>0, <1>1, DocWrite DEF Carried
  <2> QED
    BY <1>0, <1>1, <2>1, FilledDoes
<1>2. CASE NotCarried /\ Filled(f, Quietly(f, "fill"))
  <2> DEFINE r == Quietly(f, "fill")
  <2>1. /\ r \in FlowRecords /\ Placed(r) /\ r.quiet = flow[f].quiet \union {"fill"}
        /\ r.req = flow[f].req /\ r.stage = flow[f].stage /\ r.at = flow[f].at
        /\ r.todo = flow[f].todo /\ r.n = flow[f].n
    BY <1>0, QuietlyIs DEF Writes
  <2>2. Filled(f, r) /\ Grows
    BY <1>2, QuietGrows DEF NotCarried
  <2> HIDE DEF r
  <2> QED
    BY <1>0, <1>2, <2>1, <2>2, FilledDoes
<1> QED
  BY <1>1, <1>2 DEF FillDone

LEMMA FillRefusedDoes ==
  ASSUME NEW f \in Flows, Knows(f), FillRefused(f), UNCHANGED <<orgs, certs>>
  PROVE  Does(f)
<1> DEFINE c == FillCall(f)
           GiveUp == Filled(f, flow[f])
<1>0. /\ flow[f].stage \in {"issuer", "subject"} /\ flow[f].at = "fill"
      /\ UNCHANGED <<docs, orgs, certs>>
      /\ flow[f] \in FlowRecords /\ Placed(flow[f]) /\ FlowTypes
      /\ Grows
  BY QuietGrows
     DEF FillRefused, Ensuring, Knows, NotCarried, FlowTypes
<1>1. PICK code \in Refusals(c, DocRules(c)) :
        IF code = "NameAlreadyBound" THEN AliasTaken(f, GiveUp) ELSE FailWith(f, code)
  BY DEF FillRefused
<1>2. code \in Codes
  BY RefusalCodes
<1>3. ASSUME GiveUp PROVE Does(f)
  BY <1>0, <1>3, FilledDoes
<1> HIDE DEF GiveUp
<1>4. CASE code = "NameAlreadyBound"
  <2>1. \/ flow[f].tries + 1 \in 0..MaxRetries
           /\ Local(f, [flow[f] EXCEPT !.tries = @ + 1])
        \/ GiveUp
        \/ flow[f].req.kind # "vc-issue" /\ FailWith(f, "NameAlreadyBound")
    BY <1>0, <1>1, <1>4, AliasTakenIs
  <2> QED
    BY <1>0, <1>2, <1>3, <1>4, <2>1, RetryDoes, FailDoes
<1>5. CASE code # "NameAlreadyBound"
  BY <1>0, <1>1, <1>2, <1>5, FailDoes
<1> QED
  BY <1>4, <1>5

LEMMA EnsureErrorDoes ==
  ASSUME NEW f \in Flows, Knows(f), EnsureError(f)
  PROVE  /\ Does(f)
         /\ \E c \in DocCalls :
              /\ Lost(c)
              /\ c.op = "AddService" => docs[c.party] # NoDoc
<1>1. Does(f)
  BY FailDoes DEF EnsureError, Codes, Knows
<1>2. /\ CreateCall(f, Want(f).alias) \in DocCalls /\ CreateCall(f, NoAlias) \in DocCalls
      /\ flow[f].at = "fill" => FillCall(f) \in DocCalls /\ FillCall(f).party = Party(f)
                                /\ docs[Party(f)] # NoDoc
  BY CallsAre DEF Knows, Progressed, Party
<1>3. CreateCall(f, Want(f).alias).op = "Create" /\ CreateCall(f, NoAlias).op = "Create"
  BY DEF CreateCall, DocCall
<1> QED
  BY <1>1, <1>2, <1>3 DEF EnsureError, Ensuring

-----------------------------------------------------------------------------
(* The steps after the issuer's document. *)

LEMMA ViewOrganizationDoes ==
  ASSUME NEW f \in Flows, Knows(f), ViewOrganization(f)
  PROVE  Does(f)
<1>0. /\ flow[f].stage = "org" /\ flow[f].at = "look" /\ UNCHANGED <<docs, orgs, certs>>
      /\ flow[f] \in FlowRecords /\ Placed(flow[f]) /\ FlowTypes /\ Progressed(flow[f])
      /\ Grows
  BY QuietGrows DEF ViewOrganization, At, Knows, FlowTypes, identity
<1>1. PICK a \in BOOLEAN :
        IF a /\ Issuer(f) \in orgs THEN Advance(f, flow[f])
        ELSE Local(f, [Seen(f, a) EXCEPT !.at = "send"])
  BY DEF ViewOrganization
<1>2. CASE a /\ Issuer(f) \in orgs
  <2>1. flow[f].req.issuer \in orgs'
    BY <1>0, <1>2 DEF Issuer
  <2> QED
    BY <1>0, <1>1, <1>2, <2>1, AdvanceDoes DEF BusyStages
<1>3. CASE ~ (a /\ Issuer(f) \in orgs)
  <2> DEFINE r == [Seen(f, a) EXCEPT !.at = "send"]
  <2>1. /\ r \in FlowRecords /\ r.stage = flow[f].stage /\ r.req = flow[f].req
        /\ r.quiet = flow[f].quiet /\ r.n = flow[f].n /\ r.at = "send"
        /\ r.todo = flow[f].todo /\ r.why = flow[f].why /\ (~ a => r.blind)
    BY <1>0 DEF FlowRecords, Seen
  <2>2. Local(f, r)
    BY <1>1, <1>3
  <2> HIDE DEF r
  <2>3. Placed(r)
    BY <1>0, <2>1 DEF Placed
  <2>4. r.blind \/ ~ InPlace(flow[f].req)
    BY <1>0, <1>3, <2>1 DEF InPlace, Issuer, Placed
  <2> QED
    BY <1>0, <2>1, <2>2, <2>3, <2>4, MoveDoes
<1> QED
  BY <1>2, <1>3

\* On to the next schema of the disclosure, with the certificate of this one.
LEMMA NextSchemaDoes ==
  ASSUME FlowTypes, Grows, NEW f \in Flows, Progressed(flow[f]),
         NEW r \in FlowRecords, Placed(r), r.stage = flow[f].stage, r.req = flow[f].req,
         r.n = flow[f].n, flow[f].quiet \subseteq r.quiet, r.stage = "disclose",
         \/ <<Subject(f), Schema(f), Issuer(f)>> \in certs'
         \/ "disclose" \in r.quiet,
         NextSchema(f, r)
  PROVE  Does(f)
<1>0. flow[f] \in FlowRecords /\ Placed(flow[f]) /\ r.n \in DOMAIN r.req.schemas
      /\ r.req.kind # "did" /\ r.req.schemas \in Seq(Schemas)
  BY RequestAssumption DEF FlowTypes, Placed, FlowRecords
<1>1. /\ r.n \in Nat /\ Len(r.req.schemas) \in Nat /\ r.n \in 1..Len(r.req.schemas)
      /\ DOMAIN r.req.schemas = 1..Len(r.req.schemas)
  BY <1>0
<1>2. \A s \in 1..r.n : <<r.req.subject, r.req.schemas[s], r.req.issuer>> \in certs'
                        \/ "disclose" \in r.quiet
  <2>1. \A s \in 1..(r.n - 1) : <<r.req.subject, r.req.schemas[s], r.req.issuer>> \in certs
                                \/ "disclose" \in flow[f].quiet
    BY <1>0 DEF Progressed, HasCert
  <2>2. \A s \in 1..r.n : s = r.n \/ s \in 1..(r.n - 1)
    BY <1>1
  <2> QED
    BY <2>1, <2>2 DEF Subject, Schema, Issuer, Grows
<1>3. CASE r.n = Len(r.req.schemas)
  <2>1. Advance(f, r)
    BY <1>3 DEF NextSchema
  <2>2. \A s \in DOMAIN r.req.schemas :
          <<r.req.subject, r.req.schemas[s], r.req.issuer>> \in certs'
            \/ "disclose" \in r.quiet
    BY <1>1, <1>2, <1>3
  <2> QED
    BY <2>1, <2>2, AdvanceDoes DEF BusyStages
<1>4. CASE r.n # Len(r.req.schemas)
  <2> DEFINE q == [r EXCEPT !.n = @ + 1, !.at = "look"]
  <2>1. Local(f, q)
    BY <1>4 DEF NextSchema
  <2>2. /\ r.n + 1 \in DOMAIN r.req.schemas /\ r.n + 1 \in Nat /\ (r.n + 1) - 1 = r.n
    BY <1>1, <1>4
  <2>3. /\ q \in FlowRecords /\ q.stage = "disclose" /\ q.req = r.req /\ q.quiet = r.quiet
        /\ q.n = r.n + 1 /\ q.at = "look" /\ q.todo = r.todo /\ q.why = r.why
    BY <2>2 DEF FlowRecords
  <2> HIDE DEF q
  <2>4. Placed(q)
    BY <2>2, <2>3 DEF Placed
  <2>5. FlowTypes' /\ flow'[f] = q /\ \A g \in Flows \ {f} : flow'[g] = flow[g]
    BY <2>1, <2>3, <2>4, LocalIs
  <2>6. \A s \in 1..(q.n - 1) : HasCert(q, s)'
    BY <1>2, <2>2, <2>3 DEF HasCert
  <2>7. r.req.issuer \in Parties /\ r.req.subject \in Parties
    BY RequestAssumption DEF FlowRecords
  <2>8. Progressed(flow[f])'
    BY <2>3, <2>5, <2>6, <2>7 DEF Progressed, HasDoc, HasCert, Grows
  <2> QED
    BY <2>3, <2>5, <2>8 DEF Does, Adds
<1> QED
  BY <1>3, <1>4

LEMMA RegisterDoes ==
  ASSUME NEW f \in Flows, Knows(f), RegisterOrganization(f)
  PROVE  Does(f)
<1> DEFINE c == RegisterCall(f)
           r == Quietly(f, "register")
<1>0. /\ flow[f].stage = "org" /\ flow[f] \in FlowRecords /\ Placed(flow[f]) /\ FlowTypes
      /\ Progressed(flow[f]) /\ ChainTypes /\ c \in Calls
      /\ c.op = "RegisterOrganization" /\ c.party = flow[f].req.issuer
  BY CallsAre DEF RegisterOrganization, At, Knows, FlowTypes, RegisterCall, Issuer, Calls
<1>1. CASE Rules(c) = {} /\ Execute(c) /\ NextSchema(f, flow[f])
  <2>1. Grows /\ flow[f].req.issuer \in orgs' /\ Advance(f, flow[f])
    BY <1>0, <1>1, ExecuteStep DEF NextSchema
  <2> QED
    BY <1>0, <2>1, AdvanceDoes DEF BusyStages
<1>2. CASE NextSchema(f, r) /\ UNCHANGED identity
  <2>1. /\ r \in FlowRecords /\ Placed(r) /\ r.quiet = flow[f].quiet \union {"register"}
        /\ r.req = flow[f].req /\ r.stage = "org"
    BY <1>0, QuietlyIs DEF Writes
  <2>2. Advance(f, r) /\ Grows
    BY <1>2, <2>1, QuietGrows DEF NextSchema, identity
  <2> HIDE DEF r
  <2> QED
    BY <1>0, <2>1, <2>2, AdvanceDoes DEF BusyStages
<1> QED
  BY <1>1, <1>2 DEF RegisterOrganization, Sent

\* The codes of the refusals of the two other calls.
LEMMA RulesCodes ==
  ASSUME NEW f, NEW c \in {RegisterCall(f), DiscloseCall(f)}, NEW code \in Rules(c)
  PROVE  /\ code \in Codes /\ code # "NameAlreadyBound"
         /\ code = "OrganizationAlreadyExists" => c.party \in orgs
         /\ code = "VcAttestationAlreadyExists" => <<c.party, c.schema, c.issuer>> \in certs
<1>1. CASE c = RegisterCall(f)
  <2>1. c.op = "RegisterOrganization"
    BY <1>1 DEF RegisterCall
  <2>2. code \in Missing(c.party)
           \union (IF docs[c.party] # NoDoc /\ docs[c.party].type # "Organization"
                   THEN {"NotOrganization"} ELSE {})
           \union (IF c.party \in orgs THEN {"OrganizationAlreadyExists"} ELSE {})
    BY <2>1 DEF Rules
  <2> QED
    BY <2>2 DEF Missing, Codes
<1>2. CASE c = DiscloseCall(f)
  <2>1. c.op = "DiscloseVcAttestation"
    BY <1>2 DEF DiscloseCall
  <2>2. code \in Missing(c.party) \union Missing(c.issuer)
           \union (IF <<c.party, c.schema, c.issuer>> \in certs
                   THEN {"VcAttestationAlreadyExists"} ELSE {})
    BY <2>1 DEF Rules
  <2> QED
    BY <2>2 DEF Missing, Codes
<1> QED
  BY <1>1, <1>2

LEMMA RegisterRefusedDoes ==
  ASSUME NEW f \in Flows, Knows(f), RegisterRefused(f)
  PROVE  Does(f)
<1>0. /\ flow[f].stage = "org" /\ flow[f] \in FlowRecords /\ Placed(flow[f]) /\ FlowTypes
      /\ Progressed(flow[f]) /\ Grows /\ orgs' = orgs
      /\ RegisterCall(f).party = flow[f].req.issuer
  BY QuietGrows DEF RegisterRefused, At, Knows, FlowTypes, RegisterCall, Issuer, identity
<1>1. PICK code \in Rules(RegisterCall(f)) :
        IF code = "OrganizationAlreadyExists" THEN Advance(f, flow[f])
                                              ELSE FailWith(f, code)
  BY DEF RegisterRefused
<1>2. /\ code \in Codes /\ code # "NameAlreadyBound"
      /\ code = "OrganizationAlreadyExists" => flow[f].req.issuer \in orgs'
  BY <1>0, RulesCodes
<1>3. CASE code = "OrganizationAlreadyExists"
  BY <1>0, <1>1, <1>2, <1>3, AdvanceDoes DEF BusyStages
<1>4. CASE code # "OrganizationAlreadyExists"
  BY <1>0, <1>1, <1>2, <1>4, FailDoes
<1> QED
  BY <1>3, <1>4

LEMMA ViewCertificateDoes ==
  ASSUME NEW f \in Flows, Knows(f), ViewCertificate(f)
  PROVE  Does(f)
<1>0. /\ flow[f].stage = "disclose" /\ flow[f].at = "look" /\ UNCHANGED <<docs, orgs, certs>>
      /\ flow[f] \in FlowRecords /\ Placed(flow[f]) /\ FlowTypes /\ Progressed(flow[f])
      /\ Grows
  BY QuietGrows DEF ViewCertificate, At, Knows, FlowTypes, identity
<1> DEFINE there == <<Subject(f), Schema(f), Issuer(f)>> \in certs
<1>1. PICK a \in BOOLEAN :
        IF a /\ there THEN NextSchema(f, flow[f])
        ELSE Local(f, [Seen(f, a) EXCEPT !.at = "send"])
  BY DEF ViewCertificate
<1>2. CASE a /\ there
  <2>1. <<Subject(f), Schema(f), Issuer(f)>> \in certs'
    BY <1>0, <1>2
  <2> QED
    BY <1>0, <1>1, <1>2, <2>1, NextSchemaDoes
<1>3. CASE ~ (a /\ there)
  <2> DEFINE r == [Seen(f, a) EXCEPT !.at = "send"]
  <2>1. /\ r \in FlowRecords /\ r.stage = flow[f].stage /\ r.req = flow[f].req
        /\ r.quiet = flow[f].quiet /\ r.n = flow[f].n /\ r.at = "send"
        /\ r.todo = flow[f].todo /\ r.why = flow[f].why /\ (~ a => r.blind)
    BY <1>0 DEF FlowRecords, Seen
  <2>2. Local(f, r)
    BY <1>1, <1>3
  <2> HIDE DEF r
  <2>3. Placed(r)
    BY <1>0, <2>1 DEF Placed
  <2>4. ~ there => ~ InPlace(flow[f].req)
    BY <1>0 DEF InPlace, Issuer, Subject, Schema, Certified, Placed
  <2> HIDE DEF there
  <2>5. r.blind \/ ~ InPlace(flow[f].req)
    BY <1>3, <2>1, <2>4
  <2> QED
    BY <1>0, <2>1, <2>2, <2>3, <2>5, MoveDoes
<1> QED
  BY <1>2, <1>3

LEMMA DiscloseDoes ==
  ASSUME NEW f \in Flows, Knows(f), Disclose(f)
  PROVE  Does(f)
<1> DEFINE c == DiscloseCall(f)
           r == Quietly(f, "disclose")
<1>0. /\ flow[f].stage = "disclose" /\ flow[f] \in FlowRecords /\ Placed(flow[f])
      /\ FlowTypes /\ Progressed(flow[f]) /\ ChainTypes /\ c \in Calls
      /\ c.op = "DiscloseVcAttestation" /\ c.party = Subject(f) /\ c.schema = Schema(f)
      /\ c.issuer = Issuer(f)
  BY CallsAre DEF Disclose, At, Knows, FlowTypes, DiscloseCall, Calls
<1>1. CASE Rules(c) = {} /\ Execute(c) /\ NextSchema(f, flow[f])
  <2> HIDE DEF c
  <2>1. Grows /\ <<Subject(f), Schema(f), Issuer(f)>> \in certs'
    BY <1>0, <1>1, ExecuteStep
  <2> QED
    BY <1>0, <1>1, <2>1, NextSchemaDoes
<1>2. CASE NextSchema(f, r) /\ UNCHANGED identity
  <2>1. /\ r \in FlowRecords /\ Placed(r) /\ r.quiet = flow[f].quiet \union {"disclose"}
        /\ r.req = flow[f].req /\ r.stage = flow[f].stage /\ r.n = flow[f].n
    BY <1>0, QuietlyIs DEF Writes
  <2>2. NextSchema(f, r) /\ Grows
    BY <1>2, QuietGrows DEF identity
  <2> HIDE DEF r
  <2> QED
    BY <1>0, <2>1, <2>2, NextSchemaDoes
<1> QED
  BY <1>1, <1>2 DEF Disclose, Sent

LEMMA DiscloseRefusedDoes ==
  ASSUME NEW f \in Flows, Knows(f), DiscloseRefused(f)
  PROVE  Does(f)
<1>0. /\ flow[f].stage = "disclose" /\ flow[f] \in FlowRecords /\ Placed(flow[f])
      /\ FlowTypes /\ Progressed(flow[f]) /\ Grows /\ certs' = certs
      /\ DiscloseCall(f).party = Subject(f) /\ DiscloseCall(f).schema = Schema(f)
      /\ DiscloseCall(f).issuer = Issuer(f)
  BY QuietGrows DEF DiscloseRefused, At, Knows, FlowTypes, DiscloseCall, identity
<1>1. PICK code \in Rules(DiscloseCall(f)) :
        IF code = "VcAttestationAlreadyExists" THEN NextSchema(f, flow[f])
                                               ELSE FailWith(f, code)
  BY DEF DiscloseRefused
<1>2. /\ code \in Codes /\ code # "NameAlreadyBound"
      /\ code = "VcAttestationAlreadyExists" =>
           <<Subject(f), Schema(f), Issuer(f)>> \in certs'
  BY <1>0, RulesCodes
<1>3. CASE code = "VcAttestationAlreadyExists"
  BY <1>0, <1>1, <1>2, <1>3, NextSchemaDoes
<1>4. CASE code # "VcAttestationAlreadyExists"
  BY <1>0, <1>1, <1>2, <1>4, FailDoes
<1> QED
  BY <1>3, <1>4

LEMMA CallErrorDoes ==
  ASSUME NEW f \in Flows, Knows(f), CallError(f)
  PROVE  /\ Does(f)
         /\ \E c \in Calls : Lost(c) /\ c.op # "AddService"
<1>1. Does(f)
  BY FailDoes DEF CallError, Codes, Knows
<1>2. /\ RegisterCall(f) \in Calls /\ DiscloseCall(f) \in Calls
      /\ RegisterCall(f).op # "AddService" /\ DiscloseCall(f).op # "AddService"
  BY CallsAre DEF Knows, Calls, RegisterCall, DiscloseCall
<1>3. \E c \in {RegisterCall(f), DiscloseCall(f)} : Lost(c)
  BY DEF CallError
<1> QED
  BY <1>1, <1>2, <1>3

LEMMA VerifyDoes ==
  ASSUME NEW f \in Flows, Knows(f), Verify(f)
  PROVE  Does(f)
<1>0. /\ flow[f].stage = "verify" /\ flow[f] \in FlowRecords /\ Placed(flow[f])
      /\ FlowTypes /\ Progressed(flow[f]) /\ Grows /\ certs' = certs
      /\ certs \subseteq Parties \X Schemas \X Parties
  BY QuietGrows DEF Verify, Knows, FlowTypes, ChainTypes, identity
<1>1. PICK listed \in {{}, {c \in certs : c[1] = Subject(f)}} :
        IF flow[f].req.kind = "vc-flow" \/ VerifyAll(f, listed)
        THEN Advance(f, flow[f]) ELSE FailWith(f, "not listed")
  BY DEF Verify
<1>2. CASE flow[f].req.kind = "vc-flow" \/ VerifyAll(f, listed)
  <2>1. ASSUME VerifyAll(f, listed), NEW s \in DOMAIN flow[f].req.schemas
        PROVE  \E i \in Parties : <<flow[f].req.subject, flow[f].req.schemas[s], i>> \in certs'
    <3>1. PICK c \in certs : c[1] = Subject(f) /\ c[2] = flow[f].req.schemas[s]
      BY <1>1, <2>1 DEF VerifyAll
    <3>2. c[3] \in Parties /\ c = <<c[1], c[2], c[3]>>
      BY <1>0, <3>1
    <3> QED
      BY <1>0, <3>1, <3>2 DEF Subject
  <2> QED
    BY <1>0, <1>1, <1>2, <2>1, AdvanceDoes DEF BusyStages
<1>3. CASE ~ (flow[f].req.kind = "vc-flow" \/ VerifyAll(f, listed))
  BY <1>0, <1>1, <1>3, FailDoes DEF Codes
<1> QED
  BY <1>2, <1>3

-----------------------------------------------------------------------------
(* Each step, on the chain. *)

\* What a step of flow f does to the chain: nothing; one write, carried out; or one
\* write that may be carried out later.  A service is added only by a flow that set
\* out to add it, to a document that is there.
Effect(f) ==
  \/ UNCHANGED identity /\ late' = late /\ lost' = lost
  \/ \E c \in Calls :
       /\ Rules(c) = {} /\ Execute(c) /\ late' = late /\ lost' = lost
       /\ c.op = "AddService" =>
            Adds(flow[f], c.party) /\ \A p \in Parties : ~ Adds(flow[f], p)'
  \/ \E c \in Calls :
       /\ UNCHANGED identity /\ late' = late \union {c} /\ lost' = lost + 1
       /\ lost + edits < MaxFaults
       /\ c.op = "AddService" => docs[c.party] # NoDoc

LEMMA LostEffect ==
  ASSUME NEW f, NEW c \in Calls, Lost(c), UNCHANGED <<orgs, certs>>,
         c.op = "AddService" => docs[c.party] # NoDoc
  PROVE  Effect(f)
BY DEF Lost, Effect, identity, network

LEMMA SentEffect ==
  ASSUME NEW f, NEW c \in Calls, NEW op, Sent(f, c, op), c.op # "AddService"
  PROVE  Effect(f)
BY DEF Sent, Effect, identity, network

LEMMA EnsureEffect ==
  ASSUME NEW f \in Flows, Knows(f), Ensure(f), UNCHANGED <<orgs, certs>>
  PROVE  Does(f) /\ Effect(f)
<1>0. /\ CreateCall(f, Want(f).alias) \in DocCalls /\ CreateCall(f, NoAlias) \in DocCalls
      /\ CreateCall(f, Want(f).alias).op = "Create" /\ CreateCall(f, NoAlias).op = "Create"
      /\ DocCalls \subseteq Calls /\ ChainTypes
  BY CallsAre DEF Knows, CreateCall, DocCall, Calls
<1>1. ASSUME NotCarried PROVE Effect(f)
  BY <1>1 DEF NotCarried, Effect, identity, network
<1>2. ASSUME NEW c \in DocCalls, Carried(c),
             c.op = "AddService" =>
               Adds(flow[f], c.party) /\ \A p \in Parties : ~ Adds(flow[f], p)'
      PROVE  Effect(f)
  <2>1. Rules(c) = {} /\ Execute(c)
    BY <1>0, <1>2, DocWrite DEF Carried
  <2> QED
    BY <1>0, <1>2, <2>1 DEF Carried, Effect, network
<1>3. CASE ViewDocument(f)
  BY <1>1, <1>3, ViewDocumentDoes DEF ViewDocument
<1>4. CASE CreateDone(f)
  <2>1. Carried(CreateCall(f, Want(f).alias)) \/ NotCarried
    BY <1>4 DEF CreateDone
  <2> QED
    BY <1>0, <1>1, <1>2, <1>4, <2>1, CreateDoneDoes
<1>5. CASE CreateRefused(f)
  BY <1>1, <1>5, CreateRefusedDoes DEF CreateRefused
<1>6. CASE CreatePlain(f)
  <2>1. Carried(CreateCall(f, NoAlias)) \/ NotCarried
    BY <1>6 DEF CreatePlain
  <2> QED
    BY <1>0, <1>1, <1>2, <1>6, <2>1, CreatePlainDoes
<1>7. CASE FillDone(f)
  <2>1. Does(f)
    BY <1>7, FillDoneDoes
  <2>2. CASE NotCarried
    BY <1>1, <2>1, <2>2
  <2>3. CASE ~ NotCarried
    <3> DEFINE c == FillCall(f)
    <3>1. /\ Carried(c) /\ c \in DocCalls /\ c.party = Party(f) /\ flow[f].at = "fill"
          /\ c.op = Head(flow[f].todo)
          /\ c.op = "AddService" => \A p \in Parties : ~ Adds(flow[f], p)'
      BY <1>7, <2>3, FillDoneDoes
    <3> HIDE DEF c
    <3>2. flow[f].todo \in Seq(Fills) /\ flow[f].todo # <<>> /\ Once(flow[f].todo)
      BY <3>1 DEF Knows, FlowTypes, FlowRecords, Placed
    <3>3. Has(flow[f].todo, c.op)
      BY <3>1, <3>2, RestOf
    <3>4. c.op = "AddService" => Adds(flow[f], c.party)
      BY <3>1, <3>3 DEF Adds, Party
    <3> QED
      BY <1>2, <2>1, <3>1, <3>4
  <2> QED
    BY <2>2, <2>3
<1>8. CASE FillRefused(f)
  BY <1>1, <1>8, FillRefusedDoes DEF FillRefused
<1>9. CASE EnsureError(f)
  BY <1>0, <1>9, EnsureErrorDoes, LostEffect
<1> QED
  BY <1>3, <1>4, <1>5, <1>6, <1>7, <1>8, <1>9 DEF Ensure

LEMMA StepEffect ==
  ASSUME NEW f \in Flows, Knows(f), Step(f)
  PROVE  Does(f) /\ Effect(f) /\ edits' = edits /\ runs' \in 0..MaxRuns
<1>0. /\ RegisterCall(f) \in Calls /\ DiscloseCall(f) \in Calls /\ DocCalls \subseteq Calls
      /\ RegisterCall(f).op # "AddService" /\ DiscloseCall(f).op # "AddService"
      /\ runs \in 0..MaxRuns /\ MaxRuns \in Nat
  BY CallsAre, BoundsAssumption
     DEF Knows, Calls, RegisterCall, DiscloseCall, ChainTypes
<1>1. ASSUME UNCHANGED <<identity, network>> PROVE Effect(f)
  BY <1>1 DEF Effect, network
<1>2. CASE Start(f)
  <2>1. runs' \in 0..MaxRuns
    <3>1. runs' = runs \/ (runs < MaxRuns /\ runs' = runs + 1)
      BY <1>2 DEF Start
    <3> QED
      BY <1>0, <3>1
  <2> QED
    BY <1>1, <1>2, <2>1, StartDoes DEF Start
<1>3. CASE Faucet(f)
  BY <1>0, <1>1, <1>3, FaucetDoes DEF Faucet
<1>4. CASE EnsureDid(f)
  BY <1>0, <1>4, EnsureEffect DEF EnsureDid
<1>5. CASE ViewOrganization(f)
  BY <1>0, <1>1, <1>5, ViewOrganizationDoes DEF ViewOrganization
<1>6. CASE RegisterOrganization(f)
  BY <1>0, <1>6, RegisterDoes, SentEffect DEF RegisterOrganization
<1>7. CASE RegisterRefused(f)
  BY <1>0, <1>1, <1>7, RegisterRefusedDoes DEF RegisterRefused
<1>8. CASE ViewCertificate(f)
  BY <1>0, <1>1, <1>8, ViewCertificateDoes DEF ViewCertificate
<1>9. CASE Disclose(f)
  BY <1>0, <1>9, DiscloseDoes, SentEffect DEF Disclose
<1>10. CASE DiscloseRefused(f)
  BY <1>0, <1>1, <1>10, DiscloseRefusedDoes DEF DiscloseRefused
<1>11. CASE CallError(f)
  BY <1>0, <1>11, CallErrorDoes, LostEffect DEF CallError
<1>12. CASE Verify(f)
  BY <1>0, <1>1, <1>12, VerifyDoes DEF Verify
<1> QED
  BY <1>2, <1>3, <1>4, <1>5, <1>6, <1>7, <1>8, <1>9, <1>10, <1>11, <1>12 DEF Step

-----------------------------------------------------------------------------
(* The chain's part of the invariant. *)

\* Subsets of a finite set.
LEMMA Fewer ==
  ASSUME NEW T, IsFiniteSet(T), NEW S, S \subseteq T
  PROVE  /\ IsFiniteSet(S) /\ Cardinality(S) \in Nat /\ Cardinality(T) \in Nat
         /\ Cardinality(S) <= Cardinality(T)
         /\ \A x \in T : x \notin S => Cardinality(S) + 1 <= Cardinality(T)
<1>1. /\ IsFiniteSet(S) /\ Cardinality(S) \in Nat /\ Cardinality(T) \in Nat
      /\ Cardinality(S) <= Cardinality(T)
  BY FS_Subset, FS_CardinalityType
<1>2. ASSUME NEW x \in T, x \notin S PROVE Cardinality(S) + 1 <= Cardinality(T)
  <2>1. S \subseteq T \ {x} /\ IsFiniteSet(T \ {x})
        /\ Cardinality(T \ {x}) = Cardinality(T) - 1
    BY <1>2, FS_RemoveElement
  <2>2. Cardinality(S) <= Cardinality(T \ {x})
    BY <2>1, FS_Subset
  <2> QED
    BY <1>1, <2>1, <2>2
<1> QED
  BY <1>1, <1>2

\* One element more, at most.
LEMMA OneMore ==
  ASSUME NEW T, IsFiniteSet(T), NEW x, NEW S, S \subseteq T \union {x}
  PROVE  IsFiniteSet(S) /\ Cardinality(S) \in Nat /\ Cardinality(S) <= Cardinality(T) + 1
<1>1. IsFiniteSet(T \union {x}) /\ Cardinality(T \union {x}) <= Cardinality(T) + 1
      /\ Cardinality(T) \in Nat
  BY FS_AddElement, FS_CardinalityType
<1> QED
  BY <1>1, Fewer

LEMMA EffectTypes ==
  ASSUME ChainTypes, NEW f, Effect(f), edits' = edits, runs' \in 0..MaxRuns,
         needed' \in [Flows -> BOOLEAN]
  PROVE  ChainTypes' /\ Grows
<1>1. IdentityTypes /\ lost \in Nat /\ edits \in Nat /\ lost + edits <= MaxFaults
      /\ late \subseteq Calls /\ IsFiniteSet(late) /\ Cardinality(late) <= lost
      /\ MaxFaults \in Nat
  BY BoundsAssumption DEF ChainTypes, IdentityTypes
<1>2. CASE UNCHANGED identity /\ late' = late /\ lost' = lost
  BY <1>1, <1>2 DEF ChainTypes, Grows, identity
<1>3. ASSUME NEW c \in Calls, Rules(c) = {}, Execute(c), late' = late, lost' = lost
      PROVE  ChainTypes' /\ Grows
  <2>1. IdentityTypes' /\ Grows
    BY <1>3, ExecuteStep
  <2> QED
    BY <1>1, <1>3, <2>1 DEF ChainTypes, IdentityTypes
<1>4. ASSUME NEW c \in Calls, UNCHANGED identity, late' = late \union {c}, lost' = lost + 1,
             lost + edits < MaxFaults
      PROVE  ChainTypes' /\ Grows
  <2>1. IsFiniteSet(late') /\ Cardinality(late') \in Nat
        /\ Cardinality(late') <= Cardinality(late) + 1
    BY <1>1, <1>4, OneMore
  <2>2. Cardinality(late) \in Nat
    BY <1>1, FS_CardinalityType
  <2>3. Cardinality(late') <= lost' /\ lost' \in Nat /\ lost' + edits' <= MaxFaults
    BY <1>1, <1>4, <2>1, <2>2
  <2>4. late' \subseteq Calls
    BY <1>1, <1>4
  <2>5. IdentityTypes' /\ Grows
    BY <1>1, <1>4 DEF IdentityTypes, identity, Grows
  <2> QED
    BY <1>1, <2>1, <2>3, <2>4, <2>5 DEF ChainTypes, IdentityTypes
<1> QED
  BY <1>2, <1>3, <1>4 DEF Effect

LEMMA EffectLate ==
  ASSUME ChainTypes, Late, Grows, NEW f, Effect(f)
  PROVE  Late'
<1>1. \A c \in late' : c.op = "AddService" =>
        c \in late \/ (c.party \in Parties => docs[c.party] # NoDoc)
  BY DEF Effect
<1>2. ASSUME NEW p \in Parties, LateAdds(p)' # {} PROVE docs'[p] # NoDoc
  <2>1. PICK c \in late' : c.op = "AddService" /\ c.party = p
    BY <1>2 DEF LateAdds
  <2>2. docs[p] # NoDoc
    BY <1>1, <2>1 DEF Late, LateAdds
  <2> QED
    BY <2>2 DEF Grows
<1> QED
  BY <1>2 DEF Late

\* Where the document has no service yet, there are flows and lost calls enough.
LEMMA CountsOf ==
  ASSUME FlowTypes, ChainTypes, NEW p \in Parties
  PROVE  /\ Adders(p) \subseteq Flows /\ IsFiniteSet(Adders(p))
         /\ Cardinality(Adders(p)) \in Nat /\ Cardinality(Flows) \in Nat
         /\ Cardinality(Adders(p)) <= Cardinality(Flows)
         /\ IsFiniteSet(LateAdds(p)) /\ Cardinality(LateAdds(p)) \in Nat
         /\ Cardinality(LateAdds(p)) <= lost
         /\ lost \in Nat /\ edits \in Nat
         /\ docs[p] # NoDoc => docs[p].services \in Nat
<1>1. Adders(p) \subseteq Flows /\ IsFiniteSet(Flows)
  BY BoundsAssumption DEF Adders
<1>2. LateAdds(p) \subseteq late /\ IsFiniteSet(late) /\ Cardinality(late) <= lost
      /\ lost \in Nat /\ edits \in Nat
  BY DEF LateAdds, ChainTypes
<1>3. docs[p] # NoDoc => docs[p].services \in Nat
  BY DEF ChainTypes, Docs
<1>4. /\ IsFiniteSet(Adders(p)) /\ Cardinality(Adders(p)) \in Nat
      /\ Cardinality(Flows) \in Nat /\ Cardinality(Adders(p)) <= Cardinality(Flows)
  BY <1>1, Fewer
<1>5. /\ IsFiniteSet(LateAdds(p)) /\ Cardinality(LateAdds(p)) \in Nat
      /\ Cardinality(late) \in Nat /\ Cardinality(LateAdds(p)) <= Cardinality(late)
  BY <1>2, Fewer
<1>6. Cardinality(LateAdds(p)) <= lost
  BY <1>2, <1>5
<1> QED
  BY <1>1, <1>2, <1>3, <1>4, <1>5, <1>6

LEMMA EffectServices ==
  ASSUME FlowTypes, ChainTypes, Late, Services, \A g \in Flows : Progressed(flow[g]),
         FlowTypes', ChainTypes', NEW f \in Flows, Does(f), Effect(f), edits' = edits
  PROVE  Services'
<1> SUFFICES ASSUME NEW p \in Parties, docs'[p] # NoDoc
             PROVE  docs'[p].services + Cardinality(Adders(p)') + Cardinality(LateAdds(p)')
                      <= Cardinality(Flows) + lost' + edits'
  BY DEF Services
<1> DEFINE n == Cardinality(Flows)
<1>1. /\ Adders(p) \subseteq Flows /\ IsFiniteSet(Adders(p))
      /\ Cardinality(Adders(p)) \in Nat /\ n \in Nat
      /\ Cardinality(Adders(p)) <= n
      /\ IsFiniteSet(LateAdds(p)) /\ Cardinality(LateAdds(p)) \in Nat
      /\ Cardinality(LateAdds(p)) <= lost
      /\ lost \in Nat /\ edits \in Nat
      /\ docs[p] # NoDoc => docs[p].services \in Nat
  BY CountsOf
<1>2. /\ Adders(p)' \subseteq Flows /\ IsFiniteSet(Adders(p)')
      /\ Cardinality(Adders(p)') \in Nat
      /\ Cardinality(Adders(p)') <= n
      /\ IsFiniteSet(LateAdds(p)') /\ Cardinality(LateAdds(p)') \in Nat
      /\ Cardinality(LateAdds(p)') <= lost'
      /\ lost' \in Nat /\ edits' \in Nat
      /\ docs'[p].services \in Nat
  <2>1. Adders(p)' \subseteq Flows /\ IsFiniteSet(Flows)
    BY BoundsAssumption DEF Adders
  <2>2. LateAdds(p)' \subseteq late' /\ IsFiniteSet(late') /\ Cardinality(late') <= lost'
        /\ lost' \in Nat /\ edits' \in Nat
    BY DEF LateAdds, ChainTypes
  <2>3. docs'[p].services \in Nat
    BY DEF ChainTypes, Docs
  <2>4. /\ IsFiniteSet(Adders(p)') /\ Cardinality(Adders(p)') \in Nat
        /\ Cardinality(Adders(p)') <= n
    BY <2>1, Fewer
  <2>5. /\ IsFiniteSet(LateAdds(p)') /\ Cardinality(LateAdds(p)') \in Nat
        /\ Cardinality(late') \in Nat /\ Cardinality(LateAdds(p)') <= Cardinality(late')
    BY <2>2, Fewer
  <2>6. Cardinality(LateAdds(p)') <= lost'
    BY <2>2, <2>5
  <2> QED
    BY <2>1, <2>2, <2>3, <2>4, <2>5, <2>6
<1> HIDE DEF n
\* Flow f joins the flows to add a service only where there is none.
<1>3. \/ docs[p].services = 0 /\ docs' = docs
      \/ Adders(p)' \subseteq Adders(p) /\ Cardinality(Adders(p)') <= Cardinality(Adders(p))
  <2>1. \A g \in Flows \ {f} : Adds(flow[g], p)' => Adds(flow[g], p)
    BY DEF Does, Adds
  <2>2. Adds(flow[f], p)' => Adds(flow[f], p) \/ (docs[p].services = 0 /\ docs' = docs)
    BY DEF Does
  <2>3. \/ docs[p].services = 0 /\ docs' = docs
        \/ Adders(p)' \subseteq Adders(p)
    BY <2>1, <2>2 DEF Adders
  <2> QED
    BY <1>1, <2>3, Fewer
<1>4. docs[p] # NoDoc =>
        docs[p].services + Cardinality(Adders(p)) + Cardinality(LateAdds(p))
          <= n + lost + edits
  BY DEF Services, n
\* No write of the document, and no call lost.
<1>5. ASSUME docs'[p].services = docs[p].services, docs[p] # NoDoc,
             late' = late, lost' = lost
      PROVE  docs'[p].services + Cardinality(Adders(p)') + Cardinality(LateAdds(p)')
               <= n + lost' + edits'
  <2>1. LateAdds(p)' = LateAdds(p)
    BY <1>5 DEF LateAdds
  <2>2. CASE docs[p].services = 0
    BY <1>1, <1>2, <1>5, <2>2
  <2>3. CASE Cardinality(Adders(p)') <= Cardinality(Adders(p))
    BY <1>1, <1>2, <1>4, <1>5, <2>1, <2>3
  <2> QED
    BY <1>3, <2>2, <2>3
<1>6. CASE UNCHANGED identity /\ late' = late /\ lost' = lost
  BY <1>5, <1>6 DEF identity, n
<1>7. ASSUME NEW c \in Calls, Rules(c) = {}, Execute(c), late' = late, lost' = lost,
             c.op = "AddService" =>
               Adds(flow[f], c.party) /\ \A q \in Parties : ~ Adds(flow[f], q)'
      PROVE  docs'[p].services + Cardinality(Adders(p)') + Cardinality(LateAdds(p)')
               <= n + lost' + edits'
  <2>1. LateAdds(p)' = LateAdds(p)
    BY <1>7 DEF LateAdds
  <2>2. CASE c.op \in {"RegisterOrganization", "DiscloseVcAttestation"}
    <3>1. docs' = docs
      BY <1>7, <2>2, ExecuteStep
    <3> QED
      BY <1>5, <1>7, <3>1
  <2>3. CASE c.op \notin {"RegisterOrganization", "DiscloseVcAttestation"}
    <3>1. c \in DocCalls /\ DocRules(c) = {} /\ DocExecute(c)
      BY <1>7, <2>3, SortsDiffer DEF Rules, Execute
    <3>2. CASE c.party # p
      <4>1. docs'[p] = docs[p]
        BY <3>1, <3>2, DocEffect
      <4> QED
        BY <1>5, <1>7, <4>1
    <3>3. CASE c.party = p /\ c.op = "Create"
      <4>1. docs[p] = NoDoc /\ docs'[p].services <= 1
        BY <3>1, <3>3, DocEffect
      <4>2. LateAdds(p)' = {} /\ Cardinality(LateAdds(p)') = 0
        BY <2>1, <4>1, FS_EmptySet DEF Late
      <4>3. Adders(p) = {}
        BY <4>1 DEF Adders, Adds, Progressed
      <4>4. Adders(p)' = {} /\ Cardinality(Adders(p)') = 0
        BY <1>3, <4>1, <4>3, FS_EmptySet
      <4>5. n >= 1
        <5>1. {} \subseteq Flows /\ IsFiniteSet(Flows) /\ Cardinality({}) = 0
          BY BoundsAssumption, FS_EmptySet
        <5>2. Cardinality({}) + 1 <= Cardinality(Flows)
          BY <5>1, Fewer
        <5> QED
          BY <1>1, <5>1, <5>2 DEF n
      <4> QED
        BY <1>2, <4>1, <4>2, <4>4, <4>5, <1>1
    <3>4. CASE c.party = p /\ c.op \in {"SetAlias", "SetAvatarUri"}
      <4>1. docs'[p].services = docs[p].services /\ docs[p] # NoDoc
        BY <3>1, <3>4, DocEffect
      <4> QED
        BY <1>5, <1>7, <4>1
    <3>5. CASE c.party = p /\ c.op = "AddService"
      <4>1. docs'[p].services = docs[p].services + 1 /\ docs[p] # NoDoc
        BY <3>1, <3>5, DocEffect
      <4>2. f \in Adders(p) /\ f \notin Adders(p)'
        BY <1>7, <3>5 DEF Adders
      <4>3. Adders(p)' \subseteq Adders(p)
        BY <1>1, <1>3, <4>1
      <4>4. Cardinality(Adders(p)') + 1 <= Cardinality(Adders(p))
        BY <1>1, <4>2, <4>3, Fewer
      <4> QED
        BY <1>1, <1>2, <1>4, <1>7, <2>1, <4>1, <4>4
    <3> QED
      BY <3>1, <3>2, <3>3, <3>4, <3>5 DEF DocCalls, Fills
  <2> QED
    BY <2>2, <2>3
<1>8. ASSUME NEW c \in Calls, UNCHANGED identity, late' = late \union {c}, lost' = lost + 1
      PROVE  docs'[p].services + Cardinality(Adders(p)') + Cardinality(LateAdds(p)')
               <= n + lost' + edits'
  <2>1. docs' = docs /\ docs[p] # NoDoc
    BY <1>8 DEF identity
  <2>2. LateAdds(p)' \subseteq LateAdds(p) \union {c}
    BY <1>8 DEF LateAdds
  <2>3. Cardinality(LateAdds(p)') <= Cardinality(LateAdds(p)) + 1
    BY <1>1, <2>2, OneMore
  <2>4. CASE docs[p].services = 0
    BY <1>1, <1>2, <2>1, <2>4
  <2>5. CASE Cardinality(Adders(p)') <= Cardinality(Adders(p))
    BY <1>1, <1>2, <1>4, <1>8, <2>1, <2>3, <2>5
  <2> QED
    BY <1>3, <2>4, <2>5
<1> QED
  BY <1>6, <1>7, <1>8 DEF Effect, n

-----------------------------------------------------------------------------
(* Late writes, and changes by others. *)

LEMMA LateStep ==
  ASSUME ChainTypes, LateExecute, needed' \in [Flows -> BOOLEAN]
  PROVE  /\ ChainTypes' /\ Grows /\ flow' = flow /\ lost' = lost /\ edits' = edits
         /\ \E c \in late : late' = late \ {c} /\ c \in Calls /\ Rules(c) = {} /\ Execute(c)
<1>1. PICK c \in late : /\ late' = late \ {c} /\ Rules(c) = {} /\ Execute(c)
                        /\ UNCHANGED <<flow, lost, edits, runs>>
  BY DEF LateExecute
<1>2. c \in Calls /\ IsFiniteSet(late) /\ late \subseteq Calls
  BY DEF ChainTypes
<1>3. IdentityTypes' /\ Grows
  BY <1>1, <1>2, ExecuteStep
<1>4. /\ IsFiniteSet(late') /\ Cardinality(late') <= Cardinality(late)
      /\ Cardinality(late) \in Nat /\ Cardinality(late') \in Nat /\ late' \subseteq late
  BY <1>1, <1>2, Fewer
<1>5. Cardinality(late') <= lost'
  BY <1>1, <1>4 DEF ChainTypes
<1> QED
  BY <1>1, <1>2, <1>3, <1>4, <1>5 DEF ChainTypes, IdentityTypes

LEMMA EditTypes ==
  ASSUME ChainTypes, Edit, UNCHANGED <<orgs, certs, runs>>,
         needed' \in [Flows -> BOOLEAN]
  PROVE  ChainTypes'
<1>1. /\ IdentityTypes' /\ late' = late /\ lost' = lost /\ edits' = edits + 1
      /\ lost + edits < MaxFaults
  BY EditStep
<1>2. lost \in Nat /\ edits \in Nat /\ MaxFaults \in Nat
  BY BoundsAssumption DEF ChainTypes
<1>3. edits' \in Nat /\ lost' + edits' <= MaxFaults
  BY <1>1, <1>2
<1> QED
  BY <1>1, <1>3 DEF ChainTypes, IdentityTypes

\* The flows have not moved.
LEMMA AddersStay ==
  ASSUME flow' = flow, NEW p
  PROVE  Adders(p)' = Adders(p)
BY DEF Adders, Adds, Has

LEMMA LateServices ==
  ASSUME FlowTypes, ChainTypes, Late, Services, \A g \in Flows : Progressed(flow[g]),
         ChainTypes', flow' = flow, lost' = lost, edits' = edits, Grows,
         NEW c \in late, late' = late \ {c}, c \in Calls, Rules(c) = {}, Execute(c)
  PROVE  Services' /\ Late'
<1>1. Late'
  <2>1. \A p \in Parties : LateAdds(p)' \subseteq LateAdds(p)
    BY DEF LateAdds
  <2> QED
    BY <2>1 DEF Late, Grows
<1> SUFFICES ASSUME NEW p \in Parties, docs'[p] # NoDoc
             PROVE  docs'[p].services + Cardinality(Adders(p)') + Cardinality(LateAdds(p)')
                      <= Cardinality(Flows) + lost' + edits'
  BY <1>1 DEF Services
<1> DEFINE n == Cardinality(Flows)
           a == Cardinality(Adders(p))
<1>2. /\ a \in Nat /\ n \in Nat /\ a <= n
      /\ IsFiniteSet(LateAdds(p)) /\ Cardinality(LateAdds(p)) \in Nat
      /\ Cardinality(LateAdds(p)) <= lost
      /\ lost \in Nat /\ edits \in Nat
      /\ docs[p] # NoDoc => docs[p].services \in Nat
  BY CountsOf
<1>3. Cardinality(Adders(p)') = a
  BY AddersStay
<1>4. docs[p] # NoDoc =>
        docs[p].services + a + Cardinality(LateAdds(p)) <= n + lost + edits
  BY DEF Services
<1> HIDE DEF n, a
<1>5. /\ LateAdds(p)' \subseteq LateAdds(p) /\ Cardinality(LateAdds(p)') \in Nat
      /\ Cardinality(LateAdds(p)') <= Cardinality(LateAdds(p))
  <2>1. LateAdds(p)' \subseteq LateAdds(p)
    BY DEF LateAdds
  <2> QED
    BY <1>2, <2>1, Fewer
<1>6. docs'[p].services \in Nat
  BY DEF ChainTypes, Docs
<1>7. ASSUME docs'[p].services = docs[p].services, docs[p] # NoDoc
      PROVE  docs'[p].services + Cardinality(Adders(p)') + Cardinality(LateAdds(p)')
               <= n + lost' + edits'
  BY <1>2, <1>3, <1>4, <1>5, <1>6, <1>7
<1>8. CASE c.op \in {"RegisterOrganization", "DiscloseVcAttestation"}
  <2>1. docs' = docs
    BY <1>8, ExecuteStep
  <2> QED
    BY <1>7, <2>1 DEF n
<1>9. CASE c.op \notin {"RegisterOrganization", "DiscloseVcAttestation"}
  <2>1. c \in DocCalls /\ DocRules(c) = {} /\ DocExecute(c)
    BY <1>9, SortsDiffer DEF Rules, Execute
  <2>2. CASE c.party # p
    <3>1. docs'[p] = docs[p]
      BY <2>1, <2>2, DocEffect
    <3> QED
      BY <1>7, <3>1 DEF n
  <2>3. CASE c.party = p /\ c.op = "Create"
    <3>1. docs[p] = NoDoc /\ docs'[p].services <= 1
      BY <2>1, <2>3, DocEffect
    <3>2. LateAdds(p)' = {} /\ Cardinality(LateAdds(p)') = 0
      BY <1>5, <3>1, FS_EmptySet DEF Late
    <3>3. Adders(p) = {} /\ a = 0
      BY <3>1, FS_EmptySet DEF Adders, Adds, Progressed, a
    <3>4. lost >= 1
      <4>1. {} \subseteq late /\ IsFiniteSet(late) /\ Cardinality({}) = 0
            /\ Cardinality(late) <= lost
        BY FS_EmptySet DEF ChainTypes
      <4>2. Cardinality({}) + 1 <= Cardinality(late) /\ Cardinality(late) \in Nat
        BY <4>1, Fewer
      <4> QED
        BY <1>2, <4>1, <4>2
    <3> QED
      BY <1>2, <1>3, <1>6, <3>1, <3>2, <3>3, <3>4 DEF n
  <2>4. CASE c.party = p /\ c.op \in {"SetAlias", "SetAvatarUri"}
    <3>1. docs'[p].services = docs[p].services /\ docs[p] # NoDoc
      BY <2>1, <2>4, DocEffect
    <3> QED
      BY <1>7, <3>1 DEF n
  <2>5. CASE c.party = p /\ c.op = "AddService"
    <3>1. docs'[p].services = docs[p].services + 1 /\ docs[p] # NoDoc
      BY <2>1, <2>5, DocEffect
    <3>2. c \in LateAdds(p) /\ c \notin LateAdds(p)'
      BY <2>5 DEF LateAdds
    <3>3. Cardinality(LateAdds(p)') + 1 <= Cardinality(LateAdds(p))
      BY <1>2, <1>5, <3>2, Fewer
    <3> QED
      BY <1>2, <1>3, <1>4, <1>5, <3>1, <3>3 DEF n
  <2> QED
    BY <2>1, <2>2, <2>3, <2>4, <2>5 DEF DocCalls, Fills
<1> QED
  BY <1>8, <1>9

LEMMA EditServices ==
  ASSUME FlowTypes, ChainTypes, Late, Services, ChainTypes',
         Edit, UNCHANGED <<orgs, certs, runs>>
  PROVE  Services' /\ Late'
<1>1. /\ Grows /\ flow' = flow /\ late' = late /\ lost' = lost /\ edits' = edits + 1
      /\ \A p \in Parties : docs[p] = NoDoc => docs'[p] = NoDoc
      /\ \A p \in Parties : docs[p] # NoDoc => docs'[p].services <= docs[p].services + 1
  BY EditStep
<1>2. \A p \in Parties : LateAdds(p)' = LateAdds(p)
  BY <1>1 DEF LateAdds
<1>3. Late'
  BY <1>1, <1>2 DEF Late, Grows
<1>4. ASSUME NEW p \in Parties, docs'[p] # NoDoc
      PROVE  docs'[p].services + Cardinality(Adders(p)') + Cardinality(LateAdds(p)')
               <= Cardinality(Flows) + lost' + edits'
  <2>1. docs[p] # NoDoc /\ docs'[p].services <= docs[p].services + 1
    BY <1>1, <1>4
  <2>2. docs'[p].services \in Nat
    BY <1>4 DEF ChainTypes, Docs
  <2>3. docs[p].services + Cardinality(Adders(p)) + Cardinality(LateAdds(p))
          <= Cardinality(Flows) + lost + edits
    BY <2>1 DEF Services
  <2>4. /\ Cardinality(Adders(p)) \in Nat /\ Cardinality(Flows) \in Nat
        /\ Cardinality(LateAdds(p)) \in Nat /\ lost \in Nat /\ edits \in Nat
        /\ docs[p].services \in Nat
    BY <2>1, CountsOf
  <2>5. Adders(p)' = Adders(p)
    BY <1>1, AddersStay
  <2> QED
    BY <1>1, <1>2, <1>4, <2>1, <2>2, <2>3, <2>4, <2>5
<1> QED
  BY <1>3, <1>4 DEF Services

-----------------------------------------------------------------------------
(* The invariant. *)

LEMMA RecordTypes ==
  ASSUME Record
  PROVE  /\ needed' \in [Flows -> BOOLEAN]
         /\ \A g \in Flows : needed'[g] =
              (Running(g)' /\ (~ InPlace(flow[g].req)' \/ flow'[g].blind
                               \/ (Running(g) /\ needed[g])))
BY Zenon DEF Record

\* A certificate is never taken back.
LEMMA IssuedStays ==
  ASSUME IssuedOnChain, Grows, NEW g \in Flows, flow'[g] = flow[g],
         flow[g].stage = "done", flow[g].req.kind = "vc-issue"
  PROVE  \A s \in DOMAIN flow'[g].req.schemas : \E i \in Parties :
           <<flow'[g].req.subject, flow'[g].req.schemas[s], i>> \in certs'
BY DEF IssuedOnChain, Grows

\* What everything needs of a step, whoever takes it.
LEMMA OthersStep ==
  ASSUME IInv, Others, Record
  PROVE  IInv'
<1>1. /\ FlowTypes /\ ChainTypes /\ Late /\ Services /\ IssuedOnChain /\ SettledRerun
      /\ \A g \in Flows : Progressed(flow[g])
  BY DEF IInv
<1>2. needed' \in [Flows -> BOOLEAN]
  BY RecordTypes
<1>3. flow' = flow /\ Grows /\ ChainTypes' /\ Services' /\ Late'
  <2>1. CASE LateExecute
    <3>1. /\ ChainTypes' /\ Grows /\ flow' = flow /\ lost' = lost /\ edits' = edits
          /\ \E c \in late : /\ late' = late \ {c} /\ c \in Calls
                             /\ Rules(c) = {} /\ Execute(c)
      BY <1>1, <1>2, <2>1, LateStep
    <3> QED
      BY <1>1, <3>1, LateServices
  <2>2. CASE Edit /\ UNCHANGED <<orgs, certs, runs>>
    <3>1. flow' = flow /\ Grows
      BY <1>1, <2>2, EditStep
    <3>2. ChainTypes'
      BY <1>1, <1>2, <2>2, EditTypes
    <3> QED
      BY <1>1, <2>2, <3>1, <3>2, EditServices
  <2> QED
    BY <2>1, <2>2 DEF Others
<1>4. FlowTypes'
  BY <1>1, <1>3 DEF FlowTypes, Placed
<1>5. ASSUME NEW g \in Flows PROVE Progressed(flow[g])'
  BY <1>1, <1>3, ProgressStays
<1>6. IssuedOnChain'
  BY <1>1, <1>3, IssuedStays DEF IssuedOnChain
<1>7. SettledRerun'
  BY <1>1, <1>3, RecordTypes DEF SettledRerun, Running
<1> QED
  BY <1>3, <1>4, <1>5, <1>6, <1>7 DEF IInv

LEMMA FlowStep ==
  ASSUME IInv, NEW f \in Flows, Step(f), Record
  PROVE  IInv'
<1>1. /\ FlowTypes /\ ChainTypes /\ Late /\ Services /\ IssuedOnChain /\ SettledRerun
      /\ \A g \in Flows : Progressed(flow[g])
  BY DEF IInv
<1>2. needed' \in [Flows -> BOOLEAN]
  BY RecordTypes
<1>3. Does(f) /\ Effect(f) /\ edits' = edits /\ runs' \in 0..MaxRuns
  BY <1>1, StepEffect DEF Knows
<1>4. FlowTypes' /\ \A g \in Flows \ {f} : flow'[g] = flow[g]
  BY <1>3 DEF Does
<1>5. ChainTypes' /\ Grows
  BY <1>1, <1>2, <1>3, EffectTypes
<1>6. Late' /\ Services'
  BY <1>1, <1>3, <1>4, <1>5, EffectLate, EffectServices
<1>7. ASSUME NEW g \in Flows PROVE Progressed(flow[g])'
  <2>1. CASE g = f
    BY <1>3, <2>1 DEF Does
  <2>2. CASE g # f
    BY <1>1, <1>4, <1>5, <2>2, ProgressStays
  <2> QED
    BY <2>1, <2>2
<1>8. IssuedOnChain'
  <2> SUFFICES ASSUME NEW g \in Flows, flow'[g].stage = "done",
                      flow'[g].req.kind = "vc-issue"
               PROVE  \A s \in DOMAIN flow'[g].req.schemas : \E i \in Parties :
                        <<flow'[g].req.subject, flow'[g].req.schemas[s], i>> \in certs'
    BY DEF IssuedOnChain
  <2>1. CASE g = f
    BY <1>3, <2>1 DEF Does
  <2>2. CASE g # f
    BY <1>1, <1>4, <1>5, <2>2, IssuedStays
  <2> QED
    BY <2>1, <2>2
<1>9. SettledRerun'
  <2> SUFFICES ASSUME NEW g \in Flows, Running(g)', flow'[g].at # "look"
               PROVE  needed'[g]
    BY DEF SettledRerun
  <2>1. \/ Running(g) /\ flow[g].at # "look"
        \/ flow'[g].blind \/ ~ InPlace(flow[g].req)'
    <3>1. CASE g = f
      BY <1>3, <3>1 DEF Does
    <3>2. CASE g # f
      BY <1>4, <3>2 DEF Running
    <3> QED
      BY <3>1, <3>2
  <2>2. (Running(g) /\ needed[g]) \/ flow'[g].blind \/ ~ InPlace(flow[g].req)'
    BY <1>1, <2>1 DEF SettledRerun
  <2> QED
    BY <2>2, RecordTypes
<1> QED
  BY <1>4, <1>5, <1>6, <1>7, <1>8, <1>9 DEF IInv

LEMMA InitIInv ==
  ASSUME Init
  PROVE  IInv
<1>1. Idle \in FlowRecords /\ Placed(Idle) /\ Idle.stage = "none" /\ Idle.at = "look"
  BY IdleIs
<1>2. /\ flow = [f \in Flows |-> Idle] /\ runs = 0
      /\ docs = [p \in Parties |-> NoDoc] /\ bound = {} /\ orgs = {} /\ certs = {}
      /\ late = {} /\ lost = 0 /\ edits = 0 /\ needed = [f \in Flows |-> FALSE]
  BY DEF Init
<1> HIDE DEF Idle
<1>3. FlowTypes
  BY <1>1, <1>2 DEF FlowTypes
<1>4. ChainTypes
  <2>1. IsFiniteSet({}) /\ Cardinality({}) = 0
    BY FS_EmptySet
  <2>2. MaxRuns \in Nat /\ MaxFaults \in Nat
    BY BoundsAssumption
  <2>3. 0 \in 0..MaxRuns /\ 0 + 0 <= MaxFaults /\ 0 <= 0
    BY <2>2
  <2>4. needed \in [Flows -> BOOLEAN] /\ docs \in [Parties -> Docs \union {NoDoc}]
    BY <1>2
  <2> QED
    BY <1>2, <2>1, <2>3, <2>4 DEF ChainTypes
<1>5. Late /\ Services
  BY <1>2 DEF Late, LateAdds, Services
<1>6. \A f \in Flows : Progressed(flow[f])
  BY <1>1, <1>2 DEF Progressed
<1>7. IssuedOnChain /\ SettledRerun
  BY <1>1, <1>2 DEF IssuedOnChain, SettledRerun, Running
<1> QED
  BY <1>3, <1>4, <1>5, <1>6, <1>7 DEF IInv

LEMMA NextIInv ==
  ASSUME IInv, [Next]_vars
  PROVE  IInv'
<1>1. CASE Others /\ Record
  BY <1>1, OthersStep
<1>2. ASSUME NEW f \in Flows, Step(f), Record PROVE IInv'
  BY <1>2, FlowStep
<1>3. CASE UNCHANGED vars
  <2>1. FlowTypes' /\ ChainTypes'
    BY <1>3 DEF vars, IInv, FlowTypes, Placed, ChainTypes
  <2>2. \A p \in Parties : LateAdds(p)' = LateAdds(p) /\ Adders(p)' = Adders(p)
    BY <1>3, AddersStay DEF vars, LateAdds
  <2>3. Late' /\ Services'
    BY <1>3, <2>2 DEF vars, IInv, Late, Services
  <2>4. \A f \in Flows : Progressed(flow[f])'
    BY <1>3 DEF vars, IInv, Progressed, HasDoc, HasCert
  <2>5. IssuedOnChain' /\ SettledRerun'
    BY <1>3 DEF vars, IInv, IssuedOnChain, SettledRerun, Running
  <2> QED
    BY <2>1, <2>2, <2>3, <2>4, <2>5 DEF IInv
<1> QED
  BY <1>1, <1>2, <1>3 DEF Next

\* The inductive invariant holds throughout.
THEOREM Inductive == Spec => []IInv
<1>1. Init => IInv
  BY InitIInv
<1>2. IInv /\ [Next]_vars => IInv'
  BY NextIInv
<1> QED
  BY <1>1, <1>2, PTL DEF Spec

-----------------------------------------------------------------------------
(* The properties. *)

\* Types, for any flows, accounts, names and requests: the list of what is left to
\* fill in belongs to its place, and no more calls are pending than were lost.
THEOREM TypeCorrect == Spec => []TypeOK
<1>1. IInv => TypeOK
  <2> SUFFICES ASSUME IInv PROVE TypeOK
    OBVIOUS
  <2>1. \A f \in Flows : flow[f] \in FlowRecords /\ Placed(flow[f])
    BY DEF IInv, FlowTypes
  <2> QED
    BY <2>1 DEF IInv, ChainTypes, TypeOK, FlowRecords, Placed, Fills
<1> QED
  BY <1>1, Inductive, PTL

\* A flow that ends well leaves documents, registration and certificates on the
\* chain, unless a write of its own failed quietly: each stage of
\* didEnsureDocument, VcFlow and IssueVcToAccount ends with what it ensures found,
\* written or refused because it is there, and nothing of it is ever taken back.
THEOREM OkMeansThereHolds == Spec => []OkMeansThere
<1>1. IInv => OkMeansThere
  BY DEF IInv, OkMeansThere, Progressed, HasDoc, HasCert, Certified
<1> QED
  BY <1>1, Inductive, PTL

\* A vc-issue that ends well has seen a certificate of every schema.
THEOREM IssuedOnChainHolds == Spec => []IssuedOnChain
<1>1. IInv => IssuedOnChain
  BY DEF IInv
<1> QED
  BY <1>1, Inductive, PTL

\* However many runs there are, a document has no more services than flows that can
\* run at once, calls lost and changes by others: what is registered, what flows have
\* set out to register and what is pending are bounded together.
THEOREM ServicesBoundedHolds == Spec => []ServicesBounded
<1>1. IInv => ServicesBounded
  <2> SUFFICES ASSUME IInv, NEW p \in Parties, docs[p] # NoDoc
               PROVE  docs[p].services <= Cardinality(Flows) + lost + edits
    BY DEF ServicesBounded
  <2>1. docs[p].services + Cardinality(Adders(p)) + Cardinality(LateAdds(p))
          <= Cardinality(Flows) + lost + edits
    BY DEF IInv, Services
  <2>2. /\ Cardinality(Adders(p)) \in Nat /\ Cardinality(LateAdds(p)) \in Nat
        /\ Cardinality(Flows) \in Nat /\ lost \in Nat /\ edits \in Nat
        /\ docs[p].services \in Nat
    BY CountsOf DEF IInv
  <2> QED
    BY <2>1, <2>2
<1> QED
  BY <1>1, Inductive, PTL

\* An optional alias never ends a vc-issue, at creation or when filling in.
THEOREM OptionalNeverBlocksHolds == Spec => []OptionalNeverBlocks
<1>1. IInv => OptionalNeverBlocks
  BY DEF IInv, FlowTypes, Placed, OptionalNeverBlocks
<1> QED
  BY <1>1, Inductive, PTL

\* A flow that goes to send anything has missed something, or a view of it failed.
THEOREM SettledRerunHolds == Spec => []SettledRerun
<1>1. IInv => SettledRerun
  BY DEF IInv
<1> QED
  BY <1>1, Inductive, PTL

=============================================================================
