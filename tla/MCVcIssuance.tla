---------------------------- MODULE MCVcIssuance ----------------------------
(* Model values and requests for TLC runs of VcIssuance. *)
EXTENDS VcIssuance, TLC

CONSTANTS org, user

Plain == [alias |-> NoAlias, fixed |-> FALSE, optional |-> FALSE,
          service |-> FALSE, avatar |-> FALSE]

\* vc-flow draws aliases; vc-issue has the given ones of the plan, optional.
Drawn(a) == [Plain EXCEPT !.alias = a]
Given(a) == [Plain EXCEPT !.alias = a, !.fixed = TRUE, !.optional = TRUE,
                          !.avatar = TRUE]

Did(p, want) == [kind |-> "did", issuer |-> p, subject |-> p, type |-> "Personal",
                 issuerDid |-> want, subjectDid |-> want, schemas |-> <<"A">>]

Vc(kind, i, u, iwant, uwant, schemas) ==
  [kind |-> kind, issuer |-> i, subject |-> u, type |-> "Personal",
   issuerDid |-> iwant, subjectDid |-> uwant, schemas |-> schemas]

\* Two of them want the same account's document, one as a person's.
SomeRequests ==
  { Did(user, [Plain EXCEPT !.service = TRUE]),
    Vc("vc-flow", user, org, Plain, Drawn("auto"), <<"A">>),
    Vc("vc-issue", org, user, Given("seed"), [Plain EXCEPT !.optional = TRUE],
       <<"A", "B">>) }

AnyFlow == Permutations(Flows)

Names == {"auto", "seed"}
TwoSchemas == {"A", "B"}
=============================================================================
