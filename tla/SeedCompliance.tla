--------------------------- MODULE SeedCompliance ---------------------------
(***************************************************************************)
(* The compliance module of a seed job (handler/seed_runner.go             *)
(* runComplianceOne) for one token: create it, make it demand a            *)
(* certificate, mint, show that a certified user can receive it and that   *)
(* an uncertified one cannot.  Jobs follow one another; a job may start    *)
(* from fewer marks than the last one made, after a reset, a crash or a    *)
(* Save that failed.  Certificates change under other requests.            *)
(*                                                                         *)
(* Of a call of seedSendSingle only its moment on the chain is kept: the   *)
(* chain carries it out, or fails it and the call returns without an error *)
(* all the same, or refuses it with the code of the rule it breaks, or the *)
(* call ends in an error and the chain may carry the transaction out later.*)
(***************************************************************************)
EXTENDS Naturals, FiniteSets

CONSTANTS
  Users,      \* the users of the plan
  Receiver,   \* c.CertifiedReceiver
  Victim,     \* c.UncertifiedVictim
  Full,       \* mintAmt
  Part,       \* the amount passed to the certified receiver
  Dust,       \* the amount of the transfer that is to be refused
  Nobody,     \* no user chosen
  MaxJobs,    \* bound: jobs started in a behaviour
  MaxLost,    \* bound: calls that end in an error although the chain may act
  MaxChanges  \* bound: changes of certificates

ASSUME SetupAssumption ==
  /\ Receiver \in Users /\ Victim \in Users /\ Nobody \notin Users
  /\ Full \in Nat /\ Part \in 1..Full /\ Dust \in 1..Part
  /\ MaxJobs \in Nat /\ MaxLost \in Nat /\ MaxChanges \in Nat

VARIABLES
  pc,         \* the stage the job is at
  marks,      \* the job's copy of the marks
  probed,     \* the user the reject stage chose to test
  outcome,    \* how the last job ended
  saved,      \* the marks in the state file
  jobs,       \* jobs started
  created, mode, required,  \* the token on the chain and its rules
  held,       \* balances of the minter and of the receiver
  certified,  \* the users with a certificate
  changes,    \* changes of certificates so far
  late,       \* transactions the chain may still carry out
  lost,       \* number of calls that ended in such an error
  quiet,      \* history: operations the chain failed although the call did not
  minted,     \* history: mints that were answered and carried out
  paid,       \* history: transfers to the receiver, likewise
  forgotten,  \* history: starts without a mint mark that had been made
  waived      \* history: the requirement was refused with a tolerated code although
              \* it was not in force

job     == <<pc, marks, probed, outcome>>
chain   == <<created, mode, required, held>>
certs   == <<certified, changes>>
history == <<quiet, minted, paid>>
vars    == <<job, saved, jobs, chain, certs, late, lost, history, forgotten, waived>>

Ops    == {"create", "mode", "require", "mint", "pay"}
Stages == {"credential", "create", "mode", "requirements", "mint", "accept",
           "reject", "verify"}

Init ==
  /\ pc = "idle" /\ marks = {} /\ probed = Nobody /\ outcome = "none"
  /\ saved = {} /\ jobs = 0
  /\ created = FALSE /\ mode = FALSE /\ required = FALSE
  /\ held = [minter |-> 0, receiver |-> 0]
  /\ certified \in SUBSET Users /\ changes = 0
  /\ late = {} /\ lost = 0
  /\ quiet = {} /\ minted = 0 /\ paid = 0 /\ forgotten = 0 /\ waived = FALSE
-----------------------------------------------------------------------------
(* The chain (external): what an operation requires and does. *)

\* A transfer to an uncertified user is refused once the rules are in force.
Blocked(u) == created /\ mode /\ required /\ u \notin certified

Possible(op) ==
  CASE op = "create"  -> ~ created
    [] op = "mode"    -> created
    [] op = "require" -> created /\ ~ required
    [] op = "mint"    -> created
    [] op = "pay"     -> created /\ held.minter >= Part /\ ~ Blocked(Receiver)

Execute(op) ==
  /\ created' = (created \/ op = "create")
  /\ mode' = (mode \/ op = "mode")
  /\ required' = (required \/ op = "require")
  /\ held' = CASE op = "mint" -> [held EXCEPT !.minter = @ + Full]
               [] op = "pay"  -> [minter |-> held.minter - Part,
                                  receiver |-> held.receiver + Part]
               [] OTHER -> held

LateExecute == \E call \in late :
  /\ late' = late \ {call}
  /\ Possible(call[1]) /\ Execute(call[1])
  /\ UNCHANGED <<job, saved, jobs, certs, lost, history, forgotten, waived>>

\* Other requests issue and revoke certificates.
Certify == \E u \in Users :
  /\ changes < MaxChanges /\ changes' = changes + 1
  /\ certified' = IF u \in certified THEN certified \ {u} ELSE certified \union {u}
  /\ UNCHANGED <<job, saved, jobs, chain, late, lost, history, forgotten, waived>>
-----------------------------------------------------------------------------
(* A call of seedSendSingle or seedSendDual. *)

\* It returns without an error.
Done(op) ==
  /\ \/ /\ Possible(op) /\ Execute(op) /\ UNCHANGED quiet
        /\ minted' = IF op = "mint" THEN minted + 1 ELSE minted
        /\ paid' = IF op = "pay" THEN paid + 1 ELSE paid
     \/ quiet' = quiet \union {op} /\ UNCHANGED <<chain, minted, paid>>
  /\ UNCHANGED <<late, lost>>

\* It returns an error.
Failed(op) ==
  /\ \/ UNCHANGED <<late, lost>>
     \/ lost < MaxLost /\ lost' = lost + 1 /\ late' = late \union {<<op, lost'>>}
  /\ UNCHANGED <<chain, history>>
-----------------------------------------------------------------------------
(* Steps of the job. *)

At(stage) == pc = stage

\* mark: state.Mark, then Save, whose error is ignored.
Mark(stage) ==
  /\ marks' = marks \union {stage}
  /\ saved' \in {saved, marks \union {stage}}

Goto(at) == pc' = at /\ UNCHANGED outcome

End(how) == pc' = "idle" /\ outcome' = how /\ probed' = Nobody

Fail == End("failed") /\ UNCHANGED <<marks, saved>>

Pass(stage, next) ==
  /\ At(stage) /\ stage \in marks
  /\ Goto(next)
  /\ UNCHANGED <<marks, probed, saved, jobs, chain, certs, late, lost, history,
                 forgotten, waived>>
-----------------------------------------------------------------------------
(* Mistakes: the code as a plausible bug would leave it. *)

\* Any error of AddComplianceRequirement is passed over.
RequireTolerant ==
  /\ At("requirements") /\ "requirements" \notin marks
  /\ Done("require") \/ Failed("require")
  /\ Mark("requirements") /\ Goto("mint")
  /\ UNCHANGED <<probed, jobs, certs, forgotten, waived>>

\* The mint stage trusts the balance alone.
MintReadUnmarked ==
  /\ At("mint")
  /\ IF held.minter < Full
     THEN Goto("mintSend") /\ UNCHANGED <<marks, saved>>
     ELSE Mark("mint") /\ Goto("accept")
  /\ UNCHANGED <<probed, jobs, chain, certs, late, lost, history, forgotten, waived>>

\* The receiver's balance is not looked at.
AcceptBlind ==
  /\ At("accept") /\ "accept" \notin marks
  /\ Goto("pay")
  /\ UNCHANGED <<marks, probed, saved, jobs, chain, certs, late, lost, history,
                 forgotten, waived>>

\* A payment that was given up counts as made.
PayTolerant ==
  /\ At("pay")
  /\ Done("pay") \/ Failed("pay")
  /\ Mark("accept") /\ Goto("reject")
  /\ UNCHANGED <<probed, jobs, certs, forgotten, waived>>
-----------------------------------------------------------------------------
Start == \E reset \in BOOLEAN :
  /\ At("idle") /\ jobs < MaxJobs
  /\ jobs' = jobs + 1
  /\ IF reset THEN marks' = {} /\ saved' \in {saved, {}}
              ELSE marks' = saved /\ UNCHANGED saved
  /\ forgotten' = IF minted > 0 /\ "mint" \notin marks' THEN forgotten + 1
                                                         ELSE forgotten
  /\ Goto("credential")
  /\ UNCHANGED <<probed, chain, certs, late, lost, history, waived>>

\* The credential id is asked for once, by a view.
Credential ==
  /\ At("credential") /\ "credential" \notin marks
  /\ Mark("credential") /\ Goto("create")
  /\ UNCHANGED <<probed, jobs, chain, certs, late, lost, history, forgotten, waived>>

\* Created, or refused with code 516: it exists.
Create ==
  /\ At("create") /\ "create" \notin marks
  /\ Done("create") \/ (created /\ UNCHANGED <<chain, late, lost, history>>)
  /\ Mark("create") /\ Goto("mode")
  /\ UNCHANGED <<probed, jobs, certs, forgotten, waived>>

SetMode ==
  /\ At("mode") /\ "mode" \notin marks
  /\ Done("mode")
  /\ Mark("mode") /\ Goto("requirements")
  /\ UNCHANGED <<probed, jobs, certs, forgotten, waived>>

\* Added, or refused with a text that names a duplicate or one of the codes 1059,
\* 1064 and 520.  That is taken for a requirement that exists, but the chain gives
\* these codes other meanings, so such a refusal may come in any state.
Require ==
  /\ At("requirements") /\ "requirements" \notin marks
  /\ \/ Done("require") /\ UNCHANGED waived
     \/ waived' = (waived \/ ~ required) /\ UNCHANGED <<chain, late, lost, history>>
  /\ Mark("requirements") /\ Goto("mint")
  /\ UNCHANGED <<probed, jobs, certs, forgotten>>

\* The whole amount, whenever the minter holds less than that.
MintRead ==
  /\ At("mint") /\ "mint" \notin marks
  /\ IF held.minter < Full
     THEN Goto("mintSend") /\ UNCHANGED <<marks, saved>>
     ELSE Mark("mint") /\ Goto("accept")
  /\ UNCHANGED <<probed, jobs, chain, certs, late, lost, history, forgotten, waived>>

Mint ==
  /\ At("mintSend")
  /\ Done("mint") /\ Mark("mint") /\ Goto("accept")
  /\ UNCHANGED <<probed, jobs, certs, forgotten, waived>>

AcceptRead ==
  /\ At("accept") /\ "accept" \notin marks
  /\ IF held.receiver = 0
     THEN Goto("pay") /\ UNCHANGED <<marks, saved>>
     ELSE Mark("accept") /\ Goto("reject")
  /\ UNCHANGED <<probed, jobs, chain, certs, late, lost, history, forgotten, waived>>

Pay ==
  /\ At("pay")
  /\ Done("pay") /\ Mark("accept") /\ Goto("reject")
  /\ UNCHANGED <<probed, jobs, certs, forgotten, waived>>

\* The calls whose error ends the job, with the stage each is made in.  A crash
\* during a call is the same to the chain.
CallOf == [create |-> "create", mode |-> "mode", requirements |-> "require",
           mintSend |-> "mint", pay |-> "pay"]

CallError == \E at \in DOMAIN CallOf :
  /\ At(at) /\ at \notin marks
  /\ Failed(CallOf[at]) /\ Fail
  /\ UNCHANGED <<jobs, certs, forgotten, waived>>

ViewError ==
  /\ pc \in {"credential", "mint", "accept"} \ marks
  /\ Fail
  /\ UNCHANGED <<jobs, chain, certs, late, lost, history, forgotten, waived>>

\* The victim holds no certificate, or the view failed: the victim stays who is
\* to be tested, and for it nothing is sent.
RejectVictim ==
  /\ At("reject") /\ "reject" \notin marks
  /\ Goto("verify")
  /\ UNCHANGED <<marks, probed, saved, jobs, chain, certs, late, lost, history,
                 forgotten, waived>>

\* The victim has been certified: another user is looked for among those whose
\* view answers.
RejectOther == \E seen \in SUBSET Users :
  /\ At("reject") /\ "reject" \notin marks /\ Victim \in certified
  /\ IF seen \subseteq certified
     THEN Mark("reject") /\ Goto("verify") /\ UNCHANGED probed
     ELSE /\ probed' \in seen \ certified /\ Goto("probe")
          /\ UNCHANGED <<marks, saved>>
  /\ UNCHANGED <<jobs, chain, certs, late, lost, history, forgotten, waived>>

\* The transfer to the user found ends in an error whose text holds the number 521
\* or 522: the refusal that is wanted, or an HTTP status or an amount that reads the
\* same.
ProbeBlocked ==
  /\ At("probe")
  /\ Mark("reject") /\ Goto("verify")
  /\ UNCHANGED <<probed, jobs, chain, certs, late, lost, history, forgotten, waived>>

\* It went through, and the job calls the environment abnormal.
ProbeThrough ==
  /\ At("probe") /\ ~ Blocked(probed) /\ held.minter >= Dust
  /\ held' = [minter |-> held.minter - Dust,
              receiver |-> IF probed = Receiver THEN held.receiver + Dust
                                                ELSE held.receiver]
  /\ Fail
  /\ UNCHANGED <<jobs, created, mode, required, certs, late, lost, history,
                 forgotten, waived>>

\* It failed for another reason; or the chain failed it without an error of the
\* call, which looks as if it had gone through.
ProbeError ==
  /\ At("probe")
  /\ Fail
  /\ UNCHANGED <<jobs, chain, certs, late, lost, history, forgotten, waived>>

\* The rules are read back; the stage is marked whatever the view says.
Verify ==
  /\ At("verify")
  /\ End("completed")
  /\ IF "verify" \in marks THEN UNCHANGED <<marks, saved>> ELSE Mark("verify")
  /\ UNCHANGED <<jobs, chain, certs, late, lost, history, forgotten, waived>>

Crash ==
  /\ ~ At("idle")
  /\ Fail
  /\ UNCHANGED <<jobs, chain, certs, late, lost, history, forgotten, waived>>
-----------------------------------------------------------------------------
Job ==
  \/ Pass("credential", "create") \/ Credential
  \/ Pass("create", "mode") \/ Create
  \/ Pass("mode", "requirements") \/ SetMode
  \/ Pass("requirements", "mint") \/ Require
  \/ Pass("mint", "accept") \/ MintRead \/ Mint
  \/ Pass("accept", "reject") \/ AcceptRead \/ Pay
  \/ CallError \/ ViewError
  \/ Pass("reject", "verify") \/ RejectVictim \/ RejectOther
  \/ ProbeBlocked \/ ProbeThrough \/ ProbeError
  \/ Verify

Next == Start \/ Job \/ Crash \/ LateExecute \/ Certify

Spec == Init /\ [][Next]_vars
-----------------------------------------------------------------------------
(* Properties *)

\* Every variable has its type, and the reject stage tests a user of the plan.
TypeOK ==
  /\ pc \in {"idle", "mintSend", "pay", "probe"} \union Stages
  /\ marks \subseteq Stages /\ saved \subseteq Stages
  /\ probed \in Users \union {Nobody}
  /\ pc = "probe" => probed \in Users
  /\ outcome \in {"none", "completed", "failed"} /\ jobs \in 0..MaxJobs
  /\ created \in BOOLEAN /\ mode \in BOOLEAN /\ required \in BOOLEAN
  /\ held \in [{"minter", "receiver"} -> Nat]
  /\ certified \subseteq Users /\ changes \in 0..MaxChanges
  /\ late \subseteq Ops \X (1..MaxLost) /\ lost \in 0..MaxLost
  /\ quiet \subseteq Ops /\ minted \in Nat /\ paid \in Nat /\ forgotten \in Nat
  /\ waived \in BOOLEAN

\* The whole amount is minted again only by a job that started without the mint
\* mark an earlier one had made, although the minter holds less than the whole
\* as soon as the receiver was paid.
MintedOnce == minted <= 1 + forgotten

\* The receiver is paid once, however many jobs run and whatever marks they lost,
\* not counting calls that ended in an error.
PaidOnce == paid <= 1

\* The transfers of the demonstration are made on a token whose rules are in
\* force.  Two things may keep a rule away, and nothing else: the chain failed the
\* call that sets it without an error, or it refused the requirement with a code
\* the job takes for a duplicate.
RulesFirst ==
  pc \in {"accept", "pay", "reject", "probe"} =>
    /\ mode \/ "mode" \in quiet
    /\ required \/ "require" \in quiet \/ waived

\* A job that ends "completed" leaves what it set out to show: the token is there, it
\* demands certificates, and the certified receiver holds some of it, although each
\* stage trusts a mark of an earlier job, a code or a balance, unless the chain
\* failed that call without an error.
CompletedShows ==
  outcome = "completed" =>
    /\ created \/ "create" \in quiet
    /\ mode \/ "mode" \in quiet
    /\ held.receiver > 0 \/ "pay" \in quiet

=============================================================================
