# Verification of milon_console

TLA+ specifications, TLC configurations and TLAPS proofs for the console
service of this repository: an HTTP server (gin) in front of the Milon chain
with a data seeder, saved instructions, bulk transfers, flows over
certificates and tokens, and a Go SDK that talks to the node.

Contents: [the system](#1-the-system), [the modules](#2-the-modules),
[the runs](#3-the-runs), [fairness](#4-fairness),
[disagreements found](#5-disagreements-between-code-and-documents),
[proofs](#6-proofs), [what is not modelled](#7-what-is-not-modelled),
[plan](#8-plan).  `PROJECT.json` is the index: components with their status,
runs, the source lines of every definition, hazards at their lines with the
properties that watch them, and theorems.

To repeat the work: `tlc -config SeedJobRun.cfg MCSeedJob` (likewise the
other `.cfg` files, whose module is the `MC` module of the same component) and
`tlapm SeedJobProofs.tla`.

## 1. The system

| component | state it keeps | operations | what is hard |
|---|---|---|---|
| Seed job manager (`handler/seed_handler.go`, `handler/seed_keys_state.go`) | `jobs`, `runningID` under `jobsMu`; each job's fields under `job.mu`; `data/seed_state.json` | `POST /api/tool/seed`, the background goroutine, `GET /api/tool/seed/status/:id` | one job at a time; the file is read and written by goroutines and pollers without a lock; crash and restart; every error of `Save` is ignored |
| Seed module runner (`handler/seed_runner*.go`) | the `SeedState` in memory, the chain | seven modules made of checkpointed stages | carrying out again what a lost mark forgot, errors of the chain that mean "done already" (516, 521, 522, 1291), mints reconciled with balances, steps whose answer is lost |
| Seed planner (`handler/seed_config.go`, `handler/seed_plan*.go`, `handler/seed_templates.go`) | none | validate, hash, expand a configuration to a plan | boundaries of the configuration (one or two accounts, empty sections) |
| Submission (`handler/flow_helpers.go`, `gosdk-develop/rpcClientV1.go`, `gosdk-develop/tools/http.go`) | none | submit with HTTP retries, wait by polling | an error although the chain accepted; a final state that is a failure; time-outs |
| Saved instructions (`handler/saved_instruction_handler.go`) | a map under a lock and `data/saved_instructions.json` | create, update, delete, list, get, execute | a shared pointer changed outside the lock; a file written in place; private keys that must not be stored |
| Bulk transfer (`handler/bulk_transfer_handler.go`) | jobs with counters and a slice of results | start, a goroutine per account behind a semaphore, status polls | counters and results copied at different times, goroutines that end in any order, a claim that must be final before it is spent |
| Contract handlers (`handler/contract.go`) | a cache of the signers the chain lists for an address | simulate, write, simulate then write | a signature mode decided from the body, the cache and the chain, twice in one request; concurrent changes of signers |
| Arguments of a call (`handler/args_coerce.go`, `gosdk-develop/provider/provider.go`, `gosdk-develop/postcard/serializer.go`) | none | resolve the method, refuse missing arguments, coerce, encode, decode | two walks over one type that must agree; numbers that come as floats; a bound per integer type; variable-length bytes side by side |
| Network manager (`client/network_manager.go`, `middleware/network.go`) | the current network, a client per network | switch, client for a network | the default network changes between a request and its steps |
| DID and VC flows (`handler/did_handler.go`, `handler/vc_flow_handler.go`, `handler/vc_issue.go`) | none; documents, organisations and certificates on the chain | ensure a document, vc-flow, vc-issue, the single-write endpoints | several flows look and then write on the same accounts; aliases that are taken; a flow run again after a failure in the middle |
| SFT flow and the seeder's sft module (`handler/sft_flow_handler.go`, `handler/seed_runner_flows.go`) | marks with token ids in the seed state | create a collection, its slots and tokens, post operations | marks lost or kept over a wiped chain, ids read back from JSON |
| Account book (`handler/account_book_handler.go`) | `data/custom_accounts.json` | list, upsert, delete | an unreadable file counts as empty |
| Block stream (`gosdk-develop/blockStream.go`) | cursor, connection | subscribe, next, ack | acknowledgement before the next block, reconnection |
| Faucet, MIL transfer, transaction queries, IDL browsing, MCP tools, middleware | little or none | one request each | nothing between requests |

**How they interact.**  Handlers share the chain, through the SDK client that
the network middleware chose for the request, and hardly anything else.  The
seeder calls the flows' helpers (`flowSendTx`, `sftFlowSendWait`,
`flowEnsureFaucet`) from its one goroutine, and its vc module runs
`IssueVcToAccount`, which is also `POST /api/tool/vc-issue`, so that a job and
requests write the same documents with only the chain between them; a saved
instruction is executed with the same submission; a bulk transfer uses
`SubmitTx` and `WaitForTransaction` directly.  Submission is therefore common
ground, and has an abstract specification of its own, `TxOutcome`, that callers
use.

**What makes each part correct.**

- *Seed job manager*: one job at a time and a slot that is never lost; marks in
  the file stand for work that was done and are never undone by another job, a
  crash or a failed save; a status answer shows a finished job with every module
  its configuration gives work, unless a reset or a failed save lost marks.  A
  module whose section is empty marks nothing and is missing from the answer of a
  completed job (with the minimal preset `multisig`, `vc` and `compliance`).
- *Seed module runner*: a job that completes has produced what its plan says,
  and jobs that are run again do not do twice what was answered for.
- *Submission*: what a call returns is true of the chain, whatever requests and
  answers were lost, delayed or repeated.
- *Saved instructions*: what was answered 200 is there after any crash; deleted
  instructions stay deleted; no private key is kept.
- *Contract handlers*: a request is refused for its signatures only through its
  caller's choice or because the signers changed; what was simulated is what is
  submitted.
- *Arguments of a call*: what is signed means, argument by argument, what the
  caller's JSON says; no form the documents name is refused.
- *DID and VC flows*: success means that what the flow ensures is on the chain;
  a flow run again sends nothing for what is there; an optional alias never
  stops a flow.
- *SFT*: a mark names a whole slot, post operations touch only the tokens their
  scenario plans, whatever was lost in between.
- *Bulk transfer*: counters, results and the chain tell one story, in every
  answer, and every job completes.

## 2. The modules

| module | models | built on |
|---|---|---|
| `SeedJob` | the job manager: requests, slot, goroutine, three-step `Save`, status polls, crash | |
| `SeedLedger` | the abstract service: one slot, atomic commits of marks | implemented by `SeedJob` |
| `TxSubmit` | `flowSendTx` and `sftFlowSendWait` with retries, polls, node and network | |
| `TxOutcome` | the promise of a submission to its caller | implemented by `TxSubmit` |
| `SavedInstructions` | the store, its file, its handlers, crash and start-up | |
| `InstructionBook` | the abstract store: a book, its copy, and what was promised of both | implemented by `SavedInstructions` |
| `SeedTokens` | the stages create, mint and freeze of `runTokens` over several jobs | uses `TxOutcome` |
| `SeedCompliance` | the eight stages of `runComplianceOne` over several jobs | |
| `BulkTransfer` | a bulk transfer job | uses `TxOutcome` |
| `Signing` | contract requests, their signatures, the signer cache and the networks | |
| `ArgsCodec` | the arguments of a call from JSON to the signed body and back | extends `Varint` |
| `Varint` | a number as a varint, written and read | |
| `SeedSft` | `runSft` for one collection over several jobs | |
| `DidDocument` | `didEnsureDocument`, the rules of documents on the chain, the single-write endpoints that matter to a flow | |
| `VcIssuance` | `VcFlow`, `IssueVcToAccount` and `did/create` as concurrent flows | extends `DidDocument` |
| `SeedJobProofs`, `SeedTokensProofs`, `SeedComplianceProofs`, `SeedSftProofs`, `SavedInstructionsProofs`, `BulkTransferProofs`, `VcIssuanceProofs` | theorems and proofs | the module of that name |
| `SubmissionProofs` | theorems and proofs about a request's signatures, its submission, and the numbers in its body | `Signing`, `TxSubmit`, `Varint` |
| `MCSeedJob`, ... | model values for TLC | |

Every component module has the same layout: constants with named assumptions,
variables, the mistakes (actions as a plausible slip would leave them, used by
no specification; they show that each property can fail), the actions in the
order of the code, the specification, and the properties.

**SeedJob.**  `running` is `runningID`; `status[j]` and `spec[j]` are the fields
of a job; `pc[j]`, `mem[j]`, `todo[j]` the goroutine's place, its `SeedState`
and the modules left; `file` and `tmp` the two files.  `Start` is the critical
section of `Seed`; `StartBusy` and `StartRefused` are the refused request, in
two steps because the message reads `runningID` again after the unlock.
`Perform` and `EndModule` are one turn of the loop of `run`; a module is one
unit of work here, and `Planned` says which modules the plan of a configuration
has work for: the others are passed without a mark (`Passed`), as `runCompliance`,
`runVc` and `runMultisig` are for an empty section.  `SaveOpen`, `SaveWrite`, `SaveRename` are the truncation of
the temporary file, its completion and the rename; `SaveFail` ends a `Save` at
any of them, and its error goes nowhere.  `Fail` stands for an error or a panic
of a module, `Complete` for success; both publish the outcome under `job.mu`,
and `Clear` frees the slot later under `jobsMu`.  A status poll looks the job
up, copies its fields and then reads the file, in three steps.  `Crash` ends
every goroutine and request and keeps the files and the chain.

**TxSubmit.**  Each transaction is one call.  `Post` is an attempt of
`httpPost`, `Response` reads an answer (a 5xx is tried again, a rejection ends
the call), `NetError` an attempt that ended without one, `BodyError` an answer
that could not be read; `PollFinal`, `PollAgain`, `Deadline` are
`WaitForTransaction`.  `wire` holds the attempts the node has not received: a
request may be lost, or arrive after its attempt was given up.

**SavedInstructions.**  `items` is the map, `obj` what the pointers lead to,
`lock` and `save` the write lock and the place in `save()`, `whole` and `disk`
the file.  An update runs in the steps of the code: `Fetch` the pointer,
`AssignArgs`, `AssignKeys`, `Scrub`, `StoreUpdate`; only the last takes the
lock.  An instruction is reduced to who last wrote the fields that are kept and
whether a key field is set.  `Load` is the start-up, which refuses a file that
does not parse, strips keys and saves.

**InstructionBook.**  What a client may rely on: a book that is kept while a
process serves, and a copy that outlives it.  Every change is followed by one
attempt to replace the copy (`Damage`, then `Complete` or `GiveUp`); `Amend` is
the one liberty the code needs, a text that changes in the book ahead of the
change that writes it, which is the shared pointer.  No process opens a damaged
copy.  `promised` are instructions whose creation was answered, `closed` those
whose deletion was.  `SavedInstructions!ImplementsBook` maps the memory a process
shows to `book`, the holder of the lock to `replacing`, its buffer to `next`, a
file that parses to `sound`.

**SeedTokens.**  One token of the plan.  Balances are read one holder at a time
(`ReadBalance`), what is missing is computed once (`Missing`) and sent up to
`seedMintRetryMax` times (`MintSend`, `MintError`).  Transactions are slots of
`TxOutcome`; what they do when executed is the chain's part (`Possible`,
`Execute`).  An earlier configuration may have left balances (`Before`).
`unacked` adds up what mints gave whose answer was no ok; it is history, for
`MintedAsPlanned`.

**SeedCompliance.**  One token, with the chain's rule for uncertified receivers
(`Blocked`).  Of a submission only its moment on the chain is kept: it takes
effect, fails quietly, is refused with a code, or ends in an error and may take
effect later (`late`).  A refusal of the requirement that the code takes for a
duplicate may come in any state, because the chain gives the codes other
meanings; `waived` remembers that one came while the requirement was not in force.
The refusal of the last transfer is recognised by a number in the text, so
`ProbeBlocked` needs no state of the chain either.  Certificates are changed by
others (`Certify`).

**BulkTransfer.**  One job, since jobs share nothing.  `Launch` is the loop with
its semaphore, `ClaimError` to `PassedOn` a goroutine's claim and transfer,
`Report` and `Unlock` the section under `job.mu`, split so that a poll can
render the slice in between (`Render` takes no lock), `Snapshot` the copy of
the header under the lock.

**Signing.**  `current` is the network manager's default, `cache` is
`onchainSignersCache`, `onchain` the signers of each account on each network, and
`req[r]` a request with the roles its body names.  `ReceiveRequest` is
`ResolveNetwork` and the checks of the handler; for each role `GivenMode` is the
mode the body gives, `LookHit`, `LookMiss`, `FetchListed`, `FetchNothing` and
`Store` the lookup of its signers with the steps of the cache apart, and
`Decide` the correction by what was found.  `write-safe` does all of it twice
(`phase` "try", then "send"), the first time without the private keys.
`Buildable` is the validation of the SDK and `Verifies` the node's check.
Indices are converted to a `uint8` (`Wrap`).

**SeedSft.**  One collection.  `marks` and `ids` are the job's copy of the stages
and the token ids they carry; `own` tells which were made in this job, because
the code reads those with an assertion that only succeeds on what came from
JSON (`TokenIds`).  `Create`, `SlotMarked`, `EnsureSlot`, `MintOne` and
`MarkSlot` are the kernels and their marks; `PostDone`, `PostTolerated`,
`PostError`, `RejectRefused` and `RejectThrough` the outcomes of a post
operation; `Wipe` is a new genesis while the state file stays.

**DidDocument, VcIssuance.**  `flow[f]` is a request or a job's step; `stage` is
the part of the flow it is in and `at` the place in that part.
`ViewDocument`, `CreateDone`, `CreateRefused`, `CreatePlain`, `FillDone`,
`FillRefused` and `EnsureError` are `didEnsureDocument` with its retries of an
alias; `Edit` is another request or user that changes a document or binds a name
(`SetAlias`, `AddService`, `RemoveService`, `Deactivate`, `BindElsewhere`);
`ViewOrganization` to `DiscloseRefused` the other steps, each a view and
then a write; `Verify` the list that vc-issue reads at the end.  `quiet` records
the flow's writes that the chain failed without an error of the call, `blind`
that one of its views failed; both are history, for the properties.

**ArgsCodec.**  A value is a tagged tree, as JSON gives it and as the two walks
leave it; a type is a tree too.  `Coerce` is `coerceValue` with its branches by
type, `Put` is `serializeValue`, `Get` is `deserializeValue`; each has one
operator per case beside it.  `CheckArgs`, `CoerceArgs`, `EncodeCall` and
`DecodeCall` are the stages of a request; a stage that fails ends it
(`refused`).  A number is kept as twice its value so that halves exist, and
`Bound` rounds it to the mantissa as `encoding/json` does.  What strings spell is
given by constants.  `Meaning` is the reference: it reads the documents, not the
code, and says what a JSON value means for a type, with `Err` for what means
nothing and `Loose` where nobody says and the code may do either.

**Varint.**  `VarUint` writes a number in groups of bits, the lowest first and all
but the last flagged; `ReadVarUint` reads one back from a position, at most so
many bytes, or returns `Short`.  Both are recursive functions, so that the prover
can reason about them; `ArgsCodec`, which recurses over types, uses them.

## 3. The runs

| run | asks | instance |
|---|---|---|
| `seedjob_run` | are slot, marks, file and answers consistent in every interleaving, does it implement `SeedLedger`, is the slot always freed? | two jobs, two configurations, `vc` and `compliance`, one request, the second configuration with an empty `compliance`; one crash, one failing save, one failing module; jobs in canonical order |
| `txsubmit_run` | is what a call returns true, does it implement `TxOutcome`, does it return? | one checked and one plain call, three attempts, two polls |
| `txsubmit_ok` | does ok mean that the transaction took effect? (no) | one plain call |
| `saved_safety` | are memory and file in step, keys stripped, deletions final, and does the store implement `InstructionBook`? | two requests, two ids, bodies with any parts; crashes and failing saves without bound |
| `seedtokens_run` | does completion mean funded, and is nothing done twice? | two holders, two jobs, four transactions, two tries of a mint |
| `bulk_transfer` | do counters, results and chain agree, does the job complete? | up to two accounts, pool of one or two |
| `seedcompliance_run` | are rules set before transfers, is there one mint per mark lost and one payment, and does completion mean that token, mode and payment are there? | two users, two jobs, one lost answer, two changes of certificates |
| `signing_run` | is a refused signature the caller's or the chain's doing, and is what was simulated submitted? | two requests, two networks, two accounts, bodies that leave out, give or misgive each part of a role; one change of signers, one switch |
| `sft_run` | do marks name whole slots, are post operations earned and only as planned, is the collection there? | five configurations, three jobs, one lost call, one wipe |
| `sft_post` | has a completed job done its post operations? (no) | the same |
| `vc_run` | does success mean "on the chain", are services bounded, optional aliases harmless and reruns silent? | two flows, two accounts, two schemas, two runs of a certificate flow, `did/create` without bound; one lost call or one change by others; symmetry in flows |
| `codec_run` | does what is signed mean what was written, and is every documented form accepted? | eleven methods with every shape of type of the IDL files, 1818 requests, scaled widths, three outcomes of a float that does not fit |

**Why the bounds are enough.**  The hazards are between two of a kind: two jobs
over one file (one may have been ended by a crash), two requests on one
instruction, two goroutines on one slice, two jobs that carry out one stage.
`vc` and `compliance` are the only modules with a dependency, so two modules
show every order.  Two configurations are needed for name spaces to mix.  One
crash and one failing save let each occur at every step of every job; their
combination in one behaviour is covered, and the theorems hold for any number.
Three attempts are the code's `maxRetries`; the second and third differ in what
may still be on the wire.  Two polls let the chain change between them.  In
`SeedTokens` four transactions are a creation, a mint, its retry or the next
job's mint, and a freeze; amounts 3 and 1 and balances 0 or 1 make a holder
lack all, a part or nothing.  In `SeedCompliance` the amounts 4, 2 and 1 keep
the order of the code's: a part less than the whole, dust less than the part.
Two places in the pool with two accounts let goroutines overlap and, with one
place, wait.  In `Signing` one request is followed while another and the world
interfere; 4 stands for the 256 values of an index and 3 for the 64 slots a
signature can name, so that one index names a slot, one wraps to zero and one is
a `uint8` but no slot; lists of two signers are enough for a wrong slot.  In
`SeedSft` three jobs are one that loses a mark, one that repeats the work and one that
reads it back; the configurations contain every scenario, a single token per
slot, and more slots than scenarios.  In `VcIssuance` two flows with the roles of
the accounts exchanged reach every order of two writers on one document; a
third would only repeat one of them.  In `SeedJob` the job with
the larger name is not used before the smaller (`Canonical`): names of jobs mean
nothing, and symmetry sets would be unsound with the liveness property of the same
run.  The configurations differ: one gives both modules work, the other leaves
`compliance` empty, so that a job meets a mark, work and an empty section.
`NamespaceKept` is not among the run's properties because `ImplementsLedger`
implies it; it is a theorem.  For the same reason `AckedKept` is not: what is
promised in an `InstructionBook` is kept, and it is the theorem `CreationsLast`.
In `ArgsCodec` a byte has three bits, so that a
varint has from one to four bytes, `u64` eight bits and a float six, so that 64
is the last whole number every neighbour of which is exact and 2^64 has its
likeness; the values tried for every type are those at the bounds of all
of them, one beyond, halves, and strings that spell bytes or numbers of right and
wrong lengths.

Runs with `CHECK_DEADLOCK FALSE` may stop: no more jobs, requests or
transactions are left within the bounds.

## 4. Fairness

- `SeedJob!FairSpec`: weak fairness of each job's goroutine.  Every call it makes
  has a time limit (HTTP 30 s, `WaitForTransaction` 30 s) and every loop a bound,
  so it takes its next step or ends.  Clients, crashes and faults are not fair.
- `TxSubmit!FairSpec`: weak fairness of the client's steps, which include the
  time-out of an attempt and the deadline of the wait.  Neither the node nor the
  network is fair: `CallReturns` holds when nobody ever answers.
- `BulkTransfer!FairSpec`: weak fairness of the loop and of each goroutine, and
  strong fairness of taking `job.mu`, because other goroutines take it in between
  and Go's mutex hands it to a waiter that has starved for a millisecond.
- The other modules state safety only: `SeedTokens`, `SeedCompliance` and
  `SeedSft` end or crash at every step, `SavedInstructions`, `Signing` and
  `VcIssuance` wait for requests nobody has to send; the steps of `ArgsCodec` are
  one handler's, with no loop but over the arguments.

## 5. Disagreements between code and documents

Two have a run whose property states what the document says, and which TLC
refutes.

1. **`flowSendTx` returns no error for a transaction that failed on the chain**
   (`txsubmit_ok`, `handler/flow_helpers.go:113`; comment at line 106).
   `sftFlowSendWait` does look at the state.  `SeedTokens`, `SeedCompliance`,
   `SeedSft` and `VcIssuance` show what follows: a stage can be marked, or a
   flow succeed, without effect.  Their properties name this exception.
2. **The job that makes a slot does none of its post operations** (`sft_post`,
   `handler/seed_runner_flows.go:150`; `API.md:2763`).  The token ids of a mark
   made by the same job are a `[]uint64`, for which the assertion to `[]any`
   yields nothing; only a later job, which reads them from JSON, goes on.

Met while modelling, visible in the named definitions, without a run:

- `SeedJob!StartRefused`: the 409 message may name no job, because `runningID` is
  read again after the unlock (`handler/seed_handler.go:215`; `API.md:2781`).
- `SavedInstructions!AssignKeys`: an update assigns to the shared instruction
  before it strips it, and another request may save in between
  (`handler/saved_instruction_handler.go:404`; comment at line 67).
  `KeysStripped` says how long a key stays.
- `SeedTokens!MintError`: a mint that times out does not stop the job
  (`handler/seed_runner.go:396`; design of 2026-10-19, line 145).  The same
  amounts are sent again; `MintedAsPlanned` says that a holder has more than was
  planned only through mints that were not acknowledged.
- `SeedCompliance`: the interception is tested only if the planned victim was
  certified (`handler/seed_runner.go:613`; comment at line 594).
- `SeedCompliance!Require`: a refusal whose text contains `uplicate` or one of the
  codes 1059, 1064 and 520 is logged as "the requirement exists" and the stage is
  marked (`handler/seed_runner.go:539`).  In the IDL 520 is `VcRequired`
  (`gosdk-develop/provider/IDL/token.idl.json:1772`), 1059
  `IssuerCredentialSchemaRequired` and 1064 `TooManyAcceptedVcIssuers`
  (`identity.idl.json:1646`, 1671; `handler/idl_method_docs.go:99`, 268, 290): none
  of them says so.  The rest of the job then demonstrates rules that may not be
  there; `RulesFirst` names this case (`waived`).  `idl_method_docs.go:117` says
  that `CreateWithCompliance` already registers the credential, which would make
  the stage superfluous; the model does not rely on it.
- `SeedCompliance!ProbeBlocked`: the refusal that is wanted is recognised by 521 or
  522 (`seedVcRejected`), whose comment calls 521 `VcRequired` and 522
  `VcPolicyRequired`; in the IDL these are 520 and 521, and 522 is
  `FaucetDisabled`.  `seedHasCode` finds a number anywhere in the text of an error, an
  HTTP status (`gosdk-develop/rpcClientV1.go:145`) or an amount included.
- `Signing!cache`: the cache of signers is keyed by address alone, over all
  networks (`handler/contract.go:687`; comment at line 669), so a decision may
  rest on another network's list; `OnlyStaleRejected` names this case.
- `Signing!Held`: a simulation does not see the payer's private key, so that
  `write-safe` with a private key alone ends as `simulate_failed` unless the
  chain lists one signer; `API.md:2932` says the key alone is enough.
- `Signing!GivenMode`: an index of 256 is converted to slot 0.
- `DidDocument!CreateRefused`: code 1024 (the document exists) is tolerated only
  without an alias; the comment at `handler/did_handler.go:957` and
  `API.md:2381` make no difference.  `DidDocument!FillRefused`: the comment on
  1028 says a bound name is tolerated when it is bound to the account itself;
  the code does not look whose it is.
- `VcIssuance!DiscloseRefused`: the codes the handlers compare with, 1032 and
  1072, are one more than in the vendored IDL (1031, 1071; there 1072 means
  that the attestation was revoked).  The model follows the handlers' meaning.
- `SeedSft!Verdict`: `SftAlreadyExists` is tolerated as 516, but the table at
  `handler/idl_method_docs.go:338` lists 1291.  The transfer among the post
  operations is signed by the admin, who holds no share, so the chain always
  refuses it and the refusal is tolerated (`handler/seed_runner_flows.go:186`);
  a refused transfer is believed whatever the error (line 208); after a new
  genesis the collection is created again and its slots are not; when slots
  outnumber scenarios their keys collide and the later slots are passed over.

- `ArgsCodec!Coerce`: `PoolId` and `ValidatorId` are not coerced
  (`handler/args_coerce.go:174`) and the encoder takes only bytes for them
  (`provider.go:381`, 1567), while `handler/idl_method_docs.go:681` and others
  describe them as base58 strings: no JSON value is accepted for them, so methods
  that have such an argument cannot be called over HTTP.
  `DocumentedFormsAccepted` names the exception (`Unread`).
- `ArgsCodec!CoerceBytes`: the description of `stake_id`, a `B256`, allows base58
  (`handler/idl_method_docs.go`, the staking methods); only hex is read.
- `ArgsCodec!AsUint64`: for a `u64` the bound as a float is 2^64, so the JSON
  number 2^64 passes the check and its conversion depends on the platform.  Amounts
  above 2^53 written as numbers are rounded by the JSON decoder; a decimal string
  is exact.
- `ArgsCodec!Sprint`: a null for a `String` is encoded as the text `<nil>`, and
  `ArgsCodec!ByteOf` drops the fraction of a number among bytes.
- `ArgsCodec!Coerce`: a map written as an array of pairs, which the encoder reads
  (`provider.go:1185`), is refused before it gets there
  (`handler/args_coerce.go:80`).  No document promises the form to a client of the
  console, so `Meaning` gives it none and `DocumentedFormsAccepted` says nothing
  of it.
- `ArgsCodec!EnumAt`: a decoded variant with named fields has them beside its
  name, a form the encoder does not accept.

## 6. Proofs

All theorems hold for every value of the constants that satisfies the named
assumptions of the module; TLC evaluates those assumptions in every run.

**SeedJobProofs** (`OrderAssumption`: the order has no repetition and `vc`
before `compliance`; `PlannedAssumption`: a configuration with compliance tokens
has certificates to issue, which `ValidateSeedConfig` demands;
`NoneAssumption`; `BoundsAssumption`).  The inductive
invariant `IInv` joins the type invariant with
`Launched` (a goroutine has an accepted request), `SingleRunner`, `Phase` (how a
job's status follows its goroutine), `FileInv` (a rename is reached only with a
complete image) and `MemInv` (after its load a goroutine knows what the file
knows, and beyond it only its own name space).  None of the properties is
inductive alone: `ProgressKept`, say, needs that the memory about to be renamed
contains the file, which needs that nobody else wrote the file since the load,
which is `SingleRunner`.  Theorems: `TypeCorrect`, `OneRunner` and
`SettledBeforeFree`, which make `SlotIsExact`; `FileAlwaysWhole`;
`MarksAreTrue`; `NamespacesKept` and `ProgressIsKept`, both from the lemma
`LedgerStep` on what one step does to the marks on disk; `Refinement`.  Three
properties depend on more of the past, and each has a second invariant on top of
`IInv`: `VcComesFirst` needs `OrderInv` (the marks are closed under the order
of the modules, in memory and on disk); `RepeatsAreLosses` needs `LossInv` (a
mark performed once more than there were faults is on disk or about to be
saved, so the goroutine that repeats a module has a fault to show for it);
`AnswersList` needs `KeptInv` (the work of a completed job is on disk unless a save of its
own failed or another job was started with reset) and `PollInv` (what a status
poll has copied so far agrees with that).

`SlotFreed` is liveness and stays with TLC, but what it rests on is proved.
`HolderNeverStuck`: the job that holds the slot can always take a step; a module
is next in the order as long as one is left (`NextExists`, the least position of
a module not yet done).  `JobsAreBounded`: `Budget` counts the steps a goroutine
may still take, eight for each module it has not gone through and a rest by its
place; a launch sets it to at most `8 * Len(SeedModuleOrder) + 6`, every
step of the goroutine lowers it and no step of anybody raises it, whatever saves
and modules fail.  With a goroutine that keeps running, the slot is freed.

**SubmissionProofs**, about `TxSubmit` (`TxAssumption`).  `IInv` says of each
call how the client's state agrees with the node's (`Agreed`), that a retry is
left when one is made (`AttemptLeft`), and what the first attempt tells (`OneAttempt`: until a second
one is made, an answer settles everything).  Theorems: `TypeCorrect`,
`OkIsFinal`, `HashIsAccepted`, `CheckedOkIsSuccess`, `FirstRejection`,
`Refinement`, and `CallsAreBounded`, the safety half of `CallReturns`: a call
starts with `2 * MaxRetries + MaxPolls + 2` steps, each of its own uses one up,
and nothing the network, the node or another call does gives it more.

**SubmissionProofs**, about `Signing` (`BoundAssumption`, `BodyAssumption`: a
client sends what the handler's types admit).  `SigningIInv` follows each
request alone, because nothing can be said of the lists it is shown: the cache
may hold another network's and the chain may change at any time.  `Settled`
relates a signature to the mode its role was given and to the lists seen: a
given mode was decided on exactly one list, an open mode is slot 0 of an account
seen with one signer.  `Asked` says the same of the role in turn, half decided;
`Open` adds that `write-safe` has all its simulated signatures when it submits.
`SubmitsWhatItSimulated` then rests on two lemmas: the private keys, seen only
the second time, turn an open mode into a key and change nothing else
(`TwoPhases`), and a key decided on a list of one signer is slot 0
(`SameDecision`).  `RejectedOnlyIfStale` is an action property: the lemma
`FreshVerifies` shows that the node's check passes for every signature decided
on the list it has now.  `RequestsTyped` is the type invariant.

**SubmissionProofs**, about `Varint` (`GroupAssumption`: a byte carries at least
one bit of the number).  The functions are shown to satisfy their recursive
definitions (`VarUintDef`, `ReadVarUintDef`) by building them up to every bound,
because the library's theorem about such definitions takes an operator as a
parameter; each theorem is then an induction by a least counterexample.
`VarUintReadsBack`: a number is read back as itself, and the reader stops
right behind it, whatever stands before and after it in the body; the lemma is
`Rebuilt`, one group put back in front of the quotient.  `VarUintUnambiguous`: no
varint is another or its beginning, so that no length swallows a byte of its
neighbour.  `VarUintFits`: a number below `Group^n` takes at most n bytes, so
a `uint64` fits the ten bytes the reader takes.

**SavedInstructionsProofs** (`SomeBodies`, `NamesDiffer`, `NoneIsNoItem`: the
value for no instruction is neither an instruction nor a writer's name).
`IInv` adds to the properties what the lock's holder has marshalled
(`Buffered`), where a key can be (`Keys`, in memory, in the buffer and in the
file), where the holder's instruction is (`Placed`), that ids are drawn once
(`Drawn`) and what a process that is not up holds (`Stopped`).  The argument:
an instruction in the buffer differs from the memory only while an update is
between its assignments and its save, and that update saves later.  Theorems:
`TypeCorrect`, `KeysAreStripped` (from `MemoryHoldsNoKey` and
`FileHoldsNoKey`), `FileFollowsMemory`, `CreationsLast`, `DeletionsLast`.

`Refinement` shows, action by action, that the store implements `InstructionBook`
(`ImplementsBook`).  Beside `IInv` it needs `Rested`: while the lock is free the
buffer is blank, and the file is written only after it was truncated.  Most steps of a request are
stutters of the book or an `Amend`; the ones that take the lock are a `Change`,
which is allowed because an update holds no instruction that was closed;
`Marshal`, which also truncates the file, is `Damage`; `Write` is `Complete` with what its
request may now answer, `SaveFail` is `GiveUp`.  `BookKeepsItsWord` proves from the book's own rules that
what was promised is in every copy and book (`Kept`) and what was closed in none
(`Final`), so the refinement carries both over to the code's store.

**BulkTransferProofs** (`PoolAssumption`, `NoneAssumption`).  `IInv` says of each
slot how its result follows its goroutine and what the chain then knows
(`Stage`), that one goroutine writes at a time (`OneWriter`), and that the
counters count whole results at every moment (`Tally`), the one being written
not among them; `CountersAddUp` claims this only while the lock is free.
`PollInv` is about the answer in the making: what it shows, or would show if it
were rendered now, never has fewer whole results than its counters say
(`Ahead`), because results only become whole.  Theorems: `TypeCorrect`,
`CountersTrue`, `ResultsAreTrue`, `AnswersKeepUp`.

`JobNeverStuck` is the safety half of `JobCompletes`: while a job runs, the loop
can launch, the job can end, or a goroutine can take its next step.  It needs
`Waiting` (a transaction that a goroutine has still to make or waits for was not
answered before) and one fact about places: a running job's semaphore has one, so when all are taken
some goroutine holds one and can go on.
`SendsAreOutcomes` shows that every step of the job is a step or a stutter of
`TxOutcome`, which `TxSubmit` implements: the two modules meet at one interface.

**SeedTokensProofs** (`PlanAssumption`, `NoneAssumption`).  The slots of
transactions fill from the first on (`Filled`) and the job waits for the last
(`Waiting`).  Balances only grow, so what a job read is a lower bound of what is
there (`Reads`), and what came since, from mints believed lost, is unacknowledged
(`Ahead`).  `Funded` says what is known once the mint stage is over, `OneFreeze`
that a freeze carried out shows in what is frozen, which is where the next job
looks.  Theorems: `TypeCorrect`, `CompletedFundsHolds`, `MintedAsPlannedHolds`,
`FrozenOnceHolds`, and `SendsAreOutcomes` as for `BulkTransfer`.

**SeedComplianceProofs** (`SetupAssumption`).  Each property is about what an
earlier job did, of which a job knows only its marks and what it views.  `IInv`
says what these tell: a job past a stage has its mark (`Behind`), a mark in memory
or file stands for what its stage left on the chain, or for a call the chain failed
quietly or a refusal that was passed over (`MarksStand`), which stays true because
nothing is taken back (`Grows`), a job without the mint mark has lost one for every mint so far
(`MintOwed`), and the receiver's balance never falls, so that it remembers a
payment (`PaidShows`).  Theorems: `TypeCorrect`, `MintedOnceHolds`,
`PaidOnceHolds`, `RulesFirstHolds`, `CompletedShowsHolds`.

**SeedSftProofs** (`ConfigAssumption`).  A call whose answer was lost may
arrive in any later job, so `IInv` constrains the calls under way like the
tokens themselves: each names tokens of its own scenario (`Aimed`), no token that
one merge takes from is merged into by another, in the past, under way or by a mark
still to be read (`Apart`), and the burns of one slot name one token
(`BurnOne`).  The slot being filled is one that none of these has touched
(`Filling`), which is why the ids its mark gets are new and whole.  All of this holds
until the chain is wiped, as the properties say; `Stands`, behind
`SftStandsHolds`, holds afterwards too.  Theorems: `TypeCorrect`,
`SlotsWholeHolds`, `OpsEarnedHolds`, `PlannedEffectsHolds`, `SftStandsHolds`.

**VcIssuanceProofs** (`RequestAssumption`, `BoundsAssumption` with finitely
many flows, `NoDocAssumption`).  Documents, registrations and certificates are
never taken back, so what a flow found or made stays, whoever else writes
(`Progressed`); this gives `OkMeansThere`.  `ServicesBounded` needs a count of
what is still to come: `Services` bounds, for each document, its services plus
the flows that set out to add one plus the additions that may arrive late; a
flow sets out only when it saw no service.  `Late` puts late additions on
documents that exist, `Placed` says which places belong to which stages and
that what is left to fill in is there once.  Theorems: `TypeCorrect`,
`OkMeansThereHolds`, `IssuedOnChainHolds`, `ServicesBoundedHolds`,
`OptionalNeverBlocksHolds`, `SettledRerunHolds`.

The type invariant of every module but `ArgsCodec` is a theorem, and so is
every safety and action property the runs check, again but for `ArgsCodec`, and
all three refinements (`SeedJob` of `SeedLedger`, `TxSubmit` of `TxOutcome`,
`SavedInstructions` of `InstructionBook`).

Only model-checked: liveness (`SlotFreed`, `CallReturns`, `JobCompletes`), which
the prover does not support under fairness (for each of them the steps that
remain are bounded, or one is always possible, by the theorems named above; that
the fair step is then taken is TLC's part); and `SignedMeansWritten` and
`DocumentedFormsAccepted` of `ArgsCodec`, whose operators recurse over types and
are declared RECURSIVE (of the codec the varints alone are proved).  What is refuted (`OkMeansSuccess`, the claim of
`sft_post`) has of course no theorem.

## 7. What is not modelled

- *Data*, outside `ArgsCodec`: bytes, encodings, signatures, JSON, formatting and logging.  A
  transaction is a value, an instruction two facts about it, a mark a pair.
- *In `SeedJob`*: what a module does inside (`SeedTokens`, `SeedCompliance`);
  the read-only previews and templates; key derivation.
- *In `ArgsCodec`*: `i8`, `i32`, `i64`, `u128`, map keys that are not strings, other
  fixed sizes than those named (they differ in a number only), arguments the IDL
  files of the console do not have; parsing of type names; views' results.
- *In `Signing`*: instructions and their arguments (`ArgsCodec`); what becomes
  of a submitted transaction (`TxSubmit`); reads.
- *In `SeedSft`*: the demonstration `POST /api/tool/sft-flow`, which has no state
  between its steps; transfers of tokens by other modules.
- *In `VcIssuance`*: balances (funding ends the flow or changes nothing the rest
  depends on), the signature of a certificate, which happens outside the chain,
  attestations and revocation.
- *In `SeedTokens`*: transfers of the token by other modules of the plan between
  two jobs, so `CompletedFunds` is about the tokens module alone.
- *In `SeedCompliance`*: the time between submission and execution, except for a
  call that ended in an error.
- *In `SavedInstructions`*: the answers of reads, and building the transaction of
  an execution.
- *In `TxSubmit`*: the pool of request buffers under the HTTP transport, which is
  about bytes.
- *The network manager* beyond `Signing`: health checks, and the SDK's
  process-wide chain id, which two clients share; both preset networks have the
  id 900000001, so this does no harm today.
- *The seeder's accounts, txs and multisig modules, the planner, the account
  book*: next in the [plan](#8-plan).
- *The block stream*: part of the SDK, used by no handler.
- *Front end, Python SDK and Python seeder, generated code*: `PROJECT.json`
  gives the reason for each.

Of the 78 000 lines counted as implementation 43 017 are one generated file
(`gosdk-develop/gen/idl_gen.go`), and most of the rest of the SDK encodes and
decodes; tables of documentation, MCP tool schemas and request binding make up
much of the handlers.  The share of lines the modules stand for is therefore
small, although they cover the code that keeps state or writes in several steps.

## 8. Plan

Done, in this order: `SeedJob` with `SeedLedger` and its proofs; `TxSubmit`
with `TxOutcome` and its proofs; `SavedInstructions` and its proofs;
`SeedTokens`; `BulkTransfer`; `SeedCompliance`; `Signing` with the network
manager; `SeedSft`; `DidDocument` and `VcIssuance`; `ArgsCodec`; the proofs of
`BulkTransfer`, `SeedCompliance`, `SeedTokens`, `SeedSft`, `VcIssuance` and
`Signing`, and the rest of those of `SeedJob`.

Next, most important first:

1. `SeedAccounts`: `runAccounts` with `flowEnsureFaucet` (cooling, thresholds,
   a claim that is answered before the balance is there), composed with
   `TxOutcome`.  `flow_helpers.go:122` says that the helper returns after the
   balance arrived; to be compared with its code.
2. `SeedFlows`: the `txs` and `multisig` modules (`seed_runner.go:644`,
   `seed_runner_multisig.go`).
3. `SeedPlan`: the pure operators from a configuration to a plan, checked over
   small configurations against what `seed_config.go:178` demands; boundaries
   of one, two and three accounts.
4. Attestations and revocation beside `VcIssuance`.
5. The account book beside the saved instructions, as another implementation of
   a store like `InstructionBook`.
6. Decoding of view results, which has its own readers beside `ArgsCodec!Get`.
7. `BlockStream`.

Proofs left: the wire form of a call (`ArgsCodec`) would need its recursion over
types written as a function on a well-founded set of types, and induction
principles the installed provers cannot instantiate; it stays with TLC.
