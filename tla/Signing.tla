------------------------------ MODULE Signing ------------------------------
(***************************************************************************)
(* How a contract request gets its signatures (handler/contract.go): the   *)
(* network of the request, the signature mode of every account that signs, *)
(* corrected by the signers the chain lists for it, and the transaction    *)
(* that is simulated, submitted, or both (POST /api/simulate, /api/write,  *)
(* /api/write-safe; the /multi forms of the first two do the same for      *)
(* several instructions).                                                  *)
(*                                                                         *)
(* Requests run side by side.  They share the default network and the      *)
(* cache of signers, which is keyed by address alone.  Meanwhile other     *)
(* clients register accounts and change their signers on every network.    *)
(* An address is named by the key it is derived from.  Instructions,       *)
(* arguments and the fate of a submitted transaction are left out          *)
(* (TxSubmit has the latter).                                              *)
(***************************************************************************)
EXTENDS Naturals, Sequences, FiniteSets, FiniteSetsExt

CONSTANTS
  Nets,        \* the networks of the NetworkManager
  Keys,        \* key pairs, and the addresses derived from them
  Requests,    \* requests in flight
  Bodies,      \* for each, what a client may send
  Wrap,        \* an index is converted to uint8: 256
  Slots,       \* slots a signature can name: 64
  MaxSigners,  \* bound: signers of an account
  MaxChanges,  \* bound: changes of signers by other clients
  MaxSwitches, \* bound: changes of the default network
  None

ASSUME BoundAssumption ==
  /\ Slots \in Nat \ {0} /\ Wrap \in Nat /\ Slots <= Wrap
  /\ MaxSigners \in Nat \ {0} /\ MaxChanges \in Nat /\ MaxSwitches \in Nat
  /\ None \notin Keys /\ None \notin Nets

VARIABLES
  current,   \* the default network
  switches,
  onchain,   \* signers of each account on each network, in the order of their slots
  changes,
  cache,     \* onchainSignersCache
  req        \* each request: what was sent and how far it is

signingVars == <<current, switches, onchain, changes, cache, req>>

\* The modes with one role are unified_payer_all, unified_payer_only_gas, split
\* and sponsored; unified_dual_sign has two, the payer first; multi_signer has a
\* list, followed by the gasPayer if there is one.
PaymentMode == {"unified", "dual", "split", "sponsored", "multi_signer"}

\* An account that signs, as the body gives it: the public key comes with a mode.
Role == [addr: Keys \union {None}, key: Keys \union {None}, pk: Keys \union {None},
         type: {"none", "pubkey", "multisig"}, index: Nat, gasPayer: BOOLEAN]
Body == [endpoint: {"simulate", "write", "safe"}, mode: PaymentMode,
         net: Nets \union {None}, roles: Seq(Role)]

ASSUME BodyAssumption == \A r \in Requests : Bodies[r] \subseteq Body

Absent   == [type |-> "none"]
PubKey(k) == [type |-> "pubkey", pk |-> k]
Multisig(i) == [type |-> "multisig", slot |-> i]
Error(why) == [type |-> "error", why |-> why]

Lists == UNION {{l \in [1..n -> Keys] : \A i, j \in 1..n : i # j => l[i] # l[j]} : n \in 0..MaxSigners}

\* read: the list just fetched; seen: the lists this role was decided on; got: the
\* signatures so far; dry: those of the simulation before the submission.
Idle == [pc |-> "idle", body |-> None, net |-> None, phase |-> "none", mode |-> Absent,
         read |-> <<>>, seen |-> {}, got |-> <<>>, dry |-> <<>>, answer |-> "none"]

SigningInit ==
  /\ current \in Nets /\ switches = 0
  /\ onchain \in [Nets -> [Keys -> {l \in Lists : Len(l) <= 1}]] /\ changes = 0
  /\ \A n \in Nets, a \in Keys : onchain[n][a] \in {<<>>, <<a>>}
  /\ cache = [a \in Keys |-> None]
  /\ req = [r \in Requests |-> Idle]
-----------------------------------------------------------------------------
(* What the body says of a role. *)

Roles(q) == q.body.roles
Turn(q)  == Roles(q)[Len(q.got) + 1]

\* Private keys are used to sign; a simulation sees those in the list of signers.
Listed(q, role) == q.body.mode = "multi_signer" /\ ~ role.gasPayer
Held(q, role) == IF q.phase = "send" \/ Listed(q, role) THEN role.key ELSE None

First(a, b) == IF a # None THEN a ELSE b

\* Explicit, else from the public key, else from the private key.
AddressOf(q, role) == First(role.addr, First(role.pk, Held(q, role)))

Account(q) == AddressOf(q, Turn(q))

\* The mode before the chain is asked.
GivenMode(q, role) ==
  LET key == First(role.pk, Held(q, role))
  IN  IF q.phase = "send" /\ role.key = None THEN Error("keyRequired")
      ELSE IF role.type = "multisig" THEN Multisig(role.index % Wrap)
      ELSE IF key # None THEN PubKey(key)
      ELSE IF role.type = "none" THEN Absent ELSE Error("keyRequired")

\* validatePaymentModeFields: answered with 400, before anything is looked up.
BadRequest(b) ==
  \/ b.mode = "multi_signer" /\ \A i \in DOMAIN b.roles : b.roles[i].gasPayer
  \/ b.mode \in {"split", "sponsored"} /\ b.roles[1].addr = None
  \/ b.mode # "multi_signer" /\ b.endpoint # "simulate" /\ b.roles[1].key = None

\* ParseSignerList.
BadSigners(q) ==
  LET signers == {i \in DOMAIN Roles(q) : Listed(q, Roles(q)[i])}
      role(i) == Roles(q)[i]
  IN  \/ \E i \in signers :
           \/ role(i).addr = None
           \/ role(i).key = None /\ (q.phase = "send" \/ role(i).type = "none")
           \/ role(i).type # "none" /\ role(i).pk = None
      \/ \E i, j \in signers : i # j /\ role(i).addr = role(j).addr
-----------------------------------------------------------------------------
(* Mistakes: the code as a plausible bug would leave it. *)

\* The slot is counted from one.
SlotFromOne(k, list) == Min({i \in DOMAIN list : list[i] = k})

\* The simulation takes the first signer, however many there are.
DecideFirst(mode, list) ==
  CASE mode.type = "multisig" -> mode
    [] mode.type = "pubkey" ->
         IF list = <<>> THEN mode
         ELSE IF \E i \in DOMAIN list : list[i] = mode.pk
              THEN Multisig(Min({i \in DOMAIN list : list[i] = mode.pk}) - 1)
              ELSE Error("notListed")
    [] mode.type = "none" -> IF list = <<>> THEN Error("modeRequired") ELSE Multisig(0)

-----------------------------------------------------------------------------
(* The decision (parsePayerAndMode, normalizeSignatureModeForAccount). *)

SlotOf(k, list) == Min({i \in DOMAIN list : list[i] = k}) - 1

\* The mode for an account whose listed signers are these, none if it is not
\* on the chain or the query failed.
Decide(mode, list) ==
  CASE mode.type = "multisig" ->
         IF list # <<>> /\ mode.slot >= Len(list) THEN Error("range") ELSE mode
    [] mode.type = "pubkey" ->
         IF list = <<>> THEN mode
         ELSE IF \E i \in DOMAIN list : list[i] = mode.pk
              THEN Multisig(SlotOf(mode.pk, list)) ELSE Error("notListed")
    [] mode.type = "none" ->
         IF list = <<>> THEN Error("modeRequired")
         ELSE IF Len(list) = 1 THEN Multisig(0) ELSE Error("chooseSlot")

Answered(how) == [Idle EXCEPT !.pc = "done", !.answer = how]

\* An error before anything was sent; write-safe answers simulate_failed when
\* it happens in the simulation.
Refused(q, why) ==
  Answered(IF q.phase = "try" /\ q.body.endpoint = "safe" THEN "simulate_failed" ELSE why)

\* Go on with the next role, or with the transaction.
Proceed(q) ==
  IF Len(q.got) = Len(Roles(q)) THEN [q EXCEPT !.pc = "ready"]
  ELSE LET mode == GivenMode(q, Turn(q))
       IN  IF Account(q) = None THEN Refused(q, "noAddress")
           ELSE IF mode.type = "error" THEN Refused(q, mode.why)
           ELSE [q EXCEPT !.pc = "look", !.mode = mode, !.read = <<>>, !.seen = {}]

\* The checks before the first role of a phase.
Begin(q) == IF BadSigners(q) THEN Refused(q, "badSigners") ELSE Proceed(q)

\* A mode that was taken from the chain is checked against the list once more.
Resolve(q, list) ==
  LET mode == Decide(q.mode, list)
      seen == q.seen \union {list}
  IN  IF mode.type = "error" THEN Refused(q, mode.why)
      ELSE IF q.mode.type = "none"
           THEN [q EXCEPT !.pc = "look", !.mode = mode, !.read = <<>>, !.seen = seen]
      ELSE Proceed([q EXCEPT !.got =
                      Append(@, [addr |-> Account(q), mode |-> mode, seen |-> seen])])
-----------------------------------------------------------------------------
(* Steps of a request. *)

Step(r, q) == req' = [req EXCEPT ![r] = q]

\* ResolveNetwork, then the checks of the handler.
ReceiveRequest(r) == \E b \in Bodies[r] :
  /\ req[r].pc = "idle"
  /\ LET q == [Idle EXCEPT !.body = b, !.net = First(b.net, current),
                           !.phase = IF b.endpoint = "write" THEN "send" ELSE "try"]
     IN  Step(r, IF BadRequest(b) THEN Answered("badRequest") ELSE Begin(q))
  /\ UNCHANGED <<current, switches, onchain, changes, cache>>

\* The cache answers while its entry is younger than the time to live.
LookHit(r) ==
  LET q == req[r] IN
  /\ q.pc = "look" /\ cache[Account(q)] # None
  /\ Step(r, Resolve(q, cache[Account(q)]))
  /\ UNCHANGED <<current, switches, onchain, changes, cache>>

LookMiss(r) ==
  /\ req[r].pc = "look" /\ cache[Account(req[r])] = None
  /\ Step(r, [req[r] EXCEPT !.pc = "fetch"])
  /\ UNCHANGED <<current, switches, onchain, changes, cache>>

\* ListAccountSigners through the client of the request.
FetchListed(r) ==
  LET q == req[r] IN
  /\ q.pc = "fetch" /\ onchain[q.net][Account(q)] # <<>>
  /\ Step(r, [q EXCEPT !.pc = "store", !.read = onchain[q.net][Account(q)]])
  /\ UNCHANGED <<current, switches, onchain, changes, cache>>

\* Not on the chain, or the query failed: nothing is stored.
FetchNothing(r) == \E failed \in BOOLEAN :
  LET q == req[r] IN
  /\ q.pc = "fetch" /\ (failed \/ onchain[q.net][Account(q)] = <<>>)
  /\ Step(r, Resolve(q, <<>>))
  /\ UNCHANGED <<current, switches, onchain, changes, cache>>

Store(r) ==
  LET q == req[r] IN
  /\ q.pc = "store"
  /\ cache' = [cache EXCEPT ![Account(q)] = q.read]
  /\ Step(r, Resolve(q, q.read))
  /\ UNCHANGED <<current, switches, onchain, changes>>

\* Build and ValidateWire: a public key signs for the address derived from it,
\* an address signs once, a slot is one that a signature can name.
Buildable(q) ==
  /\ \A i \in DOMAIN q.got : q.got[i].mode.type = "pubkey" => q.got[i].mode.pk = q.got[i].addr
  /\ \A i, j \in DOMAIN q.got : i # j => q.got[i].addr # q.got[j].addr
  /\ \A i \in DOMAIN q.got : q.got[i].mode.type = "multisig" => q.got[i].mode.slot < Slots

BuildError(r) ==
  /\ req[r].pc = "ready" /\ ~ Buildable(req[r])
  /\ Step(r, Refused(req[r], "build"))
  /\ UNCHANGED <<current, switches, onchain, changes, cache>>

SimulateFails(r) ==
  /\ req[r].pc = "ready" /\ req[r].phase = "try" /\ Buildable(req[r])
  /\ Step(r, Refused(req[r], "error"))
  /\ UNCHANGED <<current, switches, onchain, changes, cache>>

\* write-safe starts over with the private keys.
SimulatePasses(r) ==
  LET q == req[r] IN
  /\ q.pc = "ready" /\ q.phase = "try" /\ Buildable(q)
  /\ Step(r, IF q.body.endpoint = "simulate" THEN Answered("simulated")
             ELSE Begin([q EXCEPT !.phase = "send", !.dry = q.got, !.got = <<>>]))
  /\ UNCHANGED <<current, switches, onchain, changes, cache>>

\* The node (external, from the comment at contract.go:658): the public key is
\* accepted for an account that is not registered, a slot for its own key.
Verifies(q, i) ==
  LET s == q.got[i]
      list == onchain[q.net][s.addr]
      key == Roles(q)[i].key
  IN  IF s.mode.type = "pubkey" THEN list = <<>> /\ key = s.mode.pk
      ELSE s.mode.slot < Len(list) /\ list[s.mode.slot + 1] = key

\* A first transaction in public key mode registers the account.
SubmitAccepted(r) ==
  LET q == req[r]
      new == {q.got[i].addr : i \in {j \in DOMAIN q.got : q.got[j].mode.type = "pubkey"}}
  IN
  /\ q.pc = "ready" /\ q.phase = "send" /\ Buildable(q)
  /\ \A i \in DOMAIN q.got : Verifies(q, i)
  /\ onchain' = [onchain EXCEPT ![q.net] =
                 [a \in Keys |-> IF a \in new THEN <<a>> ELSE @[a]]]
  /\ Step(r, Answered("ok"))
  /\ UNCHANGED <<current, switches, changes, cache>>

SubmitRejected(r) ==
  LET q == req[r] IN
  /\ q.pc = "ready" /\ q.phase = "send" /\ Buildable(q)
  /\ \E i \in DOMAIN q.got : ~ Verifies(q, i)
  /\ Step(r, Answered("rejected"))
  /\ UNCHANGED <<current, switches, onchain, changes, cache>>
-----------------------------------------------------------------------------
(* The rest of the world. *)

\* POST /api/network/switch.
Switch(n) ==
  /\ switches < MaxSwitches /\ n # current
  /\ current' = n /\ switches' = switches + 1
  /\ UNCHANGED <<onchain, changes, cache, req>>

\* The entry reaches its time to live.
Expire(a) ==
  /\ cache[a] # None
  /\ cache' = [cache EXCEPT ![a] = None]
  /\ UNCHANGED <<current, switches, onchain, changes, req>>

\* Another client registers an account or changes its signers (external).
SignersChange(n, a) == \E l \in Lists \ {<<>>, onchain[n][a]} :
  /\ changes < MaxChanges
  /\ onchain' = [onchain EXCEPT ![n][a] = l] /\ changes' = changes + 1
  /\ UNCHANGED <<current, switches, cache, req>>

SigningNext ==
  \/ \E r \in Requests :
       \/ ReceiveRequest(r) \/ LookHit(r) \/ LookMiss(r)
       \/ FetchListed(r) \/ FetchNothing(r) \/ Store(r)
       \/ BuildError(r) \/ SimulateFails(r) \/ SimulatePasses(r)
       \/ SubmitAccepted(r) \/ SubmitRejected(r)
  \/ \E n \in Nets : Switch(n)
  \/ \E a \in Keys : Expire(a)
  \/ \E n \in Nets, a \in Keys : SignersChange(n, a)

SigningSpec == SigningInit /\ [][SigningNext]_signingVars

-----------------------------------------------------------------------------
(* Properties *)

\* Every variable has its type.
SigningTypes ==
  /\ current \in Nets /\ switches \in 0..MaxSwitches /\ changes \in 0..MaxChanges
  /\ onchain \in [Nets -> [Keys -> Lists]]
  /\ cache \in [Keys -> (Lists \ {<<>>}) \union {None}]
  /\ \A r \in Requests :
       /\ req[r].pc \in {"idle", "look", "fetch", "store", "ready", "done"}
       /\ req[r].pc \in {"look", "fetch", "store"} =>
            /\ req[r].net \in Nets /\ Account(req[r]) \in Keys /\ req[r].read \in Lists

\* The caller's choice cannot be right: the key does not sign for what was given,
\* or the slot was the caller's.
Misgiven(role) == role.type = "multisig" \/ role.pk \notin {None, role.key}

\* A request is rejected for its signatures only if the caller chose them badly
\* or a list they were decided on is no longer (or never was, the cache being
\* shared by the networks) the one on the chain: no other order of lookups,
\* cached answers, failed queries and first transactions leads there.
OnlyStaleRejected == [][\A r \in Requests : SubmitRejected(r) =>
  \E i \in DOMAIN req[r].got :
    LET s == req[r].got[i]
    IN  Misgiven(Roles(req[r])[i]) \/ s.seen # {onchain[req[r].net][s.addr]}]_signingVars

\* write-safe submits the signatures it simulated, slot by slot, unless the
\* signers it saw changed in between: a mode left open, or given as a key, is
\* decided twice, once without and once with the private key.
SubmittedAsSimulated == \A r \in Requests :
  LET q == req[r] IN
  q.phase = "send" /\ q.body.endpoint = "safe" => \A i \in DOMAIN q.got :
    q.got[i].mode = q.dry[i].mode \/ Cardinality(q.got[i].seen \union q.dry[i].seen) > 1

=============================================================================
