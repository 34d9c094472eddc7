----------------------------- MODULE MCSigning -----------------------------
(* Two networks, two accounts and bodies that leave out, give or misgive what *)
(* a role needs, one per way of deciding.                                     *)
EXTENDS Signing, TLC

CONSTANTS n1, n2, k1, k2, r1, r2

MCNets == {n1, n2}
MCKeys == {k1, k2}
MCRequests == {r1, r2}

R(addr, key, pk, type, index) ==
  [addr |-> addr, key |-> key, pk |-> pk, type |-> type, index |-> index, gasPayer |-> FALSE]
ByKey(k)   == R(None, k, None, "none", 0)
ByAddr(k)  == R(k, k, None, "none", 0)
ByPk(k)    == R(None, k, k, "pubkey", 0)
OtherPk    == R(k1, k1, k2, "pubkey", 0)
NoKey      == R(k1, None, None, "none", 0)
NoKeyPk    == R(k1, None, k1, "pubkey", 0)
Slot(i)    == R(k1, k1, None, "multisig", i)
GasPayer(k) == [ByKey(k) EXCEPT !.gasPayer = TRUE]

B(endpoint, mode, net, roles) == [endpoint |-> endpoint, mode |-> mode, net |-> net, roles |-> roles]

Bodies1 ==
  {B("write", "unified", n, <<ByKey(k1)>>) : n \in {n1, None}}
  \union {B("write", "unified", n1, <<x>>) : x \in {OtherPk, NoKey, Slot(1), Slot(3), Slot(4)}}
  \union {B("write", "dual", n1, <<ByAddr(k1), x>>) : x \in {ByPk(k2), ByAddr(k1)}}
  \union {B("safe", "unified", None, <<x>>) : x \in {ByKey(k1), ByAddr(k1), ByPk(k1)}}
  \union {B("simulate", "split", n2, <<x>>) : x \in {NoKey, ByKey(k1)}}
  \union {B("safe", "multi_signer", n1, x) :
             x \in {<<ByAddr(k1), ByAddr(k2)>>, <<ByAddr(k1), ByAddr(k1)>>, <<ByAddr(k1), GasPayer(k2)>>}}

Bodies2 ==
  {B("write", "unified", n2, <<ByAddr(k1)>>)}

MCBodies == (r1 :> Bodies1) @@ (r2 :> Bodies2)
=============================================================================
