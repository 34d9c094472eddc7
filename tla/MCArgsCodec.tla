---------------------------- MODULE MCArgsCodec ----------------------------
(* Scaled widths, a few methods of the IDL files and the values tried for   *)
(* their arguments.                                                          *)
EXTENDS ArgsCodec

CONSTANT none

MCWidth   == [u8 |-> 3, u16 |-> 4, i16 |-> 4, u32 |-> 5, u64 |-> 8]
MCSizeOf  == [Address |-> 2, B96 |-> 1, B256 |-> 3, PoolId |-> 3, ValidatorId |-> 3]
MCSchemes == <<3, 2>>      \* secp256k1 is one byte longer than Ed25519

T(name)         == [t |-> name]
Vec(of)         == [t |-> "vec", of |-> of]
Option(of)      == [t |-> "option", of |-> of]
Arg(name, type) == [name |-> name, type |-> type]
Case(name, kind, fields) == [name |-> name, kind |-> kind, fields |-> fields]

DemoMode == [t |-> "enum", variants |->
    << Case("One", "unit", <<>>),
       Case("Two", "struct", <<Arg("val", T("u32"))>>),
       Case("Three", "tuple", <<Arg("0", T("u8")), Arg("1", T("i16"))>>) >>]
KeyMaterial == [t |-> "enum", variants |->
    << Case("Rsa", "struct", <<Arg("modulus", T("bytes"))>>),
       Case("P256", "struct", <<Arg("x", T("B256"))>>) >>]
VerificationKey == [t |-> "struct", fields |->
    <<Arg("kid", T("String")), Arg("material", KeyMaterial)>>]

MCMethods == [
    Transfer   |-> <<Arg("to", T("Address")), Arg("amount", T("u64"))>>,
    SetScore   |-> <<Arg("score", T("u64"))>>,
    Limits     |-> <<Arg("flag", T("bool")), Arg("cap", T("u8")), Arg("bps", T("u16"))>>,
    Multisig   |-> <<Arg("signers", Vec(T("PublicKey"))), Arg("weights", T("bytes"))>>,
    Disclose   |-> <<Arg("issuer_signature", T("Signature")), Arg("hash", T("B256")),
                     Arg("until", Option(T("u64")))>>,
    Stake      |-> <<Arg("pool_id", T("PoolId"))>>,
    Note       |-> <<Arg("note", Option(T("String"))), Arg("text", T("String"))>>,
    Echo       |-> <<Arg("mode", DemoMode)>>,
    LabelTotal |-> <<Arg("labels", [t |-> "map", of |-> T("u32")])>>,
    Params     |-> <<Arg("params", Vec([t |-> "tuple", of |-> <<T("u16"), T("bytes")>>]))>>,
    Provider   |-> <<Arg("keys", Vec(VerificationKey))>> ]

MCHeader == [m \in DOMAIN MCMethods |->
               CASE m \in {"Transfer", "SetScore", "Limits"} -> <<1, 0, 2>>
                 [] OTHER -> <<2, 1, 0>>]

MCFold(n) ==
    CASE n \in {"transfer", "TRANSFER"} -> "transfer"
      [] n = "Transfer" -> "transfer"
      [] n \in {"One", "one"} -> "one"
      [] n \in {"Two", "two"} -> "two"
      [] n \in {"Three", "THREE"} -> "three"
      [] OTHER -> n

\* Strings are named after what they spell.
MCDecOf(s) ==
    CASE s = "d3" -> 3 [] s = "d64" -> 64 [] s = "d255" -> 255 [] s = "d256" -> 256
      [] s = "d-1" -> -1 [] OTHER -> none
MCHexOf(s) ==
    CASE s = "0x" -> <<>> [] s = "0x4" -> <<4>> [] s = "0x27" -> <<2, 7>>
      [] s = "0x251" -> <<2, 5, 1>> [] s = "0x751" -> <<7, 5, 1>>
      [] s = "d3" -> <<3>> [] OTHER -> none
MCB58Of(s) ==
    CASE s = "b27" -> <<2, 7>> [] s = "b251" -> <<2, 5, 1>>
      [] s = "0x27" -> <<>> [] s = "d64" -> <<6>> [] OTHER -> <<>>
MCUtf8(s) ==
    CASE s = "" -> <<>> [] s = "a" -> <<1>> [] s = "b27" -> <<2, 2>>
      [] s = "<nil>" -> <<7, 0>> [] s = "<printed>" -> <<7, 1>> [] OTHER -> <<3, 0, 4, 4, 4, 1>>
\* A secp256k1 key starts with 2 or 3.
MCValidKey(b) == Len(b) = 3 => b[1] \in {2, 3}

H(n)  == [g |-> "num", n |-> n]     \* n halves
B(b)  == [g |-> "bool", v |-> b]

Numbers == {Num(k) : k \in {-1, 0, 1, 3, 4, 7, 8, 15, 16, 17, 31, 32, 63, 64, 65, 67,
                            130, 251, 255, 256, 257, 300}} \cup {H(-1), H(1), H(5), H(15)}
Strings == {Str(s) : s \in {"", "a", "d3", "d64", "d255", "d256", "d-1", "0x", "0x4", "0x27",
                            "0x251", "0x751", "b27", "b251"}}
Arrays  == {Arr(a) : a \in {<<>>, <<Num(2), Num(7)>>, <<Num(2), Num(5), Num(1)>>, <<Num(8)>>,
                            <<Num(-1)>>, <<H(5)>>, <<H(15)>>, <<Num(256)>>, <<Num(300)>>, <<Str("d3")>>,
                            <<Nil>>, <<Num(4), Str("0x27")>>, <<Num(4), Num(-3)>>}}
Objects == {Obj(o) : o \in {<<>>, [a |-> Num(1)], ("0" :> Num(4) @@ "1" :> Num(-3))}}
Atoms   == Numbers \cup Strings \cup Arrays \cup Objects \cup {Nil, B(TRUE), B(FALSE)}

Tagged(n, k, d) == Obj("variant" :> Str(n) @@ k :> d)
Modes == {Str(n) : n \in {"One", "one", "Two", "None"}}
    \cup {Obj(<<>>), Obj("one" :> Nil), Obj("variant" :> Str("One"))}
    \cup {Obj(n :> d) : n \in {"Two", "THREE", "None"}, d \in
            {Num(5), Obj([val |-> Num(5)]), Obj([val |-> Num(32)]), Obj(<<>>),
             Arr(<<Num(7), Num(-8)>>), Arr(<<Num(7), Num(8)>>), Arr(<<Num(7)>>),
             Obj("0" :> Num(4) @@ "1" :> Num(-3))}}
    \cup {Tagged(n, k, d) : n \in {"two", "Three"}, k \in {"value", "fields", "val"}, d \in
            {Num(5), Obj([val |-> Num(5)]), Arr(<<Num(0), Num(-1)>>)}}

One(m, a, vs) == {[method |-> m, args |-> a :> v] : v \in vs}

Materials == {Obj("Rsa" :> Obj([modulus |-> v])) : v \in Strings \cup Arrays}
        \cup {Tagged("P256", k, Obj([x |-> v])) : k \in {"value", "fields"}, v \in Strings \cup Arrays}
        \cup {Str("Rsa")}

MCRequests ==
    {[method |-> m, args |-> [to |-> t, amount |-> n]] :
        m \in {"Transfer", "TRANSFER"}, t \in Strings \cup Arrays \cup {Nil, Num(3)},
        n \in {Num(3), Num(64), Str("d255"), Str("d-1"), Num(256)}}
    \cup {[method |-> "transfer", args |-> [to |-> Str("b27")]],
          [method |-> "Transfer", args |-> [to |-> Str("b27"), amount |-> Num(1), memo |-> Nil]],
          [method |-> "Burn", args |-> [amount |-> Num(1)]]}
    \cup One("SetScore", "score", Atoms)
    \cup {[method |-> "Limits", args |-> [flag |-> f, cap |-> c, bps |-> b]] :
            f \in {B(TRUE), B(FALSE), Num(1)}, c \in Numbers \cup {Str("d3"), Nil},
            b \in {Num(4), Num(15), Num(16), Str("d3")}}
    \cup {[method |-> "Multisig", args |-> [signers |-> Arr(s), weights |-> w]] :
            s \in {<<>>} \cup {<<x>> : x \in Strings} \cup {<<Str("b251"), Str("0x27")>>},
            w \in Arrays \cup Strings \cup {Nil, Num(3)}}
    \cup {[method |-> "Disclose", args |-> [issuer_signature |-> s, hash |-> h, until |-> u]] :
            s \in Strings \cup Arrays \cup {Nil}, h \in {Str("0x251"), Str("b251"), Str("0x27"),
            Arr(<<Num(2), Num(5), Num(1)>>)}, u \in {Nil, Num(63), Num(65)}}
    \cup One("Stake", "pool_id", Atoms)
    \cup {[method |-> "Note", args |-> [note |-> n, text |-> t]] :
            n \in {Nil, Str("a"), Num(3)}, t \in {Nil, Str(""), Str("b27"), Num(3), Obj(<<>>)}}
    \cup One("Echo", "mode", Modes)
    \cup One("LabelTotal", "labels", {Obj(o) : o \in
            {<<>>, [a |-> Num(1)], ("a" :> Num(31) @@ "b27" :> Str("d3")), [a |-> Num(32)]}} \cup Arrays)
    \cup One("Params", "params", {Arr(<<Arr(<<n, w>>)>>) : n \in Numbers, w \in
            {Str("0x27"), Str("b27"), Arr(<<Num(7)>>), Nil}}
            \cup {Arr(<<Obj("0" :> Num(3) @@ "1" :> Str("0x27")), Arr(<<Num(4), Str("0x")>>)>>),
                  Arr(<<Arr(<<Num(3)>>)>>)})
    \cup One("Provider", "keys",
            {Arr(<<Obj([kid |-> k, material |-> m])>>) : k \in {Str("a")}, m \in Materials}
            \cup {Arr(<<Obj([material |-> Str("Rsa")])>>), Obj(<<>>)})

MCOverflows == {0, 128, 255}
=============================================================================
