----------------------------- MODULE ArgsCodec -----------------------------
(***************************************************************************)
(* What happens to the JSON arguments of a contract call before it is      *)
(* signed: the method name is resolved, missing arguments are refused      *)
(* together, byte-like values are coerced (handler/args_coerce.go), and    *)
(* the provider writes the postcard body (gosdk-develop/provider).  The    *)
(* last step reads the body back as the chain, and the SDK, do.            *)
(*                                                                         *)
(* Widths are scaled: a byte has ByteBits bits, one of them the            *)
(* continuation flag of a varint, and a float64 carries Mantissa bits.     *)
(* Types are trees [t |-> kind, ...].  A value is a record tagged by g:    *)
(* nil, bool, num, str, arr, obj as JSON gives them, bytes after coercion, *)
(* and key (a signature or public key) or enum after decoding.  A number   *)
(* is kept in halves (n is twice the value), so that fractions exist.      *)
(***************************************************************************)
EXTENDS Varint, FiniteSets, SequencesExt

CONSTANTS
    Mantissa,    \* whole numbers below 2^Mantissa are exact as float64 (53)
    Width,       \* Width["u8"] .. Width["i16"]: bits of each integer type
    SizeOf,      \* SizeOf["B256"] ..: bytes of each fixed-size type
    Schemes,     \* byte length of a signature or key by variant number, + 1
    Methods,     \* method name |-> sequence of [name, type]
    Header,      \* method name |-> app id and discriminator, three bytes
    Fold(_),     \* a name in lower case
    DecOf(_),    \* the whole number a string spells, or None
    HexOf(_),    \* the bytes a string spells in hex, or None
    B58Of(_),    \* the bytes a string spells in base58, or <<>>
    Utf8(_),     \* the bytes of a string
    ValidKey(_), \* whether a byte sequence of a key's length is on its curve
    Requests,    \* the requests explored: [method, args]
    Overflows,   \* what uint64(f) may give for a float64 of 2^64 or more
    None

VARIABLES
    pc,        \* received, checked, coerced, encoded, decoded, refused
    sent,      \* the request as the caller wrote it
    method,    \* the instruction name, once resolved
    args,      \* name |-> value, as bound and then coerced
    body,      \* the encoded instruction
    decoded,   \* the arguments read back from body, or None
    overflow   \* what this build makes of uint64(f) when f does not fit

vars == <<pc, sent, method, args, body, decoded, overflow>>

ByteMax == 2^ByteBits - 1

-----------------------------------------------------------------------------
(* Values.  Err marks a conversion that returned an error.                 *)

Err      == [g |-> "err"]
Nil      == [g |-> "nil"]
Num(k)   == [g |-> "num", n |-> 2 * k]
Str(s)   == [g |-> "str", s |-> s]
Bytes(b) == [g |-> "bytes", b |-> b]
Arr(a)   == [g |-> "arr", a |-> a]
Obj(o)   == [g |-> "obj", o |-> o]
Key(b)   == [g |-> "key", b |-> b]

\* A sequence or an object of results fails when one of them does.
ArrOf(a) == IF Err \in Range(a) THEN Err ELSE Arr(a)
ObjOf(o) == IF Err \in Range(o) THEN Err ELSE Obj(o)

Whole(v) == v.n % 2 = 0
Magnitude(v) == IF v.n < 0 THEN -v.n ELSE v.n

\* encoding/json reads every number into a float64: the nearest one, the
\* even mantissa when two are as near.
Float64(v) ==
    LET m == Magnitude(v)
        e == CHOOSE i \in 0..20 :
               m < 2^(Mantissa + i) /\ (i = 0 \/ m >= 2^(Mantissa + i - 1))
        q == m \div 2^e
        r == 2 * (m % 2^e)
        k == (IF r > 2^e \/ (r = 2^e /\ q % 2 = 1) THEN q + 1 ELSE q) * 2^e
    IN  [v EXCEPT !.n = IF v.n < 0 THEN -k ELSE k]

RECURSIVE Bound(_)
Bound(v) ==
    CASE v.g = "num" -> Float64(v)
      [] v.g = "arr" -> Arr([i \in DOMAIN v.a |-> Bound(v.a[i])])
      [] v.g = "obj" -> Obj([k \in DOMAIN v.o |-> Bound(v.o[k])])
      [] OTHER       -> v

\* uint64(f): truncation, and whatever the platform gives when f is too big.
ToUint64(v) ==
    LET k == v.n \div 2 IN IF k < 2^Width["u64"] THEN k ELSE overflow
-----------------------------------------------------------------------------
(* Coercion of byte-like values (args_coerce.go).                          *)

\* Mistake: the bound is not checked, byte(n) keeps the low bits.
ByteOfCut(v) ==
    IF v.g = "num" /\ v.n >= 0 THEN ToUint64(v) % (ByteMax + 1) ELSE None

ByteOf(v) ==
    IF v.g = "num" /\ v.n >= 0 /\ ToUint64(v) <= ByteMax
    THEN ToUint64(v) ELSE None

CoerceArray(v) ==
    LET bs == [i \in DOMAIN v.a |-> ByteOf(v.a[i])]
    IN  IF None \in Range(bs) THEN Err ELSE Bytes(bs)

CoerceBytes(v) ==
    CASE v.g = "str" -> IF HexOf(v.s) = None THEN Err ELSE Bytes(HexOf(v.s))
      [] v.g = "arr" -> CoerceArray(v)
      [] OTHER       -> Err

\* Strings are left to the encoder, anything odd is refused there.
CoerceSignature(v) == IF v.g = "arr" THEN CoerceArray(v) ELSE v

\* A tuple is an array of its length, or an object with the keys "0", "1" ..
TupleItems(v, n) ==
    LET keys == [i \in 1..n |-> ToString(i - 1)]
    IN  CASE v.g = "arr" /\ Len(v.a) = n -> v.a
          [] v.g = "obj" /\ Range(keys) \subseteq DOMAIN v.o ->
                [i \in 1..n |-> v.o[keys[i]]]
          [] OTHER -> None

\* Which variant an enum value names, under which key of the object its data
\* sits, and the data; None when it is a bare string or no variant at all.
VariantInput(v) ==
    LET has(k) == k \in DOMAIN v.o
        named  == v.g = "obj" /\ has("variant") /\ v.o["variant"].g = "str"
        inner  == CASE has("value")  -> "value"
                    [] has("fields") -> "fields"
                    [] OTHER         -> ""
    IN  CASE v.g = "str" -> [name |-> v.s, at |-> "", data |-> Nil]
          [] named ->
               [name |-> v.o["variant"].s, at |-> inner,
                data |-> IF inner = "" THEN Obj(<<>>) ELSE v.o[inner]]
          [] v.g = "obj" /\ ~named /\ Cardinality(DOMAIN v.o) = 1 ->
               LET k == CHOOSE x \in DOMAIN v.o : TRUE
               IN  [name |-> k, at |-> k, data |-> v.o[k]]
          [] OTHER -> None

\* The position of the variant in the enum, 0 when it has none of that name.
VariantIndex(T, name) ==
    SelectInSeq(T.variants, LAMBDA c : Fold(c.name) = Fold(name))

FieldNames(fields) == {fields[i].name : i \in DOMAIN fields}
TypeOfField(fields, f) == fields[SelectInSeq(fields, LAMBDA x : x.name = f)].type

RECURSIVE Coerce(_, _)

\* Named fields that are present are coerced, the others kept as they are.
CoerceFields(fields, o) ==
    ObjOf([k \in DOMAIN o |->
             IF k \in FieldNames(fields) THEN Coerce(TypeOfField(fields, k), o[k])
                                         ELSE o[k]])

CoerceVariant(c, data) ==
    CASE c.kind = "tuple" /\ data.g = "arr" ->
           ArrOf([i \in DOMAIN data.a |->
                    IF i <= Len(c.fields) THEN Coerce(c.fields[i].type, data.a[i])
                                          ELSE data.a[i]])
      [] c.kind = "struct" /\ data.g = "obj" -> CoerceFields(c.fields, data.o)
      [] OTHER -> data

\* Mistake: the data of a variant is left as JSON gave it.
CoerceEnumBare(T, v) == v

CoerceEnum(T, v) ==
    LET in  == VariantInput(v)
        i   == VariantIndex(T, in.name)
        out == CoerceVariant(T.variants[i], in.data)
    IN  CASE v.g # "obj" \/ in = None -> v
          [] i = 0 \/ in.at = ""      -> v
          [] out = Err                -> Err
          [] OTHER                    -> Obj([v.o EXCEPT ![in.at] = out])

Coerce(T, v) ==
    CASE v = Nil -> Nil
      [] T.t = "vec" ->
           IF v.g # "arr" THEN Err
           ELSE ArrOf([i \in DOMAIN v.a |-> Coerce(T.of, v.a[i])])
      [] T.t = "option" -> Coerce(T.of, v)
      [] T.t = "map" ->     \* the keys of every map in the IDL are strings
           IF v.g # "obj" THEN Err
           ELSE ObjOf([k \in DOMAIN v.o |-> Coerce(T.of, v.o[k])])
      [] T.t = "tuple" ->
           LET items == TupleItems(v, Len(T.of))
           IN  IF items = None THEN Err
               ELSE ArrOf([i \in DOMAIN items |-> Coerce(T.of[i], items[i])])
      [] T.t = "struct" ->
           IF v.g # "obj" THEN Err ELSE CoerceFields(T.fields, v.o)
      [] T.t = "enum" -> CoerceEnum(T, v)
      [] T.t \in {"bytes", "B96", "B256"} -> CoerceBytes(v)
      [] T.t = "Signature" -> CoerceSignature(v)
      [] OTHER -> v
-----------------------------------------------------------------------------
(* Encoding (provider.go, serializer.go).  A writer returns the bytes, or  *)
(* None when it refuses the value.                                         *)

Joined(parts) == IF None \in Range(parts) THEN None ELSE FlattenSeq(parts)

Prefixed(bs) == VarUint[Len(bs)] \o bs

MaxOf(t) == 2^Width[t] - 1

\* asUint64: the comparison with the bound is made between floats.
AsUint64(v, max) ==
    CASE v.g = "num" ->
           IF v.n >= 0 /\ Whole(v) /\ v.n <= Float64(Num(max)).n
           THEN ToUint64(v) ELSE None
      [] v.g = "str" ->
           LET k == DecOf(v.s) IN IF k # None /\ k \in 0..max THEN k ELSE None
      [] OTHER -> None

\* asInt64, then the cast to an unsigned number of the same width.
AsInt64(v, t) ==
    LET half == 2^(Width[t] - 1)
        k    == CASE v.g = "num" /\ Whole(v) -> v.n \div 2
                  [] v.g = "str" -> DecOf(v.s)
                  [] OTHER -> None
    IN  IF k # None /\ k \in -half..(half - 1) THEN k % 2^Width[t] ELSE None

PutUint(v, t) ==
    LET k == AsUint64(v, MaxOf(t))
    IN  CASE k = None -> None
          [] t = "u8" -> <<k>>
          [] OTHER    -> VarUint[k]

PutInt(v, t) ==
    LET k == AsInt64(v, t) IN IF k = None THEN None ELSE VarUint[k]

\* fmt.Sprint: whatever is not a string is written the way Go prints it.
Sprint(v) ==
    CASE v.g = "str" -> v.s
      [] v = Nil     -> "<nil>"
      [] OTHER       -> "<printed>"

\* Hex when it has the right length, base58 otherwise.
PutAddress(v) ==
    LET n   == SizeOf["Address"]
        hex == HexOf(v.s)
    IN  CASE v.g = "bytes" -> IF Len(v.b) = n THEN v.b ELSE None
          [] v.g = "str" ->
               CASE hex # None /\ Len(hex) = n -> hex
                 [] Len(B58Of(v.s)) = n        -> B58Of(v.s)
                 [] OTHER                      -> None
          [] OTHER -> None

PutFixed(v, t) == IF v.g = "bytes" /\ Len(v.b) = SizeOf[t] THEN v.b ELSE None

\* The scheme of a signature or a key is found by its length.
SchemeOf(bs) == SelectInSeq(Schemes, LAMBDA n : n = Len(bs))
Parsed(t, bs) == SchemeOf(bs) # 0 /\ (t = "PublicKey" => ValidKey(bs))

PutKey(v, t) ==
    LET hex == HexOf(v.s)
        raw == CASE v.g = "bytes" -> v.b
                 [] v.g = "str" ->
                      IF hex # None /\ Parsed(t, hex) THEN hex ELSE B58Of(v.s)
                 [] OTHER -> <<>>
    IN  IF Parsed(t, raw) THEN VarUint[SchemeOf(raw) - 1] \o raw ELSE None

RECURSIVE Put(_, _)

PutFields(fields, o) ==
    Joined([i \in DOMAIN fields |->
              IF fields[i].name \in DOMAIN o
              THEN Put(fields[i].type, o[fields[i].name]) ELSE None])

PutEnum(T, v) ==
    LET in == VariantInput(v)
        i  == VariantIndex(T, in.name)
        c  == T.variants[i]
        items == TupleItems(in.data, Len(c.fields))
        data ==
          CASE c.kind = "unit" -> <<>>
            [] c.kind = "tuple" ->
                 IF items = None THEN None
                 ELSE Joined([j \in DOMAIN items |-> Put(c.fields[j].type, items[j])])
            [] OTHER ->
                 IF in.data.g = "obj" THEN PutFields(c.fields, in.data.o) ELSE None
    IN  IF in = None \/ i = 0 THEN None ELSE Joined(<<VarUint[i - 1], data>>)

Put(T, v) ==
    CASE T.t = "vec" ->
           IF v.g # "arr" THEN None
           ELSE Joined(<<VarUint[Len(v.a)]>>
                         \o [i \in DOMAIN v.a |-> Put(T.of, v.a[i])])
      [] T.t = "option" ->
           IF v = Nil THEN <<0>> ELSE Joined(<<<<1>>, Put(T.of, v)>>)
      [] T.t = "map" ->
           IF v.g # "obj" THEN None
           ELSE LET ks == SetToSeq(DOMAIN v.o)   \* Go's order is arbitrary
                IN  Joined(<<VarUint[Len(ks)]>>
                      \o [i \in DOMAIN ks |->
                            Joined(<<Prefixed(Utf8(ks[i])), Put(T.of, v.o[ks[i]])>>)])
      [] T.t = "tuple" ->
           LET items == TupleItems(v, Len(T.of))
           IN  IF items = None THEN None
               ELSE Joined([i \in DOMAIN items |-> Put(T.of[i], items[i])])
      [] T.t = "struct" ->
           IF v.g = "obj" THEN PutFields(T.fields, v.o) ELSE None
      [] T.t = "enum" -> PutEnum(T, v)
      [] T.t \in {"u8", "u16", "u32", "u64"} -> PutUint(v, T.t)
      [] T.t = "i16"       -> PutInt(v, T.t)
      [] T.t = "bool"      -> IF v.g = "bool" THEN <<IF v.v THEN 1 ELSE 0>> ELSE None
      [] T.t = "String"    -> Prefixed(Utf8(Sprint(v)))
      [] T.t = "Address"   -> PutAddress(v)
      [] T.t = "bytes"     -> IF v.g = "bytes" THEN Prefixed(v.b) ELSE None
      [] T.t \in {"B96", "B256", "PoolId", "ValidatorId"} -> PutFixed(v, T.t)
      [] T.t \in {"Signature", "PublicKey"} -> PutKey(v, T.t)
      [] OTHER -> None
-----------------------------------------------------------------------------
(* Decoding.  A reader returns the value v and the position after it, or   *)
(* None when the body is too short or malformed.                           *)

Text(bs)     == [g |-> "text", b |-> bs]
Map(pairs)   == [g |-> "map", m |-> pairs]
Variant(n, data) == [g |-> "enum", variant |-> n, data |-> data]

\* Ten bytes at most for the 64 bits of the largest varint.
VarBytes == (Width["u64"] + ByteBits - 2) \div (ByteBits - 1)

VarUintAt(bs, at) ==
    LET r == ReadVarUint[VarBytes][bs][at] IN IF r = Short THEN None ELSE r

Raw(bs, at, n) ==
    IF at + n - 1 > Len(bs) THEN None ELSE Read(SubSeq(bs, at, at + n - 1), at + n)

PrefixedAt(bs, at) ==
    LET n == VarUintAt(bs, at) IN IF n = None THEN None ELSE Raw(bs, n.at, n.v)

\* r with its value wrapped by F; a failure stays one.
Wrap(r, F(_)) == IF r = None THEN None ELSE Read(F(r.v), r.at)

Signed(k, t) == IF k >= 2^(Width[t] - 1) THEN k - 2^Width[t] ELSE k

KeyAt(bs, at, t) ==
    LET n   == VarUintAt(bs, at)
        raw == Raw(bs, n.at, Schemes[n.v + 1])
    IN  IF n = None \/ n.v >= Len(Schemes) \/ raw = None \/ ~Parsed(t, raw.v)
        THEN None ELSE Wrap(raw, Key)

RECURSIVE Get(_, _, _)

\* The values of the types Ts, one after the other.
RECURSIVE GetAll(_, _, _)
GetAll(Ts, bs, at) ==
    IF Ts = <<>> THEN Read(<<>>, at)
    ELSE LET one  == Get(Head(Ts), bs, at)
             rest == GetAll(Tail(Ts), bs, one.at)
         IN  IF one = None \/ rest = None THEN None
             ELSE Read(<<one.v>> \o rest.v, rest.at)

Record(fields, vs) ==
    Obj([f \in FieldNames(fields) |-> vs[SelectInSeq(fields, LAMBDA x : x.name = f)]])

FieldsAt(fields, bs, at) ==
    Wrap(GetAll([i \in DOMAIN fields |-> fields[i].type], bs, at),
         LAMBDA vs : Record(fields, vs))

\* n values of type T; a length beyond the input is refused before reading.
VecAt(T, bs, at) ==
    LET n == VarUintAt(bs, at)
    IN  IF n = None \/ n.v > Len(bs) THEN None
        ELSE Wrap(GetAll([i \in 1..n.v |-> T], bs, n.at), Arr)

MapAt(T, bs, at) ==
    LET n     == VarUintAt(bs, at)
        entry == [t |-> "tuple", of |-> <<[t |-> "String"], T>>]
    IN  IF n = None THEN None
        ELSE Wrap(GetAll([i \in 1..n.v |-> entry], bs, n.at),
                  LAMBDA es : Map({<<e.a[1], e.a[2]>> : e \in Range(es)}))

EnumAt(T, bs, at) ==
    LET n == VarUintAt(bs, at)
        c == T.variants[n.v + 1]
    IN  IF n = None \/ n.v >= Len(T.variants) THEN None
        ELSE CASE c.kind = "unit" -> Read(Variant(c.name, Nil), n.at)
               [] c.kind = "struct" ->
                    Wrap(FieldsAt(c.fields, bs, n.at), LAMBDA o : Variant(c.name, o))
               [] OTHER ->
                    Wrap(GetAll([i \in DOMAIN c.fields |-> c.fields[i].type], bs, n.at),
                         LAMBDA vs : Variant(c.name, Arr(vs)))

Get(T, bs, at) ==
    CASE T.t = "vec" -> VecAt(T.of, bs, at)
      [] T.t = "option" ->
           LET has == VarUintAt(bs, at)
           IN  CASE has = None -> None
                 [] has.v = 0  -> Read(Nil, has.at)
                 [] OTHER      -> Get(T.of, bs, has.at)
      [] T.t = "map"    -> MapAt(T.of, bs, at)
      [] T.t = "tuple"  -> Wrap(GetAll(T.of, bs, at), Arr)
      [] T.t = "struct" -> FieldsAt(T.fields, bs, at)
      [] T.t = "enum"   -> EnumAt(T, bs, at)
      [] T.t \in {"u16", "u32", "u64"} -> Wrap(VarUintAt(bs, at), Num)
      [] T.t = "u8"     -> Wrap(Raw(bs, at, 1), LAMBDA b : Num(b[1]))
      [] T.t = "bool"   ->
           Wrap(Raw(bs, at, 1), LAMBDA b : [g |-> "bool", v |-> b[1] # 0])
      [] T.t = "i16"    -> Wrap(VarUintAt(bs, at), LAMBDA k : Num(Signed(k, "i16")))
      [] T.t = "String" -> Wrap(PrefixedAt(bs, at), Text)
      [] T.t = "bytes"  -> Wrap(PrefixedAt(bs, at), Bytes)
      [] T.t \in {"Signature", "PublicKey"} -> KeyAt(bs, at, T.t)
      [] OTHER          -> Wrap(Raw(bs, at, SizeOf[T.t]), Bytes)

\* Decode: the header must be the method's, the body must end with the
\* last argument.
Decode(m, bs) ==
    LET all == FieldsAt(Methods[m], bs, 4)
    IN  IF Len(bs) < 3 \/ SubSeq(bs, 1, 3) # Header[m] \/ all = None
           \/ all.at # Len(bs) + 1
        THEN None ELSE all.v
-----------------------------------------------------------------------------
(* The handler: one step per stage.                                        *)

Known == method \in DOMAIN Methods

Init ==
    /\ sent \in Requests
    /\ overflow \in Overflows
    /\ pc = "received"
    /\ method = sent.method
    /\ args = Bound(Obj(sent.args)).o
    /\ body = <<>>
    /\ decoded = None

\* resolveMethodNameLenient: an exact name, else the only one spelt alike.
Resolve(name) ==
    LET hits == {m \in DOMAIN Methods : Fold(m) = Fold(name)}
    IN  IF name \notin DOMAIN Methods /\ Cardinality(hits) = 1
        THEN CHOOSE m \in hits : TRUE ELSE name

\* checkMissingArgs: an unknown method is left to the encoder.
CheckArgs ==
    LET m == Resolve(method)
        missing == m \in DOMAIN Methods
                   /\ ~(FieldNames(Methods[m]) \subseteq DOMAIN args)
    IN  /\ pc = "received"
        /\ method' = m
        /\ pc' = IF missing THEN "refused" ELSE "checked"
        /\ UNCHANGED <<sent, args, body, decoded, overflow>>

\* CoerceArgsForEncode: arguments the method does not have are kept.
CoerceArgs ==
    LET out == IF Known THEN CoerceFields(Methods[method], args) ELSE Obj(args)
    IN  /\ pc = "checked"
        /\ pc' = IF out = Err THEN "refused" ELSE "coerced"
        /\ args' = IF out = Err THEN args ELSE out.o
        /\ UNCHANGED <<sent, method, body, decoded, overflow>>

\* provider.Encode.
EncodeCall ==
    LET wire == IF Known THEN PutFields(Methods[method], args) ELSE None
    IN  /\ pc = "coerced"
        /\ pc' = IF wire = None THEN "refused" ELSE "encoded"
        /\ body' = IF wire = None THEN body ELSE Header[method] \o wire
        /\ UNCHANGED <<sent, method, args, decoded, overflow>>

\* provider.Decode, on the bytes that were signed.
DecodeCall ==
    /\ pc = "encoded"
    /\ pc' = "decoded"
    /\ decoded' = Decode(method, body)
    /\ UNCHANGED <<sent, method, args, body, overflow>>

Next == CheckArgs \/ CoerceArgs \/ EncodeCall \/ DecodeCall

Spec == Init /\ [][Next]_vars
-----------------------------------------------------------------------------
(* What a JSON value of the caller means for a type, according to API.md   *)
(* (16, the table of byte types), to the argument descriptions of          *)
(* idl_method_docs.go and to the comments on tuples and variants: the      *)
(* value that must come out of the decoder; Err when it means nothing;     *)
(* Loose when nobody says and the code may accept it: a number of 2^64 or  *)
(* more, a fraction among bytes, something else than text for a text.      *)
(* A JSON number means the float64 nearest to it, and so does an amount    *)
(* above 2^53; as a decimal string it means itself.                        *)

Loose == [g |-> "loose"]

\* The meaning of a composite value, given those of its parts.
Joint(parts, v) ==
    CASE Err \in parts   -> Err
      [] Loose \in parts -> Loose
      [] OTHER           -> v

\* The float64 of a number of 2^64 or more: what uint64(f) gives is the
\* platform's choice.
TooBig(v) == Float64(v).n >= 2^(Width["u64"] + 1)

\* The bound itself is compared as a float64, so 2^64 passes for a u64.
MeantNumber(v, lo, hi) ==
    LET f == Float64(v)
        k == CASE v.g = "num" /\ Whole(f) -> f.n \div 2
               [] v.g = "str"             -> DecOf(v.s)
               [] OTHER                   -> None
    IN  CASE k # None /\ k \in lo..hi -> Num(k)
          [] v.g = "num" /\ TooBig(v) -> Loose
          [] OTHER                    -> Err

MeantByte(v) ==
    CASE v.g # "num"               -> Err
      [] TooBig(v) \/ ~Whole(v)    -> Loose
      [] OTHER                     -> MeantNumber(v, 0, ByteMax)

\* Bytes written as hex, as base58 when the type allows it, or as an array;
\* fits says which lengths the type has.
MeantBytes(v, base58, array, fits(_)) ==
    LET hex   == HexOf(v.s)
        parts == [i \in DOMAIN v.a |-> MeantByte(v.a[i])]
        sound(b) == IF fits(b) THEN Bytes(b) ELSE Err
    IN  CASE v.g = "str" /\ hex # None /\ fits(hex) -> Bytes(hex)
          [] v.g = "str" /\ base58                  -> sound(B58Of(v.s))
          [] v.g = "arr" /\ array ->
               Joint(Range(parts), sound([i \in DOMAIN parts |-> parts[i].n \div 2]))
          [] OTHER -> Err

MeantKey(v, t) ==
    LET m == MeantBytes(v, TRUE, t = "Signature", LAMBDA b : Parsed(t, b))
    IN  IF m.g = "bytes" THEN Key(m.b) ELSE m

\* The descriptions give pool and validator ids as base58 strings; nothing
\* turns an argument of these types into the bytes the encoder asks for.
Unread == {"PoolId", "ValidatorId"}

RECURSIVE Meaning(_, _)

MeantFields(fields, o) ==
    IF ~(FieldNames(fields) \subseteq DOMAIN o) THEN Err
    ELSE LET vs == [f \in FieldNames(fields) |-> Meaning(TypeOfField(fields, f), o[f])]
         IN  Joint(Range(vs), Obj(vs))

MeantItems(Ts, v) ==
    LET items == TupleItems(v, Len(Ts))
        vs    == [i \in DOMAIN items |-> Meaning(Ts[i], items[i])]
    IN  IF items = None THEN Err ELSE Joint(Range(vs), Arr(vs))

MeantEnum(T, v) ==
    LET in == VariantInput(v)
        i  == VariantIndex(T, in.name)
        c  == T.variants[i]
        data == CASE c.kind = "unit"      -> Nil
                  [] c.kind = "tuple"     -> MeantItems([j \in DOMAIN c.fields |->
                                                 c.fields[j].type], in.data)
                  [] in.data.g = "obj"    -> MeantFields(c.fields, in.data.o)
                  [] OTHER                -> Err
    IN  IF in = None \/ i = 0 THEN Err ELSE Joint({data}, Variant(c.name, data))

Meaning(T, v) ==
    CASE T.t = "option" /\ v = Nil -> Nil
      [] T.t = "option"            -> Meaning(T.of, v)
      [] T.t = "vec" /\ v.g = "arr" ->
           LET vs == [i \in DOMAIN v.a |-> Meaning(T.of, v.a[i])]
           IN  Joint(Range(vs), Arr(vs))
      [] T.t = "map" /\ v.g = "obj" ->
           LET vs == [k \in DOMAIN v.o |-> Meaning(T.of, v.o[k])]
           IN  Joint(Range(vs), Map({<<Text(Utf8(k)), vs[k]>> : k \in DOMAIN vs}))
      [] T.t = "tuple"                  -> MeantItems(T.of, v)
      [] T.t = "struct" /\ v.g = "obj"  -> MeantFields(T.fields, v.o)
      [] T.t = "enum"                   -> MeantEnum(T, v)
      [] T.t \in {"u8", "u16", "u32", "u64"} -> MeantNumber(v, 0, MaxOf(T.t))
      [] T.t = "i16" -> MeantNumber(v, -2^(Width["i16"] - 1), 2^(Width["i16"] - 1) - 1)
      [] T.t = "bool" /\ v.g = "bool"   -> v
      [] T.t = "String" -> IF v.g = "str" THEN Text(Utf8(v.s)) ELSE Loose
      [] T.t = "bytes"  -> MeantBytes(v, FALSE, TRUE, LAMBDA b : TRUE)
      [] T.t \in {"Signature", "PublicKey"} -> MeantKey(v, T.t)
      [] T.t \in DOMAIN SizeOf ->
           MeantBytes(v, T.t \in {"Address"} \cup Unread, T.t # "Address",
                      LAMBDA b : Len(b) = SizeOf[T.t])
      [] OTHER -> Err

Meant == [a \in FieldNames(Methods[method]) |->
            IF a \in DOMAIN sent.args
            THEN Meaning(TypeOfField(Methods[method], a), sent.args[a]) ELSE Err]

(* Whatever is signed reads back, in full, as what the caller's JSON means: *)
(* no argument is cut, shifted into its neighbour or given another value,   *)
(* by handler/args_coerce.go and provider.Encode.  Where the meaning is     *)
(* Loose only the other arguments are claimed, and that the body decodes.   *)
SignedMeansWritten ==
    pc = "decoded" =>
        /\ decoded # None
        /\ \A a \in DOMAIN Meant : Meant[a] \in {Loose, decoded.o[a]}

(* A call is refused only for an argument that is missing, means nothing or *)
(* is Loose: args_coerce.go leaves every documented form, however deep in   *)
(* the type, as the provider accepts it.  Pool and validator ids are the exception.  *)
DocumentedFormsAccepted ==
    pc = "refused" /\ Known =>
        \E a \in DOMAIN Meant :
            LET T == TypeOfField(Methods[method], a)
            IN  \/ Meant[a] \in {Err, Loose}
                \/ T.t \in Unread
=============================================================================
