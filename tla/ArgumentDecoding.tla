-------------------------- MODULE ArgumentDecoding --------------------------
(***************************************************************************)
(* The arguments of a generic invocation: JSON values decoded into the       *)
(* parameter types that the provider's metadata declares.  Widths are        *)
(* scaled down: a byte has ByteBits bits, ..., a long has LongBits bits, and a *)
(* floating-point number has Mantissa bits.  A number is kept as twice its    *)
(* value, so that halves are numbers too.                                     *)
(***************************************************************************)
EXTENDS Integers, Sequences

CONSTANTS
  ByteBits, ShortBits, IntBits, LongBits, CharBits,   \* widths; a char is unsigned
  Mantissa                        \* bits of precision of a float64

Abs(n) == IF n < 0 THEN -n ELSE n

Lowest(bits) == -(2^(bits - 1))
Highest(bits) == 2^(bits - 1) - 1

(* JSON values: null, a number or a string holding one (in digits, or with a point or an     *)
(* exponent), a string of one character, an array, and a text that is no number.              *)
Null == [kind |-> "null"]
Number(twice, float) == [kind |-> "number", twice |-> twice, float |-> float]
Quoted(twice, float) == [kind |-> "quoted", twice |-> twice, float |-> float]
Rune(code) == [kind |-> "rune", code |-> code]
Junk == [kind |-> "junk"]
List(items) == [kind |-> "list", items |-> items]

(* A decoded argument, or an error. *)
Error == [ok |-> FALSE]
Value(v) == [ok |-> TRUE, value |-> v]

(* The nearest number of Mantissa bits, the even one of two. *)
Nearest(n) ==
  LET e == CHOOSE k \in 0..20 : Abs(n) < 2^(Mantissa + k) /\ (k = 0 \/ Abs(n) >= 2^(Mantissa + k - 1))
      unit == 2^e
      low == (Abs(n) \div unit) * unit
      up == \/ 2 * (Abs(n) - low) > unit
            \/ 2 * (Abs(n) - low) = unit /\ (low \div unit) % 2 = 1
      r == IF up THEN low + unit ELSE low
  IN IF n < 0 THEN -r ELSE r

(* The bound MaxInt64 is compared as a float64, which is one more than it.  The conversion    *)
(* of a float64 that no int64 holds gives what the machine gives: `wild'.                      *)
Int64FromFloat(twice, wild) ==
  CASE twice % 2 # 0 -> Error
    [] twice \div 2 < Lowest(LongBits) \/ twice \div 2 > Highest(LongBits) + 1 -> Error
    [] twice \div 2 = Highest(LongBits) + 1 -> Value(wild)
    [] OTHER -> Value(twice \div 2)

(* Digits are read as an integer; anything with a point or an exponent as a float64. *)
ParseInt64Text(raw, wild) ==
  CASE raw.kind \notin {"number", "quoted"} -> Error
    [] raw.float -> Int64FromFloat(Nearest(raw.twice), wild)
    [] raw.twice \div 2 \in Lowest(LongBits)..Highest(LongBits) -> Value(raw.twice \div 2)
    [] OTHER -> Error

(* Seeded bug: the upper bound is the width's number of values, as for an unsigned type. *)
ParseBoundedInt64Raw_Unsigned(raw, low, high, wild) ==
  LET v == ParseInt64Text(raw, wild)
  IN IF v.ok /\ (v.value < low \/ v.value > 2 * high + 1) THEN Error ELSE v

ParseBoundedInt64Raw(raw, low, high, wild) ==
  LET v == ParseInt64Text(raw, wild)
  IN IF v.ok /\ (v.value < low \/ v.value > high) THEN Error ELSE v

(* A Go conversion to a signed type of so many bits. *)
Wrapped(v, bits) == IF v.ok THEN Value(((v.value - Lowest(bits)) % (2^bits)) + Lowest(bits)) ELSE v

DecodeInt(raw, bits, wild) ==
  Wrapped(ParseBoundedInt64Raw(raw, Lowest(bits), Highest(bits), wild), bits)

(* A string of one digit. *)
IsDigit(raw) == raw.kind = "quoted" /\ ~raw.float /\ raw.twice \div 2 \in 0..9
Code(raw) == IF raw.kind = "rune" THEN raw.code ELSE 48 + raw.twice \div 2

(* A character is the one rune of a string, which may be a digit, or a number. *)
DecodeCharRaw(raw, wild) ==
  CASE raw.kind = "rune" \/ IsDigit(raw) -> IF Code(raw) < 2^CharBits THEN Value(Code(raw)) ELSE Error
    [] raw.kind = "quoted" -> Error
    [] OTHER -> LET v == ParseBoundedInt64Raw(raw, 0, 2^CharBits - 1, wild)
                IN IF v.ok THEN Value(v.value % (2^CharBits)) ELSE v

(* What the types that are no integer accept is not looked into. *)
DecodeScalar(type, raw, wild) ==
  CASE type = "byte" -> DecodeInt(raw, ByteBits, wild)
    [] type = "short" -> DecodeInt(raw, ShortBits, wild)
    [] type = "int" -> DecodeInt(raw, IntBits, wild)
    [] type = "long" -> DecodeInt(raw, LongBits, wild)
    [] type = "char" -> DecodeCharRaw(raw, wild)

Items(raw) == IF raw.kind = "list" THEN raw.items ELSE <<>>

(* Every element decoded, or an error. *)
DecodeRawArray(raw, decoded) ==
  CASE raw.kind = "null" -> Value(Null)
    [] raw.kind # "list" -> Error
    [] \E i \in DOMAIN decoded : ~decoded[i].ok -> Error
    [] OTHER -> Value([i \in DOMAIN decoded |-> decoded[i].value])

RECURSIVE DecodeGenericInvokeArg(_, _, _, _)
(* A type is a scalar with a number of brackets.  null is let through for every type, but     *)
(* the elements of an array of scalars go to the scalar's decoder, which knows no null.        *)
DecodeGenericInvokeArg(type, brackets, raw, wild) ==
  CASE raw.kind = "null" -> Value(Null)
    [] brackets = 0 -> DecodeScalar(type, raw, wild)
    [] brackets = 1 ->
         DecodeRawArray(raw, [i \in DOMAIN Items(raw) |-> DecodeScalar(type, raw.items[i], wild)])
    [] OTHER ->
         DecodeRawArray(raw, [i \in DOMAIN Items(raw) |->
                                DecodeGenericInvokeArg(type, brackets - 1, raw.items[i], wild)])

DecodeGenericInvokeArgs(types, args, wild) ==
  LET decoded == [i \in DOMAIN args |->
                    DecodeGenericInvokeArg(types[i].name, types[i].brackets, args[i], wild)]
  IN IF Len(types) # Len(args) \/ \E i \in DOMAIN args : ~decoded[i].ok THEN Error
     ELSE Value([i \in DOMAIN args |-> decoded[i].value])

-----------------------------------------------------------------------------
(* A float64 stands for the number as written, and an int64 holds it. *)
Held(raw) == raw.float => Abs(raw.twice) <= 2^Mantissa /\ raw.twice \div 2 <= Highest(LongBits)

Bits(type) == CASE type = "byte" -> ByteBits [] type = "short" -> ShortBits
                [] type = "int" -> IntBits [] type = "long" -> LongBits

Fits(type, n) == IF type = "char" THEN n \in 0..(2^CharBits - 1) ELSE n \in Lowest(Bits(type))..Highest(Bits(type))

ScalarIsExact(type, raw, result) ==
  CASE raw.kind = "number" \/ (raw.kind = "quoted" /\ type # "char") ->
         Held(raw) => result = IF raw.twice % 2 = 0 /\ Fits(type, raw.twice \div 2)
                               THEN Value(raw.twice \div 2) ELSE Error
    [] raw.kind = "null" -> result = Value(Null)
    [] type = "char" /\ (raw.kind = "rune" \/ IsDigit(raw)) ->
         result = IF Fits("char", Code(raw)) THEN Value(Code(raw)) ELSE Error
    [] OTHER -> ~result.ok

(* An argument is passed on as it was written or refused (decodeGenericInvokeArg,              *)
(* service_generic_invoke_decode.go:44-74): an integer is accepted exactly when its type holds *)
(* it and arrives as that integer, alone, in a string and at its place in an array.  A number  *)
(* with a point or an exponent beyond a float64's precision is outside (:238-279).              *)
ArgumentsArriveExact(types, args, result) ==
  /\ result.ok => \A i \in DOMAIN args :
       \/ types[i].brackets = 0 /\ ScalarIsExact(types[i].name, args[i], Value(result.value[i]))
       \/ types[i].brackets = 1 /\ args[i].kind = "null" /\ result.value[i] = Null
       \/ /\ types[i].brackets = 1 /\ args[i].kind = "list"
          /\ DOMAIN result.value[i] = DOMAIN args[i].items
          /\ \A j \in DOMAIN args[i].items : /\ args[i].items[j] # Null
                 /\ ScalarIsExact(types[i].name, args[i].items[j], Value(result.value[i][j]))
  /\ ~result.ok => \/ Len(types) # Len(args)
                   \/ \E i \in DOMAIN args :
                        \/ types[i].brackets = 0 /\ ScalarIsExact(types[i].name, args[i], Error)
                        \/ types[i].brackets = 1 /\ args[i].kind \notin {"list", "null"}
                        \/ /\ types[i].brackets = 1 /\ args[i].kind = "list"
                           /\ \E j \in DOMAIN args[i].items :
                                \/ args[i].items[j] = Null
                                \/ ScalarIsExact(types[i].name, args[i].items[j], Error)
=============================================================================
