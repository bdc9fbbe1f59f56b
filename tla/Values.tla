------------------------------- MODULE Values -------------------------------
(***************************************************************************)
(* Scalars and types (adb-core types.rs; coerce_literal of adb-planner     *)
(* expr.rs).  A value is a pair <<variant, n>>.  A float is the multiple   *)
(* n/One of a unit fraction, which keeps the averages of the instances     *)
(* exact; a string is its rank in the order of strings.  NaN and the       *)
(* signed zero are left out: JSON carries neither NaN nor a use for -0.    *)
(***************************************************************************)
EXTENDS Integers

One == 12

Null == <<"null", 0>>
Bool(b) == <<"bool", IF b THEN 1 ELSE 0>>
Int64(i) == <<"int64", i>>
Float64(n) == <<"float64", n>>
Str(rank) == <<"utf8", rank>>
Timestamp(t) == <<"timestamp", t>>
Date(d) == <<"date", d>>

(* What a JSON array or object in the place of a scalar comes to: no       *)
(* Value.                                                                  *)
NotScalar == <<"nested", 0>>

DataTypes == {"bool", "int64", "float64", "utf8", "timestamp", "date", "uuid", "json"}
is_numeric(t) == t \in {"int64", "float64"}
is_ordered(t) == t /= "json"

(* The variant a column of type t holds: uuid and json are stored as text. *)
Stored(t) == IF t \in {"uuid", "json"} THEN "utf8" ELSE t

(* The types that are counts since an epoch, and the plain integers.       *)
Epochs == {"int64", "timestamp", "date"}

discriminant == [null |-> 0, bool |-> 1, int64 |-> 2, float64 |-> 2, utf8 |-> 3,
                 timestamp |-> 4, date |-> 5]

Scalars == (DOMAIN discriminant) \X Int
(* json_to_value: what a JSON scalar can become.                           *)
JsonScalars == {"null", "bool", "int64", "float64", "utf8"} \X Int

(* Value::cmp: a total order with NULL first; Int and Float compare        *)
(* numerically.                                                            *)
Magnitude(v) == IF v[1] = "int64" THEN v[2] * One ELSE v[2]
Precedes(v, w) ==
    \/ discriminant[v[1]] < discriminant[w[1]]
    \/ discriminant[v[1]] = discriminant[w[1]] /\ Magnitude(v) < Magnitude(w)

(* An integer epoch is taken for seconds, milliseconds or microseconds by  *)
(* its magnitude; the bounds and factors are scaled down (10 for 1000).    *)
SEC_BOUND == 20
MILLI_BOUND == 200
normalize_epoch_to_micros(n) ==
    LET abs == IF n < 0 THEN -n ELSE n
    IN  IF abs < SEC_BOUND THEN n * 100 ELSE IF abs < MILLI_BOUND THEN n * 10 ELSE n

(* parse_timestamp_micros and parse_date_days are partial: the strings     *)
(* around rank Epoch stand for instants, that of rank Epoch + t for the    *)
(* instant t (in minutes, for the microseconds of the code).               *)
DayMicros == 1440
Epoch == 10000000
InstantText(t) == Str(Epoch + t)
IsDateText(v) == v[1] = "utf8" /\ v[2] >= Epoch \div 2
parse_timestamp_micros(v) == v[2] - Epoch
parse_date_days(v) == parse_timestamp_micros(v) \div DayMicros

(* coerce_literal: the literal in the type of the column it is compared    *)
(* with, or Mismatch.                                                      *)
Mismatch == <<"mismatch", 0>>
Untyped == "untyped"      \* the type of a NULL literal: no coercion
coerce_literal(v, t) ==
    CASE v = Null \/ v[1] = t \/ t = Untyped -> v
      [] t = "int64" /\ v[1] = "float64" /\ v[2] % One = 0 -> Int64(v[2] \div One)
      [] t = "float64" /\ v[1] = "int64" -> Float64(v[2] * One)
      [] t \in {"uuid", "json"} /\ v[1] = "utf8" -> v
      [] t = "timestamp" /\ IsDateText(v) -> Timestamp(parse_timestamp_micros(v))
      [] t = "timestamp" /\ v[1] = "int64" -> Timestamp(normalize_epoch_to_micros(v[2]))
      [] t = "date" /\ IsDateText(v) -> Date(parse_date_days(v))
      [] t = "date" /\ v[1] = "int64" -> Date(v[2])
      [] OTHER -> Mismatch

=============================================================================
