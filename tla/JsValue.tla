------------------------------ MODULE JsValue ------------------------------
(***************************************************************************)
(* The values a field of a snapshot may hold once JSON.parse has read it,  *)
(* and the JavaScript operators the tick handlers apply to a link's value: *)
(* strict equality, !, <, Math.sqrt and ||.  A number is Num(n) for an     *)
(* integer n, a string Str(s); Undefined is a field that is not there.     *)
(* NaN is what a conversion to a number gives when there is no number to   *)
(* read.                                                                   *)
(***************************************************************************)
EXTENDS Integers, TLC

Num(n)    == [type |-> "number", n |-> n]
Str(s)    == [type |-> "string", s |-> s]
Undefined == [type |-> "undefined"]
NaN       == [type |-> "NaN"]

\* The strings of the model that read as a number, with the number.  The
\* empty string reads as 0.
Numerals == ("0" :> 0) @@ ("4" :> 4) @@ ("-1" :> -1) @@ ("" :> 0)

\* The values the tick handlers are checked on: absent, negative, zero, the
\* squares 1, 4 and 9, the same as strings, the empty string and a word.
LinkValues ==
    {Undefined, Num(-1), Num(0), Num(1), Num(4), Num(9),
     Str("-1"), Str("0"), Str("4"), Str(""), Str("abc")}

\* ToNumber, the conversion Math.sqrt and < apply to their argument.
ToNumber(v) ==
    CASE v.type = "number"                          -> v
      [] v.type = "string" /\ v.s \in DOMAIN Numerals -> Num(Numerals[v.s])
      [] OTHER                                      -> NaN

\* ToBoolean, the conversion ! and || apply: 0, NaN, "" and undefined are
\* false.
Truthy(v) ==
    CASE v.type = "number" -> v.n # 0
      [] v.type = "string" -> v.s # ""
      [] OTHER             -> FALSE

\* a < b for a number b: false when a does not read as a number.
LessThan(a, b) ==
    LET n == ToNumber(a) IN n # NaN /\ n.n < b

\* Math.sqrt, on the squares of the model.
Sqrt(v) ==
    LET n == ToNumber(v)
    IN  IF n = NaN \/ n.n < 0 THEN NaN
        ELSE Num(CHOOSE r \in 0..n.n : r * r = n.n)

\* a || b.
Or(a, b) == IF Truthy(a) THEN a ELSE b

=============================================================================
