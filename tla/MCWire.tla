------------------------------- MODULE MCWire -------------------------------
(***************************************************************************)
(* WireTime on every millisecond of nine seconds: the first two of the     *)
(* epoch, three where doubles drop most, both sides of the second from     *)
(* which they are exact, one of 2026 and the last of 2038; and on each     *)
(* kind of value.                                                          *)
(***************************************************************************)
EXTENDS WireTime

Seconds ==
    {0, 1, 128, 16384, 1073741824, 1099511627, 1099511628, 1776686400, 2147483647}

At(sign, sec, ms, us) == [sign |-> sign, sec |-> sec, ms |-> ms, us |-> us]

Stamps ==
    {At(1, sec, ms, 0) : sec \in Seconds, ms \in 0 .. 999}
    \cup {At(sign, sec, ms, us) : sign \in {-1, 1}, sec \in Seconds,
                                 ms \in {0, 1, 4, 13, 999}, us \in {0, 1, 999}}

MCValue ==
    {[type |-> "datetime", aware |-> TRUE, at |-> x] : x \in Stamps}
    \cup {[type |-> t, aware |-> a, at |-> x] :
             t \in {"datetime", "int", "str", "bool", "None", "float"},
             a \in BOOLEAN,
             x \in {At(1, 0, 1, 0), At(1, 1776686400, 500, 0), Beyond}}

ASSUME BinadesArePowers == Binade = {2 ^ e : e \in 0 .. 30}
=============================================================================
