---------------------------- MODULE MC_IntArith ----------------------------
(* Argument types of every numeric context, with the lengths and scales   *)
(* at which the result-type limits bite: integers signed and unsigned, a  *)
(* date (integer context) and a datetime with fractional seconds (decimal *)
(* context), decimals small, at the 65/30 limits and unspecified, doubles *)
(* with and without a scale, a string, a binary string and an enum.       *)
EXTENDS IntArith

Ft(tp, flen, dec, u) == [tp |-> tp, flen |-> flen, decimal |-> dec, unsigned |-> u]

MCFieldTypes ==
    { Ft("int", 11, 0, FALSE),      Ft("int", 10, 0, TRUE),
      Ft("temporal", 10, 0, FALSE), Ft("temporal", 26, 6, FALSE),
      Ft("decimal", 10, 2, FALSE),  Ft("decimal", 65, 30, FALSE),
      Ft("decimal", 65, 0, TRUE),   Ft("decimal", -1, -1, FALSE),
      Ft("double", 22, -1, FALSE),  Ft("double", 30, 25, FALSE),
      Ft("string", 20, -1, FALSE),  Ft("binstr", 8, -1, FALSE),
      Ft("hybrid", 5, -1, FALSE) }
=============================================================================
