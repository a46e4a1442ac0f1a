------------------------------ MODULE MCHaxLib ------------------------------
(* A two-bit unsigned type and a two-bit signed one; bounds that do not      *)
(* hold zero, or do.  Bytes have two values and a BigInt two bytes, so that   *)
(* there are Ints that are too short, that fit and that are too long.        *)
EXTENDS HaxLib

Unsigned(low, high, checked) ==
    [minT |-> 0, maxT |-> 3, MIN |-> low, MAX |-> high, invariant_checked |-> checked,
     ops |-> {"add", "sub", "mul", "div", "rem"}]
Signed(low, high, checked) ==
    [minT |-> -2, maxT |-> 1, MIN |-> low, MAX |-> high, invariant_checked |-> checked,
     ops |-> {"add", "sub", "mul"}]

MCTypes == {Unsigned(1, 2, TRUE), Signed(-1, 1, TRUE)}
=============================================================================
