------------------------------ MODULE NDRange ------------------------------
(***************************************************************************)
(* How many work items a kernel is launched with: a whole number of work   *)
(* groups, none larger than the number of items that have work to do.  The *)
(* items beyond that number must find nothing to do.                       *)
(***************************************************************************)
EXTENDS Integers

CONSTANT LocalSizes   \* what choose_local_size may return

ASSUME LocalSizesAssumption == LocalSizes \subseteq Nat \ {0}

Smaller(a, b) == IF a < b THEN a ELSE b

RoundUp(n, local) == ((n + local - 1) \div local) * local

GlobalSize(items, local) == RoundUp(items, Smaller(local, items))
=============================================================================
