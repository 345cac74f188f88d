--------------------------------- MODULE Sums ---------------------------------
(* Sums of contracts. The sum of f over S is the number of its units, each a   *)
(* member of S with a number from 1 to f's value there.                        *)
EXTENDS Integers, FiniteSets

Units(f, S) == UNION {{x} \X (1..f[x]) : x \in S}

Total(f, S) == Cardinality(Units(f, S))
=============================================================================
