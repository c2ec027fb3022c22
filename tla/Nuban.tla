------------------------------- MODULE Nuban --------------------------------
(***************************************************************************)
(* Account numbers (nuban-account-number-generator.service.ts): a bank     *)
(* code of three digits, a serial of six drawn at random, and a weighted   *)
(* check digit.  A number is its digits, as numbers.                       *)
(***************************************************************************)
EXTENDS Integers

Digits == 0..9

NubanWeights == <<3, 7, 3, 3, 7, 3, 3, 7, 3>>

WeightedSum(d) ==
  NubanWeights[1] * d[1] + NubanWeights[2] * d[2] + NubanWeights[3] * d[3]
    + NubanWeights[4] * d[4] + NubanWeights[5] * d[5] + NubanWeights[6] * d[6]
    + NubanWeights[7] * d[7] + NubanWeights[8] * d[8] + NubanWeights[9] * d[9]

CheckDigit(d) == IF WeightedSum(d) % 10 = 0 THEN 0 ELSE 10 - (WeightedSum(d) % 10)

BuildWithChecksum(d) == [i \in 1..10 |-> IF i = 10 THEN CheckDigit(d) ELSE d[i]]

\* What the receiving end of a transfer tests.
Checks(n) == (WeightedSum(n) + n[10]) % 10 = 0
=============================================================================
