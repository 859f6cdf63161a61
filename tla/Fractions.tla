----------------------------- MODULE Fractions -----------------------------
(***************************************************************************)
(* Scores and shares as exact fractions <<numerator, denominator>> with a  *)
(* positive denominator, compared by cross multiplication.                 *)
(***************************************************************************)
EXTENDS Integers, Sequences, FiniteSets, FiniteSetsExt, SequencesExt

Whole(n) == <<n, 1>>
Zero == <<0, 1>>
One == <<1, 1>>
Half == <<1, 2>>
Cent(n) == <<n, 100>>

gcd[a \in Nat, b \in Nat] == IF b = 0 THEN a ELSE gcd[b, a % b]
Reduced(n, d) == LET g == gcd[IF n < 0 THEN -n ELSE n, d] IN <<n \div g, d \div g>>

Less(a, b) == a[1] * b[2] < b[1] * a[2]
AtMost(a, b) == a[1] * b[2] <= b[1] * a[2]
Same(a, b) == a[1] * b[2] = b[1] * a[2]
Plus(a, b) == Reduced(a[1] * b[2] + b[1] * a[2], a[2] * b[2])
Minus(a, b) == Reduced(a[1] * b[2] - b[1] * a[2], a[2] * b[2])
Times(a, b) == Reduced(a[1] * b[1], a[2] * b[2])
Over(a, b) == Reduced(a[1] * b[2], a[2] * b[1])     \* for b > 0
Lesser(a, b) == IF Less(b, a) THEN b ELSE a
Greater(a, b) == IF Less(a, b) THEN b ELSE a
Clamp01(a) == Greater(Zero, Lesser(One, a))
Unit(a) == AtMost(Zero, a) /\ AtMost(a, One)

SumOver(S, f(_)) == FoldSet(LAMBDA x, acc : Plus(f(x), acc), Zero, S)
Total(seq) == FoldLeft(Plus, Zero, seq)
Mean(seq) == Over(Total(seq), Whole(Len(seq)))

=============================================================================
