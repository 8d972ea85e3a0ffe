------------------------------- MODULE Totals -------------------------------
(* Sums and products of the values that a function has on a finite set, and *)
(* the roundings of a fraction n / d to a whole number.                    *)
EXTENDS Integers, FiniteSetsExt

SumOver(value, S) == MapThenSumSet(LAMBDA x : value[x], S)

ProductOver(value, S) == FoldSet(LAMBDA x, product : value[x] * product, 1, S)

\* The whole numbers that are nearest: two of them at a tie.
Nearest(n, d) ==
    {q \in {n \div d, n \div d + 1} : 2 * d * q <= 2 * n + d /\ 2 * n <= 2 * d * q + d}

\* ROUND of SQL's numeric: at a tie away from zero.
RoundAway(n, d) == CHOOSE q \in Nearest(n, d) : \A p \in Nearest(n, d) : p <= q

\* round of a Python Decimal: at a tie to the even neighbour.
RoundEven(n, d) ==
    CHOOSE q \in Nearest(n, d) : \A p \in Nearest(n, d) : p = q \/ q % 2 = 0
=============================================================================
