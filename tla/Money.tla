------------------------------- MODULE Money -------------------------------
(***************************************************************************)
(* The wallet's arithmetic (src/services/wallet.py).  Amounts of money are *)
(* integers.  A raw amount is counted in MICROs (10^-6 credit, which is    *)
(* 10^-8 USD, the precision calculate_cost rounds to); what the database   *)
(* stores is counted in quanta of 10^-4 credit, the scale of the           *)
(* NUMERIC(12,4) columns.  A markup rate is counted in hundredths.         *)
(***************************************************************************)
EXTENDS Integers

Quantum == 100    \* micros in one quantum: Decimal("0.0001") of a credit

Abs(x) == IF x < 0 THEN -x ELSE x

(* Decimal.quantize with the default context: x/d to the nearest integer,  *)
(* a tie to the even neighbour.                                            *)
HalfEven(x, d) ==
    LET q == x \div d
        r == x % d
    IN  IF 2 * r > d \/ (2 * r = d /\ q % 2 = 1) THEN q + 1 ELSE q

Quantize(x) == HalfEven(x, Quantum)

(* The values a NUMERIC(12,4) column may hold after the service writes     *)
(* float(x) to it.  The float is x only nearly, so PostgreSQL may break a  *)
(* tie either way.                                                         *)
Stored(x) == {n \in {x \div Quantum, (x \div Quantum) + 1} :
                  2 * Abs(Quantum * n - x) <= Quantum}
=============================================================================
