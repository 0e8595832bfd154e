-------------------------- MODULE MCUsageAccounting --------------------------
(* Instances of UsageAccounting for TLC.                                   *)
EXTENDS UsageAccounting, TLC

CONSTANTS t1, t2, c1, c2, mini, lite, haiku, llama

OneMarkup == [t \in Tenants |-> IF t = t1 THEN 100 ELSE 150]
FirstTenant == [c \in Calls |-> t1]
OneEach == c1 :> t1 @@ c2 :> t2

Vendors == [m \in Models |-> IF m = lite THEN "gemini" ELSE IF m = haiku THEN "anthropic"
                             ELSE "openai"]

Price(m, from, to, i, o, c) ==
    [model |-> m, from |-> from, to |-> to, input |-> i, output |-> o, cached |-> c]

(* Rows of scripts/seed_pricing.py, and a dearer one that takes the place  *)
(* of a cheaper on the second day.                                         *)
PriceList == {Price(mini, 0, NoPrice, 150000, 600000, 75000),
              Price(mini, 1, NoPrice, 300000, 900000, 75000),
              Price(lite, 0, 0, 100000, 400000, 25000),
              Price(haiku, 0, NoPrice, 800000, 4000000, 80000),
              Price(llama, 0, NoPrice, 50000, 80000, 0)}
Seeded == {p \in PriceList : p.model \in Models}

(* Logged on mini it is worth 46.5 quanta.                                 *)
OneBill == {[fresh |-> 90, cached |-> 20, text |-> 40, thoughts |-> 10]}

Callers == Permutations(Calls)
=============================================================================
