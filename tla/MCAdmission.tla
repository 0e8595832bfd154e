---------------------------- MODULE MCAdmission ----------------------------
(* Instances of Admission for TLC.                                         *)
EXTENDS Admission, TLC

CONSTANTS t1, t2, noGuid, d1, n1, q1, q2

Good(t) == [path |-> "guarded", headers |-> "all", time |-> "fresh", signature |-> "good",
            tenant |-> t, domain |-> d1]

(* Each check fails once.  The second tenant may not come from the domain, *)
(* the first may at the start.                                             *)
SomeInputs ==
    {Good(t1), Good(t2), Good(noGuid),
     [Good(t1) EXCEPT !.path = "skipped"], [Good(t1) EXCEPT !.headers = "missing"],
     [Good(t1) EXCEPT !.time = "no_number"], [Good(t2) EXCEPT !.time = "stale"],
     [Good(noGuid) EXCEPT !.time = "stale"], [Good(t1) EXCEPT !.signature = "bad"]}

FirstMayEnter == {<<t1, d1>>}
=============================================================================
