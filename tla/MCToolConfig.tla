---------------------------- MODULE MCToolConfig ----------------------------
(* Instances of ToolConfig for TLC.                                        *)
EXTENDS ToolConfig, TLC

CONSTANTS t1, t2, a, b, n1, n2, q1, q2

(* The pack of the first tenant has a tool that generic does not.          *)
Packs == [t \in Tenants |-> IF t = t1 THEN Tools ELSE {}]
(* Each tenant has configured one tool; the others have no row.            *)
Configured == [t \in Tenants |-> [tool \in Tools |->
                  IF tool # a THEN "none" ELSE IF t = t1 THEN "off" ELSE "on"]]
=============================================================================
