---------------------------- MODULE MCPoolServer ----------------------------
(* An instance of PoolServer: three connections share two addresses, so that *)
(* an address is used again; one procedure has no script.                    *)
EXTENDS PoolServer

CONSTANTS all, some, l1

AcceptsOf == [p \in Procedure |-> IF p = all THEN Log ELSE {}]
=============================================================================
