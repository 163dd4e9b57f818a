-------------------------- MODULE MCPgBouncerSync --------------------------
(* Instances of PgBouncerSync for TLC. *)
EXTENDS PgBouncerSync

CONSTANTS w1, d1, a1, a2, q1

OneHandler == {w1}
OneDb == {d1}
TwoAcls == {a1, a2}
OneAcl == {a1}
OnePool == {q1}
=============================================================================
