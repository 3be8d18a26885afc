--------------------------- MODULE MCDeclarations ---------------------------
(* Three names, of which one is protected; none or two parameters.            *)
EXTENDS Declarations

CONSTANTS f, x, run, int

Formal(name) == [name |-> name, type |-> int]

MCParams == {<<>>, <<Formal(f), Formal(x)>>}
=============================================================================
