--------------------------- MODULE MCExpressions ---------------------------
(* An array of one dimension from 200 on, one of two from 'a' and from -1;  *)
(* one function whose parameters both take what has to be converted.        *)
EXTENDS Expressions

MCFunctions ==
    {[name |-> "f", params |-> <<"real", "string">>, result |-> "real"]}

MCArrays ==
    {[name |-> "a", dims |-> << [base |-> "integer", first |-> 200] >>, elem |-> "real"],
     [name |-> "b", dims |-> << [base |-> "char", first |-> 97],
                                [base |-> "integer", first |-> -1] >>, elem |-> "char"]}

\* Sums of booleans, which are compiled as sums of integers: no text says
\* that they are not to be.
Booleans == {<<"boolean", "+">>, <<"boolean", "-">>}

\* Differences with a char on the left, which are accepted as sums are and
\* for which no instruction is generated.
MCUnused == Booleans \cup {<<"char", "-">>}
=============================================================================
