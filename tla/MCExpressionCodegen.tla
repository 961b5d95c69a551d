------------------------ MODULE MCExpressionCodegen ------------------------
(* Instances of ExpressionCodegen. *)
EXTENDS ExpressionCodegen

Vector == ArrayOf(<<literal>>)
Pair == TupleType(2)

Matrix == ArrayOf(<<literal, unspecified>>)

\* In each of these headers the var parameters come before the const ones, as
\* freeSubroutineParameters needs it.
MCHeaders == {
  Header("main", <<>>, Scalar, "block"),
  Header("f", <<Parameter("p", "var", Pair), Parameter("c", "const", Vector)>>, Pair, "block"),
  Header("e", <<Parameter("p", "const", Matrix)>>, Matrix, "expression"),
  Header("q", <<Parameter("p", "var", Scalar), Parameter("t", "var", Pair)>>, noType, "block"),
  Header("n", <<Parameter("p", "const", Pair)>>, noType, "expression")}
\* A const parameter, then a var tuple, then a var scalar.
MCConstFirst == {
  Header("g", <<Parameter("c", "const", Scalar), Parameter("p", "var", Pair),
                Parameter("s", "var", Scalar)>>, noType, "block")}
MCTypes == {Scalar}
MCCallees == {Callee(<<"var">>, FALSE, Scalar), Callee(<<>>, TRUE, Scalar)}
MCGlobals == <<"k">>
MCTwoGlobals == <<"j", "k">>
====
