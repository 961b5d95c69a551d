------------------------------- MODULE MCTyping -------------------------------
(* The types a program declares, for TLC: [type, target] is what the walk and *)
(* the runtime are told by the same words of the source.                      *)
EXTENDS Typing

Declared(type, target) == [type |-> type, target |-> target]

MCDeclaredTypes ==
    {Declared(Integer, Array("integer", << >>)),
     Declared(Real, Array("real", << >>)),
     Declared(Boolean, Array("boolean", << >>)),
     Declared(Id("integer", 1), Array("integer", <<UnknownSize>>)),
     Declared(Id("integer", 1), Array("integer", <<2>>)),
     Declared(Id("real", 1), Array("real", <<0>>)),
     Declared(Id("real", 1), Array("real", <<2>>)),
     Declared(Id("real", 2), Array("real", <<UnknownSize, 2>>)),
     Declared(Id("integer", 2), Array("integer", <<2, 2>>)),
     Declared(String, StringOf(UnknownSize)),
     Declared(IntegerInterval, Interval(UnknownSize)),
     Declared(TupleId(<<Integer, Real>>),
              TupleValue(<<Array("integer", << >>), Array("real", << >>)>>)),
     Declared(TupleId(<<IntegerInterval, Id("integer", 1)>>),
              TupleValue(<<Interval(UnknownSize), Array("integer", <<UnknownSize>>)>>))}
=============================================================================
