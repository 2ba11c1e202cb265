----------------------------- MODULE MCTypeMap ------------------------------
EXTENDS TypeMap

A == ConcType("a")
B == ConcType("b")
T == PolyType("T")
U == PolyType("U")

\* No type has a parameterised type among its parts.
Flat == {A, NamedType("list", <<A>>), TupleType(<<T, B>>), TupleType(<<U, B>>),
         TupleType(<<A, T, B>>), FuncType(<<A>>, TupleType(<<A, B>>))}
FlatOffered == (Flat \X {1}) \cup ({A, TupleType(<<T, B>>), TupleType(<<A, T, B>>)} \X {2})
FlatAsked == Flat \cup {TupleType(<< >>), B, T, FuncType(<<A>>, TupleType(<< >>)),
                        TupleType(<<A, A, B>>), TupleType(<<B, B>>), TupleType(<<A, B>>)}

Nested == {NamedType("list", <<A>>), NamedType("list", <<NamedType("list", <<A>>)>>)}
NestedOffered == Nested \X {1, 2}
=============================================================================
