---------------------------- MODULE MCDirections ----------------------------
EXTENDS Directions

CONSTANTS A, B, C, T, U

\* Three arithmetic types, as conversion.cc orders them: the cost of a
\* conversion is the distance, unsafe if it narrows.
Order == <<A, B, C>>
Chain == {[from |-> Order[i], to |-> Order[j],
           cost |-> IF i < j THEN Safe(j - i) ELSE <<i - j, 0, 0, 0, 0>>]
            : <<i, j>> \in {p \in (1 .. 3) \X (1 .. 3) : p[1] # p[2]}}

\* find_to() finds the conversions to the types above in the first order; in the
\* second one of them, and some of those that narrow.
Orders == {Order, <<B, C, A>>}

Declarations ==
  { Variable("x", 1, <<A>>), Variable("x", 2, <<B>>),
    Func("f", 3, <<A>>, <<B>>, {}), Func("f", 4, <<C>>, <<A>>, {}),
    Func("f", 5, <<T>>, <<T>>, {T}), Func("f", 6, <<A, B>>, <<C>>, {}),
    Func("g", 7, <<A, B>>, <<C>>, {}), Func("g", 8, <<T, C>>, <<B>>, {T}),
    Func("g", 9, <<C, B, A>>, <<B>>, {}), Func("g", 10, <<B, A>>, << >>, {}),
    Func("g", 11, <<T, U>>, <<A>>, {T, U}),
    Func("p", 12, << >>, <<A, B>>, {}), Func("p", 13, << >>, <<B>>, {}) }

a == Value(<<A>>)
x == Name("x")
p == Apply("p", << >>)
f(arg) == Apply("f", <<arg>>)
g(left, right) == Apply("g", <<left, right>>)

Expressions == { f(x), f(f(a)), f(p), f(g(a, x)), g(a, f(x)), g(x, x), g(p, a),
                 g(f(a), p), g(f(p), a), p }
TargetTypes == { <<B>>, <<C, B>>, << >> }

\* Pool and Exprs that refute MergedAreOneType: an overloaded variable given to
\* a function that returns its parameter's type.
Overloads == { Variable("x", 1, <<A>>), Variable("x", 2, <<B>>),
               Func("g", 3, <<T, A>>, <<T>>, {T}) }
OverloadedCall == { g(x, a) }
=============================================================================
