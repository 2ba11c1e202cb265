---------------------------- MODULE MCConversions ---------------------------
EXTENDS Conversions

\* Several pairs of types are the same distance apart.
Ids == {1, 2, 3, 5, 6}
=============================================================================
