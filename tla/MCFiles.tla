------------------------------ MODULE MCFiles -------------------------------
EXTENDS Files, TLC

CONSTANTS p1, p2, f1

Paths == {<<"/", "a">>, <<"a">>, <<"a", "b">>, <<"..">>, <<"b">>}
=============================================================================
