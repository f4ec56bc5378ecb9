--------------------------- MODULE MCFactorModels ---------------------------
EXTENDS FactorModels
MCListings == {<<>>, <<"a", "b">>}
MCFrames == {[columns |-> <<"b">>, rows |-> 5], [columns |-> <<"b", "a">>, rows |-> 4]}
MCWindows == {[train |-> 2, test |-> 1, step |-> 1], [train |-> 2, test |-> 2, step |-> 0],
              [train |-> 1, test |-> 1, step |-> 1]}
=============================================================================
