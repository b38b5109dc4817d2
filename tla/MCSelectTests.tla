---------------------------- MODULE MCSelectTests ----------------------------
EXTENDS SelectTests

\* A test, its marker under either reading of spec section 4.5, a
\* directory named like the marker's prefix, a pruned name and a second
\* test: every way the walk can keep or drop a name.
MCNames == {<<"a">>, <<"a", ".sk">>, <<"a", ".no_typecheck">>,
            <<"a", ".sk", ".no_typecheck">>, <<"disabled">>, <<"b", ".sk">>}

\* test_path as a directory or as a single file argument.
MCRoots == {<<"t">>, <<"t", ".sk">>}

MCPruned == {<<"disabled">>}
=============================================================================
