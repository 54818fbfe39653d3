---------------------------- MODULE MCPatchEngine ----------------------------
\* A symbol in one file, in scope, below or above a line that is repeated in a
\* file outside the scope: agents replace the symbol, with and without its hash,
\* and rewrite the repeated line everywhere.  What others make of a file has carriage
\* returns or has no symbol.
EXTENDS PatchEngine, TLC

CONSTANTS defLine, bodyLine, oldLine, newLine, inside, outside

Replace(expected) ==
    [operation |-> "replace_symbol", expected |-> expected, replacement |-> <<bodyLine>>]
Rewrite == [operation |-> "rewrite", pattern |-> oldLine, rewrite |-> newLine]

MCInitialTree == (inside :> Written(<<oldLine, defLine>>)) @@ (outside :> Written(<<oldLine>>))
MCEdits ==
    { <<[line |-> defLine, cr |-> TRUE], [line |-> oldLine, cr |-> TRUE]>>, Written(<<oldLine>>) }
MCRequests == {Replace(defLine), Replace(None), Rewrite}
Symmetry == Permutations(Callers)
=============================================================================
