------------------------------ MODULE MCTable ------------------------------
(* Three paths and two symbols, leaves of one row that split at the third, *)
(* and a linear rebuild from two operations on.                            *)
EXTENDS TableTransition

MCPathRows ==
  { NoRows,
    [source |-> 1, entities |-> <<1>>, file |-> 1],
    [source |-> 2, entities |-> <<1, 2>>, file |-> 0] }

At(p) == [path |-> p, at |-> 1]

MCSymbolFacts ==
  { [alias |-> 2, decl |-> 1, refs |-> <<>>],
    [alias |-> 0, decl |-> 1, refs |-> <<At(1), At(2)>>],
    [alias |-> 0, decl |-> 1, refs |-> <<At(2), At(2), At(3)>>] }

=============================================================================
