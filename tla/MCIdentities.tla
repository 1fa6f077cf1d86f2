----------------------------- MODULE MCIdentities -----------------------------
(* Two modules: b imports a and re-exports one of its names, w.  a has      *)
(* another exported name x, a member m of it and a local one l; its texts    *)
(* move them, change its shape, or take the export of x back.               *)
EXTENDS Identities

MCPaths == {"a", "b"}
MCTexts == {"t", "moved", "shaped", "closed"}

OfA(name) == [path |-> "a", name |-> name, copy |-> 0]
OfB(name) == [path |-> "b", name |-> name, copy |-> 0]
NoAsyncTargets == [p \in MCPaths |-> << >>]

MCImports == [p \in MCPaths |-> [t \in MCTexts |-> IF p = "b" THEN {"a"} ELSE {}]]

MCShape ==
  [ a |-> [t |-> "s", moved |-> "s", shaped |-> "s2", closed |-> "s3"],
    b |-> [t \in MCTexts |-> "s"] ]

MCWhere ==
  [ a |-> [ t      |-> [x |-> 1, m |-> 2, l |-> 3, w |-> 4],
            moved  |-> [x |-> 2, m |-> 3, l |-> 1, w |-> 4],
            shaped |-> [x |-> 1, m |-> 3, l |-> 2, w |-> 5],
            closed |-> [x |-> 1, y |-> 2, w |-> 4] ],
    b |-> [t \in MCTexts |-> [z |-> 1]] ]

MCOwner == [x |-> "x", m |-> "x", l |-> "l", w |-> "w", y |-> "y", z |-> "z"]

MCExports ==
  [ a |-> [t \in MCTexts |-> IF t = "closed" THEN {<<"a", "y">>, <<"a", "w">>}
                                             ELSE {<<"a", "x">>, <<"a", "w">>}],
    b |-> [t |-> {<<"b", "z">>, <<"a", "w">>}, moved |-> {<<"b", "z">>},
           shaped |-> {<<"b", "z">>}, closed |-> {}] ]

CopyOfA(name) == [OfA(name) EXCEPT !.copy = 1]

UsesOfA ==
  [t |-> <<OfA("x"), OfA("l")>>, moved |-> <<CopyOfA("l")>>,
   shaped |-> <<OfA("x"), CopyOfA("l"), OfA("l")>>, closed |-> <<OfA("y"), OfA("x")>>]

\* b uses what a exports.
MCUses ==
  [ a |-> UsesOfA,
    b |-> [t |-> <<OfA("x"), OfB("z")>>, moved |-> <<OfA("x")>>,
           shaped |-> <<OfB("z")>>, closed |-> <<OfA("y")>>] ]

\* b also uses a member of what a exports.
MemberUses ==
  [MCUses EXCEPT !["b"] = [@ EXCEPT !["t"] = <<OfA("x"), OfA("m")>>]]

MCInitialSources == [p \in MCPaths |-> "t"]

MCEdits ==
  [{"a"} -> MCTexts] \cup [{"b"} -> MCTexts] \cup [MCPaths -> {"t", "moved"}]

=============================================================================
