------------------------------ MODULE DemandSet ------------------------------
(***************************************************************************)
(* What the retained demand store promises the session: a set of rows per  *)
(* path that an analysis edits as a whole, or not at all.                   *)
(***************************************************************************)
CONSTANT NoRequest

VARIABLES
  demanded,  \* path -> the rows demanded in it, and the async ones among them
  asked      \* the request of the analysis in progress, or NoRequest

vars == <<demanded, asked>>

Named(request) == {d.path : d \in request.demands}

RowsAt(request, p) ==
  LET rows == {d.at : d \in {e \in request.demands : e.path = p}}
  IN  [rows |-> rows, async |-> {row \in rows : "async" \in row.wants}]

\* A path the request demands gets exactly those rows, a removed one none;
\* the others keep theirs unless the request resets the set.
Edited(request) ==
  LET kept == IF request.reset THEN {} ELSE DOMAIN demanded
  IN  [p \in (kept \cup Named(request)) \ request.removed |->
         IF p \in Named(request) THEN RowsAt(request, p) ELSE demanded[p]]

Init == demanded = [p \in {} |-> {}] /\ asked = NoRequest

Ask == asked = NoRequest /\ asked' # NoRequest /\ UNCHANGED demanded

Publish == asked # NoRequest /\ demanded' = Edited(asked) /\ asked' = NoRequest

\* The analysis fails: nothing was demanded.
Withdraw == asked' = NoRequest /\ UNCHANGED demanded

Spec == Init /\ [][Ask \/ Publish \/ Withdraw]_vars

=============================================================================
