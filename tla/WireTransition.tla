--------------------------- MODULE WireTransition ---------------------------
(***************************************************************************)
(* How the producer plans one table transition (wire_transition.go and     *)
(* wire_transition_diff.go) and what the client's decoder demands of it    *)
(* (decode_table_transition of v3.rs).                                     *)
(*                                                                         *)
(* A fact table is [gen, id, paths, symbols, manifest].  paths gives every *)
(* path its rows [source, entities, file], with 0 and <<>> for an absent   *)
(* row; symbols is a partial function from ids to [alias, decl, refs].     *)
(* Paths and ids are naturals, standing for strings in their order; refs   *)
(* is the canonical sequence of locations [path, at].  The three sorted    *)
(* streams a table keeps its path rows in, and the cursors that merge      *)
(* them, become the ascending sequence of the paths that have a row.       *)
(***************************************************************************)
EXTENDS Naturals, Sequences, FiniteSets, SequencesExt

CONSTANTS
  Paths,       \* the paths a table may name
  SymbolIDs    \* the symbols a table may name

ASSUME KeysAssumption == Paths \subseteq Nat /\ SymbolIDs \subseteq Nat \ {0}

NoRows == [source |-> 0, entities |-> <<>>, file |-> 0]

\* A finite set of numbers as an ascending sequence.
Ascending(S) ==
  CHOOSE s \in [1..Cardinality(S) -> S] :
    \A i, j \in 1..Cardinality(S) : i < j => s[i] < s[j]

\* A table's paths in the order of its cursor.
TablePaths(table) == {p \in Paths : table.paths[p] # NoRows}

-----------------------------------------------------------------------------
(* Slot operations of one path.                                            *)

SlotUnchanged  == [op |-> "unchanged"]
SlotRemove     == [op |-> "remove"]
SlotReplace(r) == [op |-> "replace", row |-> r]

\* What the difference of one slot is sent as; absent is its missing row.
SlotDifference(old, new, absent, candidate) ==
  IF ~candidate \/ old = new THEN SlotUnchanged
  ELSE IF new = absent THEN SlotRemove ELSE SlotReplace(new)

PathRowsDifference(p, old, new, source, entity, file) ==
  [path     |-> p,
   source   |-> SlotDifference(old.source, new.source, 0, source),
   entities |-> SlotDifference(old.entities, new.entities, <<>>, entity),
   file     |-> SlotDifference(old.file, new.file, 0, file)]

IsChange(op) == op.source # SlotUnchanged \/ op.entities # SlotUnchanged \/ op.file # SlotUnchanged

\* The operations Op(p) of the paths in S that change something, in order.
PathPlan(S, Op(_)) ==
  LET changed == Ascending({p \in S : IsChange(Op(p))})
  IN  [i \in DOMAIN changed |-> Op(changed[i])]

PlanFull(target) ==
  PathPlan(TablePaths(target),
           LAMBDA p : PathRowsDifference(p, NoRows, target.paths[p], TRUE, TRUE, TRUE))

ManifestPaths(m) == m.sourcePaths \cup m.entityPaths \cup m.filePaths

PlanExactPathDelta(base, target, m) ==
  PathPlan(ManifestPaths(m),
           LAMBDA p : PathRowsDifference(p, base.paths[p], target.paths[p],
                        p \in m.sourcePaths, p \in m.entityPaths, p \in m.filePaths))

PlanFallbackPathDelta(base, target) ==
  PathPlan(TablePaths(base) \cup TablePaths(target),
           LAMBDA p : PathRowsDifference(p, base.paths[p], target.paths[p], TRUE, TRUE, TRUE))

\* Mutant: a row that is gone is taken for one that has not changed.
SilentWhenGone(new, absent, candidate) ==
  IF ~candidate \/ new = absent THEN SlotUnchanged ELSE SlotReplace(new)

\* A sparse delta replaces or removes every row the manifest names, whatever
\* the base held: the producer has released the base's rows.
Unconditional(new, absent, candidate) ==
  IF ~candidate THEN SlotUnchanged
  ELSE IF new = absent THEN SlotRemove ELSE SlotReplace(new)

PlanSparsePathDelta(target, m) ==
  LET named == Ascending(ManifestPaths(m))
      op(p) == [path     |-> p,
                source   |-> Unconditional(target.paths[p].source, 0, p \in m.sourcePaths),
                entities |-> Unconditional(target.paths[p].entities, <<>>, p \in m.entityPaths),
                file     |-> Unconditional(target.paths[p].file, 0, p \in m.filePaths)]
  IN  [i \in DOMAIN named |-> op(named[i])]

-----------------------------------------------------------------------------
(* Symbol operations.                                                      *)

ReplaceSymbol(id, fact)      == [id |-> id, tag |-> 0, fact |-> fact, path |-> 0]
RemoveSymbol(id)             == [id |-> id, tag |-> 1, path |-> 0]
ReplaceReferencePath(id, p, run) == [id |-> id, tag |-> 2, path |-> p, refs |-> run]

\* The references of one path, a contiguous run of the canonical sequence.
RunOf(refs, p) ==
  LET before == Cardinality({i \in DOMAIN refs : refs[i].path < p})
  IN  SubSeq(refs, before + 1, before + Cardinality({i \in DOMAIN refs : refs[i].path = p}))

RefPaths(refs) == {refs[i].path : i \in DOMAIN refs}

\* Mutant: only the paths that still have references are walked.
PlanSurvivingPaths(id, old, new) ==
  LET moved == Ascending({p \in RefPaths(new) : RunOf(old, p) # RunOf(new, p)})
  IN  [i \in DOMAIN moved |-> ReplaceReferencePath(id, moved[i], RunOf(new, moved[i]))]

\* The paths whose run of references differs, in order.
PlanExactReferenceDelta(id, old, new) ==
  LET moved == Ascending({p \in RefPaths(old) \cup RefPaths(new) : RunOf(old, p) # RunOf(new, p)})
  IN  [i \in DOMAIN moved |-> ReplaceReferencePath(id, moved[i], RunOf(new, moved[i]))]

ExactSymbolOps(id, old, new) ==
  CASE id \in DOMAIN old /\ id \notin DOMAIN new -> <<RemoveSymbol(id)>>
    [] id \in DOMAIN new /\ id \notin DOMAIN old -> <<ReplaceSymbol(id, new[id])>>
    [] id \notin DOMAIN old \cup DOMAIN new       -> <<>>
    [] /\ id \in DOMAIN old \cap DOMAIN new
       /\ old[id].alias # new[id].alias \/ old[id].decl # new[id].decl
                                                 -> <<ReplaceSymbol(id, new[id])>>
    [] OTHER -> PlanExactReferenceDelta(id, old[id].refs, new[id].refs)

PlanExactSymbolDelta(base, target, m) ==
  LET ids == Ascending(m.symbolIDs)
  IN  FlattenSeq([i \in DOMAIN ids |-> ExactSymbolOps(ids[i], base.symbols, target.symbols)])

PlanFallbackSymbolDelta(base, target) ==
  LET old == base.symbols
      new == target.symbols
      ids == Ascending({id \in DOMAIN old \cup DOMAIN new :
                          \/ id \notin DOMAIN old \/ id \notin DOMAIN new
                          \/ old[id] # new[id]})
  IN  [i \in DOMAIN ids |-> IF ids[i] \in DOMAIN new
                            THEN ReplaceSymbol(ids[i], new[ids[i]])
                            ELSE RemoveSymbol(ids[i])]

FullSymbolOps(target) ==
  LET ids == Ascending(DOMAIN target.symbols)
  IN  [i \in DOMAIN ids |-> ReplaceSymbol(ids[i], target.symbols[ids[i]])]

-----------------------------------------------------------------------------
(* Encoding.  base and manifest are sequences of at most one element.      *)

ManifestMatches(base, target) ==
  /\ target.manifest # <<>>
  /\ base.id # 0
  /\ target.manifest[1].baseGeneration = base.gen
  /\ target.manifest[1].baseStateID = base.id

SparseUnavailable(base, target, sparse) ==
  base # <<>> /\ sparse /\ target.manifest = <<>>

Frame(mode, baseGen, target, paths, symbols) ==
  [mode |-> mode, baseGeneration |-> baseGen, targetGeneration |-> target.gen,
   paths |-> paths, symbols |-> symbols]

FullFrame(target) == Frame("full", 0, target, PlanFull(target), FullSymbolOps(target))

DeltaFrame(base, target, sparse) ==
  LET manifest == target.manifest[1]
  IN  CASE sparse ->
             Frame("delta", base.gen, target, PlanSparsePathDelta(target, manifest),
                   PlanExactSymbolDelta(base, target, manifest))
        [] ~sparse /\ ManifestMatches(base, target) ->
             Frame("delta", base.gen, target, PlanExactPathDelta(base, target, manifest),
                   PlanExactSymbolDelta(base, target, manifest))
        [] OTHER ->
             Frame("delta", base.gen, target, PlanFallbackPathDelta(base, target),
                   PlanFallbackSymbolDelta(base, target))

\* Nothing to say within one generation: the response carries no frame.
IsReuse(frame) ==
  /\ frame.mode = "delta"
  /\ frame.baseGeneration = frame.targetGeneration
  /\ frame.paths = <<>> /\ frame.symbols = <<>>

-----------------------------------------------------------------------------
(* What decode_table_transition refuses.                                   *)

SymbolKeyBefore(a, b) ==
  \/ a.id < b.id
  \/ a.id = b.id /\ a.tag < b.tag
  \/ a.id = b.id /\ a.tag = b.tag /\ a.path < b.path

CanonicalLocations(refs) ==
  \A i \in 1..(Len(refs) - 1) :
    \/ refs[i].path < refs[i + 1].path
    \/ refs[i].path = refs[i + 1].path /\ refs[i].at <= refs[i + 1].at

DecodesPath(mode, op) ==
  /\ IsChange(op)
  /\ mode = "full" => SlotRemove \notin {op.source, op.entities, op.file}
  /\ op.entities.op = "replace" => op.entities.row # <<>>

DecodesSymbol(mode, op) ==
  /\ mode = "full" => op.tag = 0
  /\ op.tag = 0 => /\ CanonicalLocations(op.fact.refs)
                   /\ op.fact.alias # 0 => op.fact.refs = <<>>
  /\ op.tag = 2 => CanonicalLocations(op.refs) /\ RefPaths(op.refs) \subseteq {op.path}

Decodes(frame) ==
  /\ frame.targetGeneration # 0
  /\ frame.mode = "full" <=> frame.baseGeneration = 0
  /\ frame.targetGeneration >= frame.baseGeneration
  /\ \A i \in DOMAIN frame.paths : DecodesPath(frame.mode, frame.paths[i])
  /\ \A i \in 1..(Len(frame.paths) - 1) : frame.paths[i].path < frame.paths[i + 1].path
  /\ \A i \in DOMAIN frame.symbols : DecodesSymbol(frame.mode, frame.symbols[i])
  /\ \A i \in 1..(Len(frame.symbols) - 1) :
       SymbolKeyBefore(frame.symbols[i], frame.symbols[i + 1])

=============================================================================
