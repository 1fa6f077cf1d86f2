---------------------------- MODULE RetainedTable ----------------------------
(***************************************************************************)
(* The client's fact table (FactTable of retained_table.rs): two packed    *)
(* indexes, path entries by path and symbols by id, the counts kept beside *)
(* them, and the application of a decoded transition to it.  A symbol's    *)
(* references are a packed index of runs by path.                          *)
(***************************************************************************)
EXTENDS PackedIndex, WireTransition

CONSTANT LINEAR_REBUILD_MIN_OPERATIONS   \* from here on a delta is merged in one pass (32)

ASSUME LinearAssumption == LINEAR_REBUILD_MIN_OPERATIONS \in Nat

-----------------------------------------------------------------------------
(* Stored symbols.                                                         *)

FromFact(fact) ==
  LET paths == Ascending(RefPaths(fact.refs))
  IN  [alias |-> fact.alias, decl |-> fact.decl,
       references |-> FromSorted([i \in DOMAIN paths |->
                                    Row(paths[i], RunOf(fact.refs, paths[i]))]),
       referenceCount |-> Len(fact.refs)]

\* Mutant: the run that is replaced stays counted.
ReplaceUncounted(symbol, p, run) ==
  [symbol EXCEPT
     !.references     = Updated(@, p, IF run = <<>> THEN <<>> ELSE <<Row(p, run)>>),
     !.referenceCount = @ + Len(run)]

\* The references of one path replaced by run, or dropped when it is empty.
ReplaceReferenceRun(symbol, p, run) ==
  LET old == Lookup(symbol.references, p)
  IN  [symbol EXCEPT
         !.references     = Updated(@, p, IF run = <<>> THEN <<>> ELSE <<Row(p, run)>>),
         !.referenceCount = @ - (IF old = <<>> THEN 0 ELSE Len(old[1].val)) + Len(run)]

ToFact(symbol) ==
  LET runs == Rows(symbol.references)
  IN  [alias |-> symbol.alias, decl |-> symbol.decl,
       refs  |-> FlattenSeq([i \in DOMAIN runs |-> runs[i].val])]

\* One operation on the optional symbol row of its id.
ApplyOneSymbol(symbol, op) ==
  CASE op.tag = 0 -> <<Row(op.id, FromFact(op.fact))>>
    [] op.tag = 1 -> <<>>
    [] op.tag = 2 -> <<Row(op.id, ReplaceReferenceRun(symbol[1].val, op.path, op.refs))>>

ApplySymbolOperationsSparse(symbols, ops) ==
  LET after[i \in 0..Len(ops)] ==
        IF i = 0 THEN symbols
        ELSE Updated(after[i - 1], ops[i].id,
                     ApplyOneSymbol(Lookup(after[i - 1], ops[i].id), ops[i]))
  IN  after[Len(ops)]

\* The operations of one id, one after the other.
ApplyOwn(ops, id, symbol) ==
  LET after[i \in 0..Len(ops)] ==
        IF i = 0 THEN symbol
        ELSE IF ops[i].id = id THEN ApplyOneSymbol(after[i - 1], ops[i])
             ELSE after[i - 1]
  IN  after[Len(ops)]

ApplySymbolOperationsLinear(symbols, ops) ==
  MergeLinear(symbols, Ascending({ops[i].id : i \in DOMAIN ops}),
              LAMBDA id, symbol : ApplyOwn(ops, id, symbol))

-----------------------------------------------------------------------------
(* Path entries.                                                           *)

ApplySlot(row, slot, absent) ==
  CASE slot.op = "unchanged" -> row
    [] slot.op = "replace"   -> slot.row
    [] slot.op = "remove"    -> absent

\* One operation on the optional entry of its path; an empty entry is dropped.
ApplyPath(entry, op) ==
  LET old == IF entry = <<>> THEN NoRows ELSE entry[1].val
      new == [source   |-> ApplySlot(old.source, op.source, 0),
              entities |-> ApplySlot(old.entities, op.entities, <<>>),
              file     |-> ApplySlot(old.file, op.file, 0)]
  IN  IF new = NoRows THEN <<>> ELSE <<Row(op.path, new)>>

\* What one optional entry adds to the counts.
SourceCount(entry) == IF entry # <<>> /\ entry[1].val.source # 0 THEN 1 ELSE 0
EntityCount(entry) == IF entry # <<>> THEN Len(entry[1].val.entities) ELSE 0
FileCount(entry)   == IF entry # <<>> /\ entry[1].val.file # 0 THEN 1 ELSE 0

\* The counts after the optional entry old has become new.
Counted(counts, old, new) ==
  [sources  |-> counts.sources - SourceCount(old) + SourceCount(new),
   entities |-> counts.entities - EntityCount(old) + EntityCount(new),
   files    |-> counts.files - FileCount(old) + FileCount(new)]

\* The counts of a whole index; an entity is a path and a place in its list.
Recounted(index) ==
  LET rows == Range(Rows(index))
  IN  [sources  |-> Cardinality({row \in rows : row.val.source # 0}),
       entities |-> Cardinality(UNION {{row.key} \X DOMAIN row.val.entities : row \in rows}),
       files    |-> Cardinality({row \in rows : row.val.file # 0})]

ApplyPathOperationsSparse(table, ops) ==
  LET after[i \in 0..Len(ops)] ==
        IF i = 0 THEN table
        ELSE LET old == Lookup(after[i - 1].paths, ops[i].path)
                 new == ApplyPath(old, ops[i])
             IN  [after[i - 1] EXCEPT !.paths  = Updated(@, ops[i].path, new),
                                      !.counts = Counted(@, old, new)]
  IN  after[Len(ops)]

ApplyPathOperationsLinear(table, ops) ==
  LET opOf(p) == ops[CHOOSE i \in DOMAIN ops : ops[i].path = p]
      merged  == MergeLinear(table.paths, [i \in DOMAIN ops |-> ops[i].path],
                             LAMBDA p, entry : ApplyPath(entry, opOf(p)))
  IN  [table EXCEPT !.paths = merged, !.counts = Recounted(merged)]

-----------------------------------------------------------------------------
(* Whole transitions.                                                      *)

MaterializeFull(frame) ==
  LET entries == FlattenSeq([i \in DOMAIN frame.paths |-> ApplyPath(<<>>, frame.paths[i])])
      index   == FromSorted(entries)
  IN  [gen     |-> frame.targetGeneration,
       paths   |-> index,
       symbols |-> FromSorted([i \in DOMAIN frame.symbols |->
                                 Row(frame.symbols[i].id, FromFact(frame.symbols[i].fact))]),
       counts  |-> Recounted(index)]

\* A reference operation must find its symbol, and not find an alias, after
\* the operations before it on the same id.
ValidateDelta(table, frame) ==
  \A i \in DOMAIN frame.symbols :
    frame.symbols[i].tag = 2 =>
      LET id     == frame.symbols[i].id
          before == {j \in 1..(i - 1) : frame.symbols[j].id = id /\ frame.symbols[j].tag # 2}
          found  == IF before # {} THEN ApplyOneSymbol(<<>>, frame.symbols[Max(before)])
                    ELSE Lookup(table.symbols, id)
      IN  found # <<>> /\ found[1].val.alias = 0

ApplyDelta(table, frame) ==
  LET moved == [table EXCEPT !.gen = frame.targetGeneration]
      paths == IF Len(frame.paths) >= LINEAR_REBUILD_MIN_OPERATIONS
               THEN ApplyPathOperationsLinear(moved, frame.paths)
               ELSE ApplyPathOperationsSparse(moved, frame.paths)
  IN  [paths EXCEPT
         !.symbols = IF Len(frame.symbols) >= LINEAR_REBUILD_MIN_OPERATIONS
                     THEN ApplySymbolOperationsLinear(@, frame.symbols)
                     ELSE ApplySymbolOperationsSparse(@, frame.symbols)]

-----------------------------------------------------------------------------
(* Queries.                                                                *)

RowsAt(table, p) ==
  LET entry == Lookup(table.paths, p) IN IF entry = <<>> THEN NoRows ELSE entry[1].val

SymbolsOf(table) ==
  [id \in {i \in SymbolIDs : Lookup(table.symbols, i) # <<>>} |->
     ToFact(Lookup(table.symbols, id)[1].val)]

=============================================================================
