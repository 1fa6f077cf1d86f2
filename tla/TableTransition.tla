--------------------------- MODULE TableTransition ---------------------------
(***************************************************************************)
(* One fact table kept on both sides of the process boundary.  Each        *)
(* analysis turns the producer's table into another; the producer plans a  *)
(* transition against the table it last published, the client decodes it,  *)
(* checks it and applies it to the table it retains, or loses it, drops    *)
(* what it retains and asks for everything again.  The state token that    *)
(* keeps a delta from meeting another base is the subject of               *)
(* TypeFactsSession; here a client with a table has the producer's token.  *)
(***************************************************************************)
EXTENDS RetainedTable

CONSTANTS
  PathRows,        \* the rows a path may have, NoRows among them
  SymbolFacts,     \* the facts a symbol may have
  MaxGeneration    \* bound on source generations

ASSUME TableAssumption ==
  /\ IsFiniteSet(Paths) /\ IsFiniteSet(SymbolIDs)
  /\ NoRows \in PathRows
  /\ \A r \in PathRows :
       /\ r = [source |-> r.source, entities |-> r.entities, file |-> r.file]
       /\ r.entities \in Seq(Range(r.entities))
  /\ \A f \in SymbolFacts :
       /\ f = [alias |-> f.alias, decl |-> f.decl, refs |-> f.refs]
       /\ f.refs \in Seq([path : Nat, at : Nat]) /\ CanonicalLocations(f.refs)
       /\ f.alias # 0 => f.refs = <<>>
  /\ MaxGeneration \in Nat \ {0}

VARIABLES
  base,     \* s.retained.table of the producer, as a sequence of at most one
  wire,     \* the response in flight, as a sequence of at most one
  client    \* the client's retained table, as a sequence of at most one

vars == <<base, wire, client>>

Init == base = <<>> /\ wire = <<>> /\ client = <<>>

\* A client without a table has no state token: its request says reset_state.
ResetState == client = <<>>

-----------------------------------------------------------------------------
(* The producer.                                                           *)

EmptyTable == [gen |-> 1, id |-> 0, paths |-> [p \in Paths |-> NoRows],
               symbols |-> [i \in {} |-> 0], manifest |-> <<>>]

Published == IF base = <<>> THEN EmptyTable ELSE base[1]

WithRows(table, p, r) == [table EXCEPT !.paths[p] = r]

WithSymbol(table, id, f) ==
  [table EXCEPT !.symbols = [i \in DOMAIN @ \cup {id} |-> IF i = id THEN f ELSE @[i]]]

WithoutSymbol(table, id) == [table EXCEPT !.symbols = [i \in DOMAIN @ \ {id} |-> @[i]]]

\* An analysis changes the rows of one path and may drop those of another, or
\* changes one symbol.
Edits(table) ==
  {WithRows(table, p, r) : p \in Paths, r \in PathRows}
  \cup {WithRows(WithRows(table, q, NoRows), p, r) : p \in Paths, q \in Paths, r \in PathRows}
  \cup {WithSymbol(table, id, f) : id \in SymbolIDs, f \in SymbolFacts}
  \cup {WithoutSymbol(table, id) : id \in SymbolIDs}

ChangedPaths(old, new) == {p \in Paths : old.paths[p] # new.paths[p]}

ChangedSymbols(old, new) ==
  {id \in DOMAIN old.symbols \cup DOMAIN new.symbols :
     \/ id \notin DOMAIN old.symbols \/ id \notin DOMAIN new.symbols
     \/ old.symbols[id] # new.symbols[id]}

\* A manifest names every row that changed, and may name others.
TransportManifest(old, paths, symbols) ==
  [baseGeneration |-> old.gen, baseStateID |-> old.id,
   sourcePaths |-> paths, entityPaths |-> paths, filePaths |-> paths,
   symbolIDs |-> symbols]

Manifests(old, new) ==
  {<<>>,
   <<TransportManifest(old, ChangedPaths(old, new), ChangedSymbols(old, new))>>,
   <<TransportManifest(old, Paths, SymbolIDs)>>}

\* The transition of a response: a full table for a client without state and
\* when a sparse delta has no manifest to go by.
Encode(retained, target, sparse) ==
  IF retained = <<>> \/ SparseUnavailable(retained, target, sparse)
  THEN FullFrame(target)
  ELSE DeltaFrame(retained[1], target, sparse)

\* The producer answers an analysis and retains the table it published.
Analyze ==
  /\ wire = <<>>
  /\ \E table \in Edits(Published), gen \in {Published.gen, Published.gen + 1},
        sparse \in BOOLEAN :
       \E manifest \in Manifests(Published, table) :
         LET target == [table EXCEPT !.gen = gen, !.id = 1, !.manifest = manifest]
             frame  == Encode(IF ResetState THEN <<>> ELSE base, target, sparse)
         IN  /\ gen <= MaxGeneration
             /\ base' = <<[target EXCEPT !.manifest = <<>>]>>
             /\ wire' = <<IF IsReuse(frame) THEN [mode |-> "reuse"] ELSE frame>>
  /\ UNCHANGED client

-----------------------------------------------------------------------------
(* The client.                                                             *)

\* Mutant: a row that is sent again counts as moved.
MovesWhenSent(mode, slot, held, absent) == slot.op # "unchanged"

\* Does the slot of a path operation change the row held there?
Moves(mode, slot, held, absent) ==
  /\ slot.op # "unchanged"
  /\ \/ mode = "full"
     \/ slot.op = "replace" /\ held # slot.row
     \/ slot.op = "remove" /\ held # absent

\* table_changes for a full table, table_changes_against for a delta.
TableChanges(table, frame) ==
  LET ops == Range(frame.paths)
  IN  [entityPaths |-> {op.path : op \in {o \in ops :
                          Moves(frame.mode, o.entities, RowsAt(table, o.path).entities, <<>>)}},
       filePaths   |-> {op.path : op \in {o \in ops :
                          Moves(frame.mode, o.file, RowsAt(table, o.path).file, 0)}}]

\* prepare_analyze_response refuses the response.
Refused(frame) ==
  IF frame.mode = "reuse" THEN client = <<>> \/ client[1].gen # base[1].gen
  ELSE \/ ~Decodes(frame)
       \/ /\ frame.mode = "delta"
          /\ \/ client = <<>>
             \/ client[1].gen # frame.baseGeneration
             \/ ~ValidateDelta(client[1], frame)

Accept ==
  /\ wire # <<>> /\ ~Refused(wire[1])
  /\ LET frame == wire[1]
     IN  client' = CASE frame.mode = "reuse" -> client
                     [] frame.mode = "full"  -> <<MaterializeFull(frame)>>
                     [] frame.mode = "delta" -> <<ApplyDelta(client[1], frame)>>
  /\ wire' = <<>>
  /\ UNCHANGED base

\* The response is lost, or a later exchange of the same analysis fails: the
\* client's token no longer names the producer's state, the next analysis is
\* refused as a state mismatch, and the client clears what it retains.
Discard ==
  /\ wire # <<>>
  /\ wire' = <<>>
  /\ client' = <<>>
  /\ UNCHANGED base

Next == Analyze \/ Accept \/ Discard

Spec == Init /\ [][Next]_vars

-----------------------------------------------------------------------------
(* Properties.                                                             *)

\* The client's table is the table the producer published, row by row, after
\* any sequence of full, sparse, exact and fallback transitions: what the
\* planners leave out is what the client already has.
ClientHoldsTarget ==
  wire = <<>> /\ client # <<>> =>
    /\ client[1].gen = base[1].gen
    /\ \A p \in Paths : RowsAt(client[1], p) = base[1].paths[p]
    /\ SymbolsOf(client[1]) = base[1].symbols

\* The client never refuses a response the producer planned: operations are
\* strictly ordered, none is empty, and reference operations find a symbol of
\* their own after the operations before them.
ResponsesAccepted == wire # <<>> => ~Refused(wire[1])

\* Both ways of applying a delta keep the packed indexes in a shape that
\* lookups can rely on, and the counts kept beside the paths exact.
IndexesCanonical ==
  client # <<>> =>
    /\ Canonical(client[1].paths) /\ Canonical(client[1].symbols)
    /\ client[1].counts = Recounted(client[1].paths)
    /\ LET symbols == Rows(client[1].symbols)
       IN  \A i \in DOMAIN symbols :
             /\ Canonical(symbols[i].val.references)
             /\ symbols[i].val.referenceCount = Len(ToFact(symbols[i].val).refs)

\* The paths whose entities, or whose file row, a reader finds changed.
MovedEntities(before, after) ==
  {p \in Paths : RowsAt(before, p).entities # RowsAt(after, p).entities}

MovedFiles(before, after) ==
  {p \in Paths : RowsAt(before, p).file # RowsAt(after, p).file}

\* What a delta reports as changed is exactly what a reader of the table
\* before and after it finds changed, although a sparse delta resends rows.
ChangesExact ==
  [][ wire # <<>> /\ wire' = <<>> /\ client' # <<>> /\ wire[1].mode = "delta" =>
        LET changes == TableChanges(client[1], wire[1])
        IN  /\ changes.entityPaths = MovedEntities(client[1], client'[1])
            /\ changes.filePaths   = MovedFiles(client[1], client'[1]) ]_vars

=============================================================================
