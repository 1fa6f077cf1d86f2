----------------------------- MODULE Identities -----------------------------
(***************************************************************************)
(* The symbol identities of the compiler project (idFor and symbolFor of    *)
(* project.go).  A symbol other modules can import is named by its path and *)
(* name, another one by the span of its declaration, one without either by  *)
(* a counter of the generation.  The facts a file retains across updates    *)
(* hold identities, never symbols, and the maps between the two are dropped *)
(* with the checker after every analysis and with every update.             *)
(*                                                                          *)
(* A symbol is [path, name, copy]; copies other than 0 are the checker's    *)
(* own symbols for the same declaration.  A reference is the declaration's  *)
(* place, [path, at, name].  Every file is an external module without       *)
(* augmentations.                                                           *)
(***************************************************************************)
EXTENDS ProgramModel, Sequences, SequencesExt

CONSTANTS
  Where,    \* Where[p][t]: name -> place of its declaration in p under text t
  Owner,    \* Owner[n]: the top-level name n is a member of, or n
  Exports,  \* Exports[p][t]: the <<path, name>> p exports, its own and others'
  Uses,     \* Uses[p][t]: the symbols p's identifiers stand for, in order
  InitialSources, \* the sources the project is opened on
  Edits,    \* the changes of an update: functions from paths to texts
  MaxUpdates      \* bound

VARIABLES
  src,        \* the texts of the accepted program
  generation, \* project.generation
  exported,   \* exportedIdentitiesByRef: its keys; a key gives the identity.  The
              \* map from symbols (exportedIdentities) holds nothing beyond it
  book,       \* [ids, byId, durable, minted]: idsBySymbol, symbolsByID,
              \* durableRefs and nextSymbol
  held        \* path -> symbol -> identity: retained per-file facts

ASSUME IdentityAssumption ==
  /\ "" \notin Paths
  /\ InitialSources \in Sources
  /\ MaxUpdates \in Nat
  /\ \A edit \in Edits : edit \in Partial(Texts) /\ IsFiniteSet(DOMAIN edit)
  /\ \A p \in Paths : \A t \in Texts :
       /\ Uses[p][t] \in Seq([path : Paths, name : DOMAIN Owner, copy : Nat])
       /\ \A e \in Exports[p][t] :
            /\ e = <<e[1], e[2]>> /\ e[1] \in Paths
            /\ e[1] = p => e[2] \in DOMAIN Where[p][t]

vars == <<src, generation, exported, book, held>>

NoMap == [x \in {} |-> 0]

Put(f, x, y) == [z \in DOMAIN f \cup {x} |-> IF z = x THEN y ELSE f[z]]

-----------------------------------------------------------------------------
(* What the checker knows of the sources.                                  *)

Declared(s, sources) ==
  s.path \in Members(sources) /\ s.name \in DOMAIN Where[s.path][sources[s.path]]

\* durableRefFor.
RefFor(s, sources) ==
  [path |-> s.path, at |-> Where[s.path][sources[s.path]][s.name], name |-> s.name]

\* durableSymbolRef.id and exportedID, digests of these parts.
SpanId(ref) == <<"span", ref.path, ref.at, ref.name>>
ExportedId(ref) == <<"export", ref.path, ref.name>>
CounterId(n) == <<"counter", generation, n>>

DurableId(id) == id[1] # "counter"

\* exportedDurableSymbols: none when one of them does not resolve.
Exportable(p, sources) ==
  \A e \in Exports[p][sources[p]] : e[1] = p \/ e \in Exports[e[1]][sources[e[1]]]

ExportedSymbols(p, sources) ==
  {[path |-> e[1], name |-> e[2], copy |-> 0] : e \in Exports[p][sources[p]]}

ExportRefs(p, sources) == {RefFor(s, sources) : s \in ExportedSymbols(p, sources)}

\* collectExportedIdentities and indexExportedIdentitiesByRef.
CollectExported(sources) ==
  UNION {ExportRefs(p, sources) : p \in {q \in Members(sources) : Exportable(q, sources)}}

\* The checker's symbol for what does not resolve, which has no declaration.
Unknown == [path |-> "", name |-> "unknown", copy |-> 0]

Resolves(p, s, sources) ==
  \/ s.path = p
  \/ /\ s.path \in Edges(p, sources)
     /\ <<s.path, Owner[s.name]>> \in Exports[s.path][sources[s.path]]

\* canonicalSymbol of the identifiers of p.
SymbolsIn(p, sources) ==
  LET uses == Uses[p][sources[p]]
  IN  [i \in DOMAIN uses |-> IF Resolves(p, uses[i], sources) THEN uses[i] ELSE Unknown]

-----------------------------------------------------------------------------
(* idFor and symbolFor.                                                    *)

Bind(b, s, id) == [b EXCEPT !.ids = Put(@, s, id), !.byId = Put(@, id, s)]

BindDurable(b, s, id, ref) == [Bind(b, s, id) EXCEPT !.durable = Put(@, id, ref)]

\* An identity another symbol has taken in this generation is not given twice.
Free(b, id, s) == id \in DOMAIN b.byId => b.byId[id] = s

\* Mutant: an identity is given again to another symbol of the same declaration.
IdForTaken(b, s) ==
  IF s \in DOMAIN b.ids THEN b
  ELSE IF Declared(s, src) /\ RefFor(s, src) \in exported
  THEN BindDurable(b, s, ExportedId(RefFor(s, src)), RefFor(s, src))
  ELSE IF Declared(s, src)
  THEN BindDurable(b, s, SpanId(RefFor(s, src)), RefFor(s, src))
  ELSE Bind([b EXCEPT !.minted = @ + 1], s, CounterId(b.minted + 1))

IdFor(b, s) ==
  LET ref == RefFor(s, src)
  IN  IF s \in DOMAIN b.ids THEN b
      ELSE IF Declared(s, src) /\ ref \in exported /\ Free(b, ExportedId(ref), s)
      THEN BindDurable(b, s, ExportedId(ref), ref)
      ELSE IF Declared(s, src) /\ Free(b, SpanId(ref), s)
      THEN BindDurable(b, s, SpanId(ref), ref)
      ELSE Bind([b EXCEPT !.minted = @ + 1], s, CounterId(b.minted + 1))

\* The symbols whose declaration is at the place of ref and is still ref.
DeclaredAt(ref) ==
  {s \in [path : {ref.path}, name : {ref.name}, copy : {0}] :
     Declared(s, src) /\ RefFor(s, src) = ref}

\* symbolFor: at most one symbol.  A symbol that has another identity in this
\* generation is not found.
SymbolFor(b, id) ==
  IF id \in DOMAIN b.byId THEN {b.byId[id]}
  ELSE IF id \notin DOMAIN b.durable THEN {}
  ELSE {s \in DeclaredAt(b.durable[id]) : s \in DOMAIN b.ids => b.ids[s] = id}

-----------------------------------------------------------------------------
(* Actions.                                                                *)

Init ==
  /\ src = InitialSources
  /\ generation = 1
  /\ exported = CollectExported(InitialSources)
  /\ book = [ids |-> NoMap, byId |-> NoMap, durable |-> NoMap, minted |-> 0]
  /\ held = Empty

\* A file without retained facts is scanned.  Facts with an identity of this
\* generation only are not retained.
Scan(p) ==
  LET uses  == SymbolsIn(p, src)
      after == FoldLeft(IdFor, book, uses)
      facts == [s \in ToSet(uses) |-> after.ids[s]]
  IN  /\ p \in Members(src) \ DOMAIN held
      /\ book' = after
      /\ held' = IF \A s \in DOMAIN facts : DurableId(facts[s])
                 THEN Put(held, p, facts) ELSE held
      /\ UNCHANGED <<src, generation, exported>>

\* A query about an identity retained facts hold.
Query(id) ==
  /\ id \notin DOMAIN book.byId
  /\ book' = IF SymbolFor(book, id) = {} THEN book
             ELSE Bind(book, CHOOSE s \in SymbolFor(book, id) : TRUE, id)
  /\ UNCHANGED <<src, generation, exported, held>>

\* ReleaseAnalysisState.
Release ==
  /\ book' = [book EXCEPT !.ids = NoMap, !.byId = NoMap, !.minted = 0]
  /\ UNCHANGED <<src, generation, exported, held>>

\* preserveExportIdentities: the same declarations, imports and exports.
Preserved(p, new) ==
  /\ Shape[p][src[p]] = Shape[p][new[p]]
  /\ Edges(p, src) = Edges(p, new)
  /\ Exports[p][src[p]] = Exports[p][new[p]]

\* Mutant: what the edited file exported before stays.
ExportedWithOld(p, new) == exported \cup ExportRefs(p, new)

ExportedAfter(p, new) == {ref \in exported : ref.path # p} \cup ExportRefs(p, new)

\* Mutant: an identity that is known keeps the place it was first seen at.
DurableFirst(refs) ==
  [id \in DOMAIN book.durable \cup DOMAIN refs |->
     IF id \in DOMAIN book.durable THEN book.durable[id] ELSE refs[id]]

DurableAfter(refs) ==
  [id \in DOMAIN book.durable \cup DOMAIN refs |->
     IF id \in DOMAIN refs THEN refs[id] ELSE book.durable[id]]

\* Update with the exports of the one edited file known: from its checker when
\* nobody imports it, from its declaration emit otherwise.
Incremental(p, new) ==
  LET leaf     == Importers(p, src) = {}
      cutoff   == leaf \/ Preserved(p, new)
      affected == IF cutoff THEN {p} ELSE AffectedFromReverseDeps({p}, src, new)
      current  == ExportedSymbols(p, new)
      identity == [s \in current |-> ExportedId(RefFor(s, new))]
      preset   == [id \in {identity[s] : s \in current} |->
                     CHOOSE s \in current : identity[s] = id]
  IN  /\ p \in Members(new) /\ Exportable(p, new)
      /\ leaf \/ (p \in Members(src) /\ Exportable(p, src))
      /\ exported' = ExportedAfter(p, new)
      /\ book' = [ids |-> identity, byId |-> preset, minted |-> 0,
                  durable |-> DurableAfter([id \in DOMAIN preset |->
                                              RefFor(preset[id], new)])]
      /\ held' = Restrict2(held, Members(new) \ affected)

\* The exports are not known: the declaration emit of an imported file failed or
\* reported diagnostics, or an export does not resolve.
IncrementalUnknown(p, new) ==
  /\ \/ Importers(p, src) # {}
     \/ p \notin Members(new)
     \/ ~Exportable(p, new)
  /\ exported' = CollectExported(new)
  /\ book' = [book EXCEPT !.ids = NoMap, !.byId = NoMap, !.minted = 0]
  /\ held' = Restrict2(held,
               Members(new) \ AffectedFromReverseDeps({p}, src, new))

\* Several files: the program is built again, and sweepDurableIdentities drops
\* what files outside it declared.
Rebuild(new) ==
  LET gone == {id \in DOMAIN book.durable : book.durable[id].path \notin Members(new)}
  IN  /\ exported' = CollectExported(new)
      /\ book' = [ids |-> NoMap, byId |-> NoMap, minted |-> 0,
                  durable |-> [id \in DOMAIN book.durable \ gone |-> book.durable[id]]]
      /\ held' = Empty

Update(edit) ==
  LET new == Overwrite(src, edit)
  IN  /\ generation <= MaxUpdates
      /\ src' = new /\ generation' = generation + 1
      /\ IF Cardinality(DOMAIN edit) = 1
         THEN \E p \in DOMAIN edit : Incremental(p, new) \/ IncrementalUnknown(p, new)
         ELSE Rebuild(new)

HeldIds == UNION {{held[p][s] : s \in DOMAIN held[p]} : p \in DOMAIN held}

Next ==
  \/ \E p \in Paths : Scan(p)
  \/ \E id \in HeldIds : Query(id)
  \/ Release
  \/ \E edit \in Edits : Update(edit)

Spec == Init /\ [][Next]_vars

-----------------------------------------------------------------------------
(* Properties.                                                             *)

\* What a process started on these sources would call s.
FreshId(s) ==
  IF RefFor(s, src) \in CollectExported(src) THEN ExportedId(RefFor(s, src))
                                             ELSE SpanId(RefFor(s, src))

\* The identities in retained facts are those of a restart on the same sources,
\* whatever sequence of updates, analyses and releases led here: facts of
\* different age agree on what they call a symbol.
RestartStable ==
  \A p \in DOMAIN held : \A s \in DOMAIN held[p] : held[p][s] = FreshId(s)

\* A retained identity still leads to the declaration it was given for: the
\* facts of a file outside the affected set stay usable after the update.
HeldIdsResolve ==
  \A p \in DOMAIN held : \A s \in DOMAIN held[p] :
    \E found \in SymbolFor(book, held[p][s]) :
      found.path = s.path /\ found.name = s.name

\* Within a generation no two symbols share an identity, and an identity leads
\* back to its symbol.
OneSymbolPerId ==
  /\ \A s \in DOMAIN book.ids : book.byId[book.ids[s]] = s
  /\ \A id \in DOMAIN book.byId : book.ids[book.byId[id]] = id

=============================================================================
