--------------------------- MODULE IdentitiesProof ---------------------------
(***************************************************************************)
(* Proofs about Identities, for any files, texts, symbols and edits: within *)
(* a generation no two symbols share an identity; and, where every file is  *)
(* configured and importers use exported names only, the identities in      *)
(* retained facts are those of a restart and lead to their declarations.    *)
(***************************************************************************)
EXTENDS Identities, FiniteSetTheorems, WellFoundedInduction, TLAPS

-----------------------------------------------------------------------------
(* Induction over a scan.                                                  *)

\* The least element of a set of numbers, from the well-foundedness of <.
LEMMA LeastNumber ==
  ASSUME NEW T \in SUBSET Nat, T # {}
  PROVE  \E m \in T : \A k \in T : m <= k
<1> DEFINE R == OpToRel(<, Nat)
<1>1. IsWellFoundedOn(R, Nat)
  BY NatLessThanWellFounded
<1>2. \A a \in Nat, b \in Nat : (<<a, b>> \in R) <=> (a < b)
  BY DEF OpToRel
<1> HIDE DEF R
<1>3. PICK m \in T : \A y \in T : ~ (<<y, m>> \in R)
  BY <1>1, WFMin, Zenon
<1>4. \A y \in T : ~ (y < m)
  BY <1>2, <1>3, Zenon
<1>5. \A y \in T : m <= y
  BY <1>4
<1> QED
  BY <1>5

\* Induction: a set that holds zero and with each number the next one.
LEMMA SetInduction ==
  ASSUME NEW S, 0 \in S, \A n \in Nat : n \in S => n + 1 \in S
  PROVE  Nat \subseteq S
<1> SUFFICES ASSUME NEW T, T = Nat \ S, T # {} PROVE FALSE
  OBVIOUS
<1>1. PICK m \in T : \A k \in T : m <= k
  BY LeastNumber
<1> QED
  BY <1>1

\* The greatest element of a bounded set of numbers.
LEMMA GreatestNumber ==
  ASSUME NEW n \in Nat, NEW s \in SUBSET (1..n), s # {}
  PROVE  Max(s) \in s /\ \A y \in s : y <= Max(s)
<1> DEFINE T == {n - x : x \in s}
<1>1. \A x \in s : x \in Nat /\ n - x \in Nat
  OBVIOUS
<1>2. T \in SUBSET Nat /\ T # {}
  BY <1>1
<1>3. PICK m \in T : \A k \in T : m <= k
  BY <1>2, LeastNumber
<1>4. PICK x \in s : m = n - x
  BY <1>3
<1>5. ASSUME NEW y \in s PROVE x >= y
  <2>1. n - x <= n - y
    BY <1>3, <1>4
  <2> QED
    BY <1>1, <2>1
<1> QED
  BY <1>1, <1>5 DEF Max

\* The books a scan goes through.
Chain(g, b, uses) ==
  /\ g[0] = b
  /\ \A i \in 1..Len(uses) : g[i] = IdFor(g[i - 1], uses[i])

\* Folding idFor over the symbols of a file goes through such a chain.
LEMMA FoldChain ==
  ASSUME NEW b, NEW S, NEW uses \in Seq(S)
  PROVE  \E g : Chain(g, b, uses) /\ FoldLeft(IdFor, b, uses) = g[Len(uses)]
<1> DEFINE n == Len(uses)
           D == 1..n
           Eq(h, s) == IF s = {} THEN b ELSE IdFor(h[s \ {Max(s)}], uses[Max(s)])
           Right(h, k) == \A s \in SUBSET D : s \subseteq 1..k => h[s] = Eq(h, s)
<1>1. n \in Nat /\ DOMAIN uses = D
  OBVIOUS
<1> HIDE DEF n
<1>2. \E h : h = [s \in SUBSET D |-> Eq(h, s)]
  <2> DEFINE K == {k \in Nat : \E h : Right(h, k)}
  <2>1. 0 \in K
    <3> DEFINE h == [s \in SUBSET D |-> b]
    <3>1. Right(h, 0)
      OBVIOUS
    <3> HIDE DEF Right, h
    <3> QED
      BY <3>1
  <2>2. ASSUME NEW k \in Nat, k \in K PROVE k + 1 \in K
    <3>1. PICK h : Right(h, k)
      BY <2>2
    <3> DEFINE f == [s \in SUBSET D |-> Eq(h, s)]
    <3>2. \A s \in SUBSET D : s \subseteq 1..k => f[s] = h[s]
      BY <3>1
    <3>3. ASSUME NEW s \in SUBSET D, s \subseteq 1..(k + 1)
          PROVE  f[s] = Eq(f, s)
      <4>1. CASE s = {}
        BY <4>1
      <4>2. CASE s # {}
        <5>1. Max(s) \in s /\ \A y \in s : y <= Max(s)
          BY <1>1, <4>2, GreatestNumber
        <5>2. s \ {Max(s)} \in SUBSET D /\ s \ {Max(s)} \subseteq 1..k
          <6> DEFINE x == Max(s)
          <6>1. x \in 1..(k + 1) /\ \A y \in s : y \in 1..(k + 1) /\ y <= x
            BY <3>3, <5>1
          <6> HIDE DEF x
          <6>2. \A y \in s : y # x => y \in 1..k
            BY <6>1
          <6> QED
            BY <6>2 DEF x
        <5>3. f[s \ {Max(s)}] = h[s \ {Max(s)}]
          BY <3>2, <5>2
        <5>4. f[s] = IdFor(h[s \ {Max(s)}], uses[Max(s)])
          BY <4>2
        <5> HIDE DEF f
        <5> QED
          BY <4>2, <5>3, <5>4
      <4> QED
        BY <4>1, <4>2
    <3>4. Right(f, k + 1)
      BY <3>3
    <3> HIDE DEF Right, f
    <3> QED
      BY <3>4
  <2> HIDE DEF K
  <2>3. n \in K
    BY <1>1, <2>1, <2>2, SetInduction
  <2>4. PICK h : Right(h, n)
    BY <2>3 DEF K
  <2> DEFINE f == [s \in SUBSET D |-> h[s]]
  <2>5. ASSUME NEW s \in SUBSET D PROVE f[s] = Eq(f, s)
    <3>1. h[s] = Eq(h, s)
      BY <2>4
    <3>2. s \ {Max(s)} \in SUBSET D
      OBVIOUS
    <3> QED
      BY <3>1, <3>2
  <2>6. f = [s \in SUBSET D |-> Eq(f, s)]
    BY <2>5
  <2> QED
    BY <2>6
<1> DEFINE iter == CHOOSE h : h = [s \in SUBSET D |-> Eq(h, s)]
<1>3. iter = [s \in SUBSET D |-> Eq(iter, s)]
  BY <1>2
<1>4. FoldLeft(IdFor, b, uses) = iter[D]
  BY <1>1 DEF FoldLeft, MapThenFoldSet
<1> HIDE DEF iter
<1> DEFINE g == [i \in 0..n |-> iter[1..i]]
<1>5. g[0] = b
  BY <1>1, <1>3
<1>6. ASSUME NEW i \in 1..n PROVE g[i] = IdFor(g[i - 1], uses[i])
  <2>1. Max(1..i) = i
    <3>1. 1..i \in SUBSET (1..n) /\ i \in 1..i
      BY <1>1
    <3>2. Max(1..i) \in 1..i /\ \A y \in 1..i : y <= Max(1..i)
      BY <1>1, <3>1, GreatestNumber
    <3> DEFINE x == Max(1..i)
    <3> HIDE DEF x
    <3>3. x \in 1..i /\ i <= x
      BY <3>1, <3>2 DEF x
    <3>4. x = i
      BY <3>3
    <3> QED
      BY <3>4 DEF x
  <2>2. (1..i) \ {i} = 1..(i - 1) /\ 1..i \in SUBSET D /\ 1..i # {}
    BY <1>1
  <2>3. iter[1..i] = IdFor(iter[1..(i - 1)], uses[i])
    BY <1>3, <2>1, <2>2
  <2> QED
    BY <1>1, <2>3
<1>7. g[n] = iter[D]
  BY <1>1
<1> HIDE DEF g
<1> QED
  BY <1>4, <1>5, <1>6, <1>7 DEF Chain, n

-----------------------------------------------------------------------------
(* One symbol for each identity: the inductive invariant.                  *)

BookFields == {"ids", "byId", "durable", "minted"}

\* The two maps are each other's inverse, and the identities without a
\* declaration are those minted in this generation.
Paired(b) ==
  /\ DOMAIN b = BookFields /\ b.minted \in Nat
  /\ \A s \in DOMAIN b.ids : b.ids[s] \in DOMAIN b.byId /\ b.byId[b.ids[s]] = s
  /\ \A id \in DOMAIN b.byId : b.byId[id] \in DOMAIN b.ids /\ b.ids[b.byId[id]] = id
  /\ \A id \in DOMAIN b.byId :
       DurableId(id) \/ \E n \in 1..b.minted : id = CounterId(n)

PairedInvariant ==
  /\ src \in Sources
  /\ Paired(book)
  /\ \A id \in HeldIds : DurableId(id)

-----------------------------------------------------------------------------
(* Identities of a restart: the hypotheses and the inductive invariant.    *)

\* A file uses of what it imports the exported names, not members of them.
ImportersUseExports ==
  \A p \in Paths : \A t \in Texts : \A i \in DOMAIN Uses[p][t] :
    Uses[p][t][i].path # p => Owner[Uses[p][t][i].name] = Uses[p][t][i].name

\* The checker has one symbol for a declaration that some text exports.
OneSymbolPerExport ==
  \A p \in Paths : \A t \in Texts : \A i \in DOMAIN Uses[p][t] :
    Uses[p][t][i].copy # 0 =>
      \A q \in Paths : \A u \in Texts :
        <<Uses[p][t][i].path, Uses[p][t][i].name>> \notin Exports[q][u]

\* Every export of every file resolves.
ExportsResolve(sources) == \A p \in Paths : Exportable(p, sources)

IsExported(s, sources) == <<s.path, s.name>> \in Exports[s.path][sources[s.path]]

IsSymbol(s) == s = [path |-> s.path, name |-> s.name, copy |-> s.copy]

\* What a process started on these sources would call s.
RestartId(s, sources) ==
  IF IsExported(s, sources) THEN ExportedId(RefFor(s, sources)) ELSE SpanId(RefFor(s, sources))

\* A symbol with an identity that outlives the generation has the one of a
\* restart, and the identity is kept with its declaration; a declared symbol
\* that has none is another symbol for a declaration that has it.
Named(b, sources) ==
  \A s \in DOMAIN b.ids :
    /\ IsSymbol(s)
    /\ s.path \in Paths /\ IsExported(s, sources) => s.copy = 0
    /\ DurableId(b.ids[s]) =>
         /\ Declared(s, sources) /\ b.ids[s] = RestartId(s, sources)
         /\ b.ids[s] \in DOMAIN b.durable /\ b.durable[b.ids[s]] = RefFor(s, sources)
    /\ Declared(s, sources) => RestartId(s, sources) \in DOMAIN b.byId

\* A fact of p holds the identity a restart gives, its declaration is known, and
\* the symbol is one of p or one that an import of p exports.
FactTrue(p, s, id, durable, sources) ==
  /\ Declared(s, sources)
  /\ id = RestartId(s, sources)
  /\ id \in DOMAIN durable /\ durable[id] = RefFor(s, sources)
  /\ s.path = p \/ (s.path \in Edges(p, sources) /\ IsExported(s, sources))

FactsTrue(facts, durable, sources) ==
  \A p \in DOMAIN facts : p \in Paths /\
    \A s \in DOMAIN facts[p] : FactTrue(p, s, facts[p][s], durable, sources)

IdentitiesInvariant ==
  /\ PairedInvariant
  /\ exported = CollectExported(src)
  /\ Named(book, src)
  /\ FactsTrue(held, book.durable, src)

-----------------------------------------------------------------------------
(* One symbol for each identity: the proof.                                *)

\* Binding a symbol that has no identity to one that is free.
LEMMA BindFields ==
  ASSUME NEW b, DOMAIN b = BookFields, NEW s, NEW id
  PROVE  /\ DOMAIN Bind(b, s, id) = BookFields
         /\ Bind(b, s, id).ids = Put(b.ids, s, id)
         /\ Bind(b, s, id).byId = Put(b.byId, id, s)
         /\ Bind(b, s, id).durable = b.durable
         /\ Bind(b, s, id).minted = b.minted
<1> DEFINE x == Put(b.ids, s, id)
           y == Put(b.byId, id, s)
<1>1. Bind(b, s, id) = [b EXCEPT !.ids = x, !.byId = y]
  BY DEF Bind
<1> HIDE DEF x, y
<1>2. /\ DOMAIN Bind(b, s, id) = BookFields
      /\ Bind(b, s, id).ids = x /\ Bind(b, s, id).byId = y
      /\ Bind(b, s, id).durable = b.durable /\ Bind(b, s, id).minted = b.minted
  BY <1>1 DEF BookFields
<1> QED
  BY <1>2 DEF x, y

\* The same with the declaration of the identity.
LEMMA BindDurableFields ==
  ASSUME NEW b, DOMAIN b = BookFields, NEW s, NEW id, NEW ref
  PROVE  /\ DOMAIN BindDurable(b, s, id, ref) = BookFields
         /\ BindDurable(b, s, id, ref).ids = Put(b.ids, s, id)
         /\ BindDurable(b, s, id, ref).byId = Put(b.byId, id, s)
         /\ BindDurable(b, s, id, ref).durable = Put(b.durable, id, ref)
         /\ BindDurable(b, s, id, ref).minted = b.minted
<1> DEFINE c == Bind(b, s, id)
           d == Put(b.durable, id, ref)
<1>1. /\ DOMAIN c = BookFields
      /\ c.ids = Put(b.ids, s, id) /\ c.byId = Put(b.byId, id, s)
      /\ c.durable = b.durable /\ c.minted = b.minted
  BY BindFields
<1>2. BindDurable(b, s, id, ref) = [c EXCEPT !.durable = d]
  BY <1>1 DEF BindDurable
<1> HIDE DEF c, d
<1>3. /\ DOMAIN BindDurable(b, s, id, ref) = BookFields
      /\ BindDurable(b, s, id, ref).ids = c.ids
      /\ BindDurable(b, s, id, ref).byId = c.byId
      /\ BindDurable(b, s, id, ref).durable = d
      /\ BindDurable(b, s, id, ref).minted = c.minted
  BY <1>1, <1>2 DEF BookFields
<1> QED
  BY <1>1, <1>3 DEF d

\* A map with one entry more.
LEMMA PutEntry ==
  ASSUME NEW f, NEW x, NEW y
  PROVE  /\ DOMAIN Put(f, x, y) = DOMAIN f \cup {x}
         /\ Put(f, x, y)[x] = y
         /\ \A z \in DOMAIN f : z # x => Put(f, x, y)[z] = f[z]
BY DEF Put

\* The three identities idFor chooses from, and what the book becomes.
Exporting(b, s, c) ==
  /\ Declared(s, src) /\ RefFor(s, src) \in exported
  /\ Free(b, ExportedId(RefFor(s, src)), s)
  /\ c = BindDurable(b, s, ExportedId(RefFor(s, src)), RefFor(s, src))

Spanning(b, s, c) ==
  /\ Declared(s, src)
  /\ ~(RefFor(s, src) \in exported /\ Free(b, ExportedId(RefFor(s, src)), s))
  /\ Free(b, SpanId(RefFor(s, src)), s)
  /\ c = BindDurable(b, s, SpanId(RefFor(s, src)), RefFor(s, src))

Counting(b, s, c) ==
  /\ Declared(s, src) =>
       /\ ~(RefFor(s, src) \in exported /\ Free(b, ExportedId(RefFor(s, src)), s))
       /\ ~Free(b, SpanId(RefFor(s, src)), s)
  /\ c = Bind([b EXCEPT !.minted = @ + 1], s, CounterId(b.minted + 1))

\* What idFor does.
LEMMA IdForCases ==
  ASSUME NEW b, NEW s
  PROVE  \/ s \in DOMAIN b.ids /\ IdFor(b, s) = b
         \/ /\ s \notin DOMAIN b.ids
            /\ \/ Exporting(b, s, IdFor(b, s))
               \/ Spanning(b, s, IdFor(b, s))
               \/ Counting(b, s, IdFor(b, s))
BY DEF IdFor, Exporting, Spanning, Counting

\* Identities of a declaration are durable, those of a counter are not.
LEMMA Kinds ==
  ASSUME NEW ref, NEW n
  PROVE  DurableId(SpanId(ref)) /\ DurableId(ExportedId(ref)) /\ ~DurableId(CounterId(n))
BY DEF DurableId, SpanId, ExportedId, CounterId

\* The pairing after a symbol without an identity takes one that is not taken.
LEMMA PairedPut ==
  ASSUME NEW b, Paired(b), NEW c, NEW s, NEW id,
         s \notin DOMAIN b.ids, id \notin DOMAIN b.byId,
         DOMAIN c = BookFields, c.minted \in Nat, b.minted <= c.minted,
         c.ids = Put(b.ids, s, id), c.byId = Put(b.byId, id, s),
         DurableId(id) \/ \E n \in 1..c.minted : id = CounterId(n)
  PROVE  Paired(c)
<1>1. /\ b.minted \in Nat
      /\ \A z \in DOMAIN b.ids : b.ids[z] \in DOMAIN b.byId /\ b.byId[b.ids[z]] = z
      /\ \A i \in DOMAIN b.byId : b.byId[i] \in DOMAIN b.ids /\ b.ids[b.byId[i]] = i
      /\ \A i \in DOMAIN b.byId :
           DurableId(i) \/ \E n \in 1..b.minted : i = CounterId(n)
  BY DEF Paired
<1>2. /\ DOMAIN c.ids = DOMAIN b.ids \cup {s} /\ c.ids[s] = id
      /\ \A z \in DOMAIN b.ids : c.ids[z] = b.ids[z]
  BY DEF Put
<1>3. /\ DOMAIN c.byId = DOMAIN b.byId \cup {id} /\ c.byId[id] = s
      /\ \A i \in DOMAIN b.byId : c.byId[i] = b.byId[i]
  BY DEF Put
<1>4. \A z \in DOMAIN c.ids : c.ids[z] \in DOMAIN c.byId /\ c.byId[c.ids[z]] = z
  BY <1>1, <1>2, <1>3
<1>5. \A i \in DOMAIN c.byId : c.byId[i] \in DOMAIN c.ids /\ c.ids[c.byId[i]] = i
  BY <1>1, <1>2, <1>3
<1>6. \A n \in 1..b.minted : n \in 1..c.minted
  BY <1>1
<1>7. \A i \in DOMAIN c.byId : DurableId(i) \/ \E n \in 1..c.minted : i = CounterId(n)
  BY <1>1, <1>3, <1>6
<1> QED
  BY <1>4, <1>5, <1>7 DEF Paired

\* A symbol that has no identity has not taken one.
LEMMA FreeIsUntaken ==
  ASSUME NEW b, Paired(b), NEW s, s \notin DOMAIN b.ids, NEW id, Free(b, id, s)
  PROVE  id \notin DOMAIN b.byId
BY DEF Paired, Free

\* The book after a counter identity.
LEMMA CountingFields ==
  ASSUME NEW b, DOMAIN b = BookFields, b.minted \in Nat, NEW s, NEW c, Counting(b, s, c)
  PROVE  /\ DOMAIN c = BookFields /\ c.minted = b.minted + 1 /\ c.durable = b.durable
         /\ c.ids = Put(b.ids, s, CounterId(b.minted + 1))
         /\ c.byId = Put(b.byId, CounterId(b.minted + 1), s)
<1> DEFINE d == [b EXCEPT !.minted = b.minted + 1]
<1>1. c = Bind(d, s, CounterId(b.minted + 1))
  BY DEF Counting
<1>2. /\ DOMAIN d = BookFields /\ d.minted = b.minted + 1
      /\ d.ids = b.ids /\ d.byId = b.byId /\ d.durable = b.durable
  BY DEF BookFields
<1> HIDE DEF d
<1> QED
  BY <1>1, <1>2, BindFields

\* idFor keeps the pairing.
LEMMA IdForPaired ==
  ASSUME NEW b, Paired(b), NEW s
  PROVE  Paired(IdFor(b, s))
<1> DEFINE c == IdFor(b, s)
           ref == RefFor(s, src)
<1>0. DOMAIN b = BookFields /\ b.minted \in Nat /\ b.minted <= b.minted
  BY DEF Paired
<1>1. CASE s \in DOMAIN b.ids /\ c = b
  BY <1>1
<1>2. CASE s \notin DOMAIN b.ids /\ Exporting(b, s, c)
  <2>1. Free(b, ExportedId(ref), s) /\ c = BindDurable(b, s, ExportedId(ref), ref)
    BY <1>2 DEF Exporting
  <2>2. ExportedId(ref) \notin DOMAIN b.byId /\ DurableId(ExportedId(ref))
    BY <1>2, <2>1, FreeIsUntaken, Kinds
  <2> HIDE DEF c, ref
  <2> QED
    BY <1>0, <1>2, <2>1, <2>2, BindDurableFields, PairedPut DEF c
<1>3. CASE s \notin DOMAIN b.ids /\ Spanning(b, s, c)
  <2>1. Free(b, SpanId(ref), s) /\ c = BindDurable(b, s, SpanId(ref), ref)
    BY <1>3 DEF Spanning
  <2>2. SpanId(ref) \notin DOMAIN b.byId /\ DurableId(SpanId(ref))
    BY <1>3, <2>1, FreeIsUntaken, Kinds
  <2> HIDE DEF c, ref
  <2> QED
    BY <1>0, <1>3, <2>1, <2>2, BindDurableFields, PairedPut DEF c
<1>4. CASE s \notin DOMAIN b.ids /\ Counting(b, s, c)
  <2> DEFINE n == b.minted + 1
  <2>1. /\ DOMAIN c = BookFields /\ c.minted = n
        /\ c.ids = Put(b.ids, s, CounterId(n)) /\ c.byId = Put(b.byId, CounterId(n), s)
    BY <1>0, <1>4, CountingFields
  <2>2. c.minted \in Nat /\ b.minted <= c.minted /\ n \in 1..c.minted /\ n \notin 1..b.minted
    BY <1>0, <2>1
  <2>3. CounterId(n) \notin DOMAIN b.byId
    <3>1. \A k \in 1..b.minted : CounterId(k) # CounterId(n)
      BY <2>2 DEF CounterId
    <3> QED
      BY <3>1, Kinds DEF Paired
  <2> HIDE DEF c, n
  <2> QED
    BY <1>4, <2>1, <2>2, <2>3, PairedPut DEF c
<1> QED
  BY <1>1, <1>2, <1>3, <1>4, IdForCases

\* The members of the program are files of the project.
LEMMA MembersArePaths ==
  ASSUME NEW sources
  PROVE  Members(sources) \subseteq Paths
BY DEF Members, Closure

\* The symbols of a file, in order.
LEMMA SymbolsInSeq ==
  ASSUME NEW p \in Paths, NEW sources \in Sources
  PROVE  /\ SymbolsIn(p, sources) \in Seq([path : Paths, name : DOMAIN Owner, copy : Nat]
                                            \cup {Unknown})
         /\ DOMAIN SymbolsIn(p, sources) = DOMAIN Uses[p][sources[p]]
         /\ \A i \in DOMAIN SymbolsIn(p, sources) :
              \/ SymbolsIn(p, sources)[i] = Unknown
              \/ /\ SymbolsIn(p, sources)[i] = Uses[p][sources[p]][i]
                 /\ Resolves(p, Uses[p][sources[p]][i], sources)
<1> DEFINE used == Uses[p][sources[p]]
           S == [path : Paths, name : DOMAIN Owner, copy : Nat]
<1>1. used \in Seq(S)
  BY IdentityAssumption DEF IdentityAssumption, Sources
<1>2. SymbolsIn(p, sources)
        = [i \in DOMAIN used |-> IF Resolves(p, used[i], sources) THEN used[i] ELSE Unknown]
  BY DEF SymbolsIn
<1> HIDE DEF used, S
<1>3. SymbolsIn(p, sources) \in Seq(S \cup {Unknown})
  BY <1>1, <1>2
<1>4. /\ DOMAIN SymbolsIn(p, sources) = DOMAIN used
      /\ \A i \in DOMAIN SymbolsIn(p, sources) :
           \/ SymbolsIn(p, sources)[i] = Unknown
           \/ SymbolsIn(p, sources)[i] = used[i] /\ Resolves(p, used[i], sources)
  BY <1>2
<1> QED
  BY <1>3, <1>4 DEF used, S

\* A scan keeps the pairing.
LEMMA ScanPaired ==
  ASSUME NEW b, Paired(b), NEW S, NEW uses \in Seq(S)
  PROVE  Paired(FoldLeft(IdFor, b, uses))
<1>1. PICK g : Chain(g, b, uses) /\ FoldLeft(IdFor, b, uses) = g[Len(uses)]
  BY FoldChain
<1> DEFINE n == Len(uses)
           K == {i \in Nat : i <= n => Paired(g[i])}
<1>2. n \in Nat
  OBVIOUS
<1>3. 0 \in K
  BY <1>1 DEF Chain
<1>4. ASSUME NEW i \in Nat, i \in K PROVE i + 1 \in K
  <2> SUFFICES ASSUME i + 1 <= n PROVE Paired(g[i + 1])
    OBVIOUS
  <2>1. Paired(g[i])
    BY <1>2, <1>4
  <2>2. i + 1 \in 1..n /\ (i + 1) - 1 = i
    BY <1>2
  <2>3. g[i + 1] = IdFor(g[i], uses[i + 1])
    BY <1>1, <2>2 DEF Chain
  <2> QED
    BY <2>1, <2>3, IdForPaired
<1> HIDE DEF K
<1>5. n \in K
  BY <1>2, <1>3, <1>4, SetInduction
<1> QED
  BY <1>1, <1>2, <1>5 DEF K

\* The identities that retained facts hold.
LEMMA HeldIdsIn ==
  ASSUME NEW id
  PROVE  (id \in HeldIds) <=> (\E p \in DOMAIN held : \E s \in DOMAIN held[p] : id = held[p][s])
BY DEF HeldIds

\* The sources after an update.
LEMMA UpdatedSources ==
  ASSUME src \in Sources, NEW edit \in Edits
  PROVE  /\ Overwrite(src, edit) \in Sources
         /\ \A q \in Paths \ DOMAIN edit : Overwrite(src, edit)[q] = src[q]
<1>1. PICK D \in SUBSET Paths : edit \in [D -> Texts]
  BY IdentityAssumption DEF IdentityAssumption, Partial
<1> QED
  BY <1>1 DEF Overwrite, Sources

\* An identity of a declaration gives the path and the name back.
LEMMA IdParts ==
  ASSUME NEW s, NEW z, NEW old, NEW new
  PROVE  /\ ExportedId(RefFor(s, old)) = ExportedId(RefFor(z, new)) =>
              s.path = z.path /\ s.name = z.name
         /\ SpanId(RefFor(s, old)) = SpanId(RefFor(z, new)) =>
              s.path = z.path /\ s.name = z.name
         /\ ExportedId(RefFor(s, old)) # SpanId(RefFor(z, new))
<1> DEFINE a == ExportedId(RefFor(s, old))
           b == ExportedId(RefFor(z, new))
           c == SpanId(RefFor(s, old))
           d == SpanId(RefFor(z, new))
<1>1. /\ a[1] = "export" /\ a[2] = s.path /\ a[3] = s.name
      /\ b[1] = "export" /\ b[2] = z.path /\ b[3] = z.name
      /\ c[1] = "span" /\ c[2] = s.path /\ c[4] = s.name
      /\ d[1] = "span" /\ d[2] = z.path /\ d[4] = z.name
  BY DEF ExportedId, SpanId, RefFor
<1> HIDE DEF a, b, c, d
<1>2. /\ a = b => s.path = z.path /\ s.name = z.name
      /\ c = d => s.path = z.path /\ s.name = z.name
      /\ a # d
  BY <1>1
<1> QED
  BY <1>2 DEF a, b, c, d

\* The identities an update sets before anything is scanned.
Identity(p, new) == [s \in ExportedSymbols(p, new) |-> ExportedId(RefFor(s, new))]

Preset(p, new) ==
  [id \in {Identity(p, new)[s] : s \in ExportedSymbols(p, new)} |->
     CHOOSE s \in ExportedSymbols(p, new) : Identity(p, new)[s] = id]

\* They name one symbol each.
LEMMA PresetPairs ==
  ASSUME NEW p, NEW new
  PROVE  /\ DOMAIN Identity(p, new) = ExportedSymbols(p, new)
         /\ \A s \in ExportedSymbols(p, new) :
              /\ Identity(p, new)[s] = ExportedId(RefFor(s, new))
              /\ Identity(p, new)[s] \in DOMAIN Preset(p, new)
              /\ Preset(p, new)[Identity(p, new)[s]] = s
         /\ \A id \in DOMAIN Preset(p, new) :
              /\ Preset(p, new)[id] \in ExportedSymbols(p, new)
              /\ Identity(p, new)[Preset(p, new)[id]] = id
              /\ DurableId(id)
<1> DEFINE C == ExportedSymbols(p, new)
           I == Identity(p, new)
           P == Preset(p, new)
<1>1. DOMAIN I = C /\ \A s \in C : I[s] = ExportedId(RefFor(s, new))
  BY DEF Identity
<1>2. \A s \in C : s = [path |-> s.path, name |-> s.name, copy |-> 0]
  BY DEF ExportedSymbols
<1>3. ASSUME NEW s \in C, NEW z \in C, I[s] = I[z] PROVE s = z
  <2>1. ExportedId(RefFor(s, new)) = ExportedId(RefFor(z, new))
    BY <1>1, <1>3
  <2>3. s.path = z.path /\ s.name = z.name
    BY <2>1, IdParts
  <2>4. s = [path |-> s.path, name |-> s.name, copy |-> 0]
    BY <1>2
  <2>5. z = [path |-> z.path, name |-> z.name, copy |-> 0]
    BY <1>2
  <2> QED
    BY <2>3, <2>4, <2>5, Zenon
<1>4. /\ DOMAIN P = {I[s] : s \in C}
      /\ \A id \in DOMAIN P : P[id] = CHOOSE s \in C : I[s] = id
  BY DEF Preset
<1> HIDE DEF C, I, P
<1>5. \A id \in DOMAIN P : P[id] \in C /\ I[P[id]] = id
  BY <1>4
<1>6. \A s \in C : I[s] \in DOMAIN P /\ P[I[s]] = s
  <2> SUFFICES ASSUME NEW s \in C PROVE I[s] \in DOMAIN P /\ P[I[s]] = s
    OBVIOUS
  <2>1. I[s] \in DOMAIN P
    BY <1>4
  <2>2. P[I[s]] \in C /\ I[P[I[s]]] = I[s]
    BY <1>5, <2>1
  <2> QED
    BY <1>3, <2>1, <2>2
<1>7. \A id \in DOMAIN P : DurableId(id)
  <2>1. \A s \in C : DurableId(I[s])
    BY <1>1, Kinds
  <2> QED
    BY <2>1, <1>5
<1> QED
  BY <1>1, <1>5, <1>6, <1>7 DEF C, I, P

\* The book and the exported references after the update of one file whose
\* exports are known.
LEMMA IncrementalBook ==
  ASSUME NEW p, NEW new, Incremental(p, new)
  PROVE  /\ DOMAIN book' = BookFields /\ book'.minted = 0
         /\ book'.ids = Identity(p, new) /\ book'.byId = Preset(p, new)
         /\ book'.durable = DurableAfter([id \in DOMAIN Preset(p, new) |->
                                            RefFor(Preset(p, new)[id], new)])
<1> DEFINE d == DurableAfter([id \in DOMAIN Preset(p, new) |->
                                RefFor(Preset(p, new)[id], new)])
<1>1. book' = [ids |-> Identity(p, new), byId |-> Preset(p, new), minted |-> 0,
               durable |-> d]
  BY DEF Incremental, Identity, Preset
<1> HIDE DEF d
<1> QED
  BY <1>1 DEF d, BookFields

\* The book when symbols are dropped.
LEMMA DroppedBook ==
  ASSUME NEW b, DOMAIN b = BookFields
  PROVE  LET c == [b EXCEPT !.ids = NoMap, !.byId = NoMap, !.minted = 0] IN
         /\ DOMAIN c = BookFields /\ c.minted = 0 /\ c.durable = b.durable
         /\ c.ids = NoMap /\ c.byId = NoMap
<1> DEFINE e == NoMap
<1> HIDE DEF e
<1>1. LET c == [b EXCEPT !.ids = e, !.byId = e, !.minted = 0] IN
         /\ DOMAIN c = BookFields /\ c.minted = 0 /\ c.durable = b.durable
         /\ c.ids = e /\ c.byId = e
  BY DEF BookFields
<1> QED
  BY <1>1 DEF e

\* A paired book stays paired while the generation lasts.
LEMMA PairedPrimed ==
  ASSUME NEW b, Paired(b), book' = b, generation' = generation
  PROVE  Paired(book)'
BY DEF Paired, CounterId

\* A book without symbols is paired.
LEMMA PairedEmpty ==
  ASSUME DOMAIN book' = BookFields, book'.minted = 0, book'.ids = NoMap, book'.byId = NoMap
  PROVE  Paired(book)'
<1>1. DOMAIN NoMap = {}
  BY DEF NoMap
<1> QED
  BY <1>1 DEF Paired

\* Fewer facts hold fewer identities.
LEMMA HeldIdsRestricted ==
  ASSUME \A id \in HeldIds : DurableId(id), NEW D, held' = Restrict2(held, D)
  PROVE  \A id \in HeldIds' : DurableId(id)
BY DEF HeldIds, Restrict2

\* A scan.
LEMMA PairedScan ==
  ASSUME PairedInvariant, NEW p \in Paths, Scan(p)
  PROVE  PairedInvariant'
<1> DEFINE uses  == SymbolsIn(p, src)
           after == FoldLeft(IdFor, book, uses)
           facts == [s \in ToSet(uses) |-> after.ids[s]]
<1>1. Paired(after)
  BY SymbolsInSeq, ScanPaired DEF PairedInvariant
<1>2. /\ book' = after /\ src' = src /\ generation' = generation
      /\ held' = IF \A s \in DOMAIN facts : DurableId(facts[s])
                 THEN Put(held, p, facts) ELSE held
  BY DEF Scan
<1> HIDE DEF after
<1>3. Paired(book)'
  BY <1>1, <1>2, PairedPrimed
<1>4. \A id \in HeldIds' : DurableId(id)
  <2>1. CASE held' = held
    BY <2>1 DEF PairedInvariant, HeldIds
  <2> HIDE DEF facts
  <2>2. CASE /\ \A s \in DOMAIN facts : DurableId(facts[s])
             /\ held' = Put(held, p, facts)
    <3>1. ASSUME NEW q \in DOMAIN held', NEW s \in DOMAIN held'[q]
          PROVE  DurableId(held'[q][s])
      <4>1. CASE q = p
        BY <2>2, <3>1, <4>1 DEF Put
      <4>2. CASE q # p
        <5>1. q \in DOMAIN held /\ held'[q] = held[q]
          BY <2>2, <4>2 DEF Put
        <5> QED
          BY <3>1, <5>1 DEF PairedInvariant, HeldIds
      <4> QED
        BY <4>1, <4>2
    <3> QED
      BY <3>1 DEF HeldIds
  <2> QED
    BY <1>2, <2>1, <2>2
<1> QED
  BY <1>2, <1>3, <1>4 DEF PairedInvariant

\* What a query finds has no other identity.
LEMMA QueryFinds ==
  ASSUME Paired(book), NEW id, id \notin DOMAIN book.byId, NEW s \in SymbolFor(book, id)
  PROVE  /\ s \notin DOMAIN book.ids
         /\ id \in DOMAIN book.durable
         /\ s = [path |-> book.durable[id].path, name |-> book.durable[id].name, copy |-> 0]
         /\ Declared(s, src) /\ RefFor(s, src) = book.durable[id]
<1>1. /\ id \in DOMAIN book.durable /\ s \in DeclaredAt(book.durable[id])
      /\ s \in DOMAIN book.ids => book.ids[s] = id
  BY DEF SymbolFor
<1> QED
  BY <1>1 DEF DeclaredAt, Paired

\* A query.
LEMMA PairedQuery ==
  ASSUME PairedInvariant, NEW id \in HeldIds, Query(id)
  PROVE  PairedInvariant'
<1>1. /\ id \notin DOMAIN book.byId
      /\ src' = src /\ generation' = generation /\ held' = held
      /\ Paired(book) /\ DurableId(id)
  BY DEF Query, PairedInvariant
<1>2. Paired(book)'
  <2>1. CASE SymbolFor(book, id) = {}
    <3>1. book' = book
      BY <2>1 DEF Query
    <3> QED
      BY <1>1, <3>1, PairedPrimed
  <2>2. CASE SymbolFor(book, id) # {}
    <3> DEFINE s == CHOOSE z \in SymbolFor(book, id) : TRUE
               c == Bind(book, s, id)
    <3>1. s \in SymbolFor(book, id) /\ book' = c
      BY <2>2 DEF Query
    <3>2. s \notin DOMAIN book.ids
      BY <1>1, <3>1, QueryFinds
    <3> HIDE DEF s
    <3>3. /\ DOMAIN c = BookFields /\ c.ids = Put(book.ids, s, id)
          /\ c.byId = Put(book.byId, id, s) /\ c.minted = book.minted
          /\ book.minted \in Nat /\ book.minted <= book.minted
      BY <1>1, BindFields DEF Paired
    <3> HIDE DEF c
    <3>4. Paired(c)
      BY <1>1, <3>2, <3>3, PairedPut
    <3> QED
      BY <1>1, <3>1, <3>4, PairedPrimed
  <2> QED
    BY <2>1, <2>2
<1>3. HeldIds' = HeldIds
  BY <1>1 DEF HeldIds
<1> QED
  BY <1>1, <1>2, <1>3 DEF PairedInvariant

\* An update.
LEMMA PairedUpdate ==
  ASSUME PairedInvariant, NEW edit \in Edits, Update(edit)
  PROVE  PairedInvariant'
<1> DEFINE new == Overwrite(src, edit)
<1>1. src' = new /\ new \in Sources
  BY UpdatedSources DEF Update, PairedInvariant
<1>2. ASSUME NEW p, Incremental(p, new)
      PROVE  Paired(book)' /\ \A id \in HeldIds' : DurableId(id)
  <2>1. /\ DOMAIN book' = BookFields /\ book'.minted = 0
        /\ book'.ids = Identity(p, new) /\ book'.byId = Preset(p, new)
    BY <1>2, IncrementalBook
  <2>2. Paired(book)'
    <3> HIDE DEF new
    <3>1. /\ \A s \in DOMAIN book'.ids :
               book'.ids[s] \in DOMAIN book'.byId /\ book'.byId[book'.ids[s]] = s
          /\ \A id \in DOMAIN book'.byId :
               /\ book'.byId[id] \in DOMAIN book'.ids
               /\ book'.ids[book'.byId[id]] = id
               /\ DurableId(id)
      BY <2>1, PresetPairs
    <3> QED
      BY <2>1, <3>1 DEF Paired
  <2>3. \E D : held' = Restrict2(held, D)
    BY <1>2 DEF Incremental
  <2> QED
    BY <2>2, <2>3, HeldIdsRestricted DEF PairedInvariant
<1>3. ASSUME NEW p, IncrementalUnknown(p, new)
      PROVE  Paired(book)' /\ \A id \in HeldIds' : DurableId(id)
  <2>1. /\ book' = [book EXCEPT !.ids = NoMap, !.byId = NoMap, !.minted = 0]
        /\ \E D : held' = Restrict2(held, D)
    BY <1>3 DEF IncrementalUnknown
  <2>2. Paired(book)'
    BY <2>1, DroppedBook, PairedEmpty DEF PairedInvariant, Paired
  <2> QED
    BY <2>1, <2>2, HeldIdsRestricted DEF PairedInvariant
<1>4. ASSUME Rebuild(new)
      PROVE  Paired(book)' /\ \A id \in HeldIds' : DurableId(id)
  <2>1. PICK d : book' = [ids |-> NoMap, byId |-> NoMap, minted |-> 0, durable |-> d]
    BY <1>4 DEF Rebuild
  <2>2. Paired(book)'
    BY <2>1, PairedEmpty DEF BookFields
  <2>3. held' = Empty
    BY <1>4 DEF Rebuild
  <2> QED
    BY <2>2, <2>3 DEF HeldIds, Empty
<1> QED
  BY <1>1, <1>2, <1>3, <1>4 DEF Update, PairedInvariant

\* Every step.
LEMMA PairedStep ==
  ASSUME PairedInvariant, [Next]_vars
  PROVE  PairedInvariant'
<1>1. ASSUME Release PROVE PairedInvariant'
  <2>1. /\ book' = [book EXCEPT !.ids = NoMap, !.byId = NoMap, !.minted = 0]
        /\ src' = src /\ held' = held
    BY <1>1 DEF Release
  <2>2. Paired(book)'
    BY <2>1, DroppedBook, PairedEmpty DEF PairedInvariant, Paired
  <2>3. HeldIds' = HeldIds
    BY <2>1 DEF HeldIds
  <2> QED
    BY <2>1, <2>2, <2>3 DEF PairedInvariant
<1>2. ASSUME UNCHANGED vars PROVE PairedInvariant'
  <2>1. /\ book' = book /\ src' = src /\ held' = held /\ generation' = generation
    BY <1>2 DEF vars
  <2>2. Paired(book)'
    BY <2>1, PairedPrimed DEF PairedInvariant
  <2>3. HeldIds' = HeldIds
    BY <2>1 DEF HeldIds
  <2> QED
    BY <2>1, <2>2, <2>3 DEF PairedInvariant
<1> QED
  BY <1>1, <1>2, PairedScan, PairedQuery, PairedUpdate DEF Next

\* The first state.
LEMMA PairedInit ==
  ASSUME Init
  PROVE  PairedInvariant
<1>1. /\ DOMAIN book = BookFields /\ book.minted = 0
      /\ DOMAIN book.ids = {} /\ DOMAIN book.byId = {}
  BY DEF Init, BookFields, NoMap
<1>2. HeldIds = {}
  BY DEF Init, HeldIds, Empty
<1> QED
  BY <1>1, <1>2, IdentityAssumption DEF Init, IdentityAssumption, PairedInvariant, Paired

\* Within a generation no two symbols share an identity and an identity leads
\* back to its symbol (idsBySymbol and symbolsByID of project.go), for any
\* project, however often the checker has several symbols for a declaration.
THEOREM IdentitiesStayPaired == Spec => []OneSymbolPerId
<1>1. PairedInvariant => OneSymbolPerId
  BY DEF PairedInvariant, Paired, OneSymbolPerId
<1> QED
  BY <1>1, PairedInit, PairedStep, PTL DEF Spec

-----------------------------------------------------------------------------
(* Identities of a restart: what the sources determine.                    *)

\* Where the configuration includes every file, every file is in the program.
LEMMA AllMembers ==
  ASSUME Roots = Paths, NEW sources
  PROVE  Members(sources) = Paths
BY DEF Members, Closure

\* The export p lists as its own.
OwnExport(ref, p, sources) ==
  \E e \in Exports[p][sources[p]] :
    e[1] = p /\ ref = RefFor([path |-> p, name |-> e[2], copy |-> 0], sources)

\* Where every export resolves, what is exported is what some file exports of
\* its own: a re-export adds nothing.
LEMMA CollectedOwn ==
  ASSUME Roots = Paths, NEW sources \in Sources, ExportsResolve(sources), NEW ref
  PROVE  (ref \in CollectExported(sources)) <=> (\E p \in Paths : OwnExport(ref, p, sources))
<1>1. Members(sources) = Paths
  BY AllMembers
<1>2. (ref \in CollectExported(sources)) <=> (\E p \in Paths : ref \in ExportRefs(p, sources))
  BY <1>1 DEF CollectExported, ExportsResolve
<1>3. \A p \in Paths : (ref \in ExportRefs(p, sources)) <=>
        (\E e \in Exports[p][sources[p]] :
           ref = RefFor([path |-> e[1], name |-> e[2], copy |-> 0], sources))
  BY DEF ExportRefs, ExportedSymbols
<1>4. ASSUME NEW p \in Paths, OwnExport(ref, p, sources) PROVE ref \in ExportRefs(p, sources)
  BY <1>3, <1>4 DEF OwnExport
<1>5. ASSUME NEW p \in Paths, ref \in ExportRefs(p, sources)
      PROVE  \E q \in Paths : OwnExport(ref, q, sources)
  <2>1. PICK e \in Exports[p][sources[p]] :
          ref = RefFor([path |-> e[1], name |-> e[2], copy |-> 0], sources)
    BY <1>3, <1>5
  <2>2. e[1] \in Paths
    BY IdentityAssumption DEF IdentityAssumption, Sources
  <2>3. e \in Exports[e[1]][sources[e[1]]]
    BY <2>1 DEF ExportsResolve, Exportable
  <2>4. OwnExport(ref, e[1], sources)
    BY <2>1, <2>3 DEF OwnExport
  <2> QED
    BY <2>2, <2>4
<1> QED
  BY <1>2, <1>4, <1>5

\* So a symbol is exported when its file exports it.
LEMMA CollectedSymbol ==
  ASSUME Roots = Paths, NEW sources \in Sources, ExportsResolve(sources),
         NEW s, s.path \in Paths
  PROVE  (RefFor(s, sources) \in CollectExported(sources)) <=> IsExported(s, sources)
<1>1. ASSUME IsExported(s, sources) PROVE OwnExport(RefFor(s, sources), s.path, sources)
  <2> DEFINE e == <<s.path, s.name>>
  <2>1. e \in Exports[s.path][sources[s.path]] /\ e[1] = s.path /\ e[2] = s.name
    BY <1>1 DEF IsExported
  <2>2. RefFor(s, sources) = RefFor([path |-> s.path, name |-> s.name, copy |-> 0], sources)
    BY DEF RefFor
  <2> QED
    BY <2>1, <2>2 DEF OwnExport
<1>2. ASSUME NEW p \in Paths, OwnExport(RefFor(s, sources), p, sources)
      PROVE  IsExported(s, sources)
  <2>1. PICK e \in Exports[p][sources[p]] :
          e[1] = p /\ RefFor(s, sources) = RefFor([path |-> p, name |-> e[2], copy |-> 0], sources)
    BY <1>2 DEF OwnExport
  <2>2. s.path = p /\ s.name = e[2]
    <3> DEFINE a == RefFor(s, sources)
               b == RefFor([path |-> p, name |-> e[2], copy |-> 0], sources)
    <3>1. a.path = s.path /\ a.name = s.name /\ b.path = p /\ b.name = e[2]
      BY DEF RefFor
    <3>2. a = b
      BY <2>1
    <3> HIDE DEF a, b
    <3> QED
      BY <3>1, <3>2
  <2>3. e = <<e[1], e[2]>>
    BY IdentityAssumption DEF IdentityAssumption, Sources
  <2>4. <<s.path, s.name>> = e
    BY <2>1, <2>2, <2>3
  <2> QED
    BY <2>1, <2>2, <2>4 DEF IsExported
<1> QED
  BY <1>1, <1>2, CollectedOwn

\* A file declares what it exports of its own.
LEMMA ExportedDeclared ==
  ASSUME Roots = Paths, NEW sources \in Sources, NEW s, s.path \in Paths, IsExported(s, sources)
  PROVE  Declared(s, sources)
<1> DEFINE e == <<s.path, s.name>>
<1>1. e \in Exports[s.path][sources[s.path]] /\ e[1] = s.path /\ e[2] = s.name
  BY DEF IsExported
<1>2. s.name \in DOMAIN Where[s.path][sources[s.path]]
  BY <1>1, IdentityAssumption DEF IdentityAssumption, Sources
<1> QED
  BY <1>2, AllMembers DEF Declared

\* Symbols with the same path and name have the same declaration.
LEMMA SameDeclaration ==
  ASSUME NEW s, NEW z, NEW sources, s.path = z.path, s.name = z.name
  PROVE  /\ RefFor(s, sources) = RefFor(z, sources)
         /\ IsExported(s, sources) = IsExported(z, sources)
         /\ Declared(s, sources) = Declared(z, sources)
         /\ RestartId(s, sources) = RestartId(z, sources)
<1>1. /\ RefFor(s, sources) = RefFor(z, sources)
      /\ IsExported(s, sources) = IsExported(z, sources)
      /\ Declared(s, sources) = Declared(z, sources)
  BY DEF RefFor, IsExported, Declared
<1> QED
  BY <1>1 DEF RestartId

\* Symbols a restart gives the same identity have the same declaration.
LEMMA SameRestart ==
  ASSUME NEW s, NEW z, NEW old, NEW new, RestartId(s, old) = RestartId(z, new)
  PROVE  s.path = z.path /\ s.name = z.name
BY IdParts DEF RestartId

\* Identities of a restart are durable.
LEMMA RestartDurable ==
  ASSUME NEW s, NEW sources
  PROVE  DurableId(RestartId(s, sources))
BY Kinds DEF RestartId

\* A reference gives the path and the name back.
LEMMA SameRef ==
  ASSUME NEW s, NEW z, NEW sources, RefFor(s, sources) = RefFor(z, sources)
  PROVE  s.path = z.path /\ s.name = z.name
<1> DEFINE a == RefFor(s, sources)
           b == RefFor(z, sources)
<1>1. a.path = s.path /\ a.name = s.name /\ b.path = z.path /\ b.name = z.name
  BY DEF RefFor
<1>2. a = b
  OBVIOUS
<1> HIDE DEF a, b
<1> QED
  BY <1>1, <1>2

-----------------------------------------------------------------------------
(* Identities of a restart: a scan and a query.                            *)

\* The hypotheses on a project and on its present sources.
Regular ==
  /\ Roots = Paths /\ ImportersUseExports /\ OneSymbolPerExport
  /\ src \in Sources /\ ExportsResolve(src) /\ exported = CollectExported(src)

\* A book with which the retained facts agree.
Agreed(b) == Paired(b) /\ Named(b, src) /\ FactsTrue(held, b.durable, src)

\* A symbol that may come up: one of an exported declaration is the only one.
Usable(s) ==
  IsSymbol(s) /\ (s.path \in Paths /\ IsExported(s, src) => s.copy = 0)

\* A declared symbol takes the identity a restart gives it.
LEMMA NameTaken ==
  ASSUME NEW b, Agreed(b), NEW s, Usable(s), s \notin DOMAIN b.ids, Declared(s, src),
         NEW c, Paired(c), c.ids = Put(b.ids, s, RestartId(s, src)),
         c.byId = Put(b.byId, RestartId(s, src), s),
         DOMAIN c.durable = DOMAIN b.durable \cup {RestartId(s, src)},
         c.durable[RestartId(s, src)] = RefFor(s, src),
         \A id \in DOMAIN b.durable : id # RestartId(s, src) => c.durable[id] = b.durable[id]
  PROVE  Agreed(c)
<1> DEFINE id == RestartId(s, src)
<1>1. /\ DOMAIN c.ids = DOMAIN b.ids \cup {s} /\ c.ids[s] = id
      /\ \A z \in DOMAIN b.ids : c.ids[z] = b.ids[z]
  BY DEF Put
<1>2. DOMAIN c.byId = DOMAIN b.byId \cup {id}
  BY DEF Put
<1>3. ASSUME NEW z, RestartId(z, src) \in DOMAIN b.durable,
             b.durable[RestartId(z, src)] = RefFor(z, src)
      PROVE  /\ RestartId(z, src) \in DOMAIN c.durable
             /\ c.durable[RestartId(z, src)] = RefFor(z, src)
  <2>1. CASE RestartId(z, src) = id
    BY <2>1, SameRestart, SameDeclaration
  <2>2. CASE RestartId(z, src) # id
    BY <1>3, <2>2
  <2> QED
    BY <2>1, <2>2
<1>4. Named(c, src)
  <2> SUFFICES ASSUME NEW z \in DOMAIN c.ids
               PROVE  /\ IsSymbol(z)
                      /\ z.path \in Paths /\ IsExported(z, src) => z.copy = 0
                      /\ DurableId(c.ids[z]) =>
                           /\ Declared(z, src) /\ c.ids[z] = RestartId(z, src)
                           /\ c.ids[z] \in DOMAIN c.durable
                           /\ c.durable[c.ids[z]] = RefFor(z, src)
                      /\ Declared(z, src) => RestartId(z, src) \in DOMAIN c.byId
    BY DEF Named
  <2>1. CASE z = s
    BY <1>1, <1>2, <2>1 DEF Usable
  <2>2. CASE z # s
    <3>1. z \in DOMAIN b.ids /\ c.ids[z] = b.ids[z]
      BY <1>1, <2>2
    <3>2. /\ IsSymbol(z)
          /\ z.path \in Paths /\ IsExported(z, src) => z.copy = 0
          /\ DurableId(b.ids[z]) =>
               /\ Declared(z, src) /\ b.ids[z] = RestartId(z, src)
               /\ b.ids[z] \in DOMAIN b.durable /\ b.durable[b.ids[z]] = RefFor(z, src)
          /\ Declared(z, src) => RestartId(z, src) \in DOMAIN b.byId
      BY <3>1 DEF Agreed, Named
    <3> QED
      BY <1>2, <1>3, <3>1, <3>2
  <2> QED
    BY <2>1, <2>2
<1>5. FactsTrue(held, c.durable, src)
  <2> SUFFICES ASSUME NEW p \in DOMAIN held
               PROVE  p \in Paths /\ \A z \in DOMAIN held[p] :
                        FactTrue(p, z, held[p][z], c.durable, src)
    BY DEF FactsTrue
  <2>1. p \in Paths /\ \A z \in DOMAIN held[p] : FactTrue(p, z, held[p][z], b.durable, src)
    BY DEF Agreed, FactsTrue
  <2>2. ASSUME NEW z \in DOMAIN held[p] PROVE FactTrue(p, z, held[p][z], c.durable, src)
    <3>1. FactTrue(p, z, held[p][z], b.durable, src)
      BY <2>1
    <3>2. /\ held[p][z] = RestartId(z, src)
          /\ held[p][z] \in DOMAIN c.durable /\ c.durable[held[p][z]] = RefFor(z, src)
      BY <1>3, <3>1 DEF FactTrue
    <3> QED
      BY <3>1, <3>2 DEF FactTrue
  <2> QED
    BY <2>1, <2>2
<1> QED
  BY <1>4, <1>5 DEF Agreed

\* The exported identity is free for the one symbol of an exported declaration.
LEMMA ExportIsFree ==
  ASSUME NEW b, Agreed(b), NEW s, Usable(s), s.path \in Paths, IsExported(s, src)
  PROVE  Free(b, ExportedId(RefFor(s, src)), s)
<1> DEFINE id == ExportedId(RefFor(s, src))
<1> SUFFICES ASSUME id \in DOMAIN b.byId PROVE b.byId[id] = s
  BY DEF Free
<1> DEFINE z == b.byId[id]
<1>1. z \in DOMAIN b.ids /\ b.ids[z] = id /\ DurableId(id)
  BY Kinds DEF Agreed, Paired
<1>2. IsSymbol(z) /\ id = RestartId(z, src) /\ (z.path \in Paths /\ IsExported(z, src) => z.copy = 0)
  BY <1>1 DEF Agreed, Named
<1>3. id = RestartId(s, src)
  BY DEF RestartId
<1>4. z.path = s.path /\ z.name = s.name
  BY <1>2, <1>3, SameRestart
<1>5. z.copy = 0 /\ s.copy = 0
  BY <1>2, <1>4, SameDeclaration DEF Usable
<1> HIDE DEF z, id
<1>6. IsSymbol(z) /\ IsSymbol(s)
  BY <1>2 DEF Usable
<1>7. z = s
  BY <1>4, <1>5, <1>6, Zenon DEF IsSymbol
<1> QED
  BY <1>7 DEF z

\* idFor.
LEMMA IdForAgreed ==
  ASSUME Regular, NEW b, Agreed(b), NEW s, Usable(s)
  PROVE  /\ Agreed(IdFor(b, s))
         /\ DOMAIN b.ids \subseteq DOMAIN IdFor(b, s).ids
         /\ s \in DOMAIN IdFor(b, s).ids
<1> DEFINE c == IdFor(b, s)
           ref == RefFor(s, src)
<1>1. DOMAIN b = BookFields /\ b.minted \in Nat /\ Paired(b)
  BY DEF Agreed, Paired
<1>2. Paired(c)
  BY <1>1, IdForPaired
<1>3. Declared(s, src) => /\ s.path \in Paths
                          /\ (ref \in exported) <=> IsExported(s, src)
                          /\ IsExported(s, src) => Free(b, ExportedId(ref), s)
  <2> SUFFICES ASSUME Declared(s, src)
               PROVE  /\ s.path \in Paths
                      /\ (ref \in exported) <=> IsExported(s, src)
                      /\ IsExported(s, src) => Free(b, ExportedId(ref), s)
    OBVIOUS
  <2>1. s.path \in Paths
    BY MembersArePaths DEF Declared
  <2> QED
    BY <2>1, CollectedSymbol, ExportIsFree DEF Regular
<1>4. ASSUME NEW id, id = RestartId(s, src), Declared(s, src), s \notin DOMAIN b.ids,
             c = BindDurable(b, s, id, ref)
      PROVE  Agreed(c) /\ DOMAIN b.ids \subseteq DOMAIN c.ids /\ s \in DOMAIN c.ids
  <2> HIDE DEF c
  <2>1. /\ c.ids = Put(b.ids, s, id) /\ c.byId = Put(b.byId, id, s)
        /\ c.durable = Put(b.durable, id, ref)
    BY <1>1, <1>4, BindDurableFields
  <2>2. /\ DOMAIN c.durable = DOMAIN b.durable \cup {id} /\ c.durable[id] = ref
        /\ \A i \in DOMAIN b.durable : i # id => c.durable[i] = b.durable[i]
    BY <2>1 DEF Put
  <2>3. Agreed(c)
    BY <1>2, <1>4, <2>1, <2>2, NameTaken
  <2>4. DOMAIN c.ids = DOMAIN b.ids \cup {s}
    BY <2>1 DEF Put
  <2> QED
    BY <2>3, <2>4
<1>5. CASE s \in DOMAIN b.ids /\ c = b
  BY <1>5
<1>6. CASE s \notin DOMAIN b.ids /\ Exporting(b, s, c)
  <2>1. /\ Declared(s, src) /\ ref \in exported /\ c = BindDurable(b, s, ExportedId(ref), ref)
    BY <1>6 DEF Exporting
  <2>2. ExportedId(ref) = RestartId(s, src)
    BY <1>3, <2>1 DEF RestartId
  <2> QED
    BY <1>4, <1>6, <2>1, <2>2
<1>7. CASE s \notin DOMAIN b.ids /\ Spanning(b, s, c)
  <2>1. /\ Declared(s, src) /\ ~(ref \in exported /\ Free(b, ExportedId(ref), s))
        /\ c = BindDurable(b, s, SpanId(ref), ref)
    BY <1>7 DEF Spanning
  <2>2. SpanId(ref) = RestartId(s, src)
    BY <1>3, <2>1 DEF RestartId
  <2> QED
    BY <1>4, <1>7, <2>1, <2>2
<1>8. CASE s \notin DOMAIN b.ids /\ Counting(b, s, c)
  <2> DEFINE id == CounterId(b.minted + 1)
  <2>1. c.durable = b.durable /\ c.ids = Put(b.ids, s, id) /\ c.byId = Put(b.byId, id, s)
    BY <1>1, <1>8, CountingFields
  <2>2. ~DurableId(id)
    BY Kinds
  <2>3. Declared(s, src) => RestartId(s, src) \in DOMAIN b.byId
    <3>1. Declared(s, src) => ~Free(b, SpanId(ref), s)
                              /\ ~(ref \in exported /\ Free(b, ExportedId(ref), s))
      BY <1>8 DEF Counting
    <3>2. Declared(s, src) => RestartId(s, src) = SpanId(ref)
      BY <1>3, <3>1 DEF RestartId
    <3> QED
      BY <3>1, <3>2 DEF Free
  <2> HIDE DEF c, id
  <2>4. /\ DOMAIN c.ids = DOMAIN b.ids \cup {s} /\ c.ids[s] = id
        /\ \A z \in DOMAIN b.ids : c.ids[z] = b.ids[z]
        /\ DOMAIN c.byId = DOMAIN b.byId \cup {id}
    BY <1>8, <2>1 DEF Put
  <2>5. Named(c, src)
    <3>1. Named(b, src)
      BY DEF Agreed
    <3> QED
      BY <2>1, <2>2, <2>3, <2>4, <3>1 DEF Named, Usable
  <2>6. FactsTrue(held, c.durable, src)
    BY <2>1 DEF Agreed
  <2>7. Agreed(c)
    BY <1>2, <2>5, <2>6 DEF Agreed
  <2> QED
    BY <2>4, <2>7 DEF c
<1> QED
  BY <1>5, <1>6, <1>7, <1>8, IdForCases

\* The symbols that come up in a scan.
LEMMA UsesUsable ==
  ASSUME Regular, NEW p \in Paths, NEW i \in DOMAIN SymbolsIn(p, src)
  PROVE  /\ Usable(SymbolsIn(p, src)[i])
         /\ LET s == SymbolsIn(p, src)[i] IN
              Declared(s, src) =>
                s.path = p \/ (s.path \in Edges(p, src) /\ IsExported(s, src))
<1> DEFINE s == SymbolsIn(p, src)[i]
           u == Uses[p][src[p]][i]
<1>1. src[p] \in Texts /\ i \in DOMAIN Uses[p][src[p]]
  BY SymbolsInSeq DEF Regular, Sources
<1>2. u \in [path : Paths, name : DOMAIN Owner, copy : Nat]
  <2> DEFINE used == Uses[p][src[p]]
             S == [path : Paths, name : DOMAIN Owner, copy : Nat]
  <2>1. used \in Seq(S)
    BY <1>1, IdentityAssumption DEF IdentityAssumption
  <2>2. i \in DOMAIN used
    BY <1>1
  <2> HIDE DEF used, S
  <2>3. used[i] \in S
    BY <2>1, <2>2
  <2> QED
    BY <2>3 DEF used, S
<1>3. CASE s = Unknown
  <2> HIDE DEF s
  <2>1. s.path = "" /\ IsSymbol(s)
    BY <1>3 DEF Unknown, IsSymbol
  <2>2. s.path \notin Paths
    BY <2>1, IdentityAssumption DEF IdentityAssumption
  <2>3. Usable(s) /\ ~Declared(s, src)
    BY <2>1, <2>2, MembersArePaths DEF Usable, Declared
  <2> QED
    BY <2>3 DEF s
<1>4. CASE s = u /\ Resolves(p, u, src)
  <2>1. IsSymbol(u) /\ u.path \in Paths
    BY <1>2 DEF IsSymbol
  <2>2. u.copy # 0 => ~IsExported(u, src)
    BY <1>1, <2>1 DEF Regular, OneSymbolPerExport, IsExported, Sources
  <2>3. u.path = p \/ (u.path \in Edges(p, src) /\ IsExported(u, src))
    <3>1. u.path # p => Owner[u.name] = u.name
      BY <1>1 DEF Regular, ImportersUseExports
    <3> QED
      BY <1>4, <3>1 DEF Resolves, IsExported
  <2>4. Usable(u)
    BY <2>1, <2>2 DEF Usable
  <2> HIDE DEF u, s
  <2> QED
    BY <1>4, <2>3, <2>4 DEF s
<1> QED
  BY <1>3, <1>4, SymbolsInSeq DEF Regular

\* A scan leaves a book the facts agree with, in which it names every symbol.
LEMMA ScanAgreed ==
  ASSUME Regular, NEW b, Agreed(b), NEW S, NEW uses \in Seq(S),
         \A i \in DOMAIN uses : Usable(uses[i])
  PROVE  /\ Agreed(FoldLeft(IdFor, b, uses))
         /\ ToSet(uses) \subseteq DOMAIN FoldLeft(IdFor, b, uses).ids
<1>1. PICK g : Chain(g, b, uses) /\ FoldLeft(IdFor, b, uses) = g[Len(uses)]
  BY FoldChain
<1> DEFINE n == Len(uses)
           K == {i \in Nat : i <= n => /\ Agreed(g[i])
                                       /\ \A j \in 1..i : uses[j] \in DOMAIN g[i].ids}
<1>2. n \in Nat /\ DOMAIN uses = 1..n
  OBVIOUS
<1>3. 0 \in K
  BY <1>1 DEF Chain
<1>4. ASSUME NEW i \in Nat, i \in K PROVE i + 1 \in K
  <2> SUFFICES ASSUME i + 1 <= n
               PROVE  /\ Agreed(g[i + 1])
                      /\ \A j \in 1..(i + 1) : uses[j] \in DOMAIN g[i + 1].ids
    OBVIOUS
  <2>1. Agreed(g[i]) /\ \A j \in 1..i : uses[j] \in DOMAIN g[i].ids
    BY <1>2, <1>4
  <2>2. i + 1 \in 1..n /\ (i + 1) - 1 = i /\ \A j \in 1..(i + 1) : j \in 1..i \/ j = i + 1
    BY <1>2
  <2>3. g[i + 1] = IdFor(g[i], uses[i + 1]) /\ Usable(uses[i + 1])
    BY <1>1, <1>2, <2>2 DEF Chain
  <2>4. /\ Agreed(g[i + 1]) /\ DOMAIN g[i].ids \subseteq DOMAIN g[i + 1].ids
        /\ uses[i + 1] \in DOMAIN g[i + 1].ids
    BY <2>1, <2>3, IdForAgreed
  <2> QED
    BY <2>1, <2>2, <2>4
<1> HIDE DEF K
<1>5. n \in K
  BY <1>2, <1>3, <1>4, SetInduction
<1>6. Agreed(g[n]) /\ \A j \in 1..n : uses[j] \in DOMAIN g[n].ids
  BY <1>2, <1>5 DEF K
<1> QED
  BY <1>1, <1>2, <1>6 DEF ToSet

\* The invariant with the hypotheses on a state.
LEMMA InvariantRegular ==
  ASSUME Roots = Paths, ImportersUseExports, OneSymbolPerExport,
         IdentitiesInvariant, ExportsResolve(src)
  PROVE  Regular /\ Agreed(book)
BY DEF IdentitiesInvariant, PairedInvariant, Regular, Agreed

\* A scan retains facts that are true.
LEMMA IdentitiesScan ==
  ASSUME Regular, IdentitiesInvariant, NEW p \in Paths, Scan(p)
  PROVE  IdentitiesInvariant'
<1> DEFINE uses  == SymbolsIn(p, src)
           after == FoldLeft(IdFor, book, uses)
           facts == [s \in ToSet(uses) |-> after.ids[s]]
           S     == [path : Paths, name : DOMAIN Owner, copy : Nat] \cup {Unknown}
<1>1. /\ book' = after /\ src' = src /\ generation' = generation /\ exported' = exported
      /\ held' = IF \A s \in DOMAIN facts : DurableId(facts[s])
                 THEN Put(held, p, facts) ELSE held
  BY DEF Scan
<1>2. PairedInvariant'
  BY PairedScan DEF IdentitiesInvariant
<1>3. uses \in Seq(S) /\ Agreed(book)
  BY SymbolsInSeq DEF Regular, IdentitiesInvariant, PairedInvariant, Agreed
<1>4. \A i \in DOMAIN uses : Usable(uses[i])
  BY UsesUsable
<1> HIDE DEF S
<1>5. Agreed(after) /\ ToSet(uses) \subseteq DOMAIN after.ids
  BY <1>3, <1>4, ScanAgreed
<1>6. ASSUME \A s \in DOMAIN facts : DurableId(facts[s]), NEW s \in DOMAIN facts
      PROVE  FactTrue(p, s, facts[s], after.durable, src)
  <2>1. s \in DOMAIN after.ids /\ facts[s] = after.ids[s] /\ DurableId(after.ids[s])
    BY <1>5, <1>6
  <2>2. /\ Declared(s, src) /\ after.ids[s] = RestartId(s, src)
        /\ after.ids[s] \in DOMAIN after.durable
        /\ after.durable[after.ids[s]] = RefFor(s, src)
    BY <1>5, <2>1 DEF Agreed, Named
  <2>3. PICK i \in DOMAIN uses : s = uses[i]
    BY <1>3 DEF ToSet
  <2>4. s.path = p \/ (s.path \in Edges(p, src) /\ IsExported(s, src))
    BY <2>2, <2>3, UsesUsable
  <2> QED
    BY <2>1, <2>2, <2>4 DEF FactTrue
<1> HIDE DEF after, facts
<1>7. FactsTrue(held', after.durable, src)
  <2>1. FactsTrue(held, after.durable, src)
    BY <1>5 DEF Agreed
  <2>2. CASE held' = held
    BY <2>1, <2>2
  <2>3. CASE /\ \A s \in DOMAIN facts : DurableId(facts[s])
             /\ held' = Put(held, p, facts)
    <3> SUFFICES ASSUME NEW q \in DOMAIN held'
                 PROVE  q \in Paths /\ \A s \in DOMAIN held'[q] :
                          FactTrue(q, s, held'[q][s], after.durable, src)
      BY DEF FactsTrue
    <3>1. CASE q = p
      <4>1. held'[q] = facts
        BY <2>3, <3>1 DEF Put
      <4> QED
        BY <1>6, <2>3, <3>1, <4>1
    <3>2. CASE q # p
      <4>1. q \in DOMAIN held /\ held'[q] = held[q]
        BY <2>3, <3>2 DEF Put
      <4> QED
        BY <2>1, <4>1 DEF FactsTrue
    <3> QED
      BY <3>1, <3>2
  <2> QED
    BY <1>1, <2>2, <2>3
<1>8. Named(after, src)
  BY <1>5 DEF Agreed
<1> QED
  BY <1>1, <1>2, <1>7, <1>8 DEF IdentitiesInvariant

\* A query finds the declaration of the identity.
LEMMA IdentitiesQuery ==
  ASSUME Regular, IdentitiesInvariant, NEW id \in HeldIds, Query(id)
  PROVE  IdentitiesInvariant'
<1>1. /\ id \notin DOMAIN book.byId /\ src' = src /\ held' = held /\ exported' = exported
      /\ PairedInvariant' /\ Agreed(book)
  BY PairedQuery DEF Query, IdentitiesInvariant, Agreed, PairedInvariant
<1>2. CASE SymbolFor(book, id) = {}
  <2>1. book' = book
    BY <1>2 DEF Query
  <2> QED
    BY <1>1, <2>1 DEF IdentitiesInvariant
<1>3. CASE SymbolFor(book, id) # {}
  <2> DEFINE s == CHOOSE z \in SymbolFor(book, id) : TRUE
             c == Bind(book, s, id)
  <2>1. s \in SymbolFor(book, id) /\ book' = c
    BY <1>3 DEF Query
  <2> HIDE DEF s
  <2>2. /\ s \notin DOMAIN book.ids /\ id \in DOMAIN book.durable
        /\ s = [path |-> book.durable[id].path, name |-> book.durable[id].name, copy |-> 0]
        /\ Declared(s, src) /\ RefFor(s, src) = book.durable[id]
    BY <1>1, <2>1, QueryFinds DEF Agreed
  <2>3. PICK p \in DOMAIN held : \E z \in DOMAIN held[p] : id = held[p][z]
    BY HeldIdsIn
  <2>11. PICK z \in DOMAIN held[p] : id = held[p][z]
    BY <2>3
  <2>4. id = RestartId(z, src) /\ book.durable[id] = RefFor(z, src) /\ Declared(z, src)
    BY <2>11 DEF IdentitiesInvariant, FactsTrue, FactTrue
  <2>5. s.path = z.path /\ s.name = z.name
    BY <2>2, <2>4, SameRef
  <2>6. id = RestartId(s, src)
    BY <2>4, <2>5, SameDeclaration
  <2>7. Usable(s)
    BY <2>2 DEF Usable, IsSymbol
  <2>8. /\ c.ids = Put(book.ids, s, id) /\ c.byId = Put(book.byId, id, s)
        /\ c.durable = book.durable /\ c.minted = book.minted /\ DOMAIN c = BookFields
        /\ book.minted \in Nat /\ book.minted <= book.minted
    BY <1>1, BindFields DEF Agreed, Paired
  <2> HIDE DEF c
  <2>9. Paired(c)
    BY <1>1, <2>2, <2>6, <2>8, PairedPut, RestartDurable DEF Agreed
  <2>10. Agreed(c)
    BY <1>1, <2>2, <2>6, <2>7, <2>8, <2>9, NameTaken
  <2> QED
    BY <1>1, <2>1, <2>10 DEF IdentitiesInvariant, Agreed
<1> QED
  BY <1>2, <1>3

-----------------------------------------------------------------------------
(* Identities of a restart: an update.                                     *)

\* The sources differ in the text of p only.
EditOf(p, old, new) ==
  /\ old \in Sources /\ new \in Sources /\ p \in Paths
  /\ \A q \in Paths : q # p => new[q] = old[q]

\* What an edit of another file leaves as it is.
LEMMA SameElsewhere ==
  ASSUME Roots = Paths, NEW p, NEW old, NEW new, EditOf(p, old, new),
         NEW s, s.path \in Paths, s.path # p
  PROVE  /\ Declared(s, new) <=> Declared(s, old)
         /\ RefFor(s, new) = RefFor(s, old)
         /\ IsExported(s, new) = IsExported(s, old)
         /\ RestartId(s, new) = RestartId(s, old)
<1>1. new[s.path] = old[s.path]
  BY DEF EditOf
<1>2. /\ RefFor(s, new) = RefFor(s, old) /\ IsExported(s, new) = IsExported(s, old)
  BY <1>1 DEF RefFor, IsExported
<1>3. Declared(s, new) <=> Declared(s, old)
  BY <1>1, AllMembers DEF Declared
<1> QED
  BY <1>2, <1>3 DEF RestartId

\* An edit that is followed affects the file and those that import it.
LEMMA ImportersAffected ==
  ASSUME Roots = Paths, NEW p \in Paths, NEW old, NEW new
  PROVE  /\ p \in AffectedFromReverseDeps({p}, old, new)
         /\ \A q \in Paths : p \in Edges(q, old) => q \in AffectedFromReverseDeps({p}, old, new)
<1> DEFINE step == [r \in Paths |-> Importers(r, old) \cup Importers(r, new)]
<1>1. AffectedFromReverseDeps({p}, old, new) = Closure({p}, step)
  BY DEF AffectedFromReverseDeps
<1>2. p \in Closure({p}, step)
  BY DEF Closure
<1>3. ASSUME NEW q \in Paths, p \in Edges(q, old) PROVE q \in Closure({p}, step)
  <2>1. q \in step[p]
    BY <1>3, AllMembers DEF Importers
  <2> HIDE DEF step
  <2>2. ASSUME NEW T \in SUBSET Paths, {p} \subseteq T, ClosedUnder(T, step) PROVE q \in T
    BY <2>1, <2>2 DEF ClosedUnder
  <2> QED
    BY <2>2 DEF Closure
<1> QED
  BY <1>1, <1>2, <1>3

\* A fact that survives an edit of p: one of another file, or one that holds an
\* export of p that stays.
LEMMA FactKept ==
  ASSUME Roots = Paths, NEW p, NEW old, NEW new, EditOf(p, old, new),
         NEW q \in Paths, q # p, NEW s, NEW id, NEW before, NEW after,
         FactTrue(q, s, id, before, old),
         s.path # p \/ Exports[p][new[p]] = Exports[p][old[p]],
         id \in DOMAIN after,
         after[id] = RefFor(s, new) \/ (s.path # p /\ after[id] = before[id])
  PROVE  FactTrue(q, s, id, after, new)
<1>1. /\ Declared(s, old) /\ id = RestartId(s, old)
      /\ before[id] = RefFor(s, old)
      /\ s.path = q \/ (s.path \in Edges(q, old) /\ IsExported(s, old))
  BY DEF FactTrue
<1>2. s.path \in Paths
  BY <1>1, MembersArePaths DEF Declared
<1>3. Edges(q, new) = Edges(q, old)
  BY DEF EditOf, Edges
<1>4. CASE s.path # p
  BY <1>1, <1>2, <1>3, <1>4, SameElsewhere DEF FactTrue
<1>5. CASE s.path = p
  <2>1. Exports[p][new[p]] = Exports[p][old[p]] /\ after[id] = RefFor(s, new)
    BY <1>5
  <2>2. IsExported(s, old) /\ IsExported(s, new) /\ s.path \in Edges(q, old)
    BY <1>1, <1>5, <2>1 DEF IsExported
  <2>3. Declared(s, new)
    BY <1>2, <2>2, ExportedDeclared DEF EditOf
  <2>4. id = RestartId(s, new)
    <3>1. ExportedId(RefFor(s, old)) = ExportedId(RefFor(s, new))
      BY DEF ExportedId, RefFor
    <3> QED
      BY <1>1, <2>2, <3>1 DEF RestartId
  <2> QED
    BY <1>3, <2>1, <2>2, <2>3, <2>4 DEF FactTrue
<1> QED
  BY <1>4, <1>5

\* Replacing the exports of the edited file gives the exports of the program.
LEMMA ExportedUpdated ==
  ASSUME Roots = Paths, NEW p, NEW new, EditOf(p, src, new),
         ExportsResolve(src), ExportsResolve(new), exported = CollectExported(src)
  PROVE  ExportedAfter(p, new) = CollectExported(new)
<1>1. src \in Sources /\ new \in Sources /\ p \in Paths /\ Members(new) = Paths
  BY AllMembers DEF EditOf
<1>2. ASSUME NEW q \in Paths, q # p, NEW ref
      PROVE  OwnExport(ref, q, src) <=> OwnExport(ref, q, new)
  <2>1. new[q] = src[q]
    BY <1>2 DEF EditOf
  <2>2. \A n : RefFor([path |-> q, name |-> n, copy |-> 0], new)
               = RefFor([path |-> q, name |-> n, copy |-> 0], src)
    BY <2>1 DEF RefFor
  <2> QED
    BY <2>1, <2>2 DEF OwnExport
<1>3. ASSUME NEW q, NEW ref, NEW sources, OwnExport(ref, q, sources) PROVE ref.path = q
  BY <1>3 DEF OwnExport, RefFor
<1>4. ExportRefs(p, new) \subseteq CollectExported(new)
  BY <1>1 DEF CollectExported, ExportsResolve
<1>5. ASSUME NEW ref, OwnExport(ref, p, new) PROVE ref \in ExportRefs(p, new)
  <2>1. PICK e \in Exports[p][new[p]] :
          e[1] = p /\ ref = RefFor([path |-> p, name |-> e[2], copy |-> 0], new)
    BY <1>5 DEF OwnExport
  <2>2. [path |-> p, name |-> e[2], copy |-> 0] \in ExportedSymbols(p, new)
    BY <2>1 DEF ExportedSymbols
  <2> QED
    BY <2>1, <2>2 DEF ExportRefs
<1>6. ASSUME NEW ref \in ExportedAfter(p, new) PROVE ref \in CollectExported(new)
  <2>1. CASE ref \in ExportRefs(p, new)
    BY <1>4, <2>1
  <2>2. CASE ref \in CollectExported(src) /\ ref.path # p
    <3>1. PICK q \in Paths : OwnExport(ref, q, src)
      BY <1>1, <2>2, CollectedOwn
    <3>2. q # p
      BY <1>3, <2>2, <3>1
    <3>3. OwnExport(ref, q, new)
      BY <1>2, <3>1, <3>2
    <3> QED
      BY <1>1, <3>3, CollectedOwn
  <2> QED
    BY <1>6, <2>1, <2>2 DEF ExportedAfter
<1>7. ASSUME NEW ref \in CollectExported(new) PROVE ref \in ExportedAfter(p, new)
  <2>1. PICK q \in Paths : OwnExport(ref, q, new)
    BY <1>1, CollectedOwn
  <2>2. CASE q = p
    BY <1>5, <2>1, <2>2 DEF ExportedAfter
  <2>3. CASE q # p
    <3>1. ref \in CollectExported(src)
      BY <1>1, <1>2, <2>1, <2>3, CollectedOwn
    <3> QED
      BY <1>3, <2>1, <2>3, <3>1 DEF ExportedAfter
  <2> QED
    BY <2>2, <2>3
<1> QED
  BY <1>6, <1>7

\* An edit of one file.
LEMMA SingleEdit ==
  ASSUME src \in Sources, NEW edit \in Edits, Cardinality(DOMAIN edit) = 1,
         NEW p \in DOMAIN edit
  PROVE  EditOf(p, src, Overwrite(src, edit))
<1>1. IsFiniteSet(DOMAIN edit) /\ DOMAIN edit \subseteq Paths
  BY IdentityAssumption DEF IdentityAssumption, Partial
<1>2. IsFiniteSet(DOMAIN edit \ {p}) /\ Cardinality(DOMAIN edit \ {p}) = 0
  BY <1>1, FS_RemoveElement
<1>3. DOMAIN edit \ {p} = {}
  BY <1>2, FS_EmptySet
<1>4. /\ Overwrite(src, edit) \in Sources
      /\ \A q \in Paths \ DOMAIN edit : Overwrite(src, edit)[q] = src[q]
  BY UpdatedSources
<1> QED
  BY <1>1, <1>3, <1>4 DEF EditOf

\* The symbols an update sets identities for.
LEMMA PresetExported ==
  ASSUME Roots = Paths, NEW new \in Sources, ExportsResolve(new), NEW p \in Paths,
         NEW s \in ExportedSymbols(p, new)
  PROVE  /\ IsSymbol(s) /\ s.copy = 0 /\ s.path \in Paths
         /\ IsExported(s, new) /\ Declared(s, new)
         /\ RestartId(s, new) = ExportedId(RefFor(s, new))
<1>1. PICK e \in Exports[p][new[p]] : s = [path |-> e[1], name |-> e[2], copy |-> 0]
  BY DEF ExportedSymbols
<1>2. e[1] \in Paths /\ e = <<e[1], e[2]>>
  BY IdentityAssumption DEF IdentityAssumption, Sources
<1>3. e \in Exports[e[1]][new[e[1]]]
  BY DEF ExportsResolve, Exportable
<1>4. IsSymbol(s) /\ s.copy = 0 /\ s.path = e[1] /\ s.name = e[2]
  BY <1>1 DEF IsSymbol
<1>5. IsExported(s, new)
  BY <1>2, <1>3, <1>4 DEF IsExported
<1> QED
  BY <1>2, <1>4, <1>5, ExportedDeclared DEF RestartId

\* An update that knows the exports of the edited file.
LEMMA IdentitiesIncremental ==
  ASSUME Roots = Paths, IdentitiesInvariant, ExportsResolve(src),
         NEW p, NEW new, EditOf(p, src, new), ExportsResolve(new), Incremental(p, new)
  PROVE  /\ exported' = CollectExported(new)
         /\ Named(book', new)
         /\ FactsTrue(held', book'.durable, new)
<1> DEFINE I == Identity(p, new)
           P == Preset(p, new)
           C == ExportedSymbols(p, new)
           refs == [id \in DOMAIN P |-> RefFor(P[id], new)]
           d == DurableAfter(refs)
<1>0. /\ src \in Sources /\ new \in Sources /\ p \in Paths
      /\ Members(src) = Paths /\ Members(new) = Paths
  BY AllMembers DEF EditOf
<1>1. exported' = CollectExported(new)
  BY ExportedUpdated DEF Incremental, IdentitiesInvariant
<1>2. book'.ids = I /\ book'.byId = P /\ book'.durable = d
  BY IncrementalBook
<1>3. /\ DOMAIN I = C
      /\ \A s \in C : I[s] = ExportedId(RefFor(s, new)) /\ I[s] \in DOMAIN P /\ P[I[s]] = s
      /\ \A id \in DOMAIN P : P[id] \in C /\ I[P[id]] = id /\ DurableId(id)
  BY PresetPairs
<1>4. \A s \in C : /\ IsSymbol(s) /\ s.copy = 0 /\ s.path \in Paths
                   /\ IsExported(s, new) /\ Declared(s, new)
                   /\ RestartId(s, new) = ExportedId(RefFor(s, new))
  BY <1>0, PresetExported
<1> HIDE DEF I, P, C
<1>5. /\ DOMAIN d = DOMAIN book.durable \cup DOMAIN P
      /\ \A id \in DOMAIN P : d[id] = RefFor(P[id], new)
      /\ \A id \in DOMAIN book.durable : id \notin DOMAIN P => d[id] = book.durable[id]
  BY DEF DurableAfter
<1> HIDE DEF d
<1>6. Named(book', new)
  <2> SUFFICES ASSUME NEW s \in C
               PROVE  /\ IsSymbol(s)
                      /\ s.path \in Paths /\ IsExported(s, new) => s.copy = 0
                      /\ DurableId(I[s]) =>
                           /\ Declared(s, new) /\ I[s] = RestartId(s, new)
                           /\ I[s] \in DOMAIN d /\ d[I[s]] = RefFor(s, new)
                      /\ Declared(s, new) => RestartId(s, new) \in DOMAIN P
    BY <1>2, <1>3 DEF Named
  <2> QED
    BY <1>3, <1>4, <1>5
<1>7. ASSUME NEW q \in DOMAIN held', NEW s \in DOMAIN held'[q]
      PROVE  q \in Paths /\ FactTrue(q, s, held'[q][s], d, new)
  <2> DEFINE leaf     == Importers(p, src) = {}
             affect   == IF leaf \/ Preserved(p, new) THEN {p}
                         ELSE AffectedFromReverseDeps({p}, src, new)
             id       == held[q][s]
  <2>1. held' = Restrict2(held, Members(new) \ affect)
    BY DEF Incremental
  <2>2. p \in affect
    BY <1>0, ImportersAffected
  <2>3. q \in DOMAIN held /\ q \notin affect /\ held'[q] = held[q]
    <3> HIDE DEF affect
    <3> QED
      BY <2>1 DEF Restrict2
  <2>4. q \in Paths /\ q # p /\ FactTrue(q, s, id, book.durable, src)
    BY <1>7, <2>2, <2>3 DEF IdentitiesInvariant, FactsTrue
  <2>5. /\ id \in DOMAIN book.durable /\ id = RestartId(s, src)
        /\ s.path = q \/ (s.path \in Edges(q, src) /\ IsExported(s, src))
    BY <2>4 DEF FactTrue
  <2>6. ASSUME s.path = p
        PROVE  /\ Exports[p][new[p]] = Exports[p][src[p]]
               /\ id \in DOMAIN P
    <3>1. p \in Edges(q, src) /\ IsExported(s, src)
      BY <2>4, <2>5, <2>6
    <3>2. ~leaf
      BY <1>0, <2>4, <3>1 DEF Importers
    <3>3. Preserved(p, new)
      BY <1>0, <2>3, <2>4, <3>1, <3>2, ImportersAffected
    <3>4. Exports[p][new[p]] = Exports[p][src[p]]
      BY <3>3 DEF Preserved
    <3> DEFINE e == <<s.path, s.name>>
               z == [path |-> e[1], name |-> e[2], copy |-> 0]
    <3>5. e \in Exports[p][new[p]]
      BY <2>6, <3>1, <3>4 DEF IsExported
    <3>6. z \in C
      BY <3>5 DEF C, ExportedSymbols
    <3>7. z.path = s.path /\ z.name = s.name
      OBVIOUS
    <3> HIDE DEF z
    <3>8. I[z] = ExportedId(RefFor(z, new)) /\ I[z] \in DOMAIN P
      BY <1>3, <3>6
    <3>9. id = ExportedId(RefFor(s, src))
      BY <2>5, <3>1 DEF RestartId
    <3>10. ExportedId(RefFor(s, src)) = ExportedId(RefFor(z, new))
      BY <3>7 DEF ExportedId, RefFor
    <3> QED
      BY <3>4, <3>8, <3>9, <3>10
  <2>7. ASSUME id \in DOMAIN P PROVE d[id] = RefFor(s, new)
    <3>1. P[id] \in C /\ I[P[id]] = id
      BY <1>3, <2>7
    <3>2. RestartId(P[id], new) = id
      BY <1>3, <1>4, <3>1
    <3>3. P[id].path = s.path /\ P[id].name = s.name
      BY <2>5, <3>2, SameRestart
    <3> QED
      BY <1>5, <2>7, <3>3, SameDeclaration
  <2>8. id \in DOMAIN d
    BY <1>5, <2>5
  <2>9. d[id] = RefFor(s, new) \/ (s.path # p /\ d[id] = book.durable[id])
    BY <1>5, <2>5, <2>6, <2>7
  <2> HIDE DEF id
  <2>10. FactTrue(q, s, id, d, new)
    BY <2>4, <2>6, <2>8, <2>9, FactKept
  <2> QED
    BY <2>3, <2>4, <2>10 DEF id
<1>8. FactsTrue(held', d, new)
  <2>1. \A q \in DOMAIN held' : q \in Paths
    BY <1>0 DEF Incremental, Restrict2
  <2> QED
    BY <1>7, <2>1 DEF FactsTrue
<1> QED
  BY <1>1, <1>2, <1>6, <1>8

\* An update that does not.
LEMMA IdentitiesUnknown ==
  ASSUME Roots = Paths, IdentitiesInvariant,
         NEW p, NEW new, EditOf(p, src, new), IncrementalUnknown(p, new)
  PROVE  /\ exported' = CollectExported(new)
         /\ Named(book', new)
         /\ FactsTrue(held', book'.durable, new)
<1> DEFINE affect == AffectedFromReverseDeps({p}, src, new)
<1>1. /\ exported' = CollectExported(new)
      /\ book' = [book EXCEPT !.ids = NoMap, !.byId = NoMap, !.minted = 0]
      /\ held' = Restrict2(held, Members(new) \ affect)
  BY DEF IncrementalUnknown
<1>2. DOMAIN book = BookFields
  BY DEF IdentitiesInvariant, PairedInvariant, Paired
<1>3. book'.durable = book.durable /\ DOMAIN book'.ids = {}
  BY <1>1, <1>2, DroppedBook DEF NoMap
<1>4. /\ p \in Paths /\ p \in affect
      /\ \A q \in Paths : p \in Edges(q, src) => q \in affect
  BY ImportersAffected DEF EditOf
<1> HIDE DEF affect
<1>5. ASSUME NEW q \in DOMAIN held'
      PROVE  q \in Paths /\ q # p /\ q \notin affect /\ q \in DOMAIN held /\ held'[q] = held[q]
  <2>1. q \in DOMAIN held /\ q \in Members(new) \ affect /\ held'[q] = held[q]
    BY <1>1 DEF Restrict2
  <2> QED
    BY <1>4, <2>1, MembersArePaths
<1>6. ASSUME NEW q \in DOMAIN held', NEW s \in DOMAIN held'[q]
      PROVE  FactTrue(q, s, held'[q][s], book'.durable, new)
  <2>1. q \in Paths /\ q # p /\ q \notin affect /\ held'[q] = held[q] /\ s \in DOMAIN held[q]
    BY <1>5, <1>6
  <2>2. FactTrue(q, s, held[q][s], book.durable, src)
    BY <1>5, <2>1 DEF IdentitiesInvariant, FactsTrue
  <2>3. /\ held[q][s] \in DOMAIN book.durable
        /\ s.path = q \/ s.path \in Edges(q, src)
    BY <2>2 DEF FactTrue
  <2>4. s.path # p
    BY <1>4, <2>1, <2>3
  <2>5. FactTrue(q, s, held[q][s], book.durable, new)
    BY <2>1, <2>2, <2>3, <2>4, FactKept
  <2> QED
    BY <1>3, <2>1, <2>5
<1>7. FactsTrue(held', book'.durable, new)
  BY <1>5, <1>6 DEF FactsTrue
<1>8. Named(book', new)
  BY <1>3 DEF Named
<1> QED
  BY <1>1, <1>7, <1>8

\* A rebuild keeps no symbol and no fact.
LEMMA IdentitiesRebuild ==
  ASSUME NEW new, Rebuild(new)
  PROVE  /\ exported' = CollectExported(new)
         /\ Named(book', new)
         /\ FactsTrue(held', book'.durable, new)
<1>1. exported' = CollectExported(new) /\ held' = Empty
  BY DEF Rebuild
<1>2. PICK d : book' = [ids |-> NoMap, byId |-> NoMap, minted |-> 0, durable |-> d]
  BY DEF Rebuild
<1>3. DOMAIN book'.ids = {} /\ DOMAIN held' = {}
  BY <1>1, <1>2 DEF NoMap, Empty
<1> QED
  BY <1>1, <1>3 DEF Named, FactsTrue

\* An update.
LEMMA IdentitiesUpdate ==
  ASSUME Roots = Paths, IdentitiesInvariant, ExportsResolve(src), ExportsResolve(src)',
         NEW edit \in Edits, Update(edit)
  PROVE  IdentitiesInvariant'
<1> DEFINE new == Overwrite(src, edit)
<1>1. src' = new /\ src \in Sources /\ PairedInvariant'
  BY PairedUpdate DEF Update, IdentitiesInvariant, PairedInvariant
<1>2. ExportsResolve(new)
  BY <1>1 DEF ExportsResolve, Exportable
<1>3. /\ exported' = CollectExported(new)
      /\ Named(book', new)
      /\ FactsTrue(held', book'.durable, new)
  <2>1. CASE Cardinality(DOMAIN edit) = 1
    <3>1. PICK p \in DOMAIN edit : Incremental(p, new) \/ IncrementalUnknown(p, new)
      BY <2>1 DEF Update
    <3>2. EditOf(p, src, new)
      BY <1>1, <2>1, SingleEdit
    <3> HIDE DEF new
    <3> QED
      BY <1>2, <3>1, <3>2, IdentitiesIncremental, IdentitiesUnknown
  <2>2. CASE Cardinality(DOMAIN edit) # 1
    <3>1. Rebuild(new)
      BY <2>2 DEF Update
    <3> QED
      BY <3>1, IdentitiesRebuild
  <2> QED
    BY <2>1, <2>2
<1> HIDE DEF new
<1>4. CollectExported(src)' = CollectExported(new)
  BY <1>1
<1>5. Named(book, src)' /\ FactsTrue(held, book.durable, src)'
  BY <1>1, <1>3
<1> QED
  BY <1>1, <1>3, <1>4, <1>5 DEF IdentitiesInvariant

-----------------------------------------------------------------------------
(* Identities of a restart: the theorems.                                  *)

\* Every step between states in which every export resolves.
LEMMA IdentitiesStep ==
  ASSUME Roots = Paths, ImportersUseExports, OneSymbolPerExport,
         IdentitiesInvariant, ExportsResolve(src), ExportsResolve(src)', [Next]_vars
  PROVE  IdentitiesInvariant'
<1>1. Regular
  BY InvariantRegular
<1>2. ASSUME Release PROVE IdentitiesInvariant'
  <2>1. /\ book' = [book EXCEPT !.ids = NoMap, !.byId = NoMap, !.minted = 0]
        /\ src' = src /\ held' = held /\ exported' = exported
    BY <1>2 DEF Release
  <2>2. DOMAIN book = BookFields
    BY DEF IdentitiesInvariant, PairedInvariant, Paired
  <2>3. book'.durable = book.durable /\ DOMAIN book'.ids = {}
    BY <2>1, <2>2, DroppedBook DEF NoMap
  <2>4. PairedInvariant'
    BY <1>2, PairedStep DEF Next, IdentitiesInvariant
  <2>5. Named(book, src)'
    BY <2>3 DEF Named
  <2>6. FactsTrue(held, book.durable, src)'
    BY <2>1, <2>3 DEF IdentitiesInvariant
  <2>7. (exported = CollectExported(src))'
    BY <2>1 DEF IdentitiesInvariant
  <2> QED
    BY <2>4, <2>5, <2>6, <2>7 DEF IdentitiesInvariant
<1>3. ASSUME UNCHANGED vars PROVE IdentitiesInvariant'
  <2>1. book' = book /\ src' = src /\ held' = held /\ exported' = exported
    BY <1>3 DEF vars
  <2>2. PairedInvariant'
    BY PairedStep DEF IdentitiesInvariant
  <2> QED
    BY <2>1, <2>2 DEF IdentitiesInvariant
<1> QED
  BY <1>1, <1>2, <1>3, IdentitiesScan, IdentitiesQuery, IdentitiesUpdate DEF Next

\* The first state.
LEMMA IdentitiesInit ==
  ASSUME Init
  PROVE  IdentitiesInvariant
<1>1. DOMAIN book.ids = {} /\ DOMAIN held = {}
  BY DEF Init, NoMap, Empty
<1> QED
  BY <1>1, PairedInit DEF Init, IdentitiesInvariant, Named, FactsTrue

\* The identities of retained facts are those of a restart, and lead back to
\* their declarations, in a state of the invariant.
LEMMA InvariantResolves ==
  ASSUME Roots = Paths, IdentitiesInvariant, ExportsResolve(src)
  PROVE  RestartStable /\ HeldIdsResolve
<1> SUFFICES ASSUME NEW p \in DOMAIN held, NEW s \in DOMAIN held[p]
             PROVE  /\ held[p][s] = FreshId(s)
                    /\ \E found \in SymbolFor(book, held[p][s]) :
                         found.path = s.path /\ found.name = s.name
  BY DEF RestartStable, HeldIdsResolve
<1> DEFINE id == held[p][s]
<1>1. /\ Declared(s, src) /\ id = RestartId(s, src)
      /\ id \in DOMAIN book.durable /\ book.durable[id] = RefFor(s, src)
  BY DEF IdentitiesInvariant, FactsTrue, FactTrue
<1>2. src \in Sources /\ s.path \in Paths /\ Paired(book) /\ Named(book, src)
  BY <1>1, MembersArePaths DEF IdentitiesInvariant, PairedInvariant, Declared
<1>3. id = FreshId(s)
  BY <1>1, <1>2, CollectedSymbol DEF FreshId, RestartId
<1> HIDE DEF id
<1>4. CASE id \in DOMAIN book.byId
  <2> DEFINE z == book.byId[id]
  <2>1. z \in DOMAIN book.ids /\ book.ids[z] = id /\ DurableId(id)
    BY <1>1, <1>2, <1>4, RestartDurable DEF Paired
  <2>2. id = RestartId(z, src)
    BY <1>2, <2>1 DEF Named
  <2>3. z.path = s.path /\ z.name = s.name
    BY <1>1, <2>2, SameRestart
  <2>4. z \in SymbolFor(book, id)
    BY <1>4 DEF SymbolFor
  <2> QED
    BY <1>3, <2>3, <2>4 DEF id
<1>5. CASE id \notin DOMAIN book.byId
  <2> DEFINE ref == RefFor(s, src)
             z == [path |-> s.path, name |-> s.name, copy |-> 0]
  <2>1. z.path = s.path /\ z.name = s.name
    OBVIOUS
  <2>2. z \in [path : {ref.path}, name : {ref.name}, copy : {0}]
    BY DEF RefFor
  <2> HIDE DEF z
  <2>3. Declared(z, src) /\ RefFor(z, src) = ref /\ RestartId(z, src) = id
    BY <1>1, <2>1, SameDeclaration
  <2>4. z \in DeclaredAt(ref)
    BY <2>2, <2>3 DEF DeclaredAt
  <2>5. z \notin DOMAIN book.ids
    BY <1>2, <1>5, <2>3 DEF Named
  <2>6. z \in SymbolFor(book, id)
    BY <1>1, <1>5, <2>4, <2>5 DEF SymbolFor
  <2> QED
    BY <1>3, <2>1, <2>6 DEF id
<1> QED
  BY <1>4, <1>5

\* While every export resolves, the identities in retained facts are those of a
\* restart on the same sources (idFor, preserveExportIdentities and
\* sweepDurableIdentities of project.go), through any sequence of analyses,
\* releases and updates, on a project whose files are all configured, whose
\* importers use exported names and whose exports have one symbol each.
THEOREM RestartStaysStable ==
  ASSUME Roots = Paths, ImportersUseExports, OneSymbolPerExport
  PROVE  Spec /\ []ExportsResolve(src) => []RestartStable
<1>1. IdentitiesInvariant /\ ExportsResolve(src) /\ ExportsResolve(src)' /\ [Next]_vars
        => IdentitiesInvariant'
  BY IdentitiesStep
<1>2. IdentitiesInvariant /\ ExportsResolve(src) => RestartStable
  BY InvariantResolves
<1> QED
  BY <1>1, <1>2, IdentitiesInit, PTL DEF Spec

\* On the same projects, every identity that retained facts hold leads to the
\* declaration it was given for (symbolFor of project.go): the facts of a file
\* an update left alone stay usable.
THEOREM HeldIdsKeepResolving ==
  ASSUME Roots = Paths, ImportersUseExports, OneSymbolPerExport
  PROVE  Spec /\ []ExportsResolve(src) => []HeldIdsResolve
<1>1. IdentitiesInvariant /\ ExportsResolve(src) /\ ExportsResolve(src)' /\ [Next]_vars
        => IdentitiesInvariant'
  BY IdentitiesStep
<1>2. IdentitiesInvariant /\ ExportsResolve(src) => HeldIdsResolve
  BY InvariantResolves
<1> QED
  BY <1>1, <1>2, IdentitiesInit, PTL DEF Spec
=============================================================================
