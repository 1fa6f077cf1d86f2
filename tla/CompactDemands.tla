--------------------------- MODULE CompactDemands ---------------------------
(***************************************************************************)
(* The compact form of the demands of a request.  The client packs them     *)
(* with one string dictionary for the frame; the producer keeps the packed  *)
(* rows of a path with the dictionary they came with, for as long as the    *)
(* path is demanded, and expands them when an analysis needs them.          *)
(*                                                                          *)
(* A demand is [path, at, wants, query]: a path as the client spells it, a  *)
(* start byte, the facts wanted there, and the path of the query location,  *)
(* if there is one, as a sequence of at most one path.  The length of a     *)
(* location and the offsets of the query location are carried verbatim and  *)
(* left out.                                                                *)
(***************************************************************************)
EXTENDS Naturals, Sequences, SequencesExt, FiniteSetsExt

\* A path as it is spelled: [clean, dotted].
EmptyString == [clean |-> 0, dotted |-> FALSE]

\* filepath.Clean.
Clean(path) == path.clean

CleanQuery(query) == [i \in DOMAIN query |-> Clean(query[i])]

\* What a group retains of a demand.
Row(demand) ==
  [at |-> demand.at, wants |-> demand.wants, query |-> CleanQuery(demand.query)]

\* Four of the nineteen flag bits; the others are carried the same way.
FlagOf ==
  [symbol |-> 2^0, references |-> 2^1, async |-> 2^4, parameterObjectShape |-> 2^18]

Flags(wants) == MapThenSumSet(LAMBDA want : FlagOf[want], wants)

HasFlag(flags, want) == (flags \div FlagOf[want]) % 2 = 1

-----------------------------------------------------------------------------
(* compact_demands, and its twin CompactDemandsV3From.                     *)

\* stringTableV3.intern: first occurrences in order, behind the empty string.
Intern(strings, path) ==
  IF path \in ToSet(strings) THEN strings ELSE Append(strings, path)

StringTable(demands) ==
  LET mentioned == FlattenSeq([i \in DOMAIN demands |->
                                 <<demands[i].path>> \o demands[i].query])
  IN  FoldLeft(Intern, <<EmptyString>>, mentioned)

\* Indexes count from zero.
IndexOf(strings, path) == SelectInSeq(strings, LAMBDA s : s = path) - 1

\* A group begins where the path changes or the start bytes go back.
BeginsGroup(demands, i) ==
  \/ i = 1
  \/ demands[i].path # demands[i - 1].path
  \/ demands[i].at < demands[i - 1].at

\* One row: the header, the start as a distance from the row before, the index
\* of the query path.
PackRow(strings, demands, i) ==
  LET demand == demands[i]
      previousStart == IF BeginsGroup(demands, i) THEN 0 ELSE demands[i - 1].at
  IN  [ header |-> 2 * Flags(demand.wants) + Len(demand.query),
        delta  |-> demand.at - previousStart,
        query  |-> [q \in DOMAIN demand.query |-> IndexOf(strings, demand.query[q])] ]

CompactDemandsFrom(demands) ==
  LET strings == StringTable(demands)
      begins  == SetToSortSeq({i \in DOMAIN demands : BeginsGroup(demands, i)}, <)
      End(g)  == IF g = Len(begins) THEN Len(demands) ELSE begins[g + 1] - 1
  IN  [ strings |-> strings,
        groups  |-> [g \in DOMAIN begins |->
          [ path |-> IndexOf(strings, demands[begins[g]].path),
            rows |-> [k \in 1 .. End(g) - begins[g] + 1 |->
                        PackRow(strings, demands, begins[g] + k - 1)] ]] ]

-----------------------------------------------------------------------------
(* A retained run: packed rows with their dictionary, or plain rows with    *)
(* none.                                                                    *)

IsCompact(run) == run.strings # << >>

\* stringUntableV3.lookup.
Lookup(strings, index) == strings[index + 1]

\* The start byte of a packed row is the sum of the distances up to it.
StartOf(rows, k) ==
  LET start[i \in 0 .. k] == IF i = 0 THEN 0 ELSE start[i - 1] + rows[i].delta
  IN  start[k]

ExpandRow(run, k) ==
  LET row == run.rows[k]
  IN  [ at    |-> StartOf(run.rows, k),
        wants |-> {want \in DOMAIN FlagOf : HasFlag(row.header \div 2, want)},
        query |-> IF row.header % 2 = 1
                  THEN <<Clean(Lookup(run.strings, row.query[1]))>> ELSE << >> ]

\* demandGroup.ensureExpanded: Expand, then canonicalizeDemandRun.  The
\* expanded rows are a cache of the packed ones, dropped after the analysis.
Expanded(run) ==
  IF IsCompact(run) THEN [k \in DOMAIN run.rows |-> ExpandRow(run, k)] ELSE run.rows

\* Mutant: the rows that are not selected do not move the start on.
AsyncRowsSkipping(run) ==
  IF IsCompact(run)
  THEN LET packed == SelectSeq(run.rows, LAMBDA row : HasFlag(row.header \div 2, "async"))
       IN  [s \in DOMAIN packed |-> ExpandRow([run EXCEPT !.rows = packed], s)]
  ELSE SelectSeq(run.rows, LAMBDA row : "async" \in row.wants)

\* demandGroup.appendAsyncDemands, which expands only the rows it selects.
AsyncRows(run) ==
  IF IsCompact(run)
  THEN LET selected == SetToSortSeq({k \in DOMAIN run.rows :
                         HasFlag(run.rows[k].header \div 2, "async")}, <)
       IN  [s \in DOMAIN selected |-> ExpandRow(run, selected[s])]
  ELSE SelectSeq(run.rows, LAMBDA row : "async" \in row.wants)

=============================================================================
