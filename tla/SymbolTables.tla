---------------------------- MODULE SymbolTables ----------------------------
(* Who shows the symbols of the profiled modules: symbol_resolver.cpp, which  *)
(* names the rows of the statistics, and image_patch_model.cpp, the list of   *)
(* functions to patch, over views/flatten.h, filter.h and ordered.h. Both ask *)
(* for a module's metadata through tables::modules::request_presence, which   *)
(* calls back at once when the metadata is there and when it comes otherwise, *)
(* in the order in which it was asked for. All of it runs on one thread.      *)
EXTENDS Naturals, FiniteSets, Sequences, SequencesExt

CONSTANTS
  Modules,      \* persistent ids, > 0, in the order of the modules' paths
  Base,         \* address of each module
  Symbols,      \* per module: metadata.symbols, a sequence of [rva, size, name]
  Filters,      \* per filter, the names that it lets through
  Addresses,    \* addresses that are looked up
  Width,        \* rva is an unsigned int, of Width bits
  States        \* states of a patch, as encode_state puts them

\* Addresses are unsigned. Symbols are pushed one by one as they are read: several
\* may have one rva, as those that an ELF image has in .symtab and in .dynsym.
ASSUME ModulesAssumption == IsFiniteSet(Modules) /\ Base \in [Modules -> Nat] /\ Addresses \subseteq Nat
ASSUME SymbolsAssumption ==
  \A m \in Modules : Symbols[m] \in Seq([rva : Nat, size : Nat, name : Nat])
ASSUME FiltersAssumption == DOMAIN Filters \in (SUBSET Nat) \ {{}}
ASSUME WidthAssumption == 2^Width \in Nat \ {0}

VARIABLES
  mapped,       \* modules in tables::module_mappings
  loaded,       \* tables::modules: sequence of the modules whose metadata came
  waiting,      \* per module: who waits for its metadata
  names,        \* symbol_resolver: [cached, requested]
  listed,       \* image_patch_model: [rows, requested, paths, filter, column, ascending]
  patches,      \* tables::patches: state by <<module, rva>>
  lookedUp      \* modules that an address was looked up in

symbolVars == <<mapped, loaded, waiting, names, listed, patches, lookedUp>>

none == [rva |-> 0, size |-> 0, name |-> 0]

\* helpers.h: the last of the keys that is not greater than the value.
find_range(keys, value) ==
  LET below == {k \in keys : k <= value} IN IF below = {} THEN {} ELSE {Max(below)}

MappingOf(address) ==
  {m \in mapped : Base[m] \in find_range({Base[q] : q \in mapped}, address)}

\* The resolver's index of a module: of the symbols with one rva, the last is kept.
cached_symbols(m) ==
  [r \in {q.rva : q \in ToSet(Symbols[m])} |->
     Symbols[m][Max({k \in DOMAIN Symbols[m] : Symbols[m][k].rva = r})]]

Rva(address, m) == (address - Base[m]) % 2^Width
Candidates(address, m) ==
  {cached_symbols(m)[r] : r \in find_range(DOMAIN cached_symbols(m), Rva(address, m))}

\* Mutant: the nearest symbol below, whatever its size.
NearestSymbol(address, cached) ==
  LET found == UNION {Candidates(address, m) : m \in MappingOf(address) \cap cached}
  IN  IF found = {} THEN none ELSE CHOOSE s \in found : TRUE

\* The mapping is the last one below the address, as their sizes are unknown;
\* a symbol must reach the address to be its.
find_symbol_by_va(address, cached) ==
  LET found == UNION {{s \in Candidates(address, m) : Rva(address, m) - s.rva < s.size} :
                        m \in MappingOf(address) \cap cached}
  IN  IF found = {} THEN none ELSE CHOOSE s \in found : TRUE

-----------------------------------------------------------------------------
(* The list of functions.                                                    *)
\* A row is a module and a place in its symbols; what it is known by to patches is
\* its key, which rows of one rva share.
SymbolAt(row) == Symbols[row[1]][row[2]]
KeyOf(row) == <<row[1], SymbolAt(row).rva>>

\* flatten and filter: the symbols of the modules there are, and those that match.
Flattened(table) == UNION {{<<m, k>> : k \in DOMAIN Symbols[m]} : m \in ToSet(table)}
MatchingNames(table, filter) == {row \in Flattened(table) : SymbolAt(row).name \in Filters[filter]}

\* What is compared in a column; no patch and no path come first.
ComparedRows(l, table, row) ==
  CASE l.column = 0 -> SymbolAt(row).rva
    [] l.column = 1 -> SymbolAt(row).name
    [] l.column = 2 -> IF KeyOf(row) \in DOMAIN table THEN table[KeyOf(row)] + 1 ELSE 0
    [] l.column = 3 -> SymbolAt(row).size
    [] OTHER        -> IF row[1] \in l.paths THEN row[1] ELSE 0

Less(l, table, lhs, rhs) ==
  IF l.ascending THEN ComparedRows(l, table, lhs) < ComparedRows(l, table, rhs)
  ELSE ComparedRows(l, table, rhs) < ComparedRows(l, table, lhs)

InOrder(l, table, rows) ==
  \A i, j \in DOMAIN rows : i < j => ~Less(l, table, rows[j], rows[i])

\* ordered::fetch of what is there: equal rows come in any order.
FetchedRows(l, modules, table) ==
  {[l EXCEPT !.rows = rows] :
     rows \in {s \in SetToSeqs(MatchingNames(modules, l.filter)) : InOrder(l, table, s)}}

-----------------------------------------------------------------------------
SymbolTablesInit ==
  /\ mapped = {} /\ loaded = << >> /\ patches = << >> /\ lookedUp = {}
  /\ waiting = [m \in Modules |-> {}]
  /\ names = [cached |-> {}, requested |-> {}]
  /\ listed = [rows |-> << >>, requested |-> {}, paths |-> {}, filter |-> Min(DOMAIN Filters),
               column |-> 1, ascending |-> TRUE]

\* A look-up asks for the metadata once; when it is there, it is used at once.
symbol_name_by_va(address) ==
  /\ \E m \in MappingOf(address) :
       /\ lookedUp' = lookedUp \cup {m}
       /\ IF m \in names.cached \cup names.requested THEN UNCHANGED <<names, waiting>>
          ELSE IF m \in ToSet(loaded)
          THEN names' = [names EXCEPT !.cached = @ \cup {m}] /\ UNCHANGED waiting
          ELSE /\ names' = [names EXCEPT !.requested = @ \cup {m}]
               /\ waiting' = [waiting EXCEPT ![m] = @ \cup {"names"}]
  /\ UNCHANGED <<mapped, loaded, listed, patches>>

\* Mutant: the paths are taken, but what is missing was asked for by the constructor only.
RefreshPaths(ms) ==
  /\ ms # {} /\ ms \cap mapped = {}
  /\ mapped' = mapped \cup ms
  /\ listed' \in FetchedRows([listed EXCEPT !.paths = @ \cup mapped'], loaded, patches)
  /\ UNCHANGED <<loaded, waiting, names, patches, lookedUp>>

\* refresh and request_missing, when mappings come: each module is asked for
\* once, and after what is there called back the rows are fetched.
refresh(ms) ==
  /\ ms # {} /\ ms \cap mapped = {}
  /\ mapped' = mapped \cup ms
  /\ listed' \in FetchedRows([listed EXCEPT !.paths = @ \cup mapped', !.requested = @ \cup mapped'],
                         loaded, patches)
  /\ waiting' = [m \in Modules |-> IF m \in mapped' \ (listed.requested \cup ToSet(loaded))
                                   THEN waiting[m] \cup {"list"} ELSE waiting[m]]
  /\ UNCHANGED <<loaded, names, patches, lookedUp>>

\* Metadata is read from the cache or comes from the profiled process: a record
\* is added and whoever waits is called.
MetadataReady(m) ==
  /\ waiting[m] # {}
  /\ loaded' = Append(loaded, m)
  /\ names' = IF "names" \in waiting[m]
              THEN [cached |-> names.cached \cup {m}, requested |-> names.requested \ {m}] ELSE names
  /\ IF "list" \in waiting[m] THEN listed' \in FetchedRows(listed, loaded', patches) ELSE UNCHANGED listed
  /\ waiting' = [waiting EXCEPT ![m] = {}]
  /\ UNCHANGED <<mapped, patches, lookedUp>>

\* A patch is requested or its answer comes: tables::patches is invalidated.
PatchesInvalidated(key, state) ==
  /\ patches' = (key :> state) @@ patches
  /\ listed' \in FetchedRows(listed, loaded, patches')
  /\ UNCHANGED <<mapped, loaded, waiting, names, lookedUp>>

set_filter(filter) ==
  /\ listed' \in FetchedRows([listed EXCEPT !.filter = filter], loaded, patches)
  /\ UNCHANGED <<mapped, loaded, waiting, names, patches, lookedUp>>

\* The rows that are there are sorted.
set_order_patches(column, ascending) ==
  /\ listed' \in {[listed EXCEPT !.column = column, !.ascending = ascending, !.rows = rows] :
                    rows \in SetToSeqs(ToSet(listed.rows))}
  /\ InOrder(listed', patches, listed'.rows)
  /\ UNCHANGED <<mapped, loaded, waiting, names, patches, lookedUp>>

SymbolTablesNext ==
  \/ \E a \in Addresses : symbol_name_by_va(a)
  \/ \E ms \in SUBSET Modules : refresh(ms)
  \/ \E m \in Modules : MetadataReady(m)
  \/ \E i \in DOMAIN listed.rows, s \in States : PatchesInvalidated(KeyOf(listed.rows[i]), s)
  \/ \E f \in DOMAIN Filters : set_filter(f)
  \/ \E c \in 0..4, a \in BOOLEAN : set_order_patches(c, a)

SymbolTablesSpec == SymbolTablesInit /\ [][SymbolTablesNext]_symbolVars

-----------------------------------------------------------------------------
\* A symbol that is shown for an address contains it, also for an address that
\* is in none of the known modules, up to the wrap of the rva; and a module in
\* which an address was looked up is known to the resolver, or awaited by it.
SymbolsResolved ==
  /\ \A a \in Addresses : \A m \in MappingOf(a) :
       LET s == find_symbol_by_va(a, names.cached) IN
       a - Base[m] < 2^Width =>
         IF s # none THEN Base[m] + s.rva <= a /\ a < Base[m] + s.rva + s.size
         ELSE m \notin names.cached \/ \A q \in ToSet(Symbols[m]) : a - Base[m] \notin q.rva..(q.rva + q.size - 1)
  /\ \A m \in lookedUp : m \in names.cached \/ "names" \in waiting[m]

\* The list has a row for each symbol read of the loaded modules that matches, those
\* that share a key included, in the chosen order of what its columns show now;
\* and each module that is mapped is there or awaited.
FunctionsListed ==
  /\ ToSet(listed.rows) = MatchingNames(loaded, listed.filter)
  /\ Len(listed.rows) = Cardinality(ToSet(listed.rows))
  /\ InOrder(listed, patches, listed.rows)
  /\ \A m \in mapped : m \in ToSet(loaded) \/ "list" \in waiting[m]

=============================================================================
