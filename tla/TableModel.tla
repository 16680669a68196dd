----------------------------- MODULE TableModel -----------------------------
(* What a list view shows of a table: frontend/table_model_impl.h over       *)
(* views/ordered.h, frontend/hierarchy.h, trackables_provider.h,             *)
(* projection_view.h and headers_model.cpp. The rows are those of a call     *)
(* tree; an order is made on request or when the table is invalidated, and   *)
(* the positions of the rows that the view tracks are looked up after it.    *)
EXTENDS Naturals, FiniteSets, Sequences, SequencesExt

CONSTANTS
  Rows,          \* identifiers of rows, > 0
  Parent,        \* the parent of each row, 0 for a root
  Values,        \* what a row may show in the column of numbers
  Module,        \* the module of each row's function
  Name,          \* the order of the rows' names, once they are known
  Columns,       \* sequence of [shows, compare, ascending, number]
  MaxTracked,    \* bound on trackables
  MaxChanged     \* bound on rows that a message adds or changes

ASSUME RowsAssumption == IsFiniteSet(Rows) /\ Rows \subseteq Nat \ {0}

\* The rows are those of a tree: nobody is its own parent's parent.
ASSUME ParentAssumption ==
  /\ Parent \in [Rows -> Rows \cup {0}]
  /\ \E depth \in [Rows \cup {0} -> 0..Cardinality(Rows)] : \A r \in Rows : depth[Parent[r]] < depth[r]
ASSUME ShownAssumption ==
  /\ Values \subseteq Nat /\ Name \in [Rows -> Nat]
  /\ \A c \in DOMAIN Columns : c # 0 /\ Columns[c].ascending \in BOOLEAN

VARIABLES
  table,         \* the underlying table: value of each row there is
  named,         \* rows whose symbols are known to the resolver
  ordered,       \* _ordered_data: the rows as they are shown
  order,         \* [column, ascending] that _sort is bound to, column 0 for none
  headers,       \* [column, ascending] of the headers_model
  saved,         \* what the configuration holds of them
  projected,     \* column shown by the series, 0 for none
  tracked,       \* sequence of [key, index]
  outdated       \* names came since the rows were put in order

tableVars == <<table, named, ordered, order, headers, saved, projected, tracked, outdated>>

npos == 0

\* columns_layout.cpp: what is compared in a column; an unknown name is empty.
Shown(t, known, column, row) ==
  CASE Columns[column].shows = "name" -> IF row \in known THEN Name[row] ELSE 0
    [] OTHER -> t[row]

\* Less than 0, 0 or more than 0, as table_model_impl binds the comparison of a column.
Compared(t, known, o, lhs, rhs) ==
  LET l == Shown(t, known, o.column, lhs)
      r == Shown(t, known, o.column, rhs)
  IN  IF o.column = npos \/ l = r THEN "same"
      ELSE IF (l < r) = o.ascending THEN "less" ELSE "greater"

path[row \in Rows \cup {0}] == IF row = 0 THEN << >> ELSE Append(path[Parent[row]], row)

total_predicate(t, known, o, lhs, rhs) ==
  \/ Compared(t, known, o, lhs, rhs) = "less"
  \/ Compared(t, known, o, lhs, rhs) = "same" /\ lhs < rhs

\* Mutant: compared as the rows of their roots only.
LessWithoutDepth(t, known, o, lhs, rhs) ==
  IF Parent[lhs] = Parent[rhs] THEN total_predicate(t, known, o, lhs, rhs)
  ELSE total_predicate(t, known, o, path[lhs][1], path[rhs][1])

hierarchical_less(t, known, o, lhs, rhs) ==
  LET lp == path[lhs]
      rp == path[rhs]
      differ == {k \in 1..Min({Len(lp), Len(rp)}) : lp[k] # rp[k]}
  IN  IF Parent[lhs] = Parent[rhs] THEN total_predicate(t, known, o, lhs, rhs)
      ELSE IF differ # {} THEN total_predicate(t, known, o, lp[Min(differ)], rp[Min(differ)])
      ELSE Len(lp) < Len(rp)

\* ordered::fetch and _sort: std::sort may leave equal rows in any order.
Sorted(t, known, o) ==
  {s \in SetToSeqs(DOMAIN t) : \A i, j \in DOMAIN s :
     i < j => ~hierarchical_less(t, known, o, s[j], s[i])}

\* Mutant: a row that is gone keeps its position.
FetchedKept(tr, rows) ==
  [k \in DOMAIN tr |-> [tr[k] EXCEPT !.index =
     IF \E i \in DOMAIN rows : rows[i] = tr[k].key
     THEN Max({i \in DOMAIN rows : rows[i] = tr[k].key}) ELSE @]]

\* trackables_provider::fetch.
Fetched(tr, rows) ==
  [k \in DOMAIN tr |-> [tr[k] EXCEPT !.index =
     IF \E i \in DOMAIN rows : rows[i] = tr[k].key
     THEN Max({i \in DOMAIN rows : rows[i] = tr[k].key}) ELSE npos]]

-----------------------------------------------------------------------------
\* The constructor orders rows by their keys; a column that can be compared and was
\* chosen before is set then.
TableModelInit ==
  /\ table = << >> /\ named = {} /\ ordered = << >> /\ tracked = << >>
  /\ headers \in {[column |-> c, ascending |-> FALSE] : c \in DOMAIN Columns}
  /\ order = IF Columns[headers.column].compare THEN headers ELSE [column |-> npos, ascending |-> TRUE]
  /\ saved = headers
  /\ projected = IF Columns[headers.column].number THEN headers.column ELSE 0
  /\ outdated = FALSE

\* table_model_impl::fetch, when the table is invalidated after a change.
fetch(t) ==
  /\ table' = t
  /\ ordered' \in Sorted(t, named, order)
  /\ tracked' = Fetched(tracked, ordered')
  /\ outdated' = FALSE
  /\ UNCHANGED <<named, order, headers, saved, projected>>

\* table_model_impl::set_order: a column that cannot be compared changes
\* only what the series shows.
set_order(o) ==
  /\ IF o.column = npos \/ Columns[o.column].compare
     THEN /\ order' = o
          /\ ordered' \in Sorted(table, named, o)
          /\ outdated' = FALSE
     ELSE UNCHANGED <<order, ordered, outdated>>
  /\ projected' = IF o.column = npos THEN projected
                  ELSE IF Columns[o.column].number THEN o.column ELSE 0
  /\ tracked' = Fetched(tracked, ordered')

\* headers_model::activate_column: the view's header is clicked.
activate_column(column) ==
  /\ Columns[column].compare
  /\ headers' = [column |-> column,
                 ascending |-> IF headers.column = column THEN ~headers.ascending
                               ELSE Columns[column].ascending]
  /\ set_order(headers')
  /\ UNCHANGED <<table, named, saved>>

\* headers_model::store, and update with attach when the view is made again.
store ==
  /\ saved' = headers
  /\ UNCHANGED <<table, named, ordered, order, headers, projected, tracked, outdated>>

update ==
  /\ headers' = [saved EXCEPT !.column = IF @ \in DOMAIN Columns THEN @ ELSE npos]
  /\ set_order(headers')
  /\ UNCHANGED <<table, named, saved>>

track(index) ==
  /\ Len(tracked) < MaxTracked
  /\ tracked' = Append(tracked, [key |-> ordered[index], index |-> index])
  /\ UNCHANGED <<table, named, ordered, order, headers, saved, projected, outdated>>

release(k) ==
  /\ tracked' = RemoveAt(tracked, k)
  /\ UNCHANGED <<table, named, ordered, order, headers, saved, projected, outdated>>

\* The resolver gets a module's symbols: the view is redrawn and not sorted.
NamesArrive(known) ==
  /\ named' = named \cup known
  /\ outdated' = \/ outdated
                 \/ /\ ~known \subseteq named
                    /\ order.column # npos
                    /\ Columns[order.column].shows = "name"
  /\ UNCHANGED <<table, ordered, order, headers, saved, projected, tracked>>

\* Tables a message may leave behind: rows are added, their values grow, all are
\* cleared. A row may come back: the key in the list of processes is the pid.
Trees == {s \in SUBSET Rows : \A r \in s : Parent[r] \in s \cup {0}}
Tables == UNION {[s -> Values] : s \in Trees}
Changed(t) == {r \in DOMAIN t : r \notin DOMAIN table \/ t[r] # table[r]}
Grown ==
  {t \in Tables : /\ \A r \in DOMAIN table : r \in DOMAIN t /\ t[r] >= table[r]
                  /\ Cardinality(Changed(t)) <= MaxChanged}

TableModelNext ==
  \/ \E t \in Grown \cup {<< >>} : fetch(t)
  \/ \E c \in DOMAIN Columns : activate_column(c)
  \/ store
  \/ update
  \/ \E i \in DOMAIN ordered : track(i)
  \/ \E k \in DOMAIN tracked : release(k)
  \/ \E r \in Rows : NamesArrive({q \in Rows : Module[q] = Module[r]})

TableModelSpec == TableModelInit /\ [][TableModelNext]_tableVars

-----------------------------------------------------------------------------
\* A row is the other one, or below it in the tree of calls.
Within(row, caller) == \E k \in DOMAIN path[row] : path[row][k] = caller

\* The rows are shown as the call tree: all of them, each caller before its callees
\* and those right after it, with nothing of another call between, and those of
\* one parent by the chosen column, in the chosen direction. Names that come
\* later do not move rows until the next order or message.
ShownAsTree ==
  outdated \/
    /\ ToSet(ordered) = DOMAIN table /\ Len(ordered) = Cardinality(DOMAIN table)
    /\ \A i, j \in DOMAIN ordered : i < j =>
         /\ ~Within(ordered[i], ordered[j])
         /\ Within(ordered[j], ordered[i]) => \A k \in i..j : Within(ordered[k], ordered[i])
         /\ Parent[ordered[i]] = Parent[ordered[j]] =>
              total_predicate(table, named, order, ordered[i], ordered[j])

\* The focus and the selection of a view follow their rows through orders and
\* messages, and know when their row is gone.
TrackedRowsFollow ==
  \A k \in DOMAIN tracked :
    IF tracked[k].index = npos THEN tracked[k].key \notin DOMAIN table
    ELSE tracked[k].index \in DOMAIN ordered /\ ordered[tracked[k].index] = tracked[k].key

=============================================================================
