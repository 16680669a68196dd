----------------------------- MODULE Statistics -----------------------------
(* The statistics of a profiling session and the tables derived from them:   *)
(* sdb/table.h, index.h and transforms.h, used by frontend/serialization.h,  *)
(* representation.cpp, derived_statistics.cpp and selection_model.h.         *)
(* Everything runs on the apartment's thread. A commit calls the table's     *)
(* components (its indices) and then its signals, and each signal's handler  *)
(* commits to the next table, so that one message is a cascade of commits;   *)
(* the operators below pass the tables, db, through that cascade in its      *)
(* order. A row of an aggregated table is identified by its key, which is    *)
(* unique there; auto_increment_constructor never repeats an id, so a        *)
(* selected row is identified by the number of clears before it as well.     *)
EXTENDS Integers, FiniteSets, Sequences, SequencesExt

CONSTANTS
  Threads,      \* identifiers of the profiled threads, > 0
  Updates,      \* statistics messages: [thread, calls], calls a sequence of trees
  MaxUpdates,   \* bound on messages
  MaxClears     \* bound on clears

VARIABLES
  db,           \* the session's statistics and the representation shown
  updates,      \* messages read
  clears,       \* clears made
  received      \* calls reported since the last clear

statisticsVars == <<db, updates, clears, received>>

cumulative == -1   \* the thread of a row that sums all threads
all == -2

Put(f, key, value) == (key :> value) @@ f
Drop(f, key) == [k \in DOMAIN f \ {key} |-> f[k]]

\* primitives.h: the ids from the root to a row.
RECURSIVE Path(_, _)
Path(table, id) ==
  IF id \in DOMAIN table THEN Append(Path(table, table[id].parent), id) ELSE << >>

Reentrant(table, id) ==
  \E k \in DOMAIN Front(Path(table, id)) : table[Path(table, id)[k]].address = table[id].address

NoStatistics == [times |-> 0, inclusive |-> 0, max |-> 0]
Add(row, s) == [row EXCEPT !.times = @ + s.times, !.inclusive = @ + s.inclusive,
                           !.max = IF s.max > @ THEN s.max ELSE @]

SumOf(table, ids, whole) ==
  [times     |-> MapThenSumSet(LAMBDA i : table[i].times, ids),
   inclusive |-> MapThenSumSet(LAMBDA i : table[i].inclusive, whole),
   max       |-> Max({0} \cup {table[i].max : i \in whole})]

sum_flat(table, ids) == SumOf(table, ids, {i \in ids : ~Reentrant(table, i)})
sum_functions(table, ids) == SumOf(table, ids, ids)

parent_address(table, row) ==
  IF row.parent \in DOMAIN table THEN table[row.parent].address ELSE 0
callstack(table, id) == [k \in DOMAIN Path(table, id) |-> table[Path(table, id)[k]].address]
address_thread(row) == <<row.address, row.thread>>
CallersKey(table, row) == <<parent_address(table, row), row.thread>>

-----------------------------------------------------------------------------
(* transforms.h: a join of the source with the selected addresses, grouped.  *)
(* "joined" is the joined table's index by the group's key: a set of         *)
(* <<key, <<id, address>>>>; "groups" is the aggregated table.               *)
NoJoin == [joined |-> {}, groups |-> << >>]

equal_range(index, key) == {e[2] : e \in {x \in index : x[1] = key}}
Members(j, key) == {pair[1] : pair \in equal_range(j.joined, key)}

\* A joined record is committed, new or not: its group is summed up again.
JoinedCommit(j, table, entry) ==
  LET next == [j EXCEPT !.joined = @ \cup {entry}]
  IN  [next EXCEPT !.groups = Put(@, entry[1], sum_flat(table, Members(next, entry[1])))]

\* A joined record goes, and with the last one its group.
JoinedRemove(j, table, entry) ==
  LET next == [j EXCEPT !.joined = @ \ {entry}]
  IN  [next EXCEPT !.groups = IF Members(next, entry[1]) = {} THEN Drop(@, entry[1])
                              ELSE Put(@, entry[1], sum_flat(table, Members(next, entry[1])))]

CommitAll(j, table, entries) == FoldSet(LAMBDA e, acc : JoinedCommit(acc, table, e), j, entries)
RemoveAll(j, table, entries) == FoldSet(LAMBDA e, acc : JoinedRemove(acc, table, e), j, entries)

-----------------------------------------------------------------------------
(* What the representation is built on, by its mode.                         *)
Source(d) == IF d.threads = cumulative THEN d.stacks ELSE d.calls
Main(d) == IF d.hierarchical THEN Source(d) ELSE d.main
MainAddress(d, id) == IF d.hierarchical THEN Source(d)[id].address ELSE id[1]

\* join_by_thread: what is shown of a table in the mode of one thread.
ShownThread(d, thread) == d.threads \in Threads => thread = d.threads
ShownMain(d) ==
  {id \in DOMAIN Main(d) : ShownThread(d, IF d.hierarchical THEN Source(d)[id].thread ELSE id[2])}
ShownGroups(d, j) == {key \in DOMAIN j.groups : ShownThread(d, key[2])}

\* group_by_thread_address: a row of the flat main table is summed up again.
FlatUpdate(d, row) ==
  LET source == Source(d) IN
  IF d.hierarchical THEN d
  ELSE [d EXCEPT !.main = Put(@, address_thread(row), sum_flat(source,
          {i \in DOMAIN source : address_thread(source[i]) = address_thread(row)}))]

SourceCreated(d, id) ==
  LET source == Source(d)
      row == source[id]
      caller == parent_address(source, row)
      Joined(j, address, key) ==
        IF address \in d.addrs THEN JoinedCommit(j, source, <<key, <<id, address>>>>) ELSE j
  IN  FlatUpdate([d EXCEPT
        !.byParent = @ \cup {<<caller, id>>},
        !.callers = Joined(@, row.address, CallersKey(source, row)),
        !.callees = Joined(@, caller, address_thread(row))], row)

SourceModified(d, id) ==
  LET source == Source(d)
      Again(j) == CommitAll(j, source, {e \in j.joined : e[2][1] = id})
  IN  FlatUpdate([d EXCEPT !.callers = Again(@), !.callees = Again(@)], source[id])

\* group_by_callstack: the rows of all threads with the same stack are summed up.
StackRow(calls, key) ==
  [thread |-> cumulative, parent |-> Front(key), address |-> Last(key)]
    @@ sum_functions(calls, {i \in DOMAIN calls : callstack(calls, i) = key})

\* commit_creation or commit_modification of a row of the session's statistics.
CallCommitted(d, id, isNew) ==
  LET key == callstack(d.calls, id)
      next == [d EXCEPT !.stacks = Put(@, key, StackRow(d.calls, key))]
  IN  CASE d.threads # cumulative -> IF isNew THEN SourceCreated(d, id) ELSE SourceModified(d, id)
        [] OTHER -> IF key \in DOMAIN d.stacks THEN SourceModified(next, key)
                    ELSE SourceCreated(next, key)

-----------------------------------------------------------------------------
(* serialization.h: a node is committed before its callees are read, as they *)
(* are indexed by their parent, and again with what it and they have added.  *)
(* A record that is not committed yet is in no index: it enters db at its    *)
(* first commit.                                                             *)
Matching(d, thread, parent, node) ==
  {i \in DOMAIN d.calls : address_thread(d.calls[i]) = <<node.address, thread>>
                          /\ d.calls[i].parent = parent}

NewRow(thread, parent, node) ==
  [thread |-> thread, parent |-> parent, address |-> node.address] @@ NoStatistics

\* Mutant: a single commit, after the callees.
RECURSIVE ReadItemOnce(_, _, _, _)
ReadItemOnce(d, thread, parent, node) ==
  LET found == Matching(d, thread, parent, node)
      id == Max(found \cup (IF found = {} THEN {d.nextId} ELSE {}))
      nested == FoldLeft(LAMBDA acc, callee : ReadItemOnce(acc, thread, id, callee),
                         IF found = {} THEN [d EXCEPT !.nextId = @ + 1] ELSE d, node.callees)
      row == IF found = {} THEN NewRow(thread, parent, node) ELSE nested.calls[id]
  IN  CallCommitted([nested EXCEPT !.calls = Put(@, id, Add(row, node))], id, found = {})

RECURSIVE read_item(_, _, _, _)
read_item(d, thread, parent, node) ==
  LET found == Matching(d, thread, parent, node)
      id == IF found = {} THEN d.nextId ELSE CHOOSE i \in found : TRUE
      created == IF found # {} THEN d ELSE
        [d EXCEPT !.nextId = @ + 1, !.calls = Put(@, id, NewRow(thread, parent, node))]
      committed == CallCommitted(created, id, found = {})
      added == [committed EXCEPT !.calls[id] = Add(@, node)]
      nested == FoldLeft(LAMBDA acc, callee : read_item(acc, thread, id, callee), added, node.callees)
  IN  CallCommitted(nested, id, FALSE)

-----------------------------------------------------------------------------
(* selection_model.h and derived_statistics.cpp: the selected rows, grouped  *)
(* by their addresses; "selected" is the index of the selection by address.  *)
SelectionCommit(d, id) ==
  LET address == MainAddress(d, id)
      next == [d EXCEPT !.selected = @ \cup {<<address, <<clears, id>>>>}, !.addrs = @ \cup {address}]
      source == Source(d)
      Called == {i \in DOMAIN source : source[i].address = address}
      Calling == equal_range(d.byParent, address)
  IN  [next EXCEPT
        !.callers = CommitAll(@, source, {<<CallersKey(source, source[i]), <<i, address>>>> : i \in Called}),
        !.callees = CommitAll(@, source, {<<address_thread(source[i]), <<i, address>>>> : i \in Calling})]

SelectionRemove(d, id) ==
  LET address == MainAddress(d, id)
      rest == d.selected \ {<<address, <<clears, id>>>>}
      source == Source(d)
      Without(j) == RemoveAll(j, source, {e \in j.joined : e[2][2] = address})
      next == [d EXCEPT !.selected = rest]
  IN  IF equal_range(rest, address) # {} THEN next
      ELSE [next EXCEPT !.addrs = @ \ {address}, !.callers = Without(@), !.callees = Without(@)]

SelectionClear(d) ==
  [d EXCEPT !.selected = {}, !.addrs = {}, !.callers = NoJoin, !.callees = NoJoin]

\* representation.cpp: a representation is made of what there is, with nothing selected.
create(d, hierarchical, threads) ==
  LET fresh == [SelectionClear(d) EXCEPT !.hierarchical = hierarchical, !.threads = threads,
                                         !.stacks = << >>, !.main = << >>, !.byParent = {}]
      ids == SetToSortSeq(DOMAIN d.calls, <)
      grouped == IF threads # cumulative THEN fresh
                 ELSE FoldLeft(LAMBDA acc, i : CallCommitted(acc, i, TRUE), fresh, ids)
      source == Source(grouped)
      flat == FoldSet(LAMBDA i, acc : FlatUpdate(acc, source[i]), grouped, DOMAIN source)
  IN  [flat EXCEPT !.byParent = {<<parent_address(source, source[i]), i>> : i \in DOMAIN source}]

-----------------------------------------------------------------------------
StatisticsInit ==
  /\ db = [calls |-> << >>, nextId |-> 1, stacks |-> << >>, main |-> << >>, byParent |-> {},
           callers |-> NoJoin, callees |-> NoJoin, selected |-> {}, addrs |-> {},
           hierarchical |-> TRUE, threads |-> all]
  /\ updates = 0 /\ clears = 0 /\ received = 0

RECURSIVE Times(_)
Times(nodes) == FoldLeft(LAMBDA acc, node : acc + node.times + Times(node.callees), 0, nodes)

\* A statistics message is read into the session's table.
ReadUpdate(u) ==
  /\ updates < MaxUpdates
  /\ updates' = updates + 1
  /\ received' = received + Times(u.calls)
  /\ db' = FoldLeft(LAMBDA acc, node : read_item(acc, u.thread, 0, node), db, u.calls)
  /\ UNCHANGED clears

\* The user clears the statistics: what is selected stays.
clear ==
  /\ clears < MaxClears
  /\ clears' = clears + 1
  /\ received' = 0
  /\ db' = [db EXCEPT !.calls = << >>, !.stacks = << >>, !.main = << >>, !.byParent = {},
                      !.callers = NoJoin, !.callees = NoJoin]
  /\ UNCHANGED updates

add(id) ==
  /\ id \in ShownMain(db)
  /\ db' = SelectionCommit(db, id)
  /\ UNCHANGED <<updates, clears, received>>

remove(id) ==
  /\ id \in ShownMain(db)
  /\ db' = SelectionRemove(db, id)
  /\ UNCHANGED <<updates, clears, received>>

\* activate_callers or activate_callees: the rows of main that the selected
\* rows of the derived table stand for become the selected ones.
activate(j, keys) ==
  /\ keys \subseteq ShownGroups(db, j) /\ keys # {}
  /\ LET Key(id) == IF db.hierarchical THEN address_thread(Source(db)[id]) ELSE id
     IN  db' = FoldSet(LAMBDA id, acc : SelectionCommit(acc, id), SelectionClear(db),
                       {id \in ShownMain(db) : Key(id) \in keys})
  /\ UNCHANGED <<updates, clears, received>>

\* tables_ui.cpp: another mode makes another representation.
set_mode(hierarchical, threads) ==
  /\ <<hierarchical, threads>> # <<db.hierarchical, db.threads>>
  /\ db' = create(db, hierarchical, threads)
  /\ UNCHANGED <<updates, clears, received>>

StatisticsNext ==
  \/ \E u \in Updates : ReadUpdate(u)
  \/ clear
  \/ \E id \in DOMAIN Main(db) : add(id)
  \/ \E id \in DOMAIN Main(db) : remove(id)
  \/ \E key \in DOMAIN db.callers.groups : activate(db.callers, {key})
  \/ \E key \in DOMAIN db.callees.groups : activate(db.callees, {key})
  \/ \E h \in BOOLEAN, t \in Threads \cup {cumulative, all} : set_mode(h, t)

-----------------------------------------------------------------------------
Grouped(table, ids, Key(_)) ==
  [k \in {Key(i) : i \in ids} |-> sum_flat(table, {i \in ids : Key(i) = k})]

\* Whatever the order of messages, selections, clears and modes, each derived
\* table is what its definition says of the session's statistics: the callers
\* and callees of the selected addresses, the flat and the cumulative tables
\* and the index by parent that the callees are found by.
DerivedTablesExact ==
  LET source == Source(db) IN
  /\ db.byParent = {<<parent_address(source, source[i]), i>> : i \in DOMAIN source}
  /\ db.addrs = {e[1] : e \in db.selected}
  /\ db.callers.groups = Grouped(source, {i \in DOMAIN source : source[i].address \in db.addrs},
                                 LAMBDA i : CallersKey(source, source[i]))
  /\ db.callees.groups = Grouped(source,
                                 {i \in DOMAIN source : parent_address(source, source[i]) \in db.addrs},
                                 LAMBDA i : address_thread(source[i]))
  /\ ~db.hierarchical => db.main = Grouped(source, DOMAIN source, LAMBDA i : address_thread(source[i]))
  /\ db.threads = cumulative =>
       db.stacks = [k \in {callstack(db.calls, i) : i \in DOMAIN db.calls} |-> StackRow(db.calls, k)]

\* No call that was reported since the last clear is lost or counted twice, in
\* the session's table and in the tables made of it.
TablesConserveCalls ==
  LET Total(table) == MapThenSumSet(LAMBDA i : table[i].times, DOMAIN table) IN
  /\ Total(db.calls) = received
  /\ Total(Main(db)) = received

\* The tables of a session and what is derived from them are exact.
StatisticsExact == DerivedTablesExact /\ TablesConserveCalls

=============================================================================
