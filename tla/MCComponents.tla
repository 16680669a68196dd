---------------------------- MODULE MCComponents -----------------------------
(* Components of one thread each, or with threads of their own, that share no  *)
(* state with the rest: the tables and lists of the frontend, its deferred     *)
(* work, and the collector's start, end and code translation. A behaviour is   *)
(* one of a single component, "part"; the others stay as they began. That is   *)
(* the sum of their state spaces and not the product.                          *)
EXTENDS Statistics, TableModel, PrivateQueue, SymbolTables, Histogram, BinaryTranslation, Instance

VARIABLE part

vars == <<part, statisticsVars, tableVars, privateVars, symbolVars, histogramVars,
          translationVars, instanceVars>>

-----------------------------------------------------------------------------
(* Values of the constants.                                                  *)
Leaf(a) == [address |-> a, times |-> 1, inclusive |-> 1, max |-> 1, callees |-> << >>]
Tree(a, c) == [address |-> a, times |-> 1, inclusive |-> 3, max |-> 2, callees |-> c]

\* Two roots; a call of one by the other; a recursion.
TheUpdates ==
  {[thread |-> 1, calls |-> <<Leaf(1), Leaf(2)>>],
   [thread |-> 2, calls |-> <<Tree(1, <<Leaf(2)>>)>>],
   [thread |-> 1, calls |-> <<Tree(1, <<Tree(1, <<Leaf(2)>>)>>)>>]}

TheParent == <<0, 1, 1, 2>>
TheModule == <<1, 1, 2, 1>>
TheName == <<2, 3, 1, 4>>
TheColumns ==
  <<[shows |-> "index", compare |-> FALSE, ascending |-> FALSE, number |-> FALSE],
    [shows |-> "name", compare |-> TRUE, ascending |-> TRUE, number |-> FALSE],
    [shows |-> "number", compare |-> TRUE, ascending |-> FALSE, number |-> TRUE]>>

Symbol(r, z, n) == [rva |-> r, size |-> z, name |-> n]
TheBase == <<0, 6>>
TheSymbols == <<<<Symbol(0, 2, 3), Symbol(3, 1, 1), Symbol(0, 2, 2)>>, <<Symbol(1, 2, 2)>>>>
TheFilters == <<{1, 2, 3}, {2, 3}>>

TheScales ==
  {[near |-> 0, far |-> 24, samples |-> 4], [near |-> 2, far |-> 10, samples |-> 3],
   [near |-> 0, far |-> 1, samples |-> 1]}

Instruction(kind, d) == [kind |-> kind, displacement |-> d]
TheInstructions ==
  {Instruction("plain", 0), Instruction("trap", 0)}
    \cup {Instruction(k, d) : k \in {"short", "near", "call"}, d \in {-9, -7, -2, 20}}
TheBodies == UNION {[1..n -> TheInstructions] : n \in 2..3}
TheDestinations == {-50, 90}

-----------------------------------------------------------------------------
\* The rest of a sum is at rest: only one function of each kind begins it.
AtRest ==
  /\ part # "table" => headers.column = 1
  /\ part # "histogram" => \A k \in 1..2 : histograms[k].scale.near = 2
  /\ part # "translation" => body = <<Instruction("plain", 0), Instruction("plain", 0)>> /\ destination = -50

Init ==
  /\ part \in {"statistics", "table", "private", "symbols", "histogram", "translation", "instance"}
  /\ StatisticsInit /\ TableModelInit /\ PrivateQueueInit /\ SymbolTablesInit
  /\ HistogramInit /\ TranslationInit /\ InstanceInit
  /\ AtRest

StatisticsStep ==
  /\ part = "statistics" /\ StatisticsNext
  /\ UNCHANGED <<part, tableVars, privateVars, symbolVars, histogramVars, translationVars, instanceVars>>
TableStep ==
  /\ part = "table" /\ TableModelNext
  /\ UNCHANGED <<part, statisticsVars, privateVars, symbolVars, histogramVars, translationVars, instanceVars>>
PrivateStep ==
  /\ part = "private" /\ PrivateQueueNext
  /\ UNCHANGED <<part, statisticsVars, tableVars, symbolVars, histogramVars, translationVars, instanceVars>>
SymbolStep ==
  /\ part = "symbols" /\ SymbolTablesNext
  /\ UNCHANGED <<part, statisticsVars, tableVars, privateVars, histogramVars, translationVars, instanceVars>>
HistogramStep ==
  /\ part = "histogram" /\ HistogramNext
  /\ UNCHANGED <<part, statisticsVars, tableVars, privateVars, symbolVars, translationVars, instanceVars>>
TranslationStep ==
  /\ part = "translation" /\ TranslationNext
  /\ UNCHANGED <<part, statisticsVars, tableVars, privateVars, symbolVars, histogramVars, instanceVars>>
InstanceStep ==
  /\ part = "instance" /\ InstanceNext
  /\ UNCHANGED <<part, statisticsVars, tableVars, privateVars, symbolVars, histogramVars, translationVars>>

Next ==
  \/ StatisticsStep
  \/ TableStep
  \/ PrivateStep
  \/ SymbolStep
  \/ HistogramStep
  \/ TranslationStep
  \/ InstanceStep

\* What runs goes on, in the behaviours of its component; the queues of the
\* others are empty. The constructor goes on whatever the program's threads do.
Spec ==
  /\ Init /\ [][Next]_vars
  /\ PrivateQueueFairness
  /\ WF_instanceVars(part = "instance" /\ LoaderNext)

==============================================================================
