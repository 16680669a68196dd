------------------------- MODULE BinaryTranslation --------------------------
(* patcher/src/intel/binary_translation_x86.cpp: the head of a function is    *)
(* moved to another place, and what the rest of the function refers to in it  *)
(* is made to refer to the copy. An instruction is its length, its kind and,  *)
(* for a jump or a call, its displacement from the address after it. The      *)
(* function starts at address 0. The repository's own callers are the tests:  *)
(* where a head is moved to is up to whoever will call these functions.       *)
EXTENDS Integers, Sequences, SequencesExt

CONSTANTS
  Bodies,        \* functions: sequences of instructions [kind, displacement]
  Destinations,  \* where the head may be moved to
  MinLength,     \* bytes that a patch needs
  Reach          \* 2^31: a displacement of a dword is from -Reach to Reach - 1

VARIABLES
  body,          \* the function's instructions
  head,          \* how many of them are moved
  copy,          \* the moved ones, at destination
  destination,
  reverts,       \* revert_buffer: displacement by the index of the instruction
  state          \* "idle", "moved", "displaced", "refused"

translationVars == <<body, head, copy, destination, reverts, state>>

\* "short" has a displacement of a byte, "near" and "call" one of a dword.
Length(i) == CASE i.kind = "short" -> 2 [] i.kind \in {"near", "call"} -> 5 [] OTHER -> 1
Bytes(lengths) ==
  LET upto[n \in 0..Len(lengths)] == IF n = 0 THEN 0 ELSE upto[n - 1] + lengths[n] IN upto[Len(lengths)]
Address(code, k) == Bytes([i \in 1..(k - 1) |-> Length(code[i])])
Size(code) == Address(code, Len(code) + 1)
Target(code, at, k) == at + Address(code, k + 1) + code[k].displacement

inside(address, size) == 0 <= address /\ address < size
Relative(i) == i.kind \in {"short", "near", "call"}

\* calculate_fragment_length: whole instructions, until there are enough bytes.
FragmentLength(code) ==
  LET enough == {k \in 0..Len(code) : Size(SubSeq(code, 1, k)) >= MinLength}
  IN  IF enough = {} THEN Len(code) ELSE Min(enough)

Displacements == -Reach..(Reach - 1)
ASSUME ReachAssumption == Reach \in Nat \ {0}
ASSUME BodiesAssumption ==
  Bodies \subseteq Seq([kind : {"plain", "trap", "short", "near", "call"}, displacement : Displacements])

\* The head is moved to a place apart from the function, near or far.
ASSUME DestinationsAssumption ==
  \A b \in Bodies, d \in Destinations : d \in Int /\ (d >= Size(b) \/ -d >= Size(b))

\* The sum of two dwords: what is beyond their width is lost, as it is when the
\* distance of the move is converted to one of them.
sdword(x) == ((x + Reach) % (2 * Reach)) - Reach

TranslationInit ==
  /\ body \in Bodies /\ destination \in Destinations
  /\ head = FragmentLength(body)
  /\ copy = << >> /\ reverts = << >> /\ state = "idle"

\* Mutant: every displacement of a dword is moved.
MovedAlways(i, target, size) == [i EXCEPT !.displacement = sdword(@ - destination)]

\* offset_displacement of move_function: what refers out of the head still
\* refers to the same place, if a dword reaches so far; the code does not ask.
Moved(i, target, size) ==
  IF i.kind \in {"near", "call"} /\ ~inside(target, size)
  THEN [i EXCEPT !.displacement = sdword(@ - destination)] ELSE i

\* A trap in the head, or a short jump out of it, cannot be moved.
move_function ==
  LET source == SubSeq(body, 1, head)
      Fits(k) == /\ source[k].kind # "trap"
                 /\ source[k].kind = "short" => inside(Target(body, 0, k), Size(source))
  IN  /\ state = "idle"
      /\ IF \A k \in 1..head : Fits(k)
         THEN /\ copy' = [k \in 1..head |-> Moved(source[k], Target(body, 0, k), Size(source))]
              /\ state' = "moved"
         ELSE UNCHANGED copy /\ state' = "refused"
      /\ UNCHANGED <<body, head, destination, reverts>>

\* Mutant: the entries are dropped and not restored.
KeepDisplaced(code, entries) == code

\* revert_entry::restore, for each entry.
Restored(code, entries) ==
  [k \in DOMAIN code |-> IF k \in DOMAIN entries THEN [code[k] EXCEPT !.displacement = entries[k]] ELSE code[k]]

\* The rest of the function: near jumps into the head are made to go to the
\* copy; calls of the function itself still enter at its start. A short jump
\* into the head stops the loop, and what was changed before it is restored.
offset_displaced_references ==
  LET Into(k) == k > head /\ inside(Target(body, 0, k), Size(SubSeq(body, 1, head)))
      stops == {k \in DOMAIN body : body[k].kind = "short" /\ Into(k)}
      last == IF stops = {} THEN Len(body) ELSE Min(stops)
      changed == {k \in 1..last : body[k].kind = "near" /\ Into(k)}
      entries == [k \in changed |-> body[k].displacement]
      displaced == [k \in DOMAIN body |->
                      IF k \in changed THEN [body[k] EXCEPT !.displacement = sdword(@ + destination)] ELSE body[k]]
  IN  /\ state = "moved"
      /\ IF stops = {}
         THEN body' = displaced /\ reverts' = entries /\ state' = "displaced"
         ELSE body' = Restored(displaced, entries) /\ UNCHANGED reverts /\ state' = "refused"
      /\ UNCHANGED <<head, copy, destination>>

restore ==
  /\ state = "displaced"
  /\ body' = Restored(body, reverts)
  /\ reverts' = << >> /\ state' = "moved"
  /\ UNCHANGED <<head, copy, destination>>

TranslationNext == move_function \/ offset_displaced_references \/ restore

TranslationSpec == TranslationInit /\ [][TranslationNext]_translationVars

-----------------------------------------------------------------------------
\* Where instruction k of the function went before anything was moved, and where
\* the code that was at an address is now.
Before(k) == Address(body, k + 1) + (IF k \in DOMAIN reverts THEN reverts[k] ELSE body[k].displacement)
Place(address) == IF inside(address, Size(copy)) THEN address + destination ELSE address

\* A jump whose next instruction is at one address can go to the other one.
Reaches(from, to) == to - from \in Displacements

\* Wherever control is, in the copy of the head or in the rest, a jump goes to the
\* code it went to before if its displacement can say so: into the copy of the head,
\* except that calls of the function itself, and all of the rest before its
\* references are displaced, enter at the function's start.
JumpsKept ==
  /\ \A k \in DOMAIN copy :
       Relative(copy[k]) /\ Reaches(destination + Address(copy, k + 1), Place(Before(k))) =>
         Target(copy, destination, k) = Place(Before(k))
  /\ \A k \in DOMAIN body :
       LET goal == IF state = "displaced" /\ body[k].kind # "call" THEN Place(Before(k)) ELSE Before(k)
       IN  Relative(body[k]) /\ k > head /\ Reaches(Address(body, k + 1), goal) => Target(body, 0, k) = goal

\* A function that is refused is left as it was found.
RefusedUntouched ==
  [][state' = "refused" => body' = body]_translationVars

=============================================================================
