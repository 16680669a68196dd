-------------------------- MODULE CallsCollectorThread --------------------------
(***************************************************************************)
(* calls_collector_thread: how the calls of one thread become a trace and  *)
(* how its functions find their way back.                                  *)
(*                                                                         *)
(* An instrumented function calls on_enter with the place of its return    *)
(* address on the stack; the address is kept aside and replaced, so that   *)
(* the function returns into on_exit, which says where to go on.  The      *)
(* machine is part of the model: `frames' are the instrumented functions   *)
(* really running.  The profiled program calls, makes tail calls, returns  *)
(* (with a stack pointer above the frame, if the callee removes its        *)
(* arguments) and, by longjmp or an exception, leaves frames without       *)
(* returning.                                                              *)
(***************************************************************************)
EXTENDS Naturals, Sequences, SequencesExt

CONSTANTS Callees,          \* instrumented functions
          StackSize,        \* bound: stack addresses are 1..StackSize
          MaxCalls,         \* bound: calls made
          Exit,             \* the callee of an exit record, null in the code
          Skips,            \* whether the program leaves frames without returning
          CallsAfterSkip    \* whether it calls again before the frame it landed in returns

ASSUME StackAssumption == StackSize \in Nat /\ MaxCalls \in Nat
ASSUME ExitAssumption == Exit \notin Callees
ASSUME SkipsAssumption == Skips \in BOOLEAN /\ CallsAfterSkip \in BOOLEAN

VARIABLES
    frames,          \* the machine: running functions, [stack_ptr, return_address, callee]
    calls,           \* calls made; the number of a call stands for its return address
    skipped,         \* frames were left and the frame landed in is still running
    return_stack,    \* _return_stack: [stack_ptr, return_address]
    trace,           \* history: the callees tracked
    returns          \* history: the last return, [due, got]

vars == <<frames, calls, skipped, return_stack, trace, returns>>

\* A size_t of all ones is above every stack address.
Sentinel == [stack_ptr |-> StackSize + 1, return_address |-> 0]

\* What is on the stack in place of a return address taken aside.
Hooked == 0

Init ==
    /\ frames = <<>>
    /\ calls = 0
    /\ skipped = FALSE
    /\ return_stack = <<Sentinel>>
    /\ trace = <<>>
    /\ returns = [due |-> 0, got |-> 0]

-----------------------------------------------------------------------------
(* calls_collector_thread.                                                 *)

\* Mutant: a call made from the same place of the stack is taken as nested.
MutantOnEnter(stack_ptr, on_stack, callee) ==
    /\ return_stack' = Append(return_stack, [stack_ptr |-> stack_ptr, return_address |-> on_stack])
    /\ trace' = Append(trace, callee)

\* on_enter: a new place on the stack is a nested call, the same place is a
\* tail call, which ends the function that made it.
OnEnter(stack_ptr, on_stack, callee) ==
    IF Last(return_stack).stack_ptr # stack_ptr
      THEN /\ return_stack' = Append(return_stack, [stack_ptr |-> stack_ptr, return_address |-> on_stack])
           /\ trace' = Append(trace, callee)
      ELSE /\ return_stack' = return_stack
           /\ trace' = trace \o <<Exit, callee>>

\* Mutant: an entry at the very stack_ptr survives.
MutantKept(stack_ptr, n) ==
    /\ n \in 1..(Len(return_stack) - 1)
    /\ return_stack[n].stack_ptr >= stack_ptr
    /\ \A k \in (n + 1)..(Len(return_stack) - 1) : return_stack[k].stack_ptr < stack_ptr

\* n entries survive an exit at stack_ptr: one at least is removed, then all
\* that lie no higher than stack_ptr.
Kept(stack_ptr, n) ==
    /\ n \in 1..(Len(return_stack) - 1)
    /\ return_stack[n].stack_ptr > stack_ptr
    /\ \A k \in (n + 1)..(Len(return_stack) - 1) : return_stack[k].stack_ptr <= stack_ptr

\* on_exit: every entry removed is an exit in the trace, and the address of
\* the last one is returned.
OnExit(stack_ptr) ==
    \E n \in 1..(Len(return_stack) - 1) :
        /\ Kept(stack_ptr, n)
        /\ return_stack' = SubSeq(return_stack, 1, n)
        /\ trace' = trace \o [k \in 1..(Len(return_stack) - n) |-> Exit]
        /\ returns' = [due |-> frames[Len(frames)].return_address,
                       got |-> return_stack[n + 1].return_address]

-----------------------------------------------------------------------------
(* External: the profiled program.                                         *)

\* The lowest address in use, none of it by a frame that was left.
StackTop == IF frames = <<>> THEN StackSize + 1 ELSE frames[Len(frames)].stack_ptr

Call ==
    /\ calls < MaxCalls
    /\ skipped => CallsAfterSkip
    /\ \E f \in Callees, sp \in 1..StackSize :
          /\ sp < StackTop
          /\ frames' = Append(frames, [stack_ptr |-> sp, return_address |-> calls + 1, callee |-> f])
          /\ OnEnter(sp, calls + 1, f)
    /\ calls' = calls + 1
    /\ UNCHANGED <<skipped, returns>>

\* The youngest function ends by jumping to another one.
TailCall ==
    /\ frames # <<>>
    /\ calls < MaxCalls
    /\ skipped => CallsAfterSkip
    /\ \E f \in Callees :
          /\ frames' = [frames EXCEPT ![Len(frames)].callee = f]
          /\ OnEnter(frames[Len(frames)].stack_ptr, Hooked, f)
    /\ calls' = calls + 1
    /\ UNCHANGED <<skipped, returns>>

\* The youngest function returns, and may have removed its arguments.
Return ==
    /\ frames # <<>>
    /\ \E sp \in frames[Len(frames)].stack_ptr..StackSize :
          /\ Len(frames) > 1 => sp < frames[Len(frames) - 1].stack_ptr
          /\ OnExit(sp)
    /\ frames' = SubSeq(frames, 1, Len(frames) - 1)
    /\ skipped' = FALSE
    /\ calls' = calls

\* Frames are left: no hook is called.  Unless it returns before it calls
\* again, the code landed in need not be instrumented.
Skip ==
    /\ Skips
    /\ \E n \in 0..(Len(frames) - 1) :
          /\ n = 0 => CallsAfterSkip
          /\ frames' = SubSeq(frames, 1, n)
    /\ skipped' = TRUE
    /\ UNCHANGED <<calls, return_stack, trace, returns>>

\* The program may stop calling.
Done == frames = <<>> /\ UNCHANGED vars

Next == Call \/ TailCall \/ Return \/ Skip \/ Done

Spec == Init /\ [][Next]_vars

-----------------------------------------------------------------------------
(* Properties.                                                             *)

Frame == [stack_ptr : 1..StackSize, return_address : Nat, callee : Callees]
Entry == [stack_ptr : 1..(StackSize + 1), return_address : Nat]

\* Every variable keeps its type.
TypeOK ==
    /\ frames \in Seq(Frame)
    /\ calls \in Nat
    /\ skipped \in BOOLEAN
    /\ return_stack \in Seq(Entry)
    /\ trace \in Seq(Callees \cup {Exit})
    /\ returns \in [due : Nat, got : Nat]

\* A function goes on where it was called from: on_exit returns the address
\* that on_enter took from the stack, whatever tail calls were made and
\* however many frames were left without returning.
ReturnsToCaller == returns.due = returns.got

\* A function that runs has an entry to return by: on_exit never removes the
\* sentinel of _return_stack, and the functions running lie on it in order.
EveryFrameHasEntry ==
    /\ Len(return_stack) > Len(frames)
    /\ \A i \in 1..Len(frames) :
          /\ return_stack[i + 1].stack_ptr = frames[i].stack_ptr
          /\ return_stack[i + 1].return_address = frames[i].return_address

\* The return stack is sound: who returns goes back to its caller, and each
\* function that runs can.
ReturnStackSound == TypeOK /\ ReturnsToCaller /\ EveryFrameHasEntry

\* The stack of callees that a reader of the trace sees.
SeenAfter(stack, callee) == IF callee = Exit THEN Front(stack) ELSE Append(stack, callee)
Replay(t) ==
    LET seen[n \in 0..Len(t)] == IF n = 0 THEN <<>> ELSE SeenAfter(seen[n - 1], t[n]) IN seen[Len(t)]

\* A reader of the trace sees one callee for each entry of _return_stack and,
\* at its bottom, the functions really running.
TraceShowsStack ==
    LET seen == Replay(trace)
    IN  /\ Len(seen) = Len(return_stack) - 1
        /\ \A i \in 1..Len(frames) : seen[i] = frames[i].callee
================================================================================
