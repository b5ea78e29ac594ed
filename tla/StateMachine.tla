---------------------------- MODULE StateMachine ----------------------------
(***************************************************************************)
(* The stack of states of a character: StateMachine<T, V> of the shared    *)
(* library.  A state is a pair of a key (Walk, Run) and a value (a         *)
(* direction); the front of the list is the head of the sequence.  States  *)
(* are cancelled where they stand and leave the stack when it is read and  *)
(* they have come to its front.                                            *)
(***************************************************************************)
EXTENDS Integers, Sequences, FiniteSetsExt

State(k, v) == [key |-> k, value |-> v]
Item(s) == [state |-> s, cancelled |-> FALSE]

(* A state with the key of the front replaces only the front's value, also
   when the front is cancelled already. *)
PushState(stack, s) ==
  IF stack # <<>> /\ stack[1].state.key = s.key
  THEN [stack EXCEPT ![1].state = s]
  ELSE <<Item(s)>> \o stack

(* Every instance of the key is marked. *)
CancelState(stack, k) ==
  [i \in DOMAIN stack |->
     [stack[i] EXCEPT !.cancelled = @ \/ stack[i].state.key = k]]

(* What GetCurrentState leaves of the stack, and what it returns. *)
Live(stack) == {i \in DOMAIN stack : ~stack[i].cancelled}

Popped(stack) == IF Live(stack) = {} THEN <<>> ELSE SubSeq(stack, Min(Live(stack)), Len(stack))

CurrentState(stack, base) == IF Live(stack) = {} THEN base ELSE stack[Min(Live(stack))].state
=============================================================================
