-------------------------------- MODULE GenBag --------------------------------
(***************************************************************************)
(* The page bag of generic_bag.go as it lies in memory.  pb.states is a     *)
(* slice: a backing array and a length.  pb.currentState is a pointer: nil, *)
(* to a cell of its own, or, after a pop, into the backing array, just past *)
(* the end of the slice, where the next append writes.                      *)
(***************************************************************************)
EXTENDS Naturals, Sequences

CONSTANTS
  States,     \* page states
  MaxDepth,   \* bound on the number of page states in the bag
  MaxSpare    \* bound on the unused cells of a newly allocated array

ASSUME GenBagAssumption ==
  /\ States # {}
  /\ MaxDepth \in Nat \ {0}
  /\ MaxSpare \in Nat

VARIABLES
  array,      \* the backing array of pb.states, as long as its capacity
  size,       \* len(pb.states)
  current,    \* pb.currentState: where it points
  cell,       \* the cell of its own that pb.currentState may point to
  popped,     \* what the last Pop returned
  token       \* the last token: "" or the marshalled states and current state

vars == <<array, size, current, cell, popped, token>>

\* *pb.currentState
Value == IF current.at = "array" THEN array[current.index] ELSE cell

Nil == [at |-> "nil", index |-> 0]
OwnCell == [at |-> "cell", index |-> 0]
InArray(i) == [at |-> "array", index |-> i]

\* The page token "", and the token of a bag that has a current state.
NoToken == [states |-> << >>, current |-> << >>]

\* pb.states as it is marshalled: the cells of the slice and no others.
Slice == [i \in 1 .. size |-> array[i]]

Depth == IF current = Nil THEN 0 ELSE size + 1

Init ==
  /\ array = << >>
  /\ size = 0
  /\ current = Nil
  /\ cell \in States
  /\ popped = << >>
  /\ token = NoToken

\* append writes in place while there is room, and otherwise moves the slice to
\* a new array with some cells to spare.
AppendToStates(v) ==
  /\ size' = size + 1
  /\ \/ /\ size < Len(array)
        /\ array' = [array EXCEPT ![size + 1] = v]
     \/ /\ size = Len(array)
        /\ \E spare \in 0 .. MaxSpare :
             array' = [i \in 1 .. size + 1 + spare |-> IF i <= size THEN array[i] ELSE v]

\* (mutant) The pushed state is stored before the current one is read.
Push_Early(s) ==
  /\ Depth < MaxDepth
  /\ \/ /\ current = Nil
        /\ UNCHANGED <<array, size>>
     \/ /\ current # Nil
        /\ AppendToStates(s)
  /\ cell' = s
  /\ current' = OwnCell
  /\ UNCHANGED <<popped, token>>

Push(s) ==
  /\ Depth < MaxDepth
  /\ \/ /\ current = Nil
        /\ UNCHANGED <<array, size>>
     \/ /\ current # Nil
        /\ AppendToStates(Value)
  /\ cell' = s
  /\ current' = OwnCell
  /\ UNCHANGED <<popped, token>>

\* (mutants) The slice keeps the state that became current; the states below the
\* popped one are forgotten by the pointer but not by the slice.
Pop_KeepLast ==
  \/ /\ current = Nil
     /\ popped' = << >>
     /\ UNCHANGED <<array, size, current, cell, token>>
  \/ /\ current # Nil
     /\ popped' = <<Value>>
     /\ current' = IF size > 0 THEN InArray(size) ELSE Nil
     /\ UNCHANGED <<array, size, cell, token>>
Pop_ToNil ==
  /\ popped' = IF current = Nil THEN << >> ELSE <<Value>>
  /\ current' = Nil
  /\ UNCHANGED <<array, size, cell, token>>

Pop ==
  \/ /\ current = Nil
     /\ popped' = << >>
     /\ UNCHANGED <<array, size, current, cell, token>>
  \/ /\ current # Nil
     /\ popped' = <<Value>>
     /\ \/ /\ size > 0
           /\ current' = InArray(size)
           /\ size' = size - 1
        \/ /\ size = 0
           /\ current' = Nil
           /\ UNCHANGED size
     /\ UNCHANGED <<array, cell, token>>

\* A bag without a current state marshals to "", whatever its slice holds.
Marshal ==
  /\ token' = IF current = Nil THEN NoToken
              ELSE [states |-> Slice, current |-> <<Value>>]
  /\ UNCHANGED <<array, size, current, cell, popped>>

\* (mutant) The slice keeps the length it had.
Unmarshal_KeepSize ==
  /\ token # NoToken
  /\ array' = token.states
  /\ current' = OwnCell
  /\ cell' = token.current[1]
  /\ UNCHANGED <<size, popped, token>>

\* Unmarshal allocates: nothing of the old bag is shared with the new one.
Unmarshal ==
  /\ \/ /\ token = NoToken
        /\ array' = << >>
        /\ current' = Nil
        /\ UNCHANGED cell
     \/ /\ token # NoToken
        /\ \E spare \in 0 .. MaxSpare, junk \in States :
             array' = [i \in 1 .. Len(token.states) + spare |->
                         IF i <= Len(token.states) THEN token.states[i] ELSE junk]
        /\ current' = OwnCell
        /\ cell' = token.current[1]
  /\ size' = Len(token.states)
  /\ UNCHANGED <<popped, token>>

Next == (\E s \in States : Push(s)) \/ Pop \/ Marshal \/ Unmarshal

Spec == Init /\ [][Next]_vars

-----------------------------------------------------------------------------
(* Properties *)

Pointers == [at : {"nil", "cell", "array"}, index : Nat]

\* Every variable has its type.
TypeOK ==
  /\ array \in Seq(States)
  /\ size \in Nat /\ size <= Len(array)
  /\ current \in Pointers
  /\ cell \in States
  /\ popped \in Seq(States)
  /\ token \in [states : Seq(States), current : Seq(States)]

\* The current state never lies inside the slice: while it points into the array
\* it is the first cell past the end, the one the next append overwrites with
\* the value it already has.
NoSharing ==
  /\ current.at = "array" => current.index = size + 1 /\ size < Len(array)
  /\ current.at # "array" => current.index = 0

\* A bag without a current state has nothing below it, and a token says so too;
\* otherwise Marshal would lose the states of the slice.
NothingHidden ==
  /\ current = Nil => size = 0
  /\ token.current = << >> => token.states = << >>
  /\ token.current # << >> => Len(token.current) = 1

\* The bag as a stack.
Stack == [i \in 1 .. Depth |-> IF i <= size THEN array[i] ELSE Value]
Saved == token.states \o token.current

Abstract == INSTANCE PageStack WITH stack <- Stack, saved <- Saved

\* Whatever is shared in memory, the bag behaves as a stack that survives the
\* trip through a page token.
BagIsStack == Abstract!Spec
=============================================================================
