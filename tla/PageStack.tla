------------------------------ MODULE PageStack ------------------------------
(***************************************************************************)
(* What the page bag promises: a stack of page states.  The stack can be    *)
(* saved in a page token and taken up again from a saved token.             *)
(***************************************************************************)
EXTENDS Naturals, Sequences

CONSTANT States

VARIABLES
  stack,    \* the page states, the current one last
  popped,   \* what the last Pop returned: a sequence of at most one state
  saved     \* the stack in the last token

vars == <<stack, popped, saved>>

Init ==
  /\ stack = << >>
  /\ popped = << >>
  /\ saved = << >>

Push(s) ==
  /\ stack' = Append(stack, s)
  /\ UNCHANGED <<popped, saved>>

Pop ==
  \/ /\ stack = << >>
     /\ popped' = << >>
     /\ UNCHANGED <<stack, saved>>
  \/ /\ stack # << >>
     /\ popped' = <<stack[Len(stack)]>>
     /\ stack' = SubSeq(stack, 1, Len(stack) - 1)
     /\ UNCHANGED saved

Save ==
  /\ saved' = stack
  /\ UNCHANGED <<stack, popped>>

Load ==
  /\ stack' = saved
  /\ UNCHANGED <<popped, saved>>

Next == (\E s \in States : Push(s)) \/ Pop \/ Save \/ Load

Spec == Init /\ [][Next]_vars
=============================================================================
