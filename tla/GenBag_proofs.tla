---------------------------- MODULE GenBag_proofs ----------------------------
(***************************************************************************)
(* The page bag in memory implements a stack: for every set of page states  *)
(* and every bound on its depth and on the spare cells of its arrays.       *)
(***************************************************************************)
EXTENDS GenBag, TLAPS

\* The invariant the steps preserve together.
BagInv == TypeOK /\ NoSharing /\ NothingHidden

\* A current state, wherever it lies, is a page state, and the slice lies below it.
LEMMA ValueType ==
  ASSUME TypeOK, NoSharing
  PROVE  /\ Value \in States
         /\ Depth \in Nat
         /\ Slice \in Seq(States) /\ Len(Slice) = size
         /\ \A i \in 1 .. size : array[i] \in States
<1>1. Value \in States
  BY DEF TypeOK, NoSharing, Value, Pointers
<1>2. Depth \in Nat
  BY DEF TypeOK, Depth
<1>3. \A i \in 1 .. size : array[i] \in States
  BY DEF TypeOK
<1>4. Slice \in Seq(States) /\ Len(Slice) = size
  BY <1>3 DEF TypeOK, Slice
<1>. QED
  BY <1>1, <1>2, <1>3, <1>4

\* An append leaves a well-formed slice: the old cells and then the new one.
LEMMA AppendFacts ==
  ASSUME TypeOK, NEW v \in States, AppendToStates(v)
  PROVE  /\ array' \in Seq(States)
         /\ size' = size + 1 /\ size' <= Len(array')
         /\ \A i \in 1 .. size : array'[i] = array[i]
         /\ array'[size + 1] = v
<1>1. CASE size < Len(array) /\ array' = [array EXCEPT ![size + 1] = v]
  BY <1>1 DEF TypeOK, AppendToStates
<1>2. CASE /\ size = Len(array)
           /\ \E spare \in 0 .. MaxSpare :
                array' = [i \in 1 .. size + 1 + spare |-> IF i <= size THEN array[i] ELSE v]
  <2>1. PICK spare \in 0 .. MaxSpare :
          array' = [i \in 1 .. size + 1 + spare |-> IF i <= size THEN array[i] ELSE v]
    BY <1>2
  <2>2. spare \in Nat /\ size + 1 + spare \in Nat
    BY GenBagAssumption DEF TypeOK
  <2>3. \A i \in 1 .. size + 1 + spare : (IF i <= size THEN array[i] ELSE v) \in States
    BY <2>2 DEF TypeOK
  <2>4. array' \in Seq(States) /\ Len(array') = size + 1 + spare
    BY <2>1, <2>2, <2>3
  <2>. QED
    BY <2>1, <2>2, <2>4 DEF TypeOK, AppendToStates
<1>. QED
  BY <1>1, <1>2 DEF AppendToStates

LEMMA BagInit == Init => BagInv
  BY GenBagAssumption DEF Init, BagInv, TypeOK, NoSharing, NothingHidden, Nil, Pointers, NoToken

LEMMA BagStep == BagInv /\ [Next]_vars => BagInv'
<1>. SUFFICES ASSUME BagInv, [Next]_vars PROVE BagInv'
  OBVIOUS
<1>. USE DEF BagInv
<1>1. ASSUME NEW s \in States, Push(s) PROVE BagInv'
  <2>1. CASE UNCHANGED <<array, size>>
    BY <1>1, <2>1 DEF Push, TypeOK, NoSharing, NothingHidden, OwnCell, Nil, Pointers
  <2>2. CASE AppendToStates(Value)
    <3>1. /\ array' \in Seq(States)
          /\ size' = size + 1 /\ size' <= Len(array')
      BY <2>2, AppendFacts, ValueType
    <3>. QED
      BY <1>1, <3>1 DEF Push, TypeOK, NoSharing, NothingHidden, OwnCell, Nil, Pointers
  <2>. QED
    BY <1>1, <2>1, <2>2 DEF Push
<1>2. CASE Pop
  <2>1. Value \in States
    BY ValueType
  <2>2. TypeOK'
    <3>1. popped' \in Seq(States)
      <4>1. popped' = << >> \/ popped' = <<Value>>
        BY <1>2 DEF Pop
      <4>2. << >> \in Seq(States)
        OBVIOUS
      <4>3. <<Value>> \in Seq(States)
        BY <2>1
      <4>. QED
        BY <4>1, <4>2, <4>3
    <3>2. current' \in Pointers
      BY <1>2 DEF Pop, TypeOK, InArray, Nil, Pointers
    <3>3. size' \in Nat /\ size' <= Len(array')
      BY <1>2 DEF Pop, TypeOK
    <3>. QED
      BY <1>2, <3>1, <3>2, <3>3 DEF Pop, TypeOK
  <2>3. NoSharing'
    BY <1>2 DEF Pop, TypeOK, NoSharing, InArray, Nil
  <2>4. NothingHidden'
    BY <1>2 DEF Pop, NothingHidden, InArray, Nil
  <2>. QED
    BY <2>2, <2>3, <2>4
<1>3. CASE Marshal
  <2>1. /\ Value \in States
        /\ Slice \in Seq(States)
    BY ValueType
  <2>2. CASE current = Nil
    BY <1>3, <2>2 DEF Marshal, TypeOK, NoSharing, NothingHidden, NoToken
  <2>3. CASE current # Nil
    BY <1>3, <2>1, <2>3 DEF Marshal, TypeOK, NoSharing, NothingHidden
  <2>. QED
    BY <2>2, <2>3
<1>4. CASE Unmarshal
  <2>1. CASE token = NoToken /\ array' = << >> /\ current' = Nil /\ UNCHANGED cell
    BY <1>4, <2>1 DEF Unmarshal, TypeOK, NoSharing, NothingHidden, Nil, NoToken, Pointers
  <2>2. CASE /\ token # NoToken
             /\ \E spare \in 0 .. MaxSpare, junk \in States :
                  array' = [i \in 1 .. Len(token.states) + spare |->
                              IF i <= Len(token.states) THEN token.states[i] ELSE junk]
             /\ current' = OwnCell
             /\ cell' = token.current[1]
    <3>1. PICK spare \in 0 .. MaxSpare, junk \in States :
            array' = [i \in 1 .. Len(token.states) + spare |->
                        IF i <= Len(token.states) THEN token.states[i] ELSE junk]
      BY <2>2
    <3>2. /\ token.states \in Seq(States)
          /\ token.current \in Seq(States)
          /\ spare \in Nat
      BY GenBagAssumption DEF TypeOK
    <3>3. \A i \in 1 .. Len(token.states) + spare :
            (IF i <= Len(token.states) THEN token.states[i] ELSE junk) \in States
      BY <3>2
    <3>4. array' \in Seq(States) /\ Len(array') = Len(token.states) + spare
      BY <3>1, <3>2, <3>3
    <3>5. token.current # << >>
      <4>1. ASSUME token.current = << >> PROVE FALSE
        BY <2>2, <4>1 DEF TypeOK, NothingHidden, NoToken
      <4>. QED
        BY <4>1
    <3>6. cell' \in States
      BY <2>2, <3>2, <3>5 DEF NothingHidden
    <3>. QED
      BY <1>4, <2>2, <3>2, <3>4, <3>6
      DEF Unmarshal, TypeOK, NoSharing, NothingHidden, OwnCell, Nil, Pointers
  <2>. QED
    BY <1>4, <2>1, <2>2 DEF Unmarshal
<1>5. CASE UNCHANGED vars
  BY <1>5 DEF vars, TypeOK, NoSharing, NothingHidden
<1>. QED
  BY <1>1, <1>2, <1>3, <1>4, <1>5 DEF Next

\* The current state is never shared with a cell of the slice.
THEOREM BagNoSharing == Spec => [](TypeOK /\ NoSharing /\ NothingHidden)
<1>1. BagInv => TypeOK /\ NoSharing /\ NothingHidden
  BY DEF BagInv
<1>. QED
  BY <1>1, BagInit, BagStep, PTL DEF Spec

-----------------------------------------------------------------------------
(* Refinement of the page stack *)

\* The abstract stack is a sequence of page states, the current one last.
LEMMA StackFacts ==
  ASSUME BagInv
  PROVE  /\ Stack \in Seq(States) /\ Len(Stack) = Depth
         /\ \A i \in 1 .. size : Depth # 0 => Stack[i] = array[i]
         /\ Depth # 0 => Stack[Depth] = Value
         /\ Depth = 0 <=> current = Nil
<1>1. /\ Value \in States /\ Depth \in Nat
      /\ \A i \in 1 .. size : array[i] \in States
  BY ValueType DEF BagInv
<1>2. \A i \in 1 .. Depth : (IF i <= size THEN array[i] ELSE Value) \in States
  BY <1>1 DEF BagInv, TypeOK
<1>3. Stack \in Seq(States) /\ Len(Stack) = Depth
  BY <1>1, <1>2 DEF Stack
<1>4. size \in Nat /\ Depth = IF current = Nil THEN 0 ELSE size + 1
  BY DEF BagInv, TypeOK, Depth
<1>. QED
  BY <1>1, <1>3, <1>4 DEF Stack

\* Two sequences are equal when they have the same length and the same elements.
LEMMA SeqEqual ==
  ASSUME NEW s \in Seq(States), NEW t \in Seq(States), Len(s) = Len(t),
         \A i \in 1 .. Len(s) : s[i] = t[i]
  PROVE  s = t
  OBVIOUS

LEMMA PushStack ==
  ASSUME BagInv, BagInv', NEW s \in States, Push(s)
  PROVE  Stack' = Append(Stack, s)
<1>1. /\ Stack \in Seq(States) /\ Len(Stack) = Depth
      /\ \A i \in 1 .. size : Depth # 0 => Stack[i] = array[i]
      /\ Depth # 0 => Stack[Depth] = Value
      /\ Depth = 0 <=> current = Nil
  BY StackFacts
<1>2. current' # Nil /\ Value' = s
  BY DEF Push, OwnCell, Nil, Value
<1>3. /\ Stack' = [i \in 1 .. size' + 1 |-> IF i <= size' THEN array'[i] ELSE s]
      /\ size \in Nat /\ size' \in Nat
  BY <1>2 DEF Stack, Depth, BagInv, TypeOK
<1>4. CASE current = Nil
  <2>1. size' = 0 /\ Depth = 0
    BY <1>1, <1>4 DEF Push, BagInv, NothingHidden
  <2>2. Stack = << >>
    BY <1>1, <2>1
  <2>3. Stack' = <<s>>
    BY <1>3, <2>1
  <2>. QED
    BY <2>2, <2>3
<1>5. CASE current # Nil
  <2>1. /\ size' = size + 1
        /\ \A i \in 1 .. size : array'[i] = array[i]
        /\ array'[size + 1] = Value
    BY <1>5, ValueType, AppendFacts DEF Push, BagInv
  <2>2. Depth = size + 1
    BY <1>5 DEF Depth
  <2>3. \A i \in 1 .. size + 1 : array'[i] = Stack[i]
    BY <1>1, <1>3, <2>1, <2>2
  <2>. DEFINE new == [i \in 1 .. size + 2 |-> IF i <= size + 1 THEN array'[i] ELSE s]
  <2>4. Stack' = new
    BY <1>3, <2>1
  <2>5. /\ Append(Stack, s) \in Seq(States)
        /\ Len(Append(Stack, s)) = size + 2
        /\ \A i \in 1 .. size + 1 : Append(Stack, s)[i] = Stack[i]
        /\ Append(Stack, s)[size + 2] = s
    BY <1>1, <1>3, <2>2
  <2>6. new \in Seq(States) /\ Len(new) = size + 2
    <3>1. \A i \in 1 .. size + 2 : (IF i <= size + 1 THEN array'[i] ELSE s) \in States
      BY <1>1, <1>3, <2>2, <2>3
    <3>. QED
      BY <1>3, <3>1
  <2>7. \A i \in 1 .. size + 2 : new[i] = Append(Stack, s)[i]
    BY <1>3, <2>3, <2>5
  <2>. QED
    BY <2>4, <2>5, <2>6, <2>7, SeqEqual
<1>. QED
  BY <1>4, <1>5

LEMMA PopStack ==
  ASSUME BagInv, BagInv', Pop
  PROVE  \/ Stack = << >> /\ popped' = << >> /\ Stack' = Stack
         \/ /\ Stack # << >>
            /\ popped' = <<Stack[Len(Stack)]>>
            /\ Stack' = SubSeq(Stack, 1, Len(Stack) - 1)
<1>1. /\ Stack \in Seq(States) /\ Len(Stack) = Depth
      /\ \A i \in 1 .. size : Depth # 0 => Stack[i] = array[i]
      /\ Depth # 0 => Stack[Depth] = Value
      /\ Depth = 0 <=> current = Nil
  BY StackFacts
<1>2. CASE current = Nil
  <2>1. Stack = << >>
    BY <1>1, <1>2
  <2>2. UNCHANGED <<array, size, current, cell>> /\ popped' = << >>
    BY <1>2 DEF Pop
  <2>3. Stack' = Stack
    BY <2>2 DEF Stack, Depth, Value
  <2>. QED
    BY <2>1, <2>2, <2>3
<1>3. CASE current # Nil
  <2>1. Depth = size + 1 /\ size \in Nat
    BY <1>3 DEF Depth, BagInv, TypeOK
  <2>2. Stack # << >> /\ popped' = <<Stack[Len(Stack)]>>
    BY <1>1, <1>3, <2>1 DEF Pop
  <2>3. /\ Stack' \in Seq(States) /\ Len(Stack') = size
        /\ \A i \in 1 .. size : Stack'[i] = array[i]
    <3>1. CASE size = 0
      <4>1. Stack' = << >>
        BY <1>3, <3>1 DEF Pop, Stack, Depth, Nil
      <4>. QED
        BY <3>1, <4>1
    <3>2. CASE size > 0
      <4>1. /\ current' = InArray(size) /\ size' = size - 1 /\ array' = array
        BY <1>3, <3>2 DEF Pop
      <4>2. current' # Nil /\ Value' = array[size] /\ Depth' = size
        BY <2>1, <4>1 DEF InArray, Nil, Value, Depth
      <4>3. Stack' = [i \in 1 .. size |-> IF i <= size - 1 THEN array[i] ELSE array[size]]
        BY <4>1, <4>2 DEF Stack
      <4>4. \A i \in 1 .. size : array[i] \in States
        BY DEF BagInv, TypeOK
      <4>5. \A i \in 1 .. size : (IF i <= size - 1 THEN array[i] ELSE array[size]) = array[i]
        BY <2>1
      <4>6. Stack' = [i \in 1 .. size |-> array[i]]
        BY <4>3, <4>5
      <4>. QED
        BY <2>1, <4>4, <4>6
    <3>. QED
      BY <2>1, <3>1, <3>2
  <2>4. /\ SubSeq(Stack, 1, Len(Stack) - 1) \in Seq(States)
        /\ Len(SubSeq(Stack, 1, Len(Stack) - 1)) = size
        /\ \A i \in 1 .. size : SubSeq(Stack, 1, Len(Stack) - 1)[i] = Stack[i]
    BY <1>1, <2>1
  <2>5. Stack' = SubSeq(Stack, 1, Len(Stack) - 1)
    BY <1>1, <2>1, <2>3, <2>4, SeqEqual
  <2>. QED
    BY <2>2, <2>5
<1>. QED
  BY <1>2, <1>3

LEMMA MarshalStack ==
  ASSUME BagInv, BagInv', Marshal
  PROVE  Saved' = Stack /\ Stack' = Stack
<1>1. /\ Stack \in Seq(States) /\ Len(Stack) = Depth
      /\ \A i \in 1 .. size : Depth # 0 => Stack[i] = array[i]
      /\ Depth # 0 => Stack[Depth] = Value
      /\ Depth = 0 <=> current = Nil
  BY StackFacts
<1>2. Stack' = Stack
  BY DEF Marshal, Stack, Depth, Value
<1>3. CASE current = Nil
  BY <1>1, <1>2, <1>3 DEF Marshal, Saved, NoToken
<1>4. CASE current # Nil
  <2>1. /\ Depth = size + 1 /\ size \in Nat
        /\ Value \in States /\ Slice \in Seq(States) /\ Len(Slice) = size
    BY <1>4, ValueType DEF Depth, BagInv, TypeOK
  <2>2. Saved' = Slice \o <<Value>>
    BY <1>4 DEF Marshal, Saved
  <2>3. \A i \in 1 .. size : Slice[i] = Stack[i]
    BY <1>1, <2>1 DEF Slice
  <2>4. /\ Saved' \in Seq(States) /\ Len(Saved') = size + 1
        /\ \A i \in 1 .. size : Saved'[i] = Slice[i]
        /\ Saved'[size + 1] = Value
    BY <2>1, <2>2
  <2>5. \A i \in 1 .. size + 1 : Saved'[i] = Stack[i]
    BY <1>1, <2>1, <2>3, <2>4
  <2>6. Saved' = Stack
    BY <1>1, <2>1, <2>4, <2>5, SeqEqual
  <2>. QED
    BY <1>2, <2>6
<1>. QED
  BY <1>3, <1>4

LEMMA UnmarshalStack ==
  ASSUME BagInv, BagInv', Unmarshal
  PROVE  Stack' = Saved
<1>1. /\ token.states \in Seq(States) /\ token.current \in Seq(States)
      /\ size' = Len(token.states) /\ size' \in Nat
  BY DEF BagInv, TypeOK, Unmarshal
<1>2. CASE token = NoToken /\ current' = Nil
  <2>1. Depth' = 0
    BY <1>2 DEF Depth
  <2>2. Stack' = << >>
    BY <2>1 DEF Stack
  <2>3. Saved = << >>
    BY <1>2 DEF Saved, NoToken
  <2>. QED
    BY <2>2, <2>3
<1>3. CASE /\ token # NoToken
           /\ \E spare \in 0 .. MaxSpare, junk \in States :
                array' = [i \in 1 .. Len(token.states) + spare |->
                            IF i <= Len(token.states) THEN token.states[i] ELSE junk]
           /\ current' = OwnCell
           /\ cell' = token.current[1]
  <2>1. PICK spare \in 0 .. MaxSpare, junk \in States :
          array' = [i \in 1 .. Len(token.states) + spare |->
                      IF i <= Len(token.states) THEN token.states[i] ELSE junk]
    BY <1>3
  <2>2. spare \in Nat
    BY GenBagAssumption
  <2>3. token.current # << >>
    <3>1. ASSUME token.current = << >> PROVE FALSE
      BY <1>3, <3>1 DEF BagInv, TypeOK, NothingHidden, NoToken
    <3>. QED
      BY <3>1
  <2>4. Len(token.current) = 1
    BY <2>3 DEF BagInv, NothingHidden
  <2>5. \A i \in 1 .. size' : array'[i] = token.states[i]
    BY <1>1, <2>1, <2>2
  <2>6. current' # Nil /\ Value' = token.current[1]
    BY <1>3 DEF OwnCell, Nil, Value
  <2>7. Stack' = [i \in 1 .. size' + 1 |-> IF i <= size' THEN array'[i] ELSE token.current[1]]
    BY <2>6 DEF Stack, Depth
  <2>8. /\ Stack' \in Seq(States) /\ Len(Stack') = size' + 1
    <3>1. \A i \in 1 .. size' + 1 :
            (IF i <= size' THEN array'[i] ELSE token.current[1]) \in States
      BY <1>1, <2>4, <2>5
    <3>. QED
      BY <1>1, <2>7, <3>1
  <2>9. /\ Saved \in Seq(States) /\ Len(Saved) = size' + 1
        /\ \A i \in 1 .. size' : Saved[i] = token.states[i]
        /\ Saved[size' + 1] = token.current[1]
    <3>. DEFINE st == token.states
                cu == token.current
                v == cu[1]
    <3>1. /\ st \in Seq(States) /\ cu \in Seq(States) /\ Len(cu) = 1
          /\ v \in States /\ size' = Len(st)
      BY <1>1, <2>4
    <3>2. cu = <<v>>
      BY <3>1, SeqEqual
    <3>3. Saved = st \o <<v>>
      BY <3>2 DEF Saved
    <3>. HIDE DEF st, v
    <3>4. /\ st \o <<v>> \in Seq(States) /\ Len(st \o <<v>>) = Len(st) + 1
          /\ \A i \in 1 .. Len(st) : (st \o <<v>>)[i] = st[i]
          /\ (st \o <<v>>)[Len(st) + 1] = v
      BY <3>1
    <3>. QED
      BY <3>1, <3>3, <3>4 DEF st, v
  <2>10. \A i \in 1 .. size' + 1 : Stack'[i] = Saved[i]
    BY <1>1, <2>5, <2>7, <2>9
  <2>. QED
    BY <1>1, <2>8, <2>9, <2>10, SeqEqual
<1>. QED
  BY <1>2, <1>3 DEF Unmarshal

LEMMA StackInit == Init => Abstract!Init
  BY DEF Init, Abstract!Init, Stack, Depth, Saved, NoToken

LEMMA StackStep == BagInv /\ [Next]_vars => [Abstract!Next]_<<Stack, popped, Saved>>
<1>. SUFFICES ASSUME BagInv, [Next]_vars
              PROVE  Abstract!Next \/ UNCHANGED <<Stack, popped, Saved>>
  OBVIOUS
<1>0. BagInv'
  BY BagStep
<1>1. ASSUME NEW s \in States, Push(s) PROVE Abstract!Next
  <2>1. Stack' = Append(Stack, s)
    BY <1>0, <1>1, PushStack
  <2>2. UNCHANGED <<popped, Saved>>
    BY <1>1 DEF Push, Saved
  <2>. QED
    BY <2>1, <2>2 DEF Abstract!Next, Abstract!Push
<1>2. CASE Pop
  <2>1. UNCHANGED Saved
    BY <1>2 DEF Pop, Saved
  <2>. QED
    BY <1>0, <1>2, <2>1, PopStack DEF Abstract!Next, Abstract!Pop
<1>3. CASE Marshal
  <2>1. UNCHANGED popped
    BY <1>3 DEF Marshal
  <2>. QED
    BY <1>0, <1>3, <2>1, MarshalStack DEF Abstract!Next, Abstract!Save
<1>4. CASE Unmarshal
  <2>1. UNCHANGED <<popped, Saved>>
    BY <1>4 DEF Unmarshal, Saved
  <2>. QED
    BY <1>0, <1>4, <2>1, UnmarshalStack DEF Abstract!Next, Abstract!Load
<1>5. CASE UNCHANGED vars
  BY <1>5 DEF vars, Stack, Depth, Value, Saved
<1>. QED
  BY <1>1, <1>2, <1>3, <1>4, <1>5 DEF Next

\* The page bag, with its pointer into the backing array, its in-place appends and
\* its trips through a token, implements the page stack.
THEOREM BagImplementsStack == Spec => BagIsStack
  BY BagInit, BagStep, StackInit, StackStep, PTL
  DEF Spec, BagIsStack, Abstract!Spec, Abstract!vars
=============================================================================
