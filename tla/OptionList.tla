----------------------------- MODULE OptionList -----------------------------
(***************************************************************************)
(* What lvtk::OptionArray promises: lists of options that can be added to, *)
(* or that show another list, up to the first option without a value,      *)
(* until that list changes or goes.                                        *)
(***************************************************************************)
EXTENDS Naturals, Sequences, SequencesExt

CONSTANTS Arrays, Options, Null

VARIABLES
  lists, \* the options of every array, or Null
  shows  \* the array whose options it shows, Null for its own

Init == lists = [a \in Arrays |-> Null] /\ shows = [a \in Arrays |-> Null]

(* The options all readers see: one without a value ends the list. *)
BeforeNull(list) ==
  LET i == SelectInSeq(list, LAMBDA o : o.value = Null)
  IN IF i = 0 THEN list ELSE SubSeq(list, 1, i - 1)

(* Nobody shows the list of a any more. *)
Withdraw(a) == shows' = [r \in Arrays |-> IF r = a \/ shows[r] = a THEN Null ELSE shows[r]]

New(a) == /\ lists[a] = Null
          /\ lists' = [lists EXCEPT ![a] = <<>>]
          /\ UNCHANGED shows

Show(a, b) == /\ lists[a] = Null /\ lists[b] # Null
              /\ lists' = [lists EXCEPT ![a] = BeforeNull(lists[b])]
              /\ shows' = [shows EXCEPT ![a] = IF shows[b] = Null THEN b ELSE shows[b]]

Add(a, o) == /\ lists[a] # Null /\ shows[a] = Null
             /\ lists' = [r \in Arrays |-> IF r = a THEN Append(lists[a], o)
                                           ELSE IF shows[r] = a THEN Null ELSE lists[r]]
             /\ Withdraw(a)

Destroy(a) == /\ lists[a] # Null
              /\ lists' = [r \in Arrays |-> IF r = a \/ shows[r] = a THEN Null ELSE lists[r]]
              /\ Withdraw(a)

Next == \E a \in Arrays : \/ New(a) \/ Destroy(a)
                          \/ \E b \in Arrays : Show(a, b)
                          \/ \E o \in Options : Add(a, o)

Spec == Init /\ [][Next]_<<lists, shows>>
=============================================================================
