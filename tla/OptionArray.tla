---------------------------- MODULE OptionArray ----------------------------
(***************************************************************************)
(* lvtk::OptionArray, with which a host makes LV2 option arrays and both   *)
(* host and plugin walk through them, and the reader of lvtk::BufSize,     *)
(* BufferDetails::apply_options().                                         *)
(*                                                                         *)
(* An array owns its storage or references that of another one.  Readers   *)
(* get a naked pointer and stop at an option whose key is 0 or whose value *)
(* is null.  malloc, realloc and free are external: a reallocated array is *)
(* where it was or in another buffer, its new part is not zeroed, and      *)
(* freed storage that is read holds anything.                              *)
(*                                                                         *)
(* Nothing keeps an owner from adding options, or going, while it is       *)
(* referenced: the reference is left with what it counted and an address   *)
(* where anything can be.                                                  *)
(***************************************************************************)
EXTENDS Naturals, Sequences, SequencesExt

CONSTANTS
  Arrays,     \* the OptionArray variables
  Buffers,    \* the addresses storage can have
  Keys,       \* mapped keys of options
  Fields,     \* the keys a BufferDetails has a field for
  Values,     \* what an option's value pointer points to
  MaxOptions, \* bound on the options of an array
  Null        \* key 0 and nullptr

Options == [key : Keys, value : Values \cup {Null}]

ASSUME OptionAssumption ==
  /\ MaxOptions \in Nat /\ Fields \subseteq Keys
  /\ Null \notin Arrays \cup Buffers \cup Keys \cup Values /\ Null \notin Seq(Options)

VARIABLES
  heap,      \* the options in every buffer; <<>> when it is not allocated
  opts,      \* the buffer of every live array, else Null
  count,     \* its count, with the end option
  allocated, \* whether it owns the buffer
  details,   \* a BufferDetails: the value of every field, Null for none
  shows      \* history: the owner a reference shows, Null once that has changed

vars == <<heap, opts, count, allocated, details, shows>>

Zero    == [key |-> Null, value |-> Null]
Garbage == CHOOSE o \in Options : o.value # Null

Init == /\ heap      = [b \in Buffers |-> <<>>]
        /\ opts      = [a \in Arrays |-> Null]
        /\ count     = [a \in Arrays |-> 0]
        /\ allocated = [a \in Arrays |-> FALSE]
        /\ details   = [k \in Fields |-> Null]
        /\ shows     = [a \in Arrays |-> Null]
-----------------------------------------------------------------------------
Ends(o) == o.key = Null \/ o.value = Null

(* begin() to end(): the options of array a. *)
Listed(a) == SubSeq(heap[opts[a]], 1, count[a] - 1)

(* OptionArray(), and OptionArray (nullptr): allocate_empty().             *)
New(a) ==
  /\ opts[a] = Null
  /\ \E b \in Buffers : /\ heap[b] = <<>>
                        /\ heap' = [heap EXCEPT ![b] = <<Zero>>]
                        /\ opts' = [opts EXCEPT ![a] = b]
  /\ count'     = [count EXCEPT ![a] = 1]
  /\ allocated' = [allocated EXCEPT ![a] = TRUE]
  /\ UNCHANGED <<details, shows>>

(* Mutant: the option that ends is not counted. *)
EndNotCounted(list) == SelectInSeq(list, Ends) - 1

(* The loop of the constructor counts up to and with the option that ends. *)
Counted(list) == SelectInSeq(list, Ends)

(* OptionArray (ref), where ref is the get() of array b, live or outdated. *)
Reference(a, b) ==
  /\ opts[a] = Null /\ opts[b] # Null
  /\ opts' = [opts EXCEPT ![a] = opts[b]]
  /\ \/ heap[opts[b]] # <<>> /\ count' = [count EXCEPT ![a] = Counted(heap[opts[b]])]
     \/ heap[opts[b]] = <<>> /\ \E n \in 1 .. MaxOptions + 1 : count' = [count EXCEPT ![a] = n]
  /\ shows' = [shows EXCEPT ![a] = IF allocated[b] THEN b ELSE shows[b]]
  /\ UNCHANGED <<heap, allocated, details>>

(* The options of array a change or go: none of its references shows them. *)
Outdate(a) == shows' = [r \in Arrays |-> IF r = a \/ shows[r] = a THEN Null ELSE shows[r]]

(* Mutant: the new option is put behind the end option. *)
WithOptionBehind(list, n, o) == [list EXCEPT ![n + 1] = o]

(* ++count, the last option zeroed, the one before it assigned.            *)
WithOption(list, n, o) == [list EXCEPT ![n] = o, ![n + 1] = Zero]

Add(a, o) ==
  /\ allocated[a]
  /\ count[a] <= MaxOptions
  /\ \E b \in Buffers :
       /\ b = opts[a] \/ heap[b] = <<>>
       /\ opts' = [opts EXCEPT ![a] = b]
       /\ heap' = [heap EXCEPT ![opts[a]] = <<>>,
                               ![b] = WithOption(Append(heap[opts[a]], Garbage), count[a], o)]
  /\ count' = [count EXCEPT ![a] = @ + 1]
  /\ Outdate(a)
  /\ UNCHANGED <<allocated, details>>

(* Mutant: a referenced array is freed, too. *)
DestroyFrees(a) ==
  /\ opts[a] # Null
  /\ heap'  = [heap EXCEPT ![opts[a]] = <<>>]
  /\ opts'  = [opts EXCEPT ![a] = Null]
  /\ count' = [count EXCEPT ![a] = 0]
  /\ allocated' = [allocated EXCEPT ![a] = FALSE]
  /\ Outdate(a)
  /\ UNCHANGED details

(* The destructor frees what was allocated.                                *)
Destroy(a) ==
  /\ opts[a] # Null
  /\ heap'  = IF allocated[a] THEN [heap EXCEPT ![opts[a]] = <<>>] ELSE heap
  /\ opts'  = [opts EXCEPT ![a] = Null]
  /\ count' = [count EXCEPT ![a] = 0]
  /\ allocated' = [allocated EXCEPT ![a] = FALSE]
  /\ Outdate(a)
  /\ UNCHANGED details
-----------------------------------------------------------------------------
(* Mutant: a field is only set once. *)
AssignedOnce(d, o) == IF o.key \in Fields /\ d[o.key] = Null THEN [d EXCEPT ![o.key] = o.value] ELSE d

(* One turn of the loop of apply_options(). *)
Assigned(d, o) == IF o.key \in Fields THEN [d EXCEPT ![o.key] = o.value] ELSE d

(* apply_options() reads from the naked pointer up to the option that ends.*)
Applied(b, d) == FoldLeft(Assigned, d, SubSeq(heap[b], 1, SelectInSeq(heap[b], Ends) - 1))

ApplyOptions(a) ==
  /\ opts[a] # Null
  /\ \/ heap[opts[a]] # <<>> /\ details' = Applied(opts[a], details)
     \/ heap[opts[a]] = <<>> /\ details' \in [Fields -> Values \cup {Null}]
  /\ UNCHANGED <<heap, opts, count, allocated, shows>>

Next == \E a \in Arrays : \/ New(a) \/ Destroy(a) \/ ApplyOptions(a)
                          \/ \E b \in Arrays : Reference(a, b)
                          \/ \E o \in Options : Add(a, o)

Spec == Init /\ [][Next]_vars
-----------------------------------------------------------------------------
(* Of every value of the state, with the assertion of the constructor that *)
(* an array counts its end, and nothing left of one that was destroyed.    *)
TypeOK ==
  /\ heap \in [Buffers -> Seq(Options \cup {Zero})]
  /\ opts \in [Arrays -> Buffers \cup {Null}]
  /\ count \in [Arrays -> 0 .. MaxOptions + 1]
  /\ allocated \in [Arrays -> BOOLEAN]
  /\ details \in [Fields -> Values \cup {Null}]
  /\ shows \in [Arrays -> Arrays \cup {Null}]
  /\ \A a \in Arrays : IF opts[a] # Null THEN count[a] >= 1 ELSE count[a] = 0 /\ ~ allocated[a]

(* An owner, or a reference whose owner is there and has added nothing.    *)
Current(a) == allocated[a] \/ shows[a] # Null

(* "MUST be valid with a zeroed option at end": the storage of every array *)
(* that is current is allocated, it has one owner and none is leaked; and  *)
(* whatever was added to it, all who read the naked pointer stop within    *)
(* it, although outdated references may point there, too.                  *)
Terminated ==
  /\ \A a \in Arrays : Current(a) =>
       \E i \in DOMAIN heap[opts[a]] : Ends(heap[opts[a]][i])
  /\ \A b \in Buffers : heap[b] # <<>> =>
       \E a \in Arrays : /\ {c \in Arrays : allocated[c] /\ opts[c] = b} = {a}
                         /\ Len(heap[b]) = count[a] /\ Last(heap[b]) = Zero

List == INSTANCE OptionList WITH
  lists <- [a \in Arrays |-> IF Current(a) THEN Listed(a) ELSE Null]

(* Iterating an array gives what was added to it, or what the referenced   *)
(* one shows until that changes or goes, wherever realloc puts the options *)
(* (refinement of OptionList).                                             *)
ImplementsOptionList == List!Spec

(* Where the last option with a key is in a list, 0 when there is none. *)
LastFor(list, k) == SelectLastInSeq(list, LAMBDA o : o.key = k)

(* What BufSize reads from a current array through the naked pointer is    *)
(* what an iteration of the OptionArray shows: of every field the last value up to *)
(* the first option without one.                                           *)
DetailsAgree ==
  \A a \in Arrays, k \in Fields : Current(a) =>
    LET shown == List!BeforeNull(Listed(a))
        i     == LastFor(shown, k)
    IN Applied(opts[a], details)[k] = IF i = 0 THEN details[k] ELSE shown[i].value
=============================================================================
