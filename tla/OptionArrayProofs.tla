------------------------- MODULE OptionArrayProofs -------------------------
(***************************************************************************)
(* For any arrays, buffers and options: no reader of an option array runs  *)
(* past its storage, the array and its BufSize reader show what the list   *)
(* it implements holds, and nothing of it is leaked.                       *)
(***************************************************************************)
EXTENDS OptionArray, SequenceTheorems, WellFoundedInduction, TLAPS

Shape ==
  /\ heap \in [Buffers -> Seq(Options \cup {Zero})]
  /\ opts \in [Arrays -> Buffers \cup {Null}]
  /\ count \in [Arrays -> 0 .. MaxOptions + 1]
  /\ allocated \in [Arrays -> BOOLEAN]
  /\ details \in [Fields -> Values \cup {Null}]
  /\ shows \in [Arrays -> Arrays \cup {Null}]

(* What is allocated has an owner, and is options up to a zeroed one. *)
BufferOK(b) ==
  heap[b] # <<>> =>
    /\ \E a \in Arrays : allocated[a] /\ opts[a] = b
    /\ Last(heap[b]) = Zero
    /\ \A i \in 1 .. Len(heap[b]) - 1 : heap[b][i] \in Options

(* An owner counts all of its options, a reference that is not outdated    *)
(* those of its owner up to an end; of the others nothing is known.        *)
ArrayOK(a) ==
  /\ opts[a] = Null => count[a] = 0 /\ ~ allocated[a] /\ shows[a] = Null
  /\ opts[a] # Null => count[a] # 0
  /\ allocated[a] => /\ shows[a] = Null /\ heap[opts[a]] # <<>>
                     /\ count[a] = Len(heap[opts[a]])
  /\ shows[a] # Null => /\ allocated[shows[a]] /\ opts[a] = opts[shows[a]]
                        /\ heap[opts[a]] # <<>>
                        /\ count[a] = Counted(heap[opts[a]])

OneOwner == \A a, c \in Arrays : allocated[a] /\ allocated[c] /\ opts[a] = opts[c] => a = c

IInv == /\ Shape
        /\ \A b \in Buffers : BufferOK(b)
        /\ \A a \in Arrays : ArrayOK(a)
        /\ OneOwner
-----------------------------------------------------------------------------
(* Every set of naturals has a least one: induction on sets, which asks    *)
(* for no operator.                                                        *)
LEMMA LeastNumber ==
  ASSUME NEW T, T \subseteq Nat, T # {}
  PROVE  \E n \in T : \A m \in T : n <= m
<1> DEFINE R == {ss \in Nat \X Nat : ss[1] < ss[2]}
<1>1. IsWellFoundedOn(R, Nat)
  BY NatLessThanWellFounded DEF OpToRel
<1> HIDE DEF R
<1>2. PICK n \in T : \A m \in T : ~ (<<m, n>> \in R)
  BY <1>1, WFMin
<1>3. ASSUME NEW m \in T PROVE n <= m
  <2>1. m \in Nat /\ n \in Nat /\ <<m, n>> \notin R
    BY <1>2
  <2> QED  BY <2>1 DEF R
<1> QED  BY <1>3

(* The loop of the constructor stops at the first option that ends.        *)
LEMMA CountedIsFirst ==
  ASSUME NEW S, NEW list \in Seq(S), NEW e \in 1 .. Len(list), Ends(list[e])
  PROVE  /\ Counted(list) \in 1 .. e /\ Ends(list[Counted(list)])
         /\ \A i \in 1 .. Counted(list) - 1 : ~ Ends(list[i])
<1> DEFINE I == {i \in 1 .. Len(list) : Ends(list[i])}
<1>1. e \in I /\ I \subseteq 1 .. Len(list) /\ Len(list) \in Nat
  BY LenProperties
<1>2. Counted(list) = Min(I)
  BY <1>1 DEF Counted, SelectInSeq
<1>3. Min(I) \in I /\ \A i \in I : Min(I) <= i
  <2> HIDE DEF I
  <2>1. I \subseteq Nat /\ I # {}
    BY <1>1
  <2>2. \E n \in I : \A m \in I : n <= m
    BY <2>1, LeastNumber
  <2> QED  BY <2>2 DEF Min
<1> HIDE DEF I
<1>4. Counted(list) \in 1 .. e
  <2>1. Min(I) \in 1 .. Len(list) /\ Min(I) <= e
    BY <1>1, <1>3
  <2> QED  BY <1>1, <1>2, <2>1
<1>5. ASSUME NEW i \in 1 .. Counted(list) - 1 PROVE ~ Ends(list[i])
  <2>1. i \in 1 .. Len(list) /\ i \notin I
    BY <1>1, <1>2, <1>3, <1>4
  <2> QED  BY <2>1 DEF I
<1> QED  BY <1>2, <1>3, <1>4, <1>5 DEF I

(* The storage after add() holds the options, the new one and the end.     *)
LEMMA Extended ==
  ASSUME NEW list \in Seq(Options \cup {Zero}), list # <<>>, NEW o \in Options,
         NEW more, more = WithOption(Append(list, Garbage), Len(list), o)
  PROVE  /\ more \in Seq(Options \cup {Zero}) /\ Len(more) = Len(list) + 1
         /\ Len(list) \in Nat \ {0}
         /\ more[Len(list)] = o /\ more[Len(list) + 1] = Zero
         /\ \A i \in 1 .. Len(list) - 1 : more[i] = list[i]
<1> DEFINE n == Len(list)
           G == Options \cup {Zero, Garbage}
           raw == Append(list, Garbage)
           set == [raw EXCEPT ![n] = o]
<1>1. list \in Seq(G) /\ n \in Nat \ {0} /\ Garbage \in G /\ o \in G /\ Zero \in G
  BY SeqMonotonic, EmptySeq
<1>2. raw \in Seq(G) /\ Len(raw) = n + 1 /\ \A i \in 1 .. n : raw[i] = list[i]
  BY <1>1, AppendProperties
<1> HIDE DEF raw, G
<1>3. /\ set \in Seq(G) /\ Len(set) = n + 1
      /\ \A i \in 1 .. n + 1 : set[i] = IF i = n THEN o ELSE raw[i]
  BY <1>1, <1>2, ExceptSeq
<1>4. more = [set EXCEPT ![n + 1] = Zero]
  BY DEF WithOption, raw
<1> HIDE DEF set
<1>5. /\ more \in Seq(G) /\ Len(more) = n + 1
      /\ \A i \in 1 .. n + 1 : more[i] = IF i = n + 1 THEN Zero ELSE set[i]
  BY <1>1, <1>3, <1>4, ExceptSeq
<1>6. /\ more[n] = o /\ more[n + 1] = Zero
      /\ \A i \in 1 .. n - 1 : more[i] = list[i]
  BY <1>1, <1>2, <1>3, <1>5
<1>7. \A i \in 1 .. n + 1 : more[i] \in Options \cup {Zero}
  <2>1. \A i \in 1 .. n : list[i] \in Options \cup {Zero}
    BY ElementOfSeq
  <2> QED  BY <1>1, <1>6, <2>1
<1>8. more \in Seq(Options \cup {Zero})
  <2>1. more = SubSeq(more, 1, n + 1)
    BY <1>5, SubSeqFull
  <2> QED  BY <1>1, <1>7, <2>1, SubSeqProperties
<1> QED  BY <1>1, <1>5, <1>6, <1>8
-----------------------------------------------------------------------------
LEMMA BufferSame ==
  ASSUME NEW b \in Buffers, BufferOK(b), heap'[b] = heap[b],
         \A a \in Arrays : opts[a] = b /\ allocated[a] => opts'[a] = b /\ allocated'[a]
  PROVE  BufferOK(b)'
BY DEF BufferOK

LEMMA ArraySame ==
  ASSUME NEW a \in Arrays, ArrayOK(a),
         opts'[a] = opts[a], count'[a] = count[a], allocated'[a] = allocated[a],
         shows'[a] = shows[a] \/ shows'[a] = Null,
         Current(a) /\ shows'[a] = shows[a] => heap'[opts[a]] = heap[opts[a]],
         shows'[a] # Null => opts'[shows[a]] = opts[shows[a]] /\ allocated'[shows[a]]
  PROVE  ArrayOK(a)'
<1>1. /\ opts'[a] = Null => count'[a] = 0 /\ ~ allocated'[a] /\ shows'[a] = Null
      /\ opts'[a] # Null => count'[a] # 0
  BY DEF ArrayOK
<1>2. allocated'[a] => /\ shows'[a] = Null /\ heap'[opts'[a]] # <<>>
                       /\ count'[a] = Len(heap'[opts'[a]])
  BY DEF ArrayOK, Current
<1>3. shows'[a] # Null => /\ allocated'[shows'[a]] /\ opts'[a] = opts'[shows'[a]]
                          /\ heap'[opts'[a]] # <<>>
                          /\ count'[a] = Counted(heap'[opts'[a]])
  <2> SUFFICES ASSUME shows'[a] # Null
               PROVE  /\ allocated'[shows'[a]] /\ opts'[a] = opts'[shows'[a]]
                      /\ heap'[opts'[a]] # <<>>
                      /\ count'[a] = Counted(heap'[opts'[a]])
    OBVIOUS
  <2>1. shows'[a] = shows[a] /\ Current(a) /\ heap'[opts[a]] = heap[opts[a]]
    BY DEF Current
  <2> QED  BY <2>1 DEF ArrayOK
<1> QED  BY <1>1, <1>2, <1>3 DEF ArrayOK

(* Where the option that ends a list can be. *)
LEMMA LiveBuffer ==
  ASSUME IInv, NEW b \in Buffers, heap[b] # <<>>
  PROVE  /\ heap[b] \in Seq(Options \cup {Zero}) /\ Len(heap[b]) \in Nat \ {0}
         /\ \A i \in 1 .. Len(heap[b]) - 1 : heap[b][i] \in Options
         /\ heap[b][Len(heap[b])] = Zero
         /\ Counted(heap[b]) \in 1 .. Len(heap[b])
         /\ Ends(heap[b][Counted(heap[b])])
         /\ \A i \in 1 .. Counted(heap[b]) - 1 : ~ Ends(heap[b][i])
<1> DEFINE list == heap[b]
<1>1. list \in Seq(Options \cup {Zero}) /\ list # <<>>
  BY DEF IInv, Shape
<1>2. Len(list) \in Nat \ {0}
  BY <1>1, EmptySeq
<1>3. /\ list[Len(list)] = Zero /\ \A i \in 1 .. Len(list) - 1 : list[i] \in Options
  BY <1>1 DEF IInv, BufferOK, Last
<1>4. Len(list) \in 1 .. Len(list) /\ Ends(list[Len(list)])
  BY <1>2, <1>3 DEF Ends, Zero
<1> HIDE DEF list
<1>5. /\ Counted(list) \in 1 .. Len(list) /\ Ends(list[Counted(list)])
      /\ \A i \in 1 .. Counted(list) - 1 : ~ Ends(list[i])
  BY <1>1, <1>4, CountedIsFirst
<1> QED  BY <1>1, <1>2, <1>3, <1>5 DEF list

LEMMA LivesIn ==
  ASSUME IInv, NEW a \in Arrays, Current(a)
  PROVE  opts[a] \in Buffers /\ heap[opts[a]] # <<>>
<1>1. ArrayOK(a) /\ opts \in [Arrays -> Buffers \cup {Null}]
  BY DEF IInv, Shape
<1>2. opts[a] # Null /\ heap[opts[a]] # <<>>
  BY <1>1 DEF ArrayOK, Current
<1> QED  BY <1>1, <1>2

(* A current array: its options, its end, and where a reader stops.        *)
LEMMA LiveArray ==
  ASSUME IInv, NEW a \in Arrays, Current(a)
  PROVE  /\ opts[a] \in Buffers /\ heap[opts[a]] \in Seq(Options \cup {Zero}) /\ heap[opts[a]] # <<>>
         /\ Len(heap[opts[a]]) \in Nat \ {0} /\ count[a] \in 1 .. Len(heap[opts[a]])
         /\ \A i \in 1 .. Len(heap[opts[a]]) - 1 : heap[opts[a]][i] \in Options
         /\ heap[opts[a]][Len(heap[opts[a]])] = Zero
         /\ Counted(heap[opts[a]]) \in 1 .. count[a]
         /\ Ends(heap[opts[a]][Counted(heap[opts[a]])])
         /\ \A i \in 1 .. Counted(heap[opts[a]]) - 1 : ~ Ends(heap[opts[a]][i])
<1> DEFINE list == heap[opts[a]]
<1>1. opts[a] \in Buffers /\ list # <<>>
  BY LivesIn
<1>2. /\ list \in Seq(Options \cup {Zero}) /\ Len(list) \in Nat \ {0}
      /\ \A i \in 1 .. Len(list) - 1 : list[i] \in Options
      /\ list[Len(list)] = Zero
      /\ Counted(list) \in 1 .. Len(list)
      /\ Ends(list[Counted(list)])
      /\ \A i \in 1 .. Counted(list) - 1 : ~ Ends(list[i])
  BY <1>1, LiveBuffer
<1>3. count[a] = Len(list) \/ count[a] = Counted(list)
  BY DEF IInv, ArrayOK, Current
<1> HIDE DEF list
<1>4. count[a] \in 1 .. Len(list) /\ Counted(list) \in 1 .. count[a]
  <2>1. CASE count[a] = Len(list)     BY <1>2, <2>1
  <2>2. CASE count[a] = Counted(list) BY <1>2, <2>2
  <2> QED  BY <1>3, <2>1, <2>2
<1> QED  BY <1>1, <1>2, <1>4 DEF list

(* What an owner changes, no current array sees but its own references.    *)
LEMMA OwnStorage ==
  ASSUME IInv, NEW a \in Arrays, allocated[a],
         NEW r \in Arrays \ {a}, Current(r), shows[r] # a
  PROVE  opts[r] # opts[a]
<1>1. ArrayOK(r) /\ OneOwner
  BY DEF IInv
<1>2. CASE allocated[r]
  BY <1>1, <1>2 DEF OneOwner
<1>3. CASE shows[r] # Null
  <2>1. shows[r] \in Arrays /\ allocated[shows[r]] /\ opts[r] = opts[shows[r]]
    BY <1>1, <1>3 DEF ArrayOK, IInv, Shape
  <2> QED  BY <1>1, <2>1 DEF OneOwner
<1> QED  BY <1>2, <1>3 DEF Current

LEMMA NewKeeps ==
  ASSUME IInv, NEW a \in Arrays, New(a) PROVE IInv'
<1>1. PICK b \in Buffers : /\ heap[b] = <<>> /\ heap' = [heap EXCEPT ![b] = <<Zero>>]
                           /\ opts' = [opts EXCEPT ![a] = b]
  BY DEF New
<1>2. /\ opts[a] = Null /\ count' = [count EXCEPT ![a] = 1]
      /\ allocated' = [allocated EXCEPT ![a] = TRUE] /\ details' = details /\ shows' = shows
  BY DEF New
<1>3. <<Zero>> \in Seq(Options \cup {Zero}) /\ Len(<<Zero>>) = 1 /\ <<Zero>>[1] = Zero /\ <<Zero>> # <<>>
  OBVIOUS
<1>4. Shape'
  BY <1>1, <1>2, <1>3, OptionAssumption DEF IInv, Shape
<1>5. /\ heap'[b] = <<Zero>> /\ opts'[a] = b /\ count'[a] = 1 /\ allocated'[a] = TRUE /\ b # Null
      /\ \A c \in Buffers \ {b} : heap'[c] = heap[c]
      /\ \A r \in Arrays \ {a} : opts'[r] = opts[r] /\ count'[r] = count[r] /\ allocated'[r] = allocated[r]
  BY <1>1, <1>2, OptionAssumption DEF IInv, Shape
<1>6. BufferOK(b)'
  BY <1>3, <1>5 DEF BufferOK, Last
<1>7. ASSUME NEW c \in Buffers \ {b} PROVE BufferOK(c)'
  <2>1. \A r \in Arrays : opts[r] = c => opts'[r] = c /\ (allocated[r] => allocated'[r])
    BY <1>2, <1>5, OptionAssumption
  <2> QED  BY <1>5, <2>1, BufferSame DEF IInv
<1>8. ~ allocated[a] /\ shows[a] = Null
  BY <1>2 DEF IInv, ArrayOK
<1>9. ArrayOK(a)'
  <2>1. shows'[a] = Null /\ heap'[opts'[a]] = <<Zero>>
    BY <1>2, <1>5, <1>8
  <2>2. count'[a] = Len(heap'[opts'[a]]) /\ heap'[opts'[a]] # <<>>
    BY <1>3, <1>5, <2>1
  <2>3. opts'[a] # Null /\ count'[a] # 0 /\ allocated'[a]
    BY <1>5
  <2> QED  BY <2>1, <2>2, <2>3 DEF ArrayOK
<1>10. \A r \in Arrays : Current(r) => opts[r] \in Buffers \ {b}
  BY <1>1, LivesIn
<1>11. ASSUME NEW r \in Arrays \ {a} PROVE ArrayOK(r)'
  <2>1. Current(r) => heap'[opts[r]] = heap[opts[r]]
    BY <1>5, <1>10
  <2>2. shows[r] # Null => shows[r] \in Arrays \ {a} /\ allocated[shows[r]]
    BY <1>8 DEF IInv, Shape, ArrayOK
  <2>3. shows'[r] # Null => opts'[shows[r]] = opts[shows[r]] /\ allocated'[shows[r]]
    BY <1>2, <1>5, <2>2
  <2>4. ArrayOK(r)
    BY DEF IInv
  <2> QED  BY <1>2, <1>5, <2>1, <2>3, <2>4, ArraySame
<1>12. OneOwner'
  <2>1. \A r \in Arrays \ {a} : allocated'[r] => opts'[r] # b /\ allocated[r] /\ opts'[r] = opts[r]
    BY <1>5, <1>10 DEF Current
  <2> QED  BY <1>5, <2>1 DEF OneOwner, IInv
<1> QED  BY <1>4, <1>6, <1>7, <1>9, <1>11, <1>12 DEF IInv

(* What a reference gets from array b, which may be outdated.              *)
LEMMA ReferenceDoes ==
  ASSUME IInv, NEW a \in Arrays, NEW b \in Arrays, Reference(a, b)
  PROVE  /\ opts[a] = Null /\ ~ allocated[a] /\ shows[a] = Null /\ opts[b] # Null /\ b # a
         /\ opts' = [opts EXCEPT ![a] = opts[b]] /\ UNCHANGED <<heap, allocated, details>>
         /\ shows' = [shows EXCEPT ![a] = IF allocated[b] THEN b ELSE shows[b]]
         /\ \E n \in 1 .. MaxOptions + 1 :
              /\ count' = [count EXCEPT ![a] = n]
              /\ heap[opts[b]] # <<>> => n = Counted(heap[opts[b]])
<1>1. /\ opts[a] = Null /\ opts[b] # Null /\ ArrayOK(a)
  BY DEF Reference, IInv
<1>2. /\ opts' = [opts EXCEPT ![a] = opts[b]] /\ UNCHANGED <<heap, allocated, details>>
      /\ shows' = [shows EXCEPT ![a] = IF allocated[b] THEN b ELSE shows[b]]
  BY DEF Reference
<1>3. CASE heap[opts[b]] = <<>>
  <2>1. \E n \in 1 .. MaxOptions + 1 : count' = [count EXCEPT ![a] = n]
    BY <1>3 DEF Reference
  <2> QED  BY <1>1, <1>2, <1>3, <2>1 DEF ArrayOK
<1>4. CASE heap[opts[b]] # <<>>
  <2>1. count' = [count EXCEPT ![a] = Counted(heap[opts[b]])]
    BY <1>4 DEF Reference
  <2>2. opts[b] \in Buffers
    BY <1>1 DEF IInv, Shape
  <2>3. Counted(heap[opts[b]]) \in 1 .. Len(heap[opts[b]]) /\ BufferOK(opts[b])
    BY <1>4, <2>2, LiveBuffer DEF IInv
  <2>4. PICK c \in Arrays : allocated[c] /\ opts[c] = opts[b]
    BY <1>4, <2>3 DEF BufferOK
  <2>5. Len(heap[opts[b]]) \in 0 .. MaxOptions + 1
    BY <2>4 DEF IInv, Shape, ArrayOK
  <2>6. Counted(heap[opts[b]]) \in 1 .. MaxOptions + 1
    BY <2>3, <2>5, OptionAssumption
  <2> QED  BY <1>1, <1>2, <2>1, <2>6 DEF ArrayOK
<1> QED  BY <1>3, <1>4

LEMMA ReferenceKeeps ==
  ASSUME IInv, NEW a \in Arrays, NEW b \in Arrays, Reference(a, b) PROVE IInv'
<1> DEFINE list == heap[opts[b]]
           owner == IF allocated[b] THEN b ELSE shows[b]
<1>1. /\ opts[a] = Null /\ ~ allocated[a] /\ shows[a] = Null /\ opts[b] # Null /\ b # a
      /\ opts' = [opts EXCEPT ![a] = opts[b]] /\ UNCHANGED <<heap, allocated, details>>
      /\ shows' = [shows EXCEPT ![a] = owner]
  BY ReferenceDoes
<1>2. PICK n \in 1 .. MaxOptions + 1 : /\ count' = [count EXCEPT ![a] = n]
                                       /\ list # <<>> => n = Counted(list)
  BY ReferenceDoes
<1>3. n \in 0 .. MaxOptions + 1 /\ n # 0
  BY OptionAssumption
<1>4. /\ owner \in Arrays \cup {Null}
      /\ owner # Null => /\ owner # a /\ allocated[owner] /\ opts[b] = opts[owner]
                         /\ list # <<>>
  <2>1. ArrayOK(b) /\ shows \in [Arrays -> Arrays \cup {Null}]
    BY DEF IInv, Shape
  <2> QED  BY <1>1, <2>1 DEF ArrayOK
<1> HIDE DEF list, owner
<1>5. Shape'
  BY <1>1, <1>2, <1>3, <1>4 DEF IInv, Shape
<1>6. /\ opts'[a] = opts[b] /\ count'[a] = n /\ ~ allocated'[a] /\ shows'[a] = owner
      /\ \A r \in Arrays \ {a} : opts'[r] = opts[r] /\ count'[r] = count[r] /\ shows'[r] = shows[r]
  BY <1>1, <1>2 DEF IInv, Shape
<1>7. ASSUME NEW c \in Buffers PROVE BufferOK(c)'
  <2>1. \A r \in Arrays : opts[r] = c => opts'[r] = c
    BY <1>1, <1>6, OptionAssumption
  <2> QED  BY <1>1, <2>1, BufferSame DEF IInv
<1>8. ArrayOK(a)'
  <2>1. owner # Null => /\ allocated'[owner] /\ opts'[a] = opts'[owner]
                        /\ heap'[opts'[a]] # <<>> /\ count'[a] = Counted(heap'[opts'[a]])
    <3> SUFFICES ASSUME owner # Null
                 PROVE  /\ allocated'[owner] /\ opts'[a] = opts'[owner]
                        /\ heap'[opts'[a]] # <<>> /\ count'[a] = Counted(heap'[opts'[a]])
      OBVIOUS
    <3>1. opts'[owner] = opts[owner]
      BY <1>4, <1>6
    <3> QED  BY <1>1, <1>2, <1>4, <1>6, <3>1 DEF list
  <2> QED  BY <1>1, <1>3, <1>6, <2>1 DEF ArrayOK
<1>9. ASSUME NEW r \in Arrays \ {a} PROVE ArrayOK(r)'
  <2>1. shows[r] # Null => shows[r] \in Arrays \ {a} /\ allocated[shows[r]]
    BY <1>1 DEF IInv, Shape, ArrayOK
  <2>2. shows'[r] # Null => opts'[shows[r]] = opts[shows[r]] /\ allocated'[shows[r]]
    BY <1>1, <1>6, <2>1
  <2>3. ArrayOK(r)
    BY DEF IInv
  <2> QED  BY <1>1, <1>6, <2>2, <2>3, ArraySame
<1>10. OneOwner'
  <2>1. \A r \in Arrays : allocated'[r] => r # a /\ allocated[r] /\ opts'[r] = opts[r]
    BY <1>1, <1>6
  <2> QED  BY <2>1 DEF OneOwner, IInv
<1> QED  BY <1>5, <1>7, <1>8, <1>9, <1>10 DEF IInv

(* The options of a moved to b as more, in the one block or another.       *)
Moved(a, o, b, more) ==
  /\ b = opts[a] \/ heap[b] = <<>>
  /\ opts' = [opts EXCEPT ![a] = b]
  /\ heap'[b] = more /\ (b # opts[a] => heap'[opts[a]] = <<>>)
  /\ \A c \in Buffers \ {b, opts[a]} : heap'[c] = heap[c]
  /\ Len(more) = count[a] + 1 /\ more[count[a]] = o /\ more[count[a] + 1] = Zero
  /\ \A i \in 1 .. count[a] - 1 : more[i] = heap[opts[a]][i]

(* What add() does, wherever realloc() puts the options.                   *)
LEMMA AddDoes ==
  ASSUME IInv, NEW a \in Arrays, NEW o \in Options, Add(a, o)
  PROVE  /\ Outdate(a)
         /\ \E b \in Buffers, more \in Seq(Options \cup {Zero}) : Moved(a, o, b, more)
         /\ heap' \in [Buffers -> Seq(Options \cup {Zero})]
         /\ count[a] = Len(heap[opts[a]]) /\ count[a] \in 1 .. MaxOptions
         /\ count' = [count EXCEPT ![a] = count[a] + 1] /\ allocated[a] /\ UNCHANGED <<allocated, details>>
<1>1. /\ Outdate(a) /\ allocated[a] /\ count[a] <= MaxOptions
      /\ count' = [count EXCEPT ![a] = count[a] + 1] /\ UNCHANGED <<allocated, details>>
  BY DEF Add
<1>2. /\ opts[a] \in Buffers /\ heap[opts[a]] \in Seq(Options \cup {Zero}) /\ heap[opts[a]] # <<>>
      /\ count[a] = Len(heap[opts[a]]) /\ count[a] \in Nat \ {0}
  BY <1>1, LiveArray DEF IInv, ArrayOK, Current
<1> DEFINE more == WithOption(Append(heap[opts[a]], Garbage), count[a], o)
<1>3. PICK b \in Buffers : /\ b = opts[a] \/ heap[b] = <<>>
                           /\ opts' = [opts EXCEPT ![a] = b]
                           /\ heap' = [heap EXCEPT ![opts[a]] = <<>>, ![b] = more]
  BY DEF Add
<1>4. /\ more \in Seq(Options \cup {Zero}) /\ Len(more) = count[a] + 1
      /\ more[count[a]] = o /\ more[count[a] + 1] = Zero
      /\ \A i \in 1 .. count[a] - 1 : more[i] = heap[opts[a]][i]
  <2> DEFINE list == heap[opts[a]]
  <2>1. /\ list \in Seq(Options \cup {Zero}) /\ list # <<>> /\ count[a] = Len(list)
        /\ more = WithOption(Append(list, Garbage), Len(list), o)
    BY <1>2
  <2> HIDE DEF more, list
  <2>2. /\ more \in Seq(Options \cup {Zero}) /\ Len(more) = Len(list) + 1
        /\ more[Len(list)] = o /\ more[Len(list) + 1] = Zero
        /\ \A i \in 1 .. Len(list) - 1 : more[i] = list[i]
    BY <2>1, Extended
  <2> QED  BY <2>1, <2>2 DEF list
<1> HIDE DEF more
<1>5. heap \in [Buffers -> Seq(Options \cup {Zero})] /\ <<>> \in Seq(Options \cup {Zero})
  BY EmptySeq DEF IInv, Shape
<1>6. heap' \in [Buffers -> Seq(Options \cup {Zero})]
  BY <1>2, <1>3, <1>4, <1>5
<1>7. /\ heap'[b] = more /\ (b # opts[a] => heap'[opts[a]] = <<>>)
      /\ \A c \in Buffers \ {b, opts[a]} : heap'[c] = heap[c]
  BY <1>2, <1>3, <1>5
<1>8. count[a] \in 1 .. MaxOptions
  BY <1>1, <1>2, OptionAssumption
<1>9. Moved(a, o, b, more)
  BY <1>3, <1>4, <1>7 DEF Moved
<1> QED  BY <1>1, <1>2, <1>4, <1>6, <1>8, <1>9

(* Whoever is current and does not reference the owner a is as it was.     *)
LEMMA Bystanders ==
  ASSUME IInv, NEW a \in Arrays, allocated[a], Outdate(a),
         \A r \in Arrays \ {a} : /\ opts'[r] = opts[r] /\ count'[r] = count[r]
                                 /\ allocated'[r] = allocated[r],
         \A c \in Buffers \ {opts[a]} : heap[c] # <<>> => heap'[c] = heap[c]
  PROVE  /\ shows' \in [Arrays -> Arrays \cup {Null}]
         /\ \A r \in Arrays \ {a} : ArrayOK(r)'
<1>1. /\ shows \in [Arrays -> Arrays \cup {Null}]
      /\ shows' = [r \in Arrays |-> IF r = a \/ shows[r] = a THEN Null ELSE shows[r]]
  BY DEF IInv, Shape, Outdate
<1>2. ASSUME NEW r \in Arrays \ {a} PROVE ArrayOK(r)'
  <2>1. shows'[r] = IF shows[r] = a THEN Null ELSE shows[r]
    BY <1>1
  <2>2. ArrayOK(r) /\ a # Null
    BY OptionAssumption DEF IInv
  <2>3. Current(r) /\ shows'[r] = shows[r] => heap'[opts[r]] = heap[opts[r]]
    <3> SUFFICES ASSUME Current(r), shows'[r] = shows[r] PROVE heap'[opts[r]] = heap[opts[r]]
      OBVIOUS
    <3>1. shows[r] # a
      BY <2>1, <2>2
    <3>2. opts[r] \in Buffers \ {opts[a]} /\ heap[opts[r]] # <<>>
      BY <3>1, OwnStorage, LivesIn
    <3> QED  BY <3>2
  <2>4. shows'[r] # Null => opts'[shows[r]] = opts[shows[r]] /\ allocated'[shows[r]]
    <3> SUFFICES ASSUME shows'[r] # Null
                 PROVE  opts'[shows[r]] = opts[shows[r]] /\ allocated'[shows[r]]
      OBVIOUS
    <3>1. shows[r] \in Arrays \ {a} /\ allocated[shows[r]]
      BY <1>1, <2>1, <2>2 DEF ArrayOK
    <3> QED  BY <3>1
  <2> QED  BY <2>1, <2>2, <2>3, <2>4, ArraySame
<1> QED  BY <1>1, <1>2

LEMMA AddKeeps ==
  ASSUME IInv, NEW a \in Arrays, NEW o \in Options, Add(a, o) PROVE IInv'
<1>1. /\ Outdate(a) /\ heap' \in [Buffers -> Seq(Options \cup {Zero})]
      /\ count[a] = Len(heap[opts[a]]) /\ count[a] \in 1 .. MaxOptions
      /\ count' = [count EXCEPT ![a] = count[a] + 1] /\ allocated[a] /\ UNCHANGED <<allocated, details>>
  BY AddDoes
<1>0. PICK b \in Buffers, more \in Seq(Options \cup {Zero}) : Moved(a, o, b, more)
  BY AddDoes
<1>2. /\ b = opts[a] \/ heap[b] = <<>>
      /\ opts' = [opts EXCEPT ![a] = b]
      /\ heap'[b] = more /\ (b # opts[a] => heap'[opts[a]] = <<>>)
      /\ \A c \in Buffers \ {b, opts[a]} : heap'[c] = heap[c]
      /\ Len(more) = count[a] + 1 /\ more[count[a]] = o /\ more[count[a] + 1] = Zero
      /\ \A i \in 1 .. count[a] - 1 : more[i] = heap[opts[a]][i]
  BY <1>0 DEF Moved
<1>3. count[a] + 1 \in 0 .. MaxOptions + 1 /\ count[a] + 1 # 0
  BY <1>1, OptionAssumption
<1>5. /\ opts'[a] = b /\ count'[a] = count[a] + 1 /\ allocated'[a] /\ b # Null
      /\ \A r \in Arrays \ {a} : opts'[r] = opts[r] /\ count'[r] = count[r] /\ allocated'[r] = allocated[r]
  BY <1>1, <1>2, OptionAssumption DEF IInv, Shape
<1>4. /\ shows' \in [Arrays -> Arrays \cup {Null}]
      /\ \A r \in Arrays \ {a} : ArrayOK(r)'
  <2>1. \A c \in Buffers \ {opts[a]} : heap[c] # <<>> => heap'[c] = heap[c]
    BY <1>2
  <2> QED  BY <1>1, <1>5, <2>1, Bystanders
<1>6. BufferOK(b)'
  <2>1. \A i \in 1 .. count[a] - 1 : heap[opts[a]][i] \in Options
    BY <1>1, LiveArray DEF Current
  <2>2. ASSUME NEW i \in 1 .. Len(more) - 1 PROVE more[i] \in Options
    <3>1. count[a] \in Nat /\ i \in 1 .. count[a] /\ more[count[a]] \in Options
      BY <1>1, <1>2, OptionAssumption
    <3>2. CASE i = count[a]
      BY <3>1, <3>2
    <3>3. CASE i # count[a]
      <4>1. i \in 1 .. count[a] - 1
        BY <3>1, <3>3
      <4> QED  BY <1>2, <2>1, <4>1
    <3> QED  BY <3>2, <3>3
  <2>3. more[Len(more)] = Zero
    BY <1>2
  <2> QED  BY <1>2, <1>5, <2>2, <2>3 DEF BufferOK, Last
<1>7. ASSUME NEW c \in Buffers \ {b} PROVE BufferOK(c)'
  <2>1. CASE c = opts[a]
    BY <1>2, <2>1 DEF BufferOK
  <2>2. CASE c # opts[a]
    BY <1>2, <1>5, <1>7, <2>2, BufferSame DEF IInv
  <2> QED  BY <2>1, <2>2
<1>8. ArrayOK(a)'
  <2>1. more # <<>>
    BY <1>2, <1>3, EmptySeq
  <2>2. shows'[a] = Null
    BY <1>1 DEF Outdate
  <2> QED  BY <1>2, <1>3, <1>5, <2>1, <2>2 DEF ArrayOK
<1>9. OneOwner'
  <2>1. ASSUME NEW r \in Arrays \ {a}, allocated'[r] PROVE opts'[r] # b /\ allocated[r] /\ opts'[r] = opts[r]
    <3>1. allocated[r] /\ opts'[r] = opts[r] /\ heap[opts[r]] # <<>>
      BY <1>5, <2>1, LivesIn DEF Current
    <3>2. opts[r] # opts[a]
      BY <1>1, <3>1 DEF IInv, OneOwner
    <3> QED  BY <1>2, <3>1, <3>2
  <2> QED  BY <1>5, <2>1 DEF OneOwner, IInv
<1>10. Shape'
  BY <1>1, <1>2, <1>3, <1>4 DEF IInv, Shape
<1> QED  BY <1>4, <1>6, <1>7, <1>8, <1>9, <1>10 DEF IInv

LEMMA DestroyKeeps ==
  ASSUME IInv, NEW a \in Arrays, Destroy(a) PROVE IInv'
<1>1. /\ opts[a] # Null /\ opts' = [opts EXCEPT ![a] = Null]
      /\ count' = [count EXCEPT ![a] = 0] /\ allocated' = [allocated EXCEPT ![a] = FALSE]
      /\ details' = details /\ Outdate(a)
      /\ heap' = IF allocated[a] THEN [heap EXCEPT ![opts[a]] = <<>>] ELSE heap
  BY DEF Destroy
<1>2. opts[a] \in Buffers /\ <<>> \in Seq(Options \cup {Zero})
  BY <1>1, EmptySeq DEF IInv, Shape
<1>3. /\ heap' \in [Buffers -> Seq(Options \cup {Zero})]
      /\ \A c \in Buffers \ {opts[a]} : heap'[c] = heap[c]
      /\ allocated[a] => heap'[opts[a]] = <<>>
      /\ ~ allocated[a] => heap' = heap
  BY <1>1, <1>2 DEF IInv, Shape
<1>5. /\ opts'[a] = Null /\ count'[a] = 0 /\ ~ allocated'[a] /\ shows'[a] = Null
      /\ \A r \in Arrays \ {a} : opts'[r] = opts[r] /\ count'[r] = count[r] /\ allocated'[r] = allocated[r]
  BY <1>1 DEF IInv, Shape, Outdate
<1>4. /\ shows' \in [Arrays -> Arrays \cup {Null}]
      /\ \A r \in Arrays \ {a} : ArrayOK(r)'
  <2>1. CASE allocated[a]
    <3>1. \A c \in Buffers \ {opts[a]} : heap[c] # <<>> => heap'[c] = heap[c]
      BY <1>3
    <3> QED  BY <1>1, <1>5, <2>1, <3>1, Bystanders
  <2>2. CASE ~ allocated[a]
    <3>1. \A r \in Arrays : shows[r] # a
      BY <2>2, OptionAssumption DEF IInv, ArrayOK
    <3>2. shows \in [Arrays -> Arrays \cup {Null}] /\ \A r \in Arrays \ {a} : shows'[r] = shows[r]
      BY <1>1, <3>1 DEF IInv, Shape, Outdate
    <3>3. shows' \in [Arrays -> Arrays \cup {Null}]
      BY <1>1, <3>2 DEF Outdate
    <3>4. ASSUME NEW r \in Arrays \ {a} PROVE ArrayOK(r)'
      <4>1. shows[r] # Null => shows[r] \in Arrays \ {a} /\ allocated[shows[r]]
        BY <2>2, <3>2 DEF IInv, ArrayOK
      <4>2. shows'[r] # Null => opts'[shows[r]] = opts[shows[r]] /\ allocated'[shows[r]]
        BY <1>5, <3>2, <4>1
      <4>3. ArrayOK(r)
        BY DEF IInv
      <4> QED  BY <1>3, <1>5, <2>2, <3>2, <4>2, <4>3, ArraySame
    <3> QED  BY <3>3, <3>4
  <2> QED  BY <2>1, <2>2
<1>6. ASSUME NEW c \in Buffers PROVE BufferOK(c)'
  <2>1. CASE c = opts[a] /\ allocated[a]
    BY <1>3, <2>1 DEF BufferOK
  <2>2. CASE c # opts[a] \/ ~ allocated[a]
    <3>1. heap'[c] = heap[c]
      BY <1>3, <2>2
    <3>2. \A r \in Arrays : opts[r] = c /\ allocated[r] => opts'[r] = c /\ allocated'[r]
      BY <1>5, <2>2
    <3> QED  BY <3>1, <3>2, BufferSame DEF IInv
  <2> QED  BY <2>1, <2>2
<1>7. ArrayOK(a)'
  BY <1>5 DEF ArrayOK
<1>8. OneOwner'
  BY <1>5 DEF IInv, OneOwner
<1>9. Shape'
  <2>1. 0 \in 0 .. MaxOptions + 1
    BY OptionAssumption
  <2>2. /\ opts' \in [Arrays -> Buffers \cup {Null}]
        /\ count' \in [Arrays -> 0 .. MaxOptions + 1]
        /\ allocated' \in [Arrays -> BOOLEAN]
        /\ details' \in [Fields -> Values \cup {Null}]
    BY <1>1, <2>1 DEF IInv, Shape
  <2> QED  BY <1>3, <1>4, <2>2 DEF Shape
<1> QED  BY <1>4, <1>6, <1>7, <1>8, <1>9 DEF IInv
-----------------------------------------------------------------------------
(* The loop of apply_options(), one option at a time, over a set of        *)
(* positions in the list of options.                                       *)
ByTurns(list, d, f) ==
  f = [s \in SUBSET DOMAIN list |->
         IF s = {} THEN d ELSE Assigned(f[s \ {Max(s)}], list[Max(s)])]

(* What it comes to: a field has the last value for it.                    *)
Setting(list, s, k) == {i \in s : list[i].key = k}

LastOf(list, d) ==
  [s \in SUBSET DOMAIN list |->
     [k \in Fields |-> IF Setting(list, s, k) # {} THEN list[Max(Setting(list, s, k))].value ELSE d[k]]]

LEMMA LargestIndex ==
  ASSUME NEW n \in Nat, NEW s, s \subseteq 1 .. n, s # {}
  PROVE  Max(s) \in s /\ \A i \in s : i <= Max(s)
<1> DEFINE T == {n - i : i \in s}
<1>1. T \subseteq Nat /\ T # {}
  <2>1. \A i \in s : n - i \in Nat
    OBVIOUS
  <2> QED  BY <2>1
<1>2. PICK k \in T : \A m \in T : k <= m
  <2> HIDE DEF T
  <2> QED  BY <1>1, LeastNumber
<1>3. PICK j \in s : k = n - j
  BY <1>2
<1>4. \A i \in s : i <= j
  <2>1. ASSUME NEW i \in s PROVE i <= j
    <3>1. n - i \in T
      BY <2>1
    <3>2. n - j <= n - i
      BY <1>2, <1>3, <3>1
    <3>3. i \in 1 .. n /\ j \in 1 .. n
      BY <1>3, <2>1
    <3> QED  BY <3>2, <3>3
  <2> QED  BY <2>1
<1> QED  BY <1>4 DEF Max

LEMMA LastOfByTurns ==
  ASSUME NEW list \in Seq(Options), NEW D, NEW d \in [Fields -> D] PROVE ByTurns(list, d, LastOf(list, d))
<1> DEFINE n == Len(list)
<1>1. n \in Nat /\ DOMAIN list = 1 .. n
  BY LenProperties
<1> HIDE DEF n
<1>2. LastOf(list, d)[{}] = d
  BY DEF LastOf, Setting
<1>3. ASSUME NEW s \in SUBSET DOMAIN list, s # {}
      PROVE  LastOf(list, d)[s] = Assigned(LastOf(list, d)[s \ {Max(s)}], list[Max(s)])
  <2> DEFINE m == Max(s)
  <2>1. m \in s /\ \A i \in s : i <= m
    BY <1>1, <1>3, LargestIndex
  <2> HIDE DEF m
  <2>2. ASSUME NEW k \in Fields
        PROVE  LastOf(list, d)[s][k] = IF list[m].key = k THEN list[m].value
                                       ELSE LastOf(list, d)[s \ {m}][k]
    <3>1. CASE list[m].key = k
      <4>1. m \in Setting(list, s, k) /\ Setting(list, s, k) \subseteq s
        BY <2>1, <3>1 DEF Setting
      <4>2. Max(Setting(list, s, k)) \in s /\ Max(Setting(list, s, k)) >= m
        BY <1>1, <4>1, LargestIndex
      <4>3. Max(Setting(list, s, k)) = m
        BY <1>1, <2>1, <4>2
      <4> QED  BY <3>1, <4>1, <4>3 DEF LastOf
    <3>2. CASE list[m].key # k
      <4>1. Setting(list, s, k) = Setting(list, s \ {m}, k)
        BY <2>1, <3>2 DEF Setting
      <4> QED  BY <3>2, <4>1 DEF LastOf
    <3> QED  BY <3>1, <3>2
  <2>3. /\ LastOf(list, d)[s] = [k \in Fields |-> LastOf(list, d)[s][k]]
        /\ LastOf(list, d)[s \ {m}] = [k \in Fields |-> LastOf(list, d)[s \ {m}][k]]
    <3>1. s \ {m} \in SUBSET DOMAIN list
      OBVIOUS
    <3> QED  BY <3>1 DEF LastOf
  <2>4. LastOf(list, d)[s] = Assigned(LastOf(list, d)[s \ {m}], list[m])
    <3> DEFINE now == LastOf(list, d)[s]
               before == LastOf(list, d)[s \ {m}]
    <3>1. /\ now = [k \in Fields |-> IF list[m].key = k THEN list[m].value ELSE before[k]]
          /\ before = [k \in Fields |-> before[k]]
      BY <2>2, <2>3
    <3> HIDE DEF now, before
    <3>2. now = Assigned(before, list[m])
      BY <3>1 DEF Assigned
    <3> QED  BY <3>2 DEF now, before
  <2> QED  BY <2>4 DEF m
<1> QED  BY <1>2, <1>3 DEF ByTurns, LastOf

LEMMA OneResult ==
  ASSUME NEW list \in Seq(Options), NEW d, NEW f, NEW g, ByTurns(list, d, f), ByTurns(list, d, g)
  PROVE  f[DOMAIN list] = g[DOMAIN list]
<1> DEFINE N == Len(list)
<1>1. N \in Nat /\ DOMAIN list = 1 .. N
  BY LenProperties
<1> HIDE DEF N
<1> DEFINE Differ == {n \in 0 .. N : \E s \in SUBSET (1 .. n) : f[s] # g[s]}
<1>2. SUFFICES Differ = {}
  <2>1. N \in 0 .. N /\ 1 .. N \in SUBSET (1 .. N)
    BY <1>1
  <2>2. f[1 .. N] = g[1 .. N]
    BY <1>2, <2>1
  <2> QED  BY <1>1, <2>2
<1>3. SUFFICES ASSUME Differ # {} PROVE FALSE
  OBVIOUS
<1>4. Differ \subseteq Nat
  OBVIOUS
<1>5. PICK n \in Differ : \A k \in Differ : n <= k
  <2> HIDE DEF Differ
  <2> QED  BY <1>4, <1>3, LeastNumber
<1>6. PICK s \in SUBSET (1 .. n) : f[s] # g[s]
  OBVIOUS
<1>7. s \in SUBSET DOMAIN list
  BY <1>1, <1>5
<1>8. s # {}
  BY <1>6, <1>7 DEF ByTurns
<1>9. Max(s) \in s /\ \A i \in s : i <= Max(s)
  <2>1. s \subseteq 1 .. N
    BY <1>1, <1>7
  <2> HIDE DEF Differ
  <2> QED  BY <1>1, <1>8, <2>1, LargestIndex
<1>10. f[s \ {Max(s)}] = g[s \ {Max(s)}]
  <2> DEFINE m == Max(s)
  <2>1. m \in s /\ \A i \in s : i <= m
    BY <1>9
  <2> HIDE DEF m
  <2>2. s \ {m} \in SUBSET (1 .. m - 1) /\ m - 1 \in 0 .. N /\ m - 1 < n
    BY <1>1, <2>1
  <2>3. m - 1 \notin Differ
    BY <1>5, <2>2
  <2> QED  BY <2>2, <2>3 DEF m
<1>11. s \ {Max(s)} \in SUBSET DOMAIN list
  BY <1>7
<1> QED  BY <1>6, <1>7, <1>8, <1>10, <1>11 DEF ByTurns

(* apply_options() leaves every field with the last value for it, or as it *)
(* was: bufsize.hpp:49-56.                                                 *)
LEMMA LastAssigned ==
  ASSUME NEW list \in Seq(Options), NEW D, NEW d \in [Fields -> D]
  PROVE  /\ FoldLeft(Assigned, d, list) = LastOf(list, d)[DOMAIN list]
         /\ \A k \in Fields :
              /\ LastFor(list, k) # 0 => LastFor(list, k) \in 1 .. Len(list)
              /\ FoldLeft(Assigned, d, list)[k] =
                   IF LastFor(list, k) = 0 THEN d[k] ELSE list[LastFor(list, k)].value
<1> DEFINE n == Len(list)
<1>1. FoldLeft(Assigned, d, list) = (CHOOSE f : ByTurns(list, d, f))[DOMAIN list]
  BY DEF FoldLeft, MapThenFoldSet, ByTurns
<1>2. ByTurns(list, d, CHOOSE f : ByTurns(list, d, f))
  BY LastOfByTurns
<1>3. FoldLeft(Assigned, d, list) = LastOf(list, d)[DOMAIN list]
  BY <1>1, <1>2, LastOfByTurns, OneResult
<1>4. n \in Nat /\ DOMAIN list = 1 .. n
  BY LenProperties
<1>5. ASSUME NEW k \in Fields
      PROVE  /\ LastFor(list, k) # 0 => LastFor(list, k) \in 1 .. n
             /\ FoldLeft(Assigned, d, list)[k] =
                  IF LastFor(list, k) = 0 THEN d[k] ELSE list[LastFor(list, k)].value
  <2> DEFINE i == LastFor(list, k)
             J == {j \in 1 .. n : list[j].key = k}
  <2>1. i = IF J # {} THEN Max(J) ELSE 0
    BY DEF LastFor, SelectLastInSeq
  <2>2. Setting(list, DOMAIN list, k) = J
    BY <1>4 DEF Setting
  <2>3. J # {} => Max(J) \in 1 .. n
    <3>1. J \subseteq 1 .. n  OBVIOUS
    <3> HIDE DEF J
    <3> QED  BY <1>4, <3>1, LargestIndex
  <2>4. LastOf(list, d)[DOMAIN list][k] = IF J # {} THEN list[Max(J)].value ELSE d[k]
    BY <2>2 DEF LastOf
  <2> HIDE DEF i, J
  <2>5. /\ i # 0 => i \in 1 .. n
        /\ FoldLeft(Assigned, d, list)[k] = IF i = 0 THEN d[k] ELSE list[i].value
    <3>1. CASE J = {}
      BY <1>3, <2>1, <2>4, <3>1
    <3>2. CASE J # {}
      <4>1. i = Max(J) /\ i \in 1 .. n /\ i # 0
        BY <1>4, <2>1, <2>3, <3>2
      <4> QED  BY <1>3, <2>4, <3>2, <4>1
    <3> QED  BY <3>1, <3>2
  <2> QED  BY <2>5 DEF i
<1> QED  BY <1>3, <1>5
-----------------------------------------------------------------------------
(* What an iteration of a live array shows, and where a reader of the      *)
(* naked pointer stops, is the same list up to the first null value.       *)
LEMMA ShownIsRead ==
  ASSUME IInv, NEW a \in Arrays, Current(a)
  PROVE  /\ Listed(a) \in Seq(Options) /\ Len(Listed(a)) = count[a] - 1
         /\ \A i \in 1 .. count[a] - 1 : Listed(a)[i] = heap[opts[a]][i]
         /\ List!BeforeNull(Listed(a)) = SubSeq(heap[opts[a]], 1, Counted(heap[opts[a]]) - 1)
         /\ List!BeforeNull(Listed(a)) \in Seq(Options)
<1> DEFINE list == heap[opts[a]]
           n == count[a]
           c == Counted(list)
           L == Listed(a)
           read == SubSeq(list, 1, c - 1)
<1>1. /\ n \in 1 .. Len(list) /\ Len(list) \in Nat /\ c \in 1 .. n
      /\ \A i \in 1 .. Len(list) - 1 : list[i] \in Options
      /\ Ends(list[c]) /\ \A i \in 1 .. c - 1 : ~ Ends(list[i])
  BY LiveArray
<1>2. L = SubSeq(list, 1, n - 1)
  BY DEF Listed
<1> HIDE DEF list, n, c, L
<1>3. \A i \in 1 .. n - 1 : list[i] \in Options
  BY <1>1
<1>4. L \in Seq(Options) /\ Len(L) = n - 1 /\ \A i \in 1 .. n - 1 : L[i] = list[i]
  BY <1>1, <1>2, <1>3, SubSeqProperties
<1>5. read \in Seq(Options) /\ Len(read) = c - 1 /\ \A i \in 1 .. c - 1 : read[i] = list[i]
  BY <1>1, <1>3, SubSeqProperties
<1>6. \A i \in 1 .. n - 1 : Ends(list[i]) <=> L[i].value = Null
  BY <1>3, <1>4, OptionAssumption DEF Ends, Options
<1> DEFINE I == {i \in 1 .. Len(L) : L[i].value = Null}
           m == Min(I)
<1>7. List!BeforeNull(L) = IF I = {} THEN L ELSE IF m = 0 THEN L ELSE SubSeq(L, 1, m - 1)
  BY DEF List!BeforeNull, List!SelectInSeq, List!Min, Min
<1>8. List!BeforeNull(L) = read
  <2>1. CASE I = {}
    <3>1. c = n
      BY <1>1, <1>4, <1>6, <2>1
    <3> QED  BY <1>2, <1>7, <2>1, <3>1
  <2>2. CASE I # {}
    <3>1. m \in I /\ \A i \in I : m <= i
      <4>1. I \subseteq Nat
        OBVIOUS
      <4> HIDE DEF I
      <4>2. \E k \in I : \A i \in I : k <= i
        BY <2>2, <4>1, LeastNumber
      <4> QED  BY <4>2 DEF Min
    <3> HIDE DEF m
    <3>2. m \in 1 .. n - 1 /\ Ends(list[m])
      BY <1>4, <1>6, <3>1
    <3>3. m <= c
      <4>1. CASE c <= n - 1
        <5>1. c \in I
          BY <1>1, <1>4, <1>6, <4>1
        <5> QED  BY <3>1, <5>1
      <4>2. CASE c > n - 1
        BY <1>1, <3>2, <4>2
      <4> QED  BY <1>1, <4>1, <4>2
    <3>4. m = c
      BY <1>1, <3>2, <3>3
    <3>5. List!BeforeNull(L) = SubSeq(L, 1, c - 1)
      BY <1>1, <1>7, <2>2, <3>4
    <3>6. /\ SubSeq(L, 1, c - 1) \in Seq(Options) /\ Len(SubSeq(L, 1, c - 1)) = c - 1
          /\ \A i \in 1 .. c - 1 : SubSeq(L, 1, c - 1)[i] = L[i]
      <4>1. \A i \in 1 .. c - 1 : L[i] \in Options
        BY <1>1, <1>3, <1>4
      <4> QED  BY <1>1, <4>1, SubSeqProperties
    <3>7. \A i \in 1 .. c - 1 : SubSeq(L, 1, c - 1)[i] = read[i]
      BY <1>1, <1>4, <1>5, <3>6
    <3> QED  BY <1>5, <3>5, <3>6, <3>7, SeqEqual
  <2> QED  BY <2>1, <2>2
<1> QED  BY <1>4, <1>5, <1>8 DEF L, list, c, n

LEMMA AppliedFacts ==
  ASSUME IInv, NEW a \in Arrays, Current(a), NEW k \in Fields
  PROVE  Applied(opts[a], details)[k] =
           IF LastFor(List!BeforeNull(Listed(a)), k) = 0 THEN details[k]
           ELSE List!BeforeNull(Listed(a))[LastFor(List!BeforeNull(Listed(a)), k)].value
<1> DEFINE seq == List!BeforeNull(Listed(a))
<1>1. seq \in Seq(Options) /\ Applied(opts[a], details) = FoldLeft(Assigned, details, seq)
  BY ShownIsRead DEF Applied, Counted
<1>2. details \in [Fields -> Values \cup {Null}]
  BY DEF IInv, Shape
<1> HIDE DEF seq
<1>3. FoldLeft(Assigned, details, seq)[k] =
        IF LastFor(seq, k) = 0 THEN details[k] ELSE seq[LastFor(seq, k)].value
  BY <1>1, <1>2, LastAssigned
<1> QED  BY <1>1, <1>3 DEF seq

(* Whatever storage apply_options() reads, fields get values. *)
LEMMA AppliedType ==
  ASSUME IInv, NEW b \in Buffers, heap[b] # <<>>
  PROVE  Applied(b, details) \in [Fields -> Values \cup {Null}]
<1> DEFINE c == Counted(heap[b])
           seq == SubSeq(heap[b], 1, c - 1)
           V == Values \cup {Null}
           F == FoldLeft(Assigned, details, seq)
<1>1. /\ c \in 1 .. Len(heap[b]) /\ Len(heap[b]) \in Nat
      /\ \A i \in 1 .. Len(heap[b]) - 1 : heap[b][i] \in Options
  BY LiveBuffer
<1> HIDE DEF c
<1>2. seq \in Seq(Options)
  BY <1>1, SubSeqProperties
<1>3. Applied(b, details) = F
  BY DEF Applied, Counted, c
<1>4. details \in [Fields -> V]
  BY DEF IInv, Shape
<1> HIDE DEF seq
<1>5. /\ F = LastOf(seq, details)[DOMAIN seq]
      /\ \A k \in Fields : /\ LastFor(seq, k) # 0 => LastFor(seq, k) \in 1 .. Len(seq)
                           /\ F[k] = IF LastFor(seq, k) = 0 THEN details[k] ELSE seq[LastFor(seq, k)].value
  BY <1>2, <1>4, LastAssigned
<1>6. \A i \in 1 .. Len(seq) : seq[i].value \in V
  <2>1. \A i \in 1 .. Len(seq) : seq[i] \in Options
    BY <1>2, ElementOfSeq
  <2> QED  BY <2>1 DEF Options
<1>7. F = [k \in Fields |-> F[k]]
  <2>1. LastOf(seq, details)[DOMAIN seq] =
          [k \in Fields |-> LastOf(seq, details)[DOMAIN seq][k]]
    BY DEF LastOf
  <2> QED  BY <1>5, <2>1
<1>8. \A k \in Fields : F[k] \in V
  BY <1>4, <1>5, <1>6
<1> HIDE DEF F
<1> QED  BY <1>3, <1>7, <1>8

LEMMA OnlyDetailsKeep ==
  ASSUME IInv, UNCHANGED <<heap, opts, count, allocated, shows>>,
         details' \in [Fields -> Values \cup {Null}]
  PROVE  IInv'
<1>1. Shape' /\ OneOwner'
  BY DEF IInv, Shape, OneOwner
<1>2. \A b \in Buffers : BufferOK(b)'
  BY BufferSame DEF IInv
<1>3. \A a \in Arrays : ArrayOK(a)'
  BY DEF IInv, ArrayOK
<1> QED  BY <1>1, <1>2, <1>3 DEF IInv

LEMMA Invariance == Spec => []IInv
<1>1. Init => IInv
  BY EmptySeq, OptionAssumption DEF Init, IInv, Shape, BufferOK, ArrayOK, OneOwner
<1>2. ASSUME IInv, [Next]_vars PROVE IInv'
  <2>1. ASSUME NEW a \in Arrays, ApplyOptions(a) PROVE IInv'
    <3>1. opts[a] \in Buffers
      BY <1>2, <2>1 DEF ApplyOptions, IInv, Shape
    <3>2. details' \in [Fields -> Values \cup {Null}]
      BY <1>2, <2>1, <3>1, AppliedType DEF ApplyOptions
    <3> QED  BY <1>2, <2>1, <3>2, OnlyDetailsKeep DEF ApplyOptions
  <2>2. CASE UNCHANGED vars
    <3>1. UNCHANGED <<heap, opts, count, allocated, details, shows>>
      BY <2>2 DEF vars
    <3> QED  BY <1>2, <3>1, OnlyDetailsKeep DEF IInv, Shape
  <2> QED
    BY <1>2, <2>1, <2>2, NewKeeps, ReferenceKeeps, AddKeeps, DestroyKeeps DEF Next
<1> QED  BY <1>1, <1>2, PTL DEF Spec

(* Buffers hold options, an array counts at least its end, and a destroyed *)
(* one owns nothing.                                                       *)
THEOREM TypeCorrect == Spec => []TypeOK
<1>1. IInv => TypeOK
  <2> SUFFICES ASSUME IInv, NEW a \in Arrays
               PROVE  IF opts[a] # Null THEN count[a] >= 1 ELSE count[a] = 0 /\ ~ allocated[a]
    BY DEF IInv, Shape, TypeOK
  <2>1. ArrayOK(a) /\ count[a] \in Nat
    BY OptionAssumption DEF IInv, Shape
  <2> QED  BY <2>1 DEF ArrayOK
<1> QED  BY <1>1, Invariance, PTL

(* Whatever was added to an array, wherever realloc put it and whatever    *)
(* references it, outdated or not: a reader of the naked pointer of what   *)
(* is current stops within the storage, and storage is there exactly while *)
(* one array owns it.                                                      *)
THEOREM ReadersStop == Spec => []Terminated
<1>1. IInv => Terminated
  <2> SUFFICES ASSUME IInv PROVE Terminated
    OBVIOUS
  <2>1. ASSUME NEW a \in Arrays, Current(a)
        PROVE  \E i \in DOMAIN heap[opts[a]] : Ends(heap[opts[a]][i])
    <3>1. /\ Counted(heap[opts[a]]) \in 1 .. Len(heap[opts[a]])
          /\ Ends(heap[opts[a]][Counted(heap[opts[a]])])
      BY <2>1, LivesIn, LiveBuffer
    <3>2. DOMAIN heap[opts[a]] = 1 .. Len(heap[opts[a]])
      BY <2>1, LiveArray, LenProperties
    <3> QED  BY <3>1, <3>2
  <2>2. ASSUME NEW b \in Buffers, heap[b] # <<>>
        PROVE  \E a \in Arrays : /\ {c \in Arrays : allocated[c] /\ opts[c] = b} = {a}
                                 /\ Len(heap[b]) = count[a] /\ Last(heap[b]) = Zero
    <3>1. PICK a \in Arrays : allocated[a] /\ opts[a] = b
      BY <2>2 DEF IInv, BufferOK
    <3>2. {c \in Arrays : allocated[c] /\ opts[c] = b} = {a}
      BY <3>1 DEF IInv, OneOwner
    <3>3. Len(heap[b]) = count[a] /\ Last(heap[b]) = Zero
      BY <2>2, <3>1 DEF IInv, BufferOK, ArrayOK
    <3> QED  BY <3>2, <3>3
  <2> QED  BY <2>1, <2>2 DEF Terminated
<1> QED  BY <1>1, Invariance, PTL

(* BufSize reads from an array what its iteration shows.                   *)
THEOREM DetailsAreShown == Spec => []DetailsAgree
<1>1. IInv => DetailsAgree
  BY AppliedFacts DEF DetailsAgree
<1> QED  BY <1>1, Invariance, PTL
-----------------------------------------------------------------------------
(* The lists OptionList sees, and its steps said of them.                  *)
Lists == [a \in Arrays |-> IF Current(a) THEN Listed(a) ELSE Null]

LEMMA ListSteps ==
  ASSUME NEW a \in Arrays
  PROVE  /\ /\ Lists[a] = Null /\ Lists' = [Lists EXCEPT ![a] = <<>>]
            /\ shows' = shows
            => List!Next
         /\ \A b \in Arrays :
              /\ Lists[a] = Null /\ Lists[b] # Null
              /\ Lists' = [Lists EXCEPT ![a] = List!BeforeNull(Lists[b])]
              /\ shows' = [shows EXCEPT ![a] = IF shows[b] = Null THEN b ELSE shows[b]]
              => List!Next
         /\ \A o \in Options :
              /\ Lists[a] # Null /\ shows[a] = Null /\ Outdate(a)
              /\ Lists' = [r \in Arrays |-> IF r = a THEN Append(Lists[a], o)
                                            ELSE IF shows[r] = a THEN Null ELSE Lists[r]]
              => List!Next
         /\ /\ Lists[a] # Null /\ Outdate(a)
            /\ Lists' = [r \in Arrays |-> IF r = a \/ shows[r] = a THEN Null ELSE Lists[r]]
            => List!Next
BY DEF List!Next, List!New, List!Show, List!Add, List!Destroy, List!Withdraw, Outdate, Lists

LEMMA ListOf ==
  ASSUME IInv, NEW a \in Arrays
  PROVE  /\ ~ Current(a) => Lists[a] = Null
         /\ Current(a) => Lists[a] = Listed(a) /\ Lists[a] # Null
BY ShownIsRead, OptionAssumption DEF Lists

(* What is not touched is shown as before. *)
LEMMA SameList ==
  ASSUME NEW r \in Arrays, opts'[r] = opts[r], count'[r] = count[r],
         allocated'[r] = allocated[r], shows'[r] = shows[r],
         Current(r) => heap'[opts[r]] = heap[opts[r]]
  PROVE  Lists'[r] = Lists[r]
<1>1. Current(r)' <=> Current(r)
  BY DEF Current
<1>2. Current(r) => Listed(r)' = Listed(r)
  BY DEF Listed
<1> QED  BY <1>1, <1>2 DEF Lists

(* An owner that changes or goes withdraws the lists of its references.    *)
LEMMA ListsOfOthers ==
  ASSUME IInv, NEW a \in Arrays, allocated[a], Outdate(a),
         \A r \in Arrays \ {a} : /\ opts'[r] = opts[r] /\ count'[r] = count[r]
                                 /\ allocated'[r] = allocated[r],
         \A c \in Buffers \ {opts[a]} : heap[c] # <<>> => heap'[c] = heap[c],
         NEW r \in Arrays \ {a}
  PROVE  Lists'[r] = IF shows[r] = a THEN Null ELSE Lists[r]
<1>1. shows'[r] = IF shows[r] = a THEN Null ELSE shows[r]
  BY DEF Outdate
<1>2. CASE shows[r] = a
  <2>1. ~ allocated[r]
    BY <1>2, OptionAssumption DEF IInv, ArrayOK
  <2>2. ~ Current(r)'
    BY <1>1, <1>2, <2>1 DEF Current
  <2> QED  BY <1>2, <2>2 DEF Lists
<1>3. CASE shows[r] # a
  <2>1. Current(r) => heap'[opts[r]] = heap[opts[r]]
    BY <1>3, OwnStorage, LivesIn
  <2>2. Lists'[r] = Lists[r]
    BY <1>1, <1>3, <2>1, SameList
  <2> QED  BY <1>3, <2>2
<1> QED  BY <1>2, <1>3

(* Option arrays implement lists: adding appends, wherever realloc puts    *)
(* the options, a reference shows what was there up to the first null      *)
(* value until its owner changes or goes, and nobody else's list changes.  *)
THEOREM OptionArrayImplementsList == Spec => ImplementsOptionList
<1>1. Init => List!Init
  BY DEF Init, List!Init, Current
<1>2. IInv /\ [Next]_vars => List!Next \/ (Lists' = Lists /\ shows' = shows)
  <2> SUFFICES ASSUME IInv, [Next]_vars PROVE List!Next \/ (Lists' = Lists /\ shows' = shows)
    OBVIOUS
  <2>1. ASSUME NEW a \in Arrays, New(a) PROVE List!Next
    <3>1. PICK b \in Buffers : /\ heap[b] = <<>> /\ heap' = [heap EXCEPT ![b] = <<Zero>>]
                               /\ opts' = [opts EXCEPT ![a] = b]
      BY <2>1 DEF New
    <3>2. /\ opts[a] = Null /\ count' = [count EXCEPT ![a] = 1]
          /\ allocated' = [allocated EXCEPT ![a] = TRUE] /\ shows' = shows
      BY <2>1 DEF New
    <3>3. /\ count'[a] = 1 /\ allocated'[a]
          /\ \A c \in Buffers \ {b} : heap'[c] = heap[c]
          /\ \A r \in Arrays \ {a} : opts'[r] = opts[r] /\ count'[r] = count[r] /\ allocated'[r] = allocated[r]
      BY <3>1, <3>2 DEF IInv, Shape
    <3>4. Lists'[a] = <<>>
      BY <3>3, SubSeqEmpty DEF Lists, Listed, Current
    <3>5. ASSUME NEW r \in Arrays \ {a} PROVE Lists'[r] = Lists[r]
      <4>1. Current(r) => heap'[opts[r]] = heap[opts[r]]
        BY <3>1, <3>3, LivesIn
      <4> QED  BY <3>2, <3>3, <4>1, SameList
    <3>6. Lists' = [Lists EXCEPT ![a] = <<>>]
      BY <3>4, <3>5 DEF Lists
    <3>7. Lists[a] = Null
      BY <3>2 DEF IInv, ArrayOK, Current, Lists
    <3> QED  BY <3>2, <3>6, <3>7, ListSteps
  <2>2. ASSUME NEW a \in Arrays, NEW b \in Arrays, Reference(a, b)
        PROVE  List!Next \/ (Lists' = Lists /\ shows' = shows)
    <3>1. /\ opts[a] = Null /\ ~ allocated[a] /\ shows[a] = Null /\ opts[b] # Null /\ b # a
          /\ opts' = [opts EXCEPT ![a] = opts[b]] /\ UNCHANGED <<heap, allocated, details>>
          /\ shows' = [shows EXCEPT ![a] = IF allocated[b] THEN b ELSE shows[b]]
      BY <2>2, ReferenceDoes
    <3>2. PICK n \in 1 .. MaxOptions + 1 : /\ count' = [count EXCEPT ![a] = n]
                                           /\ heap[opts[b]] # <<>> => n = Counted(heap[opts[b]])
      BY <2>2, ReferenceDoes
    <3>3. /\ opts'[a] = opts[b] /\ count'[a] = n
          /\ shows'[a] = IF allocated[b] THEN b ELSE shows[b]
          /\ \A r \in Arrays \ {a} : opts'[r] = opts[r] /\ count'[r] = count[r] /\ shows'[r] = shows[r]
      BY <3>1, <3>2 DEF IInv, Shape
    <3>4. \A r \in Arrays \ {a} : Lists'[r] = Lists[r]
      BY <3>1, <3>3, SameList
    <3>5. Lists[a] = Null
      BY <3>1 DEF Lists, Current
    <3>6. CASE Current(b)
      <4>1. Current(a)'
        BY <3>1, <3>3, <3>6, OptionAssumption DEF Current
      <4>2. Lists'[a] = SubSeq(heap[opts[b]], 1, Counted(heap[opts[b]]) - 1)
        BY <3>1, <3>2, <3>3, <3>6, <4>1, LivesIn DEF Lists, Listed
      <4>3. Lists'[a] = List!BeforeNull(Lists[b]) /\ Lists[b] # Null
        BY <3>6, <4>2, ListOf, ShownIsRead
      <4>4. Lists' = [Lists EXCEPT ![a] = List!BeforeNull(Lists[b])]
        BY <3>4, <4>3 DEF Lists
      <4>5. allocated[b] <=> shows[b] = Null
        BY <3>6 DEF Current, IInv, ArrayOK
      <4>6. shows' = [shows EXCEPT ![a] = IF shows[b] = Null THEN b ELSE shows[b]]
        BY <3>1, <4>5
      <4> QED  BY <3>5, <4>3, <4>4, <4>6, ListSteps
    <3>7. CASE ~ Current(b)
      <4>1. shows'[a] = Null /\ shows' = shows
        BY <3>1, <3>3, <3>7 DEF Current, IInv, Shape
      <4>2. Lists'[a] = Null
        BY <3>1, <4>1 DEF Lists, Current
      <4>3. Lists' = Lists
        BY <3>4, <3>5, <4>2 DEF Lists
      <4> QED  BY <4>1, <4>3
    <3> QED  BY <3>6, <3>7
  <2>3. ASSUME NEW a \in Arrays, NEW o \in Options, Add(a, o) PROVE List!Next
    <3> DEFINE n == count[a]
               L == Listed(a)
    <3>1. Current(a) /\ count[a] = Len(heap[opts[a]]) /\ n \in 1 .. MaxOptions
      BY <2>3, AddDoes DEF Current
    <3>0. PICK b \in Buffers, more \in Seq(Options \cup {Zero}) : Moved(a, o, b, more)
      BY <2>3, AddDoes
    <3>2. /\ opts' = [opts EXCEPT ![a] = b]
          /\ heap'[b] = more
          /\ \A c \in Buffers \ {b, opts[a]} : heap'[c] = heap[c]
          /\ b = opts[a] \/ heap[b] = <<>>
          /\ Len(more) = count[a] + 1 /\ more[count[a]] = o
          /\ \A i \in 1 .. count[a] - 1 : more[i] = heap[opts[a]][i]
      BY <3>0 DEF Moved
    <3>3. /\ opts'[a] = b /\ b # Null /\ count'[a] = n + 1 /\ allocated'[a]
          /\ \A r \in Arrays \ {a} : opts'[r] = opts[r] /\ count'[r] = count[r] /\ allocated'[r] = allocated[r]
      BY <2>3, <3>2, AddDoes, OptionAssumption DEF IInv, Shape
    <3>4. Listed(a)' = SubSeq(more, 1, n)
      BY <3>1, <3>2, <3>3, OptionAssumption DEF Listed
    <3>5. /\ L \in Seq(Options) /\ Len(L) = n - 1
          /\ \A i \in 1 .. n - 1 : L[i] = heap[opts[a]][i] /\ L[i] \in Options
      BY <3>1, ShownIsRead, ElementOfSeq
    <3> HIDE DEF L, n
    <3>6. n \in Nat /\ n >= 1
      BY <3>1, OptionAssumption
    <3>7. \A i \in 1 .. n : more[i] = IF i = n THEN o ELSE L[i]
      <4>1. \A i \in 1 .. n : i = n \/ i \in 1 .. n - 1
        BY <3>6
      <4>2. more[n] = o /\ \A i \in 1 .. n - 1 : more[i] = heap[opts[a]][i]
        BY <3>2 DEF n
      <4>3. \A i \in 1 .. n - 1 : more[i] = L[i] /\ i # n
        BY <3>5, <3>6, <4>2
      <4> QED  BY <4>1, <4>2, <4>3
    <3>8. /\ SubSeq(more, 1, n) \in Seq(Options) /\ Len(SubSeq(more, 1, n)) = n
          /\ \A i \in 1 .. n : SubSeq(more, 1, n)[i] = more[i]
      <4>1. \A i \in 1 .. n : more[i] \in Options
        BY <3>5, <3>6, <3>7
      <4> QED  BY <3>6, <4>1, SubSeqProperties
    <3>9. /\ Append(L, o) \in Seq(Options) /\ Len(Append(L, o)) = n
          /\ \A i \in 1 .. n - 1 : Append(L, o)[i] = L[i]
          /\ Append(L, o)[n] = o
      BY <3>5, <3>6, AppendProperties
    <3>10. SubSeq(more, 1, n) = Append(L, o)
      <4>1. \A i \in 1 .. n : SubSeq(more, 1, n)[i] = Append(L, o)[i]
        BY <3>6, <3>7, <3>8, <3>9
      <4> QED  BY <3>8, <3>9, <4>1, SeqEqual
    <3>11. ASSUME NEW r \in Arrays \ {a}
           PROVE  Lists'[r] = IF shows[r] = a THEN Null ELSE Lists[r]
      <4>1. allocated[a] /\ Outdate(a)
        BY <2>3, AddDoes
      <4>2. \A c \in Buffers \ {opts[a]} : heap[c] # <<>> => heap'[c] = heap[c]
        BY <3>2
      <4> QED  BY <3>3, <4>1, <4>2, ListsOfOthers
    <3>12. Lists[a] = L /\ Lists[a] # Null
      BY <3>1, ListOf DEF L
    <3>13. Lists'[a] = Append(Lists[a], o)
      <4>1. Current(a)'
        BY <3>3 DEF Current
      <4> QED  BY <3>4, <3>10, <3>12, <4>1 DEF Lists
    <3>14. Lists' = [r \in Arrays |-> IF r = a THEN Append(Lists[a], o)
                                      ELSE IF shows[r] = a THEN Null ELSE Lists[r]]
      <4>1. Lists' = [r \in Arrays |-> Lists'[r]]
        BY DEF Lists
      <4> QED  BY <3>11, <3>13, <4>1
    <3>15. shows[a] = Null /\ Outdate(a)
      BY <2>3, AddDoes DEF IInv, ArrayOK
    <3> QED  BY <3>12, <3>14, <3>15, ListSteps
  <2>4. ASSUME NEW a \in Arrays, Destroy(a)
        PROVE  List!Next \/ (Lists' = Lists /\ shows' = shows)
    <3>1. /\ opts' = [opts EXCEPT ![a] = Null] /\ opts[a] # Null
          /\ count' = [count EXCEPT ![a] = 0] /\ allocated' = [allocated EXCEPT ![a] = FALSE]
          /\ Outdate(a)
          /\ heap' = IF allocated[a] THEN [heap EXCEPT ![opts[a]] = <<>>] ELSE heap
      BY <2>4 DEF Destroy
    <3>2. /\ ~ allocated'[a] /\ shows'[a] = Null
          /\ \A r \in Arrays \ {a} : opts'[r] = opts[r] /\ count'[r] = count[r] /\ allocated'[r] = allocated[r]
      BY <3>1 DEF IInv, Shape, Outdate
    <3>3. Lists'[a] = Null
      BY <3>2 DEF Lists, Current
    <3>4. CASE allocated[a]
      <4>1. \A c \in Buffers \ {opts[a]} : heap[c] # <<>> => heap'[c] = heap[c]
        BY <3>1, <3>4 DEF IInv, Shape
      <4>2. ASSUME NEW r \in Arrays \ {a}
            PROVE  Lists'[r] = IF shows[r] = a THEN Null ELSE Lists[r]
        BY <3>1, <3>2, <3>4, <4>1, ListsOfOthers
      <4>3. Lists' = [r \in Arrays |-> IF r = a \/ shows[r] = a THEN Null ELSE Lists[r]]
        <5>1. Lists' = [r \in Arrays |-> Lists'[r]]
          BY DEF Lists
        <5> QED  BY <3>3, <4>2, <5>1
      <4>4. Lists[a] # Null
        BY <3>4, ListOf DEF Current
      <4> QED  BY <3>1, <4>3, <4>4, ListSteps
    <3>5. CASE ~ allocated[a]
      <4>1. \A r \in Arrays : shows[r] # a
        BY <3>5, OptionAssumption DEF IInv, ArrayOK
      <4>2. /\ shows \in [Arrays -> Arrays \cup {Null}]
            /\ shows' = [r \in Arrays |-> IF r = a THEN Null ELSE shows[r]]
        BY <3>1, <4>1 DEF IInv, Shape, Outdate
      <4>3. \A r \in Arrays \ {a} : Lists'[r] = Lists[r]
        BY <3>1, <3>2, <3>5, <4>2, SameList
      <4>4. CASE shows[a] = Null
        <5>1. shows' = shows
          BY <4>2, <4>4
        <5>2. Lists[a] = Null
          BY <3>5, <4>4 DEF Lists, Current
        <5>3. Lists' = Lists
          BY <3>3, <4>3, <5>2 DEF Lists
        <5> QED  BY <5>1, <5>3
      <4>5. CASE shows[a] # Null
        <5>1. Lists[a] # Null
          BY <4>5, ListOf DEF Current
        <5>2. Lists' = [r \in Arrays |-> IF r = a \/ shows[r] = a THEN Null ELSE Lists[r]]
          <6>1. Lists' = [r \in Arrays |-> Lists'[r]]
            BY DEF Lists
          <6> QED  BY <3>3, <4>1, <4>3, <6>1
        <5> QED  BY <3>1, <5>1, <5>2, ListSteps
      <4> QED  BY <4>4, <4>5
    <3> QED  BY <3>4, <3>5
  <2>5. ASSUME NEW a \in Arrays, ApplyOptions(a) PROVE Lists' = Lists /\ shows' = shows
    BY <2>5 DEF ApplyOptions, Lists, Listed, Current
  <2>6. CASE UNCHANGED vars
    BY <2>6 DEF vars, Lists, Listed, Current
  <2> QED  BY <2>1, <2>2, <2>3, <2>4, <2>5, <2>6 DEF Next
<1>3. IInv /\ [Next]_vars
      => [List!Next]_<<[a \in Arrays |-> IF Current(a) THEN Listed(a) ELSE Null], shows>>
  BY <1>2 DEF Lists
<1> QED  BY <1>1, <1>3, Invariance, PTL DEF Spec, ImplementsOptionList, List!Spec
=============================================================================
