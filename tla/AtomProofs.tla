---------------------------- MODULE AtomProofs -----------------------------
(***************************************************************************)
(* The theorems about atoms in a buffer.                                   *)
(*                                                                         *)
(* AtomSequence: for events of any times and sizes and a buffer of any     *)
(* capacity, under the use of insert() that the module calls AsWide, the   *)
(* words of the buffer are always the events of some list, one behind the  *)
(* other, and the iteration, a recursive walk over the sizes in the        *)
(* headers, reads that list.                                               *)
(*                                                                         *)
(* AtomForge: for buffers, values and nestings of any size, the sizes in   *)
(* the headers are exact whatever was refused, and while nothing was, the  *)
(* members of every container are a chain that its iterator reads.         *)
(*                                                                         *)
(* Both read the buffer by recursion.  What they need of induction is that *)
(* a set of naturals has a least element.                                  *)
(***************************************************************************)
EXTENDS AtomSequence, AtomForge, SequenceTheorems, WellFoundedInduction, TLAPS

(* The words an event takes, and those of the buffer. *)
Width(ev) == (TotalSize(ev) + 7) \div 8
Room == Capacity \div 8

(* The words of the buffer are the events of L, one behind the other, where*)
(* q has their first words, up to the end.                                 *)
Laid(L, q) ==
  /\ L \in Seq(Events) /\ q \in [1 .. Len(L) + 1 -> Nat] /\ q[1] = 1
  /\ \A i \in 1 .. Len(L) : q[i + 1] = q[i] + Width(L[i])
  /\ size = 8 * q[Len(L) + 1]
  /\ \A i \in 1 .. Len(L) : \A j \in 0 .. Width(L[i]) - 1 :
       memory[q[i] + j] = [event |-> L[i], part |-> j]

(* No word is of an event that is larger than the buffer. *)
CellsFit == \A w \in Words : memory[w] # Blank => Width(memory[w].event) <= Room

(* Whole events alone are not inductive: insert() moves the bytes from a   *)
(* place on, which are the events behind it only if those before it and    *)
(* the size of the body account for every word.                            *)
IInv == TypeOK /\ CellsFit /\ \E L, q : Laid(L, q)
-----------------------------------------------------------------------------
(* Every set of naturals has a least one: induction on sets, which asks    *)
(* for no operator.                                                        *)
LEMMA LeastNumber ==
  ASSUME NEW T, T \subseteq Nat, T # {}
  PROVE  \E n \in T : \A m \in T : n <= m
<1> DEFINE R == {ss \in Nat \X Nat : ss[1] < ss[2]}
<1>1. IsWellFoundedOn(R, Nat)
  BY NatLessThanWellFounded DEF OpToRel
<1> HIDE DEF R
<1>2. PICK n \in T : \A m \in T : ~ (<<m, n>> \in R)
  BY <1>1, WFMin
<1>3. ASSUME NEW m \in T PROVE n <= m
  <2>1. m \in Nat /\ n \in Nat /\ <<m, n>> \notin R
    BY <1>2
  <2> QED  BY <2>1 DEF R
<1> QED  BY <1>3

LEMMA NumberList ==
  ASSUME NEW n \in Nat, NEW g \in [1 .. n -> Nat]
  PROVE  g \in Seq(Nat) /\ Len(g) = n
BY SeqDef

(* A word inside a block that ends before e. *)
LEMMA Within ==
  ASSUME NEW a \in Nat, NEW b \in Nat, NEW e \in Nat, a + b <= e, NEW j \in 0 .. b - 1
  PROVE  j \in Nat /\ a + j \in Nat /\ a + j >= a /\ a + j < e
OBVIOUS

(* Positions that are whole words lose nothing when padded or divided.     *)
LEMMA WholeWords ==
  ASSUME NEW k \in Nat
  PROVE  (8 * k) \div 8 = k /\ Pad(8 * k) = 8 * k
<1>1. (8 * k) \div 8 = k /\ (8 * k + 7) \div 8 = k
  OBVIOUS
<1> QED  BY <1>1 DEF Pad

LEMMA RoomFacts == Room \in Nat \ {0} /\ Capacity = 8 * Room /\ Words = 0 .. Room - 1
BY SequenceAssumption DEF Room, Words

(* An event is its time and header and a padded body: Width words.         *)
LEMMA Widths ==
  ASSUME NEW ev \in Events
  PROVE  /\ Width(ev) \in Nat /\ Width(ev) >= 2
         /\ Pad(TotalSize(ev)) = 8 * Width(ev)
         /\ SizeofEvent + Pad(ev.size) = 8 * Width(ev)
<1>1. ev.size \in Nat
  BY SequenceAssumption
<1>2. (16 + ev.size + 7) \div 8 = 2 + (ev.size + 7) \div 8 /\ (ev.size + 7) \div 8 \in Nat
  BY <1>1
<1> QED  BY <1>2 DEF Width, Pad, TotalSize, SizeofEvent

LEMMA Monotone ==
  ASSUME NEW n \in Nat, NEW q \in [1 .. n + 1 -> Nat], \A i \in 1 .. n : q[i] <= q[i + 1]
  PROVE  \A k \in 1 .. n + 1 : \A i \in 1 .. k : q[i] <= q[k]
<1> DEFINE T == {k \in 1 .. n + 1 : \E i \in 1 .. k : ~ (q[i] <= q[k])}
<1>1. SUFFICES ASSUME T # {} PROVE FALSE
  OBVIOUS
<1>2. PICK k \in T : \A m \in T : k <= m
  <2>1. T \subseteq Nat
    OBVIOUS
  <2> HIDE DEF T
  <2> QED  BY <1>1, <2>1, LeastNumber
<1>3. PICK i \in 1 .. k : ~ (q[i] <= q[k])
  OBVIOUS
<1>4. i < k /\ k \in 2 .. n + 1 /\ k - 1 \in 1 .. n /\ i \in 1 .. k - 1
  BY <1>3
<1>5. q[k - 1] <= q[k] /\ q[k] \in Nat /\ q[k - 1] \in Nat /\ q[i] \in Nat
  BY <1>4
<1>6. k - 1 \notin T
  BY <1>2, <1>4
<1>7. q[i] <= q[k - 1]
  BY <1>4, <1>6
<1> QED  BY <1>3, <1>5, <1>7
-----------------------------------------------------------------------------
(* Where the events of a layout are. *)
LEMMA LaidFacts ==
  ASSUME TypeOK, NEW L, NEW q, Laid(L, q)
  PROVE  /\ Len(L) \in Nat /\ q[Len(L) + 1] \in 1 .. Room
         /\ \A i \in 1 .. Len(L) : L[i] \in Events /\ Width(L[i]) \in Nat /\ Width(L[i]) >= 2
         /\ \A k \in 1 .. Len(L) + 1 : q[k] \in Nat /\ \A i \in 1 .. k : q[i] <= q[k]
         /\ \A i \in 1 .. Len(L) : q[i] \in 1 .. Room - 2 /\ q[i] + Width(L[i]) <= q[Len(L) + 1]
<1> DEFINE n == Len(L)
<1>1. n \in Nat /\ q \in [1 .. n + 1 -> Nat] /\ q[1] = 1
  BY LenProperties DEF Laid
<1>2. ASSUME NEW i \in 1 .. n PROVE L[i] \in Events /\ Width(L[i]) \in Nat /\ Width(L[i]) >= 2
  BY Widths, ElementOfSeq DEF Laid
<1>3. \A i \in 1 .. n : q[i + 1] = q[i] + Width(L[i])
  BY DEF Laid
<1>4. ASSUME NEW i \in 1 .. n PROVE q[i] <= q[i + 1]
  <2>1. q[i] \in Nat /\ q[i + 1] = q[i] + Width(L[i]) /\ Width(L[i]) \in Nat
    <3> HIDE DEF n
    <3> QED  BY <1>1, <1>2, <1>3
  <2> QED  BY <2>1
<1>5. \A k \in 1 .. n + 1 : \A i \in 1 .. k : q[i] <= q[k]
  BY <1>1, <1>4, Monotone
<1>6. q[n + 1] \in 1 .. Room
  <2>1. size = 8 * q[n + 1] /\ size <= 8 * Room
    BY RoomFacts DEF Laid, TypeOK
  <2>2. q[n + 1] \in Nat /\ q[1] <= q[n + 1]
    BY <1>1, <1>5
  <2> QED  BY <1>1, <2>1, <2>2, RoomFacts
<1>7. ASSUME NEW i \in 1 .. n PROVE q[i] \in 1 .. Room - 2 /\ q[i] + Width(L[i]) <= q[n + 1]
  <2>1. q[i] \in Nat /\ q[1] <= q[i] /\ q[i + 1] <= q[n + 1] /\ q[i + 1] = q[i] + Width(L[i])
    BY <1>1, <1>3, <1>5
  <2> QED  BY <1>1, <1>2, <1>6, <2>1, RoomFacts
<1> QED  BY <1>1, <1>2, <1>5, <1>6, <1>7

(* A reader at the first word of an event sees it whole, and steps to the  *)
(* first word of the next.                                                 *)
LEMMA EventThere ==
  ASSUME TypeOK, NEW L, NEW q, Laid(L, q), NEW i \in 1 .. Len(L)
  PROVE  /\ EventAt(8 * q[i]) = L[i] /\ L[i] # Blank
         /\ NextEvent(8 * q[i]) = 8 * q[i + 1]
         /\ WholeAt(8 * q[i])
<1> DEFINE w == q[i]
           ev == L[i]
<1>1. /\ w \in 1 .. Room - 2 /\ ev \in Events /\ Width(ev) \in Nat /\ Width(ev) >= 2
      /\ w + Width(ev) <= Room /\ q[i + 1] = w + Width(ev)
  <2>1. /\ q[Len(L) + 1] \in 1 .. Room /\ w \in 1 .. Room - 2 /\ w + Width(ev) <= q[Len(L) + 1]
        /\ ev \in Events /\ Width(ev) \in Nat /\ Width(ev) >= 2
    BY LaidFacts
  <2>2. q[i + 1] = w + Width(ev)
    BY DEF Laid
  <2> HIDE DEF w, ev
  <2> QED  BY <2>1, <2>2, RoomFacts
<1>2. \A j \in 0 .. Width(ev) - 1 : memory[w + j] = [event |-> ev, part |-> j]
  BY DEF Laid
<1>3. (8 * w) \div 8 = w /\ w \in Words /\ w + 1 \in Words
  BY <1>1, WholeWords, RoomFacts
<1>4. memory[w] = [event |-> ev, part |-> 0] /\ memory[w + 1] = [event |-> ev, part |-> 1]
  <2>1. 0 \in 0 .. Width(ev) - 1 /\ 1 \in 0 .. Width(ev) - 1 /\ w + 0 = w
    BY <1>1
  <2> QED  BY <1>2, <2>1
<1>5. ev # Blank /\ memory[w] # Blank
  <2>1. memory[w] \in [event : Events, part : 0 .. Capacity \div 8]
    BY <1>1, <1>4, RoomFacts DEF Room
  <2> QED  BY <1>1, <2>1, SequenceAssumption
<1> HIDE DEF w, ev
<1>6. EventAt(8 * w) = ev
  BY <1>3, <1>4, <1>5 DEF EventAt
<1>7. NextEvent(8 * w) = 8 * q[i + 1]
  <2>1. 8 * q[i + 1] = 8 * w + 8 * Width(ev) /\ SizeofEvent + Pad(ev.size) = 8 * Width(ev)
    BY <1>1, Widths
  <2>2. Pad(ev.size) \in Nat
    <3>1. ev.size \in Nat
      BY <1>1, SequenceAssumption
    <3> QED  BY <3>1 DEF Pad
  <2> QED  BY <1>1, <1>6, <2>1, <2>2 DEF NextEvent, SizeofEvent
<1>8. WholeAt(8 * w)
  <2>1. Pad(TotalSize(ev)) \div 8 = Width(ev)
    BY <1>1, Widths, WholeWords
  <2>2. \A j \in 0 .. Width(ev) - 1 : w + j \in Words
    BY <1>1, RoomFacts
  <2> QED  BY <1>2, <1>3, <1>5, <1>6, <2>1, <2>2 DEF WholeAt
<1> QED  BY <1>5, <1>6, <1>7, <1>8 DEF w, ev
-----------------------------------------------------------------------------
(* What the walk of Positions does at byte p, and a walk from byte m on.   *)
After(f, p)  == IF p >= size \/ EventAt(p) = Blank THEN <<p>> ELSE <<p>> \o f[NextEvent(p)]
Walks(m, f)  == f = [p \in m .. 2 * Capacity |-> After(f, p)]

(* From wherever a walk is, even at bytes no layout explains, a step goes  *)
(* forward and stays where Positions is defined.                           *)
LEMMA StepFits ==
  ASSUME TypeOK, CellsFit, NEW p \in 0 .. 2 * Capacity, p < size, EventAt(p) # Blank
  PROVE  NextEvent(p) \in p + 1 .. 2 * Capacity
<1> DEFINE w == p \div 8
           ev == memory[w].event
<1>1. w \in Words /\ memory[w] # Blank /\ EventAt(p) = ev
  BY DEF EventAt
<1>2. ev \in Events /\ Width(ev) <= Room
  BY <1>1 DEF TypeOK, Cells, CellsFit
<1>3. size \in Nat /\ size <= Capacity
  BY SequenceAssumption DEF TypeOK, SizeofBody
<1> HIDE DEF ev, w
<1>4. /\ Pad(ev.size) \in Nat /\ 16 + Pad(ev.size) = 8 * Width(ev)
      /\ Width(ev) \in Nat /\ Width(ev) >= 2
  <2>1. Pad(ev.size) \in Nat
    BY <1>2, SequenceAssumption DEF Pad
  <2> QED  BY <1>2, <2>1, Widths DEF SizeofEvent
<1>5. NextEvent(p) = p + 16 + Pad(ev.size)
  BY <1>1 DEF NextEvent, SizeofEvent
<1> QED  BY <1>2, <1>3, <1>4, <1>5, RoomFacts

(* A walk from one byte before. *)
LEMMA WalkEarlier ==
  ASSUME TypeOK, CellsFit, NEW m \in 1 .. 2 * Capacity, NEW g, Walks(m, g)
  PROVE  \E f : Walks(m - 1, f)
<1> DEFINE f == [p \in m - 1 .. 2 * Capacity |-> IF p = m - 1 THEN After(g, p) ELSE g[p]]
<1>0. m \in Nat /\ Capacity \in Nat /\ m <= 2 * Capacity
  BY SequenceAssumption
<1>1. ASSUME NEW p \in m - 1 .. 2 * Capacity PROVE f[p] = After(g, p)
  <2>1. CASE p = m - 1
    BY <2>1
  <2>2. CASE p # m - 1
    <3>1. p \in m .. 2 * Capacity
      BY <1>0, <2>2
    <3> QED  BY <2>2, <3>1 DEF Walks
  <2> QED  BY <2>1, <2>2
<1>2. ASSUME NEW p \in m - 1 .. 2 * Capacity PROVE After(f, p) = After(g, p)
  <2>1. CASE p >= size \/ EventAt(p) = Blank
    BY <2>1 DEF After
  <2>2. CASE p < size /\ EventAt(p) # Blank
    <3>1. p \in 0 .. 2 * Capacity /\ p \in Nat
      BY <1>0
    <3>2. NextEvent(p) \in p + 1 .. 2 * Capacity
      BY <2>2, <3>1, StepFits
    <3>3. NextEvent(p) \in m - 1 .. 2 * Capacity /\ NextEvent(p) # m - 1
      BY <1>0, <3>1, <3>2
    <3>4. f[NextEvent(p)] = g[NextEvent(p)]
      BY <3>3
    <3> HIDE DEF f
    <3> QED  BY <3>4 DEF After
  <2>3. size \in Nat /\ p \in Nat
    BY <1>0 DEF TypeOK, SizeofBody
  <2> QED  BY <2>1, <2>2, <2>3
<1>3. f = [p \in m - 1 .. 2 * Capacity |-> f[p]]
  OBVIOUS
<1> HIDE DEF f
<1>4. Walks(m - 1, f)
  <2>1. \A p \in m - 1 .. 2 * Capacity : f[p] = After(f, p)
    BY <1>1, <1>2
  <2> QED  BY <1>3, <2>1 DEF Walks
<1> QED  BY <1>4

(* Positions follows a walk: the function it asks for exists. *)
LEMMA SomeWalk ==
  ASSUME TypeOK, CellsFit
  PROVE  \E f : Walks(0, f) /\ Positions = f[SizeofBody]
<1> DEFINE T == {m \in 0 .. 2 * Capacity : \E f : Walks(m, f)}
<1>0. Capacity \in Nat /\ size \in Nat /\ size <= Capacity
  BY SequenceAssumption DEF TypeOK, SizeofBody
<1>1. 2 * Capacity \in T
  <2> DEFINE f == [p \in 2 * Capacity .. 2 * Capacity |-> <<p>>]
  <2>1. \A p \in 2 * Capacity .. 2 * Capacity : p >= size
    BY <1>0
  <2>2. \A p \in 2 * Capacity .. 2 * Capacity : After(f, p) = <<p>>
    BY <2>1 DEF After
  <2>3. Walks(2 * Capacity, f)
    BY <2>2 DEF Walks
  <2> HIDE DEF f
  <2> QED  BY <1>0, <2>3
<1>2. PICK m \in T : \A k \in T : m <= k
  <2>1. T \subseteq Nat /\ T # {}
    BY <1>1
  <2> HIDE DEF T
  <2> QED  BY <2>1, LeastNumber
<1>3. m = 0
  <2> SUFFICES ASSUME m # 0 PROVE FALSE
    OBVIOUS
  <2>1. m \in 1 .. 2 * Capacity /\ m - 1 \in 0 .. 2 * Capacity
    BY <1>0
  <2>2. \E f : Walks(m - 1, f)
    BY <2>1, WalkEarlier
  <2>3. m - 1 \in T
    BY <2>1, <2>2
  <2> QED  BY <1>2, <2>1, <2>3
<1>4. \E f : Walks(0, f)
  BY <1>3
<1>5. Walks(0, CHOOSE f : Walks(0, f))
  BY <1>4
<1>6. Positions = (CHOOSE f : Walks(0, f))[SizeofBody]
  BY DEF Positions, Walks, After
<1> QED  BY <1>5, <1>6

(* From any event on, a walk meets the events behind it and the end.       *)
Rest(q, n, d) == [k \in 1 .. d + 1 |-> 8 * q[n - d + k]]

LEMMA WalkMeets ==
  ASSUME TypeOK, CellsFit, NEW L, NEW q, Laid(L, q), NEW f, Walks(0, f)
  PROVE  \A d \in 0 .. Len(L) : f[8 * q[Len(L) + 1 - d]] = Rest(q, Len(L), d)
<1> DEFINE n == Len(L)
           T == {d \in 0 .. n : f[8 * q[n + 1 - d]] # Rest(q, n, d)}
<1>1. /\ n \in Nat /\ Capacity \in Nat /\ Capacity = 8 * Room /\ Room \in Nat
      /\ \A k \in 1 .. n + 1 : q[k] \in Nat /\ q[k] <= Room
      /\ size = 8 * q[n + 1]
  <2>1. n \in Nat /\ q[n + 1] \in 1 .. Room
    BY LaidFacts
  <2>2. \A k \in 1 .. n + 1 : q[k] \in Nat /\ q[k] <= q[n + 1]
    BY <2>1, LaidFacts
  <2>3. \A k \in 1 .. n + 1 : q[k] \in Nat /\ q[k] <= Room
    BY <2>1, <2>2, RoomFacts
  <2> QED  BY <2>1, <2>3, RoomFacts, SequenceAssumption DEF Laid
<1>2. SUFFICES ASSUME T # {} PROVE FALSE
  OBVIOUS
<1>3. PICK d \in T : \A e \in T : d <= e
  <2>1. T \subseteq Nat
    OBVIOUS
  <2> HIDE DEF T
  <2> QED  BY <1>2, <2>1, LeastNumber
<1> DEFINE i == n + 1 - d
           p == 8 * q[i]
<1>4. d \in 0 .. n /\ i \in 1 .. n + 1 /\ f[p] # Rest(q, n, d)
  BY <1>1, <1>3
<1>5. p \in 0 .. 2 * Capacity /\ f[p] = After(f, p)
  <2>1. q[i] \in Nat /\ q[i] <= Room
    BY <1>1, <1>4
  <2>2. p \in 0 .. 2 * Capacity
    BY <1>1, <2>1
  <2> HIDE DEF p
  <2> QED  BY <2>2 DEF Walks
<1>6. CASE d = 0
  <2>1. i = n + 1 /\ p = size /\ size \in Nat
    BY <1>1, <1>6
  <2>2. After(f, p) = <<p>>
    BY <2>1 DEF After
  <2>3. Rest(q, n, d) = <<p>>
    <3>1. Rest(q, n, d) = [k \in 1 .. 1 |-> 8 * q[n + k]]
      BY <1>1, <1>6 DEF Rest
    <3>2. \A k \in 1 .. 1 : 8 * q[n + k] = p
      BY <2>1
    <3>3. Rest(q, n, d) = [k \in 1 .. 1 |-> p]
      BY <3>1, <3>2
    <3> QED  BY <3>3
  <2> QED  BY <1>4, <1>5, <2>2, <2>3
<1>7. CASE d # 0
  <2>1. d \in 1 .. n /\ d - 1 \in 0 .. n /\ i \in 1 .. n /\ n + 1 - (d - 1) = i + 1
    BY <1>1, <1>4, <1>7
  <2>2. d - 1 \notin T
    BY <1>3, <2>1
  <2>3. f[8 * q[i + 1]] = Rest(q, n, d - 1)
    BY <2>1, <2>2
  <2>4. EventAt(p) # Blank /\ NextEvent(p) = 8 * q[i + 1]
    BY <2>1, EventThere
  <2>5. ~ (p >= size)
    <3>1. q[i] \in Nat /\ q[i] + Width(L[i]) <= q[n + 1] /\ Width(L[i]) \in Nat /\ Width(L[i]) >= 2 /\ q[n + 1] \in Nat
      BY <1>1, <2>1, LaidFacts
    <3> QED  BY <1>1, <3>1
  <2>6. f[p] = <<p>> \o Rest(q, n, d - 1)
    <3> HIDE DEF p, i, n
    <3> QED  BY <1>5, <2>3, <2>4, <2>5 DEF After
  <2>7. <<p>> \o Rest(q, n, d - 1) = Rest(q, n, d)
    <3>1. d - 1 + 1 = d /\ d \in Nat /\ n - d + 1 = i
      BY <1>1, <2>1
    <3>2. Rest(q, n, d - 1) = [k \in 1 .. d |-> 8 * q[n - (d - 1) + k]]
      BY <3>1 DEF Rest
    <3>3. \A k \in 1 .. d : n - (d - 1) + k \in 1 .. n + 1
      BY <1>1, <2>1
    <3>4. \A k \in 1 .. d : 8 * q[n - (d - 1) + k] \in Nat
      BY <1>1, <3>3
    <3>5. Rest(q, n, d - 1) \in Seq(Nat) /\ Len(Rest(q, n, d - 1)) = d
      <4> HIDE DEF i, p, n
      <4> QED  BY <3>1, <3>2, <3>4, NumberList
    <3>6. p \in Nat /\ <<p>> \in Seq(Nat) /\ Len(<<p>>) = 1 /\ <<p>>[1] = p
      BY <1>5, <1>1
    <3>7. \A k \in 1 .. d + 1 : n - d + k \in 1 .. n + 1
      BY <1>1, <2>1
    <3>8. \A k \in 1 .. d + 1 : 8 * q[n - d + k] \in Nat
      BY <1>1, <3>7
    <3>9. Rest(q, n, d) \in Seq(Nat) /\ Len(Rest(q, n, d)) = d + 1
      <4>1. Rest(q, n, d) = [k \in 1 .. d + 1 |-> 8 * q[n - d + k]] /\ d + 1 \in Nat
        BY <3>1 DEF Rest
      <4> HIDE DEF i, p, n
      <4> QED  BY <3>8, <4>1, NumberList
    <3> DEFINE c == <<p>> \o Rest(q, n, d - 1)
    <3>10. /\ c \in Seq(Nat) /\ Len(c) = d + 1
           /\ \A k \in 1 .. d + 1 : c[k] = IF k <= 1 THEN <<p>>[k] ELSE Rest(q, n, d - 1)[k - 1]
      <4>1. 1 + d = d + 1
        BY <3>1
      <4> QED  BY <3>5, <3>6, <4>1, ConcatProperties
    <3>11. ASSUME NEW k \in 1 .. d + 1 PROVE c[k] = Rest(q, n, d)[k]
      <4>1. Rest(q, n, d)[k] = 8 * q[n - d + k]
        BY DEF Rest
      <4>2. CASE k = 1
        <5>1. c[k] = p /\ n - d + k = i
          BY <3>1, <3>6, <3>10, <4>2
        <5> QED  BY <4>1, <5>1
      <4>3. CASE k # 1
        <5>1. k - 1 \in 1 .. d /\ n - (d - 1) + (k - 1) = n - d + k /\ ~ (k <= 1)
          BY <1>1, <2>1, <4>3
        <5>2. Rest(q, n, d - 1)[k - 1] = 8 * q[n - d + k]
          BY <3>2, <5>1
        <5> QED  BY <3>10, <4>1, <5>1, <5>2
      <4> QED  BY <4>2, <4>3
    <3> HIDE DEF c
    <3>12. c = Rest(q, n, d)
      BY <3>9, <3>10, <3>11, SeqEqual
    <3> QED  BY <3>12 DEF c
  <2> QED  BY <1>4, <2>6, <2>7
<1> QED  BY <1>6, <1>7

(* What an iteration reads of a layout: all of L, and the end exactly.     *)
LEMMA LaidIsRead ==
  ASSUME TypeOK, CellsFit, NEW L, NEW q, Laid(L, q)
  PROVE  /\ Contents = L
         /\ Len(Starts) = Len(L) /\ DOMAIN Starts = 1 .. Len(L)
         /\ \A i \in 1 .. Len(L) : Starts[i] = 8 * q[i]
         /\ Last(Positions) = End
<1> DEFINE n == Len(L)
<1>1. PICK f : Walks(0, f) /\ Positions = f[SizeofBody]
  BY SomeWalk
<1>2. /\ n \in Nat /\ \A k \in 1 .. n + 1 : q[k] \in Nat
  BY LaidFacts
<1>3. Positions = Rest(q, n, n)
  <2>1. n \in 0 .. n /\ n + 1 - n = 1 /\ 8 * q[1] = SizeofBody
    BY <1>2 DEF Laid, SizeofBody
  <2>2. f[8 * q[n + 1 - n]] = Rest(q, n, n)
    BY <1>1, <2>1, WalkMeets
  <2> QED  BY <1>1, <2>1, <2>2
<1>4. /\ Positions \in Seq(Nat) /\ Len(Positions) = n + 1
      /\ \A k \in 1 .. n + 1 : Positions[k] = 8 * q[k]
  <2>1. Rest(q, n, n) = [k \in 1 .. n + 1 |-> 8 * q[n - n + k]]
    BY DEF Rest
  <2>2. \A k \in 1 .. n + 1 : n - n + k = k /\ 8 * q[k] \in Nat
    BY <1>2
  <2>3. Rest(q, n, n) = [k \in 1 .. n + 1 |-> 8 * q[k]]
    BY <2>1, <2>2
  <2> HIDE DEF n
  <2> QED  BY <1>2, <1>3, <2>2, <2>3
<1>5. /\ Len(Starts) = n /\ DOMAIN Starts = 1 .. n
      /\ \A i \in 1 .. n : Starts[i] = 8 * q[i]
  <2>1. Starts = SubSeq(Positions, 1, n)
    BY <1>2, <1>4 DEF Starts, Front
  <2>2. \A i \in 1 .. n : i \in 1 .. n + 1 /\ Positions[i] \in Nat /\ Positions[i] = 8 * q[i]
    BY <1>2, <1>4
  <2> HIDE DEF n
  <2>3. /\ Starts \in Seq(Nat) /\ Len(Starts) = n
        /\ \A i \in 1 .. n : Starts[i] = Positions[i]
    BY <1>2, <2>1, <2>2, SubSeqProperties
  <2> QED  BY <1>2, <2>2, <2>3, LenProperties
<1>6. Contents = L
  <2>1. Contents = [i \in 1 .. n |-> EventAt(Starts[i])]
    BY <1>5 DEF Contents
  <2>2. \A i \in 1 .. n : EventAt(Starts[i]) = L[i]
    BY <1>5, EventThere
  <2>3. L = [i \in 1 .. n |-> L[i]]
    BY LenProperties DEF Laid
  <2> HIDE DEF n
  <2> QED  BY <2>1, <2>2, <2>3
<1>7. Last(Positions) = End
  <2>1. n + 1 \in 1 .. n + 1
    BY <1>2
  <2>2. Last(Positions) = size
    BY <1>4, <2>1 DEF Last, Laid
  <2>3. q[n + 1] \in Nat /\ size = 8 * q[n + 1]
    BY <1>2, <2>1 DEF Laid
  <2> QED  BY <2>2, <2>3, WholeWords DEF End
<1> QED  BY <1>5, <1>6, <1>7
-----------------------------------------------------------------------------
(* memcpy and memmove, in words. *)
LEMMA WriteInWords ==
  ASSUME NEW ev \in Events, NEW k \in Nat, NEW m
  PROVE  Write(m, 8 * k, ev) =
           [w \in Words |-> IF k <= w /\ w < k + Width(ev)
                            THEN [event |-> ev, part |-> w - k] ELSE m[w]]
<1>1. Width(ev) \in Nat /\ Pad(TotalSize(ev)) = 8 * Width(ev)
  BY Widths
<1>2. 8 * k + Pad(TotalSize(ev)) = 8 * (k + Width(ev)) /\ k + Width(ev) \in Nat
  BY <1>1
<1>3. (8 * k) \div 8 = k /\ (8 * k + Pad(TotalSize(ev))) \div 8 = k + Width(ev)
  BY <1>2, WholeWords
<1> QED  BY <1>3 DEF Write

Up(k, b, e, m) == [w \in Words |-> IF k + b <= w /\ w < e + b THEN m[w - b] ELSE m[w]]

LEMMA MovedInWords ==
  ASSUME NEW k \in Nat, NEW b \in Nat, NEW e \in Nat, k <= e, NEW m
  PROVE  Moved(m, 8 * k + 8 * b, 8 * k, 8 * e - 8 * k) = Up(k, b, e, m)
<1>1. /\ 8 * k + 8 * b = 8 * (k + b) /\ k + b \in Nat
      /\ 8 * k + 8 * b + (8 * e - 8 * k) = 8 * (e + b) /\ e + b \in Nat
  OBVIOUS
<1>2. /\ (8 * k + 8 * b) \div 8 = k + b /\ (8 * k) \div 8 = k
      /\ (8 * k + 8 * b + (8 * e - 8 * k)) \div 8 = e + b
  BY <1>1, WholeWords
<1>3. \A w \in Words : w - (k + b) + k = w - b
  BY RoomFacts
<1> QED  BY <1>2, <1>3 DEF Moved, Up

(* What the words of one event and words that were there before make.      *)
LEMMA CellsKept ==
  ASSUME TypeOK, CellsFit, NEW ev \in Events, Width(ev) <= Room,
         memory' = [w \in Words |-> memory'[w]],
         \A w \in Words : \/ \E j \in 0 .. Room : memory'[w] = [event |-> ev, part |-> j]
                          \/ \E v \in Words : memory'[w] = memory[v],
         size' \in SizeofBody .. Capacity
  PROVE  TypeOK' /\ CellsFit'
<1>1. ASSUME NEW w \in Words
      PROVE  memory'[w] \in Cells /\ (memory'[w] # Blank => Width(memory'[w].event) <= Room)
  <2>1. CASE \E j \in 0 .. Room : memory'[w] = [event |-> ev, part |-> j]
    BY <2>1 DEF Cells, Room
  <2>2. CASE \E v \in Words : memory'[w] = memory[v]
    BY <2>2 DEF TypeOK, CellsFit
  <2> QED  BY <2>1, <2>2
<1>2. memory' \in [Words -> Cells]
  <2> HIDE DEF Words, Cells
  <2> QED  BY <1>1
<1>3. TypeOK'
  BY <1>2 DEF TypeOK, Words, Cells, SizeofBody
<1>4. CellsFit'
  BY <1>1 DEF CellsFit, Words
<1> QED  BY <1>3, <1>4

(* An event behind all others. *)
LEMMA AppendLays ==
  ASSUME TypeOK, CellsFit, NEW L, NEW q, Laid(L, q), NEW ev \in Events, Fits(ev),
         memory' = Write(memory, End, ev), size' = size + Pad(TotalSize(ev))
  PROVE  TypeOK' /\ CellsFit' /\ \E r : Laid(Append(L, ev), r)'
<1> DEFINE n == Len(L)
           e == q[n + 1]
           W == Width(ev)
<1>1. n \in Nat /\ e \in Nat /\ e \in 1 .. Room /\ size = 8 * e /\ End = 8 * e
  <2>1. n \in Nat /\ e \in Nat /\ e \in 1 .. Room /\ size = 8 * e
    <3>1. n \in Nat /\ e \in 1 .. Room
      BY LaidFacts
    <3>2. size = 8 * e
      BY DEF Laid
    <3> HIDE DEF e
    <3> QED  BY <3>1, <3>2, RoomFacts
  <2> HIDE DEF e, n
  <2> QED  BY <2>1, WholeWords DEF End
<1>2. W \in Nat /\ W >= 2 /\ Pad(TotalSize(ev)) = 8 * W
  BY Widths
<1> HIDE DEF e, W
<1>3. e + W <= Room /\ size' = 8 * (e + W) /\ Room \in Nat /\ Capacity = 8 * Room
  BY <1>1, <1>2, RoomFacts DEF Fits
<1>4. memory' = [w \in Words |-> IF e <= w /\ w < e + W
                                 THEN [event |-> ev, part |-> w - e] ELSE memory[w]]
  BY <1>1, WriteInWords DEF W
<1>5. TypeOK' /\ CellsFit'
  <2>1. \A w \in Words : \/ \E j \in 0 .. Room : memory'[w] = [event |-> ev, part |-> j]
                         \/ \E v \in Words : memory'[w] = memory[v]
    <3>1. ASSUME NEW w \in Words, e <= w, w < e + W
          PROVE  w - e \in 0 .. Room /\ memory'[w] = [event |-> ev, part |-> w - e]
      BY <1>1, <1>2, <1>3, <1>4, <3>1, RoomFacts
    <3>2. ASSUME NEW w \in Words, ~ (e <= w /\ w < e + W) PROVE memory'[w] = memory[w]
      BY <1>4, <3>2
    <3> QED  BY <3>1, <3>2
  <2>2. size' \in SizeofBody .. Capacity /\ Width(ev) <= Room
    BY <1>1, <1>2, <1>3 DEF SizeofBody, W
  <2> QED  BY <1>4, <2>1, <2>2, CellsKept
<1> DEFINE M == Append(L, ev)
           r == [i \in 1 .. n + 2 |-> IF i = n + 2 THEN e + W ELSE q[i]]
<1>6. /\ M \in Seq(Events) /\ Len(M) = n + 1 /\ M[n + 1] = ev
      /\ \A i \in 1 .. n : M[i] = L[i]
  BY AppendProperties DEF Laid
<1>7. ASSUME NEW i \in 1 .. n + 1 PROVE r[i] = q[i] /\ q[i] \in Nat
  <2>1. q[i] \in Nat
    BY DEF Laid
  <2>2. i \in 1 .. n + 2 /\ i # n + 2
    BY <1>1
  <2> HIDE DEF n
  <2> QED  BY <2>1, <2>2
<1>8. r \in [1 .. n + 2 -> Nat] /\ r[n + 2] = e + W /\ r[n + 1] = e /\ r[1] = 1
  BY <1>1, <1>2, <1>7 DEF Laid, e
<1> HIDE DEF M, r
<1>9. \A i \in 1 .. n + 1 : r[i + 1] = r[i] + Width(M[i])
  <2>1. ASSUME NEW i \in 1 .. n PROVE r[i + 1] = r[i] + Width(M[i])
    <3>1. q[i + 1] = q[i] + Width(L[i])
      BY DEF Laid
    <3> HIDE DEF n
    <3>2. i \in 1 .. n + 1 /\ i + 1 \in 1 .. n + 1
      BY <1>1
    <3> QED  BY <1>6, <1>7, <3>1, <3>2
  <2>2. r[n + 1 + 1] = r[n + 1] + Width(M[n + 1])
    <3> HIDE DEF n
    <3>1. n + 1 + 1 = n + 2
      BY <1>1
    <3> QED  BY <1>6, <1>8, <3>1 DEF W
  <2>3. \A i \in 1 .. n + 1 : i \in 1 .. n \/ i = n + 1
    BY <1>1
  <2> QED  BY <2>1, <2>2, <2>3
<1>10. ASSUME NEW i \in 1 .. n + 1, NEW j \in 0 .. Width(M[i]) - 1
       PROVE  memory'[r[i] + j] = [event |-> M[i], part |-> j]
  <2>1. CASE i = n + 1
    <3>1. r[i] = e /\ M[i] = ev /\ j \in 0 .. W - 1
      BY <1>6, <1>8, <2>1 DEF W
    <3>2. e + j \in Words /\ e <= e + j /\ e + j < e + W /\ e + j - e = j
      BY <1>1, <1>2, <1>3, <3>1, RoomFacts
    <3>3. memory'[e + j] = [event |-> ev, part |-> e + j - e]
      BY <1>1, <1>2, <1>4, <3>1, <3>2
    <3> QED  BY <3>1, <3>2, <3>3
  <2>2. CASE i # n + 1
    <3>1. i \in 1 .. n /\ r[i] = q[i] /\ M[i] = L[i]
      BY <1>1, <1>6, <1>7, <2>2
    <3>2. memory[q[i] + j] = [event |-> L[i], part |-> j]
      BY <3>1 DEF Laid
    <3>3. q[i] \in Nat /\ q[i] + Width(L[i]) <= e /\ Width(L[i]) \in Nat
      BY <3>1, LaidFacts DEF e
    <3>4. q[i] + j \in Words /\ q[i] + j < e
      BY <1>1, <3>1, <3>3, RoomFacts
    <3>5. memory'[q[i] + j] = memory[q[i] + j]
      BY <1>1, <1>4, <3>4, RoomFacts
    <3> QED  BY <3>1, <3>2, <3>5
  <2> QED  BY <2>1, <2>2
<1>11. Laid(M, r)'
  <2>1. Len(M) + 1 = n + 2 /\ r[Len(M) + 1] = e + W
    BY <1>1, <1>6, <1>8
  <2> QED  BY <1>3, <1>6, <1>8, <1>9, <1>10, <2>1 DEF Laid
<1> QED  BY <1>5, <1>11 DEF M

(* What InsertAt of SequencesExt holds. *)
LEMMA Inserted ==
  ASSUME NEW S, NEW s \in Seq(S), NEW i \in 1 .. Len(s), NEW e \in S
  PROVE  /\ InsertAt(s, i, e) \in Seq(S) /\ Len(InsertAt(s, i, e)) = Len(s) + 1
         /\ InsertAt(s, i, e)[i] = e
         /\ \A k \in 1 .. i - 1 : InsertAt(s, i, e)[k] = s[k]
         /\ \A k \in i + 1 .. Len(s) + 1 : InsertAt(s, i, e)[k] = s[k - 1]
<1> DEFINE n == Len(s)
           front == SubSeq(s, 1, i - 1)
           back == SubSeq(s, i, n)
           mid == front \o <<e>>
           all == mid \o back
<1>1. n \in Nat /\ i \in Nat /\ 1 <= i /\ i <= n /\ \A k \in 1 .. n : s[k] \in S
  BY LenProperties, ElementOfSeq
<1> HIDE DEF n
<1>2. /\ front \in Seq(S) /\ Len(front) = i - 1
      /\ \A k \in 1 .. i - 1 : front[k] = s[k]
  <2>1. i - 1 \in Int /\ 1 \in Int /\ \A k \in 1 .. i - 1 : s[k] \in S
    BY <1>1
  <2>2. /\ front \in Seq(S) /\ Len(front) = IF 1 <= i - 1 THEN i - 1 - 1 + 1 ELSE 0
        /\ \A k \in 1 .. i - 1 - 1 + 1 : front[k] = s[1 + k - 1]
    BY <2>1, SubSeqProperties
  <2> HIDE DEF front
  <2> QED  BY <1>1, <2>2
<1>3. /\ back \in Seq(S) /\ Len(back) = n - i + 1
      /\ \A k \in 1 .. n - i + 1 : back[k] = s[i + k - 1]
  <2>1. i \in Int /\ n \in Int /\ i <= n /\ \A k \in i .. n : s[k] \in S
    BY <1>1
  <2> QED  BY <2>1, SubSeqProperties
<1> HIDE DEF front, back
<1>4. /\ mid \in Seq(S) /\ Len(mid) = i
      /\ mid[i] = e /\ \A k \in 1 .. i - 1 : mid[k] = s[k]
  <2>1. <<e>> \in Seq(S) /\ Len(<<e>>) = 1 /\ <<e>>[1] = e
    OBVIOUS
  <2>2. /\ mid \in Seq(S) /\ Len(mid) = i - 1 + 1
        /\ \A k \in 1 .. i - 1 + 1 : mid[k] = IF k <= i - 1 THEN front[k] ELSE <<e>>[k - (i - 1)]
    <3>1. /\ mid \in Seq(S) /\ Len(mid) = Len(front) + Len(<<e>>)
          /\ \A k \in 1 .. Len(front) + Len(<<e>>) :
               mid[k] = IF k <= Len(front) THEN front[k] ELSE <<e>>[k - Len(front)]
      BY <1>2, <2>1, ConcatProperties
    <3> HIDE DEF mid
    <3> QED  BY <1>2, <2>1, <3>1
  <2>3. i - 1 + 1 = i /\ i - (i - 1) = 1 /\ ~ (i <= i - 1)
    BY <1>1
  <2> HIDE DEF mid
  <2>4. mid[i] = e
    BY <1>1, <2>1, <2>2, <2>3
  <2> QED  BY <1>1, <1>2, <2>2, <2>3, <2>4
<1> HIDE DEF mid
<1>5. /\ all \in Seq(S) /\ Len(all) = n + 1
      /\ \A k \in 1 .. n + 1 : all[k] = IF k <= i THEN mid[k] ELSE back[k - i]
  <2>1. Len(mid) + Len(back) = n + 1
    BY <1>1, <1>3, <1>4
  <2>2. /\ all \in Seq(S) /\ Len(all) = Len(mid) + Len(back)
        /\ \A k \in 1 .. Len(mid) + Len(back) :
             all[k] = IF k <= Len(mid) THEN mid[k] ELSE back[k - Len(mid)]
    BY <1>3, <1>4, ConcatProperties
  <2> HIDE DEF all
  <2> QED  BY <1>4, <2>1, <2>2
<1> HIDE DEF all
<1>6. all[i] = e
  BY <1>1, <1>4, <1>5
<1>7. \A k \in 1 .. i - 1 : all[k] = s[k]
  BY <1>1, <1>4, <1>5
<1>8. ASSUME NEW k \in i + 1 .. n + 1 PROVE all[k] = s[k - 1]
  <2>1. k \in 1 .. n + 1 /\ ~ (k <= i) /\ k - i \in 1 .. n - i + 1 /\ i + (k - i) - 1 = k - 1
    BY <1>1
  <2> QED  BY <1>3, <1>5, <2>1
<1>9. InsertAt(s, i, e) = all
  BY DEF InsertAt, all, mid, front, back, n
<1> QED  BY <1>5, <1>6, <1>7, <1>8, <1>9 DEF n

(* An event before one that is as wide. *)
LEMMA InsertLays ==
  ASSUME TypeOK, CellsFit, NEW L, NEW q, Laid(L, q), NEW ev \in Events, Fits(ev),
         NEW i \in 1 .. Len(L), Pad(TotalSize(L[i])) = Pad(TotalSize(ev)),
         memory' = Write(Moved(memory, 8 * q[i] + Pad(TotalSize(L[i])), 8 * q[i], End - 8 * q[i]),
                         8 * q[i], ev),
         size' = size + Pad(TotalSize(ev))
  PROVE  TypeOK' /\ CellsFit' /\ \E r : Laid(InsertAt(L, i, ev), r)'
<1> DEFINE n == Len(L)
           e == q[n + 1]
           k == q[i]
           W == Width(ev)
<1>1. n \in Nat /\ e \in Nat /\ e \in 1 .. Room /\ size = 8 * e /\ End = 8 * e
  <2>1. n \in Nat /\ e \in 1 .. Room
    BY LaidFacts
  <2>2. size = 8 * e
    BY DEF Laid
  <2> HIDE DEF e, n
  <2> QED  BY <2>1, <2>2, WholeWords DEF End
<1>2. W \in Nat /\ W >= 2 /\ Pad(TotalSize(ev)) = 8 * W
  BY Widths
<1>3. k \in Nat /\ 1 <= k /\ k <= e
  <2>1. k \in 1 .. Room - 2 /\ k + Width(L[i]) <= e /\ Width(L[i]) \in Nat
    BY LaidFacts
  <2> HIDE DEF k, e
  <2> QED  BY <1>1, <2>1
<1> HIDE DEF e, k, W
<1>4. e + W <= Room /\ size' = 8 * (e + W) /\ Room \in Nat /\ Capacity = 8 * Room
  BY <1>1, <1>2, RoomFacts DEF Fits
<1> DEFINE up == Up(k, W, e, memory)
<1>5. memory' = [w \in Words |-> IF k <= w /\ w < k + W
                                 THEN [event |-> ev, part |-> w - k] ELSE up[w]]
  <2>1. memory' = Write(Moved(memory, 8 * k + 8 * W, 8 * k, 8 * e - 8 * k), 8 * k, ev)
    BY <1>1, <1>2 DEF k
  <2>2. Moved(memory, 8 * k + 8 * W, 8 * k, 8 * e - 8 * k) = up
    BY <1>1, <1>2, <1>3, MovedInWords
  <2> QED  BY <1>3, <2>1, <2>2, WriteInWords DEF W
<1>6. ASSUME NEW w \in Words, k <= w, w < k + W
      PROVE  w - k \in 0 .. Room /\ memory'[w] = [event |-> ev, part |-> w - k]
  BY <1>1, <1>2, <1>3, <1>4, <1>5, <1>6, RoomFacts
<1>7. ASSUME NEW w \in Words, k + W <= w, w < e + W
      PROVE  w - W \in Words /\ memory'[w] = memory[w - W]
  <2>1. w \in Nat /\ ~ (w < k + W) /\ w - W \in Words
    BY <1>1, <1>2, <1>3, <1>4, <1>7, RoomFacts
  <2>2. memory'[w] = up[w]
    BY <1>1, <1>2, <1>3, <1>5, <2>1
  <2>3. up[w] = memory[w - W]
    BY <1>7 DEF Up
  <2> QED  BY <2>1, <2>2, <2>3
<1>8. ASSUME NEW w \in Words, w < k \/ ~ (w < e + W) PROVE memory'[w] = memory[w]
  <2>1. w \in Nat /\ ~ (k <= w /\ w < k + W) /\ ~ (k + W <= w /\ w < e + W)
    BY <1>1, <1>2, <1>3, <1>8, RoomFacts
  <2>2. memory'[w] = up[w]
    BY <1>5, <2>1
  <2>3. up[w] = memory[w]
    BY <2>1 DEF Up
  <2> QED  BY <2>2, <2>3
<1> HIDE DEF up
<1>9. TypeOK' /\ CellsFit'
  <2>1. ASSUME NEW w \in Words
        PROVE  \/ \E j \in 0 .. Room : memory'[w] = [event |-> ev, part |-> j]
               \/ \E v \in Words : memory'[w] = memory[v]
    <3>1. CASE k <= w /\ w < k + W
      BY <1>6, <3>1
    <3>2. CASE k + W <= w /\ w < e + W
      BY <1>7, <3>2
    <3>3. CASE w < k \/ ~ (w < e + W)
      BY <1>8, <3>3
    <3>4. w \in Nat /\ k \in Nat /\ W \in Nat /\ e \in Nat
      BY <1>1, <1>2, <1>3, RoomFacts
    <3>5. (k <= w /\ w < k + W) \/ (k + W <= w /\ w < e + W) \/ w < k \/ ~ (w < e + W)
      BY <3>4
    <3> QED  BY <3>1, <3>2, <3>3, <3>5
  <2>2. size' \in SizeofBody .. Capacity /\ Width(ev) <= Room
    BY <1>1, <1>2, <1>4 DEF SizeofBody, W
  <2>3. memory' = [w \in Words |-> memory'[w]]
    BY <1>5
  <2> QED  BY <2>1, <2>2, <2>3, CellsKept
<1> DEFINE M == InsertAt(L, i, ev)
           r == [x \in 1 .. n + 2 |-> IF x <= i THEN q[x] ELSE q[x - 1] + W]
<1>10. /\ M \in Seq(Events) /\ Len(M) = n + 1 /\ M[i] = ev
       /\ \A x \in 1 .. i - 1 : M[x] = L[x]
       /\ \A x \in i + 1 .. n + 1 : M[x] = L[x - 1]
  BY Inserted DEF Laid
<1>11. \A x \in 1 .. n + 1 : q[x] \in Nat
  BY LaidFacts
<1>12. i \in Nat /\ 1 <= i /\ i <= n
  BY <1>1
<1> HIDE DEF n, M
<1>13. /\ \A x \in 1 .. i : r[x] = q[x] /\ q[x] \in Nat
       /\ \A x \in i + 1 .. n + 2 : r[x] = q[x - 1] + W /\ q[x - 1] \in Nat
  <2>1. ASSUME NEW x \in 1 .. i PROVE r[x] = q[x] /\ q[x] \in Nat
    <3>1. x \in 1 .. n + 2 /\ x \in 1 .. n + 1 /\ x <= i
      BY <1>1, <1>12
    <3> QED  BY <1>11, <3>1
  <2>2. ASSUME NEW x \in i + 1 .. n + 2 PROVE r[x] = q[x - 1] + W /\ q[x - 1] \in Nat
    <3>1. x \in 1 .. n + 2 /\ x - 1 \in 1 .. n + 1 /\ ~ (x <= i)
      BY <1>1, <1>12
    <3> QED  BY <1>11, <3>1
  <2> QED  BY <2>1, <2>2
<1>14. r \in [1 .. n + 2 -> Nat] /\ r[n + 2] = e + W /\ r[1] = 1
  <2>1. ASSUME NEW x \in 1 .. n + 2 PROVE r[x] \in Nat
    <3>1. x \in 1 .. i \/ x \in i + 1 .. n + 2
      BY <1>1, <1>12
    <3> HIDE DEF r
    <3>2. CASE x \in 1 .. i
      BY <1>13, <3>2
    <3>3. CASE x \in i + 1 .. n + 2
      <4>1. r[x] = q[x - 1] + W /\ q[x - 1] \in Nat
        BY <1>13, <3>3
      <4> QED  BY <1>2, <4>1
    <3> QED  BY <3>1, <3>2, <3>3
  <2>2. r = [x \in 1 .. n + 2 |-> r[x]]
    OBVIOUS
  <2> HIDE DEF r
  <2>3. 1 \in 1 .. i /\ n + 2 \in i + 1 .. n + 2 /\ n + 2 - 1 = n + 1
    BY <1>1, <1>12
  <2>4. q[1] = 1
    BY DEF Laid
  <2>5. r \in [1 .. n + 2 -> Nat]
    BY <2>1, <2>2
  <2>6. r[1] = q[1]
    BY <1>13, <2>3
  <2>7. ASSUME NEW x \in i + 1 .. n + 2, x - 1 = n + 1 PROVE r[x] = q[n + 1] + W
    BY <1>13, <2>7
  <2>8. r[n + 2] = q[n + 1] + W
    BY <1>1, <2>3, <2>7
  <2> QED  BY <2>4, <2>5, <2>6, <2>8 DEF e
<1> HIDE DEF r
<1>15. ASSUME NEW x \in 1 .. n
       PROVE  /\ q[x + 1] = q[x] + Width(L[x]) /\ Width(L[x]) \in Nat
              /\ q[x] \in Nat /\ q[x] + Width(L[x]) <= e
              /\ \A j \in 0 .. Width(L[x]) - 1 : memory[q[x] + j] = [event |-> L[x], part |-> j]
  <2>1. /\ q[x] + Width(L[x]) <= e /\ Width(L[x]) \in Nat
    BY LaidFacts DEF n, e
  <2>2. /\ q[x + 1] = q[x] + Width(L[x])
        /\ \A j \in 0 .. Width(L[x]) - 1 : memory[q[x] + j] = [event |-> L[x], part |-> j]
    BY DEF Laid, n
  <2>3. x \in 1 .. n + 1
    BY <1>1
  <2> QED  BY <1>11, <2>1, <2>2, <2>3
<1>16. \A x \in 1 .. n + 1 : \A y \in 1 .. x : q[y] <= q[x]
  BY LaidFacts DEF n
<1>17. \A x \in 1 .. n + 1 : x \in 1 .. i - 1 \/ x = i \/ x \in i + 1 .. n + 1
  BY <1>1, <1>12
<1>18. ASSUME NEW x \in 1 .. n + 1 PROVE r[x + 1] = r[x] + Width(M[x])
  <2>1. CASE x \in 1 .. i - 1
    <3>1. x \in 1 .. n /\ x \in 1 .. i /\ x + 1 \in 1 .. i
      BY <1>1, <1>12, <2>1
    <3> QED  BY <1>10, <1>13, <1>15, <2>1, <3>1
  <2>2. CASE x = i
    <3>1. x \in 1 .. i /\ x + 1 \in i + 1 .. n + 2 /\ x + 1 - 1 = i
      BY <1>1, <1>12, <2>2
    <3> QED  BY <1>10, <1>13, <2>2, <3>1 DEF W
  <2>3. CASE x \in i + 1 .. n + 1
    <3>1. /\ x \in i + 1 .. n + 2 /\ x + 1 \in i + 1 .. n + 2 /\ x + 1 - 1 = x
          /\ x - 1 \in 1 .. n /\ x - 1 + 1 = x
      BY <1>1, <1>12, <2>3
    <3>2. q[x] = q[x - 1] + Width(L[x - 1]) /\ Width(L[x - 1]) \in Nat /\ q[x - 1] \in Nat
      BY <1>15, <3>1
    <3>3. r[x + 1] = q[x] + W /\ r[x] = q[x - 1] + W /\ M[x] = L[x - 1]
      <4>1. r[x + 1] = q[x + 1 - 1] + W
        BY <1>13, <3>1
      <4>2. r[x] = q[x - 1] + W /\ M[x] = L[x - 1]
        BY <1>10, <1>13, <2>3, <3>1
      <4> QED  BY <3>1, <4>1, <4>2
    <3> QED  BY <1>2, <3>2, <3>3
  <2> QED  BY <1>17, <2>1, <2>2, <2>3
<1>19. ASSUME NEW x \in 1 .. n + 1, NEW j \in 0 .. Width(M[x]) - 1
       PROVE  memory'[r[x] + j] = [event |-> M[x], part |-> j]
  <2>1. CASE x \in 1 .. i - 1
    <3>1. x \in 1 .. n /\ x \in 1 .. i /\ x + 1 \in 1 .. i /\ i \in 1 .. n + 1
      BY <1>1, <1>12, <2>1
    <3>2. r[x] = q[x] /\ M[x] = L[x] /\ q[x] \in Nat
      BY <1>10, <1>13, <2>1, <3>1
    <3>3. q[x] + Width(L[x]) <= k /\ Width(L[x]) \in Nat /\ j \in 0 .. Width(L[x]) - 1
      BY <1>15, <1>16, <3>1, <3>2 DEF k
    <3>4. q[x] + j \in Words /\ q[x] + j < k
      <4>1. q[x] + j \in Nat /\ q[x] + j < k
        BY <1>3, <3>2, <3>3, Within
      <4> QED  BY <1>1, <1>3, <1>4, <4>1, RoomFacts
    <3>5. memory'[q[x] + j] = memory[q[x] + j]
      BY <1>8, <3>4
    <3> QED  BY <1>15, <3>1, <3>2, <3>3, <3>5
  <2>2. CASE x = i
    <3>1. x \in 1 .. i /\ r[x] = k /\ M[x] = ev /\ j \in 0 .. W - 1
      BY <1>10, <1>12, <1>13, <2>2 DEF W, k
    <3> DEFINE w == k + j
    <3>2. w \in Words /\ k <= w /\ w < k + W /\ w - k = j
      BY <1>1, <1>2, <1>3, <1>4, <3>1, RoomFacts
    <3> HIDE DEF w
    <3>3. memory'[w] = [event |-> ev, part |-> w - k]
      BY <1>6, <3>2
    <3> QED  BY <3>1, <3>2, <3>3 DEF w
  <2>3. CASE x \in i + 1 .. n + 1
    <3>1. x \in i + 1 .. n + 2 /\ x - 1 \in 1 .. n /\ x - 1 \in 1 .. n + 1 /\ i \in 1 .. x - 1
      BY <1>1, <1>12, <2>3
    <3>2. r[x] = q[x - 1] + W /\ M[x] = L[x - 1] /\ j \in 0 .. Width(L[x - 1]) - 1
      BY <1>10, <1>13, <2>3, <3>1
    <3>3. /\ q[x - 1] \in Nat /\ k <= q[x - 1]
          /\ q[x - 1] + Width(L[x - 1]) <= e /\ Width(L[x - 1]) \in Nat
      BY <1>15, <1>16, <3>1 DEF k
    <3> DEFINE w == q[x - 1] + W + j
    <3>10. j \in Nat /\ q[x - 1] + j \in Nat /\ q[x - 1] + j >= q[x - 1] /\ q[x - 1] + j < e
      BY <1>1, <3>2, <3>3, Within
    <3>4. w \in Words /\ k + W <= w /\ w < e + W /\ w - W = q[x - 1] + j
      <4> DEFINE v == q[x - 1] + j
      <4>1. v \in Nat /\ k <= v /\ v < e
        BY <1>3, <3>3, <3>10
      <4>2. w = v + W
        BY <1>2, <3>3, <3>10
      <4> HIDE DEF v, w
      <4>3. w \in Words /\ k + W <= w /\ w < e + W /\ w - W = v
        BY <1>1, <1>2, <1>3, <1>4, <4>1, <4>2, RoomFacts
      <4> QED  BY <4>3 DEF v
    <3>5. memory'[w] = memory[q[x - 1] + j]
      BY <1>7, <3>4
    <3>6. memory[q[x - 1] + j] = [event |-> L[x - 1], part |-> j]
      BY <1>15, <3>1, <3>2
    <3> QED  BY <3>2, <3>5, <3>6
  <2> QED  BY <1>17, <2>1, <2>2, <2>3
<1>20. Laid(M, r)'
  <2>1. Len(M) + 1 = n + 2 /\ r[Len(M) + 1] = e + W
    BY <1>1, <1>10, <1>14
  <2> QED  BY <1>4, <1>10, <1>14, <1>18, <1>19, <2>1 DEF Laid
<1> QED  BY <1>9, <1>20 DEF M
-----------------------------------------------------------------------------
LEMMA InitInv == Init => IInv
<1> SUFFICES ASSUME Init PROVE IInv
  OBVIOUS
<1>1. size = 8 /\ memory \in [Words -> {Blank}]
  BY DEF Init, SizeofBody
<1>2. TypeOK /\ CellsFit
  BY <1>1, RoomFacts DEF TypeOK, CellsFit, Cells, SizeofBody
<1>3. Laid(<<>>, [i \in 1 .. 1 |-> 1])
  BY <1>1, EmptySeq DEF Laid
<1> QED  BY <1>2, <1>3 DEF IInv

(* reset() leaves the words and forgets the events. *)
LEMMA ResetLays ==
  ASSUME TypeOK, CellsFit, Reset
  PROVE  TypeOK' /\ CellsFit' /\ \E r : Laid(<<>>, r)'
<1>1. size' = 8 /\ memory' = memory
  BY DEF Reset, SizeofBody
<1>2. TypeOK' /\ CellsFit'
  BY <1>1, RoomFacts DEF TypeOK, CellsFit, Cells, Words, SizeofBody
<1>3. Laid(<<>>, [i \in 1 .. 1 |-> 1])'
  BY <1>1, EmptySeq DEF Laid
<1> QED  BY <1>2, <1>3

(* Where insert() looks for a place.                                       *)
LEMMA PlaceFacts ==
  ASSUME NEW L \in Seq(Events), Contents = L, NEW ev
  PROVE  /\ FirstLater(ev) = 0 \/ FirstLater(ev) \in 1 .. Len(L)
         /\ FirstLater(ev) = List!Place(ev)
<1> DEFINE I == {i \in 1 .. Len(L) : Later(L[i], ev)}
<1>1. FirstLater(ev) = IF I # {} THEN Min(I) ELSE 0
  BY DEF FirstLater, SelectInSeq
<1>2. List!Place(ev) = IF I # {} THEN Min(I) ELSE 0
  BY DEF List!Place, List!SelectInSeq, List!Min, Min, Later
<1>3. I \subseteq Nat /\ I \subseteq 1 .. Len(L)
  BY LenProperties
<1>4. I # {} => Min(I) \in I
  <2> HIDE DEF I
  <2>1. I # {} => \E n \in I : \A m \in I : n <= m
    BY <1>3, LeastNumber
  <2> QED  BY <2>1 DEF Min
<1> HIDE DEF I
<1>5. (IF I # {} THEN Min(I) ELSE 0) \in {0} \cup 1 .. Len(L)
  <2>1. CASE I # {}
    BY <1>3, <1>4, <2>1
  <2>2. CASE I = {}
    BY <2>2
  <2> QED  BY <2>1, <2>2
<1> QED  BY <1>1, <1>2, <1>5

(* Insert, said of the layout. *)
LEMMA InsertDoes ==
  ASSUME TypeOK, CellsFit, NEW L, NEW q, Laid(L, q), NEW ev \in Events, AsWide(ev), Insert(ev)
  PROVE  /\ TypeOK' /\ CellsFit'
         /\ \/ FirstLater(ev) = 0 /\ \E r : Laid(Append(L, ev), r)'
            \/ \E i \in 1 .. Len(L) :
                 FirstLater(ev) = i /\ \E r : Laid(InsertAt(L, i, ev), r)'
<1>1. Contents = L /\ L \in Seq(Events) /\ \A x \in 1 .. Len(L) : Starts[x] = 8 * q[x]
  <2>1. L \in Seq(Events)
    BY DEF Laid
  <2> QED  BY <2>1, LaidIsRead
<1>2. Fits(ev) /\ size' = size + Pad(TotalSize(ev))
  BY DEF Insert
<1>3. FirstLater(ev) = 0 \/ FirstLater(ev) \in 1 .. Len(L)
  BY <1>1, PlaceFacts
<1>4. CASE FirstLater(ev) = 0
  <2>1. memory' = Write(memory, End, ev)
    BY <1>4 DEF Insert
  <2> QED  BY <1>2, <1>4, <2>1, AppendLays
<1>5. ASSUME NEW i \in 1 .. Len(L), FirstLater(ev) = i
      PROVE  TypeOK' /\ CellsFit' /\ \E r : Laid(InsertAt(L, i, ev), r)'
  <2>1. i # 0
    BY LenProperties, <1>1
  <2>2. Starts[i] = 8 * q[i] /\ Contents[i] = L[i]
    BY <1>1
  <2>3. memory' = Write(Moved(memory, Starts[i] + Pad(TotalSize(Contents[i])), Starts[i],
                              End - Starts[i]), Starts[i], ev)
    BY <1>5, <2>1 DEF Insert
  <2>4. memory' = Write(Moved(memory, 8 * q[i] + Pad(TotalSize(L[i])), 8 * q[i], End - 8 * q[i]),
                        8 * q[i], ev)
    BY <2>2, <2>3
  <2>5. Pad(TotalSize(L[i])) = Pad(TotalSize(ev))
    BY <1>5, <2>1, <2>2 DEF AsWide
  <2> QED  BY <1>2, <2>4, <2>5, InsertLays
<1> QED  BY <1>3, <1>4, <1>5

LEMMA NextInv == IInv /\ [NextAsWide]_vars => IInv'
<1> SUFFICES ASSUME IInv, [NextAsWide]_vars PROVE IInv'
  OBVIOUS
<1>1. TypeOK /\ CellsFit
  BY DEF IInv
<1>2. PICK L, q : Laid(L, q)
  BY DEF IInv
<1>3. CASE Reset
  BY <1>1, <1>3, ResetLays DEF IInv
<1>4. ASSUME NEW ev \in Events, AppendEvent(ev) PROVE IInv'
  <2>1. TypeOK' /\ CellsFit' /\ \E r : Laid(Append(L, ev), r)'
    BY <1>1, <1>2, <1>4, AppendLays DEF AppendEvent
  <2> QED  BY <2>1 DEF IInv
<1>5. ASSUME NEW ev \in Events, AsWide(ev), Insert(ev) PROVE IInv'
  <2>1. /\ TypeOK' /\ CellsFit'
        /\ \/ FirstLater(ev) = 0 /\ \E r : Laid(Append(L, ev), r)'
           \/ \E i \in 1 .. Len(L) :
                FirstLater(ev) = i /\ \E r : Laid(InsertAt(L, i, ev), r)'
    BY <1>1, <1>2, <1>5, InsertDoes
  <2>2. \E M, r : Laid(M, r)'
    BY <2>1
  <2> QED  BY <2>1, <2>2 DEF IInv
<1>6. CASE UNCHANGED vars
  <2>1. size' = size /\ memory' = memory
    BY <1>6 DEF vars
  <2>2. TypeOK' /\ CellsFit'
    BY <1>1, <2>1 DEF TypeOK, CellsFit
  <2>3. Laid(L, q)'
    BY <1>2, <2>1 DEF Laid
  <2> QED  BY <2>2, <2>3 DEF IInv
<1> QED  BY <1>3, <1>4, <1>5, <1>6 DEF NextAsWide

(* The invariant holds in every reachable state: atom.hpp:325-430.         *)
THEOREM Invariance == SpecAsWide => []IInv
BY InitInv, NextInv, PTL DEF SpecAsWide

(* The size of the body counts its header and never exceeds the buffer, of *)
(* which every word is blank or a part of an event.                        *)
THEOREM TypeCorrect == SpecAsWide => []TypeOK
BY Invariance, PTL DEF IInv

(* "for (const auto& ev : seq)" meets whole events only and ends at end(). *)
THEOREM EventsStayWhole == SpecAsWide => []EventsWhole
<1>1. IInv => EventsWhole
  <2> SUFFICES ASSUME IInv PROVE EventsWhole
    OBVIOUS
  <2>1. TypeOK /\ CellsFit
    BY DEF IInv
  <2>2. PICK L, q : Laid(L, q)
    BY DEF IInv
  <2>3. /\ DOMAIN Starts = 1 .. Len(L) /\ Last(Positions) = End
        /\ \A i \in 1 .. Len(L) : Starts[i] = 8 * q[i]
    BY <2>1, <2>2, LaidIsRead
  <2>4. \A i \in 1 .. Len(L) : WholeAt(8 * q[i])
    BY <2>1, <2>2, EventThere
  <2> QED  BY <2>3, <2>4 DEF EventsWhole, Range
<1> QED  BY <1>1, Invariance, PTL

(* The contents are the events of the layout, before and after every step. *)
Read == \A L, q : Laid(L, q) => Contents = L

(* The bytes implement the list: reset() empties it, append() adds at the  *)
(* end, insert() before the first later event, and memmove() and memcpy()  *)
(* leave all other events as they were.                                    *)
THEOREM SequenceImplementsEventList == SpecAsWide => ImplementsEventList
<1>1. Init => List!Init
  <2> SUFFICES ASSUME Init PROVE Contents = <<>>
    BY DEF List!Init
  <2>1. IInv
    BY InitInv
  <2>2. Laid(<<>>, [i \in 1 .. 1 |-> 1])
    BY EmptySeq DEF Laid, Init, SizeofBody
  <2> QED  BY <2>1, <2>2, LaidIsRead DEF IInv
<1>2. IInv => Read
  BY LaidIsRead DEF IInv, Read
<1>3. IInv /\ Read /\ Read' /\ [NextAsWide]_vars => [List!Next]_Contents
  <2> SUFFICES ASSUME IInv, Read, Read', [NextAsWide]_vars
               PROVE  List!Next \/ Contents' = Contents
    OBVIOUS
  <2>1. TypeOK /\ CellsFit
    BY DEF IInv
  <2>2. PICK L, q : Laid(L, q)
    BY DEF IInv
  <2>3. Contents = L /\ L \in Seq(Events)
    <3>1. Contents = L
      BY <2>2 DEF Read
    <3>2. L \in Seq(Events)
      BY <2>2 DEF Laid
    <3> QED  BY <3>1, <3>2
  <2>4. \A M : (\E r : Laid(M, r)') => Contents' = M
    BY DEF Read
  <2>5. CASE Reset
    <3>1. Contents' = <<>>
      BY <2>1, <2>4, <2>5, ResetLays
    <3> QED  BY <3>1 DEF List!Next, List!Reset
  <2>6. ASSUME NEW ev \in Events, AppendEvent(ev) PROVE List!Next
    <3>1. \E r : Laid(Append(L, ev), r)'
      BY <2>1, <2>2, <2>6, AppendLays DEF AppendEvent
    <3>2. Contents' = Append(Contents, ev)
      BY <2>3, <2>4, <3>1
    <3> QED  BY <3>2 DEF List!Next, List!AppendEvent
  <2>7. ASSUME NEW ev \in Events, AsWide(ev), Insert(ev) PROVE List!Next
    <3>1. \/ FirstLater(ev) = 0 /\ \E r : Laid(Append(L, ev), r)'
          \/ \E i \in 1 .. Len(L) :
               FirstLater(ev) = i /\ \E r : Laid(InsertAt(L, i, ev), r)'
      BY <2>1, <2>2, <2>7, InsertDoes
    <3>2. FirstLater(ev) = List!Place(ev)
      BY <2>3, PlaceFacts
    <3>3. CASE FirstLater(ev) = 0 /\ \E r : Laid(Append(L, ev), r)'
      <4>1. Contents' = Append(Contents, ev)
        BY <2>3, <2>4, <3>3
      <4> QED  BY <3>2, <3>3, <4>1 DEF List!Next, List!Insert
    <3>4. ASSUME NEW i \in 1 .. Len(L), FirstLater(ev) = i,
                 \E r : Laid(InsertAt(L, i, ev), r)'
          PROVE  List!Next
      <4>1. i # 0 /\ InsertAt(L, i, ev) = List!InsertAt(L, i, ev)
        BY <2>3, LenProperties DEF InsertAt, List!InsertAt
      <4>2. Contents' = InsertAt(L, i, ev)
        BY <2>4, <3>4
      <4>3. Contents' = List!InsertAt(Contents, List!Place(ev), ev)
        BY <2>3, <3>2, <3>4, <4>1, <4>2
      <4>4. List!Insert(ev)
        BY <3>2, <3>4, <4>1, <4>3 DEF List!Insert
      <4> QED  BY <4>4 DEF List!Next
    <3> QED  BY <3>1, <3>3, <3>4
  <2>8. CASE UNCHANGED vars
    <3>1. Laid(L, q)'
      BY <2>2, <2>8 DEF vars, Laid
    <3> QED  BY <2>3, <2>4, <3>1
  <2> QED  BY <2>5, <2>6, <2>7, <2>8 DEF NextAsWide
<1> QED
  BY <1>1, <1>2, <1>3, Invariance, PTL DEF SpecAsWide, ImplementsEventList, List!Spec

(* What insert() knows of the times around its place. *)
LEMMA PlaceOrder ==
  ASSUME NEW L \in Seq(Events), Contents = L, NEW ev
  PROVE  /\ FirstLater(ev) = 0 => \A k \in 1 .. Len(L) : ~ Later(L[k], ev)
         /\ \A i \in 1 .. Len(L) :
              FirstLater(ev) = i => Later(L[i], ev) /\ \A k \in 1 .. i - 1 : ~ Later(L[k], ev)
<1> DEFINE I == {i \in 1 .. Len(L) : Later(L[i], ev)}
<1>1. FirstLater(ev) = IF I # {} THEN Min(I) ELSE 0
  BY DEF FirstLater, SelectInSeq
<1>2. I \subseteq Nat /\ I \subseteq 1 .. Len(L) /\ 0 \notin I /\ Len(L) \in Nat
  BY LenProperties
<1>3. I # {} => Min(I) \in I /\ \A m \in I : Min(I) <= m
  <2> HIDE DEF I
  <2>1. I # {} => \E n \in I : \A m \in I : n <= m
    BY <1>2, LeastNumber
  <2> QED  BY <2>1 DEF Min
<1>4. ASSUME FirstLater(ev) = 0, NEW k \in 1 .. Len(L) PROVE ~ Later(L[k], ev)
  <2>1. I = {}
    <3> HIDE DEF I
    <3> QED  BY <1>1, <1>2, <1>3, <1>4
  <2> QED  BY <2>1
<1>5. ASSUME NEW i \in 1 .. Len(L), FirstLater(ev) = i
      PROVE  Later(L[i], ev) /\ \A k \in 1 .. i - 1 : ~ Later(L[k], ev)
  <2>1. i \in I /\ \A m \in I : i <= m
    <3>1. i # 0
      BY <1>2
    <3> HIDE DEF I
    <3> QED  BY <1>1, <1>3, <1>5, <3>1
  <2>2. ASSUME NEW k \in 1 .. i - 1 PROVE k \notin I /\ k \in 1 .. Len(L)
    <3>1. k \in 1 .. Len(L) /\ ~ (i <= k)
      BY <1>2
    <3> HIDE DEF I
    <3> QED  BY <2>1, <3>1
  <2> QED  BY <2>1, <2>2
<1> QED  BY <1>4, <1>5

(* Sorted events stay sorted when one is put before the first later one.   *)
LEMMA OrderKept ==
  ASSUME NEW L \in Seq(Events), InOrder(L), NEW ev \in Events, NEW i \in 1 .. Len(L),
         Later(L[i], ev), \A k \in 1 .. i - 1 : ~ Later(L[k], ev)
  PROVE  InOrder(InsertAt(L, i, ev))
<1>0. /\ InsertAt(L, i, ev) \in Seq(Events) /\ Len(InsertAt(L, i, ev)) = Len(L) + 1
      /\ InsertAt(L, i, ev)[i] = ev
      /\ \A k \in 1 .. i - 1 : InsertAt(L, i, ev)[k] = L[k]
      /\ \A k \in i + 1 .. Len(L) + 1 : InsertAt(L, i, ev)[k] = L[k - 1]
  BY Inserted
<1> DEFINE M == InsertAt(L, i, ev)
           n == Len(L)
<1>1. n \in Nat /\ DOMAIN L = 1 .. n
  BY LenProperties
<1>2. /\ M \in Seq(Events) /\ Len(M) = n + 1 /\ M[i] = ev
      /\ \A k \in 1 .. i - 1 : M[k] = L[k]
      /\ \A k \in i + 1 .. n + 1 : M[k] = L[k - 1]
  <2> HIDE DEF M, n
  <2> QED  BY <1>0 DEF M, n
<1>3. DOMAIN M = 1 .. n + 1
  BY <1>2
<1>4. ev.frames \in Nat /\ \A k \in 1 .. n : L[k].frames \in Nat
  <2>1. \A k \in 1 .. n : L[k] \in Events
    BY ElementOfSeq
  <2> QED  BY <2>1, SequenceAssumption
<1>5. \A a, b \in 1 .. n : a < b => L[a].frames <= L[b].frames
  BY <1>1 DEF InOrder
<1>6. ASSUME NEW k \in 1 .. i - 1 PROVE L[k].frames <= ev.frames
  <2>1. k \in 1 .. n /\ ~ Later(L[k], ev)
    BY <1>1
  <2> QED  BY <1>4, <2>1 DEF Later
<1> HIDE DEF n
<1>7. ASSUME NEW k \in i .. n PROVE ev.frames <= L[k].frames
  <2>1. k \in 1 .. n /\ i \in 1 .. n /\ (i = k \/ i < k)
    BY <1>1 DEF n
  <2>2. ev.frames < L[i].frames
    BY <1>4, <2>1 DEF Later
  <2>3. L[i].frames <= L[k].frames
    BY <1>4, <1>5, <2>1
  <2> QED  BY <1>4, <2>1, <2>2, <2>3
<1> HIDE DEF M
<1>8. ASSUME NEW a \in 1 .. n + 1, NEW b \in 1 .. n + 1, a < b
      PROVE  M[a].frames <= M[b].frames
  <2>0. i \in 1 .. n
    BY DEF n
  <2>1. \/ a \in 1 .. i - 1 /\ b \in 1 .. i - 1
        \/ a \in 1 .. i - 1 /\ b = i
        \/ a \in 1 .. i - 1 /\ b \in i + 1 .. n + 1
        \/ a = i /\ b \in i + 1 .. n + 1
        \/ a \in i + 1 .. n + 1 /\ b \in i + 1 .. n + 1
    BY <1>1, <1>8, <2>0
  <2>2. CASE a \in 1 .. i - 1 /\ b \in 1 .. i - 1
    <3>1. a \in 1 .. n /\ b \in 1 .. n
      BY <1>1, <2>0, <2>2
    <3> QED  BY <1>2, <1>5, <1>8, <2>2, <3>1
  <2>3. CASE a \in 1 .. i - 1 /\ b = i
    BY <1>2, <1>6, <2>3
  <2>4. CASE a \in 1 .. i - 1 /\ b \in i + 1 .. n + 1
    <3>1. a \in 1 .. n /\ b - 1 \in 1 .. n /\ a < b - 1
      BY <1>1, <2>0, <2>4
    <3> QED  BY <1>2, <1>5, <2>4, <3>1
  <2>5. CASE a = i /\ b \in i + 1 .. n + 1
    <3>1. b - 1 \in i .. n
      BY <1>1, <2>0, <2>5
    <3> QED  BY <1>2, <1>7, <2>5, <3>1
  <2>6. CASE a \in i + 1 .. n + 1 /\ b \in i + 1 .. n + 1
    <3>1. a - 1 \in 1 .. n /\ b - 1 \in 1 .. n /\ a - 1 < b - 1
      BY <1>1, <1>8, <2>0, <2>6
    <3> QED  BY <1>2, <1>5, <2>6, <3>1
  <2> QED  BY <2>1, <2>2, <2>3, <2>4, <2>5, <2>6
<1>9. InOrder(M)
  BY <1>3, <1>8 DEF InOrder
<1> QED  BY <1>9 DEF M

(* And when one is put behind them of which none is later. *)
LEMMA OrderAtEnd ==
  ASSUME NEW L \in Seq(Events), InOrder(L), NEW ev \in Events,
         \A k \in 1 .. Len(L) : ~ Later(L[k], ev)
  PROVE  InOrder(Append(L, ev))
<1> DEFINE M == Append(L, ev)
           n == Len(L)
<1>1. n \in Nat /\ DOMAIN L = 1 .. n
  BY LenProperties
<1>2. Len(M) = n + 1 /\ M[n + 1] = ev /\ \A k \in 1 .. n : M[k] = L[k]
  BY AppendProperties
<1>3. DOMAIN M = 1 .. n + 1
  BY <1>1, <1>2
<1>4. ASSUME NEW k \in 1 .. n PROVE L[k].frames <= ev.frames
  <2>1. L[k] \in Events /\ ~ Later(L[k], ev)
    BY ElementOfSeq
  <2>2. L[k].frames \in Nat /\ ev.frames \in Nat
    BY <2>1, SequenceAssumption
  <2> QED  BY <2>1, <2>2 DEF Later
<1>5. \A a, b \in 1 .. n : a < b => L[a].frames <= L[b].frames
  BY <1>1 DEF InOrder
<1> HIDE DEF M, n
<1>6. ASSUME NEW a \in 1 .. n + 1, NEW b \in 1 .. n + 1, a < b
      PROVE  M[a].frames <= M[b].frames
  <2>1. a \in 1 .. n /\ (b \in 1 .. n \/ b = n + 1)
    BY <1>1, <1>6
  <2> QED  BY <1>2, <1>4, <1>5, <1>6, <2>1
<1>7. InOrder(M)
  BY <1>3, <1>6 DEF InOrder
<1> QED  BY <1>7 DEF M

(* For buffers and events of any size: insert() keeps what is sorted by    *)
(* time sorted, where it keeps events whole.  atom.hpp:404-422.            *)
THEOREM InsertsKeepOrder == SpecAsWide => InsertKeepsOrder
<1>1. IInv => Read
  BY LaidIsRead DEF IInv, Read
<1>2. IInv /\ Read /\ Read' =>
        [\A ev \in Events : AsWide(ev) /\ Insert(ev) /\ InOrder(Contents) => InOrder(Contents')]_vars
  <2> SUFFICES ASSUME IInv, Read, Read', NEW ev \in Events, AsWide(ev), Insert(ev), InOrder(Contents)
               PROVE  InOrder(Contents')
    OBVIOUS
  <2>1. TypeOK /\ CellsFit
    BY DEF IInv
  <2>2. PICK L, q : Laid(L, q)
    BY DEF IInv
  <2>3. Contents = L /\ L \in Seq(Events)
    <3>1. Contents = L
      BY <2>2 DEF Read
    <3>2. L \in Seq(Events)
      BY <2>2 DEF Laid
    <3> QED  BY <3>1, <3>2
  <2>4. \A M : (\E r : Laid(M, r)') => Contents' = M
    BY DEF Read
  <2>5. \/ FirstLater(ev) = 0 /\ \E r : Laid(Append(L, ev), r)'
        \/ \E i \in 1 .. Len(L) :
             FirstLater(ev) = i /\ \E r : Laid(InsertAt(L, i, ev), r)'
    BY <2>1, <2>2, InsertDoes
  <2>6. /\ FirstLater(ev) = 0 => \A k \in 1 .. Len(L) : ~ Later(L[k], ev)
        /\ \A i \in 1 .. Len(L) :
             FirstLater(ev) = i => Later(L[i], ev) /\ \A k \in 1 .. i - 1 : ~ Later(L[k], ev)
    BY <2>3, PlaceOrder
  <2>7. CASE FirstLater(ev) = 0 /\ \E r : Laid(Append(L, ev), r)'
    <3>1. Contents' = Append(L, ev)
      BY <2>4, <2>7
    <3>2. InOrder(Append(L, ev))
      BY <2>3, <2>6, <2>7, OrderAtEnd
    <3> QED  BY <3>1, <3>2
  <2>8. ASSUME NEW i \in 1 .. Len(L), FirstLater(ev) = i, \E r : Laid(InsertAt(L, i, ev), r)'
        PROVE  InOrder(Contents')
    <3>1. Contents' = InsertAt(L, i, ev)
      BY <2>4, <2>8
    <3>2. Later(L[i], ev) /\ \A k \in 1 .. i - 1 : ~ Later(L[k], ev)
      BY <2>6, <2>8
    <3>3. InOrder(InsertAt(L, i, ev))
      BY <2>3, <3>2, OrderKept
    <3> QED  BY <3>1, <3>3
  <2> QED  BY <2>5, <2>7, <2>8
<1> QED  BY <1>1, <1>2, Invariance, PTL DEF InsertKeepsOrder
-----------------------------------------------------------------------------
(* The headers of containers, and whether the innermost scope has written  *)
(* a mark and not yet what it is the mark of.                              *)
Headers == {r \in DOMAIN buffer : buffer[r].kind \in Containers}
Waiting == scopes # <<>> /\ Last(scopes).next = "value"

(* The sizes are not inductive without the kinds of the headers, which     *)
(* decide what a frame on the stack counts for, and the order of frames.   *)
SizesInv ==
  /\ ForgeTypeOK
  /\ SizesExact
  /\ \A i, j \in 1 .. Len(stack) : i < j => stack[i] < stack[j]
  /\ \A r \in Range(stack) : r \in Headers
  /\ \A i \in DOMAIN buffer : buffer[i].of <= Len(buffer)
  /\ \A s \in Range(scopes) : s.ref # 0 => buffer[s.ref].kind = s.kind

(* The words M are what an iterator that starts behind the header of r     *)
(* meets before e, from each to the next by the size in between.           *)
Chain(r, M, e) ==
  /\ r + 2 \in M \cup {e}
  /\ \A p \in M : /\ r + 2 <= p /\ p + 1 < e
                  /\ NextMark(p) \in M \cup {e}
                  /\ \A q \in M : p < q => NextMark(p) <= q

(* Frames and scopes agree, and a container inside another is the value of *)
(* a mark of it.                                                           *)
Nested ==
  /\ Len(stack) = Len(scopes)
  /\ \A i \in 1 .. Len(stack) : stack[i] = scopes[i].ref
  /\ stack # <<>> => stack[1] = 1
  /\ \A i \in 1 .. Len(stack) - 1 : scopes[i].next = "mark" /\ stack[i + 1] - 1 \in Marks(stack[i])
  /\ \A i \in DOMAIN buffer : buffer[i].size <= BufferSize

(* Every container is a chain of marks to its end, except that the         *)
(* innermost open one may end with a mark.                                 *)
Chained ==
  /\ \A r \in Headers : (Waiting /\ r = Last(stack)) \/ Chain(r, Marks(r), EndOf(r))
  /\ Waiting => /\ Len(buffer) \in Marks(Last(stack))
                /\ Chain(Last(stack), Marks(Last(stack)) \ {Len(buffer)}, Len(buffer))

ForgeInv == SizesInv /\ (~ refused => Nested /\ Chained)
-----------------------------------------------------------------------------
(* What the words of the buffer are. *)
WordType == [kind : Kinds, size : (0 .. BufferSize) \cup Bodies, of : 0 .. BufferSize]

(* What is written at once: words of the innermost scope. *)
Block(words) ==
  /\ words \in Seq(WordType) /\ Len(words) > 0
  /\ \A i \in 1 .. Len(words) : words[i].of = Home

(* The types of ForgeTypeOK, taken apart. *)
LEMMA TypeFacts ==
  ASSUME ForgeTypeOK
  PROVE  /\ BufferSize \in Nat /\ Bodies \subseteq Nat \ {0} /\ MaxScopes \in Nat
         /\ buffer \in Seq(WordType) /\ Len(buffer) \in Nat /\ Len(buffer) <= BufferSize
         /\ DOMAIN buffer = 1 .. Len(buffer)
         /\ stack \in Seq(1 .. Len(buffer)) /\ Len(stack) \in Nat /\ DOMAIN stack = 1 .. Len(stack)
         /\ Len(scopes) \in Nat /\ DOMAIN scopes = 1 .. Len(scopes)
BY ForgeAssumption DEF ForgeTypeOK, WordType

(* The fields of a word. *)
LEMMA WordFacts ==
  ASSUME NEW w \in WordType, BufferSize \in Nat, Bodies \subseteq Nat \ {0}
  PROVE  w.kind \in Kinds /\ w.size \in Nat /\ w.of \in Nat /\ w.of <= BufferSize
<1>1. /\ w.kind \in Kinds /\ w.of \in 0 .. BufferSize
      /\ w.size \in (0 .. BufferSize) \cup Bodies
  BY DEF WordType
<1>2. w.size \in 0 .. BufferSize \/ w.size \in Bodies
  BY <1>1
<1>3. CASE w.size \in Bodies
  <2>1. \A n \in Bodies : n \in Nat
    OBVIOUS
  <2>2. w.size \in Nat
    BY <1>3, <2>1
  <2> QED  BY <1>1, <2>2
<1>4. CASE w.size \in 0 .. BufferSize
  BY <1>1, <1>4
<1> QED  BY <1>2, <1>3, <1>4

(* The fields of a live scope. *)
LEMMA ScopeFacts ==
  ASSUME ForgeTypeOK, NEW i \in 1 .. Len(scopes)
  PROVE  /\ scopes[i] \in [kind : Containers, ref : 0 .. BufferSize, next : {"mark", "value"}]
         /\ scopes[i].kind \in Containers /\ scopes[i].ref \in Nat /\ scopes[i].ref <= BufferSize
         /\ scopes[i].next \in {"mark", "value"}
<1>1. scopes[i] \in [kind : Containers, ref : 0 .. BufferSize, next : {"mark", "value"}]
  BY ElementOfSeq DEF ForgeTypeOK
<1> QED  BY <1>1, ForgeAssumption

(* The frames on the stack, by their places. *)
LEMMA InStack ==
  ASSUME ForgeTypeOK, NEW r
  PROVE  r \in Range(stack) <=> \E i \in 1 .. Len(stack) : stack[i] = r
BY TypeFacts DEF Range

(* The innermost scope is the last one. *)
LEMMA InnermostScope ==
  ASSUME ForgeTypeOK, scopes # <<>>
  PROVE  Len(scopes) \in 1 .. Len(scopes) /\ Last(scopes) = scopes[Len(scopes)]
BY TypeFacts DEF Last, ForgeTypeOK

(* The writer is in no container, or in the one of the last frame pushed. *)
LEMMA HomeFacts ==
  ASSUME SizesInv
  PROVE  /\ Home \in 0 .. Len(buffer)
         /\ Home # 0 => /\ scopes # <<>> /\ Home \in Range(stack)
                        /\ buffer[Home].kind = Last(scopes).kind
<1>1. ForgeTypeOK
  BY DEF SizesInv
<1>2. CASE scopes = <<>>
  BY <1>1, <1>2, TypeFacts DEF Home
<1>3. CASE scopes # <<>> /\ Home = 0
  BY <1>1, <1>3, TypeFacts
<1>4. CASE scopes # <<>> /\ Home # 0
  <2>1. Last(scopes) = scopes[Len(scopes)] /\ Len(scopes) \in 1 .. Len(scopes) /\ Home = Last(scopes).ref
    BY <1>1, <1>4, InnermostScope DEF Home
  <2>2. Last(scopes) \in Range(scopes)
    BY <1>1, <2>1, TypeFacts DEF Range
  <2>3. Home \in Range(stack)
    BY <1>4, <2>1, <2>2 DEF SizesInv, SizesExact
  <2>4. Home \in 1 .. Len(buffer)
    BY <1>1, <2>3, TypeFacts DEF Range
  <2>5. buffer[Home].kind = Last(scopes).kind
    BY <1>4, <2>1, <2>2 DEF SizesInv
  <2> QED  BY <1>1, <1>4, <2>3, <2>4, <2>5, TypeFacts
<1> QED  BY <1>2, <1>3, <1>4

(* A new word has the type of words, and belongs to the innermost scope. *)
LEMMA WordTyped ==
  ASSUME SizesInv, NEW kind \in Kinds, NEW n \in (0 .. BufferSize) \cup Bodies
  PROVE  /\ Word(kind, n) \in WordType
         /\ Word(kind, n).kind = kind /\ Word(kind, n).size = n /\ Word(kind, n).of = Home
<1>1. Home \in 0 .. BufferSize
  BY HomeFacts, TypeFacts DEF SizesInv
<1> QED  BY <1>1 DEF Word, WordType

(* An atom is a block: one header word and as many more as it announces. *)
LEMMA AtomWords ==
  ASSUME SizesInv, NEW kind \in Kinds, NEW n \in (0 .. BufferSize) \cup Bodies
  PROVE  /\ Block(Atom(kind, n)) /\ Len(Atom(kind, n)) = n + 1
         /\ Atom(kind, n)[1] = Word(kind, n)
         /\ \A i \in 2 .. n + 1 : Atom(kind, n)[i] = Word("body", 0)
<1>1. n \in Nat /\ BufferSize \in Nat
  BY TypeFacts DEF SizesInv
<1>2. "body" \in Kinds /\ 0 \in (0 .. BufferSize) \cup Bodies
  BY <1>1 DEF Kinds
<1> DEFINE a == <<Word(kind, n)>>
           b == [i \in 1 .. n |-> Word("body", 0)]
<1>3. a \in Seq(WordType) /\ Len(a) = 1 /\ a[1] = Word(kind, n)
  BY WordTyped
<1>4. b \in Seq(WordType) /\ Len(b) = n
  <2>1. b \in [1 .. n -> WordType]
    BY <1>2, WordTyped
  <2> QED  BY <1>1, <2>1, SeqDef
<1>5. /\ a \o b \in Seq(WordType) /\ Len(a \o b) = 1 + n
      /\ \A i \in 1 .. 1 + n : (a \o b)[i] = IF i <= 1 THEN a[i] ELSE b[i - 1]
  <2> HIDE DEF a, b
  <2>1. /\ a \o b \in Seq(WordType) /\ Len(a \o b) = Len(a) + Len(b)
        /\ \A i \in 1 .. Len(a) + Len(b) : (a \o b)[i] = IF i <= Len(a) THEN a[i] ELSE b[i - Len(a)]
    BY <1>3, <1>4, ConcatProperties
  <2> QED  BY <1>3, <1>4, <2>1
<1>6. Atom(kind, n) = a \o b
  BY DEF Atom
<1>7. Atom(kind, n)[1] = Word(kind, n)
  <2> HIDE DEF a, b
  <2> QED  BY <1>1, <1>3, <1>5, <1>6
<1>8. ASSUME NEW i \in 2 .. n + 1 PROVE Atom(kind, n)[i] = Word("body", 0)
  <2>1. i - 1 \in 1 .. n /\ i \in 1 .. 1 + n /\ ~ (i <= 1)
    BY <1>1
  <2>2. b[i - 1] = Word("body", 0)
    BY <2>1
  <2> HIDE DEF a, b
  <2> QED  BY <1>5, <1>6, <2>1, <2>2
<1>9. ASSUME NEW i \in 1 .. n + 1 PROVE Atom(kind, n)[i].of = Home
  <2>1. i = 1 \/ i \in 2 .. n + 1
    BY <1>1
  <2> QED  BY <1>2, <1>7, <1>8, <2>1, WordTyped
<1> HIDE DEF a, b
<1>10. Atom(kind, n) \in Seq(WordType) /\ Len(Atom(kind, n)) = n + 1 /\ n + 1 > 0
  BY <1>1, <1>5, <1>6
<1> QED  BY <1>7, <1>8, <1>9, <1>10 DEF Block
-----------------------------------------------------------------------------
(* A frame on the stack is the header of a container, within the buffer. *)
LEMMA OnTheStack ==
  ASSUME SizesInv, NEW r \in Range(stack)
  PROVE  /\ r \in 1 .. Len(buffer) /\ buffer[r].kind \in Containers
         /\ buffer[r].size \in Nat /\ r + 1 + buffer[r].size = Len(buffer) + 1
<1>1. ForgeTypeOK /\ r \in Headers /\ EndOf(r) = Len(buffer) + 1
  BY DEF SizesInv, SizesExact
<1>2. r \in 1 .. Len(buffer) /\ buffer[r].kind \in Containers
  BY <1>1, TypeFacts DEF Headers
<1>3. buffer[r].size \in Nat
  <2>1. buffer[r] \in WordType
    BY <1>1, <1>2, TypeFacts, ElementOfSeq
  <2> QED  BY <1>1, <2>1, TypeFacts, WordFacts
<1> QED  BY <1>1, <1>2, <1>3 DEF EndOf

(* lv2_atom_forge_raw(): what is written is behind what there was, and the *)
(* open containers reach to its end.                                       *)
LEMMA Grown ==
  ASSUME SizesInv, NEW words, Block(words), HasRoom(Len(words)), buffer' = Written(words)
  PROVE  /\ Len(words) \in Nat \ {0}
         /\ buffer' \in Seq(WordType)
         /\ Len(buffer') = Len(buffer) + Len(words) /\ Len(buffer') <= BufferSize
         /\ \A i \in 1 .. Len(buffer) :
              /\ buffer'[i].kind = buffer[i].kind /\ buffer'[i].of = buffer[i].of
              /\ buffer'[i].size = IF i \in Range(stack) THEN buffer[i].size + Len(words) ELSE buffer[i].size
         /\ \A i \in 1 .. Len(words) : buffer'[Len(buffer) + i] = words[i]
         /\ \A r \in Range(stack) : r + 1 + buffer'[r].size = Len(buffer') + 1
<1> DEFINE k == Len(words)
           n == Len(buffer)
           old == [i \in 1 .. n |-> IF i \in Range(stack)
                                    THEN [buffer[i] EXCEPT !.size = @ + k] ELSE buffer[i]]
<1>1. /\ ForgeTypeOK /\ n \in Nat /\ buffer \in Seq(WordType) /\ BufferSize \in Nat
      /\ Bodies \subseteq Nat \ {0} /\ n <= BufferSize
  BY TypeFacts DEF SizesInv
<1>2. k \in Nat \ {0} /\ words \in Seq(WordType) /\ n + k <= BufferSize
  BY DEF Block, HasRoom
<1>3. ASSUME NEW i \in 1 .. n
      PROVE  /\ old[i] \in WordType
             /\ old[i].kind = buffer[i].kind /\ old[i].of = buffer[i].of
             /\ old[i].size = IF i \in Range(stack) THEN buffer[i].size + k ELSE buffer[i].size
  <2>1. buffer[i] \in WordType
    BY <1>1, ElementOfSeq
  <2>2. CASE i \notin Range(stack)
    BY <2>1, <2>2
  <2>3. CASE i \in Range(stack)
    <3>1. buffer[i].size \in Nat /\ i + 1 + buffer[i].size = n + 1
      BY <2>3, OnTheStack
    <3>2. buffer[i].size + k \in 0 .. BufferSize
      BY <1>1, <1>2, <3>1
    <3>3. old[i] = [buffer[i] EXCEPT !.size = buffer[i].size + k]
      BY <2>3
    <3> HIDE DEF k, n, old
    <3> QED  BY <2>1, <2>3, <3>2, <3>3 DEF WordType
  <2> QED  BY <2>2, <2>3
<1>4. old \in Seq(WordType) /\ Len(old) = n
  <2>1. old \in [1 .. n -> WordType]
    BY <1>3
  <2> QED  BY <1>1, <2>1, SeqDef
<1>5. buffer' = old \o words
  BY DEF Written
<1> HIDE DEF old
<1>6. /\ buffer' \in Seq(WordType) /\ Len(buffer') = n + k
      /\ \A i \in 1 .. n + k : buffer'[i] = IF i <= n THEN old[i] ELSE words[i - n]
  <2> HIDE DEF n
  <2>1. /\ old \o words \in Seq(WordType) /\ Len(old \o words) = Len(old) + Len(words)
        /\ \A i \in 1 .. Len(old) + Len(words) :
             (old \o words)[i] = IF i <= Len(old) THEN old[i] ELSE words[i - Len(old)]
    BY <1>2, <1>4, ConcatProperties
  <2> QED  BY <1>4, <1>5, <2>1
<1> HIDE DEF n, k
<1>7. ASSUME NEW i \in 1 .. n PROVE buffer'[i] = old[i]
  <2>1. i \in 1 .. n + k /\ i <= n
    BY <1>1, <1>2
  <2> QED  BY <1>6, <2>1
<1>8. ASSUME NEW i \in 1 .. k PROVE buffer'[n + i] = words[i]
  <2> DEFINE j == n + i
  <2>2. j \in 1 .. n + k /\ ~ (j <= n) /\ j - n = i
    BY <1>1, <1>2
  <2> HIDE DEF j
  <2>1. buffer'[j] = words[i]
    BY <1>6, <2>2
  <2> QED  BY <2>1 DEF j
<1>9. ASSUME NEW r \in Range(stack) PROVE r + 1 + buffer'[r].size = n + k + 1
  <2>1. r \in 1 .. n /\ buffer[r].size \in Nat /\ r + 1 + buffer[r].size = n + 1
    BY OnTheStack DEF n
  <2>2. buffer'[r].size = buffer[r].size + k
    BY <1>3, <1>7, <2>1
  <2>3. n \in Nat /\ k \in Nat /\ r \in Nat
    BY <1>1, <1>2, <2>1
  <2> QED  BY <2>1, <2>2, <2>3
<1>10. \A i \in 1 .. n :
              /\ buffer'[i].kind = buffer[i].kind /\ buffer'[i].of = buffer[i].of
              /\ buffer'[i].size = IF i \in Range(stack) THEN buffer[i].size + k ELSE buffer[i].size
  BY <1>3, <1>7
<1> QED  BY <1>2, <1>6, <1>8, <1>9, <1>10 DEF n, k

(* Turn() changes only whose turn it is in the innermost scope. *)
LEMMA Turned ==
  ASSUME ForgeTypeOK, NEW next \in {"mark", "value"}
  PROVE  /\ Turn(next) \in Seq([kind : Containers, ref : 0 .. BufferSize, next : {"mark", "value"}])
         /\ Len(Turn(next)) = Len(scopes)
         /\ \A i \in 1 .. Len(scopes) :
              /\ Turn(next)[i].kind = scopes[i].kind /\ Turn(next)[i].ref = scopes[i].ref
              /\ Turn(next)[i].next = IF i = Len(scopes) THEN next ELSE scopes[i].next
         /\ {s.ref : s \in Range(Turn(next))} = {s.ref : s \in Range(scopes)}
<1> DEFINE T == [kind : Containers, ref : 0 .. BufferSize, next : {"mark", "value"}]
<1>1. Len(scopes) \in Nat /\ DOMAIN scopes = 1 .. Len(scopes)
  BY TypeFacts
<1>2. Turn(next) = [i \in 1 .. Len(scopes) |->
                      IF i = Len(scopes) THEN [scopes[i] EXCEPT !.next = next] ELSE scopes[i]]
  BY <1>1 DEF Turn
<1>3. ASSUME NEW i \in 1 .. Len(scopes)
      PROVE  /\ Turn(next)[i] \in T
             /\ Turn(next)[i].kind = scopes[i].kind /\ Turn(next)[i].ref = scopes[i].ref
             /\ Turn(next)[i].next = IF i = Len(scopes) THEN next ELSE scopes[i].next
  <2>1. scopes[i] \in T
    BY ScopeFacts
  <2>2. CASE i # Len(scopes)
    BY <1>2, <2>1, <2>2
  <2>3. CASE i = Len(scopes)
    <3>1. Turn(next)[i] = [scopes[i] EXCEPT !.next = next]
      BY <1>2, <2>3
    <3> QED  BY <2>1, <2>3, <3>1
  <2> QED  BY <2>2, <2>3
<1>4. Turn(next) \in Seq(T) /\ Len(Turn(next)) = Len(scopes) /\ DOMAIN Turn(next) = 1 .. Len(scopes)
  <2>1. Turn(next) \in [1 .. Len(scopes) -> T]
    <3> HIDE DEF T
    <3> QED  BY <1>2, <1>3
  <2> HIDE DEF T
  <2> QED  BY <1>1, <2>1, SeqDef
<1>5. {s.ref : s \in Range(Turn(next))} = {s.ref : s \in Range(scopes)}
  <2> DEFINE q == Turn(next)
  <2>1. Range(q) = {q[i] : i \in 1 .. Len(scopes)} /\ Range(scopes) = {scopes[i] : i \in 1 .. Len(scopes)}
    BY <1>1, <1>4 DEF Range
  <2>2. \A i \in 1 .. Len(scopes) : q[i].ref = scopes[i].ref
    BY <1>3
  <2> HIDE DEF q
  <2>3. \A x : x \in {s.ref : s \in Range(q)} <=> \E i \in 1 .. Len(scopes) : x = q[i].ref
    BY <2>1
  <2>4. \A x : x \in {s.ref : s \in Range(scopes)} <=> \E i \in 1 .. Len(scopes) : x = scopes[i].ref
    BY <2>1
  <2>5. {s.ref : s \in Range(q)} = {s.ref : s \in Range(scopes)}
    <3> DEFINE A == {s.ref : s \in Range(q)}
               B == {s.ref : s \in Range(scopes)}
    <3>1. ASSUME NEW x PROVE x \in A <=> x \in B
      <4>1. x \in A <=> \E i \in 1 .. Len(scopes) : x = q[i].ref
        BY <2>3
      <4>2. x \in B <=> \E i \in 1 .. Len(scopes) : x = scopes[i].ref
        BY <2>4
      <4> HIDE DEF A, B
      <4> QED  BY <2>2, <4>1, <4>2
    <3> HIDE DEF A, B
    <3>2. A = B
      BY <3>1
    <3> QED  BY <3>2 DEF A, B
  <2> QED  BY <2>5 DEF q
<1> QED  BY <1>3, <1>4, <1>5
-----------------------------------------------------------------------------
(* What is left of a sequence when the last element is popped. *)
LEMMA FrontFacts ==
  ASSUME NEW S, NEW q \in Seq(S), q # <<>>
  PROVE  /\ Len(q) \in Nat \ {0} /\ Last(q) = q[Len(q)] /\ Last(q) \in S
         /\ Front(q) \in Seq(S) /\ Len(Front(q)) = Len(q) - 1
         /\ \A i \in 1 .. Len(q) - 1 : Front(q)[i] = q[i]
<1>1. Len(q) \in Nat \ {0}
  BY EmptySeq
<1>3. Front(q) = SubSeq(q, 1, Len(q) - 1)
  BY DEF Front
<1>4. /\ Front(q) \in Seq(S) /\ Len(Front(q)) = Len(q) - 1
      /\ \A i \in 1 .. Len(q) - 1 : Front(q)[i] = q[i]
  <2>1. 1 \in Int /\ Len(q) - 1 \in Int /\ \A i \in 1 .. Len(q) - 1 : q[i] \in S
    BY <1>1
  <2> DEFINE m == Len(q) - 1
  <2>2. /\ SubSeq(q, 1, m) \in Seq(S) /\ Len(SubSeq(q, 1, m)) = IF 1 <= m THEN m - 1 + 1 ELSE 0
        /\ \A i \in 1 .. m - 1 + 1 : SubSeq(q, 1, m)[i] = q[1 + i - 1]
    BY <2>1, SubSeqProperties
  <2>3. m \in Nat
    BY <1>1
  <2> HIDE DEF m
  <2>4. /\ SubSeq(q, 1, m) \in Seq(S) /\ Len(SubSeq(q, 1, m)) = m
        /\ \A i \in 1 .. m : SubSeq(q, 1, m)[i] = q[i]
    BY <2>2, <2>3
  <2> QED  BY <1>3, <2>4 DEF m
<1>5. Last(q) = q[Len(q)] /\ Last(q) \in S
  BY <1>1, ElementOfSeq DEF Last
<1> QED  BY <1>1, <1>4, <1>5

(* What Append() adds to the range of a sequence. *)
LEMMA RangeAppended ==
  ASSUME NEW S, NEW q \in Seq(S), NEW x \in S
  PROVE  Range(Append(q, x)) = Range(q) \cup {x}
<1> DEFINE a == Append(q, x)
<1>1. /\ Len(q) \in Nat /\ DOMAIN q = 1 .. Len(q) /\ a \in Seq(S)
      /\ Len(a) = Len(q) + 1 /\ \A i \in 1 .. Len(q) : a[i] = q[i]
      /\ a[Len(q) + 1] = x
  BY AppendProperties
<1>2. DOMAIN a = 1 .. Len(q) + 1
  BY <1>1
<1> HIDE DEF a
<1>3. ASSUME NEW y PROVE y \in Range(a) <=> y \in Range(q) \cup {x}
  <2>1. ASSUME NEW i \in DOMAIN a, a[i] = y PROVE y \in Range(q) \cup {x}
    <3>1. i \in 1 .. Len(q) \/ i = Len(q) + 1
      BY <1>1, <1>2, <2>1
    <3> QED  BY <1>1, <2>1, <3>1 DEF Range
  <2>2. ASSUME NEW i \in DOMAIN q, q[i] = y PROVE y \in Range(a)
    <3>1. i \in DOMAIN a /\ a[i] = y
      BY <1>1, <1>2, <2>2
    <3> QED  BY <3>1 DEF Range
  <2>3. x \in Range(a)
    <3>1. Len(q) + 1 \in DOMAIN a
      BY <1>1, <1>2
    <3> QED  BY <1>1, <3>1 DEF Range
  <2> QED  BY <2>1, <2>2, <2>3 DEF Range
<1> QED  BY <1>3 DEF a

(* A sequence of numbers up to m is one of numbers up to any larger n. *)
LEMMA Wider ==
  ASSUME NEW m \in Nat, NEW n \in Nat, m <= n, NEW q \in Seq(1 .. m)
  PROVE  q \in Seq(1 .. n)
<1>1. q \in [1 .. Len(q) -> 1 .. m] /\ Len(q) \in Nat
  OBVIOUS
<1>2. q \in [1 .. Len(q) -> 1 .. n]
  BY <1>1
<1> QED  BY <1>1, <1>2, SeqDef

(* The refs of scopes, in words of the stack. *)
LEMMA RefFacts ==
  ASSUME SizesInv, NEW i \in 1 .. Len(scopes)
  PROVE  /\ scopes[i].ref \in 0 .. Len(buffer)
         /\ scopes[i].ref # 0 => /\ scopes[i].ref \in Range(stack)
                                 /\ buffer[scopes[i].ref].kind = scopes[i].kind
<1>1. ForgeTypeOK /\ DOMAIN scopes = 1 .. Len(scopes) /\ Len(buffer) \in Nat
  BY TypeFacts DEF SizesInv
<1>2. scopes[i] \in Range(scopes)
  BY <1>1 DEF Range
<1>3. CASE scopes[i].ref = 0
  BY <1>1, <1>3
<1>4. CASE scopes[i].ref # 0
  <2>1. scopes[i].ref \in Range(stack) /\ buffer[scopes[i].ref].kind = scopes[i].kind
    BY <1>2, <1>4 DEF SizesInv, SizesExact
  <2>2. scopes[i].ref \in 1 .. Len(buffer)
    BY <2>1, OnTheStack
  <2> QED  BY <1>1, <2>1, <2>2
<1> QED  BY <1>3, <1>4

(* Scopes that take turns change nothing the sizes depend on. *)
LEMMA TurnedSizes ==
  ASSUME SizesInv, NEW next \in {"mark", "value"}, NEW q, q = Turn(next)
  PROVE  /\ q \in Seq([kind : Containers, ref : 0 .. BufferSize, next : {"mark", "value"}])
         /\ Len(q) = Len(scopes) /\ DOMAIN q = 1 .. Len(scopes)
         /\ Range(stack) = {s.ref : s \in Range(q)} \ {0}
         /\ \A i, j \in DOMAIN q : i < j /\ q[j].ref # 0 => q[i].ref < q[j].ref
         /\ \A s \in Range(q) : s.ref # 0 => s.ref \in 1 .. Len(buffer) /\ buffer[s.ref].kind = s.kind
<1>1. ForgeTypeOK /\ DOMAIN scopes = 1 .. Len(scopes)
  BY TypeFacts DEF SizesInv
<1>2. /\ q \in Seq([kind : Containers, ref : 0 .. BufferSize, next : {"mark", "value"}])
      /\ Len(q) = Len(scopes) /\ {s.ref : s \in Range(q)} = {s.ref : s \in Range(scopes)}
      /\ \A i \in 1 .. Len(scopes) : q[i].kind = scopes[i].kind /\ q[i].ref = scopes[i].ref
  BY <1>1, Turned
<1>3. DOMAIN q = 1 .. Len(scopes)
  BY <1>2
<1>4. Range(stack) = {s.ref : s \in Range(q)} \ {0}
  BY <1>2 DEF SizesInv, SizesExact
<1>5. ASSUME NEW i \in DOMAIN q, NEW j \in DOMAIN q, i < j, q[j].ref # 0
      PROVE  q[i].ref < q[j].ref
  <2>1. scopes[j].ref # 0 /\ i \in DOMAIN scopes /\ j \in DOMAIN scopes
    BY <1>1, <1>2, <1>3, <1>5
  <2>2. scopes[i].ref < scopes[j].ref
    BY <1>5, <2>1 DEF SizesInv, SizesExact
  <2> QED  BY <1>2, <1>3, <2>2
<1>6. ASSUME NEW s \in Range(q), s.ref # 0
      PROVE  s.ref \in 1 .. Len(buffer) /\ buffer[s.ref].kind = s.kind
  <2>1. PICK i \in 1 .. Len(scopes) : s = q[i]
    BY <1>3 DEF Range
  <2>2. s.ref = scopes[i].ref /\ s.kind = scopes[i].kind
    BY <1>2, <2>1
  <2> QED  BY <1>6, <2>2, RefFacts, OnTheStack
<1> QED  BY <1>2, <1>3, <1>4, <1>5, <1>6

(* Words behind the others that are no container. *)
LEMMA WordsKeepSizes ==
  ASSUME SizesInv, NEW words, Block(words), HasRoom(Len(words)), buffer' = Written(words),
         \A i \in 1 .. Len(words) : words[i].kind \notin Containers,
         stack' = stack, NEW next \in {"mark", "value"}, scopes' = Turn(next), refused' \in BOOLEAN
  PROVE  SizesInv'
<1> DEFINE k == Len(words)
           n == Len(buffer)
<1>1. ForgeTypeOK /\ n \in Nat /\ DOMAIN buffer = 1 .. n /\ stack \in Seq(1 .. n)
  BY TypeFacts DEF SizesInv
<1>2. /\ k \in Nat \ {0}
      /\ buffer' \in Seq(WordType) /\ Len(buffer') = n + k /\ Len(buffer') <= BufferSize
      /\ \A i \in 1 .. n : /\ buffer'[i].kind = buffer[i].kind /\ buffer'[i].of = buffer[i].of
                           /\ i \notin Range(stack) => buffer'[i].size = buffer[i].size
      /\ \A i \in 1 .. k : buffer'[n + i] = words[i]
      /\ \A r \in Range(stack) : r + 1 + buffer'[r].size = n + k + 1
  <2>1. \A i \in 1 .. n : /\ buffer'[i].kind = buffer[i].kind /\ buffer'[i].of = buffer[i].of
                          /\ i \notin Range(stack) => buffer'[i].size = buffer[i].size
    BY Grown
  <2> QED  BY <2>1, Grown
<1> HIDE DEF n, k
<1>3. DOMAIN buffer' = 1 .. n + k /\ 1 .. n \subseteq 1 .. n + k /\ n + k \in Nat /\ n <= n + k
  <2>1. DOMAIN buffer' = 1 .. n + k
    BY <1>2
  <2> QED  BY <1>1, <1>2, <2>1
<1>4. /\ scopes' \in Seq([kind : Containers, ref : 0 .. BufferSize, next : {"mark", "value"}])
      /\ Range(stack) = {s.ref : s \in Range(scopes')} \ {0}
      /\ \A i, j \in DOMAIN scopes' : i < j /\ scopes'[j].ref # 0 => scopes'[i].ref < scopes'[j].ref
      /\ \A s \in Range(scopes') : s.ref # 0 => s.ref \in 1 .. n /\ buffer[s.ref].kind = s.kind
  BY TurnedSizes DEF n
<1>5. ForgeTypeOK'
  <2>1. stack' \in Seq(DOMAIN buffer')
    BY <1>1, <1>3, Wider
  <2> QED  BY <1>2, <1>4, <2>1 DEF ForgeTypeOK, WordType
<1>6. ASSUME NEW i \in 1 .. n + k
      PROVE  i \in 1 .. n \/ \E j \in 1 .. k : i = n + j /\ buffer'[i] = words[j]
  <2>1. CASE i <= n
    BY <1>1, <2>1
  <2>2. CASE ~ (i <= n)
    <3>1. i - n \in 1 .. k /\ i = n + (i - n)
      BY <1>1, <1>2, <2>2
    <3> QED  BY <1>2, <3>1
  <2> QED  BY <2>1, <2>2
<1>7. ASSUME NEW r \in DOMAIN buffer', buffer'[r].kind \in Containers
      PROVE  r \in 1 .. n /\ buffer[r].kind \in Containers
  <2>1. ~ \E j \in 1 .. k : buffer'[r] = words[j]
    BY <1>7 DEF k
  <2>2. r \in 1 .. n
    BY <1>3, <1>6, <2>1
  <2> QED  BY <1>2, <1>7, <2>2
<1>8. SizesExact'
  <2>1. \A r \in Range(stack') : EndOf(r)' = Len(buffer') + 1
    BY <1>2 DEF EndOf
  <2>2. ASSUME NEW r \in Closed' PROVE EndOf(r)' <= Len(buffer') + 1
    <3>1. r \in 1 .. n /\ buffer[r].kind \in Containers /\ r \notin Range(stack)
      BY <1>7 DEF Closed
    <3>2. EndOf(r) <= n + 1
      BY <1>1, <3>1 DEF SizesInv, SizesExact, Closed, n
    <3>3. EndOf(r)' = EndOf(r)
      BY <1>2, <3>1 DEF EndOf
    <3>4. EndOf(r) \in Nat
      <4>1. buffer[r].size \in Nat
        BY <1>1, <3>1, TypeFacts, ElementOfSeq, WordFacts
      <4> QED  BY <3>1, <4>1 DEF EndOf
    <3> QED  BY <1>1, <1>2, <3>2, <3>3, <3>4
  <2>3. Range(stack') = {s.ref : s \in Range(scopes')} \ {0}
    BY <1>4
  <2>4. \A i \in 1 .. Len(stack') - 1 : stack'[i] < stack'[i + 1]
    BY DEF SizesInv, SizesExact
  <2>5. \A i, j \in DOMAIN scopes' : i < j /\ scopes'[j].ref # 0 => scopes'[i].ref < scopes'[j].ref
    BY <1>4
  <2> QED  BY <2>1, <2>2, <2>3, <2>4, <2>5 DEF SizesExact
<1>9. \A i, j \in 1 .. Len(stack') : i < j => stack'[i] < stack'[j]
  BY DEF SizesInv
<1>10. \A r \in Range(stack') : r \in Headers'
  <2>1. ASSUME NEW r \in Range(stack) PROVE r \in Headers'
    <3>1. r \in 1 .. n /\ buffer[r].kind \in Containers
      BY OnTheStack DEF n
    <3>2. r \in 1 .. n + k /\ buffer'[r].kind \in Containers
      BY <1>2, <1>3, <3>1
    <3> QED  BY <1>3, <3>2 DEF Headers
  <2> QED  BY <2>1
<1>11. ASSUME NEW i \in DOMAIN buffer' PROVE buffer'[i].of <= Len(buffer')
  <2>1. CASE i \in 1 .. n
    <3>1. buffer[i].of <= n
      BY <1>1, <2>1 DEF SizesInv, n
    <3>2. buffer[i].of \in Nat
      BY <1>1, <2>1, TypeFacts, ElementOfSeq, WordFacts
    <3> QED  BY <1>1, <1>2, <2>1, <3>1, <3>2
  <2>2. CASE \E j \in 1 .. k : i = n + j /\ buffer'[i] = words[j]
    <3>1. buffer'[i].of = Home
      BY <2>2 DEF Block, k
    <3>2. Home \in 0 .. n
      BY HomeFacts DEF n
    <3> QED  BY <1>1, <1>2, <3>1, <3>2
  <2> QED  BY <1>3, <1>6, <2>1, <2>2
<1>12. ASSUME NEW s \in Range(scopes'), s.ref # 0 PROVE buffer'[s.ref].kind = s.kind
  BY <1>2, <1>4, <1>12
<1> QED  BY <1>5, <1>8, <1>9, <1>10, <1>11, <1>12 DEF SizesInv

(* Nothing was written. *)
LEMMA RefusedKeepsSizes ==
  ASSUME SizesInv, buffer' = buffer, stack' = stack,
         NEW next \in {"mark", "value"}, scopes' = Turn(next), refused' \in BOOLEAN
  PROVE  SizesInv'
<1>1. /\ scopes' \in Seq([kind : Containers, ref : 0 .. BufferSize, next : {"mark", "value"}])
      /\ Range(stack) = {s.ref : s \in Range(scopes')} \ {0}
      /\ \A i, j \in DOMAIN scopes' : i < j /\ scopes'[j].ref # 0 => scopes'[i].ref < scopes'[j].ref
      /\ \A s \in Range(scopes') : s.ref # 0 => s.ref \in 1 .. Len(buffer) /\ buffer[s.ref].kind = s.kind
  BY TurnedSizes
<1>2. ForgeTypeOK'
  BY <1>1 DEF ForgeTypeOK, SizesInv
<1>3. SizesExact'
  BY <1>1 DEF SizesExact, SizesInv, EndOf, Closed
<1>4. /\ \A i, j \in 1 .. Len(stack') : i < j => stack'[i] < stack'[j]
      /\ \A r \in Range(stack') : r \in Headers'
      /\ \A i \in DOMAIN buffer' : buffer'[i].of <= Len(buffer')
  BY DEF SizesInv, Headers
<1> QED  BY <1>1, <1>2, <1>3, <1>4 DEF SizesInv

(* The header of a container, word by word. *)
LEMMA HeaderWords ==
  ASSUME SizesInv, NEW kind \in Containers, HasRoom(2)
  PROVE  /\ Block(Header(kind)) /\ Len(Header(kind)) = 2
         /\ Header(kind)[1].kind = kind /\ Header(kind)[1].size = 1
         /\ Header(kind)[2].kind = "body" /\ Header(kind)[2].size = 0
<1>1. 0 \in (0 .. BufferSize) \cup Bodies /\ 1 \in (0 .. BufferSize) \cup Bodies
  BY TypeFacts DEF SizesInv, HasRoom
<1>2. /\ kind \in Kinds /\ "body" \in Kinds
  BY DEF Kinds
<1>3. /\ Block(Atom(kind, 1)) /\ Len(Atom(kind, 1)) = 1 + 1
      /\ Atom(kind, 1)[1] = Word(kind, 1)
      /\ \A i \in 2 .. 1 + 1 : Atom(kind, 1)[i] = Word("body", 0)
  BY <1>1, <1>2, AtomWords
<1>4. Atom(kind, 1)[2] = Word("body", 0) /\ Len(Atom(kind, 1)) = 2
  BY <1>3
<1> QED  BY <1>1, <1>2, <1>3, <1>4, WordTyped DEF Header

(* A header takes two words. *)
LEMMA HeaderLength == \A kind : Len(Header(kind)) = 2
<1> TAKE kind
<1> DEFINE a == <<Word(kind, 1)>>
           b == [i \in 1 .. 1 |-> Word("body", 0)]
           S == {Word(kind, 1), Word("body", 0)}
<1>1. a \in Seq(S) /\ Len(a) = 1
  OBVIOUS
<1>2. b \in Seq(S) /\ Len(b) = 1
  <2>1. b \in [1 .. 1 -> S]
    OBVIOUS
  <2> HIDE DEF S
  <2> QED  BY <2>1, SeqDef
<1> HIDE DEF a, b, S
<1>3. Len(a \o b) = 2
  BY <1>1, <1>2, ConcatProperties
<1> QED  BY <1>3 DEF Header, Atom, a, b

(* A container that was begun: its frame is pushed. *)
LEMMA OpenKeepsSizes ==
  ASSUME SizesInv, NEW kind \in Containers, HasRoom(2), buffer' = Written(Header(kind)),
         stack' = Append(stack, Len(buffer) + 1),
         scopes' = Append(Turn("mark"), [kind |-> kind, ref |-> Len(buffer) + 1, next |-> "mark"]),
         refused' \in BOOLEAN
  PROVE  SizesInv'
<1> DEFINE n == Len(buffer)
           new == [kind |-> kind, ref |-> n + 1, next |-> "mark"]
           q == Turn("mark")
           S == [kind : Containers, ref : 0 .. BufferSize, next : {"mark", "value"}]
<1>1. ForgeTypeOK /\ n \in Nat /\ DOMAIN buffer = 1 .. n /\ stack \in Seq(1 .. n) /\ BufferSize \in Nat
  BY TypeFacts DEF SizesInv
<1>2. /\ buffer' \in Seq(WordType) /\ Len(buffer') = n + 2 /\ Len(buffer') <= BufferSize
      /\ \A i \in 1 .. n : /\ buffer'[i].kind = buffer[i].kind /\ buffer'[i].of = buffer[i].of
                           /\ i \notin Range(stack) => buffer'[i].size = buffer[i].size
      /\ buffer'[n + 1] = Header(kind)[1] /\ buffer'[n + 2] = Header(kind)[2]
      /\ \A r \in Range(stack) : r + 1 + buffer'[r].size = n + 2 + 1
  <2> DEFINE h == Header(kind)
  <2>1. Block(h) /\ Len(h) = 2 /\ HasRoom(Len(h)) /\ buffer' = Written(h)
    BY HeaderWords
  <2> HIDE DEF h
  <2>2. /\ buffer' \in Seq(WordType) /\ Len(buffer') = n + 2 /\ Len(buffer') <= BufferSize
        /\ \A i \in 1 .. Len(h) : buffer'[n + i] = h[i]
        /\ \A r \in Range(stack) : r + 1 + buffer'[r].size = n + 2 + 1
    <3>1. /\ buffer' \in Seq(WordType) /\ Len(buffer') = n + Len(h) /\ Len(buffer') <= BufferSize
          /\ \A i \in 1 .. Len(h) : buffer'[n + i] = h[i]
      BY <2>1, Grown
    <3>2. \A r \in Range(stack) : r + 1 + buffer'[r].size = Len(buffer') + 1
      BY <2>1, Grown
    <3>3. Len(buffer') = n + 2
      BY <2>1, <3>1
    <3> HIDE DEF n
    <3> QED  BY <3>1, <3>2, <3>3
  <2>3. \A i \in 1 .. n : /\ buffer'[i].kind = buffer[i].kind /\ buffer'[i].of = buffer[i].of
                          /\ i \notin Range(stack) => buffer'[i].size = buffer[i].size
    BY <2>1, Grown
  <2>4. 1 \in 1 .. Len(h) /\ 2 \in 1 .. Len(h)
    BY <2>1
  <2>5. buffer'[n + 1] = h[1] /\ buffer'[n + 2] = h[2]
    BY <2>2, <2>4
  <2> QED  BY <2>2, <2>3, <2>5 DEF h
<1>3. /\ buffer'[n + 1].kind = kind /\ buffer'[n + 1].size = 1 /\ buffer'[n + 1].of = Home
      /\ buffer'[n + 2].kind = "body" /\ buffer'[n + 2].of = Home /\ Home \in 0 .. n
  <2>1. 1 \in 1 .. Len(Header(kind)) /\ 2 \in 1 .. Len(Header(kind))
    BY HeaderWords
  <2> QED  BY <1>2, <2>1, HeaderWords, HomeFacts DEF Block
<1>4. /\ q \in Seq(S) /\ Len(q) = Len(scopes) /\ DOMAIN q = 1 .. Len(q) /\ Len(q) \in Nat
      /\ Range(stack) = {s.ref : s \in Range(q)} \ {0}
      /\ \A i, j \in DOMAIN q : i < j /\ q[j].ref # 0 => q[i].ref < q[j].ref
      /\ \A s \in Range(q) : s.ref # 0 => s.ref \in 1 .. n /\ buffer[s.ref].kind = s.kind
  <2> HIDE DEF S
  <2>1. q = Turn("mark")
    OBVIOUS
  <2> HIDE DEF q
  <2> QED  BY <1>1, <2>1, TurnedSizes, TypeFacts DEF S
<1>5. new \in S /\ new.ref = n + 1 /\ new.kind = kind /\ n + 1 # 0
  BY <1>1, <1>2
<1> HIDE DEF n, q, new, S
<1>6. scopes' = Append(q, new) /\ stack' = Append(stack, n + 1)
  BY DEF n, q, new
<1>7. /\ scopes' \in Seq(S) /\ Len(scopes') = Len(q) + 1 /\ DOMAIN scopes' = 1 .. Len(q) + 1
      /\ \A i \in 1 .. Len(q) : scopes'[i] = q[i]
      /\ scopes'[Len(q) + 1] = new /\ Range(scopes') = Range(q) \cup {new}
  <2>1. /\ scopes' \in Seq(S) /\ Len(scopes') = Len(q) + 1 
        /\ \A i \in 1 .. Len(q) : scopes'[i] = q[i]
        /\ scopes'[Len(q) + 1] = new
    <3>1. q \in Seq(S) /\ new \in S
      BY <1>4, <1>5
    <3>2. /\ Append(q, new) \in Seq(S) /\ Len(Append(q, new)) = Len(q) + 1
          /\ \A i \in 1 .. Len(q) : Append(q, new)[i] = q[i]
          /\ Append(q, new)[Len(q) + 1] = new
      BY <3>1, AppendProperties
    <3> QED  BY <1>6, <3>2
  <2>2. DOMAIN scopes' = 1 .. Len(q) + 1
    BY <2>1
  <2>3. Range(Append(q, new)) = Range(q) \cup {new}
    BY <1>4, <1>5, RangeAppended
  <2> QED  BY <1>6, <2>1, <2>2, <2>3
<1>8. /\ stack' \in Seq(1 .. n + 2) /\ Len(stack') = Len(stack) + 1 /\ Len(stack) \in Nat
      /\ \A i \in 1 .. Len(stack) : stack'[i] = stack[i] /\ stack[i] \in 1 .. n
      /\ stack'[Len(stack) + 1] = n + 1 /\ Range(stack') = Range(stack) \cup {n + 1}
  <2>1. n + 2 \in Nat /\ n <= n + 2 /\ n + 1 \in 1 .. n + 2
    BY <1>1
  <2>2. stack \in Seq(1 .. n + 2)
    BY <1>1, <2>1, Wider
  <2>3. /\ stack' \in Seq(1 .. n + 2) /\ Len(stack') = Len(stack) + 1 /\ Len(stack) \in Nat
        /\ \A i \in 1 .. Len(stack) : stack'[i] = stack[i]
        /\ stack'[Len(stack) + 1] = n + 1
    BY <1>6, <2>1, <2>2, AppendProperties
  <2>4. \A i \in 1 .. Len(stack) : stack[i] \in 1 .. n
    BY <1>1, ElementOfSeq
  <2> QED  BY <1>6, <2>1, <2>2, <2>3, <2>4, RangeAppended
<1>9. DOMAIN buffer' = 1 .. n + 2
  BY <1>2
<1>10. ForgeTypeOK'
  BY <1>2, <1>7, <1>8, <1>9 DEF ForgeTypeOK, WordType, S
<1>11. \A i, j \in 1 .. Len(stack') : i < j => stack'[i] < stack'[j]
  <2>1. ASSUME NEW i \in 1 .. Len(stack) + 1, NEW j \in 1 .. Len(stack) + 1, i < j
        PROVE  stack'[i] < stack'[j]
    <3>1. i \in 1 .. Len(stack) /\ (j \in 1 .. Len(stack) \/ j = Len(stack) + 1)
      BY <1>8, <2>1
    <3>2. CASE j \in 1 .. Len(stack)
      <4>1. stack[i] < stack[j]
        BY <2>1, <3>1, <3>2 DEF SizesInv
      <4> QED  BY <1>8, <3>1, <3>2, <4>1
    <3>3. CASE j = Len(stack) + 1
      <4>1. stack'[i] \in 1 .. n /\ stack'[j] = n + 1
        BY <1>8, <3>1, <3>3
      <4> QED  BY <1>1, <4>1
    <3> QED  BY <3>1, <3>2, <3>3
  <2> QED  BY <1>8, <2>1
<1>12. ASSUME NEW r \in Range(stack') PROVE r + 1 + buffer'[r].size = n + 2 + 1 /\ r \in Headers'
  <2>1. CASE r = n + 1
    <3>1. r + 1 + 1 = n + 2 + 1 /\ r \in 1 .. n + 2
      BY <1>1, <2>1
    <3> QED  BY <1>3, <1>9, <2>1, <3>1 DEF Headers
  <2>2. CASE r \in Range(stack)
    <3>1. r \in 1 .. n /\ buffer[r].kind \in Containers
      BY <2>2, OnTheStack DEF n
    <3>2. r \in 1 .. n + 2 /\ buffer'[r].kind \in Containers
      BY <1>1, <1>2, <3>1
    <3> QED  BY <1>2, <1>9, <2>2, <3>2 DEF Headers
  <2> QED  BY <1>8, <2>1, <2>2
<1>13. SizesExact'
  <2>1. \A r \in Range(stack') : EndOf(r)' = Len(buffer') + 1
    BY <1>2, <1>12 DEF EndOf
  <2>2. ASSUME NEW r \in Closed' PROVE EndOf(r)' <= Len(buffer') + 1
    <3>1. r \in 1 .. n + 2 /\ buffer'[r].kind \in Containers /\ r \notin Range(stack) /\ r # n + 1
      BY <1>8, <1>9 DEF Closed
    <3>2. r # n + 2
      BY <1>3, <3>1 DEF Containers
    <3>3. r \in 1 .. n
      BY <1>1, <3>1, <3>2
    <3>4. buffer[r].kind \in Containers
      BY <1>2, <3>1, <3>3
    <3>5. EndOf(r) <= n + 1
      BY <1>1, <3>1, <3>3, <3>4 DEF SizesInv, SizesExact, Closed, n
    <3>6. EndOf(r)' = EndOf(r)
      BY <1>2, <3>1, <3>3 DEF EndOf
    <3>7. EndOf(r) \in Nat
      <4>1. buffer[r].size \in Nat
        BY <1>1, <3>3, TypeFacts, ElementOfSeq, WordFacts DEF n
      <4> QED  BY <3>1, <4>1 DEF EndOf
    <3> QED  BY <1>1, <1>2, <3>5, <3>6, <3>7
  <2>3. Range(stack') = {s.ref : s \in Range(scopes')} \ {0}
    <3>1. {s.ref : s \in Range(scopes')} = {s.ref : s \in Range(q)} \cup {n + 1}
      BY <1>5, <1>7
    <3> QED  BY <1>4, <1>5, <1>8, <3>1
  <2>4. ASSUME NEW i \in 1 .. Len(stack') - 1 PROVE stack'[i] < stack'[i + 1]
    <3>1. i \in 1 .. Len(stack') /\ i + 1 \in 1 .. Len(stack') /\ i < i + 1
      BY <1>8
    <3> QED  BY <1>11, <3>1
  <2>5. ASSUME NEW i \in DOMAIN scopes', NEW j \in DOMAIN scopes', i < j, scopes'[j].ref # 0
        PROVE  scopes'[i].ref < scopes'[j].ref
    <3>1. i \in 1 .. Len(q) /\ (j \in 1 .. Len(q) \/ j = Len(q) + 1)
      BY <1>4, <1>7, <2>5
    <3>2. CASE j \in 1 .. Len(q)
      BY <1>4, <1>7, <2>5, <3>1, <3>2
    <3>3. CASE j = Len(q) + 1
      <4>1. scopes'[i] = q[i] /\ scopes'[j].ref = n + 1 /\ q[i] \in Range(q)
        BY <1>4, <1>5, <1>7, <3>1, <3>3 DEF Range
      <4>2. scopes'[i].ref = 0 \/ scopes'[i].ref \in 1 .. n
        BY <1>4, <4>1
      <4> QED  BY <1>1, <4>1, <4>2
    <3> QED  BY <3>1, <3>2, <3>3
  <2> QED  BY <2>1, <2>2, <2>3, <2>4, <2>5 DEF SizesExact
<1>14. ASSUME NEW i \in DOMAIN buffer' PROVE buffer'[i].of <= Len(buffer')
  <2>1. CASE i \in 1 .. n
    <3>1. buffer[i].of <= n
      BY <1>1, <2>1 DEF SizesInv, n
    <3>2. buffer[i].of \in Nat
      BY <1>1, <2>1, TypeFacts, ElementOfSeq, WordFacts DEF n
    <3> QED  BY <1>1, <1>2, <2>1, <3>1, <3>2
  <2>2. CASE i = n + 1 \/ i = n + 2
    <3>1. buffer'[i].of = Home
      BY <1>3, <2>2
    <3> QED  BY <1>1, <1>2, <1>3, <3>1
  <2> QED  BY <1>1, <1>9, <2>1, <2>2
<1>15. ASSUME NEW s \in Range(scopes'), s.ref # 0 PROVE buffer'[s.ref].kind = s.kind
  <2>1. CASE s = new
    BY <1>3, <1>5, <2>1
  <2>2. CASE s \in Range(q)
    BY <1>2, <1>4, <1>15, <2>2
  <2> QED  BY <1>7, <2>1, <2>2
<1>16. \A r \in Range(stack') : r \in Headers'
  BY <1>12
<1> QED  BY <1>10, <1>11, <1>13, <1>14, <1>15, <1>16 DEF SizesInv

(* A container whose header was refused: there is no frame for it. *)
LEMMA OpenRefusedKeepsSizes ==
  ASSUME SizesInv, NEW kind \in Containers, buffer' = buffer, stack' = stack,
         scopes' = Append(Turn("mark"), [kind |-> kind, ref |-> 0, next |-> "mark"]),
         refused' \in BOOLEAN
  PROVE  SizesInv'
<1> DEFINE new == [kind |-> kind, ref |-> 0, next |-> "mark"]
           q == Turn("mark")
           S == [kind : Containers, ref : 0 .. BufferSize, next : {"mark", "value"}]
<1>1. /\ q \in Seq(S) /\ Len(q) = Len(scopes) /\ DOMAIN q = 1 .. Len(q) /\ Len(q) \in Nat
      /\ Range(stack) = {s.ref : s \in Range(q)} \ {0}
      /\ \A i, j \in DOMAIN q : i < j /\ q[j].ref # 0 => q[i].ref < q[j].ref
      /\ \A s \in Range(q) : s.ref # 0 => s.ref \in 1 .. Len(buffer) /\ buffer[s.ref].kind = s.kind
  <2> HIDE DEF S
  <2>1. q = Turn("mark") /\ ForgeTypeOK
    BY DEF SizesInv
  <2> HIDE DEF q
  <2> QED  BY <2>1, TurnedSizes, TypeFacts DEF S
<1>2. new \in S /\ new.ref = 0
  BY ForgeAssumption
<1> HIDE DEF q, new, S
<1>3. scopes' = Append(q, new)
  BY DEF q, new
<1>4. /\ scopes' \in Seq(S) /\ Len(scopes') = Len(q) + 1 /\ DOMAIN scopes' = 1 .. Len(q) + 1
      /\ \A i \in 1 .. Len(q) : scopes'[i] = q[i]
      /\ scopes'[Len(q) + 1] = new /\ Range(scopes') = Range(q) \cup {new}
  <2>1. /\ Append(q, new) \in Seq(S) /\ Len(Append(q, new)) = Len(q) + 1
        /\ \A i \in 1 .. Len(q) : Append(q, new)[i] = q[i]
        /\ Append(q, new)[Len(q) + 1] = new
    BY <1>1, <1>2, AppendProperties
  <2>2. Range(Append(q, new)) = Range(q) \cup {new}
    BY <1>1, <1>2, RangeAppended
  <2>3. DOMAIN scopes' = 1 .. Len(q) + 1
    BY <1>3, <2>1
  <2> QED  BY <1>3, <2>1, <2>2, <2>3
<1>5. ForgeTypeOK'
  BY <1>4 DEF ForgeTypeOK, SizesInv, S
<1>6. SizesExact'
  <2>1. Range(stack') = {s.ref : s \in Range(scopes')} \ {0}
    <3>1. {s.ref : s \in Range(scopes')} = {s.ref : s \in Range(q)} \cup {0}
      BY <1>2, <1>4
    <3> QED  BY <1>1, <3>1
  <2>2. ASSUME NEW i \in DOMAIN scopes', NEW j \in DOMAIN scopes', i < j, scopes'[j].ref # 0
        PROVE  scopes'[i].ref < scopes'[j].ref
    <3>1. j # Len(q) + 1
      BY <1>2, <1>4, <2>2
    <3>2. i \in 1 .. Len(q) /\ j \in 1 .. Len(q)
      BY <1>1, <1>4, <2>2, <3>1
    <3> QED  BY <1>1, <1>4, <2>2, <3>2
  <2>3. \A i \in 1 .. Len(stack') - 1 : stack'[i] < stack'[i + 1]
    BY DEF SizesInv, SizesExact
  <2>4. /\ \A r \in Range(stack') : EndOf(r)' = Len(buffer') + 1
        /\ \A r \in Closed' : EndOf(r)' <= Len(buffer') + 1
    BY DEF SizesInv, SizesExact, EndOf, Closed
  <2> QED  BY <2>1, <2>2, <2>3, <2>4 DEF SizesExact
<1>7. /\ \A i, j \in 1 .. Len(stack') : i < j => stack'[i] < stack'[j]
      /\ \A r \in Range(stack') : r \in Headers'
      /\ \A i \in DOMAIN buffer' : buffer'[i].of <= Len(buffer')
  BY DEF SizesInv, Headers
<1>8. ASSUME NEW s \in Range(scopes'), s.ref # 0 PROVE buffer'[s.ref].kind = s.kind
  BY <1>1, <1>2, <1>4, <1>8
<1> QED  BY <1>5, <1>6, <1>7, <1>8 DEF SizesInv

(* The frame that is popped is the one of the scope that is left, because  *)
(* frames and scopes are in the same order.                                *)
LEMMA CloseKeepsSizes ==
  ASSUME SizesInv, CloseFrame
  PROVE  /\ SizesInv'
         /\ Range(stack') \subseteq Range(stack)
         /\ \A s \in Range(stack'), r \in Range(stack) \ Range(stack') : s < r
<1> DEFINE m == Len(scopes)
           n == Len(buffer)
           d == Len(stack)
           S == [kind : Containers, ref : 0 .. BufferSize, next : {"mark", "value"}]
           r0 == Last(scopes).ref
<1>1. /\ ForgeTypeOK /\ scopes # <<>> /\ scopes \in Seq(S) /\ stack \in Seq(1 .. n)
      /\ DOMAIN scopes = 1 .. m /\ m \in Nat /\ n \in Nat /\ d \in Nat /\ DOMAIN stack = 1 .. d
      /\ scopes' = Front(scopes) /\ buffer' = buffer /\ refused' = refused
      /\ stack' = IF r0 # 0 THEN Front(stack) ELSE stack
  BY TypeFacts DEF SizesInv, CloseFrame, ForgeTypeOK
<1> HIDE DEF S, r0
<1>2. /\ m \in Nat \ {0} /\ r0 = scopes[m].ref
      /\ scopes' \in Seq(S) /\ Len(scopes') = m - 1 /\ \A i \in 1 .. m - 1 : scopes'[i] = scopes[i]
  BY <1>1, FrontFacts DEF r0
<1>3. DOMAIN scopes' = 1 .. m - 1
  BY <1>2
<1>4. \A i \in 1 .. m : scopes[i].ref \in 0 .. n
  BY RefFacts
<1>5. r0 # 0 => stack # <<>> /\ Last(stack) = r0 /\ d \in Nat \ {0} /\ stack[d] = r0
  <2> SUFFICES ASSUME r0 # 0 PROVE stack # <<>> /\ Last(stack) = r0 /\ d \in Nat \ {0} /\ stack[d] = r0
    OBVIOUS
  <2>1. m \in 1 .. m
    BY <1>2
  <2>2. PICK i \in 1 .. d : stack[i] = r0
    BY <1>1, <1>2, <2>1, RefFacts, InStack
  <2>3. d \in 1 .. d /\ d \in Nat \ {0} /\ stack # <<>>
    BY <1>1, <2>2
  <2>4. PICK j \in 1 .. m : scopes[j].ref = stack[d]
    <3>1. stack[d] \in {s.ref : s \in Range(scopes)}
      BY <1>1, <2>3 DEF SizesInv, SizesExact, Range
    <3> QED  BY <1>1, <3>1 DEF Range
  <2>5. j = m
    <3> SUFFICES ASSUME j # m PROVE FALSE
      OBVIOUS
    <3>1. scopes[j].ref < scopes[m].ref
      <4>1. j < m /\ scopes[m].ref # 0
        BY <1>2, <2>4
      <4> QED  BY <1>1, <2>1, <4>1 DEF SizesInv, SizesExact
    <3>0. d \in Nat /\ n \in Nat /\ i \in 1 .. d
      BY <1>1, <2>2
    <3>2. stack[d] < stack[i] /\ stack[i] \in Nat /\ stack[d] \in Nat
      <4>1. stack[i] = scopes[m].ref /\ stack[d] = scopes[j].ref
        BY <1>2, <2>2, <2>4
      <4>2. scopes[m].ref \in Nat /\ scopes[j].ref \in Nat
        <5>1. scopes[m].ref \in 0 .. n /\ scopes[j].ref \in 0 .. n
          BY <1>4, <2>1
        <5> HIDE DEF n
        <5> QED  BY <3>0, <5>1
      <4> QED  BY <3>1, <4>1, <4>2
    <3>3. i < d
      <4>1. i # d
        BY <3>2
      <4> HIDE DEF d
      <4> QED  BY <3>0, <4>1
    <3>4. stack[i] < stack[d]
      BY <2>2, <2>3, <3>3 DEF SizesInv
    <3> QED  BY <3>2, <3>4
  <2>6. Last(stack) = stack[d]
    BY <1>1, <2>3, FrontFacts
  <2> QED  BY <1>2, <2>3, <2>4, <2>5, <2>6
<1>6. /\ stack' \in Seq(1 .. n) /\ Len(stack') <= d /\ Len(stack') \in Nat
      /\ \A i \in 1 .. Len(stack') : i \in 1 .. d /\ stack'[i] = stack[i]
      /\ Len(stack') = IF r0 # 0 THEN d - 1 ELSE d
  <2>1. CASE r0 = 0
    BY <1>1, <2>1
  <2>2. CASE r0 # 0
    <3>1. /\ stack' \in Seq(1 .. n) /\ Len(stack') = d - 1
          /\ \A i \in 1 .. d - 1 : stack'[i] = stack[i]
      BY <1>1, <1>5, <2>2, FrontFacts
    <3>2. \A i \in 1 .. d - 1 : i \in 1 .. d
      BY <1>1
    <3> HIDE DEF d, n, m
    <3> QED  BY <1>1, <1>5, <2>2, <3>1, <3>2
  <2> QED  BY <2>1, <2>2
<1>7. Range(stack') = Range(stack) \ {r0}
  <2>1. ASSUME NEW i \in 1 .. Len(stack') PROVE stack'[i] \in Range(stack) /\ stack'[i] # r0
    <3>1. i \in 1 .. d /\ stack'[i] = stack[i] /\ stack[i] \in 1 .. n
      BY <1>1, <1>6, ElementOfSeq
    <3>2. CASE r0 = 0
      BY <1>1, <3>1, <3>2 DEF Range
    <3>3. CASE r0 # 0
      <4>1. i < d /\ d \in 1 .. d
        BY <1>5, <1>6, <3>3
      <4>2. stack[i] < stack[d]
        BY <3>1, <4>1 DEF SizesInv
      <4> QED  BY <1>1, <1>5, <3>1, <3>3, <4>2 DEF Range
    <3> QED  BY <3>2, <3>3
  <2>2. ASSUME NEW i \in 1 .. d, stack[i] # r0 PROVE stack[i] \in Range(stack')
    <3>1. i \in 1 .. Len(stack')
      BY <1>5, <1>6, <2>2
    <3>2. DOMAIN stack' = 1 .. Len(stack')
      BY <1>6
    <3> QED  BY <1>6, <3>1, <3>2 DEF Range
  <2>3. DOMAIN stack' = 1 .. Len(stack')
    BY <1>6
  <2>4. ASSUME NEW x \in Range(stack') PROVE x \in Range(stack) \ {r0}
    <3>1. PICK i \in 1 .. Len(stack') : x = stack'[i]
      BY <2>3 DEF Range
    <3> QED  BY <2>1, <3>1
  <2>5. ASSUME NEW x \in Range(stack) \ {r0} PROVE x \in Range(stack')
    <3>1. PICK i \in 1 .. d : x = stack[i]
      BY <1>1 DEF Range
    <3> QED  BY <2>2, <3>1
  <2> QED  BY <2>4, <2>5
<1>8. ForgeTypeOK'
  <2>1. DOMAIN buffer' = 1 .. n
    BY <1>1, TypeFacts
  <2> QED  BY <1>1, <1>2, <1>6, <2>1 DEF ForgeTypeOK, S
<1>9. \A i, j \in 1 .. Len(stack') : i < j => stack'[i] < stack'[j]
  BY <1>6 DEF SizesInv
<1>10. SizesExact'
  <2>1. ASSUME NEW i \in 1 .. Len(stack') - 1 PROVE stack'[i] < stack'[i + 1]
    <3>1. i \in 1 .. Len(stack') /\ i + 1 \in 1 .. Len(stack') /\ i < i + 1
      BY <1>6
    <3> QED  BY <1>9, <3>1
  <2>2. ASSUME NEW i \in DOMAIN scopes', NEW j \in DOMAIN scopes', i < j, scopes'[j].ref # 0
        PROVE  scopes'[i].ref < scopes'[j].ref
    <3>1. i \in 1 .. m /\ j \in 1 .. m /\ scopes'[i] = scopes[i] /\ scopes'[j] = scopes[j]
      BY <1>2, <1>3
    <3> QED  BY <1>1, <2>2, <3>1 DEF SizesInv, SizesExact
  <2>3. ASSUME NEW x PROVE x \in Range(stack') <=> x \in {s.ref : s \in Range(scopes')} \ {0}
    <3>1. x \in Range(stack) <=> x # 0 /\ \E i \in 1 .. m : x = scopes[i].ref
      BY <1>1 DEF SizesInv, SizesExact, Range
    <3>2. x \in {s.ref : s \in Range(scopes')} <=> \E i \in 1 .. m - 1 : x = scopes[i].ref
      BY <1>2, <1>3 DEF Range
    <3>3. ASSUME NEW i \in 1 .. m - 1, scopes[i].ref # 0 PROVE scopes[i].ref # r0
      <4>1. i \in 1 .. m /\ m \in 1 .. m /\ i < m
        BY <1>2
      <4>2. CASE r0 # 0
        <5>1. scopes[i].ref < scopes[m].ref
          BY <1>1, <1>2, <4>1, <4>2 DEF SizesInv, SizesExact
        <5> QED  BY <1>2, <1>4, <4>1, <5>1
      <4> QED  BY <3>3, <4>2
    <3>4. \A i \in 1 .. m : i \in 1 .. m - 1 \/ i = m
      BY <1>2
    <3>5. \A i \in 1 .. m - 1 : i \in 1 .. m
      BY <1>2
    <3> QED  BY <1>2, <1>7, <3>1, <3>2, <3>3, <3>4, <3>5
  <2>4. \A r \in Range(stack') : EndOf(r)' = Len(buffer') + 1
    BY <1>1, <1>7 DEF SizesInv, SizesExact, EndOf
  <2>5. ASSUME NEW r \in Closed' PROVE EndOf(r)' <= Len(buffer') + 1
    <3>1. EndOf(r)' = EndOf(r) /\ r \in DOMAIN buffer /\ buffer[r].kind \in Containers
      BY <1>1 DEF EndOf, Closed
    <3>2. CASE r \in Range(stack)
      <4>1. EndOf(r) = n + 1
        BY <3>2 DEF SizesInv, SizesExact
      <4> QED  BY <1>1, <3>1, <4>1
    <3>3. CASE r \notin Range(stack)
      <4>1. EndOf(r) <= n + 1
        BY <3>1, <3>3 DEF SizesInv, SizesExact, Closed
      <4> QED  BY <1>1, <3>1, <4>1
    <3> QED  BY <3>2, <3>3
  <2>6. Range(stack') = {s.ref : s \in Range(scopes')} \ {0}
    BY <2>3
  <2> QED  BY <2>1, <2>2, <2>4, <2>5, <2>6 DEF SizesExact
<1>11. \A r \in Range(stack') : r \in Headers'
  BY <1>1, <1>7 DEF SizesInv, Headers
<1>12. \A i \in DOMAIN buffer' : buffer'[i].of <= Len(buffer')
  BY <1>1 DEF SizesInv
<1>13. ASSUME NEW s \in Range(scopes'), s.ref # 0 PROVE buffer'[s.ref].kind = s.kind
  <2>1. PICK i \in 1 .. m - 1 : s = scopes[i]
    BY <1>2, <1>3 DEF Range
  <2>2. i \in 1 .. m
    BY <1>2
  <2> QED  BY <1>1, <1>13, <2>1, <2>2, RefFacts
<1>14. SizesInv'
  BY <1>8, <1>9, <1>10, <1>11, <1>12, <1>13 DEF SizesInv
<1>15. ASSUME NEW s \in Range(stack'), NEW r \in Range(stack) \ Range(stack') PROVE s < r
  <2>1. r = r0 /\ s \in Range(stack) /\ s # r0 /\ r0 \in Range(stack)
    BY <1>7
  <2>2. r0 # 0
    BY <2>1, OnTheStack
  <2>3. PICK i \in 1 .. d : stack[i] = s
    BY <1>1, <2>1, InStack
  <2>4. d \in 1 .. d /\ stack[d] = r0
    BY <1>5, <2>2
  <2>5. i < d
    <3>1. i # d
      BY <2>1, <2>3, <2>4
    <3> HIDE DEF d
    <3> QED  BY <1>1, <2>3, <3>1
  <2>6. stack[i] < stack[d]
    BY <2>3, <2>4, <2>5 DEF SizesInv
  <2> QED  BY <2>1, <2>3, <2>4, <2>6
<1> QED  BY <1>7, <1>14, <1>15

(* A mark is a block of one word. *)
LEMMA OneWord ==
  ASSUME SizesInv, NEW kind \in Kinds, NEW n \in (0 .. BufferSize) \cup Bodies
  PROVE  /\ Block(<<Word(kind, n)>>) /\ Len(<<Word(kind, n)>>) = 1
         /\ <<Word(kind, n)>>[1].kind = kind /\ <<Word(kind, n)>>[1].size = n
<1> DEFINE w == Word(kind, n)
<1>1. w \in WordType /\ w.kind = kind /\ w.size = n /\ w.of = Home
  BY WordTyped
<1> HIDE DEF w
<1>2. <<w>> \in Seq(WordType) /\ Len(<<w>>) = 1 /\ <<w>>[1] = w
  BY <1>1
<1>3. \A i \in 1 .. Len(<<w>>) : <<w>>[i].of = Home
  BY <1>1, <1>2
<1>4. Block(<<w>>)
  BY <1>2, <1>3 DEF Block
<1> QED  BY <1>1, <1>2, <1>4 DEF w

(* An atom that is written as a value: neither a container nor a mark. *)
LEMMA ValueWords ==
  ASSUME SizesInv, NEW kind \in {"value", "null"}, NEW n \in (0 .. BufferSize) \cup Bodies
  PROVE  /\ Block(Atom(kind, n)) /\ Len(Atom(kind, n)) = n + 1 /\ Atom(kind, n)[1].size = n
         /\ \A i \in 1 .. Len(Atom(kind, n)) :
              /\ Atom(kind, n)[i].kind \in {"value", "null", "body"}
              /\ i # 1 => Atom(kind, n)[i].size = 0
<1>1. kind \in Kinds /\ "body" \in Kinds /\ n \in Nat /\ 0 \in (0 .. BufferSize) \cup Bodies
  BY TypeFacts DEF SizesInv, Kinds
<1>2. /\ Block(Atom(kind, n)) /\ Len(Atom(kind, n)) = n + 1
      /\ Atom(kind, n)[1] = Word(kind, n)
      /\ \A i \in 2 .. n + 1 : Atom(kind, n)[i] = Word("body", 0)
  BY <1>1, AtomWords
<1>3. Word(kind, n).kind = kind /\ Word(kind, n).size = n
  BY <1>1, WordTyped
<1>4. Word("body", 0).kind = "body" /\ Word("body", 0).size = 0
  BY <1>1, WordTyped
<1>5. ASSUME NEW i \in 1 .. n + 1
      PROVE  /\ Atom(kind, n)[i].kind \in {"value", "null", "body"}
             /\ i # 1 => Atom(kind, n)[i].size = 0
  <2>1. i = 1 \/ i \in 2 .. n + 1
    BY <1>1
  <2> QED  BY <1>2, <1>3, <1>4, <2>1
<1> QED  BY <1>2, <1>3, <1>5

(* A step that writes words of no container behind the others. *)
WritesPlain(words) ==
  /\ Block(words) /\ HasRoom(Len(words)) /\ buffer' = Written(words)
  /\ \A i \in 1 .. Len(words) : words[i].kind \notin Containers
  /\ stack' = stack

(* A step that begins a container: its header, and its frame. *)
Begins(kind) ==
  /\ HasRoom(2) /\ buffer' = Written(Header(kind))
  /\ stack' = Append(stack, Len(buffer) + 1)

(* The write functions of the scopes. *)
Writes == WriteMark \/ \E n \in Bodies : WritePrimitive(n) \/ WriteString(n) \/ WriteRaw(n)

(* What they do: they add a block of no container, or nothing. *)
LEMMA WhatIsWritten ==
  ASSUME SizesInv, Writes
  PROVE  /\ (buffer' = buffer /\ stack' = stack) \/ \E words : WritesPlain(words)
         /\ refused' \in BOOLEAN /\ \E next \in {"mark", "value"} : scopes' = Turn(next)
<1> DEFINE Kept == buffer' = buffer /\ stack' = stack
<1>0. /\ 0 \in (0 .. BufferSize) \cup Bodies
      /\ \A n \in Bodies : n \in Nat /\ n \in (0 .. BufferSize) \cup Bodies
  BY TypeFacts DEF SizesInv
<1>1. ASSUME NEW words, Block(words), WriteWords(words), stack' = stack,
             \A i \in 1 .. Len(words) : words[i].kind \notin Containers
      PROVE  Kept \/ \E w : WritesPlain(w)
  <2>1. CASE HasRoom(Len(words))
    <3>1. WritesPlain(words)
      BY <1>1, <2>1 DEF WriteWords, WritesPlain
    <3> QED  BY <3>1
  <2>2. CASE ~ HasRoom(Len(words))
    BY <1>1, <2>2 DEF WriteWords
  <2> QED  BY <2>1, <2>2
<1>2. ASSUME WriteMark PROVE Kept \/ \E w : WritesPlain(w)
  <2>1. PICK kind \in {"key", "time"} : WriteWords(<<Word(kind, 0)>>) /\ stack' = stack
    <3>1. Last(scopes).kind \in Containers
      BY <1>2, InnermostScope, ScopeFacts DEF WriteMark, SizesInv
    <3>2. MarkOf[Last(scopes).kind] \in {"key", "time"}
      BY <3>1 DEF Containers, MarkOf
    <3> QED  BY <1>2, <3>2 DEF WriteMark
  <2>2. kind \in Kinds /\ kind \notin Containers
    BY DEF Kinds, Containers
  <2> DEFINE words == <<Word(kind, 0)>>
  <2>3. Block(words) /\ Len(words) = 1 /\ words[1].kind = kind
    BY <1>0, <2>2, OneWord
  <2>4. WriteWords(words)
    BY <2>1
  <2> HIDE DEF words, Kept
  <2>5. \A i \in 1 .. Len(words) : words[i].kind \notin Containers
    BY <2>2, <2>3
  <2> QED  BY <1>1, <2>1, <2>3, <2>4, <2>5
<1>3. ASSUME NEW n \in Bodies, WritePrimitive(n) PROVE Kept \/ \E w : WritesPlain(w)
  <2> DEFINE words == Atom("value", n)
  <2>1. /\ Block(words)
        /\ \A i \in 1 .. Len(words) : words[i].kind \in {"value", "null", "body"}
    BY <1>0, ValueWords
  <2>2. WriteWords(words) /\ stack' = stack
    BY <1>3 DEF WritePrimitive
  <2> HIDE DEF words, Kept
  <2>3. \A i \in 1 .. Len(words) : words[i].kind \notin Containers
    BY <2>1 DEF Containers
  <2> QED  BY <1>1, <2>1, <2>2, <2>3
<1>4. ASSUME NEW n \in Bodies, WriteString(n) \/ WriteRaw(n) PROVE Kept \/ \E w : WritesPlain(w)
  <2>0. stack' = stack
    BY <1>4 DEF WriteString, WriteRaw
  <2>1. CASE HasRoom(n + 1)
    <3> DEFINE words == Atom("value", n)
    <3>1. /\ Block(words) /\ Len(words) = n + 1
          /\ \A i \in 1 .. Len(words) : words[i].kind \in {"value", "null", "body"}
      BY <1>0, ValueWords
    <3>2. buffer' = Written(words)
      BY <1>4, <2>1 DEF WriteString, WriteRaw
    <3> HIDE DEF words
    <3>3. HasRoom(Len(words)) /\ \A i \in 1 .. Len(words) : words[i].kind \notin Containers
      BY <2>1, <3>1 DEF Containers
    <3>4. WritesPlain(words)
      BY <2>0, <3>1, <3>2, <3>3 DEF WritesPlain
    <3> QED  BY <3>4
  <2>2. CASE ~ HasRoom(n + 1) /\ HasRoom(1) /\ WriteString(n)
    <3> DEFINE words == Atom("null", 0)
    <3>1. /\ Block(words) /\ Len(words) = 0 + 1
          /\ \A i \in 1 .. Len(words) : words[i].kind \in {"value", "null", "body"}
      BY <1>0, ValueWords
    <3>2. buffer' = Written(words)
      BY <2>2 DEF WriteString
    <3> HIDE DEF words
    <3>3. HasRoom(Len(words)) /\ \A i \in 1 .. Len(words) : words[i].kind \notin Containers
      BY <2>2, <3>1 DEF Containers
    <3>4. WritesPlain(words)
      BY <2>0, <3>1, <3>2, <3>3 DEF WritesPlain
    <3> QED  BY <3>4
  <2>3. CASE ~ HasRoom(n + 1) /\ HasRoom(1) /\ WriteRaw(n)
    <3> DEFINE words == <<Word("value", n)>>
    <3>1. "value" \in Kinds /\ "value" \notin Containers
      BY DEF Kinds, Containers
    <3>2. Block(words) /\ Len(words) = 1 /\ words[1].kind = "value"
      BY <1>0, <3>1, OneWord
    <3>3. buffer' = Written(words)
      BY <2>3 DEF WriteRaw
    <3> HIDE DEF words
    <3>4. HasRoom(Len(words)) /\ \A i \in 1 .. Len(words) : words[i].kind \notin Containers
      BY <2>3, <3>1, <3>2
    <3>5. WritesPlain(words)
      BY <2>0, <3>2, <3>3, <3>4 DEF WritesPlain
    <3> QED  BY <3>5
  <2>4. CASE ~ HasRoom(n + 1) /\ ~ HasRoom(1)
    BY <1>4, <2>0, <2>4 DEF WriteString, WriteRaw
  <2> QED  BY <1>4, <2>1, <2>2, <2>3, <2>4
<1>5. Kept \/ \E w : WritesPlain(w)
  <2> HIDE DEF Kept
  <2> QED  BY <1>2, <1>3, <1>4 DEF Writes
<1>6. refused \in BOOLEAN
  BY DEF SizesInv, ForgeTypeOK
<1>7. refused' \in BOOLEAN /\ (scopes' = Turn("value") \/ scopes' = Turn("mark"))
  BY <1>6 DEF Writes, WriteMark, WritePrimitive, WriteString, WriteRaw, WriteWords
<1> QED  BY <1>5, <1>7

(* What a scope that is opened writes: the header of its container, or     *)
(* nothing.                                                                *)
LEMMA WhatIsBegun ==
  ASSUME SizesInv, NEW kind \in Containers, OpenFrame(kind)
  PROVE  /\ refused' \in BOOLEAN
         /\ \/ /\ Begins(kind)
               /\ scopes' = Append(Turn("mark"), [kind |-> kind, ref |-> Len(buffer) + 1, next |-> "mark"])
            \/ /\ buffer' = buffer /\ stack' = stack
               /\ scopes' = Append(Turn("mark"), [kind |-> kind, ref |-> 0, next |-> "mark"])
<1>1. Len(Header(kind)) = 2
  BY HeaderLength
<1>2. refused' \in BOOLEAN
  BY DEF OpenFrame, WriteWords, SizesInv, ForgeTypeOK
<1>3. CASE HasRoom(2)
  <2>1. Len(buffer) + 1 # 0
    BY TypeFacts DEF SizesInv
  <2> QED  BY <1>1, <1>2, <1>3, <2>1 DEF OpenFrame, WriteWords, Begins
<1>4. CASE ~ HasRoom(2)
  BY <1>1, <1>2, <1>4 DEF OpenFrame, WriteWords
<1> QED  BY <1>3, <1>4

(* SizesInv holds initially. *)
LEMMA InitSizes == ForgeInit => SizesInv
<1> SUFFICES ASSUME ForgeInit PROVE SizesInv
  OBVIOUS
<1>1. buffer = <<>> /\ stack = <<>> /\ scopes = <<>> /\ refused = FALSE
  BY DEF ForgeInit
<1>2. /\ DOMAIN buffer = {} /\ Len(buffer) = 0 /\ 1 .. Len(stack) = {}
      /\ Len(stack) - 1 = -1 /\ Range(stack) = {} /\ Range(scopes) = {} /\ DOMAIN scopes = {}
  BY <1>1 DEF Range
<1>3. ForgeTypeOK
  <2>1. \A S : <<>> \in Seq(S)
    BY EmptySeq
  <2>2. refused \in BOOLEAN
    BY <1>1
  <2>3. Len(buffer) <= BufferSize
    BY <1>2, ForgeAssumption
  <2> QED  BY <1>1, <2>1, <2>2, <2>3 DEF ForgeTypeOK
<1>4. SizesExact
  BY <1>2 DEF SizesExact, Closed
<1> QED  BY <1>2, <1>3, <1>4 DEF SizesInv

(* Every step preserves SizesInv: it is inductive. *)
LEMMA NextSizes == SizesInv /\ [ForgeNext]_forgeVars => SizesInv'
<1> SUFFICES ASSUME SizesInv, [ForgeNext]_forgeVars PROVE SizesInv'
  OBVIOUS
<1>1. CASE UNCHANGED forgeVars
  BY <1>1 DEF forgeVars, SizesInv, ForgeTypeOK, SizesExact, Closed, EndOf, Headers
<1>2. CASE SetBuffer
  <2>1. ForgeInit'
    BY <1>2 DEF SetBuffer, ForgeInit
  <2> QED  BY <2>1, InitSizes, PTL
<1>3. CASE CloseFrame
  BY <1>3, CloseKeepsSizes
<1>4. CASE Writes
  <2>1. PICK next \in {"mark", "value"} : scopes' = Turn(next)
    BY <1>4, WhatIsWritten
  <2>2. refused' \in BOOLEAN
    BY <1>4, WhatIsWritten
  <2>3. CASE buffer' = buffer /\ stack' = stack
    BY <2>1, <2>2, <2>3, RefusedKeepsSizes
  <2>4. ASSUME NEW words, WritesPlain(words) PROVE SizesInv'
    <3>1. /\ Block(words) /\ HasRoom(Len(words)) /\ buffer' = Written(words) /\ stack' = stack
          /\ \A i \in 1 .. Len(words) : words[i].kind \notin Containers
      BY <2>4 DEF WritesPlain
    <3> QED  BY <2>1, <2>2, <3>1, WordsKeepSizes
  <2> QED  BY <1>4, <2>3, <2>4, WhatIsWritten
<1>5. ASSUME NEW kind \in Containers, OpenFrame(kind) PROVE SizesInv'
  <2>1. refused' \in BOOLEAN
    BY <1>5, WhatIsBegun
  <2>2. CASE /\ Begins(kind)
             /\ scopes' = Append(Turn("mark"), [kind |-> kind, ref |-> Len(buffer) + 1, next |-> "mark"])
    BY <2>1, <2>2, OpenKeepsSizes DEF Begins
  <2>3. CASE /\ buffer' = buffer /\ stack' = stack
             /\ scopes' = Append(Turn("mark"), [kind |-> kind, ref |-> 0, next |-> "mark"])
    BY <2>1, <2>3, OpenRefusedKeepsSizes
  <2> QED  BY <1>5, <2>2, <2>3, WhatIsBegun
<1> QED  BY <1>1, <1>2, <1>3, <1>4, <1>5 DEF ForgeNext, Writes
-----------------------------------------------------------------------------
(* The marks of a container, by definition. *)
LEMMA MarkFacts ==
  ASSUME SizesInv, NEW r, NEW p \in Marks(r)
  PROVE  p \in 1 .. Len(buffer) /\ buffer[p].kind = MarkOf[buffer[r].kind] /\ buffer[p].of = r
BY TypeFacts DEF Marks, SizesInv

(* Where a container ends, and which kinds its marks have. *)
LEMMA HeaderFacts ==
  ASSUME SizesInv, NEW r \in Headers
  PROVE  /\ r \in 1 .. Len(buffer) /\ buffer[r].kind \in Containers
         /\ buffer[r].size \in Nat /\ EndOf(r) \in Nat /\ EndOf(r) = r + 1 + buffer[r].size
         /\ EndOf(r) <= Len(buffer) + 1
         /\ MarkOf[buffer[r].kind] \in {"key", "time"}
<1>1. ForgeTypeOK /\ Len(buffer) \in Nat
  BY TypeFacts DEF SizesInv
<1>2. r \in 1 .. Len(buffer) /\ buffer[r].kind \in Containers
  BY <1>1, TypeFacts DEF Headers
<1>3. buffer[r].size \in Nat
  <2>1. buffer[r] \in WordType
    BY <1>1, <1>2, TypeFacts, ElementOfSeq
  <2> QED  BY <1>1, <2>1, TypeFacts, WordFacts
<1>4. EndOf(r) \in Nat /\ EndOf(r) = r + 1 + buffer[r].size
  BY <1>2, <1>3 DEF EndOf
<1>5. EndOf(r) <= Len(buffer) + 1
  <2>1. CASE r \in Range(stack)
    <3>1. EndOf(r) = Len(buffer) + 1
      BY <2>1 DEF SizesInv, SizesExact
    <3> QED  BY <1>1, <3>1
  <2>2. CASE r \notin Range(stack)
    BY <1>1, <1>2, <2>2, TypeFacts DEF SizesInv, SizesExact, Closed
  <2> QED  BY <2>1, <2>2
<1>6. MarkOf[buffer[r].kind] \in {"key", "time"}
  BY <1>2 DEF Containers, MarkOf
<1> QED  BY <1>2, <1>3, <1>4, <1>5, <1>6

(* The size and the owner of a word are numbers. *)
LEMMA SizeOf ==
  ASSUME SizesInv, NEW i \in 1 .. Len(buffer)
  PROVE  buffer[i].size \in Nat /\ buffer[i].of \in Nat /\ buffer[i].of <= Len(buffer)
<1>1. ForgeTypeOK
  BY DEF SizesInv
<1>2. buffer[i] \in WordType
  BY <1>1, TypeFacts, ElementOfSeq
<1>3. buffer[i].of <= Len(buffer)
  BY <1>1, TypeFacts DEF SizesInv
<1> QED  BY <1>1, <1>2, <1>3, TypeFacts, WordFacts

(* A mark whose value is an open container is a mark of the one around it. *)
LEMMA OpenMark ==
  ASSUME SizesInv, Nested, NEW r, NEW p \in Marks(r), p + 1 \in Range(stack)
  PROVE  \E j \in 1 .. Len(stack) - 1 : r = stack[j] /\ p + 1 = stack[j + 1]
<1>1. ForgeTypeOK /\ Len(stack) \in Nat
  BY TypeFacts DEF SizesInv
<1>2. p \in Nat /\ p > 0 /\ buffer[p].of = r
  BY <1>1, MarkFacts, TypeFacts
<1>3. PICK i \in 1 .. Len(stack) : stack[i] = p + 1
  BY <1>1, InStack
<1>4. i # 1
  <2> SUFFICES ASSUME i = 1 PROVE FALSE
    OBVIOUS
  <2>1. stack # <<>>
    BY <1>1, <1>3
  <2>2. p + 1 = 1
    BY <1>3, <2>1 DEF Nested
  <2> QED  BY <1>2, <2>2
<1>5. i - 1 \in 1 .. Len(stack) - 1 /\ (i - 1) + 1 = i
  BY <1>1, <1>3, <1>4
<1>6. stack[i] - 1 \in Marks(stack[i - 1])
  BY <1>5 DEF Nested
<1>7. stack[i] - 1 = p
  BY <1>2, <1>3
<1>8. buffer[p].of = stack[i - 1]
  BY <1>6, <1>7, MarkFacts
<1> QED  BY <1>2, <1>3, <1>5, <1>8

(* The steps over values that are not open stay the same. *)
LEMMA NextKept ==
  ASSUME SizesInv, NEW words, Block(words), HasRoom(Len(words)), buffer' = Written(words),
         NEW p \in Nat, p + 1 \in 1 .. Len(buffer), p + 1 \notin Range(stack)
  PROVE  NextMark(p)' = NextMark(p)
<1>1. buffer'[p + 1].size = buffer[p + 1].size
  BY Grown
<1> QED  BY <1>1 DEF NextMark

(* The marks of a container are written by its own scope. *)
LEMMA MarksAfter ==
  ASSUME SizesInv, NEW words, Block(words), HasRoom(Len(words)), buffer' = Written(words),
         NEW r \in Headers, \A i \in 1 .. Len(words) : words[i].kind # MarkOf[buffer[r].kind] \/ Home # r
  PROVE  Marks(r)' = Marks(r) /\ r \in Headers'
<1> DEFINE k == Len(words)
           n == Len(buffer)
<1>1. /\ ForgeTypeOK /\ n \in Nat /\ DOMAIN buffer = 1 .. n /\ k \in Nat \ {0}
      /\ buffer' \in Seq(WordType) /\ Len(buffer') = n + k
      /\ \A i \in 1 .. n : buffer'[i].kind = buffer[i].kind /\ buffer'[i].of = buffer[i].of
      /\ \A i \in 1 .. k : buffer'[n + i] = words[i]
  BY Grown, TypeFacts DEF SizesInv
<1>2. r \in 1 .. n /\ buffer'[r].kind = buffer[r].kind /\ buffer[r].kind \in Containers
  BY <1>1, HeaderFacts
<1>3. \A i \in 1 .. k : words[i].kind # MarkOf[buffer[r].kind] \/ words[i].of # r
  BY DEF Block
<1>4. DOMAIN buffer' = 1 .. n + k
  BY <1>1
<1> HIDE DEF n, k
<1>5. ASSUME NEW i PROVE i \in Marks(r)' <=> i \in Marks(r)
  <2>1. CASE i \in 1 .. n
    <3>1. i \in 1 .. n + k
      BY <1>1, <2>1
    <3> QED  BY <1>1, <1>2, <1>4, <2>1, <3>1 DEF Marks
  <2>2. CASE i \in (1 .. n + k) \ (1 .. n)
    <3> DEFINE j == i - n
    <3>1. j \in 1 .. k /\ i = n + j
      BY <1>1, <2>2
    <3>2. buffer'[i] = words[j]
      BY <1>1, <3>1
    <3>3. i \notin Marks(r)'
      BY <1>2, <1>3, <3>1, <3>2 DEF Marks
    <3> QED  BY <1>1, <2>2, <3>3 DEF Marks
  <2>3. CASE i \notin 1 .. n + k
    <3>1. i \notin 1 .. n
      BY <1>1, <2>3
    <3> QED  BY <1>1, <1>4, <2>3, <3>1 DEF Marks
  <2> QED  BY <2>1, <2>2, <2>3
<1>6. r \in Headers'
  <2>1. r \in 1 .. n + k
    BY <1>1, <1>2
  <2> QED  BY <1>2, <1>4, <2>1 DEF Headers
<1> QED  BY <1>5, <1>6

(* The links of a chain are numbers within the container. *)
LEMMA ChainFacts ==
  ASSUME SizesInv, NEW r \in Headers, NEW M \in SUBSET Marks(r), NEW e \in Nat, e <= Len(buffer) + 1,
         Chain(r, M, e), NEW p \in M
  PROVE  /\ p \in Nat /\ p + 1 \in 1 .. Len(buffer) /\ r + 2 <= p /\ p + 1 < e
         /\ NextMark(p) \in M \cup {e} /\ NextMark(p) \in Nat /\ p + 1 < NextMark(p) /\ NextMark(p) <= e
         /\ NextMark(p) = p + 2 + buffer[p + 1].size
         /\ \A q \in M : p < q => NextMark(p) <= q
<1>1. Len(buffer) \in Nat /\ p \in 1 .. Len(buffer)
  BY MarkFacts, TypeFacts DEF SizesInv
<1>2. r + 2 <= p /\ p + 1 < e /\ NextMark(p) \in M \cup {e} /\ \A q \in M : p < q => NextMark(p) <= q
  BY DEF Chain
<1>3. p + 1 \in 1 .. Len(buffer)
  BY <1>1, <1>2
<1>4. buffer[p + 1].size \in Nat
  BY <1>3, SizeOf
<1>5. NextMark(p) = p + 2 + buffer[p + 1].size /\ NextMark(p) \in Nat /\ p + 1 < NextMark(p)
  BY <1>1, <1>4 DEF NextMark
<1>6. \A q \in M : q \in Nat /\ q + 1 < e
  <2>1. \A q \in M : q \in 1 .. Len(buffer)
    BY MarkFacts
  <2> QED  BY <1>1, <2>1 DEF Chain
<1>7. NextMark(p) <= e
  BY <1>2, <1>5, <1>6
<1> QED  BY <1>1, <1>2, <1>3, <1>5, <1>7

(* The innermost frame is the last; its container is the home of the writer. *)
LEMMA Innermost ==
  ASSUME SizesInv, Nested, stack # <<>>
  PROVE  /\ Len(stack) \in Nat \ {0} /\ Last(stack) = stack[Len(stack)]
         /\ scopes # <<>> /\ Len(scopes) = Len(stack) /\ Last(scopes) = scopes[Len(stack)]
         /\ Home = Last(stack) /\ Last(stack) \in Range(stack) /\ Last(stack) \in Headers
         /\ buffer[Last(stack)].kind = Last(scopes).kind
<1>1. ForgeTypeOK /\ stack \in Seq(1 .. Len(buffer)) /\ Len(stack) \in Nat /\ DOMAIN stack = 1 .. Len(stack)
  BY TypeFacts DEF SizesInv
<1>2. Len(stack) \in Nat \ {0} /\ Last(stack) = stack[Len(stack)]
  BY <1>1, FrontFacts
<1>3. scopes # <<>> /\ Len(scopes) = Len(stack)
  BY <1>2, EmptySeq DEF Nested
<1>4. Last(scopes) = scopes[Len(stack)] /\ Len(stack) \in 1 .. Len(stack)
  BY <1>1, <1>2, <1>3, InnermostScope
<1>5. Last(scopes).ref = stack[Len(stack)]
  BY <1>4 DEF Nested
<1>6. Home = Last(stack)
  BY <1>2, <1>3, <1>5 DEF Home
<1>7. Last(stack) \in Range(stack)
  BY <1>1, <1>2, <1>4 DEF Range
<1>8. Last(stack) \in Headers /\ Home # 0
  BY <1>1, <1>6, <1>7, OnTheStack DEF SizesInv
<1> QED  BY <1>2, <1>3, <1>4, <1>6, <1>7, <1>8, HomeFacts

(* Whatever a scope writes, the containers around it and those that are    *)
(* closed stay chains: the last value of each of the former grows with the *)
(* container itself.                                                       *)
LEMMA OthersKept ==
  ASSUME SizesInv, Nested, NEW words, Block(words), HasRoom(Len(words)), buffer' = Written(words),
         NEW r \in Headers, Chain(r, Marks(r), EndOf(r)), stack # <<>>, r # Last(stack)
  PROVE  Marks(r)' = Marks(r) /\ r \in Headers' /\ Chain(r, Marks(r), EndOf(r))'
<1> DEFINE k == Len(words)
           n == Len(buffer)
           M == Marks(r)
           e == EndOf(r)
<1>1. /\ ForgeTypeOK /\ n \in Nat /\ k \in Nat \ {0} /\ Len(buffer') = n + k
      /\ stack \in Seq(1 .. n) /\ Len(stack) \in Nat
      /\ \A s \in Range(stack) : s + 1 + buffer'[s].size = n + k + 1
  BY Grown, TypeFacts DEF SizesInv
<1>2. Marks(r)' = Marks(r) /\ r \in Headers'
  BY Innermost, MarksAfter
<1>3. r \in 1 .. n /\ e \in Nat /\ e <= n + 1 /\ e = r + 1 + buffer[r].size
  BY HeaderFacts
<1>4. ASSUME NEW p \in M
      PROVE  /\ p \in Nat /\ p + 1 \in 1 .. n /\ r + 2 <= p /\ p + 1 < e
             /\ NextMark(p) \in M \cup {e} /\ NextMark(p) \in Nat /\ p + 1 < NextMark(p) /\ NextMark(p) <= e
             /\ NextMark(p) = p + 2 + buffer[p + 1].size
             /\ \A q \in M : p < q => NextMark(p) <= q
             /\ p + 1 \notin Range(stack) => NextMark(p)' = NextMark(p)
  <2>1. M \in SUBSET Marks(r) /\ e \in Nat /\ e <= n + 1 /\ Chain(r, M, e)
    BY <1>3
  <2> HIDE DEF M, e
  <2>2. /\ p \in Nat /\ p + 1 \in 1 .. n /\ r + 2 <= p /\ p + 1 < e
        /\ NextMark(p) \in M \cup {e} /\ NextMark(p) \in Nat /\ p + 1 < NextMark(p) /\ NextMark(p) <= e
        /\ NextMark(p) = p + 2 + buffer[p + 1].size
        /\ \A q \in M : p < q => NextMark(p) <= q
    BY <2>1, ChainFacts
  <2>3. p + 1 \notin Range(stack) => NextMark(p)' = NextMark(p)
    BY <2>2, NextKept
  <2> QED  BY <2>2, <2>3
<1>5. r + 2 \in M \cup {e}
  BY DEF Chain
<1>6. \A p \in M : p + 1 \in Range(stack) => \E j \in 1 .. Len(stack) - 1 : r = stack[j] /\ p + 1 = stack[j + 1]
  BY OpenMark
<1> HIDE DEF n, k, M, e
<1>7. n \in Nat /\ Len(stack) \in Nat /\ r \in Nat
  BY <1>1, <1>3
<1>8. CASE r \notin Range(stack)
  <2>1. ASSUME NEW p \in M PROVE p + 1 \notin Range(stack)
    <3> SUFFICES ASSUME p + 1 \in Range(stack) PROVE FALSE
      OBVIOUS
    <3>1. PICK j \in 1 .. Len(stack) - 1 : r = stack[j]
      BY <1>6
    <3>2. j \in 1 .. Len(stack)
      BY <1>1
    <3> QED  BY <1>1, <1>8, <3>1, <3>2, InStack
  <2>2. EndOf(r)' = e
    BY <1>3, <1>8, Grown DEF EndOf, n, e
  <2>3. \A p \in M : /\ r + 2 <= p /\ p + 1 < e
                     /\ NextMark(p)' \in M \cup {e}
                     /\ \A q \in M : p < q => NextMark(p)' <= q
    BY <1>4, <2>1
  <2>4. Chain(r, Marks(r), EndOf(r))'
    BY <1>2, <1>5, <2>2, <2>3 DEF Chain, M
  <2> QED  BY <1>2, <2>4
<1>9. CASE r \in Range(stack)
  <2>1. PICK j \in 1 .. Len(stack) : stack[j] = r
    BY <1>1, <1>9, InStack
  <2>2. j \in 1 .. Len(stack) - 1 /\ j + 1 \in 1 .. Len(stack)
    <3>1. j # Len(stack)
      BY <2>1, Innermost
    <3> QED  BY <1>1, <2>1, <3>1
  <2>12. PICK s, t : s = stack[j + 1] /\ t = s - 1
    OBVIOUS
  <2>3. s \in Range(stack) /\ s \in 1 .. n /\ s + 1 + buffer[s].size = n + 1 /\ buffer[s].size \in Nat
    <3>1. s \in Range(stack)
      BY <1>1, <2>2, <2>12, InStack
    <3> QED  BY <3>1, OnTheStack DEF n
  <2>4. t \in M
    BY <2>1, <2>2, <2>12 DEF Nested, M
  <2>5. t \in Nat /\ t + 1 = s
    <3>1. s \in Nat
      BY <1>7, <2>3
    <3>2. t \in Nat
      BY <1>4, <2>4
    <3> QED  BY <2>12, <3>1, <3>2
  <2>6. NextMark(t) = n + 1 /\ NextMark(t)' = n + k + 1
    <3>1. NextMark(t) = t + 2 + buffer[s].size
      BY <1>4, <2>4, <2>5
    <3>2. NextMark(t)' = t + 2 + buffer'[s].size
      BY <2>5 DEF NextMark
    <3>3. s + 1 + buffer'[s].size = n + k + 1 /\ t + 2 = s + 1
      BY <1>1, <2>3, <2>5
    <3> QED  BY <2>3, <3>1, <3>2, <3>3
  <2>7. e = n + 1 /\ EndOf(r)' = n + k + 1
    <3>1. e = n + 1
      BY <1>9 DEF SizesInv, SizesExact, e, n
    <3>2. EndOf(r)' = r + 1 + buffer'[r].size
      BY DEF EndOf
    <3> QED  BY <1>1, <1>9, <3>1, <3>2
  <2>8. ASSUME NEW p \in M, p # t PROVE NextMark(p)' = NextMark(p) /\ NextMark(p) \in M
    <3>1. p + 1 \notin Range(stack)
      <4> SUFFICES ASSUME p + 1 \in Range(stack) PROVE FALSE
        OBVIOUS
      <4>1. PICK i \in 1 .. Len(stack) - 1 : r = stack[i] /\ p + 1 = stack[i + 1]
        BY <1>6
      <4>2. i = j
        <5>1. i \in 1 .. Len(stack) /\ i \in Nat /\ j \in Nat /\ r \in Nat
          BY <1>7
        <5>2. ~ (i < j) /\ ~ (j < i)
          <6>1. i < j => stack[i] < stack[j]
            BY <2>1, <5>1 DEF SizesInv
          <6>2. j < i => stack[j] < stack[i]
            BY <2>1, <5>1 DEF SizesInv
          <6> QED  BY <2>1, <4>1, <5>1, <6>1, <6>2
        <5> QED  BY <5>1, <5>2
      <4>3. p + 1 = s
        BY <2>12, <4>1, <4>2
      <4>4. p \in Nat
        BY <1>4
      <4> QED  BY <2>5, <2>8, <4>3, <4>4
    <3>2. NextMark(p) # e
      <4> SUFFICES ASSUME NextMark(p) = n + 1 PROVE FALSE
        BY <2>7
      <4>1. p \in Nat /\ p + 1 < n + 1 /\ t + 1 < n + 1
        BY <1>4, <2>4, <2>7
      <4>2. ~ (p < t)
        <5>1. p < t => n + 1 <= t
          BY <1>4, <2>4
        <5> QED  BY <1>1, <2>5, <4>1, <5>1
      <4>3. ~ (t < p)
        <5>1. t < p => n + 1 <= p
          BY <1>4, <2>4, <2>6
        <5> QED  BY <1>1, <4>1, <5>1
      <4> QED  BY <2>5, <2>8, <4>1, <4>2, <4>3
    <3> QED  BY <1>4, <3>1, <3>2
  <2>9. r + 2 \in M
    <3>1. r + 2 <= t /\ t + 1 < e
      BY <1>4, <2>4
    <3>2. r + 2 # e
      BY <1>3, <2>5, <3>1
    <3> QED  BY <1>5, <3>2
  <2>10. ASSUME NEW p \in M
         PROVE  /\ r + 2 <= p /\ p + 1 < n + k + 1
                /\ NextMark(p)' \in M \cup {n + k + 1}
                /\ \A q \in M : p < q => NextMark(p)' <= q
    <3>1. r + 2 <= p /\ p + 1 < n + k + 1
      <4>1. p \in Nat /\ r + 2 <= p /\ p + 1 < n + 1
        BY <1>4, <2>7
      <4> QED  BY <1>1, <4>1
    <3>2. CASE p # t
      BY <1>4, <2>8, <3>1, <3>2
    <3>3. CASE p = t
      <4>1. ASSUME NEW q \in M PROVE ~ (p < q)
        <5>1. q \in Nat /\ q + 1 < n + 1
          BY <1>4, <2>7
        <5>2. t < q => n + 1 <= q
          BY <1>4, <2>4, <2>6
        <5> QED  BY <1>1, <3>3, <5>1, <5>2
      <4> QED  BY <2>6, <3>1, <3>3, <4>1
    <3> QED  BY <3>2, <3>3
  <2>11. Chain(r, Marks(r), EndOf(r))'
    BY <1>2, <2>7, <2>9, <2>10 DEF Chain, M
  <2> QED  BY <1>2, <2>11
<1> QED  BY <1>8, <1>9

(* The innermost container itself is not the value of a mark of its own.   *)
LEMMA LastMarks ==
  ASSUME SizesInv, Nested, stack # <<>>, NEW p \in Marks(Last(stack))
  PROVE  p + 1 \notin Range(stack)
<1> SUFFICES ASSUME p + 1 \in Range(stack) PROVE FALSE
  OBVIOUS
<1>1. PICK j \in 1 .. Len(stack) - 1 : Last(stack) = stack[j]
  BY OpenMark
<1>2. Len(stack) \in Nat \ {0} /\ Last(stack) = stack[Len(stack)] /\ Last(stack) \in Headers
  BY Innermost
<1>3. j \in 1 .. Len(stack) /\ Len(stack) \in 1 .. Len(stack) /\ j < Len(stack)
  BY <1>2
<1>4. stack[j] < stack[Len(stack)]
  BY <1>3 DEF SizesInv
<1>5. Last(stack) \in Nat
  BY <1>2, HeaderFacts
<1> QED  BY <1>1, <1>2, <1>4, <1>5

(* A value completes the last mark of the innermost container.             *)
LEMMA ValueKept ==
  ASSUME SizesInv, Nested, stack # <<>>, NEW r, r = Last(stack),
         NEW words, Block(words), HasRoom(Len(words)), buffer' = Written(words),
         words[1].size + 1 = Len(words),
         \A i \in 1 .. Len(words) : words[i].kind \notin {"key", "time"},
         NEW n, n = Len(buffer), n \in Marks(r), Chain(r, Marks(r) \ {n}, n)
  PROVE  Marks(r)' = Marks(r) /\ r \in Headers' /\ Chain(r, Marks(r), EndOf(r))'
<1> DEFINE k == Len(words)
           M == Marks(r)
<1>1. r \in Headers /\ r \in Range(stack) /\ r \in 1 .. n /\ MarkOf[buffer[r].kind] \in {"key", "time"}
  BY Innermost, HeaderFacts
<1>2. /\ n \in Nat /\ k \in Nat \ {0} /\ Len(buffer') = n + k
      /\ buffer'[n + 1] = words[1] /\ r + 1 + buffer'[r].size = n + k + 1
  <2>1. 1 \in 1 .. Len(words)
    BY Grown
  <2>2. buffer'[n + 1] = words[1]
    BY <2>1, Grown
  <2>3. r + 1 + buffer'[r].size = Len(buffer') + 1
    BY <1>1, Grown
  <2> QED  BY <2>2, <2>3, Grown, TypeFacts DEF SizesInv
<1>3. Marks(r)' = Marks(r) /\ r \in Headers'
  BY <1>1, MarksAfter
<1>4. \A p \in M : p + 1 \notin Range(stack) /\ p \in 1 .. n
  BY LastMarks, MarkFacts
<1> HIDE DEF k
<1>5. ASSUME NEW p \in M \ {n}
      PROVE  /\ p \in Nat /\ p + 1 \in 1 .. n /\ r + 2 <= p /\ p + 1 < n
             /\ NextMark(p) \in M /\ NextMark(p)' = NextMark(p) /\ NextMark(p) <= n
             /\ \A q \in M \ {n} : p < q => NextMark(p) <= q
  <2> DEFINE C == M \ {n}
  <2>1. C \in SUBSET Marks(r) /\ n \in Nat /\ n <= n + 1 /\ Chain(r, C, n) /\ p \in C
    BY <1>2
  <2> HIDE DEF C
  <2>2. /\ p \in Nat /\ p + 1 \in 1 .. n /\ r + 2 <= p /\ p + 1 < n
        /\ NextMark(p) \in C \cup {n} /\ NextMark(p) <= n
        /\ \A q \in C : p < q => NextMark(p) <= q
    BY <1>1, <2>1, ChainFacts
  <2>3. NextMark(p)' = NextMark(p)
    BY <1>4, <2>2, NextKept
  <2> QED  BY <2>2, <2>3 DEF C
<1>6. NextMark(n)' = n + k + 1 /\ words[1].size \in Nat
  <2>1. NextMark(n)' = n + 2 + buffer'[n + 1].size
    BY DEF NextMark
  <2>2. words[1] \in WordType
    <3>1. words \in Seq(WordType) /\ 1 \in 1 .. Len(words)
      BY Grown DEF Block
    <3> QED  BY <3>1, ElementOfSeq
  <2>3. words[1].size \in Nat /\ words[1].size + 1 = k
    BY <2>2, TypeFacts, WordFacts DEF SizesInv, k
  <2>4. NextMark(n)' = n + 2 + words[1].size
    BY <1>2, <2>1
  <2>5. n \in Nat /\ k \in Nat
    BY <1>2
  <2> QED  BY <2>3, <2>4, <2>5
<1>7. EndOf(r)' = n + k + 1
  BY <1>2 DEF EndOf
<1>8. r + 2 \in M
  BY DEF Chain
<1>9. r + 2 <= n
  <2>1. r + 2 \in 1 .. n
    BY <1>4, <1>8
  <2> QED  BY <1>2, <2>1
<1> HIDE DEF M
<1>10. ASSUME NEW p \in M
       PROVE  /\ r + 2 <= p /\ p + 1 < n + k + 1
              /\ NextMark(p)' \in M \cup {n + k + 1}
              /\ \A q \in M : p < q => NextMark(p)' <= q
  <2>1. CASE p # n
    <3>1. p \in M \ {n}
      BY <2>1
    <3>2. /\ p \in Nat /\ r + 2 <= p /\ p + 1 < n /\ NextMark(p)' \in M /\ NextMark(p)' <= n
          /\ \A q \in M \ {n} : p < q => NextMark(p)' <= q
      BY <1>5, <3>1
    <3>3. \A q \in M : p < q => NextMark(p)' <= q
      BY <3>2
    <3>4. p + 1 < n + k + 1
      BY <1>2, <3>2
    <3> QED  BY <3>2, <3>3, <3>4
  <2>2. CASE p = n
    <3>1. \A q \in M : ~ (n < q)
      <4>1. \A q \in M : q \in 1 .. n
        BY <1>4
      <4> QED  BY <1>2, <4>1
    <3>2. r + 2 <= n /\ n + 1 < n + k + 1
      BY <1>2, <1>9
    <3> QED  BY <1>6, <2>2, <3>1, <3>2
  <2> QED  BY <2>1, <2>2
<1>11. Chain(r, Marks(r), EndOf(r))'
  BY <1>3, <1>7, <1>8, <1>10 DEF Chain, M
<1> QED  BY <1>3, <1>11

(* A mark is written behind a chain. *)
LEMMA MarkKept ==
  ASSUME SizesInv, Nested, stack # <<>>, NEW r, r = Last(stack),
         NEW words, Block(words), HasRoom(Len(words)), buffer' = Written(words),
         Len(words) = 1, words[1].kind = MarkOf[buffer[r].kind],
         Chain(r, Marks(r), EndOf(r)), NEW n, n = Len(buffer)
  PROVE  /\ Marks(r)' = Marks(r) \cup {n + 1} /\ r \in Headers' /\ Len(buffer') = n + 1
         /\ Chain(r, Marks(r) \ {Len(buffer)}, Len(buffer))'
<1> DEFINE M == Marks(r)
<1>1. /\ r \in Headers /\ r \in Range(stack) /\ r \in 1 .. n /\ MarkOf[buffer[r].kind] \in {"key", "time"}
      /\ Home = r /\ buffer[r].kind \in Containers
  BY Innermost, HeaderFacts
<1>2. /\ n \in Nat /\ Len(buffer') = n + 1 /\ DOMAIN buffer' = 1 .. n + 1 /\ DOMAIN buffer = 1 .. n
      /\ \A i \in 1 .. n : buffer'[i].kind = buffer[i].kind /\ buffer'[i].of = buffer[i].of
      /\ buffer'[n + 1] = words[1] /\ words[1].of = r
  <2>1. 1 \in 1 .. Len(words)
    BY Grown
  <2>2. buffer'[n + 1] = words[1] /\ words[1].of = r
    <3>1. words[1].of = r
      BY <1>1, <2>1 DEF Block
    <3>2. \A i \in 1 .. Len(words) : buffer'[Len(buffer) + i] = words[i]
      BY Grown
    <3> QED  BY <2>1, <3>1, <3>2
  <2>3. n \in Nat /\ Len(buffer') = n + 1 /\ buffer' \in Seq(WordType) /\ DOMAIN buffer = 1 .. n
    BY Grown, TypeFacts DEF SizesInv
  <2>4. DOMAIN buffer' = 1 .. n + 1
    BY <2>3
  <2>5. \A i \in 1 .. n : buffer'[i].kind = buffer[i].kind /\ buffer'[i].of = buffer[i].of
    BY Grown
  <2> QED  BY <2>2, <2>3, <2>4, <2>5
<1>3. buffer'[r].kind = buffer[r].kind
  BY <1>1, <1>2
<1>4. ASSUME NEW i PROVE i \in Marks(r)' <=> i \in Marks(r) \cup {n + 1}
  <2>1. CASE i \in 1 .. n
    <3>1. i \in 1 .. n + 1 /\ i # n + 1
      BY <1>2, <2>1
    <3> QED  BY <1>2, <1>3, <2>1, <3>1 DEF Marks
  <2>2. CASE i = n + 1
    <3>1. i \in 1 .. n + 1
      BY <1>2, <2>2
    <3> QED  BY <1>2, <1>3, <2>2, <3>1 DEF Marks
  <2>3. CASE i \notin 1 .. n + 1
    <3>1. i \notin 1 .. n /\ i # n + 1
      BY <1>2, <2>3
    <3> QED  BY <1>2, <2>3, <3>1 DEF Marks
  <2>4. i \in 1 .. n + 1 => i \in 1 .. n \/ i = n + 1
    BY <1>2
  <2> QED  BY <2>1, <2>2, <2>3, <2>4
<1>5. r \in Headers'
  <2>1. r \in 1 .. n + 1
    BY <1>1, <1>2
  <2> QED  BY <1>1, <1>2, <1>3, <2>1 DEF Headers
<1>6. EndOf(r) = n + 1
  BY <1>1 DEF SizesInv, SizesExact
<1>7. (Marks(r) \ {Len(buffer)})' = M
  <2>1. n + 1 \notin M
    <3>1. n + 1 \in M => n + 1 \in 1 .. n
      BY MarkFacts
    <3> QED  BY <1>2, <3>1
  <2> QED  BY <1>2, <1>4, <2>1
<1>8. ASSUME NEW p \in M
      PROVE  /\ r + 2 <= p /\ p + 1 < n + 1
             /\ NextMark(p)' \in M \cup {n + 1}
             /\ \A q \in M : p < q => NextMark(p)' <= q
  <2> DEFINE e == n + 1
  <2>1. M \in SUBSET Marks(r) /\ e \in Nat /\ e <= Len(buffer) + 1 /\ Chain(r, M, e)
    BY <1>2, <1>6
  <2> HIDE DEF M, e
  <2>2. /\ p \in Nat /\ p + 1 \in 1 .. n /\ r + 2 <= p /\ p + 1 < e
        /\ NextMark(p) \in M \cup {e}
        /\ \A q \in M : p < q => NextMark(p) <= q
    BY <1>1, <2>1, ChainFacts
  <2>3. NextMark(p)' = NextMark(p)
    <3>1. p + 1 \notin Range(stack)
      BY LastMarks DEF M
    <3> QED  BY <2>2, <3>1, NextKept
  <2> QED  BY <2>2, <2>3 DEF e
<1>9. r + 2 \in M \cup {n + 1}
  BY <1>6 DEF Chain
<1> HIDE DEF M
<1>10. Chain(r, Marks(r) \ {Len(buffer)}, Len(buffer))'
  BY <1>2, <1>7, <1>8, <1>9 DEF Chain
<1> QED  BY <1>2, <1>4, <1>5, <1>10

(* Every word after a write was there before it, or is of the block. *)
LEMMA WordsAfter ==
  ASSUME SizesInv, NEW words, Block(words), HasRoom(Len(words)), buffer' = Written(words)
  PROVE  /\ DOMAIN buffer' = 1 .. Len(buffer) + Len(words)
         /\ \A i \in DOMAIN buffer' : i \in 1 .. Len(buffer) \/ \E j \in 1 .. Len(words) : i = Len(buffer) + j /\ buffer'[i] = words[j]
<1> DEFINE k == Len(words)
           n == Len(buffer)
<1>1. /\ n \in Nat /\ k \in Nat \ {0} /\ buffer' \in Seq(WordType) /\ Len(buffer') = n + k
      /\ \A j \in 1 .. k : buffer'[n + j] = words[j]
  BY Grown, TypeFacts DEF SizesInv
<1> HIDE DEF n, k
<1>2. DOMAIN buffer' = 1 .. n + k
  BY <1>1
<1>3. ASSUME NEW i \in 1 .. n + k, ~ (i \in 1 .. n)
      PROVE  \E j \in 1 .. k : i = n + j /\ buffer'[i] = words[j]
  <2>1. i - n \in 1 .. k /\ i = n + (i - n)
    BY <1>1, <1>3
  <2> QED  BY <1>1, <2>1
<1> QED  BY <1>2, <1>3 DEF n, k

(* A block without headers adds no container. *)
LEMMA HeadersAfter ==
  ASSUME SizesInv, NEW words, Block(words), HasRoom(Len(words)), buffer' = Written(words),
         \A i \in 1 .. Len(words) : words[i].kind \notin Containers, NEW r \in Headers'
  PROVE  r \in Headers
<1>1. r \in DOMAIN buffer' /\ buffer'[r].kind \in Containers
  BY DEF Headers
<1>2. r \in 1 .. Len(buffer)
  BY <1>1, WordsAfter
<1>3. buffer'[r].kind = buffer[r].kind
  BY <1>2, Grown
<1> QED  BY <1>1, <1>2, <1>3, TypeFacts DEF Headers, SizesInv

(* While nothing is refused, no size exceeds the buffer. *)
LEMMA SizesFit ==
  ASSUME SizesInv, Nested, NEW words, Block(words), HasRoom(Len(words)), buffer' = Written(words),
         \A i \in 1 .. Len(words) : words[i].size <= BufferSize, NEW i \in DOMAIN buffer'
  PROVE  buffer'[i].size <= BufferSize
<1>1. CASE i \in 1 .. Len(buffer)
  <2>1. CASE i \notin Range(stack)
    <3>1. buffer'[i].size = buffer[i].size
      BY <1>1, <2>1, Grown
    <3>2. i \in DOMAIN buffer
      BY <1>1, TypeFacts DEF SizesInv
    <3> QED  BY <3>1, <3>2 DEF Nested
  <2>2. CASE i \in Range(stack)
    <3>1. i + 1 + buffer'[i].size = Len(buffer') + 1 /\ Len(buffer') <= BufferSize
      BY <2>2, Grown
    <3>2. buffer'[i].size = buffer[i].size + Len(words) /\ Len(words) \in Nat
      BY <1>1, <2>2, Grown
    <3>3. buffer[i].size \in Nat /\ i \in Nat /\ BufferSize \in Nat
      BY <1>1, SizeOf, TypeFacts DEF SizesInv
    <3>4. buffer'[i].size \in Nat
      BY <3>2, <3>3
    <3>5. Len(buffer') = Len(buffer) + Len(words) /\ Len(buffer) \in Nat
      BY Grown, TypeFacts DEF SizesInv
    <3>6. Len(buffer') \in Nat
      BY <3>2, <3>5
    <3> QED  BY <3>1, <3>3, <3>4, <3>6
  <2> QED  BY <2>1, <2>2
<1>2. CASE \E j \in 1 .. Len(words) : i = Len(buffer) + j /\ buffer'[i] = words[j]
  BY <1>2
<1> QED  BY <1>1, <1>2, WordsAfter

(* A write of the innermost scope leaves scopes and frames as they are.    *)
LEMMA NestedKept ==
  ASSUME SizesInv, Nested, NEW words, Block(words), HasRoom(Len(words)), buffer' = Written(words),
         \A i \in 1 .. Len(words) : words[i].size <= BufferSize,
         stack' = stack, stack # <<>>, NEW next \in {"mark", "value"}, scopes' = Turn(next)
  PROVE  Nested'
<1>1. /\ Len(scopes') = Len(scopes)
      /\ \A i \in 1 .. Len(scopes) :
           /\ scopes'[i].ref = scopes[i].ref
           /\ scopes'[i].next = IF i = Len(scopes) THEN next ELSE scopes[i].next
  BY Turned DEF SizesInv
<1>2. Len(stack) = Len(scopes) /\ Len(stack) \in Nat
  BY TypeFacts DEF Nested, SizesInv
<1>3. \A i \in 1 .. Len(stack) : stack[i] = scopes'[i].ref
  BY <1>1, <1>2 DEF Nested
<1>4. ASSUME NEW i \in 1 .. Len(stack) - 1
      PROVE  scopes'[i].next = "mark" /\ stack[i + 1] - 1 \in Marks(stack[i])'
  <2>1. i \in 1 .. Len(scopes) /\ i # Len(scopes) /\ i \in 1 .. Len(stack) /\ i < Len(stack) /\ Len(stack) \in 1 .. Len(stack)
    BY <1>2
  <2>2. scopes'[i].next = "mark"
    BY <1>1, <2>1 DEF Nested
  <2>3. PICK r : r = stack[i]
    OBVIOUS
  <2>4. r \in Headers /\ r # Last(stack)
    <3>1. r \in Range(stack)
      BY <2>1, <2>3, InStack DEF SizesInv
    <3>2. stack[i] < stack[Len(stack)] /\ Last(stack) = stack[Len(stack)]
      BY <2>1, Innermost DEF SizesInv
    <3>3. r \in Headers
      BY <3>1 DEF SizesInv
    <3>4. r \in Nat
      BY <3>3, HeaderFacts
    <3> QED  BY <2>3, <3>2, <3>3, <3>4
  <2>5. Marks(r)' = Marks(r)
    BY <2>4, MarksAfter, Innermost
  <2>6. stack[i + 1] - 1 \in Marks(r)
    BY <2>3 DEF Nested
  <2>7. Marks(stack[i])' = Marks(r)'
    BY <2>3
  <2> QED  BY <2>2, <2>5, <2>6, <2>7
<1>5. stack # <<>> => stack[1] = 1
  BY DEF Nested
<1>6. \A i \in DOMAIN buffer' : buffer'[i].size <= BufferSize
  BY SizesFit
<1> QED  BY <1>1, <1>2, <1>3, <1>4, <1>5, <1>6 DEF Nested

(* After Turn(), the innermost scope has the turn it was given. *)
LEMMA TurnedLast ==
  ASSUME SizesInv, scopes # <<>>, NEW next \in {"mark", "value"}, scopes' = Turn(next)
  PROVE  scopes' # <<>> /\ Last(scopes').next = next
<1>1. /\ Len(scopes) \in Nat /\ Len(scopes) \in 1 .. Len(scopes)
  BY InnermostScope, TypeFacts DEF SizesInv
<1>2. Len(scopes') = Len(scopes) /\ scopes'[Len(scopes)].next = next
  BY <1>1, Turned DEF SizesInv
<1>3. Last(scopes') = scopes'[Len(scopes)]
  BY <1>2 DEF Last
<1>4. scopes' # <<>>
  BY <1>1, <1>2, EmptySeq
<1> QED  BY <1>2, <1>3, <1>4

(* Everything that is written as a value and fits. *)
LEMMA ValueReads ==
  ASSUME SizesInv, Nested, Chained, Waiting,
         NEW words, Block(words), HasRoom(Len(words)), buffer' = Written(words),
         words[1].size + 1 = Len(words),
         \A i \in 1 .. Len(words) : /\ words[i].kind \in {"value", "null", "body"}
                                    /\ words[i].size <= BufferSize,
         stack' = stack, scopes' = Turn("mark")
  PROVE  Nested' /\ Chained'
<1>1. scopes # <<>> /\ stack # <<>>
  <2>1. scopes # <<>>
    BY DEF Waiting
  <2>2. Len(stack) # 0
    BY <2>1, InnermostScope DEF Nested, SizesInv
  <2> QED  BY <2>1, <2>2, EmptySeq
<1>2. Nested'
  BY <1>1, NestedKept
<1>3. ~ Waiting'
  BY <1>1, TurnedLast DEF Waiting
<1>4. \A i \in 1 .. Len(words) : words[i].kind \notin {"key", "time"} /\ words[i].kind \notin Containers
  BY DEF Containers
<1>5. ASSUME NEW r \in Headers' PROVE Chain(r, Marks(r), EndOf(r))'
  <2>1. r \in Headers
    BY <1>4, HeadersAfter
  <2>2. CASE r # Last(stack)
    <3>1. Chain(r, Marks(r), EndOf(r))
      BY <2>1, <2>2 DEF Chained
    <3> QED  BY <1>1, <2>1, <2>2, <3>1, OthersKept
  <2>3. CASE r = Last(stack)
    <3>1. PICK n : n = Len(buffer)
      OBVIOUS
    <3>2. n \in Marks(r) /\ Chain(r, Marks(r) \ {n}, n)
      BY <2>3, <3>1 DEF Chained
    <3> QED  BY <1>1, <1>4, <2>3, <3>1, <3>2, ValueKept
  <2> QED  BY <2>2, <2>3
<1>6. Chained'
  BY <1>3, <1>5 DEF Chained
<1> QED  BY <1>2, <1>6

(* Writing a mark preserves Nested and Chained. *)
LEMMA MarkReads ==
  ASSUME SizesInv, Nested, Chained, ~ Waiting, scopes # <<>>,
         NEW words, Block(words), HasRoom(Len(words)), buffer' = Written(words),
         Len(words) = 1, words[1].kind = MarkOf[Last(scopes).kind], words[1].size = 0,
         stack' = stack, scopes' = Turn("value")
  PROVE  Nested' /\ Chained'
<1>1. stack # <<>>
  <2>1. Len(stack) # 0
    BY InnermostScope DEF Nested, SizesInv
  <2> QED  BY <2>1, EmptySeq
<1>2. /\ BufferSize \in Nat /\ words[1].size <= BufferSize
      /\ buffer[Last(stack)].kind = Last(scopes).kind /\ Last(stack) \in Headers
  BY <1>1, Innermost, ForgeAssumption
<1>3. MarkOf[Last(scopes).kind] \in {"key", "time"}
  BY <1>2, HeaderFacts
<1>4. \A i \in 1 .. Len(words) : words[i].size <= BufferSize /\ words[i].kind \notin Containers
  BY <1>2, <1>3 DEF Containers
<1>5. Nested'
  BY <1>1, <1>4, NestedKept
<1>6. PICK r, n : r = Last(stack) /\ n = Len(buffer)
  OBVIOUS
<1>7. Chain(r, Marks(r), EndOf(r)) /\ r \in Headers
  BY <1>2, <1>6 DEF Chained
<1>8. /\ Marks(r)' = Marks(r) \cup {n + 1} /\ Len(buffer') = n + 1
      /\ Chain(r, Marks(r) \ {Len(buffer)}, Len(buffer))'
  BY <1>1, <1>2, <1>6, <1>7, MarkKept
<1>9. Last(stack') = r
  BY <1>6
<1>10. ASSUME NEW h \in Headers', h # r PROVE Chain(h, Marks(h), EndOf(h))'
  <2>1. h \in Headers
    BY <1>4, HeadersAfter
  <2>2. Chain(h, Marks(h), EndOf(h))
    BY <2>1 DEF Chained
  <2> QED  BY <1>1, <1>6, <1>10, <2>1, <2>2, OthersKept
<1>11. Waiting'
  BY TurnedLast DEF Waiting
<1>12. Len(buffer') \in Marks(Last(stack))'
  <2>1. Marks(Last(stack))' = Marks(r)'
    BY <1>9
  <2> QED  BY <1>8, <2>1
<1>13. Chain(Last(stack), Marks(Last(stack)) \ {Len(buffer)}, Len(buffer))'
  <2>1. Chain(Last(stack), Marks(Last(stack)) \ {Len(buffer)}, Len(buffer))'
        = Chain(r, Marks(r) \ {Len(buffer)}, Len(buffer))'
    BY <1>9
  <2> QED  BY <1>8, <2>1
<1>14. Chained'
  BY <1>9, <1>10, <1>11, <1>12, <1>13 DEF Chained
<1> QED  BY <1>5, <1>14

(* Nested and Chained hold initially. *)
LEMMA InitReads == ForgeInit => Nested /\ Chained
<1> SUFFICES ASSUME ForgeInit PROVE Nested /\ Chained
  OBVIOUS
<1>1. buffer = <<>> /\ stack = <<>> /\ scopes = <<>>
  BY DEF ForgeInit
<1>2. DOMAIN buffer = {} /\ Len(stack) = 0 /\ Len(scopes) = 0 /\ 1 .. Len(stack) = {} /\ 1 .. Len(stack) - 1 = {}
  BY <1>1
<1>3. Nested
  BY <1>1, <1>2 DEF Nested
<1>4. Headers = {} /\ ~ Waiting
  BY <1>1, <1>2 DEF Headers, Waiting
<1> QED  BY <1>3, <1>4 DEF Chained

(* Leaving a scope preserves Nested and Chained. *)
LEMMA CloseReads ==
  ASSUME SizesInv, Nested, Chained, CloseFrame
  PROVE  Nested' /\ Chained'
<1> DEFINE m == Len(scopes)
<1>1. /\ ForgeTypeOK /\ scopes # <<>> /\ m \in Nat /\ Len(stack) = m
      /\ stack \in Seq(1 .. Len(buffer)) /\ Len(buffer) \in Nat
      /\ Last(scopes).next = "mark"
      /\ scopes' = Front(scopes) /\ buffer' = buffer
      /\ stack' = IF Last(scopes).ref # 0 THEN Front(stack) ELSE stack
  BY TypeFacts DEF SizesInv, CloseFrame, MayWrite, Nested
<1>2. /\ m \in Nat \ {0} /\ Len(scopes') = m - 1 /\ \A i \in 1 .. m - 1 : scopes'[i] = scopes[i]
      /\ Last(scopes) = scopes[m]
  <2>1. scopes \in Seq([kind : Containers, ref : 0 .. BufferSize, next : {"mark", "value"}])
    BY <1>1 DEF ForgeTypeOK
  <2> QED  BY <1>1, <2>1, FrontFacts
<1>3. stack # <<>>
  BY <1>1, <1>2, EmptySeq
<1>4. Last(scopes).ref # 0
  <2>1. m \in 1 .. m
    BY <1>2
  <2>2. scopes[m].ref = stack[m]
    BY <1>1, <2>1 DEF Nested
  <2>3. stack[m] \in 1 .. Len(buffer)
    BY <1>1, <2>1, ElementOfSeq
  <2> QED  BY <1>1, <1>2, <2>2, <2>3
<1>5. /\ stack' = Front(stack) /\ Len(stack') = m - 1 /\ \A i \in 1 .. m - 1 : stack'[i] = stack[i]
  BY <1>1, <1>3, <1>4, FrontFacts
<1> HIDE DEF m
<1>6. \A i \in 1 .. m - 1 : i \in 1 .. m
  BY <1>2
<1>7. ASSUME NEW i \in 1 .. Len(stack') - 1
      PROVE  scopes'[i].next = "mark" /\ stack'[i + 1] - 1 \in Marks(stack'[i])
  <2>1. i \in 1 .. m - 1 /\ i + 1 \in 1 .. m - 1 /\ i \in 1 .. Len(stack) - 1
    BY <1>1, <1>2, <1>5
  <2>2. scopes[i].next = "mark" /\ stack[i + 1] - 1 \in Marks(stack[i])
    BY <2>1 DEF Nested
  <2> QED  BY <1>2, <1>5, <2>1, <2>2
<1>8. \A r : Marks(r)' = Marks(r) /\ EndOf(r)' = EndOf(r) /\ NextMark(r)' = NextMark(r)
  BY <1>1 DEF Marks, EndOf, NextMark
<1>9. Nested'
  <2>1. \A i \in 1 .. Len(stack') : stack'[i] = scopes'[i].ref
    BY <1>1, <1>2, <1>5, <1>6 DEF Nested
  <2>2. stack' # <<>> => stack'[1] = 1
    <3> SUFFICES ASSUME stack' # <<>> PROVE stack'[1] = 1
      OBVIOUS
    <3>1. Len(stack') # 0
      <4>1. stack' \in Seq(1 .. Len(buffer))
        BY <1>1, <1>3, <1>5, FrontFacts
      <4> QED  BY <4>1, EmptySeq
    <3>2. 1 \in 1 .. m - 1
      BY <1>2, <1>5, <3>1
    <3>3. stack'[1] = stack[1]
      BY <1>5, <3>2
    <3> QED  BY <1>3, <3>3 DEF Nested
  <2>3. ASSUME NEW i \in 1 .. Len(stack') - 1
        PROVE  scopes'[i].next = "mark" /\ stack'[i + 1] - 1 \in Marks(stack[i])'
    <3>1. PICK r : r = stack'[i]
      OBVIOUS
    <3>2. Marks(stack[i])' = Marks(r)'
      BY <3>1
    <3>3. scopes'[i].next = "mark" /\ stack'[i + 1] - 1 \in Marks(r)
      BY <1>7, <3>1
    <3> QED  BY <1>8, <3>2, <3>3
  <2>4. \A i \in DOMAIN buffer' : buffer'[i].size <= BufferSize
    BY <1>1 DEF Nested
  <2> QED  BY <1>2, <1>5, <2>1, <2>2, <2>3, <2>4 DEF Nested
<1>10. ~ Waiting
  BY <1>1 DEF Waiting
<1>11. ~ Waiting'
  <2> SUFFICES ASSUME scopes' # <<>> PROVE Last(scopes').next # "value"
    BY DEF Waiting
  <2>1. scopes' \in Seq([kind : Containers, ref : 0 .. BufferSize, next : {"mark", "value"}])
    BY <1>1, FrontFacts DEF ForgeTypeOK
  <2>2. Len(scopes') \in Nat \ {0} /\ Last(scopes') = scopes'[Len(scopes')]
    BY <2>1, FrontFacts
  <2>3. m - 1 \in 1 .. m - 1 /\ Len(stack) = m /\ Len(scopes') = m - 1
    BY <1>1, <1>2, <2>2 DEF m
  <2>4. scopes[m - 1].next = "mark"
    BY <2>3 DEF Nested
  <2> QED  BY <1>2, <2>2, <2>3, <2>4
<1>12. ASSUME NEW r \in Headers' PROVE Chain(r, Marks(r), EndOf(r))'
  <2>1. r \in Headers
    BY <1>1 DEF Headers
  <2>2. Chain(r, Marks(r), EndOf(r))
    BY <1>10, <2>1 DEF Chained
  <2> QED  BY <1>8, <2>2 DEF Chain
<1>13. Chained'
  BY <1>11, <1>12 DEF Chained
<1> QED  BY <1>9, <1>13

(* Opening a scope whose header fits preserves Nested and Chained. *)
LEMMA OpenReads ==
  ASSUME SizesInv, Nested, Chained, NEW kind \in Containers, OpenFrame(kind), HasRoom(2)
  PROVE  Nested' /\ Chained'
<1> DEFINE d == Len(stack)
           q == Turn("mark")
           T == [kind : Containers, ref : 0 .. BufferSize, next : {"mark", "value"}]
<1>1. PICK n, words, new :
        n = Len(buffer) /\ words = Header(kind) /\ new = [kind |-> kind, ref |-> n + 1, next |-> "mark"]
  OBVIOUS
<1>2. /\ ForgeTypeOK /\ n \in Nat /\ n + 2 <= BufferSize /\ BufferSize \in Nat
      /\ stack \in Seq(1 .. n) /\ d \in Nat /\ Len(scopes) = d /\ DOMAIN buffer = 1 .. n
  BY <1>1, TypeFacts DEF SizesInv, HasRoom, Nested
<1>3. /\ Block(words) /\ Len(words) = 2 /\ HasRoom(Len(words))
      /\ words[1].kind = kind /\ words[1].size = 1 /\ words[2].kind = "body" /\ words[2].size = 0
  BY <1>1, HeaderWords
<1>4. /\ buffer' = Written(words) /\ stack' = Append(stack, n + 1) /\ scopes' = Append(q, new)
  BY <1>1, <1>2, <1>3 DEF OpenFrame, WriteWords
<1>5. ASSUME NEW i \in 1 .. Len(words)
      PROVE  words[i].kind \notin {"key", "time"} /\ words[i].size <= BufferSize
  <2>1. i = 1 \/ i = 2
    BY <1>3
  <2> QED  BY <1>2, <1>3, <2>1 DEF Containers
<1>6. /\ Len(stack') = d + 1 /\ stack'[d + 1] = n + 1 /\ \A i \in 1 .. d : stack'[i] = stack[i]
  <2>1. n + 1 \in Nat /\ n <= n + 1 /\ n + 1 \in 1 .. n + 1
    BY <1>2
  <2>2. stack \in Seq(1 .. n + 1)
    BY <1>2, <2>1, Wider
  <2> QED  BY <1>4, <2>1, <2>2, AppendProperties
<1>7. /\ Len(q) = d
      /\ \A i \in 1 .. d : q[i].ref = scopes[i].ref /\ q[i].next = IF i = d THEN "mark" ELSE scopes[i].next
      /\ q \in Seq(T)
  BY <1>2, Turned
<1>8. new \in T
  <2>1. n + 1 \in 0 .. BufferSize
    BY <1>2
  <2> QED  BY <1>1, <2>1
<1> HIDE DEF q, T
<1>9. /\ Len(scopes') = d + 1 /\ scopes'[d + 1] = new /\ \A i \in 1 .. d : scopes'[i] = q[i]
  BY <1>4, <1>7, <1>8, AppendProperties
<1>10. \/ d = 0 /\ n = 0 /\ stack = <<>> /\ Headers = {}
       \/ Waiting /\ d # 0 /\ stack # <<>> /\ Last(stack) = stack[d]
  <2>1. CASE scopes = <<>>
    <3>1. d = 0 /\ n = 0
      BY <1>1, <1>2, <2>1 DEF OpenFrame, MayWrite
    <3>2. stack = <<>>
      BY <1>2, <3>1, EmptySeq
    <3>3. Headers = {}
      BY <1>2, <3>1 DEF Headers
    <3> QED  BY <3>1, <3>2, <3>3
  <2>2. CASE scopes # <<>>
    <3>1. Waiting
      BY <2>2 DEF OpenFrame, MayWrite, Waiting
    <3>2. d # 0
      BY <1>2, <2>2, InnermostScope
    <3>3. stack # <<>>
      BY <1>2, <3>2, EmptySeq
    <3> QED  BY <3>1, <3>2, <3>3, Innermost
  <2> QED  BY <2>1, <2>2
<1>11. ASSUME NEW r \in Headers PROVE Marks(r)' = Marks(r)
  <2>1. MarkOf[buffer[r].kind] \in {"key", "time"}
    BY HeaderFacts
  <2> QED  BY <1>3, <1>4, <1>5, <2>1, MarksAfter
<1>12. ASSUME NEW i \in 1 .. Len(stack') - 1
       PROVE  scopes'[i].next = "mark" /\ stack'[i + 1] - 1 \in Marks(stack[i])'
  <2>1. i \in 1 .. d /\ d # 0 /\ i \in 1 .. d + 1
    BY <1>2, <1>6
  <2>2. PICK r : r = stack[i]
    OBVIOUS
  <2>3. r \in Headers
    <3>1. r \in Range(stack)
      BY <1>2, <2>1, <2>2, InStack
    <3> QED  BY <3>1 DEF SizesInv
  <2>4. Marks(stack[i])' = Marks(r)
    <3>1. Marks(stack[i])' = Marks(r)'
      BY <1>6, <2>1, <2>2
    <3> QED  BY <1>11, <2>3, <3>1
  <2>5. CASE i = d
    <3>1. n \in Marks(r)
      BY <1>1, <1>10, <2>1, <2>2, <2>5 DEF Chained
    <3>2. stack'[i + 1] - 1 = n
      BY <1>2, <1>6, <2>5
    <3> QED  BY <1>7, <1>9, <2>1, <2>4, <2>5, <3>1, <3>2
  <2>6. CASE i # d
    <3>1. i \in 1 .. d - 1 /\ i + 1 \in 1 .. d
      BY <1>2, <2>1, <2>6
    <3>2. scopes[i].next = "mark" /\ stack[i + 1] - 1 \in Marks(r)
      BY <2>2, <3>1 DEF Nested
    <3> QED  BY <1>6, <1>7, <1>9, <2>1, <2>4, <2>6, <3>1, <3>2
  <2> QED  BY <2>5, <2>6
<1>13. Nested'
  <2>1. ASSUME NEW i \in 1 .. Len(stack') PROVE stack'[i] = scopes'[i].ref
    <3>1. i \in 1 .. d \/ i = d + 1
      BY <1>2, <1>6
    <3>2. CASE i \in 1 .. d
      <4>1. stack[i] = scopes[i].ref
        BY <3>2 DEF Nested
      <4> QED  BY <1>6, <1>7, <1>9, <3>2, <4>1
    <3>3. CASE i = d + 1
      BY <1>1, <1>6, <1>9, <3>3
    <3> QED  BY <3>1, <3>2, <3>3
  <2>2. stack'[1] = 1
    <3>1. CASE d = 0
      BY <1>6, <1>10, <3>1
    <3>2. CASE d # 0
      <4>1. stack[1] = 1
        BY <1>10, <3>2 DEF Nested
      <4>2. 1 \in 1 .. d
        BY <1>2, <3>2
      <4> QED  BY <1>6, <4>1, <4>2
    <3> QED  BY <3>1, <3>2
  <2>3. \A i \in DOMAIN buffer' : buffer'[i].size <= BufferSize
    BY <1>3, <1>4, <1>5, SizesFit
  <2> QED  BY <1>6, <1>9, <1>12, <2>1, <2>2, <2>3 DEF Nested
<1>14. ~ Waiting'
  <2>1. Last(scopes') = new
    BY <1>9 DEF Last
  <2> QED  BY <1>1, <2>1 DEF Waiting
<1>15. ASSUME NEW r \in Headers' PROVE Chain(r, Marks(r), EndOf(r))'
  <2>1. r \in DOMAIN buffer' /\ buffer'[r].kind \in Containers
    BY DEF Headers
  <2>2. /\ buffer'[n + 1] = words[1] /\ buffer'[n + 2] = words[2] /\ DOMAIN buffer' = 1 .. n + 2
        /\ \A i \in 1 .. n : buffer'[i].kind = buffer[i].kind /\ buffer'[i].of = buffer[i].of
    <3>1. 1 \in 1 .. Len(words) /\ 2 \in 1 .. Len(words)
      BY <1>3
    <3>2. buffer'[n + 1] = words[1] /\ buffer'[n + 2] = words[2]
      BY <1>1, <1>3, <1>4, <3>1, Grown
    <3>3. DOMAIN buffer' = 1 .. n + 2
      BY <1>1, <1>3, <1>4, WordsAfter
    <3> QED  BY <1>1, <1>3, <1>4, <3>2, <3>3, Grown
  <2>3. r \in 1 .. n \/ r = n + 1 \/ r = n + 2
    BY <1>2, <2>1, <2>2
  <2>4. r # n + 2
    BY <1>3, <2>1, <2>2 DEF Containers
  <2>5. CASE r \in 1 .. n
    <3>1. r \in Headers /\ stack # <<>>
      <4>1. r \in Headers
        BY <1>2, <2>1, <2>2, <2>5 DEF Headers
      <4> QED  BY <1>10, <4>1
    <3>2. CASE r = Last(stack)
      <4>1. n \in Marks(r) /\ Chain(r, Marks(r) \ {n}, n)
        BY <1>1, <1>10, <3>1, <3>2 DEF Chained
      <4>2. words[1].size + 1 = Len(words)
        BY <1>3
      <4>3. \A i \in 1 .. Len(words) : words[i].kind \notin {"key", "time"}
        BY <1>5
      <4> QED  BY <1>1, <1>3, <1>4, <3>1, <3>2, <4>1, <4>2, <4>3, ValueKept
    <3>3. CASE r # Last(stack)
      <4>1. Chain(r, Marks(r), EndOf(r))
        BY <3>1, <3>3 DEF Chained
      <4> QED  BY <1>3, <1>4, <3>1, <3>3, <4>1, OthersKept
    <3> QED  BY <3>2, <3>3
  <2>6. CASE r = n + 1
    <3>1. ASSUME NEW p \in Marks(r)' PROVE FALSE
      <4>1. p \in 1 .. n + 2 /\ buffer'[p].of = n + 1
        BY <2>2, <2>6 DEF Marks
      <4>2. CASE p \in 1 .. n
        <5>1. buffer[p].of \in Nat /\ buffer[p].of <= n
          BY <1>1, <4>2, SizeOf
        <5> QED  BY <1>2, <2>2, <4>1, <4>2, <5>1
      <4>3. CASE p = n + 1 \/ p = n + 2
        <5>1. 1 \in 1 .. Len(words) /\ 2 \in 1 .. Len(words)
          BY <1>3
        <5>2. buffer'[p].of = Home
          BY <1>3, <2>2, <4>3, <5>1 DEF Block
        <5>3. Home \in 0 .. n
          BY <1>1, HomeFacts
        <5> QED  BY <1>2, <4>1, <5>2, <5>3
      <4> QED  BY <1>2, <4>1, <4>2, <4>3
    <3>2. EndOf(r)' = r + 2
      <4>1. EndOf(r)' = r + 1 + buffer'[r].size /\ buffer'[r].size = 1
        BY <1>3, <2>2, <2>6 DEF EndOf
      <4> QED  BY <1>2, <2>6, <4>1
    <3> QED  BY <3>1, <3>2 DEF Chain
  <2> QED  BY <2>3, <2>4, <2>5, <2>6
<1>16. Chained'
  BY <1>14, <1>15 DEF Chained
<1> QED  BY <1>13, <1>16

(* ForgeInv holds initially. *)
LEMMA ForgeInitInv == ForgeInit => ForgeInv
BY InitSizes, InitReads DEF ForgeInv

(* Every step preserves ForgeInv. *)
LEMMA ForgeNextInv == ForgeInv /\ [ForgeNext]_forgeVars => ForgeInv'
<1> SUFFICES ASSUME ForgeInv, [ForgeNext]_forgeVars, ~ refused' PROVE Nested' /\ Chained'
  BY NextSizes DEF ForgeInv
<1>0. /\ SizesInv /\ BufferSize \in Nat /\ refused \in BOOLEAN
      /\ \A n \in Bodies : n \in Nat /\ n \in (0 .. BufferSize) \cup Bodies
      /\ 0 \in (0 .. BufferSize) \cup Bodies
  BY TypeFacts DEF ForgeInv, SizesInv, ForgeTypeOK
<1>1. ~ refused => Nested /\ Chained
  BY DEF ForgeInv
<1>2. CASE UNCHANGED forgeVars
  <2>1. /\ ~ refused
        /\ buffer' = buffer /\ stack' = stack /\ scopes' = scopes
    BY <1>2 DEF forgeVars
  <2>2. Nested'
    BY <1>1, <2>1 DEF Nested, Marks
  <2>3. Chained'
    BY <1>1, <2>1 DEF Chained, Chain, Headers, Waiting, Marks, EndOf, NextMark
  <2> QED  BY <2>2, <2>3
<1>3. CASE SetBuffer
  <2>1. ForgeInit'
    BY <1>3 DEF SetBuffer, ForgeInit
  <2> QED  BY <2>1, InitReads, PTL
<1>4. CASE CloseFrame
  <2>1. ~ refused
    BY <1>4 DEF CloseFrame
  <2> QED  BY <1>0, <1>1, <1>4, <2>1, CloseReads
<1>5. CASE WriteMark
  <2> DEFINE kind == MarkOf[Last(scopes).kind]
             words == <<Word(kind, 0)>>
  <2>1. kind \in Kinds
    <3>1. Last(scopes).kind \in Containers
      BY <1>0, <1>5, InnermostScope, ScopeFacts DEF WriteMark, SizesInv
    <3> QED  BY <3>1 DEF Containers, MarkOf, Kinds
  <2>2. WriteWords(words) /\ stack' = stack /\ scopes' = Turn("value") /\ scopes # <<>> /\ ~ Waiting
    BY <1>5 DEF WriteMark, MayWrite, Waiting
  <2>3. Block(words) /\ Len(words) = 1 /\ words[1].kind = kind /\ words[1].size = 0
    <3> HIDE DEF kind
    <3> QED  BY <1>0, <2>1, OneWord
  <2> HIDE DEF words
  <2>4. ~ refused /\ HasRoom(Len(words)) /\ buffer' = Written(words)
    BY <2>2 DEF WriteWords
  <2> QED  BY <1>0, <1>1, <2>2, <2>3, <2>4, MarkReads
<1>6. ASSUME NEW kind \in Containers, OpenFrame(kind) PROVE Nested' /\ Chained'
  <2>1. ~ refused /\ HasRoom(2)
    BY <1>6, HeaderLength DEF OpenFrame, WriteWords
  <2> QED  BY <1>0, <1>1, <1>6, <2>1, OpenReads
<1>7. ASSUME NEW n \in Bodies, WritePrimitive(n) \/ WriteString(n) \/ WriteRaw(n)
      PROVE  Nested' /\ Chained'
  <2> DEFINE words == Atom("value", n)
  <2>1. /\ Block(words) /\ Len(words) = n + 1 /\ words[1].size = n
        /\ \A i \in 1 .. Len(words) : /\ words[i].kind \in {"value", "null", "body"}
                                      /\ i # 1 => words[i].size = 0
    BY <1>0, ValueWords
  <2>2. stack' = stack /\ scopes' = Turn("mark") /\ Waiting
    BY <1>7 DEF WritePrimitive, WriteString, WriteRaw, MayWrite, Waiting
  <2>3. ~ refused /\ HasRoom(n + 1) /\ buffer' = Written(words)
    <3>1. CASE WritePrimitive(n)
      <4>1. WriteWords(words)
        BY <3>1 DEF WritePrimitive
      <4> HIDE DEF words
      <4> QED  BY <2>1, <4>1 DEF WriteWords
    <3>2. CASE WriteString(n)
      BY <3>2 DEF WriteString
    <3>3. CASE WriteRaw(n)
      BY <3>3 DEF WriteRaw
    <3> QED  BY <1>7, <3>1, <3>2, <3>3
  <2>4. n <= BufferSize
    <3>1. Len(buffer) \in Nat
      BY <1>0, TypeFacts DEF SizesInv
    <3>2. Len(buffer) + (n + 1) <= BufferSize
      BY <2>3 DEF HasRoom
    <3> QED  BY <1>0, <3>1, <3>2
  <2> HIDE DEF words
  <2>5. \A i \in 1 .. Len(words) : words[i].kind \in {"value", "null", "body"} /\ words[i].size <= BufferSize
    <3>1. 0 <= BufferSize
      BY <1>0
    <3> QED  BY <2>1, <2>4, <3>1
  <2>6. words[1].size + 1 = Len(words) /\ HasRoom(Len(words))
    BY <2>1, <2>3
  <2> QED  BY <1>0, <1>1, <2>1, <2>2, <2>3, <2>5, <2>6, ValueReads
<1> QED  BY <1>2, <1>3, <1>4, <1>5, <1>6, <1>7 DEF ForgeNext

(* For buffers, values and nestings of any size: SizesInv always, and     *)
(* Nested and Chained as long as no write was refused.                    *)
THEOREM ForgeInvariance == ForgeSpec => []ForgeInv
<1>1. ForgeInit => ForgeInv
  BY ForgeInitInv
<1>2. ForgeInv /\ [ForgeNext]_forgeVars => ForgeInv'
  BY ForgeNextInv
<1> QED  BY <1>1, <1>2, PTL DEF ForgeSpec
-----------------------------------------------------------------------------
(* What an iterator over the container at r does at word p, and the        *)
(* iterations from word m on.                                              *)
Past(r, p) == AtEnd(r, p) /\ (p # r + 2 \/ buffer[r].kind = "sequence")

Onward(f, r, p) ==
  IF Past(r, p) THEN <<>>
  ELSE IF p + 1 > Len(buffer) THEN <<p>>
  ELSE <<p>> \o f[NextMark(p)]

Iterates(m, r, f) == f = [p \in m .. 2 * BufferSize + 2 |-> Onward(f, r, p)]

(* An iteration from word m on can be extended to the word before m. *)
LEMMA IterateEarlier ==
  ASSUME SizesInv, Nested, NEW r, NEW m \in 2 .. 2 * BufferSize + 2, NEW g, Iterates(m, r, g)
  PROVE  \E f : Iterates(m - 1, r, f)
<1> DEFINE top == 2 * BufferSize + 2
           f == [p \in m - 1 .. top |-> IF p = m - 1 THEN Onward(g, r, p) ELSE g[p]]
<1>0. /\ m \in Nat /\ m >= 2 /\ BufferSize \in Nat /\ m <= top /\ top \in Nat
      /\ Len(buffer) \in Nat /\ Len(buffer) <= BufferSize
  BY TypeFacts DEF SizesInv
<1>1. ASSUME NEW p \in m - 1 .. top PROVE f[p] = Onward(g, r, p)
  <2>1. CASE p = m - 1
    BY <2>1
  <2>2. CASE p # m - 1
    <3>1. p \in m .. top
      BY <1>0, <2>2
    <3> QED  BY <2>2, <3>1 DEF Iterates
  <2> QED  BY <2>1, <2>2
<1>2. ASSUME NEW p \in m - 1 .. top PROVE Onward(f, r, p) = Onward(g, r, p)
  <2>0. p \in Nat /\ p >= m - 1 /\ p >= 1
    BY <1>0
  <2>1. CASE Past(r, p) \/ p + 1 > Len(buffer)
    BY <2>1 DEF Onward
  <2>2. CASE ~ (p + 1 > Len(buffer))
    <3>1. p + 1 \in 1 .. Len(buffer)
      BY <1>0, <2>0, <2>2
    <3>2. buffer[p + 1].size \in Nat /\ buffer[p + 1].size <= BufferSize
      <4>1. p + 1 \in DOMAIN buffer
        BY <3>1, TypeFacts DEF SizesInv
      <4> QED  BY <3>1, <4>1, SizeOf DEF Nested
    <3>3. NextMark(p) \in m - 1 .. top /\ NextMark(p) # m - 1
      BY <1>0, <2>0, <3>1, <3>2 DEF NextMark
    <3>4. f[NextMark(p)] = g[NextMark(p)]
      BY <3>3
    <3> HIDE DEF f
    <3> QED  BY <3>4 DEF Onward
  <2> QED  BY <2>1, <2>2
<1>3. f = [p \in m - 1 .. top |-> f[p]]
  OBVIOUS
<1> HIDE DEF f
<1>4. Iterates(m - 1, r, f)
  <2>1. \A p \in m - 1 .. top : f[p] = Onward(f, r, p)
    BY <1>1, <1>2
  <2> QED  BY <1>3, <2>1 DEF Iterates
<1> QED  BY <1>4

(* Visited is an iteration: the function it asks for exists.               *)
LEMMA SomeIteration ==
  ASSUME SizesInv, Nested, NEW r
  PROVE  \E f : Iterates(1, r, f) /\ Visited(r) = f[r + 2]
<1> DEFINE top == 2 * BufferSize + 2
           T == {m \in 1 .. top : \E f : Iterates(m, r, f)}
<1>0. BufferSize \in Nat /\ top \in Nat /\ top >= 2 /\ Len(buffer) \in Nat /\ Len(buffer) <= BufferSize
  BY TypeFacts DEF SizesInv
<1>1. top \in T
  <2> DEFINE f == [p \in top .. top |-> IF Past(r, p) THEN <<>> ELSE <<p>>]
  <2>1. ASSUME NEW p \in top .. top PROVE Onward(f, r, p) = IF Past(r, p) THEN <<>> ELSE <<p>>
    <3>1. p + 1 > Len(buffer)
      BY <1>0
    <3> QED  BY <3>1 DEF Onward
  <2>2. Iterates(top, r, f)
    BY <2>1 DEF Iterates
  <2> HIDE DEF f
  <2> QED  BY <1>0, <2>2
<1>2. PICK m \in T : \A k \in T : m <= k
  <2>1. T \subseteq Nat /\ T # {}
    BY <1>1
  <2> HIDE DEF T
  <2> QED  BY <2>1, LeastNumber
<1>3. m = 1
  <2> SUFFICES ASSUME m # 1 PROVE FALSE
    OBVIOUS
  <2>1. m \in 2 .. top /\ m - 1 \in 1 .. top
    BY <1>0
  <2>2. \E f : Iterates(m - 1, r, f)
    BY <2>1, IterateEarlier
  <2>3. m - 1 \in T
    BY <2>1, <2>2
  <2> QED  BY <1>2, <2>1, <2>3
<1>4. \E f : Iterates(1, r, f)
  BY <1>3
<1>5. Iterates(1, r, CHOOSE f : Iterates(1, r, f))
  BY <1>4
<1>6. Visited(r) = (CHOOSE f : Iterates(1, r, f))[r + 2]
  BY DEF Visited, Iterates, Onward, Past
<1> QED  BY <1>5, <1>6

Ascends(s) == s \in Seq(Nat) /\ \A i \in 1 .. Len(s) - 1 : s[i] < s[i + 1]

(* The members of M from p on, when q is where the next one may be. *)
LEMMA NumbersFrom ==
  ASSUME NEW M \in SUBSET Nat, NEW p \in M, NEW q \in Nat, p < q,
         \A x \in M : p < x => q <= x
  PROVE  {x \in M : p <= x} = {p} \cup {x \in M : q <= x}
<1>1. p \in Nat /\ \A x \in M : x \in Nat
  OBVIOUS
<1>2. ASSUME NEW x \in M, p <= x PROVE x = p \/ q <= x
  <2>1. x \in Nat /\ (p < x => q <= x)
    BY <1>1
  <2> QED  BY <1>1, <1>2, <2>1
<1>3. ASSUME NEW x \in M, q <= x PROVE p <= x
  BY <1>1, <1>3
<1>4. p <= p
  BY <1>1
<1> QED  BY <1>2, <1>3, <1>4

(* A smaller number in front of an ascending sequence. *)
LEMMA Prepended ==
  ASSUME NEW p \in Nat, NEW s, Ascends(s), \A x \in Range(s) : p < x
  PROVE  Ascends(<<p>> \o s) /\ Range(<<p>> \o s) = {p} \cup Range(s)
<1> DEFINE c == <<p>> \o s
           n == Len(s)
<1>1. s \in Seq(Nat) /\ n \in Nat /\ DOMAIN s = 1 .. n
  BY DEF Ascends
<1>2. <<p>> \in Seq(Nat) /\ Len(<<p>>) = 1 /\ <<p>>[1] = p
  OBVIOUS
<1>3. /\ c \in Seq(Nat) /\ Len(c) = 1 + n
      /\ \A i \in 1 .. 1 + n : c[i] = IF i <= 1 THEN p ELSE s[i - 1]
  <2>1. /\ c \in Seq(Nat) /\ Len(c) = Len(<<p>>) + Len(s)
        /\ \A i \in 1 .. Len(<<p>>) + Len(s) : c[i] = IF i <= Len(<<p>>) THEN <<p>>[i] ELSE s[i - Len(<<p>>)]
    BY <1>1, <1>2, ConcatProperties
  <2> HIDE DEF c, n
  <2>2. Len(c) = 1 + n
    BY <1>2, <2>1 DEF n
  <2>3. ASSUME NEW i \in 1 .. 1 + n PROVE c[i] = IF i <= 1 THEN p ELSE s[i - 1]
    <3>1. c[i] = IF i <= 1 THEN <<p>>[i] ELSE s[i - 1]
      BY <1>2, <2>1 DEF n
    <3>2. i <= 1 => i = 1
      BY <1>1
    <3> QED  BY <1>2, <3>1, <3>2
  <2> QED  BY <2>1, <2>2, <2>3
<1> HIDE DEF c, n
<1>4. DOMAIN c = 1 .. 1 + n
  BY <1>3
<1>5. c[1] = p /\ \A i \in 1 .. n : c[i + 1] = s[i] /\ s[i] \in Range(s)
  <2>1. c[1] = p
    BY <1>1, <1>3
  <2>2. ASSUME NEW i \in 1 .. n PROVE c[i + 1] = s[i] /\ s[i] \in Range(s)
    <3> DEFINE j == i + 1
    <3>1. j \in 1 .. 1 + n /\ ~ (j <= 1) /\ j - 1 = i
      BY <1>1
    <3> HIDE DEF j
    <3>2. c[j] = s[i]
      BY <1>3, <3>1
    <3> QED  BY <1>1, <3>2 DEF Range, j
  <2> QED  BY <2>1, <2>2
<1>6. ASSUME NEW i \in 1 .. Len(c) - 1 PROVE c[i] < c[i + 1]
  <2>1. i \in 1 .. n
    BY <1>1, <1>3
  <2>2. CASE i = 1
    BY <1>5, <2>1, <2>2
  <2>3. CASE i # 1
    <3> DEFINE j == i - 1
    <3>1. j \in 1 .. n - 1 /\ j \in 1 .. n /\ j + 1 = i
      BY <1>1, <2>1, <2>3
    <3>2. s[j] < s[j + 1]
      BY <3>1 DEF Ascends, n
    <3>3. c[j + 1] = s[j] /\ c[i + 1] = s[i]
      BY <1>5, <2>1, <3>1
    <3> HIDE DEF j
    <3> QED  BY <3>1, <3>2, <3>3
  <2> QED  BY <2>2, <2>3
<1>7. ASSUME NEW x PROVE x \in Range(c) <=> x \in {p} \cup Range(s)
  <2>1. ASSUME NEW i \in 1 .. 1 + n, c[i] = x PROVE x \in {p} \cup Range(s)
    <3>1. CASE i = 1
      BY <1>5, <2>1, <3>1
    <3>2. CASE i # 1
      <4> DEFINE j == i - 1
      <4>1. j \in 1 .. n /\ j + 1 = i
        BY <1>1, <3>2
      <4> HIDE DEF j
      <4> QED  BY <1>5, <2>1, <4>1
    <3> QED  BY <3>1, <3>2
  <2>2. p \in Range(c)
    <3>1. 1 \in DOMAIN c
      BY <1>1, <1>4
    <3> QED  BY <1>5, <3>1 DEF Range
  <2>3. ASSUME NEW i \in 1 .. n, s[i] = x PROVE x \in Range(c)
    <3>1. i + 1 \in DOMAIN c
      BY <1>1, <1>4
    <3> QED  BY <1>5, <2>3, <3>1 DEF Range
  <2> QED  BY <1>1, <1>4, <2>1, <2>2, <2>3 DEF Range
<1> QED  BY <1>3, <1>6, <1>7 DEF Ascends, c

(* From every mark on, an iteration meets the marks behind it and the end: *)
(* a last mark of which this were false would be before one of which it is.*)
LEMMA IterationMeets ==
  ASSUME SizesInv, Nested, NEW r \in Headers, NEW M, M = Marks(r), NEW e, e = EndOf(r),
         Chain(r, M, e), M # {} \/ buffer[r].kind = "sequence", NEW f, Iterates(1, r, f)
  PROVE  \A p \in M \cup {e} : Ascends(f[p]) /\ Range(f[p]) = {x \in M : p <= x}
<1> DEFINE n == Len(buffer)
           Meets(p) == Ascends(f[p]) /\ Range(f[p]) = {x \in M : p <= x}
           T == {d \in Nat : \E p \in M \cup {e} : d + p = e /\ ~ Meets(p)}
<1>1. /\ n \in Nat /\ BufferSize \in Nat /\ n <= BufferSize /\ r \in 1 .. n
      /\ e \in Nat /\ e <= n + 1
  BY HeaderFacts, TypeFacts DEF SizesInv
<1>2. ASSUME NEW p \in M
      PROVE  /\ p \in Nat /\ p + 1 \in 1 .. n /\ r + 2 <= p /\ p + 1 < e
             /\ NextMark(p) \in M \cup {e} /\ NextMark(p) \in Nat /\ p + 1 < NextMark(p) /\ NextMark(p) <= e
             /\ \A q \in M : p < q => NextMark(p) <= q
  <2>1. M \in SUBSET Marks(r)
    OBVIOUS
  <2> QED  BY <1>1, <2>1, ChainFacts
<1>3. ASSUME NEW p \in M \cup {e} PROVE p \in Nat /\ p <= e /\ p >= 1 /\ f[p] = Onward(f, r, p)
  <2>1. r + 2 \in M \cup {e}
    BY DEF Chain
  <2>2. p \in Nat /\ p <= e /\ r + 2 <= p
    <3>1. CASE p \in M
      <4>1. p \in Nat /\ r + 2 <= p /\ p + 1 < e
        BY <1>2, <3>1
      <4>2. e \in Nat
        BY <1>1
      <4> QED  BY <4>1, <4>2
    <3>2. CASE p = e
      <4>1. CASE r + 2 = e
        BY <1>1, <3>2, <4>1
      <4>2. CASE r + 2 \in M
        BY <1>1, <1>2, <3>2, <4>2
      <4> QED  BY <2>1, <4>1, <4>2
    <3> QED  BY <3>1, <3>2
  <2>3. p >= 1 /\ p \in 1 .. 2 * BufferSize + 2
    BY <1>1, <2>2
  <2> QED  BY <2>2, <2>3 DEF Iterates
<1> HIDE DEF Meets
<1>4. Meets(e)
  <2>1. AtEnd(r, e)
    BY <1>1 DEF AtEnd
  <2>2. e # r + 2 \/ buffer[r].kind = "sequence"
    <3>1. ASSUME M # {} PROVE e # r + 2
      <4>1. PICK p \in M : TRUE
        BY <3>1
      <4> QED  BY <1>1, <1>2, <4>1
    <3> QED  BY <3>1
  <2>3. f[e] = <<>>
    BY <1>3, <2>1, <2>2 DEF Onward, Past
  <2>4. Ascends(<<>>) /\ Range(<<>>) = {}
    BY EmptySeq DEF Ascends, Range
  <2>5. {x \in M : e <= x} = {}
    <3>1. \A x \in M : x \in Nat /\ x + 1 < e
      BY <1>2
    <3>2. e \in Nat
      BY <1>1
    <3> QED  BY <3>1, <3>2
  <2> QED  BY <2>3, <2>4, <2>5 DEF Meets
<1>5. ASSUME NEW p \in M, Meets(NextMark(p)) PROVE Meets(p)
  <2>1. ~ AtEnd(r, p) /\ ~ (p + 1 > n)
    BY <1>1, <1>2 DEF AtEnd
  <2>2. f[p] = <<p>> \o f[NextMark(p)]
    BY <1>3, <2>1 DEF Onward, Past
  <2>3. PICK q, s : q = NextMark(p) /\ s = f[q]
    OBVIOUS
  <2>4. Ascends(s) /\ Range(s) = {x \in M : q <= x}
    BY <1>5, <2>3 DEF Meets
  <2>5. p \in Nat /\ q \in Nat /\ p < q /\ \A x \in M : x \in Nat /\ (p < x => q <= x)
    BY <1>2, <2>3
  <2>6. \A x \in Range(s) : p < x
    BY <2>4, <2>5
  <2>7. {x \in M : p <= x} = {p} \cup {x \in M : q <= x}
    <3>1. M \in SUBSET Nat
      BY <2>5
    <3> QED  BY <2>5, <3>1, NumbersFrom
  <2> QED  BY <2>2, <2>3, <2>4, <2>5, <2>6, <2>7, Prepended DEF Meets
<1>6. T = {}
  <2> SUFFICES ASSUME T # {} PROVE FALSE
    OBVIOUS
  <2>1. PICK d \in T : \A c \in T : d <= c
    <3>1. T \subseteq Nat
      OBVIOUS
    <3> HIDE DEF T
    <3> QED  BY <3>1, LeastNumber
  <2>2. PICK p \in M \cup {e} : d + p = e /\ ~ Meets(p) /\ d \in Nat
    OBVIOUS
  <2>3. p \in M /\ ~ Meets(NextMark(p))
    BY <1>4, <1>5, <2>2
  <2> DEFINE c == e - NextMark(p)
  <2>4. c \in Nat /\ c + NextMark(p) = e /\ c < d
    BY <1>1, <1>2, <2>2, <2>3
  <2>5. c \in T
    BY <1>2, <2>3, <2>4
  <2> HIDE DEF c
  <2> QED  BY <2>1, <2>2, <2>4, <2>5
<1>7. ASSUME NEW p \in M \cup {e} PROVE Meets(p)
  <2> SUFFICES ASSUME ~ Meets(p) PROVE FALSE
    OBVIOUS
  <2>1. e - p \in Nat /\ (e - p) + p = e
    BY <1>1, <1>3
  <2> QED  BY <1>6, <2>1
<1> QED  BY <1>7 DEF Meets

(* Chains are what the iterators read. *)
LEMMA InvReadBack == ForgeInv => ReadBack
<1> SUFFICES ASSUME ForgeInv, ~ refused, NEW r \in Closed,
                    Marks(r) # {} \/ buffer[r].kind = "sequence"
             PROVE  /\ Range(Visited(r)) = Marks(r)
                    /\ \A i \in 1 .. Len(Visited(r)) - 1 : Visited(r)[i] < Visited(r)[i + 1]
  BY DEF ReadBack
<1>1. SizesInv /\ Nested /\ Chained
  BY DEF ForgeInv
<1>2. r \in Headers /\ r \notin Range(stack)
  BY DEF Closed, Headers
<1>3. ~ (Waiting /\ r = Last(stack))
  <2> SUFFICES ASSUME Waiting PROVE r # Last(stack)
    OBVIOUS
  <2>1. Len(stack) # 0
    BY <1>1, InnermostScope DEF Waiting, Nested, SizesInv
  <2>2. stack # <<>>
    BY <2>1, EmptySeq
  <2> QED  BY <1>1, <1>2, <2>2, Innermost
<1>4. PICK M, e : M = Marks(r) /\ e = EndOf(r) /\ Chain(r, M, e)
  BY <1>1, <1>2, <1>3 DEF Chained
<1>5. PICK f : Iterates(1, r, f) /\ Visited(r) = f[r + 2]
  BY <1>1, SomeIteration
<1>6. r + 2 \in M \cup {e}
  BY <1>4 DEF Chain
<1>7. M # {} \/ buffer[r].kind = "sequence"
  BY <1>4
<1>8. Ascends(Visited(r)) /\ Range(Visited(r)) = {x \in M : r + 2 <= x}
  BY <1>1, <1>2, <1>4, <1>5, <1>6, <1>7, IterationMeets
<1>9. {x \in M : r + 2 <= x} = M
  BY <1>4 DEF Chain
<1> QED  BY <1>4, <1>8, <1>9 DEF Ascends

(* For buffers, values and nestings of any size: a refused write leaves    *)
(* the buffer within its bounds and every value of its type.               *)
THEOREM ForgeTypeCorrect == ForgeSpec => []ForgeTypeOK
<1>1. ForgeInv => ForgeTypeOK
  BY DEF ForgeInv, SizesInv
<1> QED  BY <1>1, ForgeInvariance, PTL

(* For buffers, values and nestings of any size: whatever was refused,     *)
(* scopes pop their own frames, and containers end where their scope did.  *)
THEOREM SizesStayExact == ForgeSpec => []SizesExact
<1>1. ForgeInv => SizesExact
  BY DEF ForgeInv, SizesInv
<1> QED  BY <1>1, ForgeInvariance, PTL

(* For buffers, values and nestings of any size: when nothing was refused, *)
(* the iterators meet the marks of their container, and no others.         *)
THEOREM ForgedIsReadBack == ForgeSpec => []ReadBack
BY InvReadBack, ForgeInvariance, PTL

(* The containers are those that were left and those on the stack, and end *)
(* within the words of the buffer.                                         *)
LEMMA ContainersAreHeaders ==
  SizesInv => /\ Len(buffer) \in Nat /\ Headers = Closed \cup Range(stack)
              /\ \A r \in Headers : /\ r \in Nat /\ r <= Len(buffer)
                                   /\ EndOf(r) \in Nat /\ EndOf(r) <= Len(buffer) + 1
<1> SUFFICES ASSUME SizesInv
             PROVE  /\ Len(buffer) \in Nat /\ Headers = Closed \cup Range(stack)
                    /\ \A r \in Headers : /\ r \in Nat /\ r <= Len(buffer)
                                         /\ EndOf(r) \in Nat /\ EndOf(r) <= Len(buffer) + 1
  OBVIOUS
<1>1. Len(buffer) \in Nat
  BY TypeFacts DEF SizesInv
<1>2. Headers = Closed \cup Range(stack)
  <2>1. \A r \in Range(stack) : r \in Headers
    BY DEF SizesInv
  <2> QED  BY <2>1 DEF Headers, Closed
<1>3. ASSUME NEW r \in Headers
      PROVE  r \in Nat /\ r <= Len(buffer) /\ EndOf(r) \in Nat /\ EndOf(r) <= Len(buffer) + 1
  <2>1. r \in 1 .. Len(buffer) /\ EndOf(r) \in Nat /\ EndOf(r) <= Len(buffer) + 1
    BY HeaderFacts
  <2> QED  BY <1>1, <2>1
<1> QED  BY <1>1, <1>2, <1>3

(* Containers stay nested when a step adds at most one, open, at the end   *)
(* of the buffer, leaves the size of those that are not open, and closes   *)
(* the innermost of the open ones.                                         *)
LEMMA NestStep ==
  ASSUME SizesInv, ContainersNest, SizesInv',
         NEW n, n = Len(buffer),
         \A r \in Headers' : r \in Headers \/ (r = n + 1 /\ r \in Range(stack')),
         \A r \in Headers : r \notin Range(stack') => buffer'[r].size = buffer[r].size,
         \A r \in Range(stack') : r \in Range(stack) \/ r = n + 1,
         \A s \in Range(stack'), r \in Range(stack) \ Range(stack') : s < r
  PROVE  ContainersNest'
<1>1. n \in Nat
  BY TypeFacts DEF SizesInv
<1>2. /\ Len(buffer') \in Nat /\ Headers' = (Closed \cup Range(stack))'
      /\ \A r \in Headers' : r \in Nat /\ EndOf(r)' \in Nat /\ EndOf(r)' <= Len(buffer') + 1
  <2>1. (/\ Len(buffer) \in Nat /\ Headers = Closed \cup Range(stack)
         /\ \A r \in Headers : /\ r \in Nat /\ r <= Len(buffer)
                              /\ EndOf(r) \in Nat /\ EndOf(r) <= Len(buffer) + 1)'
    BY ContainersAreHeaders, PTL
  <2> QED  BY <2>1
<1>3. \A r \in Range(stack') : EndOf(r)' = Len(buffer') + 1
  BY DEF SizesInv, SizesExact
<1>4. \A r \in Headers : EndOf(r) \in Nat /\ r \in Nat /\ EndOf(r) <= n + 1
  BY ContainersAreHeaders
<1>5. ASSUME NEW r \in Headers, r \notin Range(stack') PROVE EndOf(r)' = EndOf(r)
  BY <1>5 DEF EndOf
<1>6. Headers = Closed \cup Range(stack)
  BY ContainersAreHeaders
<1> SUFFICES ASSUME NEW r \in Headers', NEW s \in Headers', r < s
             PROVE  \/ EndOf(r)' <= s
                    \/ EndOf(s)' <= EndOf(r)' /\ (s \in Range(stack') => r \in Range(stack'))
  BY <1>2 DEF ContainersNest
<1>7. CASE r \in Range(stack')
  BY <1>2, <1>3, <1>7
<1>8. CASE r \notin Range(stack')
  <2>1. r \in Headers /\ EndOf(r)' = EndOf(r)
    BY <1>5, <1>8
  <2>2. CASE s \notin Headers
    <3>1. s = n + 1
      BY <2>2
    <3> QED  BY <1>4, <2>1, <3>1
  <2>3. CASE s \in Headers /\ EndOf(r) <= s
    BY <2>1, <2>3
  <2>4. CASE /\ s \in Headers
             /\ EndOf(s) <= EndOf(r) /\ (s \in Range(stack) => r \in Range(stack))
    <3>1. s \notin Range(stack')
      <4> SUFFICES ASSUME s \in Range(stack') PROVE FALSE
        OBVIOUS
      <4>1. s # n + 1
        BY <1>1, <2>4, ContainersAreHeaders
      <4>2. s \in Range(stack) /\ r \in Range(stack) \ Range(stack')
        BY <1>8, <2>4, <4>1
      <4>3. s < r
        BY <4>2
      <4> QED  BY <1>4, <2>1, <2>4, <4>3
    <3>2. EndOf(s)' = EndOf(s)
      BY <1>5, <2>4, <3>1
    <3> QED  BY <2>1, <2>4, <3>1, <3>2
  <2>5. s \in Headers => EndOf(r) <= s \/ (EndOf(s) <= EndOf(r) /\ (s \in Range(stack) => r \in Range(stack)))
    BY <1>6, <2>1 DEF ContainersNest
  <2> QED  BY <2>2, <2>3, <2>4, <2>5
<1> QED  BY <1>7, <1>8

(* A block behind the others, of which only the first word may be the      *)
(* header of a container.                                                  *)
LEMMA BlockKeepsHeaders ==
  ASSUME SizesInv, NEW words, Block(words), HasRoom(Len(words)), buffer' = Written(words),
         \A i \in 1 .. Len(words) : i # 1 => words[i].kind \notin Containers
  PROVE  /\ \A r \in Headers' :
              r \in Headers \/ (r = Len(buffer) + 1 /\ words[1].kind \in Containers)
         /\ \A r \in Headers : r \notin Range(stack) => buffer'[r].size = buffer[r].size
<1> DEFINE n == Len(buffer)
           k == Len(words)
<1>1. /\ k \in Nat \ {0} /\ Len(buffer') = n + k /\ buffer' \in Seq(WordType)
      /\ \A i \in 1 .. n : /\ buffer'[i].kind = buffer[i].kind
                           /\ i \notin Range(stack) => buffer'[i].size = buffer[i].size
      /\ \A i \in 1 .. k : buffer'[n + i] = words[i]
  BY Grown
<1>2. n \in Nat /\ DOMAIN buffer = 1 .. n
  BY TypeFacts DEF SizesInv
<1>3. DOMAIN buffer' = 1 .. n + k
  BY <1>1
<1> HIDE DEF n, k
<1>4. ASSUME NEW r \in Headers'
      PROVE  r \in Headers \/ (r = n + 1 /\ words[1].kind \in Containers)
  <2>1. r \in 1 .. n + k /\ buffer'[r].kind \in Containers
    BY <1>3 DEF Headers
  <2>2. CASE r <= n
    <3>1. r \in 1 .. n
      BY <1>1, <1>2, <2>1, <2>2
    <3> QED  BY <1>1, <1>2, <2>1, <3>1 DEF Headers
  <2>3. CASE ~ (r <= n)
    <3>1. r - n \in 1 .. k /\ r = n + (r - n)
      BY <1>1, <1>2, <2>1, <2>3
    <3>2. words[r - n].kind \in Containers
      BY <1>1, <2>1, <3>1
    <3>3. r - n = 1
      BY <3>1, <3>2 DEF k
    <3>4. r = n + 1
      BY <3>1, <3>3
    <3> QED  BY <3>2, <3>3, <3>4
  <2> QED  BY <2>2, <2>3
<1>5. ASSUME NEW r \in Headers, r \notin Range(stack) PROVE buffer'[r].size = buffer[r].size
  BY <1>1, <1>2, <1>5 DEF Headers
<1> QED  BY <1>4, <1>5 DEF n

(* Containers are nested initially and after every step. *)
LEMMA NextNests == SizesInv /\ ContainersNest /\ [ForgeNext]_forgeVars => ContainersNest'
<1> SUFFICES ASSUME SizesInv, ContainersNest, [ForgeNext]_forgeVars PROVE ContainersNest'
  OBVIOUS
<1>0. SizesInv'
  BY NextSizes
<1> DEFINE n == Len(buffer)
<1>1. CASE buffer' = buffer /\ stack' = stack
  BY <1>1 DEF ContainersNest, EndOf, Closed
<1>2. CASE UNCHANGED forgeVars
  BY <1>1, <1>2 DEF forgeVars
<1>3. CASE buffer' = <<>>
  <2>1. Headers' = {}
    BY <1>3 DEF Headers
  <2>2. (Headers = Closed \cup Range(stack))'
    BY <1>0, ContainersAreHeaders, PTL
  <2>3. (Closed \cup Range(stack))' = {}
    BY <2>1, <2>2
  <2> QED  BY <2>3 DEF ContainersNest
<1>4. CASE CloseFrame
  <2>1. buffer' = buffer
    BY <1>4 DEF CloseFrame
  <2>2. Headers' = Headers
    BY <2>1 DEF Headers
  <2>3. /\ \A s \in Range(stack') : s \in Range(stack)
        /\ \A s \in Range(stack'), r \in Range(stack) \ Range(stack') : s < r
    BY <1>4, CloseKeepsSizes
  <2> QED  BY <1>0, <2>1, <2>2, <2>3, NestStep
<1>5. ASSUME NEW words, WritesPlain(words) PROVE ContainersNest'
  <2>0. /\ Block(words) /\ HasRoom(Len(words)) /\ buffer' = Written(words) /\ stack' = stack
        /\ \A i \in 1 .. Len(words) : words[i].kind \notin Containers
    BY <1>5 DEF WritesPlain
  <2>1. words[1].kind \notin Containers
    <3>1. Len(words) \in Nat /\ Len(words) > 0
      BY <2>0 DEF Block
    <3>2. 1 \in 1 .. Len(words)
      BY <3>1
    <3> QED  BY <2>0, <3>2
  <2>2. /\ \A r \in Headers' : r \in Headers
        /\ \A r \in Headers : r \notin Range(stack) => buffer'[r].size = buffer[r].size
    BY <2>0, <2>1, BlockKeepsHeaders
  <2> QED  BY <1>0, <2>0, <2>2, NestStep
<1>6. ASSUME NEW kind \in Containers, Begins(kind) PROVE ContainersNest'
  <2>0. HasRoom(2) /\ buffer' = Written(Header(kind)) /\ stack' = Append(stack, n + 1)
    BY <1>6 DEF Begins
  <2>1. Range(stack') = Range(stack) \cup {n + 1}
    <3>1. stack \in Seq(1 .. n)
      BY TypeFacts DEF SizesInv
    <3>2. n \in Nat
      BY TypeFacts DEF SizesInv
    <3> HIDE DEF n
    <3>3. stack \in Seq(Nat) /\ n + 1 \in Nat
      BY <3>1, <3>2, Wider
    <3> QED  BY <2>0, <3>3, RangeAppended
  <2> DEFINE h == Header(kind)
  <2>2. Block(h) /\ Len(h) = 2 /\ h[2].kind = "body"
    BY <2>0, HeaderWords
  <2>3. HasRoom(Len(h)) /\ buffer' = Written(h)
    BY <2>0, <2>2
  <2>4. \A i \in 1 .. Len(h) : i # 1 => h[i].kind \notin Containers
    <3>1. \A i \in 1 .. 2 : i # 1 => i = 2
      OBVIOUS
    <3>2. "body" \notin Containers
      BY DEF Containers
    <3> HIDE DEF h
    <3> QED  BY <2>2, <3>1, <3>2
  <2> HIDE DEF h
  <2>5. /\ \A r \in Headers' : r \in Headers \/ r = n + 1
        /\ \A r \in Headers : r \notin Range(stack) => buffer'[r].size = buffer[r].size
    BY <2>2, <2>3, <2>4, BlockKeepsHeaders
  <2>6. /\ \A r \in Headers' : r \in Headers \/ (r = n + 1 /\ r \in Range(stack'))
        /\ \A r \in Headers : r \notin Range(stack') => buffer'[r].size = buffer[r].size
    BY <2>1, <2>5
  <2>7. /\ \A r \in Range(stack') : r \in Range(stack) \/ r = n + 1
        /\ \A s \in Range(stack'), r \in Range(stack) \ Range(stack') : s < r
    <3>1. n \in Nat /\ \A r \in Range(stack) : r \in Headers /\ r \in Nat /\ r <= n
      BY ContainersAreHeaders DEF SizesInv
    <3> QED  BY <2>1, <3>1
  <2> QED  BY <1>0, <2>6, <2>7, NestStep
<1>7. CASE SetBuffer
  BY <1>3, <1>7 DEF SetBuffer
<1>8. CASE Writes
  BY <1>1, <1>5, <1>8, WhatIsWritten
<1>9. ASSUME NEW kind \in Containers, OpenFrame(kind) PROVE ContainersNest'
  BY <1>1, <1>6, <1>9, WhatIsBegun
<1> QED  BY <1>2, <1>4, <1>7, <1>8, <1>9 DEF ForgeNext, Writes

(* For buffers, values and nestings of any size: whatever was refused, the *)
(* containers that ScopedFrame leaves in the buffer are apart or inside    *)
(* one another, and no scope is open in one that was left.                 *)
THEOREM ContainersStayNested == ForgeSpec => []ContainersNest
<1>1. ForgeInit => ContainersNest
  <2>1. ASSUME ForgeInit PROVE Closed = {} /\ Range(stack) = {}
    BY <2>1 DEF ForgeInit, Closed, Range
  <2> QED  BY <2>1 DEF ContainersNest
<1>2. SizesInv /\ ContainersNest /\ [ForgeNext]_forgeVars => SizesInv' /\ ContainersNest'
  BY NextSizes, NextNests
<1> QED  BY <1>1, <1>2, InitSizes, PTL DEF ForgeSpec
=============================================================================
