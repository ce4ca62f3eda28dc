---------------------------- MODULE AtomSequence ----------------------------
(***************************************************************************)
(* lvtk::Sequence: an LV2_Atom_Sequence in a buffer.  The body starts with *)
(* 8 bytes (unit and pad); then every event has a time stamp of 8 bytes,   *)
(* the size and type of its atom in 8 bytes, and the atom's body.  Events  *)
(* start at multiples of 8, so the buffer is modelled as words of 8 bytes; *)
(* sizes and positions stay in bytes, counted from the start of the body.  *)
(*                                                                         *)
(* A word holds part n of an event: part 0 is the time, part 1 the header. *)
(* The lv2_atom_* functions come from the LV2 headers and are external.    *)
(***************************************************************************)
EXTENDS Naturals, Sequences, SequencesExt

CONSTANTS
  Events,   \* records: frames (the time) and size (of the body)
  Capacity, \* bytes of the buffer after the atom's header
  Blank     \* the content of a word nothing was written to

ASSUME SequenceAssumption ==
  /\ Capacity \in Nat \ {0} /\ Capacity % 8 = 0
  /\ \A ev \in Events : ev.frames \in Nat /\ ev.size \in Nat
  /\ Blank \notin Events /\ Blank \notin [event : Events, part : 0 .. Capacity \div 8]

VARIABLES
  size,  \* sequence->atom.size
  memory \* the words of the buffer

vars == <<size, memory>>

Words == 0 .. (Capacity \div 8 - 1)
Cells == [event : Events, part : 0 .. Capacity \div 8] \cup {Blank}

SizeofBody  == 8  \* sizeof (LV2_Atom_Sequence_Body)
SizeofEvent == 16 \* sizeof (LV2_Atom_Event)

(* lv2_atom_pad_size() *)
Pad(n) == ((n + 7) \div 8) * 8

(* total_size in append() and insert() *)
TotalSize(ev) == SizeofEvent + ev.size

(* reset() has been called; what the buffer held before is still there. *)
Init == size = SizeofBody /\ memory \in [Words -> {Blank}]
-----------------------------------------------------------------------------
(* The event that starts at byte p, read through an AtomEvent pointer: its *)
(* time and its header are words of the same event, else it is Blank.      *)
EventAt(p) ==
  LET w == p \div 8
  IN IF /\ w \in Words /\ w + 1 \in Words
        /\ memory[w] # Blank /\ memory[w].part = 0
        /\ memory[w + 1] = [event |-> memory[w].event, part |-> 1]
     THEN memory[w].event ELSE Blank

(* All of ev's body is where an event that starts at byte p has it. *)
WholeAt(p) ==
  /\ EventAt(p) # Blank
  /\ \A n \in 0 .. (Pad(TotalSize(EventAt(p))) \div 8 - 1) :
       p \div 8 + n \in Words /\ memory[p \div 8 + n] = [event |-> EventAt(p), part |-> n]

(* lv2_atom_sequence_next() *)
NextEvent(p) == p + SizeofEvent + Pad(EventAt(p).size)

(* lv2_atom_sequence_end(): the end iterator, where append() writes. *)
End == Pad(size)

(* The positions of LV2_ATOM_SEQUENCE_FOREACH, which stops at the end or   *)
(* beyond; what is not an event ends the list here.                        *)
Positions ==
  LET from[p \in 0 .. 2 * Capacity] ==
        IF p >= size \/ EventAt(p) = Blank THEN <<p>> ELSE <<p>> \o from[NextEvent(p)]
  IN from[SizeofBody]

Starts == Front(Positions)

(* The events an iteration from begin() visits. *)
Contents == LET starts == Starts IN [i \in DOMAIN starts |-> EventAt(starts[i])]

(* memcpy (p, &ev, total_size) into m *)
Write(m, p, ev) ==
  [w \in Words |-> IF p \div 8 <= w /\ w < (p + Pad(TotalSize(ev))) \div 8
                   THEN [event |-> ev, part |-> w - p \div 8] ELSE m[w]]

(* memmove (to, from, n) in m *)
Moved(m, to, from, n) ==
  [w \in Words |-> IF to \div 8 <= w /\ w < (to + n) \div 8
                   THEN m[w - to \div 8 + from \div 8] ELSE m[w]]

(* The code does not look at the capacity; its callers have to. *)
Fits(ev) == End + Pad(TotalSize(ev)) <= Capacity
-----------------------------------------------------------------------------
(* Mutant: the size of the body does not count its own header. *)
ResetToNothing == size' = 0 /\ UNCHANGED memory

Reset == size' = SizeofBody /\ UNCHANGED memory

(* Mutant: the size grows by the size that is not padded. *)
AppendUnpadded(ev) == /\ Fits(ev)
                      /\ memory' = Write(memory, End, ev)
                      /\ size'   = size + TotalSize(ev)

AppendEvent(ev) == /\ Fits(ev)
                   /\ memory' = Write(memory, End, ev)
                   /\ size'   = size + Pad(TotalSize(ev))

(* Mutant: an event goes before those of the same time. *)
NotEarlier(e, ev) == e.frames >= ev.frames

(* iter->time.frames > ev.time.frames *)
Later(e, ev) == e.frames > ev.frames

(* The first event later than ev, or 0. *)
FirstLater(ev) == LET events == Contents IN SelectInSeq(events, LAMBDA e : Later(e, ev))

(* insert(): before the first later event, else at the end.  The events    *)
(* from there on are moved by the size of that event, not by ev's size.    *)
Insert(ev) ==
  /\ Fits(ev)
  /\ LET i == FirstLater(ev)
         p == Starts[i]
     IN memory' = IF i = 0 THEN Write(memory, End, ev)
                  ELSE Write(Moved(memory, p + Pad(TotalSize(Contents[i])), p, End - p), p, ev)
  /\ size' = size + Pad(TotalSize(ev))

Next == Reset \/ \E ev \in Events : AppendEvent(ev) \/ Insert(ev)

Spec == Init /\ [][Next]_vars

(* The use under which insert() works, as in the tests: the first later    *)
(* event, if there is one, takes as much room as the inserted one.         *)
AsWide(ev) ==
  FirstLater(ev) # 0 => Pad(TotalSize(Contents[FirstLater(ev)])) = Pad(TotalSize(ev))

NextAsWide == \/ Reset
              \/ \E ev \in Events : AppendEvent(ev) \/ (AsWide(ev) /\ Insert(ev))

SpecAsWide == Init /\ [][NextAsWide]_vars
-----------------------------------------------------------------------------
(* Of every value of the state: the body has its header and fits. *)
TypeOK == size \in SizeofBody .. Capacity /\ memory \in [Words -> Cells]

(* "for (const auto& ev : seq)" meets only whole events and then hits the  *)
(* end iterator exactly; operator!= would not stop it beyond the end.      *)
EventsWhole == /\ \A p \in Range(Starts) : WholeAt(p)
               /\ Last(Positions) = End

InOrder(events) == \A i, j \in DOMAIN events : i < j => events[i].frames <= events[j].frames

(* An iteration that meets the events in the order of their times before   *)
(* an insert() does so after it: insert() finds its place by the bytes it  *)
(* reads and moves all of what is later, so that insert() alone sorts.     *)
InsertKeepsOrder ==
  [][\A ev \in Events : AsWide(ev) /\ Insert(ev) /\ InOrder(Contents) => InOrder(Contents')]_vars

(* The bytes in the buffer are the list of events their writers expect     *)
(* (refinement of EventList): append() puts an event last, insert() before *)
(* the first that is later, all others stay as they were.                  *)
List == INSTANCE EventList WITH events <- Contents
ImplementsEventList == List!Spec
=============================================================================
