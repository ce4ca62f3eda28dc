----------------------------- MODULE AtomForge -----------------------------
(***************************************************************************)
(* lvtk::Forge, ScopedFrame and the iterators of Object and Sequence:      *)
(* containers are forged into a buffer inside nested C++ scopes, and read  *)
(* back from it.                                                           *)
(*                                                                         *)
(* Everything is written in units of 8 bytes, the words of the buffer.  A  *)
(* container is a header of two words, and then members: a mark (the key   *)
(* of an object's property or the time of a sequence's event) and an atom. *)
(* Sizes are counted in words and, as in an LV2_Atom, without the first.   *)
(* The lv2_atom_forge_* functions come from the LV2 headers; they do       *)
(* nothing and return 0 when what they write does not fit.                 *)
(***************************************************************************)
EXTENDS Naturals, Sequences, SequencesExt

CONSTANTS
  BufferSize, \* words of the buffer
  Bodies,   \* sizes of the atoms that are written as values
  MaxScopes \* bound on the nesting of scopes

ASSUME ForgeAssumption == BufferSize \in Nat /\ MaxScopes \in Nat /\ Bodies \subseteq Nat \ {0}

VARIABLES
  buffer, \* the words written: kind, size, and the container the writer is in
  stack,  \* the frames of forge->stack: where their headers are, innermost last
  scopes, \* the live ScopedFrames: kind, ref (0: it did not fit), what comes next
  refused \* whether some write since set_buffer() returned 0

forgeVars == <<buffer, stack, scopes, refused>>

Containers == {"object", "sequence"}
MarkOf     == [object |-> "key", sequence |-> "time"]

ForgeInit == buffer = <<>> /\ stack = <<>> /\ scopes = <<>> /\ refused = FALSE
-----------------------------------------------------------------------------
HasRoom(n) == Len(buffer) + n <= BufferSize

Home == IF scopes = <<>> THEN 0 ELSE Last(scopes).ref

Word(kind, n) == [kind |-> kind, size |-> n, of |-> Home]

Atom(kind, n) == <<Word(kind, n)>> \o [i \in 1..n |-> Word("body", 0)]

(* The headers of SequenceTraits and ObjectTraits have one more word: the   *)
(* unit of a sequence, or the id and type of an object.                    *)
Header(kind) == Atom(kind, 1)

(* lv2_atom_forge_raw(): the words are appended and counted in the sizes   *)
(* of all containers on the stack.                                         *)
Written(words) ==
  [i \in 1 .. Len(buffer) |-> IF i \in Range(stack)
                              THEN [buffer[i] EXCEPT !.size = @ + Len(words)]
                              ELSE buffer[i]] \o words

WriteWords(words) ==
  /\ buffer'  = IF HasRoom(Len(words)) THEN Written(words) ELSE buffer
  /\ refused' = (refused \/ ~ HasRoom(Len(words)))

(* The writer of every scope writes marks and values in turn, as LV2 asks  *)
(* for, and does not look at what the write functions return.              *)
MayWrite(next) == IF scopes = <<>> THEN next = "value" /\ buffer = <<>> ELSE Last(scopes).next = next

Turn(next) == [i \in DOMAIN scopes |-> IF i = Len(scopes) THEN [scopes[i] EXCEPT !.next = next]
                                       ELSE scopes[i]]
-----------------------------------------------------------------------------
SetBuffer ==
  /\ scopes = <<>>
  /\ buffer' = <<>> /\ stack' = <<>> /\ refused' = FALSE
  /\ UNCHANGED scopes

(* Mutant: the frame is pushed although its header did not fit. *)
OpenUnchecked(kind) ==
  /\ MayWrite("value")
  /\ Len(scopes) < MaxScopes
  /\ WriteWords(Header(kind))
  /\ LET ref == IF HasRoom(2) THEN Len(buffer) + 1 ELSE 0
     IN /\ stack'  = Append(stack, ref)
        /\ scopes' = Append(Turn("mark"), [kind |-> kind, ref |-> ref, next |-> "mark"])

(* The constructor of ScopedFrame forges the header; the frame is pushed   *)
(* when it was written.                                                    *)
OpenFrame(kind) ==
  /\ MayWrite("value")
  /\ Len(scopes) < MaxScopes
  /\ WriteWords(Header(kind))
  /\ LET ref == IF HasRoom(2) THEN Len(buffer) + 1 ELSE 0
     IN /\ stack'  = IF ref # 0 THEN Append(stack, ref) ELSE stack
        /\ scopes' = Append(Turn("mark"), [kind |-> kind, ref |-> ref, next |-> "mark"])

(* Mutant: the destructor of ScopedFrame does not pop. *)
CloseWithoutPop ==
  /\ scopes # <<>> /\ MayWrite("mark")
  /\ scopes' = Front(scopes)
  /\ UNCHANGED <<buffer, stack, refused>>

(* The destructor pops the frame, if it was pushed.                        *)
CloseFrame ==
  /\ scopes # <<>> /\ MayWrite("mark")
  /\ stack'  = IF Last(scopes).ref # 0 THEN Front(stack) ELSE stack
  /\ scopes' = Front(scopes)
  /\ UNCHANGED <<buffer, refused>>

(* write_key() and write_property_head(), write_frame_time() and           *)
(* write_beat_time().                                                      *)
WriteMark ==
  /\ scopes # <<>> /\ MayWrite("mark")
  /\ WriteWords(<<Word(MarkOf[Last(scopes).kind], 0)>>)
  /\ scopes' = Turn("value")
  /\ UNCHANGED stack

(* write_bool(), write_int() ... write_urid(), write_primitive().          *)
WritePrimitive(n) ==
  /\ scopes # <<>> /\ MayWrite("value")
  /\ WriteWords(Atom("value", n))
  /\ scopes' = Turn("mark")
  /\ UNCHANGED stack

(* write_string(), write_path() and write_uri(): the header and the body   *)
(* are written one after the other; a header without body becomes null.    *)
WriteString(n) ==
  /\ scopes # <<>> /\ MayWrite("value")
  /\ buffer'  = IF HasRoom(n + 1) THEN Written(Atom("value", n))
                ELSE IF HasRoom(1) THEN Written(Atom("null", 0)) ELSE buffer
  /\ refused' = (refused \/ ~ HasRoom(n + 1))
  /\ scopes'  = Turn("mark")
  /\ UNCHANGED stack

(* write_atom() and then write_raw(): each is refused for itself, and a    *)
(* header without body stays.                                              *)
WriteRaw(n) ==
  /\ scopes # <<>> /\ MayWrite("value")
  /\ buffer'  = IF HasRoom(n + 1) THEN Written(Atom("value", n))
                ELSE IF HasRoom(1) THEN Written(<<Word("value", n)>>) ELSE buffer
  /\ refused' = (refused \/ ~ HasRoom(n + 1))
  /\ scopes'  = Turn("mark")
  /\ UNCHANGED stack

ForgeNext == \/ SetBuffer \/ CloseFrame \/ WriteMark
        \/ \E kind \in Containers : OpenFrame(kind)
        \/ \E n \in Bodies : WritePrimitive(n) \/ WriteString(n) \/ WriteRaw(n)

ForgeSpec == ForgeInit /\ [][ForgeNext]_forgeVars
-----------------------------------------------------------------------------
(* The first word after the container at r. *)
EndOf(r) == r + 1 + buffer[r].size

(* What a mark at word p is followed by: lv2_atom_object_next() and        *)
(* lv2_atom_sequence_next() step over it with the size in its header.      *)
NextMark(p) == p + 2 + buffer[p + 1].size

(* Mutant: the word at the end still belongs to the object. *)
EndsBeyond(r, p) == IF buffer[r].kind = "object" THEN p > EndOf(r) ELSE p = EndOf(r)

(* Object::iterator::operator++ becomes the end iterator at the end or     *)
(* beyond; Sequence::iterator has to meet the end exactly.                 *)
AtEnd(r, p) == IF buffer[r].kind = "object" THEN p >= EndOf(r) ELSE p = EndOf(r)

(* The words the iterators of the container at r refer to, from begin() to *)
(* end(), or to a word that was never written.  The begin() of an object   *)
(* refers to its first property, and is not compared with the end.         *)
Visited(r) ==
  LET from[p \in 1 .. 2 * BufferSize + 2] ==
        IF AtEnd(r, p) /\ (p # r + 2 \/ buffer[r].kind = "sequence") THEN <<>>
        ELSE IF p + 1 > Len(buffer) THEN <<p>>
        ELSE <<p>> \o from[NextMark(p)]
  IN from[r + 2]

Closed == {r \in DOMAIN buffer : buffer[r].kind \in Containers /\ r \notin Range(stack)}

Marks(r) == {i \in DOMAIN buffer : buffer[i].kind = MarkOf[buffer[r].kind] /\ buffer[i].of = r}
-----------------------------------------------------------------------------
Kinds == Containers \cup {"key", "time", "value", "null", "body"}

(* Of every value of the state: the buffer is not exceeded.  (A header     *)
(* whose body was refused may announce more than the buffer holds.)        *)
ForgeTypeOK ==
  /\ buffer \in Seq([kind : Kinds, size : (0 .. BufferSize) \cup Bodies, of : 0 .. BufferSize])
  /\ Len(buffer) <= BufferSize
  /\ stack \in Seq(DOMAIN buffer)
  /\ scopes \in Seq([kind : Containers, ref : 0 .. BufferSize, next : {"mark", "value"}])
  /\ refused \in BOOLEAN

(* Whatever was refused in whatever order scopes were opened and left: the *)
(* frames on the stack are those of the live scopes whose headers fitted,  *)
(* both innermost last; the containers of these reach to the last word,    *)
(* the others end where the last word of their scope was.                  *)
SizesExact ==
  /\ Range(stack) = {s.ref : s \in Range(scopes)} \ {0}
  /\ \A i \in 1 .. Len(stack) - 1 : stack[i] < stack[i + 1]
  /\ \A i, j \in DOMAIN scopes : i < j /\ scopes[j].ref # 0 => scopes[i].ref < scopes[j].ref
  /\ \A r \in Range(stack) : EndOf(r) = Len(buffer) + 1
  /\ \A r \in Closed : EndOf(r) <= Len(buffer) + 1

(* Whatever was refused: of two containers the later one is behind the end *)
(* of the earlier, or ends within it; and no scope is open in a container  *)
(* that was left.                                                          *)
ContainersNest ==
  \A r, s \in Closed \cup Range(stack) : r < s =>
    \/ EndOf(r) <= s
    \/ EndOf(s) <= EndOf(r) /\ (s \in Range(stack) => r \in Range(stack))

(* When nothing was refused, iterating a container whose scope was left    *)
(* visits the marks that were written in that scope, each once and in      *)
(* order, and none of the scopes inside it.  (An object without properties *)
(* has no valid begin(), which is not compared with end().)                *)
ReadBack ==
  ~ refused => \A r \in Closed :
    Marks(r) # {} \/ buffer[r].kind = "sequence" =>
      /\ Range(Visited(r)) = Marks(r)
      /\ \A i \in 1 .. Len(Visited(r)) - 1 : Visited(r)[i] < Visited(r)[i + 1]
=============================================================================
