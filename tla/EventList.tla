----------------------------- MODULE EventList -----------------------------
(***************************************************************************)
(* What lvtk::Sequence promises its users: a list of timed events that is  *)
(* emptied, appended to, or inserted into by time.                         *)
(***************************************************************************)
EXTENDS Naturals, Sequences, SequencesExt

CONSTANTS Events \* records with a field "frames"

VARIABLES events

(* The first event that is later than ev, or the end. *)
Place(ev) == SelectInSeq(events, LAMBDA e : e.frames > ev.frames)

Init == events = <<>>

Reset == events' = <<>>
AppendEvent(ev) == events' = Append(events, ev)
Insert(ev) == LET place == Place(ev)
              IN events' = IF place = 0 THEN Append(events, ev)
                           ELSE InsertAt(events, place, ev)

Next == Reset \/ \E ev \in Events : AppendEvent(ev) \/ Insert(ev)

Spec == Init /\ [][Next]_events
=============================================================================
