----------------------------- MODULE BoundedLog -----------------------------
(***************************************************************************)
(* The in-memory event histories of the services are lists kept newest     *)
(* first and cut to a fixed length after every insertion:                  *)
(*   events.insert(0, event); events[:] = events[:250]   (orchestrator)    *)
(*   m.events = append([]Event{event}, m.events...)[:250]  (monitor)       *)
(*   history.unshift(record); history.splice(200)     (notification)       *)
(***************************************************************************)
EXTENDS Integers, Sequences

\* Slip: the cut is forgotten.
PushUncut(log, entry, cap) == <<entry>> \o log

\* The log after inserting entry in front of it and keeping cap entries.
Push(log, entry, cap) ==
  SubSeq(<<entry>> \o log, 1, IF Len(log) < cap THEN Len(log) + 1 ELSE cap)

=============================================================================
