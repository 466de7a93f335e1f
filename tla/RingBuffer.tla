----------------------------- MODULE RingBuffer -----------------------------
(***************************************************************************)
(* The latency window of the health monitor: a ring that keeps the last    *)
(* size samples, and the percentiles taken from what it holds.             *)
(***************************************************************************)
EXTENDS Integers, Sequences, SequencesExt

\* values is 0-indexed, as in the code.
NewRingBuffer(size) ==
  [values |-> [i \in 0 .. size - 1 |-> 0], size |-> size, next |-> 0, filled |-> FALSE]

\* Slip: the ring counts as filled one sample early.
AddFillingEarly(r, value) ==
  LET next == (r.next + 1) % r.size
  IN  [r EXCEPT !.values[r.next] = value,
                !.next = next,
                !.filled = @ \/ next = r.size - 1]

Add(r, value) ==
  LET next == (r.next + 1) % r.size
  IN  [r EXCEPT !.values[r.next] = value,
                !.next = next,
                !.filled = @ \/ next = 0]

\* The samples the ring holds, in the order of their slots.
Values(r) == [i \in 1 .. IF r.filled THEN r.size ELSE r.next |-> r.values[i - 1]]

\* The values in ascending order.
Ascending(values) ==
  LET places == DOMAIN values
      order == CHOOSE o \in Bijection(places, places) :
                 \A i, j \in places : i < j => values[o[i]] =< values[o[j]]
  IN  [i \in places |-> values[order[i]]]

\* The nearest-rank percentile: the sample of rank ceil(p * n / 100).  The
\* code's floating-point rank is the exact one for the percentiles it asks
\* for (50, 95 and 99) and every n up to 120.
Percentile(values, p) ==
  IF values = <<>> THEN 0
  ELSE LET sorted == Ascending(values)
           rank == (p * Len(values) + 99) \div 100
       IN  sorted[CASE rank < 1 -> 1
                    [] rank > Len(values) -> Len(values)
                    [] OTHER -> rank]

=============================================================================
