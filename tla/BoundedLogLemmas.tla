-------------------------- MODULE BoundedLogLemmas --------------------------
(* What Push does to a log, for the proofs about the modules that keep one. *)
EXTENDS BoundedLog, TLAPS

\* Inserting into a log keeps its type and its bound, puts the entry first
\* and moves what is kept one place down (record_event, emitLocked, deliver).
LEMMA PushProperties ==
  ASSUME NEW Entry, NEW log \in Seq(Entry), NEW entry \in Entry,
         NEW cap \in Nat \ {0}, Len(log) =< cap
  PROVE  /\ Push(log, entry, cap) \in Seq(Entry)
         /\ Len(Push(log, entry, cap)) =< cap
         /\ Len(Push(log, entry, cap)) >= 1
         /\ Push(log, entry, cap)[1] = entry
         /\ \A i \in 2 .. Len(Push(log, entry, cap)) :
              i - 1 \in 1 .. Len(log) /\ Push(log, entry, cap)[i] = log[i - 1]
<1> DEFINE n == IF Len(log) < cap THEN Len(log) + 1 ELSE cap
<1> DEFINE whole == <<entry>> \o log
<1>1. /\ whole \in Seq(Entry)
      /\ Len(whole) = Len(log) + 1
      /\ whole[1] = entry
      /\ \A i \in 2 .. Len(log) + 1 : whole[i] = log[i - 1]
  OBVIOUS
<1>2. n \in 1 .. Len(whole) /\ n =< cap
  BY <1>1
<1> HIDE DEF whole, n
<1>3. /\ SubSeq(whole, 1, n) \in Seq(Entry)
      /\ Len(SubSeq(whole, 1, n)) = n
      /\ \A i \in 1 .. n : SubSeq(whole, 1, n)[i] = whole[i]
  BY <1>1, <1>2
<1>4. Push(log, entry, cap) = SubSeq(whole, 1, n)
  BY DEF Push, whole, n
<1> QED
  BY <1>1, <1>2, <1>3, <1>4

\* The log grows until it is full.
LEMMA PushLength ==
  ASSUME NEW Entry, NEW log \in Seq(Entry), NEW entry \in Entry,
         NEW cap \in Nat \ {0}, Len(log) =< cap
  PROVE  Len(Push(log, entry, cap)) = IF Len(log) < cap THEN Len(log) + 1 ELSE cap
<1>1. <<entry>> \o log \in Seq(Entry) /\ Len(<<entry>> \o log) = Len(log) + 1
  OBVIOUS
<1> QED
  BY <1>1 DEF Push

=============================================================================
