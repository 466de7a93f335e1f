------------------------------ MODULE RWMutex ------------------------------
(***************************************************************************)
(* Go's sync.RWMutex as its users see it.  A writer first becomes the      *)
(* pending writer, which turns away new readers, and then waits until the  *)
(* readers that were inside have left.  The readers it turned away are all *)
(* let in when it unlocks, before the next writer gets its turn.           *)
(***************************************************************************)
CONSTANT None        \* no writer

Unlocked == [writer |-> None, reading |-> {}, waiting |-> {}]

RWMutexOf(Writer, Reader) ==
  [writer : Writer \cup {None}, reading : SUBSET Reader, waiting : SUBSET Reader]

Outside(mu, r) == r \notin mu.reading \cup mu.waiting

RLock(mu, r) ==
  IF mu.writer = None THEN [mu EXCEPT !.reading = @ \cup {r}]
                      ELSE [mu EXCEPT !.waiting = @ \cup {r}]

RUnlock(mu, r) == [mu EXCEPT !.reading = @ \ {r}]

\* w becomes the pending writer, and is inside when the readers have left.
Lock(mu, w) == [mu EXCEPT !.writer = w]

Exclusive(mu, w) == mu.writer = w /\ mu.reading = {}

Unlock(mu) == [writer |-> None, reading |-> mu.waiting, waiting |-> {}]

=============================================================================
