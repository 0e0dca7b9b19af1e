----------------------------- MODULE IdAllocator -----------------------------
(***************************************************************************)
(* What DocumentIndexer and WordIndexer promise the rest of the engine: a  *)
(* name is given the smallest number that is not in use, once, and keeps   *)
(* it.  How the number is found (counting keys), the mirror database and   *)
(* the deaths of the process are not visible here.                         *)
(***************************************************************************)
EXTENDS Integers

CONSTANT Names

VARIABLE ids

Used == {ids[m] : m \in DOMAIN ids}

Init == DOMAIN ids = {}

Allocate(n) ==
  /\ n \notin DOMAIN ids
  /\ DOMAIN ids' = DOMAIN ids \cup {n}
  /\ \A m \in DOMAIN ids : ids'[m] = ids[m]
  /\ ids'[n] \notin Used
  /\ Used \cup {ids'[n]} = 1..ids'[n]

Next == \E n \in Names : Allocate(n)

Spec == Init /\ [][Next]_ids

=============================================================================
