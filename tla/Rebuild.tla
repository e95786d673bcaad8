------------------------------ MODULE Rebuild ------------------------------
(* What children hold of a parent's record after the parent is gone         *)
(* (bridge/reconstruct.py): sealed segments, taken in the order they are    *)
(* given, verified one by one and joined.  A mark is the parent's or it is  *)
(* not; an address is the content, and one store keeps the bytes of all.    *)
EXTENDS Naturals, Sequences, FiniteSets, FiniteSetsExt

CONSTANTS Positions, Contents,
          MaxHeld,      \* bound: segments the children bring
          None

VARIABLES parent,       \* the parent's content at each position
          store,        \* what is kept under each address
          brought       \* the segments, in the order of the children

vars == <<parent, store, brought>>

Init ==
  /\ parent \in [Positions -> Contents]
  /\ store \in [Contents -> Contents \cup {None}]
  /\ brought = << >>

(* A segment: the position and address it claims, whether its mark is the   *)
(* parent's, and the position and address the marked record names.          *)
Segment(claim, marked, over) == [claim |-> claim, marked |-> marked, over |-> over]

(* The parent marks only what it recorded.                                  *)
Possible(s) == s.marked => parent[s.over[1]] = s.over[2]

Claims == Positions \X Contents

Bring ==
  /\ Len(brought) < MaxHeld
  /\ \E claim, over \in Claims, marked \in BOOLEAN :
       LET s == Segment(claim, marked, over)
       IN  Possible(s) /\ brought' = Append(brought, s)
  /\ UNCHANGED <<parent, store>>

(* What was claimed by a segment before is passed over, whatever became of  *)
(* the one before.                                                          *)
Considered == {n \in 1..Len(brought) : \A m \in 1..(n - 1) : brought[m].claim # brought[n].claim}

(* Mutant: the marked record is not compared with what is claimed. *)
VerifiesByMark(s) == s.marked /\ store[s.claim[2]] = s.claim[2]

(* Marked by the parent, over this position and this address, and the bytes *)
(* kept there hash to it.                                                   *)
Verifies(s) == s.marked /\ s.over = s.claim /\ store[s.claim[2]] = s.claim[2]

Admitted == {n \in Considered : Verifies(brought[n])}
Refused  == Considered \ Admitted

Held(p) == {n \in Admitted : brought[n].claim[1] = p}
Rebuilt ==
  [p \in {brought[n].claim[1] : n \in Admitted} |-> store[brought[Max(Held(p))].claim[2]]]

Next == Bring

Spec == Init /\ [][Next]_vars

----------------------------------------------------------------------------
(* What is rebuilt of the children's segments is the parent's own record,   *)
(* whatever they bring; and a position one of them holds whole is there,    *)
(* unless the report names as refused a segment that was listed before it   *)
(* and claimed the same (seen is filled before anything is verified).       *)
UnionIsTheParents ==
  /\ \A p \in DOMAIN Rebuilt : Rebuilt[p] = parent[p]
  /\ \A n \in 1..Len(brought) :
       LET s == brought[n]
       IN  Verifies(s) =>
             s.claim[1] \in DOMAIN Rebuilt
             \/ \E m \in Refused : m < n /\ brought[m].claim = s.claim

=============================================================================
