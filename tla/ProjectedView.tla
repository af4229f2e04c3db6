--------------------------- MODULE ProjectedView ---------------------------
(***************************************************************************)
(* What a view kept behind a source of truth promises: the view of an item *)
(* may lag behind the item, but it only ever moves forward, and only to a  *)
(* version the item has had.                                               *)
(***************************************************************************)
EXTENDS Integers

CONSTANTS Item, MaxVersion

VARIABLES
  source, \* item -> number of writes to it (0: it does not exist yet)
  view    \* item -> the version the view shows (0: none)

Init ==
  /\ source = [i \in Item |-> 0]
  /\ view = [i \in Item |-> 0]

Write(i) ==
  /\ source[i] < MaxVersion
  /\ source' = [source EXCEPT ![i] = @ + 1]
  /\ UNCHANGED view

Refresh(i) ==
  /\ \E v \in view[i] .. source[i] : view' = [view EXCEPT ![i] = v]
  /\ UNCHANGED source

Next == \E i \in Item : Write(i) \/ Refresh(i)

Spec == Init /\ [][Next]_<<source, view>>
=============================================================================
