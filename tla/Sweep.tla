-------------------------------- MODULE Sweep --------------------------------
(***************************************************************************)
(* What a listing that is read page by page promises its reader, while     *)
(* others insert, move and remove items.  A line is swept once over the    *)
(* order of the index.  Each page moves the line forward and shows exactly *)
(* the items it passes, as they stand at that moment or stood a moment     *)
(* before; the last page takes the line past everything.  There are no     *)
(* limits, cursors or extra items here.                                    *)
(***************************************************************************)
EXTENDS Integers

CONSTANTS
  Items,         \* what is listed
  Places,        \* where an item can stand in the index
  Before(_, _),  \* the order in which places are read
  None           \* no place

VARIABLES
  place,    \* [Items -> where the item stands, or None]
  lagging,  \* an earlier `place`, which a read may still answer from
  phase,    \* "idle", "reading" or "done"
  line,     \* the place the line has reached; None before the first page
  shown,    \* [Items -> how often the reader was shown the item]
  steady    \* the items that have stood in one place since the reader began

sweepVars == <<place, lagging, phase, line, shown, steady>>

Init ==
  /\ place \in [Items -> Places \cup {None}]
  /\ lagging = place
  /\ phase = "idle"
  /\ line = None
  /\ shown = [i \in Items |-> 0]
  /\ steady = {}

\* Somebody else changes the index; readers may not see it yet.
Move ==
  /\ place' \in [Items -> Places \cup {None}]
  /\ steady' = {i \in steady : place'[i] = place[i]}
  /\ UNCHANGED <<lagging, phase, line, shown>>

CatchUp ==
  /\ lagging' = place
  /\ UNCHANGED <<place, phase, line, shown, steady>>

\* Reading starts, or starts all over.
Begin ==
  /\ phase # "reading"
  /\ phase' = "reading"
  /\ line' = None
  /\ shown' = [i \in Items |-> 0]
  /\ steady' = {i \in Items : place[i] # None /\ lagging[i] = place[i]}
  /\ UNCHANGED <<place, lagging>>

Ahead(seen) == {i \in Items : seen[i] # None /\ (line = None \/ Before(line, seen[i]))}

Show(items) == shown' = [i \in Items |-> shown[i] + IF i \in items THEN 1 ELSE 0]

\* The line moves to `to`: what stands up to there, `to` included, is shown.
Advance(seen) ==
  /\ phase = "reading"
  /\ \E to \in {seen[i] : i \in Ahead(seen)} :
       /\ Show({i \in Ahead(seen) : ~Before(to, seen[i])})
       /\ line' = to
  /\ UNCHANGED <<place, lagging, phase, steady>>

Finish(seen) ==
  /\ phase = "reading"
  /\ Show(Ahead(seen))
  /\ phase' = "done"
  /\ UNCHANGED <<place, lagging, line, steady>>

Next ==
  \/ Move
  \/ CatchUp
  \/ Begin
  \/ \E seen \in {place, lagging} : Advance(seen) \/ Finish(seen)

Spec == Init /\ [][Next]_sweepVars
=============================================================================
