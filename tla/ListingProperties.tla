-------------------------- MODULE ListingProperties --------------------------
(***************************************************************************)
(* What a client of the two listings may rely on.                          *)
(***************************************************************************)
EXTENDS Listings

(* ShownOnce: a client that followed the cursors to the last page has been shown each *)
(* item that kept its place exactly once, whatever was inserted, moved or removed     *)
(* around it between two pages and however stale a page was; while it is still        *)
(* reading, at most once.                                                             *)
ShownOnce ==
  \A i \in steady :
    /\ shown[i] <= 1
    /\ walk.phase = "done" => shown[i] = 1

(* MovesForward: a page either is the last one or hands out a cursor that lies behind *)
(* the one it was asked for with, whatever was written since that one was made: a     *)
(* client never goes back, so what it has left to read only grows by what is written  *)
(* (dynamo/events.go:268-288, dynamo/registration.go:462-482).                        *)
MovesForward ==
  [][walk.phase = "reading" /\ <<walk, shown>>' # <<walk, shown>> =>
       \/ walk'.phase = "done"
       \/ walk.cursor = None \/ Before(walk.cursor, walk'.cursor)]_vars

(* WalkEnds: following the cursors comes to an end.                                   *)
WalkEnds == walk.phase = "reading" ~> walk.phase = "done"

Promise == INSTANCE Sweep WITH
  Items <- Ids, place <- Stand, lagging <- StandIn(replica),
  phase <- walk.phase, line <- walk.cursor

(* ImplementsSweep: the page size, the extra item that tells whether a page follows,  *)
(* and the cursor made of the last item but one do what a single sweep over the index *)
(* would do.                                                                          *)
ImplementsSweep == Promise!Spec

(* NewestFirst: dynamo/README.md:26 says that the sort key of an event "allows        *)
(* sorting events by their start time", and dynamo/events.go:249 "Want to sort newest *)
(* event first": no event is listed before one that starts later.                     *)
NewestFirst ==
  \A i, j \in Ids :
    kind = "events" /\ Stand[i] # None /\ Stand[j] # None /\ Before(Stand[i], Stand[j])
      => events[i].start >= events[j].start
=============================================================================
