------------------------------- MODULE Listings -------------------------------
(***************************************************************************)
(* The two listings of the API and the table they are read from:           *)
(*                                                                         *)
(*   GET /events/v1                            GetEventsV1                 *)
(*   GET /events/v1/{eventId}/registrations    GetEventsV1EventIdRegistrations *)
(*                                                                         *)
(* A client follows the cursors of one of them, page after page, while     *)
(* organisers create and patch events and people register.  Events are     *)
(* read from the index GSI1, newest first; its sort key is the start time  *)
(* as Go prints it, in whatever location the time.Time happens to carry.   *)
(* The registrations of an event are read in the order of their emails.    *)
(*                                                                         *)
(* A request that fails (its cursor cannot be decoded or belongs to        *)
(* another listing, the one-second limit) shows nothing and gives no       *)
(* cursor: the client is where it was, and may ask again.                  *)
(***************************************************************************)
EXTENDS Integers, FiniteSets

CONSTANTS
  Ids,         \* event ids and emails, as numbers in the order of their text
  Listed,      \* the event whose registrations are listed
  Starts,      \* when events start (hours)
  Offsets,     \* the offsets from UTC a time may carry (hours), one time zone to each
  Stock,       \* the event items the table may hold at first
  Stocked,     \* the events it holds at first
  Limits,      \* the page sizes the API lets through: 1 to 50
  QueryItems,  \* how many items DynamoDB returns at most for one Query (1 MB)
  MaxWrites,   \* bound: how often the table is written
  None

\* The location a time.Time carries, as Go prints it: an offset, then the zone's name or,
\* if it has none, the offset once more.
Location == [offset : Offsets, named : BOOLEAN]

EventItem == [start : Starts, zone : Offsets, printed : Location]

ASSUME ListingAssumption ==
  /\ Ids \subseteq Nat /\ IsFiniteSet(Ids)
  /\ Listed \in Ids /\ Stocked \subseteq Ids
  /\ Starts \subseteq Int /\ Offsets \subseteq Int
  /\ Stock \subseteq EventItem
  /\ None \notin EventItem \cup [1..5 -> Int]
  /\ Limits \subseteq 1..50
  /\ QueryItems \in Nat
  /\ MaxWrites \in Nat

\* A page and the item after it fit into one Query: nothing in the code makes it
\* so, but 51 events or registrations stay far below 1 MB.
ASSUME PagesFit == \A limit \in Limits : limit < QueryItems

VARIABLES
  kind,     \* which listing the client reads
  events,   \* [Ids -> event item or None]
  regs,     \* the <<event, email>> pairs that are registered
  replica,  \* the table and its index as a read may still see them
  walk,     \* the client: its phase, its limit, the cursor it was given last
  shown,    \* [Ids -> how often the client was shown the item]
  steady,   \* the items that have kept their place since the client began
  writes    \* how often the table was written

vars == <<kind, events, regs, replica, walk, shown, steady, writes>>

Table == [events |-> events, regs |-> regs]

TypeOK ==
  /\ kind \in {"events", "registrations"}
  /\ events \in [Ids -> EventItem \cup {None}]
  /\ regs \subseteq Ids \X Ids
  /\ replica \in [events : [Ids -> EventItem \cup {None}], regs : SUBSET (Ids \X Ids)]
  /\ walk \in [phase : {"idle", "reading", "done"}, limit : 1..50,
               cursor : [1..5 -> Int] \cup {None}]
  /\ shown \in [Ids -> Nat]
  /\ steady \subseteq Ids
  /\ writes \in 0..MaxWrites

-----------------------------------------------------------------------------
\* The sort keys, as tuples that compare like the texts do.

\* EVENT#<date and time on the location's clock> <offset> <name>#<id>: the location is the
\* one the time carries, which need not be the event's zone.  "+" sorts before "-" (UTC is
\* "+0000 UTC"), and an offset repeated in place of a name before any name.
newEventDynamo(ev, id) ==
  LET o == ev.printed.offset IN
  <<ev.start + o, IF o < 0 THEN 1 ELSE 0, IF o < 0 THEN -o ELSE o,
    IF ev.printed.named THEN 1 ELSE 0, id>>

\* Where an item stands in the order it is read in: events from the last key to
\* the first (ScanIndexForward is false), registrations forward by email.
EventPlace(ev, id) == LET key == newEventDynamo(ev, id) IN [k \in 1..5 |-> -key[k]]

RegistrationPlace(email) == <<0, 0, 0, 0, email>>

Places == [1..5 -> Int]

Before(p, q) == \E k \in 1..5 : p[k] < q[k] /\ \A j \in 1..(k - 1) : p[j] = q[j]

StandIn(table) ==
  [i \in Ids |->
     CASE kind = "events" /\ table.events[i] # None -> EventPlace(table.events[i], i)
       [] kind = "registrations" /\ <<Listed, i>> \in table.regs -> RegistrationPlace(i)
       [] OTHER -> None]

Stand == StandIn(Table)

-----------------------------------------------------------------------------
\* The writes that move items in the two indexes.

Init ==
  /\ kind \in {"events", "registrations"}
  /\ events \in {es \in [Ids -> Stock \cup {None}] : \A i \in Ids : es[i] # None <=> i \in Stocked}
  /\ regs \in IF kind = "events" \/ Listed \notin Stocked THEN {{}}
               ELSE SUBSET ({Listed} \X Ids)
  /\ replica = Table
  /\ walk = [phase |-> "idle", limit |-> 1, cursor |-> None]
  /\ shown = [i \in Ids |-> 0]
  /\ steady = {}
  /\ writes = 0

Written ==
  /\ writes < MaxWrites
  /\ writes' = writes + 1
  /\ UNCHANGED <<kind, replica, walk, shown>>
  /\ steady' = {i \in steady : Stand'[i] = Stand[i]}

\* The request's times carry the offset they were sent with, whatever the event's zone;
\* only UTC has a name there ("Z", or an offset of 0 in a process that runs in UTC).
apiEventToEvent(start, zone, sent) ==
  [start |-> start, zone |-> zone, printed |-> [offset |-> sent, named |-> sent = 0]]

\* An event that was read back has its times in its own zone.
eventFromEventDynamo(ev) == [ev EXCEPT !.printed = [offset |-> ev.zone, named |-> TRUE]]

PostEventsV1(id, start, zone, sent) ==
  /\ events[id] = None
  /\ events' = [events EXCEPT ![id] = apiEventToEvent(start, zone, sent)]
  /\ UNCHANGED regs
  /\ Written

PatchEventsV1Id(id, start, zone, sent) ==
  /\ events[id] # None
  /\ events' = [events EXCEPT ![id] = apiEventToEvent(start, zone, sent)]
  /\ UNCHANGED regs
  /\ Written

\* Every change of an event's sign-ups rewrites the event from the copy it read.
CreateRegistration(id, email) ==
  /\ events[id] # None
  /\ <<id, email>> \notin regs
  /\ regs' = regs \cup {<<id, email>>}
  /\ events' = [events EXCEPT ![id] = eventFromEventDynamo(@)]
  /\ Written

DeleteExpiredRegistration(id, email) ==
  /\ <<id, email>> \in regs
  /\ regs' = regs \ {<<id, email>>}
  /\ events' = [events EXCEPT ![id] = eventFromEventDynamo(@)]
  /\ Written

Replicate ==
  /\ replica # Table
  /\ replica' = Table
  /\ UNCHANGED <<kind, events, regs, walk, shown, steady, writes>>

-----------------------------------------------------------------------------
\* GetEvents and GetAllRegistrationsForEvent: one Query each, and what is made of it.

\* A client asks for the first page, with a page size of its choice.
BeginListing ==
  /\ walk.phase # "reading"
  /\ \E limit \in Limits :
       walk' = [phase |-> "reading", limit |-> limit, cursor |-> None]
  /\ shown' = [i \in Ids |-> 0]
  /\ steady' = {i \in Ids : Stand[i] # None /\ StandIn(replica)[i] = Stand[i]}
  /\ UNCHANGED <<kind, events, regs, replica, writes>>

\* A slip: the cursor's own item is read again.
cursorIncluded(seen, cursor) ==
  {i \in Ids : seen[i] # None /\ (cursor = None \/ ~Before(seen[i], cursor))}

\* The cursor goes back to DynamoDB as ExclusiveStartKey; that an item still has
\* the key is not required.
cursorToLastEval(seen, cursor) ==
  {i \in Ids : seen[i] # None /\ (cursor = None \/ Before(cursor, seen[i]))}

\* Query returns the first items of those that are left; it stops at its limit, at
\* 1 MB, or because none is left.
Query(seen, left, limit) ==
  {items \in SUBSET left :
     /\ Cardinality(items) <= limit /\ Cardinality(items) <= QueryItems
     /\ Cardinality(items) \in {limit, QueryItems} \/ items = left
     /\ \A i \in items, j \in left \ items : Before(seen[i], seen[j])}

Show(items) == shown' = [i \in Ids |-> shown[i] + IF i \in items THEN 1 ELSE 0]

\* A slip: the extra item is shown, and the cursor is DynamoDB's LastEvaluatedKey.
cursorIsLastEvaluated(seen, items) ==
  \E last \in items :
    /\ \A i \in items \ {last} : Before(seen[i], seen[last])
    /\ Show(items \ {last})
    /\ walk' = [walk EXCEPT !.cursor = seen[last]]

\* One item too many: it is dropped, and the cursor is the key of the last but one.
PageWithNext(seen, items) ==
  \E extra \in items : \E last \in items \ {extra} :
    /\ \A i \in items \ {extra} : Before(seen[i], seen[extra])
    /\ \A i \in items \ {extra, last} : Before(seen[i], seen[last])
    /\ Show(items \ {extra})
    /\ walk' = [walk EXCEPT !.cursor = seen[last]]

\* A slip: an empty page hands back the cursor it was asked for with.
emptyPageKeepsCursor(items) ==
  /\ Show(items)
  /\ walk' = IF items = {} THEN walk ELSE [walk EXCEPT !.phase = "done"]

LastPage(items) ==
  /\ Show(items)
  /\ walk' = [walk EXCEPT !.phase = "done"]

hasNextPage(items) == Cardinality(items) > walk.limit

GetPage ==
  /\ walk.phase = "reading"
  /\ \E seen \in {Stand, StandIn(replica)} :
       \E items \in Query(seen, cursorToLastEval(seen, walk.cursor), walk.limit + 1) :
         \/ hasNextPage(items) /\ PageWithNext(seen, items)
         \/ ~hasNextPage(items) /\ LastPage(items)
  /\ UNCHANGED <<kind, events, regs, replica, steady, writes>>

Next ==
  \/ \E id \in Ids, start \in Starts, zone \in Offsets, sent \in Offsets :
       PostEventsV1(id, start, zone, sent) \/ PatchEventsV1Id(id, start, zone, sent)
  \/ \E id \in Ids, email \in Ids :
       CreateRegistration(id, email) \/ DeleteExpiredRegistration(id, email)
  \/ Replicate
  \/ BeginListing
  \/ GetPage

Spec == Init /\ [][Next]_vars

\* The client goes on asking, and a request does not fail for ever.
FairSpec == Spec /\ WF_vars(GetPage)
=============================================================================
