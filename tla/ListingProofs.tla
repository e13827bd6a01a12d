---------------------------- MODULE ListingProofs ----------------------------
(***************************************************************************)
(* The listings, for any table, any page sizes and any number of writes:   *)
(* pages made of one item too many and the cursor of the last but one are  *)
(* a single sweep over the index, and show what stays in its place once.   *)
(***************************************************************************)
EXTENDS ListingProperties, FiniteSetTheorems, TLAPS

\* Every registration is of an event that is there; a client who has begun has a page
\* size the API lets through.
Sound ==
  /\ \A id \in Ids, email \in Ids : <<id, email>> \in regs => events[id] # None
  /\ walk.phase # "idle" => walk.limit \in Limits

\* What keeps its place is where the client sees it in any page, and has been shown if
\* the cursor is past it.
Kept ==
  /\ walk.phase = "idle" => steady = {}
  /\ \A i \in steady : Stand[i] # None /\ StandIn(replica)[i] = Stand[i]
  /\ walk.phase = "reading" => \A i \in steady :
       shown[i] = IF walk.cursor = None \/ Before(walk.cursor, Stand[i]) THEN 0 ELSE 1
  /\ walk.phase = "done" => \A i \in steady : shown[i] = 1

ListInv == TypeOK /\ Sound /\ Kept

-----------------------------------------------------------------------------
\* The order of the index.

LEMMA BeforeIsTransitive ==
  ASSUME NEW p \in Places, NEW q \in Places, NEW r \in Places, Before(p, q), Before(q, r)
  PROVE  Before(p, r)
<1>1. PICK k \in 1..5 : p[k] < q[k] /\ \A j \in 1..(k - 1) : p[j] = q[j]
  BY DEF Before
<1>2. PICK l \in 1..5 : q[l] < r[l] /\ \A j \in 1..(l - 1) : q[j] = r[j]
  BY DEF Before
<1>3. \A j \in 1..5 : p[j] \in Int /\ q[j] \in Int /\ r[j] \in Int
  BY DEF Places
<1>4. CASE k < l
  <2>1. p[k] < r[k] /\ \A j \in 1..(k - 1) : p[j] = r[j]
    BY <1>1, <1>2, <1>3, <1>4
  <2> QED BY <2>1 DEF Before
<1>5. CASE l <= k
  <2>1. p[l] < r[l] /\ \A j \in 1..(l - 1) : p[j] = r[j]
    BY <1>1, <1>2, <1>3, <1>5
  <2> QED BY <2>1 DEF Before
<1> QED BY <1>4, <1>5

LEMMA BeforeIsIrreflexive ==
  ASSUME NEW p \in Places
  PROVE  ~Before(p, p)
  BY DEF Before, Places

LEMMA PlaceTypes ==
  ASSUME NEW ev \in EventItem, NEW id \in Ids
  PROVE  EventPlace(ev, id) \in Places
<1> USE ListingAssumption
<1>1. ev.start \in Int /\ ev.printed.offset \in Int /\ id \in Int
  <2>1. ev.start \in Starts /\ ev.printed \in Location
    BY DEF EventItem
  <2>2. ev.printed.offset \in Offsets
    BY <2>1 DEF Location
  <2>3. Starts \subseteq Int /\ Offsets \subseteq Int /\ id \in Int
    OBVIOUS
  <2> QED BY <2>1, <2>2, <2>3
<1>2. \A k \in 1..5 : newEventDynamo(ev, id)[k] \in Int
  <2> DEFINE o == ev.printed.offset
             a == ev.start + o
             b == IF o < 0 THEN 1 ELSE 0
             c == IF o < 0 THEN -o ELSE o
             d == IF ev.printed.named THEN 1 ELSE 0
  <2>1. a \in Int /\ b \in Int /\ c \in Int /\ d \in Int
    BY <1>1
  <2>2. newEventDynamo(ev, id) = <<a, b, c, d, id>>
    BY DEF newEventDynamo
  <2> HIDE DEF a, b, c, d
  <2> QED BY <1>1, <2>1, <2>2
<1> QED BY <1>2 DEF EventPlace, Places

LEMMA RegistrationPlaceType ==
  ASSUME NEW id \in Ids
  PROVE  RegistrationPlace(id) \in Places
  BY ListingAssumption DEF RegistrationPlace, Places

LEMMA StandType ==
  ASSUME NEW table, table.events \in [Ids -> EventItem \cup {None}]
  PROVE  StandIn(table) \in [Ids -> Places \cup {None}]
<1>1. \A i \in Ids : table.events[i] # None => EventPlace(table.events[i], i) \in Places
  BY PlaceTypes
<1> QED BY <1>1, RegistrationPlaceType DEF StandIn

-----------------------------------------------------------------------------
\* One Query.

LEMMA PageOfQuery ==
  ASSUME NEW seen, NEW limit \in Limits, NEW left \in SUBSET Ids,
         NEW items \in Query(seen, left, limit + 1)
  PROVE  /\ items \subseteq left
         /\ ~(Cardinality(items) > limit) => items = left
         /\ \A i \in items, j \in left \ items : Before(seen[i], seen[j])
<1> USE ListingAssumption, PagesFit
<1>1. IsFiniteSet(items)
  BY FS_Subset DEF Query
<1>2. Cardinality(items) \in Nat
  BY <1>1, FS_CardinalityType
<1>3. limit \in Int /\ QueryItems \in Int /\ limit < QueryItems
  OBVIOUS
<1>4. Cardinality(items) \in {limit + 1, QueryItems} \/ items = left
  BY DEF Query
<1>5. ~(Cardinality(items) > limit) => items = left
  BY <1>2, <1>3, <1>4
<1> QED BY <1>5 DEF Query

-----------------------------------------------------------------------------
\* The writers.

LEMMA InitInv == Init => ListInv
<1> SUFFICES ASSUME Init PROVE ListInv
  OBVIOUS
<1> USE ListingAssumption
<1>1. events \in [Ids -> EventItem \cup {None}] /\ regs \subseteq Ids \X Ids
  BY DEF Init
<1>2. \A id \in Ids, email \in Ids : <<id, email>> \in regs => events[id] # None
  BY DEF Init
<1>3. replica = [events |-> events, regs |-> regs]
  BY DEF Init, Table
<1>4. TypeOK
  BY <1>1, <1>3 DEF Init, TypeOK
<1>5. Sound /\ Kept
  BY <1>2 DEF Init, Sound, Kept
<1> QED BY <1>4, <1>5 DEF ListInv

\* A write keeps the replica, and whatever moves is no longer steady.
LEMMA WriteKeeps ==
  ASSUME ListInv, Written,
         events' \in [Ids -> EventItem \cup {None}], regs' \subseteq Ids \X Ids,
         \A id \in Ids, email \in Ids : <<id, email>> \in regs' => events'[id] # None
  PROVE  ListInv'
<1>1. /\ UNCHANGED <<kind, replica, walk, shown>>
      /\ steady' = {i \in steady : Stand'[i] = Stand[i]}
  BY DEF Written
<1>2. StandIn(replica)' = StandIn(replica)
  BY <1>1 DEF StandIn
<1>3. TypeOK'
  <2>1. writes' \in 0..MaxWrites
    BY ListingAssumption DEF ListInv, TypeOK, Written
  <2>2. steady' \subseteq Ids
    BY <1>1 DEF ListInv, TypeOK
  <2> QED BY <1>1, <2>1, <2>2 DEF ListInv, TypeOK
<1>4. Sound'
  BY <1>1 DEF ListInv, Sound
<1>5. Kept'
  BY <1>1, <1>2 DEF ListInv, Kept
<1> QED BY <1>3, <1>4, <1>5 DEF ListInv

LEMMA WriteStep ==
  ListInv /\ (\/ \E id \in Ids, start \in Starts, zone \in Offsets, sent \in Offsets :
                   PostEventsV1(id, start, zone, sent) \/ PatchEventsV1Id(id, start, zone, sent)
              \/ \E id \in Ids, email \in Ids :
                   CreateRegistration(id, email) \/ DeleteExpiredRegistration(id, email))
    => ListInv'
<1> SUFFICES ASSUME ListInv PROVE
      /\ \A id \in Ids, start \in Starts, zone \in Offsets, sent \in Offsets :
           PostEventsV1(id, start, zone, sent) \/ PatchEventsV1Id(id, start, zone, sent) => ListInv'
      /\ \A id \in Ids, email \in Ids :
           CreateRegistration(id, email) \/ DeleteExpiredRegistration(id, email) => ListInv'
  OBVIOUS
<1> USE ListingAssumption
<1>1. events \in [Ids -> EventItem \cup {None}] /\ regs \subseteq Ids \X Ids
      /\ \A id \in Ids, email \in Ids : <<id, email>> \in regs => events[id] # None
  BY DEF ListInv, TypeOK, Sound
<1>2. ASSUME NEW id \in Ids, NEW start \in Starts, NEW zone \in Offsets, NEW sent \in Offsets,
             PostEventsV1(id, start, zone, sent) \/ PatchEventsV1Id(id, start, zone, sent)
      PROVE  ListInv'
  <2> DEFINE ev == apiEventToEvent(start, zone, sent)
  <2>1. [offset |-> sent, named |-> sent = 0] \in Location
    <3>1. (sent = 0) \in BOOLEAN
      BY Zenon
    <3>2. QED
      BY <3>1, Zenon DEF Location
  <2>2. ev \in EventItem
    BY <2>1 DEF apiEventToEvent, EventItem
  <2>3. ev # None
    BY <2>2
  <2>4. events' = [events EXCEPT ![id] = ev] /\ regs' = regs /\ Written
    BY <1>2 DEF PostEventsV1, PatchEventsV1Id
  <2> HIDE DEF ev
  <2> QED BY <1>1, <2>2, <2>3, <2>4, WriteKeeps
<1>3. ASSUME NEW id \in Ids, NEW email \in Ids,
             CreateRegistration(id, email) \/ DeleteExpiredRegistration(id, email)
      PROVE  ListInv'
  <2> DEFINE ev == eventFromEventDynamo(events[id])
  <2>1. events[id] # None
    BY <1>1, <1>3 DEF CreateRegistration, DeleteExpiredRegistration
  <2>2. events[id] \in EventItem
    BY <1>1, <2>1
  <2>3. ev \in EventItem /\ ev # None
    <3> DEFINE zone == events[id].zone
               there == [offset |-> zone, named |-> TRUE]
    <3>1. zone \in Offsets
      BY <2>2 DEF EventItem
    <3>2. there \in Location
      BY <3>1 DEF Location
    <3>3. ev = [events[id] EXCEPT !.printed = there]
      BY DEF eventFromEventDynamo
    <3> HIDE DEF there, ev
    <3>4. ev \in EventItem
      BY <2>2, <3>2, <3>3 DEF EventItem
    <3> QED BY <3>4
  <2>4. events' = [events EXCEPT ![id] = ev] /\ Written
        /\ (regs' = regs \cup {<<id, email>>} \/ regs' = regs \ {<<id, email>>})
    BY <1>3 DEF CreateRegistration, DeleteExpiredRegistration
  <2> HIDE DEF ev
  <2> QED BY <1>1, <2>3, <2>4, WriteKeeps
<1> QED BY <1>2, <1>3

LEMMA ReplicateStep == ListInv /\ Replicate => ListInv'
<1> SUFFICES ASSUME ListInv, Replicate PROVE ListInv'
  OBVIOUS
<1>1. replica' = Table /\ UNCHANGED <<kind, events, regs, walk, shown, steady, writes>>
  BY DEF Replicate
<1>2. Stand' = Stand /\ StandIn(replica)' = Stand
  BY <1>1 DEF Stand, StandIn, Table
<1>3. TypeOK'
  BY <1>1 DEF ListInv, TypeOK, Table
<1>4. Sound' /\ Kept'
  BY <1>1, <1>2 DEF ListInv, Sound, Kept
<1> QED BY <1>3, <1>4 DEF ListInv

-----------------------------------------------------------------------------
\* The client.

LEMMA BeginStep == ListInv /\ BeginListing => ListInv'
<1> SUFFICES ASSUME ListInv, BeginListing PROVE ListInv'
  OBVIOUS
<1> USE ListingAssumption
<1>1. PICK limit \in Limits : walk' = [phase |-> "reading", limit |-> limit, cursor |-> None]
  BY DEF BeginListing
<1>2. /\ shown' = [i \in Ids |-> 0] /\ UNCHANGED <<kind, events, regs, replica, writes>>
      /\ steady' = {i \in Ids : Stand[i] # None /\ StandIn(replica)[i] = Stand[i]}
  BY DEF BeginListing
<1>3. Stand' = Stand /\ StandIn(replica)' = StandIn(replica)
  BY <1>2 DEF Stand, StandIn, Table
<1>4. TypeOK'
  BY <1>1, <1>2 DEF ListInv, TypeOK
<1>5. Sound'
  BY <1>1, <1>2 DEF ListInv, Sound
<1>6. Kept'
  BY <1>1, <1>2, <1>3 DEF Kept
<1> QED BY <1>4, <1>5, <1>6 DEF ListInv

\* What a page with a successor shows and leaves, and the cursor between the two.
LEMMA PageSplits ==
  ASSUME NEW seen \in [Ids -> Places \cup {None}], NEW cursor \in Places \cup {None},
         NEW limit \in Limits,
         NEW items \in Query(seen, cursorToLastEval(seen, cursor), limit + 1),
         NEW extra \in items, NEW last \in items \ {extra},
         \A i \in items \ {extra} : Before(seen[i], seen[extra]),
         \A i \in items \ {extra, last} : Before(seen[i], seen[last])
  PROVE  /\ items \subseteq cursorToLastEval(seen, cursor)
         /\ seen[last] \in Places
         /\ cursorToLastEval(seen, seen[last]) \subseteq cursorToLastEval(seen, cursor)
         /\ items \ {extra} =
              {i \in cursorToLastEval(seen, cursor) : ~Before(seen[last], seen[i])}
<1> DEFINE left == cursorToLastEval(seen, cursor)
<1>1. /\ left \subseteq Ids
      /\ \A i \in left : seen[i] \in Places /\ (cursor = None \/ Before(cursor, seen[i]))
  BY DEF cursorToLastEval
<1>2. items \subseteq left /\ \A i \in items, j \in left \ items : Before(seen[i], seen[j])
  <2>1. items \in Query(seen, left, limit + 1) /\ left \in SUBSET Ids
    BY <1>1
  <2> HIDE DEF left
  <2> QED BY <2>1, PageOfQuery
<1>3. last \in left /\ extra \in left /\ seen[last] \in Places
  BY <1>1, <1>2
<1>4. seen[last] # None
  BY <1>3, ListingAssumption DEF Places
<1>5. cursorToLastEval(seen, seen[last]) \subseteq left
  <2> SUFFICES ASSUME NEW i \in Ids, seen[i] # None, Before(seen[last], seen[i])
               PROVE  cursor = None \/ Before(cursor, seen[i])
    BY <1>4 DEF cursorToLastEval
  <2>1. CASE cursor = None
    BY <2>1
  <2>2. CASE cursor # None
    <3>1. cursor \in Places /\ seen[i] \in Places /\ Before(cursor, seen[last])
      BY <1>1, <1>3, <2>2
    <3> QED BY <1>3, <3>1, BeforeIsTransitive
  <2> QED BY <2>1, <2>2
<1>6. ASSUME NEW i \in items \ {extra}
      PROVE  i \in left /\ ~Before(seen[last], seen[i])
  <2>1. seen[i] \in Places /\ i \in left
    BY <1>1, <1>2
  <2>2. CASE i = last
    BY <1>3, <2>1, <2>2, BeforeIsIrreflexive
  <2>3. CASE i # last
    <3>1. Before(seen[i], seen[last])
      BY <2>3
    <3>2. Before(seen[last], seen[i]) => Before(seen[last], seen[last])
      BY <1>3, <2>1, <3>1, BeforeIsTransitive
    <3> QED BY <1>3, <2>1, <3>2, BeforeIsIrreflexive
  <2> QED BY <2>2, <2>3
<1>7. ASSUME NEW i \in left, i \notin items \ {extra}
      PROVE  Before(seen[last], seen[i])
  <2>1. CASE i = extra
    BY <2>1
  <2>2. CASE i # extra
    BY <1>2, <1>7, <2>2
  <2> QED BY <2>1, <2>2
<1> HIDE DEF left
<1>8. items \ {extra} = {i \in left : ~Before(seen[last], seen[i])}
  BY <1>6, <1>7
<1> QED BY <1>2, <1>3, <1>5, <1>8 DEF left

LEMMA SeenTypes ==
  ASSUME TypeOK
  PROVE  /\ Stand \in [Ids -> Places \cup {None}]
         /\ StandIn(replica) \in [Ids -> Places \cup {None}]
<1>1. Table.events = events
  BY DEF Table
<1> QED BY <1>1, StandType DEF TypeOK, Stand

\* What GetPage does, in terms of what it saw and the items left.
LEMMA GetPageCases ==
  ASSUME ListInv, GetPage
  PROVE  \E seen \in {Stand, StandIn(replica)} :
           LET left == cursorToLastEval(seen, walk.cursor) IN
           \/ /\ Show(left)
              /\ walk' = [walk EXCEPT !.phase = "done"]
           \/ \E last \in left :
                LET page == {i \in left : ~Before(seen[last], seen[i])} IN
                /\ Show(page)
                /\ walk' = [walk EXCEPT !.cursor = seen[last]]
                /\ cursorToLastEval(seen, seen[last]) \subseteq left
<1>0. PICK seen \in {Stand, StandIn(replica)} :
        \E items \in Query(seen, cursorToLastEval(seen, walk.cursor), walk.limit + 1) :
          \/ hasNextPage(items) /\ PageWithNext(seen, items)
          \/ ~hasNextPage(items) /\ LastPage(items)
  BY DEF GetPage
<1>1. PICK items \in Query(seen, cursorToLastEval(seen, walk.cursor), walk.limit + 1) :
        \/ hasNextPage(items) /\ PageWithNext(seen, items)
        \/ ~hasNextPage(items) /\ LastPage(items)
  BY <1>0
<1> DEFINE left == cursorToLastEval(seen, walk.cursor)
<1>2. seen \in [Ids -> Places \cup {None}]
  BY SeenTypes DEF ListInv
<1>3. walk.limit \in Limits /\ walk.cursor \in Places \cup {None}
  BY DEF ListInv, Sound, TypeOK, Places, GetPage
<1>4. CASE ~hasNextPage(items) /\ LastPage(items)
  <2>1. left \in SUBSET Ids
    BY DEF cursorToLastEval
  <2>2. items = left
    <3>1. items \in Query(seen, left, walk.limit + 1)
      OBVIOUS
    <3> HIDE DEF left
    <3> QED BY <1>3, <1>4, <2>1, <3>1, PageOfQuery DEF hasNextPage
  <2> QED BY <1>4, <2>2 DEF LastPage
<1>5. CASE hasNextPage(items) /\ PageWithNext(seen, items)
  <2>0. PICK extra \in items : \E last \in items \ {extra} :
          /\ \A i \in items \ {extra} : Before(seen[i], seen[extra])
          /\ \A i \in items \ {extra, last} : Before(seen[i], seen[last])
          /\ Show(items \ {extra})
          /\ walk' = [walk EXCEPT !.cursor = seen[last]]
    BY <1>5 DEF PageWithNext
  <2>1. PICK last \in items \ {extra} :
          /\ \A i \in items \ {extra} : Before(seen[i], seen[extra])
          /\ \A i \in items \ {extra, last} : Before(seen[i], seen[last])
          /\ Show(items \ {extra})
          /\ walk' = [walk EXCEPT !.cursor = seen[last]]
    BY <2>0
  <2>2. /\ items \subseteq left
        /\ cursorToLastEval(seen, seen[last]) \subseteq left
        /\ items \ {extra} = {i \in left : ~Before(seen[last], seen[i])}
    BY <1>2, <1>3, <2>1, PageSplits
  <2> QED BY <2>1, <2>2
<1> QED BY <1>1, <1>4, <1>5

LEMMA GetPageStep == ListInv /\ GetPage => ListInv'
<1> SUFFICES ASSUME ListInv, GetPage PROVE ListInv'
  OBVIOUS
<1>1. PICK seen \in {Stand, StandIn(replica)} :
        LET left == cursorToLastEval(seen, walk.cursor) IN
        \/ /\ Show(left)
           /\ walk' = [walk EXCEPT !.phase = "done"]
        \/ \E last \in left :
             LET page == {i \in left : ~Before(seen[last], seen[i])} IN
             /\ Show(page)
             /\ walk' = [walk EXCEPT !.cursor = seen[last]]
             /\ cursorToLastEval(seen, seen[last]) \subseteq left
  BY GetPageCases
<1> DEFINE left == cursorToLastEval(seen, walk.cursor)
<1>2. walk.phase = "reading" /\ UNCHANGED <<kind, events, regs, replica, steady, writes>>
  BY DEF GetPage
<1>3. Stand' = Stand /\ StandIn(replica)' = StandIn(replica)
  BY <1>2 DEF Stand, StandIn, Table
<1>4. seen \in [Ids -> Places \cup {None}] /\ None \notin Places
  BY SeenTypes, ListingAssumption DEF ListInv, Places
<1>5. \A i \in steady :
        /\ i \in Ids /\ seen[i] = Stand[i] /\ Stand[i] # None
        /\ shown[i] = IF i \in left THEN 0 ELSE 1
  BY <1>2 DEF ListInv, TypeOK, Kept, cursorToLastEval
<1>6. shown \in [Ids -> Nat] /\ steady \subseteq Ids
  BY DEF ListInv, TypeOK
<1>7. CASE Show(left) /\ walk' = [walk EXCEPT !.phase = "done"]
  <2>1. \A i \in Ids : shown'[i] = shown[i] + IF i \in left THEN 1 ELSE 0
    BY <1>7 DEF Show
  <2>2. walk'.phase = "done" /\ walk'.limit = walk.limit /\ walk'.cursor = walk.cursor
    BY <1>7 DEF ListInv, TypeOK
  <2>3. TypeOK'
    BY <1>2, <1>6, <1>7 DEF ListInv, TypeOK, Show
  <2>4. Sound'
    BY <1>2, <2>2 DEF ListInv, Sound
  <2>5. \A i \in steady : shown'[i] = 1
    BY <1>5, <1>6, <2>1
  <2>6. Kept'
    BY <1>2, <1>3, <2>2, <2>5 DEF ListInv, Kept
  <2> QED BY <2>3, <2>4, <2>6 DEF ListInv
<1>8. ASSUME NEW last \in left,
             Show({i \in left : ~Before(seen[last], seen[i])}),
             walk' = [walk EXCEPT !.cursor = seen[last]],
             cursorToLastEval(seen, seen[last]) \subseteq left
      PROVE  ListInv'
  <2> DEFINE page == {i \in left : ~Before(seen[last], seen[i])}
  <2>0. last \in Ids /\ seen[last] \in Places
    BY <1>4 DEF cursorToLastEval
  <2>1. \A i \in Ids : shown'[i] = shown[i] + IF i \in page THEN 1 ELSE 0
    BY <1>8 DEF Show
  <2>2. walk'.phase = "reading" /\ walk'.limit = walk.limit /\ walk'.cursor = seen[last]
    BY <1>2, <1>8 DEF ListInv, TypeOK
  <2>3. TypeOK'
    <3>1. shown' \in [Ids -> Nat]
      BY <1>6, <1>8 DEF Show
    <3>2. walk' \in [phase : {"idle", "reading", "done"}, limit : 1..50,
                      cursor : [1..5 -> Int] \cup {None}]
      BY <1>8, <2>0 DEF ListInv, TypeOK, Places
    <3> QED BY <1>2, <3>1, <3>2 DEF ListInv, TypeOK
  <2>4. Sound'
    BY <1>2, <2>2 DEF ListInv, Sound
  <2>5. \A i \in steady : Before(seen[last], seen[i]) => i \in left
    BY <1>4, <1>5, <1>6, <1>8, <2>0 DEF cursorToLastEval
  <2>6. \A i \in steady : shown'[i] = IF Before(seen[last], Stand[i]) THEN 0 ELSE 1
    <3> HIDE DEF left
    <3> QED BY <1>5, <1>6, <2>1, <2>5
  <2>7. Kept'
    BY <1>2, <1>3, <1>4, <2>0, <2>2, <2>6 DEF ListInv, Kept
  <2> QED BY <2>3, <2>4, <2>7 DEF ListInv
<1> QED BY <1>1, <1>7, <1>8

-----------------------------------------------------------------------------
(* The inductive invariant of the listings: what keeps its place is where any page    *)
(* shows it, and has been shown if the client's cursor is past it.                    *)
THEOREM Invariance == Spec => []ListInv
<1>1. ListInv /\ [Next]_vars => ListInv'
  <2> SUFFICES ASSUME ListInv, [Next]_vars
               PROVE  ListInv'
    OBVIOUS
  <2>1. CASE Next
    BY <2>1, WriteStep, ReplicateStep, BeginStep, GetPageStep DEF Next
  <2>2. CASE UNCHANGED vars
    BY <2>2 DEF vars, ListInv, TypeOK, Sound, Kept, Stand, StandIn, Table
  <2> QED BY <2>1, <2>2
<1> QED BY InitInv, <1>1, PTL DEF Spec

(* NothingLostOrRepeated: pages with one item too many and a cursor of the last but   *)
(* one neither lose nor repeat what stays in its place (ShownOnce), for any table and *)
(* page size (dynamo/events.go:252-288, dynamo/registration.go:446-482).              *)
THEOREM NothingLostOrRepeated == Spec => []ShownOnce
<1>1. ListInv => ShownOnce
  BY DEF ListInv, TypeOK, Kept, ShownOnce
<1> QED BY Invariance, <1>1, PTL

-----------------------------------------------------------------------------
\* The refinement.

LEMMA SweepInit == Init => Promise!Init
<1> SUFFICES ASSUME Init PROVE Promise!Init
  OBVIOUS
<1>1. ListInv
  BY InitInv
<1>2. Stand \in [Ids -> Places \cup {None}]
  BY <1>1, SeenTypes DEF ListInv
<1> QED BY <1>2 DEF Init, Promise!Init, Stand

LEMMA SweepNext == ListInv /\ ListInv' /\ [Next]_vars => [Promise!Next]_(Promise!sweepVars)
<1> SUFFICES ASSUME ListInv, ListInv', [Next]_vars
             PROVE  [Promise!Next]_(Promise!sweepVars)
  OBVIOUS
<1>1. CASE UNCHANGED vars
  BY <1>1 DEF vars, Promise!sweepVars, Stand, StandIn, Table
<1>2. CASE Written
  <2>1. UNCHANGED <<kind, replica, walk, shown>> /\ steady' = {i \in steady : Stand'[i] = Stand[i]}
    BY <1>2 DEF Written
  <2>2. Stand' \in [Ids -> Places \cup {None}]
    <3>1. events' \in [Ids -> EventItem \cup {None}]
      BY DEF ListInv, TypeOK
    <3>2. \A i \in Ids : events'[i] # None => EventPlace(events'[i], i) \in Places
      BY <3>1, PlaceTypes
    <3> QED BY <3>2, RegistrationPlaceType DEF Stand, StandIn, Table
  <2>3. StandIn(replica)' = StandIn(replica)
    BY <2>1 DEF StandIn
  <2>4. Promise!Move
    BY <2>1, <2>2, <2>3 DEF Promise!Move
  <2> QED BY <2>4 DEF Promise!Next
<1>3. CASE Replicate
  <2>1. replica' = Table /\ UNCHANGED <<kind, events, regs, walk, shown, steady, writes>>
    BY <1>3 DEF Replicate
  <2>2. Stand' = Stand /\ StandIn(replica)' = Stand
    BY <2>1 DEF Stand, StandIn, Table
  <2>3. Promise!CatchUp
    BY <2>1, <2>2 DEF Promise!CatchUp
  <2> QED BY <2>3 DEF Promise!Next
<1>4. CASE BeginListing
  <2>1. /\ walk.phase # "reading" /\ walk'.phase = "reading" /\ walk'.cursor = None
        /\ shown' = [i \in Ids |-> 0] /\ UNCHANGED <<kind, events, regs, replica>>
        /\ steady' = {i \in Ids : Stand[i] # None /\ StandIn(replica)[i] = Stand[i]}
    BY <1>4 DEF BeginListing
  <2>2. Stand' = Stand /\ StandIn(replica)' = StandIn(replica)
    BY <2>1 DEF Stand, StandIn, Table
  <2>3. Promise!Begin
    BY <2>1, <2>2 DEF Promise!Begin
  <2> QED BY <2>3 DEF Promise!Next
<1>5. CASE GetPage
  <2>1. PICK seen \in {Stand, StandIn(replica)} :
          LET left == cursorToLastEval(seen, walk.cursor) IN
          \/ /\ Show(left)
             /\ walk' = [walk EXCEPT !.phase = "done"]
          \/ \E last \in left :
               LET page == {i \in left : ~Before(seen[last], seen[i])} IN
               /\ Show(page)
               /\ walk' = [walk EXCEPT !.cursor = seen[last]]
               /\ cursorToLastEval(seen, seen[last]) \subseteq left
    BY <1>5, GetPageCases
  <2> DEFINE left == cursorToLastEval(seen, walk.cursor)
  <2>2. walk.phase = "reading" /\ UNCHANGED <<kind, events, regs, replica, steady, writes>>
    BY <1>5 DEF GetPage
  <2>3. Stand' = Stand /\ StandIn(replica)' = StandIn(replica)
    BY <2>2 DEF Stand, StandIn, Table
  <2>4. Promise!Ahead(seen) = left
    BY DEF Promise!Ahead, cursorToLastEval
  <2>5. CASE Show(left) /\ walk' = [walk EXCEPT !.phase = "done"]
    <3>1. walk'.phase = "done" /\ walk'.cursor = walk.cursor
      BY <2>5 DEF ListInv, TypeOK
    <3>2. Promise!Finish(seen)
      BY <2>2, <2>3, <2>4, <2>5, <3>1 DEF Promise!Finish, Promise!Show, Show
    <3> QED BY <3>2 DEF Promise!Next
  <2>6. ASSUME NEW last \in left,
               Show({i \in left : ~Before(seen[last], seen[i])}),
               walk' = [walk EXCEPT !.cursor = seen[last]]
        PROVE  Promise!Advance(seen)
    <3>1. walk'.phase = walk.phase /\ walk'.cursor = seen[last]
      BY <2>6 DEF ListInv, TypeOK
    <3> DEFINE to == seen[last]
    <3>2. to \in {seen[i] : i \in Promise!Ahead(seen)}
      BY <2>4
    <3>3. Promise!Show({i \in Promise!Ahead(seen) : ~Before(to, seen[i])})
      BY <2>4, <2>6 DEF Promise!Show, Show
    <3> QED BY <2>2, <2>3, <3>1, <3>2, <3>3 DEF Promise!Advance
  <2>7. CASE \E last \in left :
               LET page == {i \in left : ~Before(seen[last], seen[i])} IN
               /\ Show(page)
               /\ walk' = [walk EXCEPT !.cursor = seen[last]]
    BY <2>6, <2>7 DEF Promise!Next
  <2> QED BY <2>1, <2>5, <2>7
<1> QED BY <1>1, <1>2, <1>3, <1>4, <1>5
     DEF Next, PostEventsV1, PatchEventsV1Id, CreateRegistration, DeleteExpiredRegistration

(* ListingsSweep: each write, page and answer of the listings is a step of a single   *)
(* sweep over the index or changes nothing of it (ImplementsSweep).                   *)
THEOREM ListingsSweep == Spec => ImplementsSweep
<1> QED BY SweepInit, SweepNext, Invariance, PTL DEF Spec, ImplementsSweep, Promise!Spec

-----------------------------------------------------------------------------
\* The way of the cursor.

(* CursorsMoveForward: a page is the last one or hands out a cursor behind the one it *)
(* was asked for with (MovesForward; dynamo/events.go:268-288).                       *)
THEOREM CursorsMoveForward == Spec => MovesForward
<1> DEFINE Forward ==
      walk.phase = "reading" /\ <<walk, shown>>' # <<walk, shown>> =>
        \/ walk'.phase = "done"
        \/ walk.cursor = None \/ Before(walk.cursor, walk'.cursor)
<1>1. ListInv /\ [Next]_vars => [Forward]_vars
  <2> SUFFICES ASSUME ListInv, [Next]_vars PROVE Forward
    BY DEF vars
  <2>1. CASE GetPage
    <3>1. PICK seen \in {Stand, StandIn(replica)} :
            LET left == cursorToLastEval(seen, walk.cursor) IN
            \/ /\ Show(left)
               /\ walk' = [walk EXCEPT !.phase = "done"]
            \/ \E last \in left :
                 LET page == {i \in left : ~Before(seen[last], seen[i])} IN
                 /\ Show(page)
                 /\ walk' = [walk EXCEPT !.cursor = seen[last]]
                 /\ cursorToLastEval(seen, seen[last]) \subseteq left
      BY <2>1, GetPageCases
    <3>2. CASE walk' = [walk EXCEPT !.phase = "done"]
      BY <3>2 DEF ListInv, TypeOK
    <3>3. ASSUME NEW last \in cursorToLastEval(seen, walk.cursor),
                 walk' = [walk EXCEPT !.cursor = seen[last]]
          PROVE  walk.cursor = None \/ Before(walk.cursor, walk'.cursor)
      <4>1. walk'.cursor = seen[last]
        BY <3>3 DEF ListInv, TypeOK
      <4> QED BY <3>3, <4>1 DEF cursorToLastEval
    <3> QED BY <3>1, <3>2, <3>3
  <2>2. CASE BeginListing
    BY <2>2 DEF BeginListing
  <2>3. CASE UNCHANGED <<walk, shown>>
    BY <2>3
  <2> QED BY <2>1, <2>2, <2>3
       DEF Next, vars, PostEventsV1, PatchEventsV1Id, CreateRegistration,
           DeleteExpiredRegistration, Written, Replicate
<1> QED BY <1>1, Invariance, PTL DEF Spec, MovesForward
=============================================================================
