------------------------ MODULE RegistrationCountProofs ------------------------
(***************************************************************************)
(* The counters of the event item count its registrations, unless a        *)
(* webhook handler mixes two registrations of an email up (MixUp).  The    *)
(* first part is about counting: what one registration more, or less, does *)
(* to the sets that are counted.  The second shows that all registrations  *)
(* of an email, stored or held by a handler, have a shape it submits       *)
(* (ShapesKept): with one shape per email no mix-up is possible.  The last *)
(* follows what a handler read while its own session's hold stood, which   *)
(* says when one is possible after all.                                    *)
(***************************************************************************)
EXTENDS RegistrationEventProofs, FiniteSetTheorems

-----------------------------------------------------------------------------
\* Counting teams and seats.

TeamsOf(r) == {e \in Emails : r[e] # None /\ r[e].type = "BY_TEAM"}

SeatsOf(r, types) ==
  {seat \in Emails \X (1..MaxPlayers) :
     /\ r[seat[1]] # None
     /\ r[seat[1]].type \in types
     /\ seat[2] <= r[seat[1]].players}

RegMap == [Emails -> Registration \cup {None}]

LEMMA FiniteCounts ==
  ASSUME NEW r, NEW types
  PROVE  IsFiniteSet(TeamsOf(r)) /\ IsFiniteSet(SeatsOf(r, types))
<1>1. IsFiniteSet(Emails) /\ IsFiniteSet(1..MaxPlayers)
  BY TableAssumption, FS_Interval DEF TableAssumption
<1>2. IsFiniteSet(Emails \X (1..MaxPlayers))
  BY <1>1, FS_Product
<1>3. TeamsOf(r) \in SUBSET Emails /\ SeatsOf(r, types) \in SUBSET (Emails \X (1..MaxPlayers))
  BY DEF TeamsOf, SeatsOf
<1>4. QED
  BY <1>1, <1>2, <1>3, FS_Subset

LEMMA RowCount ==
  ASSUME NEW e, NEW n \in Nat
  PROVE  IsFiniteSet({e} \X (1..n)) /\ Cardinality({e} \X (1..n)) = n
<1>1. IsFiniteSet({e}) /\ Cardinality({e}) = 1
  BY FS_Singleton
<1>2. IsFiniteSet(1..n) /\ Cardinality(1..n) = n
  BY FS_Interval
<1> DEFINE col == 1..n
<1> HIDE DEF col
<1>3. IsFiniteSet(col) /\ Cardinality(col) = n
  BY <1>2 DEF col
<1>4. /\ IsFiniteSet({e} \X col)
      /\ Cardinality({e} \X col) = Cardinality({e}) * Cardinality(col)
  BY <1>1, <1>3, FS_Product
<1>5. Cardinality({e} \X col) = 1 * n
  BY <1>1, <1>3, <1>4
<1>6. 1 * n = n
  OBVIOUS
<1>7. QED
  BY <1>4, <1>5, <1>6 DEF col

\* q has one registration more than r: its team and its seats are added.
OneMore(r, q, e, reg) ==
  r[e] = None /\ q[e] = reg /\ \A f \in Emails : f # e => q[f] = r[f]

LEMMA CountOneMore ==
  ASSUME NEW r, NEW q, NEW e \in Emails, NEW reg \in Registration, OneMore(r, q, e, reg),
         NEW types
  PROVE  /\ Cardinality(TeamsOf(q)) =
              Cardinality(TeamsOf(r)) + (IF reg.type = "BY_TEAM" THEN 1 ELSE 0)
         /\ Cardinality(SeatsOf(q, types)) =
              Cardinality(SeatsOf(r, types)) + (IF reg.type \in types THEN reg.players ELSE 0)
<1>1. /\ reg # None /\ r[e] = None /\ q[e] = reg
      /\ \A f \in Emails : f # e => q[f] = r[f]
      /\ reg.players \in 1..MaxPlayers /\ reg.players \in Nat
  BY NoneIsNoItem, PlayersType, ConstantTypes DEF OneMore
<1>2. /\ IsFiniteSet(TeamsOf(r)) /\ IsFiniteSet(SeatsOf(r, types))
      /\ Cardinality(TeamsOf(r)) \in Nat /\ Cardinality(SeatsOf(r, types)) \in Nat
  BY FiniteCounts, FS_CardinalityType
<1>5. Cardinality(TeamsOf(q)) =
        Cardinality(TeamsOf(r)) + (IF reg.type = "BY_TEAM" THEN 1 ELSE 0)
  <2>1. CASE reg.type = "BY_TEAM"
    <3>1. TeamsOf(q) = TeamsOf(r) \cup {e} /\ e \notin TeamsOf(r)
      BY <1>1, <2>1 DEF TeamsOf
    <3>2. Cardinality(TeamsOf(q)) = Cardinality(TeamsOf(r)) + 1
      BY <1>2, <3>1, FS_AddElement
    <3>3. QED
      BY <2>1, <3>2
  <2>2. CASE reg.type # "BY_TEAM"
    <3>1. TeamsOf(q) = TeamsOf(r)
      BY <1>1, <2>2 DEF TeamsOf
    <3>2. QED
      BY <1>2, <2>2, <3>1
  <2>3. QED
    BY <2>1, <2>2
<1>6. CASE reg.type \in types
  <2> DEFINE row == {e} \X (1..reg.players)
  <2>1. IsFiniteSet(row) /\ Cardinality(row) = reg.players
    BY <1>1, RowCount
  <2>2. SeatsOf(q, types) = SeatsOf(r, types) \cup row
    <3>1. ASSUME NEW seat \in SeatsOf(q, types)
          PROVE  seat \in SeatsOf(r, types) \cup row
      BY <1>1, <3>1 DEF SeatsOf
    <3>2. ASSUME NEW seat \in SeatsOf(r, types)
          PROVE  seat \in SeatsOf(q, types)
      BY <1>1, <3>2 DEF SeatsOf
    <3>3. ASSUME NEW seat \in row
          PROVE  seat \in SeatsOf(q, types)
      BY <1>1, <1>6, <3>3, ConstantTypes DEF SeatsOf
    <3>4. QED
      BY <3>1, <3>2, <3>3
  <2>3. SeatsOf(r, types) \cap row = {}
    BY <1>1 DEF SeatsOf
  <2> HIDE DEF row
  <2>4. Cardinality(SeatsOf(q, types)) = Cardinality(SeatsOf(r, types)) + reg.players
    <3>1. Cardinality(SeatsOf(r, types) \cup row) =
            Cardinality(SeatsOf(r, types)) + Cardinality(row)
              - Cardinality(SeatsOf(r, types) \cap row)
      BY <1>2, <2>1, FS_Union
    <3>2. Cardinality(SeatsOf(r, types) \cap row) = 0
      BY <2>3, FS_EmptySet
    <3>3. Cardinality(SeatsOf(q, types)) = Cardinality(SeatsOf(r, types)) + reg.players - 0
      BY <2>1, <2>2, <3>1, <3>2
    <3>4. QED
      BY <1>1, <1>2, <3>3
  <2>5. QED
    BY <1>5, <1>6, <2>4
<1>7. CASE reg.type \notin types
  <2>1. SeatsOf(q, types) = SeatsOf(r, types)
    <3>1. \A seat \in Emails \X (1..MaxPlayers) :
            seat \in SeatsOf(q, types) <=> seat \in SeatsOf(r, types)
      BY <1>1, <1>7 DEF SeatsOf
    <3>2. QED
      BY <3>1 DEF SeatsOf
  <2>2. QED
    BY <1>2, <1>5, <1>7, <2>1
<1>8. QED
  BY <1>6, <1>7

-----------------------------------------------------------------------------
\* The counters of an event item and the registrations they count.

CountsAre(ev, r) ==
  /\ ev.numTeams = Cardinality(TeamsOf(r))
  /\ ev.numRostered = Cardinality(SeatsOf(r, {"BY_TEAM"}))
  /\ ev.numTotal = Cardinality(SeatsOf(r, RegTypes))

LEMMA StatsAreCounts == SignUpStats <=> (event # None => CountsAre(event, regs))
BY DEF SignUpStats, CountsAre, Teams, Seats, TeamsOf, SeatsOf

\* A registration of a shape its email submits: a free agent is one player.
LEMMA ShapedReg ==
  ASSUME NEW reg \in Registration, NEW e \in Emails, HasShapeOf(reg, e)
  PROVE  /\ reg.type \in RegTypes
         /\ reg.type # "BY_TEAM" => reg.players = 1
<1>1. PICK shape \in ShapesOf[e] : reg.type = shape.type /\ reg.players = shape.players
  BY DEF HasShapeOf
<1>2. shape \in Shape
  BY <1>1, ConstantTypes
<1>3. QED
  BY <1>1, <1>2 DEF Shape, RegTypes

LEMMA SeatsOfOneMore ==
  ASSUME NEW r, NEW q, NEW e \in Emails, NEW reg \in Registration,
         OneMore(r, q, e, reg), HasShapeOf(reg, e)
  PROVE  /\ Cardinality(TeamsOf(q)) =
              Cardinality(TeamsOf(r)) + (IF reg.type = "BY_TEAM" THEN 1 ELSE 0)
         /\ Cardinality(SeatsOf(q, {"BY_TEAM"})) =
              Cardinality(SeatsOf(r, {"BY_TEAM"}))
                + (IF reg.type = "BY_TEAM" THEN reg.players ELSE 0)
         /\ Cardinality(SeatsOf(q, RegTypes)) =
              Cardinality(SeatsOf(r, RegTypes))
                + (IF reg.type = "BY_TEAM" THEN reg.players ELSE 1)
<1>1. reg.type \in RegTypes /\ (reg.type # "BY_TEAM" => reg.players = 1)
  BY ShapedReg
<1>2. /\ Cardinality(TeamsOf(q)) =
           Cardinality(TeamsOf(r)) + (IF reg.type = "BY_TEAM" THEN 1 ELSE 0)
      /\ \A types : Cardinality(SeatsOf(q, types)) =
           Cardinality(SeatsOf(r, types)) + (IF reg.type \in types THEN reg.players ELSE 0)
  <2>1. \A types :
          /\ Cardinality(TeamsOf(q)) =
               Cardinality(TeamsOf(r)) + (IF reg.type = "BY_TEAM" THEN 1 ELSE 0)
          /\ Cardinality(SeatsOf(q, types)) =
               Cardinality(SeatsOf(r, types))
                 + (IF reg.type \in types THEN reg.players ELSE 0)
    BY CountOneMore
  <2>2. QED
    BY <2>1
<1>3. Cardinality(SeatsOf(q, RegTypes)) = Cardinality(SeatsOf(r, RegTypes)) + reg.players
  BY <1>1, <1>2
<1>4. Cardinality(SeatsOf(q, {"BY_TEAM"})) =
        Cardinality(SeatsOf(r, {"BY_TEAM"}))
          + (IF reg.type \in {"BY_TEAM"} THEN reg.players ELSE 0)
  BY <1>2
<1>5. QED
  BY <1>1, <1>2, <1>3, <1>4

\* Registering adds to the counters what the registration adds to the counts.
LEMMA CountIn ==
  ASSUME NEW ev \in Event, NEW r \in RegMap, NEW e \in Emails, r[e] = None,
         NEW reg \in Registration, HasShapeOf(reg, e), CountsAre(ev, r)
  PROVE  CountsAre(WithRegistration(ev, reg), [r EXCEPT ![e] = reg])
<1> DEFINE q == [r EXCEPT ![e] = reg]
<1> DEFINE more == WithRegistration(ev, reg)
<1>1. /\ Cardinality(TeamsOf(q)) =
           Cardinality(TeamsOf(r)) + (IF reg.type = "BY_TEAM" THEN 1 ELSE 0)
      /\ Cardinality(SeatsOf(q, {"BY_TEAM"})) =
           Cardinality(SeatsOf(r, {"BY_TEAM"}))
             + (IF reg.type = "BY_TEAM" THEN reg.players ELSE 0)
      /\ Cardinality(SeatsOf(q, RegTypes)) =
           Cardinality(SeatsOf(r, RegTypes))
             + (IF reg.type = "BY_TEAM" THEN reg.players ELSE 1)
  <2>1. OneMore(r, q, e, reg)
    BY DEF RegMap, OneMore
  <2>2. QED
    BY <2>1, SeatsOfOneMore
<1>2. /\ more.numTeams = ev.numTeams + (IF reg.type = "BY_TEAM" THEN 1 ELSE 0)
      /\ more.numRostered = ev.numRostered
                               + (IF reg.type = "BY_TEAM" THEN reg.players ELSE 0)
      /\ more.numTotal = ev.numTotal + (IF reg.type = "BY_TEAM" THEN reg.players ELSE 1)
  <2>1. ev.numTeams \in Int /\ ev.numRostered \in Int
    BY DEF Event
  <2>2. CASE reg.type = "BY_TEAM"
    <3>1. more = EventItem(ev.config, ev.version + 1, ev.numTeams + 1,
                           ev.numRostered + reg.players, ev.numTotal + reg.players)
      BY <2>2, WithRegistrationType
    <3>2. QED
      BY <2>2, <3>1 DEF EventItem
  <2>3. CASE reg.type # "BY_TEAM"
    <3>1. more = EventItem(ev.config, ev.version + 1, ev.numTeams,
                           ev.numRostered, ev.numTotal + 1)
      BY <2>3, WithRegistrationType
    <3>2. QED
      BY <2>1, <2>3, <3>1 DEF EventItem
  <2>4. QED
    BY <2>2, <2>3
<1> HIDE DEF q, more
<1>3. CountsAre(more, q)
  BY <1>1, <1>2 DEF CountsAre
<1>4. QED
  BY <1>3 DEF more, q

\* Expiring takes away what a registration of the same shape had added.
LEMMA CountOut ==
  ASSUME NEW ev \in Event, NEW r \in RegMap, NEW e \in Emails, r[e] # None,
         HasShapeOf(r[e], e), CountsAre(ev, r),
         NEW reg \in Registration, reg.type = r[e].type, reg.players = r[e].players
  PROVE  CountsAre(WithoutRegistration(ev, reg), [r EXCEPT ![e] = None])
<1> DEFINE q == [r EXCEPT ![e] = None]
<1> DEFINE less == WithoutRegistration(ev, reg)
<1>1. OneMore(q, r, e, r[e]) /\ r[e] \in Registration
  BY DEF RegMap, OneMore
<1>2. ev.numTeams \in Int /\ ev.numRostered \in Int /\ ev.numTotal \in Int
  BY DEF Event
<1>3. /\ less.numTeams = ev.numTeams - (IF reg.type = "BY_TEAM" THEN 1 ELSE 0)
      /\ less.numRostered = ev.numRostered
                               - (IF reg.type = "BY_TEAM" THEN reg.players ELSE 0)
      /\ less.numTotal = ev.numTotal - (IF reg.type = "BY_TEAM" THEN reg.players ELSE 1)
  <2>1. CASE reg.type = "BY_TEAM"
    <3>1. less = EventItem(ev.config, ev.version + 1, ev.numTeams - 1,
                           ev.numRostered - reg.players, ev.numTotal - reg.players)
      BY <2>1, WithoutRegistrationType
    <3>2. QED
      BY <2>1, <3>1 DEF EventItem
  <2>2. CASE reg.type # "BY_TEAM"
    <3>1. less = EventItem(ev.config, ev.version + 1, ev.numTeams,
                           ev.numRostered, ev.numTotal - 1)
      BY <2>2, WithoutRegistrationType
    <3>2. QED
      BY <1>2, <2>2, <3>1 DEF EventItem
  <2>3. QED
    BY <2>1, <2>2
<1> HIDE DEF q, less
<1>4. /\ Cardinality(TeamsOf(r)) =
           Cardinality(TeamsOf(q)) + (IF reg.type = "BY_TEAM" THEN 1 ELSE 0)
      /\ Cardinality(SeatsOf(r, {"BY_TEAM"})) =
           Cardinality(SeatsOf(q, {"BY_TEAM"}))
             + (IF reg.type = "BY_TEAM" THEN reg.players ELSE 0)
      /\ Cardinality(SeatsOf(r, RegTypes)) =
           Cardinality(SeatsOf(q, RegTypes))
             + (IF reg.type = "BY_TEAM" THEN reg.players ELSE 1)
  BY <1>1, SeatsOfOneMore
<1>5. /\ Cardinality(TeamsOf(q)) \in Nat
      /\ Cardinality(SeatsOf(q, {"BY_TEAM"})) \in Nat
      /\ Cardinality(SeatsOf(q, RegTypes)) \in Nat
  BY FiniteCounts, FS_CardinalityType
<1>6. reg.players \in Int
  BY PlayersType, ConstantTypes
<1>7. CountsAre(less, q)
  BY <1>2, <1>3, <1>4, <1>5, <1>6 DEF CountsAre
<1>8. QED
  BY <1>7 DEF less, q

\* Nothing registered, nothing counted.
LEMMA CountNone ==
  ASSUME NEW r, \A e \in Emails : r[e] = None, NEW config
  PROVE  CountsAre(NewEvent(config), r)
<1>1. TeamsOf(r) = {} /\ \A types : SeatsOf(r, types) = {}
  BY DEF TeamsOf, SeatsOf
<1>2. /\ Cardinality(TeamsOf(r)) = 0 /\ Cardinality(SeatsOf(r, {"BY_TEAM"})) = 0
      /\ Cardinality(SeatsOf(r, RegTypes)) = 0
  BY <1>1, FS_EmptySet
<1>3. QED
  BY <1>2 DEF CountsAre, NewEvent

\* Registrations that differ in neither type nor size count the same.
LEMMA CountSame ==
  ASSUME NEW ev, NEW r, NEW q, CountsAre(ev, r),
         \A e \in Emails :
           /\ r[e] = None <=> q[e] = None
           /\ r[e] # None => q[e].type = r[e].type /\ q[e].players = r[e].players
  PROVE  CountsAre(ev, q)
<1>1. TeamsOf(q) = TeamsOf(r)
  BY DEF TeamsOf
<1>2. ASSUME NEW types PROVE SeatsOf(q, types) = SeatsOf(r, types)
  <2>1. ASSUME NEW seat \in Emails \X (1..MaxPlayers)
        PROVE  seat \in SeatsOf(q, types) <=> seat \in SeatsOf(r, types)
    <3>1. seat[1] \in Emails
      OBVIOUS
    <3>2. QED
      BY <3>1 DEF SeatsOf
  <2>2. QED
    BY <2>1 DEF SeatsOf
<1>3. QED
  BY <1>1, <1>2 DEF CountsAre

-----------------------------------------------------------------------------
\* Every registration, stored, replicated or held by a handler, has a shape that its
\* email submits.

ShapeFits(reg, e) == reg # None => HasShapeOf(reg, e)

LEMMA ShapesKeptParts ==
  /\ ShapesKept <=>
       /\ \A e \in Emails : ShapeFits(regs[e], e) /\ ShapeFits(replica.regs[e], e)
       /\ \A w \in Workers : call[w].pc \in HoldsReg \cup {"GetRegistrationIntent"}
                             => ShapeFits(call[w].reg, call[w].email)
  /\ ShapesKept' <=>
       /\ \A e \in Emails : ShapeFits(regs'[e], e) /\ ShapeFits(replica'.regs[e], e)
       /\ \A w \in Workers : call'[w].pc \in HoldsReg \cup {"GetRegistrationIntent"}
                             => ShapeFits(call'[w].reg, call'[w].email)
BY DEF ShapesKept, ShapeFits, HasShapeOf

LEMMA StoredShapes ==
  ASSUME TypeInv, ShapesKept, Next, NEW e \in Emails
  PROVE  ShapeFits(regs'[e], e)
<1>1. CASE Unmoved(e)
  BY <1>1, ShapesKeptParts DEF Unmoved
<1>2. ASSUME NEW w \in Workers, Registers(w, e) \/ Holds(w, e) \/ Settles(w, e)
      PROVE  ShapeFits(regs'[e], e)
  <2>1. /\ regs'[e] = call[w].reg /\ call[w].email = e
        /\ call[w].pc \in HoldsReg
    BY <1>2 DEF Registers, Holds, Settles, HoldsReg, Creating
  <2>2. QED
    BY <2>1, ShapesKeptParts
<1>3. ASSUME NEW w \in Workers, Releases(w, e) PROVE ShapeFits(regs'[e], e)
  BY <1>3 DEF Releases, ShapeFits
<1>4. QED
  BY <1>1, <1>2, <1>3, TableMoves

LEMMA HeldShapes ==
  ASSUME TypeInv, ShapesKept, Next, NEW v \in Workers,
         call'[v].pc \in HoldsReg \cup {"GetRegistrationIntent"}
  PROVE  ShapeFits(call'[v].reg, call'[v].email)
<1>1. CASE call'[v] = call[v]
  BY <1>1, ShapesKeptParts
<1>2. CASE call'[v] # call[v]
  <2>1. OwnStep(v)
    BY <1>2, MovedByOwnStep
  <2>2. CASE call'[v].pc \in {"CreateRegistration", "CreateCheckout"}
    <3>1. PICK e \in Emails, at \in Times : \E shape \in ShapesOf[e] :
            call'[v].email = e /\ call'[v].reg = NewRegistration(shape, at)
      BY <2>1, <2>2, ReachesCreate
    <3>2. QED
      BY <3>1 DEF NewRegistration, ShapeFits, HasShapeOf
  <2>3. CASE call'[v].pc = "CreateRegistrationWithPayment"
    BY <2>1, <2>3, ReachesHold, ShapesKeptParts DEF HoldsReg, Creating
  <2>4. CASE call'[v].pc = "UpdateRegistrationToPaid"
    <3>1. PICK s \in Sessions : \E seen \in GetRegistration(sessions[s].email) :
            /\ sessions[s].state = "complete" /\ seen # None
            /\ call'[v].email = sessions[s].email
            /\ call'[v].reg = PaidRegistration(seen)
      BY <2>1, <2>4, ReachesPaid
    <3>2. sessions[s].email \in Emails
      BY <3>1, TypeInvParts DEF SessionsOK
    <3>3. PICK seen \in GetRegistration(sessions[s].email) :
            /\ seen # None
            /\ call'[v].email = sessions[s].email
            /\ call'[v].reg = PaidRegistration(seen)
      BY <3>1
    <3>4. seen \in Registration
      BY <3>2, <3>3, ReadsType DEF TypeInv, PlainTypes
    <3>5. HasShapeOf(seen, sessions[s].email)
      BY <3>2, <3>3, ShapesKeptParts DEF GetRegistration, ShapeFits
    <3>6. QED
      BY <3>3, <3>4, <3>5, PaidRegistrationType DEF ShapeFits, HasShapeOf
  <2>5. CASE call'[v].pc = "GetRegistrationIntent"
    <3>1. PICK s \in Sessions :
            /\ sessions[s].state = "expired"
            /\ call'[v].email = sessions[s].email
            /\ call'[v].reg \in GetRegistration(sessions[s].email)
      BY <2>1, <2>5, ReachesReadIntent
    <3>2. sessions[s].email \in Emails
      BY <3>1, TypeInvParts DEF SessionsOK
    <3>3. QED
      BY <3>1, <3>2, ShapesKeptParts DEF GetRegistration
  <2>6. CASE call'[v].pc = "GetEvent"
    BY <2>1, <2>6, ReachesReadEvent, ShapesKeptParts
  <2>7. CASE call'[v].pc = "DeleteExpiredRegistration"
    BY <2>1, <2>7, ReachesRelease, ShapesKeptParts DEF HoldsReg
  <2>8. QED
    BY <2>2, <2>3, <2>4, <2>5, <2>6, <2>7 DEF HoldsReg, Creating
<1>3. QED
  BY <1>1, <1>2

LEMMA ShapesKeptStep ==
  ASSUME TypeInv, ShapesKept, Next
  PROVE  ShapesKept'
<1>1. ASSUME NEW e \in Emails PROVE ShapeFits(replica'.regs[e], e)
  <2>1. CASE replica' = replica
    BY <2>1, ShapesKeptParts
  <2>2. CASE replica' = Table'
    BY <2>2, StoredShapes DEF Table
  <2>3. QED
    BY <2>1, <2>2, ReplicaMoves
<1>2. QED
  BY <1>1, StoredShapes, HeldShapes, ShapesKeptParts

-----------------------------------------------------------------------------
\* What a webhook handler read while its session's own hold stood.

\* A new hold names the session its handler has opened.
LEMMA HoldNames ==
  ASSUME CallSession, NEW e, NEW w \in Workers, Holds(w, e)
  PROVE  /\ intents'[e].session = call[w].session
         /\ sessions[call[w].session].state = "open"
<1>1. /\ call[w].intent = NewIntent(call[w].session)
      /\ sessions[call[w].session].state = "open"
  BY DEF Holds, CallSession
<1>2. QED
  BY <1>1 DEF Holds, NewIntent

LEMMA HeldIsFreshStep ==
  ASSUME SettleInv, HeldIsFresh, ReplicaNamesOpened, Next
  PROVE  HeldIsFresh'
<1>1. TypeInv /\ CallSession /\ OneHandlerPerSession /\ HoldInv
  BY DEF SettleInv
<1>2. ASSUME NEW v \in Workers, NEW e \in Emails,
             call'[v].pc = "CreateRegistrationWithPayment"
      PROVE  /\ intents'[e] # None => intents'[e].session # call'[v].session
             /\ replica.intents[e] # None => replica.intents[e].session # call'[v].session
  <2>1. CASE call'[v] = call[v]
    <3>1. ASSUME NEW w \in Workers, Holds(w, e)
          PROVE  intents'[e].session # call[v].session
      <4>1. intents'[e].session = call[w].session
        BY <1>1, <3>1, HoldNames
      <4>2. w # v
        BY <1>1, <1>2, <3>1, NextPc DEF Holds, Idle
      <4>3. call[w].session # call[v].session
        BY <1>1, <1>2, <2>1, <3>1, <4>2 DEF OneHandlerPerSession, Holds
      <4>4. QED
        BY <4>1, <4>3
    <3>2. QED
      BY <1>1, <1>2, <2>1, <3>1, TableMoves
         DEF HeldIsFresh, Unmoved, Registers, Settles, Releases
  <2>2. CASE call'[v] # call[v]
    <3>1. PICK s \in Sessions : /\ UNCHANGED tableVars /\ sessions[s].state = "unused"
                                /\ call'[v].session = s
      BY <1>1, <1>2, <2>2, MovedByOwnStep, ReachesHold
    <3>2. QED
      BY <1>1, <3>1 DEF tableVars, HoldInv, ReplicaNamesOpened
  <2>3. QED
    BY <2>1, <2>2
<1>3. CASE replica' = replica
  BY <1>2, <1>3 DEF HeldIsFresh
<1>4. CASE replica' = Table'
  BY <1>2, <1>4 DEF HeldIsFresh, Table
<1>5. QED
  BY <1>3, <1>4, ReplicaMoves

LEMMA ReplicaNamesOpenedStep ==
  ASSUME SettleInv, ReplicaNamesOpened, Next
  PROVE  ReplicaNamesOpened'
<1>1. TypeInv /\ HoldInv' /\ replica \in TableType
  BY SettleInvStep, TypeInvParts DEF SettleInv, TableOK
<1>2. CASE replica' = replica
  <2>1. ASSUME NEW e \in Emails, replica.intents[e] # None
        PROVE  replica.intents[e].session \in Sessions
    BY <1>1, <2>1 DEF TableType, RegistrationIntent
  <2>2. QED
    BY <1>1, <1>2, <2>1, StaysOpened DEF ReplicaNamesOpened
<1>3. CASE replica' = Table'
  BY <1>1, <1>3 DEF ReplicaNamesOpened, HoldInv, Table
<1>4. QED
  BY <1>2, <1>3, ReplicaMoves

LEMMA ReplicaPairStep ==
  ASSUME SettleInv, HeldIsFresh, ReplicaPair, Next
  PROVE  ReplicaPair'
<1>1. TypeInv /\ CallSession /\ HoldInv
  BY DEF SettleInv
<1>2. SUFFICES ASSUME NEW e \in Emails, intents'[e] # None,
                      replica'.intents[e] = intents'[e]
               PROVE  replica'.regs[e] = regs'[e]
  BY DEF ReplicaPair
<1>3. CASE replica' = Table'
  BY <1>3 DEF Table
<1>4. CASE replica' = replica
  <2>1. CASE Unmoved(e)
    BY <1>2, <1>4, <2>1 DEF Unmoved, ReplicaPair
  <2>2. ASSUME NEW w \in Workers, Registers(w, e) PROVE FALSE
    BY <1>1, <1>2, <2>2 DEF Registers, HoldInv
  <2>3. ASSUME NEW w \in Workers, Holds(w, e) PROVE FALSE
    <3>1. intents'[e].session = call[w].session
      BY <1>1, <2>3, HoldNames
    <3>2. QED
      BY <1>2, <1>4, <2>3, <3>1 DEF Holds, HeldIsFresh
  <2>4. QED
    BY <1>1, <1>2, <2>1, <2>2, <2>3, TableMoves DEF Settles, Releases
<1>5. QED
  BY <1>3, <1>4, ReplicaMoves

\* What OwnHoldRead says of one handler.
ReadOfOwnHold(c) ==
  intents[c.email] # None /\ intents[c.email].session = c.session =>
    /\ c.pc \in Releasing => c.reg = regs[c.email]
    /\ c.pc = "UpdateRegistrationToPaid" /\ ~StaleReads
         => c.reg = PaidRegistration(regs[c.email])

LEMMA OwnHoldReadParts ==
  /\ OwnHoldRead <=> \A w \in Workers : ReadOfOwnHold(call[w])
  /\ OwnHoldRead' <=> \A w \in Workers : ReadOfOwnHold(call[w])'
BY DEF OwnHoldRead, OwnHold, ReadOfOwnHold

\* A hold of a settled session was there before the step, with its registration.
LEMMA OwnHoldStays ==
  ASSUME SettleInv, Next, NEW e \in Emails, NEW s \in Sessions,
         sessions[s].state \in {"complete", "expired"},
         intents'[e] # None, intents'[e].session = s
  PROVE  Unmoved(e)
<1>1. TypeInv /\ CallSession /\ HoldInv
  BY DEF SettleInv
<1>2. ASSUME NEW w \in Workers, Registers(w, e) PROVE FALSE
  BY <1>1, <1>2 DEF Registers, HoldInv
<1>3. ASSUME NEW w \in Workers, Holds(w, e) PROVE FALSE
  BY <1>1, <1>3, HoldNames
<1>4. QED
  BY <1>1, <1>2, <1>3, TableMoves DEF Settles, Releases

LEMMA OwnHoldReadStep ==
  ASSUME SettleInv, ReplicaPair, StaleReads = FALSE => ReadsAreFresh, OwnHoldRead, Next
  PROVE  OwnHoldRead'
<1>1. /\ TypeInv /\ CallSession /\ ExpiredHoldSeen
      /\ CallOK /\ SessionsOK
  BY TypeInvParts DEF SettleInv
<1> DEFINE Reading == Releasing \cup {"UpdateRegistrationToPaid"}
<1>2. SUFFICES ASSUME NEW v \in Workers, call'[v].pc \in Reading,
                      intents'[call'[v].email] # None,
                      intents'[call'[v].email].session = call'[v].session
               PROVE  /\ call'[v].pc \in Releasing => call'[v].reg = regs'[call'[v].email]
                      /\ call'[v].pc = "UpdateRegistrationToPaid" /\ ~StaleReads
                           => call'[v].reg = PaidRegistration(regs'[call'[v].email])
  BY OwnHoldReadParts DEF ReadOfOwnHold
<1>3. CASE call'[v] = call[v]
  <2>1. /\ call[v].email \in Emails /\ call[v].session \in Sessions
        /\ sessions[call[v].session].state \in {"complete", "expired"}
    BY <1>1, <1>2, <1>3
       DEF CallOK, CopiesPresent, HoldsEmail, HoldsSession, Releasing, PCs, CallSession
  <2>2. Unmoved(call[v].email)
    BY <1>2, <1>3, <2>1, OwnHoldStays
  <2>3. QED
    BY <1>2, <1>3, <2>2, OwnHoldReadParts DEF ReadOfOwnHold, Unmoved
<1>4. CASE call'[v] # call[v]
  <2>1. OwnStep(v)
    BY <1>1, <1>4, MovedByOwnStep
  <2>2. CASE call'[v].pc = "UpdateRegistrationToPaid"
    <3>1. SUFFICES ASSUME ~StaleReads
                   PROVE  call'[v].reg = PaidRegistration(regs'[call'[v].email])
      BY <2>2 DEF Releasing
    <3>2. StaleReads = FALSE
      BY <3>1, TableAssumption DEF TableAssumption
    <3>3. PICK s \in Sessions : \E seen \in GetRegistration(sessions[s].email) :
            /\ sessions[s].state = "complete"
            /\ call'[v].email = sessions[s].email
            /\ call'[v].reg = PaidRegistration(seen)
      BY <1>1, <2>1, <2>2, ReachesPaid
    <3>4. UNCHANGED tableVars
      BY <1>1, <2>1, <2>2, ReachesPaid
    <3>5. GetRegistration(sessions[s].email) = {regs[sessions[s].email]}
      BY <3>2 DEF ReadsAreFresh, GetRegistration, Table
    <3>6. QED
      BY <3>3, <3>4, <3>5 DEF tableVars
  <2>3. CASE call'[v].pc = "GetRegistrationIntent"
    <3>1. PICK s \in Sessions :
            /\ sessions[s].state = "expired"
            /\ call'[v].session = s /\ call'[v].email = sessions[s].email
            /\ call'[v].reg \in GetRegistration(sessions[s].email)
      BY <1>1, <2>1, <2>3, ReachesReadIntent
    <3>2. UNCHANGED tableVars /\ sessions[s].email \in Emails
      BY <1>1, <2>1, <2>3, <3>1, ReachesReadIntent DEF SessionsOK
    <3>3. replica.regs[sessions[s].email] = regs[sessions[s].email]
      BY <1>1, <1>2, <3>1, <3>2 DEF tableVars, ExpiredHoldSeen, ReplicaPair
    <3>4. QED
      BY <2>3, <3>1, <3>2, <3>3 DEF tableVars, GetRegistration
  <2>4. CASE call'[v].pc \in {"GetEvent", "DeleteExpiredRegistration"}
    <3>1. /\ UNCHANGED tableVars /\ call[v].pc \in Releasing
          /\ call'[v].session = call[v].session /\ call'[v].email = call[v].email
          /\ call'[v].reg = call[v].reg
      BY <1>1, <2>1, <2>4, ReachesReadEvent, ReachesRelease DEF Releasing
    <3>2. QED
      BY <1>2, <2>4, <3>1, OwnHoldReadParts DEF ReadOfOwnHold, tableVars
  <2>5. QED
    BY <1>2, <2>2, <2>3, <2>4 DEF Releasing
<1>5. QED
  BY <1>3, <1>4

-----------------------------------------------------------------------------
\* SignUpStats.

\* A webhook handler that mixes up two registrations: of its own email, and with its copy.
LEMMA MixUpCopies ==
  ASSUME TypeInv, NEW w \in Workers, MixUp(w)
  PROVE  /\ call[w].pc \in {"UpdateRegistrationToPaid", "DeleteExpiredRegistration"}
         /\ call[w].email \in Emails /\ call[w].reg \in Registration
BY TypeInvParts DEF MixUp, CallOK, CopiesPresent, HoldsEmail, HoldsReg, PCs

\* What a step settles without a mix-up keeps its type and size.
LEMMA SettledKeepsShape ==
  ASSUME TypeInv, Next, \A w \in Workers : ~MixUp(w),
         NEW e \in Emails, regs[e] # None, regs'[e] # None
  PROVE  regs'[e].type = regs[e].type /\ regs'[e].players = regs[e].players
<1>1. CASE Unmoved(e)
  BY <1>1 DEF Unmoved
<1>2. ASSUME NEW w \in Workers, Settles(w, e)
      PROVE  regs'[e].type = regs[e].type /\ regs'[e].players = regs[e].players
  BY <1>2 DEF Settles, MixUp
<1>3. QED
  BY <1>1, <1>2, TableMoves DEF Registers, Holds, Releases

LEMMA SignUpStatsStep ==
  ASSUME EventInv, ShapesKept, EventBeforeRegs, SignUpStats, Next,
         \A w \in Workers : ~MixUp(w)
  PROVE  SignUpStats'
<1>1. /\ TypeInv /\ CopiesFit
      /\ event \in Event \cup {None} /\ regs \in RegMap
  BY TypeInvParts DEF EventInv, SettleInv, TableOK, RegMap
<1>2. SUFFICES ASSUME event' # None PROVE CountsAre(event', regs')
  BY DEF SignUpStats, CountsAre, Teams, Seats, TeamsOf, SeatsOf
<1>3. CASE event' = event /\ SameEmails
  <2>1. CountsAre(event, regs)
    BY <1>2, <1>3, StatsAreCounts
  <2>2. ASSUME NEW e \in Emails, regs[e] # None
        PROVE  regs'[e].type = regs[e].type /\ regs'[e].players = regs[e].players
    BY <1>1, <1>3, <2>2, SettledKeepsShape DEF SameEmails
  <2>3. CountsAre(event, regs')
    BY <1>3, <2>1, <2>2, CountSame DEF SameEmails
  <2>4. QED
    BY <1>3, <2>3
<1>4. CASE event = None /\ regs' = regs /\ \E config \in Configs : event' = NewEvent(config)
  BY <1>4, CountNone DEF EventBeforeRegs
<1>5. ASSUME NEW w \in Workers, Writes(w) PROVE CountsAre(event', regs')
  <2> DEFINE c == call[w]
  <2>1. event \in Event /\ CountsAre(event, regs)
    BY <1>1, <1>5, StatsAreCounts DEF Writes
  <2>2. c.pc \in HoldsEvent /\ c.event.version = event.version + 1 /\ event' = c.event
    BY <1>5 DEF Writes, HoldsEvent, Creating
  <2>3. Fits(c, event)
    BY <1>1, <2>2, CopiesFitParts
  <2>4. CASE c.pc = "UpdateEvent"
    <3>1. c.event.config \in Config /\ regs' = regs
      BY <1>5, <2>4 DEF Writes, Event
    <3>2. event' = PatchedEvent(event, c.event.config)
      BY <2>2, <2>3, <2>4 DEF Fits
    <3>3. /\ event'.numTeams = event.numTeams
          /\ event'.numRostered = event.numRostered
          /\ event'.numTotal = event.numTotal
      BY <2>1, <3>1, <3>2, PatchedEventType DEF EventItem
    <3>4. QED
      BY <2>1, <3>1, <3>3 DEF CountsAre
  <2>5. CASE c.pc \in {"CreateRegistration", "CreateRegistrationWithPayment"}
    <3>1. /\ c.email \in Emails /\ c.reg \in Registration /\ regs[c.email] = None
          /\ regs' = [regs EXCEPT ![c.email] = c.reg]
      BY <1>5, <2>5 DEF Writes
    <3>2. event' = WithRegistration(event, c.reg)
      BY <2>2, <2>3, <2>5 DEF Fits, Creating
    <3>3. HasShapeOf(c.reg, c.email)
      BY <1>1, <2>5, <3>1, NoneIsNoItem, ShapesKeptParts DEF ShapeFits, HoldsReg, Creating
    <3>4. QED
      BY <1>1, <2>1, <3>1, <3>2, <3>3, CountIn
  <2>6. CASE c.pc = "DeleteExpiredRegistration"
    <3>1. /\ c.email \in Emails /\ c.reg \in Registration /\ regs[c.email] # None
          /\ regs' = [regs EXCEPT ![c.email] = None]
      BY <1>5, <2>6 DEF Writes
    <3>2. event' = WithoutRegistration(event, c.reg)
      BY <2>2, <2>3, <2>6 DEF Fits
    <3>3. HasShapeOf(regs[c.email], c.email)
      BY <3>1, ShapesKeptParts DEF ShapeFits
    <3>4. regs'[c.email] = None
      BY <1>1, <3>1 DEF RegMap
    <3>5. c.reg.type = regs[c.email].type /\ c.reg.players = regs[c.email].players
      BY <2>6, <3>1, <3>4 DEF MixUp
    <3>6. QED
      BY <1>1, <2>1, <3>1, <3>2, <3>3, <3>5, CountOut
  <2>7. QED
    BY <1>5, <2>4, <2>5, <2>6 DEF Writes
<1>6. QED
  BY <1>1, <1>3, <1>4, <1>5, EventMoves DEF EventMove

\* With one shape per email, two registrations of an email cannot be mixed up.
LEMMA OneShape ==
  ASSUME OneShapePerEmail, NEW e \in Emails, NEW a, NEW b, HasShapeOf(a, e), HasShapeOf(b, e)
  PROVE  a.type = b.type /\ a.players = b.players
BY DEF OneShapePerEmail, HasShapeOf

LEMMA OneShapeNoMixUp ==
  ASSUME OneShapePerEmail, TypeInv, ShapesKept, NEW w \in Workers
  PROVE  ~MixUp(w)
<1>1. SUFFICES ASSUME MixUp(w) PROVE FALSE
  OBVIOUS
<1> DEFINE c == call[w]
<1>2. /\ c.pc \in HoldsReg /\ c.reg # None /\ c.email \in Emails
      /\ regs[c.email] # None
  BY <1>1, MixUpCopies, NoneIsNoItem DEF MixUp, HoldsReg
<1>3. HasShapeOf(c.reg, c.email) /\ HasShapeOf(regs[c.email], c.email)
  BY <1>2, ShapesKeptParts DEF ShapeFits
<1>4. c.reg.type = regs[c.email].type /\ c.reg.players = regs[c.email].players
  BY <1>2, <1>3, OneShape
<1>5. QED
  BY <1>1, <1>4 DEF MixUp

\* Nobody registers for an event that does not exist.
StatsInv == EventInv /\ ShapesKept /\ EventBeforeRegs /\ SignUpStats

LEMMA StatsInvInit == Init => StatsInv
<1> SUFFICES ASSUME Init PROVE StatsInv
  OBVIOUS
<1>1. /\ event = None /\ replica.event = None
      /\ \A e \in Emails : regs[e] = None /\ replica.regs[e] = None
      /\ \A w \in Workers : call[w].pc = "idle"
  BY DEF Init, TableInit, Table, NoItems, Idle
<1>2. EventInv
  BY <1>1, SettleInvInit DEF EventInv, ReplicaBehind, CopiesFit, HoldsEvent, Creating
<1>3. ShapesKept
  BY <1>1, ShapesKeptParts DEF ShapeFits, HoldsReg, Creating
<1>4. QED
  BY <1>1, <1>2, <1>3 DEF StatsInv, EventBeforeRegs, SignUpStats

LEMMA StatsInvStutters == StatsInv /\ UNCHANGED vars => StatsInv'
<1> SUFFICES ASSUME StatsInv, UNCHANGED vars PROVE StatsInv'
  OBVIOUS
<1>1. EventInv'
  BY SettleInvStep
     DEF StatsInv, EventInv, ReplicaBehind, CopiesFit, vars
<1>2. ShapesKept' /\ EventBeforeRegs'
  BY DEF StatsInv, ShapesKept, EventBeforeRegs, vars
<1>3. SignUpStats'
  BY DEF StatsInv, SignUpStats, Teams, Seats, vars
<1>4. QED
  BY <1>1, <1>2, <1>3 DEF StatsInv

LEMMA StatsInvStep ==
  ASSUME OneShapePerEmail
  PROVE  StatsInv /\ [Next]_vars => StatsInv'
<1>1. ASSUME StatsInv, Next PROVE StatsInv'
  <2>1. TypeInv /\ EventInv
    BY <1>1 DEF StatsInv, EventInv, SettleInv
  <2>2. EventInv'
    BY <1>1, <2>1, EventInvStep
  <2>3. QED
    BY <1>1, <2>1, <2>2, OneShapeNoMixUp, ShapesKeptStep, EventBeforeRegsStep, SignUpStatsStep
       DEF StatsInv
<1>2. QED
  BY <1>1, StatsInvStutters

(* CountersCount: where no email comes back with another shape, the three counters of *)
(* the event item equal at all times what counting its registrations gives, whatever  *)
(* sign-ups, patches, expiries and redeliveries do to each other (SignUpStats).       *)
THEOREM CountersCount ==
  ASSUME OneShapePerEmail
  PROVE  Spec => []SignUpStats
<1>1. StatsInv => SignUpStats
  BY DEF StatsInv
<1>2. QED
  BY <1>1, StatsInvInit, StatsInvStep, PTL DEF Spec
-----------------------------------------------------------------------------
\* Emails that come back with another shape.

ReadInv ==
  /\ EventInv /\ ShapesKept /\ EventBeforeRegs
  /\ HeldIsFresh /\ ReplicaNamesOpened /\ ReplicaPair /\ OwnHoldRead
  /\ StaleReads = FALSE => ReadsAreFresh

LEMMA ReadInvInit == Init => ReadInv
<1> SUFFICES ASSUME Init PROVE ReadInv
  OBVIOUS
<1>1. /\ replica = Table
      /\ \A e \in Emails : intents[e] = None /\ replica.intents[e] = None
      /\ \A w \in Workers : call[w].pc = "idle"
  BY DEF Init, TableInit, Table, NoItems, Idle
<1>2. HeldIsFresh /\ ReplicaNamesOpened /\ ReplicaPair
  BY <1>1 DEF HeldIsFresh, ReplicaNamesOpened, ReplicaPair
<1>3. OwnHoldRead
  BY <1>1 DEF OwnHoldRead, Releasing
<1>4. QED
  BY <1>1, <1>2, <1>3, StatsInvInit DEF ReadInv, StatsInv, ReadsAreFresh

LEMMA ReadInvStep == ReadInv /\ [Next]_vars => ReadInv'
<1>1. ASSUME ReadInv, Next PROVE ReadInv'
  <2>1. TypeInv /\ SettleInv /\ EventInv'
    BY <1>1, EventInvStep DEF ReadInv, EventInv, SettleInv
  <2>2. ShapesKept' /\ EventBeforeRegs'
    BY <1>1, <2>1, ShapesKeptStep, EventBeforeRegsStep DEF ReadInv
  <2>3. HeldIsFresh' /\ ReplicaNamesOpened' /\ ReplicaPair' /\ OwnHoldRead'
    BY <1>1, <2>1, HeldIsFreshStep, ReplicaNamesOpenedStep, ReplicaPairStep, OwnHoldReadStep
       DEF ReadInv
  <2>4. StaleReads = FALSE => ReadsAreFresh'
    BY <1>1, ReadsAreFreshStep DEF ReadInv
  <2>5. QED
    BY <2>1, <2>2, <2>3, <2>4 DEF ReadInv
<1>2. ASSUME ReadInv, UNCHANGED vars PROVE ReadInv'
  <2>1. EventInv'
    BY <1>2, EventInvStep DEF ReadInv
  <2>2. ShapesKept' /\ EventBeforeRegs'
    BY <1>2 DEF ReadInv, ShapesKept, EventBeforeRegs, vars
  <2>3. HeldIsFresh' /\ ReplicaNamesOpened' /\ ReplicaPair'
    BY <1>2 DEF ReadInv, HeldIsFresh, ReplicaNamesOpened, ReplicaPair, vars
  <2>4. OwnHoldRead' /\ (StaleReads = FALSE => ReadsAreFresh')
    BY <1>2 DEF ReadInv, OwnHoldRead, OwnHold, ReadsAreFresh, Table, vars
  <2>5. QED
    BY <2>1, <2>2, <2>3, <2>4 DEF ReadInv
<1>3. QED
  BY <1>1, <1>2

\* A handler that finds its session's own hold takes no registration for another.
LEMMA OwnHoldNoMixUp ==
  ASSUME ReadInv, NEW w \in Workers, MixUp(w), OwnHold(w)
  PROVE  StaleReads /\ call[w].pc = "UpdateRegistrationToPaid"
<1> DEFINE c == call[w]
<1>1. /\ c.pc \in {"UpdateRegistrationToPaid", "DeleteExpiredRegistration"}
      /\ regs[c.email] # None /\ c.email \in Emails
      /\ regs \in RegMap
  BY MixUpCopies, TypeInvParts DEF ReadInv, EventInv, SettleInv, MixUp, TableOK, RegMap
<1>2. c.reg # regs[c.email]
  BY DEF MixUp
<1>3. c.pc = "UpdateRegistrationToPaid"
  BY <1>1, <1>2 DEF ReadInv, OwnHoldRead, Releasing
<1>4. CASE ~StaleReads
  <2>1. c.reg = PaidRegistration(regs[c.email])
    BY <1>3, <1>4 DEF ReadInv, OwnHoldRead
  <2>2. c.reg.type = regs[c.email].type /\ c.reg.players = regs[c.email].players
    BY <1>1, <2>1, PaidRegistrationType DEF RegMap
  <2>3. QED
    BY <2>2 DEF MixUp
<1>5. QED
  BY <1>3, <1>4

(* OnlyMixUpsMakeCountsWrong: without any assumption on what emails submit, a step    *)
(* that makes a counter wrong is one in which a webhook handler overwrites or deletes *)
(* a registration of another shape than the one it read, found under its email but    *)
(* not under a hold of its own session (OnlyMixUpsMiscount).                          *)
THEOREM OnlyMixUpsMakeCountsWrong == Spec => OnlyMixUpsMiscount
<1> DEFINE Blamed == SignUpStats /\ ~SignUpStats' =>
                       \E w \in Workers :
                         /\ MixUp(w)
                         /\ OwnHold(w) => StaleReads /\ call[w].pc = "UpdateRegistrationToPaid"
<1>1. ASSUME ReadInv, Next PROVE Blamed
  <2>1. SUFFICES ASSUME SignUpStats, ~SignUpStats' PROVE \E w \in Workers : MixUp(w)
    BY <1>1, OwnHoldNoMixUp
  <2>2. QED
    BY <1>1, <2>1, SignUpStatsStep DEF ReadInv
<1>2. ASSUME UNCHANGED vars PROVE Blamed
  BY <1>2 DEF SignUpStats, Teams, Seats, vars
<1>3. ReadInv /\ [Next]_vars => [Blamed]_vars
  BY <1>1, <1>2
<1>4. QED
  BY <1>3, ReadInvInit, ReadInvStep, PTL DEF Spec, OnlyMixUpsMiscount
=============================================================================
