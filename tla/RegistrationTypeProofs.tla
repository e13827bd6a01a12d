------------------------ MODULE RegistrationTypeProofs ------------------------
(***************************************************************************)
(* Type correctness of RegistrationFlow.  TypeOK is not inductive by       *)
(* itself: a handler writes to the table the copies it holds, so the proof *)
(* carries TypeInv, which says that the copies it is about to use are      *)
(* there (CallOK), that an open session has an email (SessionsOK) and that *)
(* the session a handler offers is open (HeldIsOpened).                    *)
(***************************************************************************)
EXTENDS RegistrationInvariant, TLAPS

-----------------------------------------------------------------------------
\* What the assumptions say of the constants' types.

LEMMA ConstantTypes ==
  /\ Configs \subseteq Config
  /\ Times \subseteq Int
  /\ MaxPlayers \in Nat \ {0}
  /\ \A e \in Emails : ShapesOf[e] \subseteq Shape
BY TableAssumption, FlowAssumption DEF TableAssumption, FlowAssumption

LEMMA NoneIsNoItem ==
  /\ None \notin Event
  /\ None \notin Registration
  /\ None \notin RegistrationIntent
  /\ None \notin Sessions
  /\ None \notin Emails
BY TableAssumption DEF TableAssumption

-----------------------------------------------------------------------------
\* What the handlers compute stays in its type.

LEMMA IdleType == Idle \in Call /\ CopiesPresent(Idle)
BY DEF Idle, Call, PCs, CopiesPresent, HoldsEmail, HoldsSession, HoldsReg, HoldsIntent,
       HoldsEvent, Creating

LEMMA NoReplyType == NoReply \in Reply
BY DEF NoReply, Reply

\* An event item, field by field.
EventItem(config, version, teams, rostered, total) ==
  [config |-> config, version |-> version, numTeams |-> teams,
   numRostered |-> rostered, numTotal |-> total]

LEMMA EventItemType ==
  ASSUME NEW config \in Config, NEW version \in Nat,
         NEW teams \in Int, NEW rostered \in Int, NEW total \in Int
  PROVE  EventItem(config, version, teams, rostered, total) \in Event
BY DEF EventItem, Event

\* A new event, a patched one and one with a registration more or less are events.
LEMMA NewEventType ==
  ASSUME NEW config \in Configs
  PROVE  NewEvent(config) = EventItem(config, 1, 0, 0, 0) /\ NewEvent(config) \in Event
BY ConstantTypes DEF NewEvent, Event, EventItem

LEMMA BumpType ==
  ASSUME NEW ev \in Event
  PROVE  /\ Bump(ev) = EventItem(ev.config, ev.version + 1, ev.numTeams,
                                 ev.numRostered, ev.numTotal)
         /\ Bump(ev) \in Event
BY DEF Bump, Event, EventItem

LEMMA PatchedEventType ==
  ASSUME NEW ev \in Event, NEW config \in Config
  PROVE  /\ PatchedEvent(ev, config) = EventItem(config, ev.version + 1, ev.numTeams,
                                                 ev.numRostered, ev.numTotal)
         /\ PatchedEvent(ev, config) \in Event
<1> DEFINE b == Bump(ev)
<1>1. /\ b = EventItem(ev.config, ev.version + 1, ev.numTeams, ev.numRostered, ev.numTotal)
      /\ b \in Event
  BY BumpType
<1> HIDE DEF b
<1>2. [b EXCEPT !.config = config] = EventItem(config, ev.version + 1, ev.numTeams,
                                               ev.numRostered, ev.numTotal)
  BY <1>1 DEF Event, EventItem
<1>3. PatchedEvent(ev, config) = [b EXCEPT !.config = config]
  BY DEF PatchedEvent, b
<1>4. EventItem(config, ev.version + 1, ev.numTeams, ev.numRostered, ev.numTotal) \in Event
  BY EventItemType DEF Event
<1>5. QED
  BY <1>2, <1>3, <1>4

LEMMA PlayersType == ASSUME NEW reg \in Registration PROVE reg.players \in 1..MaxPlayers
BY DEF Registration

LEMMA EventIsItem ==
  ASSUME NEW ev \in Event
  PROVE  ev = EventItem(ev.config, ev.version, ev.numTeams, ev.numRostered, ev.numTotal)
BY DEF Event, EventItem

LEMMA BumpItem ==
  ASSUME NEW ev \in Event, NEW config, NEW version, NEW teams, NEW rostered, NEW total,
         ev = EventItem(config, version, teams, rostered, total)
  PROVE  /\ Bump(ev) = EventItem(config, version + 1, teams, rostered, total)
         /\ Bump(ev) \in Event
BY BumpType DEF EventItem

\* Counting a team or a player in or out changes the counters only.
LEMMA RegisterTeamType ==
  ASSUME NEW ev \in Event, NEW size \in Int
  PROVE  /\ registerTeam(ev, size) =
              EventItem(ev.config, ev.version, ev.numTeams + 1,
                        ev.numRostered + size, ev.numTotal + size)
         /\ registerTeam(ev, size) \in Event
<1> DEFINE a == ev.numTeams + 1
<1> DEFINE b == ev.numTotal + size
<1> DEFINE c == ev.numRostered + size
<1> DEFINE r == [ev EXCEPT !.numTeams = a, !.numTotal = b, !.numRostered = c]
<1>1. a \in Int /\ b \in Int /\ c \in Int
  BY DEF Event
<1>2. registerTeam(ev, size) = r
  BY DEF registerTeam
<1> HIDE DEF a, b, c
<1>3. /\ r \in Event
      /\ r.config = ev.config /\ r.version = ev.version
      /\ r.numTeams = a /\ r.numTotal = b /\ r.numRostered = c
  BY <1>1 DEF Event
<1>4. r = EventItem(ev.config, ev.version, a, c, b)
  BY <1>3, EventIsItem
<1>5. QED
  BY <1>2, <1>3, <1>4 DEF a, b, c

LEMMA UnregisterTeamType ==
  ASSUME NEW ev \in Event, NEW size \in Int
  PROVE  /\ unregisterTeamFromEvent(ev, size) =
              EventItem(ev.config, ev.version, ev.numTeams - 1,
                        ev.numRostered - size, ev.numTotal - size)
         /\ unregisterTeamFromEvent(ev, size) \in Event
<1> DEFINE a == ev.numTeams - 1
<1> DEFINE b == ev.numTotal - size
<1> DEFINE c == ev.numRostered - size
<1> DEFINE r == [ev EXCEPT !.numTeams = a, !.numTotal = b, !.numRostered = c]
<1>1. a \in Int /\ b \in Int /\ c \in Int
  BY DEF Event
<1>2. unregisterTeamFromEvent(ev, size) = r
  BY DEF unregisterTeamFromEvent
<1> HIDE DEF a, b, c
<1>3. /\ r \in Event
      /\ r.config = ev.config /\ r.version = ev.version
      /\ r.numTeams = a /\ r.numTotal = b /\ r.numRostered = c
  BY <1>1 DEF Event
<1>4. r = EventItem(ev.config, ev.version, a, c, b)
  BY <1>3, EventIsItem
<1>5. QED
  BY <1>2, <1>3, <1>4 DEF a, b, c

LEMMA RegisterIndividualType ==
  ASSUME NEW ev \in Event
  PROVE  /\ registerIndividualAsFreeAgent(ev) = EventItem(ev.config, ev.version, ev.numTeams,
                                  ev.numRostered, ev.numTotal + 1)
         /\ registerIndividualAsFreeAgent(ev) \in Event
BY DEF registerIndividualAsFreeAgent, Event, EventItem

LEMMA UnregisterIndividualType ==
  ASSUME NEW ev \in Event
  PROVE  /\ unregisterIndividualFromEvent(ev) = EventItem(ev.config, ev.version, ev.numTeams,
                                  ev.numRostered, ev.numTotal - 1)
         /\ unregisterIndividualFromEvent(ev) \in Event
BY DEF unregisterIndividualFromEvent, Event, EventItem

\* Registering adds a team and its players, or one player.
LEMMA WithRegistrationType ==
  ASSUME NEW ev \in Event, NEW reg \in Registration
  PROVE  /\ WithRegistration(ev, reg) \in Event
         /\ WithRegistration(ev, reg) =
              IF reg.type = "BY_TEAM"
                THEN EventItem(ev.config, ev.version + 1, ev.numTeams + 1,
                               ev.numRostered + reg.players, ev.numTotal + reg.players)
                ELSE EventItem(ev.config, ev.version + 1, ev.numTeams,
                               ev.numRostered, ev.numTotal + 1)
<1>1. reg.players \in Int
  BY PlayersType, ConstantTypes
<1>2. CASE reg.type = "BY_TEAM"
  <2> DEFINE changed == registerTeam(ev, reg.players)
  <2>1. WithRegistration(ev, reg) = Bump(changed)
    BY <1>2 DEF WithRegistration
  <2>2. /\ changed \in Event
        /\ changed = EventItem(ev.config, ev.version, ev.numTeams + 1,
                               ev.numRostered + reg.players, ev.numTotal + reg.players)
    BY <1>1, RegisterTeamType
  <2> HIDE DEF changed
  <2>3. QED
    BY <1>2, <2>1, <2>2, BumpItem
<1>3. CASE reg.type # "BY_TEAM"
  <2> DEFINE changed == registerIndividualAsFreeAgent(ev)
  <2>1. WithRegistration(ev, reg) = Bump(changed)
    BY <1>3 DEF WithRegistration
  <2>2. /\ changed \in Event
        /\ changed = EventItem(ev.config, ev.version, ev.numTeams,
                               ev.numRostered, ev.numTotal + 1)
    BY RegisterIndividualType
  <2> HIDE DEF changed
  <2>3. QED
    BY <1>3, <2>1, <2>2, BumpItem
<1>4. QED
  BY <1>2, <1>3

\* Unregistering takes away a team and its players, or one player.
LEMMA WithoutRegistrationType ==
  ASSUME NEW ev \in Event, NEW reg \in Registration
  PROVE  /\ WithoutRegistration(ev, reg) \in Event
         /\ WithoutRegistration(ev, reg) =
              IF reg.type = "BY_TEAM"
                THEN EventItem(ev.config, ev.version + 1, ev.numTeams - 1,
                               ev.numRostered - reg.players, ev.numTotal - reg.players)
                ELSE EventItem(ev.config, ev.version + 1, ev.numTeams,
                               ev.numRostered, ev.numTotal - 1)
<1>1. reg.players \in Int
  BY PlayersType, ConstantTypes
<1>2. CASE reg.type = "BY_TEAM"
  <2> DEFINE changed == unregisterTeamFromEvent(ev, reg.players)
  <2>1. WithoutRegistration(ev, reg) = Bump(changed)
    BY <1>2 DEF WithoutRegistration
  <2>2. /\ changed \in Event
        /\ changed = EventItem(ev.config, ev.version, ev.numTeams - 1,
                               ev.numRostered - reg.players, ev.numTotal - reg.players)
    BY <1>1, UnregisterTeamType
  <2> HIDE DEF changed
  <2>3. QED
    BY <1>2, <2>1, <2>2, BumpItem
<1>3. CASE reg.type # "BY_TEAM"
  <2> DEFINE changed == unregisterIndividualFromEvent(ev)
  <2>1. WithoutRegistration(ev, reg) = Bump(changed)
    BY <1>3 DEF WithoutRegistration
  <2>2. /\ changed \in Event
        /\ changed = EventItem(ev.config, ev.version, ev.numTeams,
                               ev.numRostered, ev.numTotal - 1)
    BY UnregisterIndividualType
  <2> HIDE DEF changed
  <2>3. QED
    BY <1>3, <2>1, <2>2, BumpItem
<1>4. QED
  BY <1>2, <1>3

LEMMA NewRegistrationType ==
  ASSUME NEW e \in Emails, NEW shape \in ShapesOf[e], NEW at \in Times
  PROVE  /\ NewRegistration(shape, at) \in Registration
         /\ NewRegistration(shape, at).version = 1
         /\ NewRegistration(shape, at).paid = FALSE
<1>1. shape \in Shape
  BY ConstantTypes
<1>2. QED
  BY <1>1 DEF NewRegistration, Registration, Shape

LEMMA PaidRegistrationType ==
  ASSUME NEW reg \in Registration
  PROVE  /\ PaidRegistration(reg) \in Registration
         /\ PaidRegistration(reg).paid = TRUE
         /\ PaidRegistration(reg).type = reg.type
         /\ PaidRegistration(reg).players = reg.players
         /\ PaidRegistration(reg).version = reg.version + 1
<1> DEFINE b == Bump(reg)
<1>1. /\ b \in Registration
      /\ b.type = reg.type /\ b.players = reg.players /\ b.version = reg.version + 1
  BY DEF Bump, Registration
<1>2. PaidRegistration(reg) = [b EXCEPT !.paid = TRUE]
  BY DEF PaidRegistration
<1> HIDE DEF b
<1>3. QED
  BY <1>1, <1>2 DEF Registration

-----------------------------------------------------------------------------
\* A handler that moves keeps every other handler's copies.

LEMMA GotoKeeps ==
  ASSUME call \in [Workers -> Call], NEW w \in Workers, NEW next \in Call,
         CallOK, CopiesPresent(next), Goto(w, next)
  PROVE  /\ call' \in [Workers -> Call]
         /\ CallOK'
         /\ reply' \in Reply
<1>1. \A v \in Workers : call'[v] = IF v = w THEN next ELSE call[v]
  BY DEF Goto
<1>2. call' \in [Workers -> Call]
  BY DEF Goto
<1>3. \A v \in Workers : CopiesPresent(call'[v])
  BY <1>1 DEF CallOK
<1>4. CallOK'
  BY <1>3 DEF CallOK, CopiesPresent
<1>5. QED
  BY <1>2, <1>4, NoReplyType DEF Goto

LEMMA ReturnKeeps ==
  ASSUME call \in [Workers -> Call], NEW w \in Workers,
         NEW to \in {"PATCH", "register", "registrations", "webhook"},
         NEW status \in {200, 403, 404, 409, 500}, NEW e \in Emails \cup {None},
         CallOK, Return(w, to, status, e)
  PROVE  /\ call' \in [Workers -> Call]
         /\ CallOK'
         /\ reply' \in Reply
<1>1. \A v \in Workers : call'[v] = IF v = w THEN Idle ELSE call[v]
  BY DEF Return
<1>2. call' \in [Workers -> Call]
  BY IdleType DEF Return
<1>3. \A v \in Workers : CopiesPresent(call'[v])
  BY <1>1, IdleType DEF CallOK
<1>4. CallOK'
  BY <1>3 DEF CallOK, CopiesPresent
<1>5. reply' \in Reply
  BY DEF Return, Reply
<1>6. QED
  BY <1>2, <1>4, <1>5

-----------------------------------------------------------------------------
\* What the reads answer, and what the writes leave.

LEMMA ReadsType ==
  ASSUME TypeOK
  PROVE  /\ GetEvent \subseteq Event \cup {None}
         /\ \A e \in Emails :
              /\ GetRegistration(e) \subseteq Registration \cup {None}
              /\ GetRegistrationIntent(e) \subseteq RegistrationIntent \cup {None}
BY DEF TypeOK, TableType, GetEvent, GetRegistration, GetRegistrationIntent

LEMMA WrittenType ==
  ASSUME replica \in TableType,
         event' \in Event \cup {None},
         regs' \in [Emails -> Registration \cup {None}],
         intents' \in [Emails -> RegistrationIntent \cup {None}],
         Written
  PROVE  replica' \in TableType
<1>1. CASE StaleReads
  BY <1>1 DEF Written
<1>2. CASE ~StaleReads
  <2>1. replica' = [event |-> event', regs |-> regs', intents |-> intents']
    BY <1>2 DEF Written, Table
  <2>2. QED
    BY <2>1 DEF TableType
<1>3. QED
  BY <1>1, <1>2

\* The table's part of TypeOK.
TableOK ==
  /\ event \in Event \cup {None}
  /\ regs \in [Emails -> Registration \cup {None}]
  /\ intents \in [Emails -> RegistrationIntent \cup {None}]
  /\ replica \in TableType

LEMMA EventWritesType ==
  ASSUME TableOK, NEW ev \in Event, CreateEvent(ev) \/ UpdateEvent(ev)
  PROVE  TableOK'
BY WrittenType DEF TableOK, CreateEvent, UpdateEvent

LEMMA CreateRegistrationType ==
  ASSUME TableOK, NEW e \in Emails, NEW reg \in Registration, NEW ev \in Event,
         CreateRegistration(e, reg, ev)
  PROVE  TableOK'
<1>1. /\ event' \in Event \cup {None}
      /\ regs' \in [Emails -> Registration \cup {None}]
      /\ intents' \in [Emails -> RegistrationIntent \cup {None}]
      /\ Written
  BY DEF TableOK, CreateRegistration
<1>2. QED
  BY <1>1, WrittenType DEF TableOK

LEMMA CreateRegistrationWithPaymentType ==
  ASSUME TableOK, NEW e \in Emails, NEW reg \in Registration,
         NEW intent \in RegistrationIntent, NEW ev \in Event,
         CreateRegistrationWithPayment(e, reg, intent, ev)
  PROVE  TableOK'
<1>1. /\ event' \in Event \cup {None}
      /\ regs' \in [Emails -> Registration \cup {None}]
      /\ intents' \in [Emails -> RegistrationIntent \cup {None}]
      /\ Written
  BY DEF TableOK, CreateRegistrationWithPayment
<1>2. QED
  BY <1>1, WrittenType DEF TableOK

LEMMA UpdateRegistrationToPaidType ==
  ASSUME TableOK, NEW e \in Emails, NEW reg \in Registration,
         UpdateRegistrationToPaid(e, reg)
  PROVE  TableOK'
<1>1. /\ event' \in Event \cup {None}
      /\ regs' \in [Emails -> Registration \cup {None}]
      /\ intents' \in [Emails -> RegistrationIntent \cup {None}]
      /\ Written
  BY DEF TableOK, UpdateRegistrationToPaid
<1>2. QED
  BY <1>1, WrittenType DEF TableOK

LEMMA DeleteExpiredRegistrationType ==
  ASSUME TableOK, NEW e \in Emails, NEW reg \in Registration,
         NEW intent \in RegistrationIntent, NEW ev \in Event,
         DeleteExpiredRegistration(e, reg, intent, ev)
  PROVE  TableOK'
<1>1. /\ event' \in Event \cup {None}
      /\ regs' \in [Emails -> Registration \cup {None}]
      /\ intents' \in [Emails -> RegistrationIntent \cup {None}]
      /\ Written
  BY DEF TableOK, DeleteExpiredRegistration
<1>2. QED
  BY <1>1, WrittenType DEF TableOK

LEMMA SessionSetType ==
  ASSUME sessions \in [Sessions -> Stripe!SessionType], SessionsOK,
         NEW s \in Sessions, NEW r \in Stripe!SessionType,
         r.state # "unused" => r.email \in Emails,
         sessions' = [sessions EXCEPT ![s] = r]
  PROVE  sessions' \in [Sessions -> Stripe!SessionType] /\ SessionsOK'
BY DEF SessionsOK

LEMMA SessionsType ==
  ASSUME sessions \in [Sessions -> Stripe!SessionType], SessionsOK,
         NEW s \in Sessions, NEW e \in Emails,
         \/ Stripe!Open(s, e)
         \/ Stripe!Pay(s)
         \/ Stripe!Expire(s)
         \/ sessions[s].state # "unused" /\ sessions' = Stripe!Offered(s)
         \/ sessions' = Stripe!Acked(s)
  PROVE  sessions' \in [Sessions -> Stripe!SessionType] /\ SessionsOK'
<1>1. /\ sessions[s] \in Stripe!SessionType
      /\ sessions[s].state # "unused" => sessions[s].email \in Emails
  BY DEF SessionsOK
<1>2. CASE Stripe!Open(s, e)
  <2> DEFINE r == [sessions[s] EXCEPT !.state = "open", !.email = e]
  <2>1. sessions' = [sessions EXCEPT ![s] = r]
    BY <1>2 DEF Stripe!Open
  <2>2. r \in Stripe!SessionType /\ (r.state # "unused" => r.email \in Emails)
    BY <1>1, <1>2 DEF Stripe!Open, Stripe!SessionType, Stripe!SessionStates
  <2> HIDE DEF r
  <2>3. QED
    BY <2>1, <2>2, SessionSetType
<1>3. CASE Stripe!Pay(s)
  <2> DEFINE r == [sessions[s] EXCEPT !.state = "complete"]
  <2>1. sessions' = [sessions EXCEPT ![s] = r]
    BY <1>3 DEF Stripe!Pay
  <2>2. r \in Stripe!SessionType /\ (r.state # "unused" => r.email \in Emails)
    BY <1>1, <1>3 DEF Stripe!Pay, Stripe!SessionType, Stripe!SessionStates
  <2> HIDE DEF r
  <2>3. QED
    BY <2>1, <2>2, SessionSetType
<1>4. CASE Stripe!Expire(s)
  <2> DEFINE r == [sessions[s] EXCEPT !.state = "expired"]
  <2>1. sessions' = [sessions EXCEPT ![s] = r]
    BY <1>4 DEF Stripe!Expire
  <2>2. r \in Stripe!SessionType /\ (r.state # "unused" => r.email \in Emails)
    BY <1>1, <1>4 DEF Stripe!Expire, Stripe!SessionType, Stripe!SessionStates
  <2> HIDE DEF r
  <2>3. QED
    BY <2>1, <2>2, SessionSetType
<1>5. CASE sessions[s].state # "unused" /\ sessions' = Stripe!Offered(s)
  <2> DEFINE r == [sessions[s] EXCEPT !.state = "offered"]
  <2>1. sessions' = [sessions EXCEPT ![s] = r]
    BY <1>5 DEF Stripe!Offered
  <2>2. r \in Stripe!SessionType /\ (r.state # "unused" => r.email \in Emails)
    BY <1>1, <1>5 DEF Stripe!Offered, Stripe!SessionType, Stripe!SessionStates
  <2> HIDE DEF r
  <2>3. QED
    BY <2>1, <2>2, SessionSetType
<1>6. CASE sessions' = Stripe!Acked(s)
  <2> DEFINE r == [sessions[s] EXCEPT !.acked = TRUE]
  <2>1. sessions' = [sessions EXCEPT ![s] = r]
    BY <1>6 DEF Stripe!Acked
  <2>2. r \in Stripe!SessionType /\ (r.state # "unused" => r.email \in Emails)
    BY <1>1, <1>6 DEF Stripe!Acked, Stripe!SessionType, Stripe!SessionStates
  <2> HIDE DEF r
  <2>3. QED
    BY <2>1, <2>2, SessionSetType
<1>7. QED
  BY <1>2, <1>3, <1>4, <1>5, <1>6

-----------------------------------------------------------------------------
\* Every step keeps TypeInv, action by action.

\* What a step has to keep.
LEMMA TypeInvParts ==
  /\ TypeInv =>
       /\ TableOK
       /\ sessions \in [Sessions -> Stripe!SessionType] /\ SessionsOK
       /\ call \in [Workers -> Call] /\ CallOK
       /\ confirmed \subseteq Emails /\ reply \in Reply /\ faults \in Nat
  /\ PlainTypes' <=>
       /\ TableOK'
       /\ sessions' \in [Sessions -> Stripe!SessionType] /\ SessionsOK'
       /\ call' \in [Workers -> Call] /\ CallOK'
       /\ confirmed' \subseteq Emails /\ reply' \in Reply /\ faults' \in Nat
BY DEF TypeInv, PlainTypes, TypeOK, TableOK

LEMMA UnchangedTable ==
  ASSUME TypeInv, UNCHANGED tableVars
  PROVE  TableOK'
BY DEF TypeInv, PlainTypes, TypeOK, TableOK, tableVars

LEMMA UnchangedSessions ==
  ASSUME TypeInv, UNCHANGED sessions
  PROVE  sessions' \in [Sessions -> Stripe!SessionType] /\ SessionsOK'
BY DEF TypeInv, PlainTypes, TypeOK, SessionsOK

LEMMA UnchangedCall ==
  ASSUME TypeInv, UNCHANGED call
  PROVE  call' \in [Workers -> Call] /\ CallOK'
BY DEF TypeInv, PlainTypes, TypeOK, CallOK, CopiesPresent

LEMMA FaultsType ==
  ASSUME faults \in Nat, Fault \/ NoFault
  PROVE  faults' \in Nat
BY DEF Fault, NoFault

LEMMA PostEventsV1Types ==
  ASSUME TypeInv, NEW config \in Configs, PostEventsV1(config)
  PROVE  PlainTypes'
<1>1. /\ CreateEvent(NewEvent(config))
      /\ reply' = NoReply
      /\ UNCHANGED <<sessions, call, confirmed, faults>>
  BY DEF PostEventsV1
<1>2. TableOK'
  BY <1>1, NewEventType, EventWritesType, TypeInvParts
<1>3. QED
  BY <1>1, <1>2, TypeInvParts, UnchangedSessions, UnchangedCall, NoReplyType

LEMMA PatchEventsV1IdTypes ==
  ASSUME TypeInv, NEW w \in Workers, NEW config \in Configs, PatchEventsV1Id(w, config)
  PROVE  PlainTypes'
<1>1. UNCHANGED <<tableVars, sessions, confirmed, faults>>
  BY DEF PatchEventsV1Id
<1>2. PICK seen \in GetEvent :
        \/ seen = None /\ Return(w, "PATCH", 404, None)
        \/ /\ seen # None
           /\ Goto(w, [Idle EXCEPT !.pc = "UpdateEvent",
                                   !.event = PatchedEvent(seen, config)])
  BY DEF PatchEventsV1Id
<1>3. call' \in [Workers -> Call] /\ CallOK' /\ reply' \in Reply
  <2>1. CASE seen = None
    BY <1>2, <2>1, ReturnKeeps, TypeInvParts
  <2>2. CASE seen # None
    <3> DEFINE next == [Idle EXCEPT !.pc = "UpdateEvent",
                                    !.event = PatchedEvent(seen, config)]
    <3>1. seen \in Event
      BY <1>2, <2>2, ReadsType DEF TypeInv, PlainTypes
    <3>2. PatchedEvent(seen, config) \in Event
      BY <3>1, PatchedEventType, ConstantTypes
    <3>3. next \in Call /\ CopiesPresent(next)
      BY <3>2 DEF Idle, Call, PCs, CopiesPresent, HoldsEmail, HoldsSession, HoldsReg,
                  HoldsIntent, HoldsEvent, Creating
    <3>4. Goto(w, next)
      BY <1>2, <2>2
    <3> HIDE DEF next
    <3>5. QED
      BY <3>3, <3>4, GotoKeeps, TypeInvParts
  <2>3. QED
    BY <2>1, <2>2
<1>4. QED
  BY <1>1, <1>3, TypeInvParts, UnchangedTable, UnchangedSessions

LEMMA CommitPatchTypes ==
  ASSUME TypeInv, NEW w \in Workers, CommitPatch(w)
  PROVE  PlainTypes'
<1>1. call[w].pc = "UpdateEvent" /\ UNCHANGED <<sessions, confirmed>>
  BY DEF CommitPatch
<1>2. call[w].event \in Event
  BY <1>1 DEF TypeInv, PlainTypes, CallOK, CopiesPresent, HoldsEvent
<1>3. TableOK'
  BY <1>2, EventWritesType, TypeInvParts, UnchangedTable DEF CommitPatch
<1>4. PICK status \in {200, 404, 500} : Return(w, "PATCH", status, None)
  BY DEF CommitPatch
<1>5. call' \in [Workers -> Call] /\ CallOK' /\ reply' \in Reply
  BY <1>4, ReturnKeeps, TypeInvParts
<1>6. faults' \in Nat
  BY FaultsType, TypeInvParts DEF CommitPatch
<1>7. QED
  BY <1>1, <1>3, <1>5, <1>6, TypeInvParts, UnchangedSessions

LEMMA StartRegistrationTypes ==
  ASSUME TypeInv, NEW w \in Workers, NEW to \in {"register", "registrations"},
         NEW e \in Emails, NEW shape \in ShapesOf[e], NEW at \in Times,
         NEW nextPc \in {"CreateRegistration", "CreateCheckout"},
         StartRegistration(w, to, e, shape, at, nextPc)
  PROVE  PlainTypes'
<1> DEFINE reg == NewRegistration(shape, at)
<1>1. UNCHANGED <<tableVars, sessions, confirmed, faults>>
  BY DEF StartRegistration
<1>2. PICK seen \in GetEvent :
        \/ Return(w, to, 404, e)
        \/ Return(w, to, RefusalStatus(seen.config, reg), e)
        \/ /\ seen # None
           /\ Goto(w, [Idle EXCEPT !.pc = nextPc, !.email = e, !.reg = reg,
                                   !.event = WithRegistration(seen, reg)])
  BY Zenon DEF StartRegistration
<1>3. RefusalStatus(seen.config, reg) \in {403, 500}
  BY DEF RefusalStatus
<1>4. \/ \E status \in {403, 404, 500} : Return(w, to, status, e)
      \/ /\ seen # None
         /\ Goto(w, [Idle EXCEPT !.pc = nextPc, !.email = e, !.reg = reg,
                                 !.event = WithRegistration(seen, reg)])
  BY <1>2, <1>3
<1>5. call' \in [Workers -> Call] /\ CallOK' /\ reply' \in Reply
  <2>1. CASE \E status \in {403, 404, 500} : Return(w, to, status, e)
    <3>1. PICK status \in {403, 404, 500} : Return(w, to, status, e)
      BY <2>1
    <3>2. QED
      BY <3>1, ReturnKeeps, TypeInvParts
  <2>2. CASE /\ seen # None
             /\ Goto(w, [Idle EXCEPT !.pc = nextPc, !.email = e, !.reg = reg,
                                     !.event = WithRegistration(seen, reg)])
    <3> DEFINE next == [Idle EXCEPT !.pc = nextPc, !.email = e, !.reg = reg,
                                    !.event = WithRegistration(seen, reg)]
    <3>1. seen \in Event
      BY <2>2, ReadsType DEF TypeInv, PlainTypes
    <3>2. reg \in Registration
      BY NewRegistrationType
    <3>3. WithRegistration(seen, reg) \in Event
      BY <3>1, <3>2, WithRegistrationType
    <3> HIDE DEF reg
    <3>4. next \in Call /\ CopiesPresent(next)
      BY <3>2, <3>3 DEF Idle, Call, PCs, CopiesPresent, HoldsEmail, HoldsSession, HoldsReg,
                        HoldsIntent, HoldsEvent, Creating
    <3>5. Goto(w, next)
      BY <2>2
    <3> HIDE DEF next
    <3>6. QED
      BY <3>4, <3>5, GotoKeeps, TypeInvParts
  <2>3. QED
    BY <1>4, <2>1, <2>2
<1>6. QED
  BY <1>1, <1>5, TypeInvParts, UnchangedTable, UnchangedSessions

LEMMA CommitRegistrationTypes ==
  ASSUME TypeInv, NEW w \in Workers, CommitRegistration(w)
  PROVE  PlainTypes'
<1> DEFINE c == call[w]
<1> DEFINE next == [Idle EXCEPT !.pc = "SendConfirmation", !.email = c.email]
<1>1. c.pc = "CreateRegistration" /\ UNCHANGED <<sessions, confirmed>>
  BY DEF CommitRegistration
<1>2. c.email \in Emails /\ c.reg \in Registration /\ c.event \in Event
  BY <1>1 DEF TypeInv, PlainTypes, CallOK, CopiesPresent, HoldsEmail, HoldsReg, HoldsEvent, Creating, PCs
<1>3. TableOK'
  BY <1>2, CreateRegistrationType, TypeInvParts, UnchangedTable DEF CommitRegistration
<1>4. \/ Goto(w, next)
      \/ \E status \in {409, 500} : Return(w, "register", status, c.email)
  BY DEF CommitRegistration, AlreadyExistsStatus
<1>5. next \in Call /\ CopiesPresent(next)
  BY <1>2 DEF Idle, Call, PCs, CopiesPresent, HoldsEmail, HoldsSession, HoldsReg,
              HoldsIntent, HoldsEvent, Creating
<1>6. call' \in [Workers -> Call] /\ CallOK' /\ reply' \in Reply
  <2>1. CASE Goto(w, next)
    <3> HIDE DEF next
    <3>1. QED
      BY <1>5, <2>1, GotoKeeps, TypeInvParts
  <2>2. CASE \E status \in {409, 500} : Return(w, "register", status, c.email)
    BY <1>2, <2>2, ReturnKeeps, TypeInvParts
  <2>3. QED
    BY <1>4, <2>1, <2>2
<1>7. faults' \in Nat
  BY FaultsType, TypeInvParts DEF CommitRegistration
<1>8. QED
  BY <1>1, <1>3, <1>6, <1>7, TypeInvParts, UnchangedSessions

LEMMA CreateCheckoutTypes ==
  ASSUME TypeInv, NEW w \in Workers, CreateCheckout(w)
  PROVE  PlainTypes'
<1> DEFINE c == call[w]
<1>1. c.pc = "CreateCheckout" /\ UNCHANGED <<tableVars, confirmed, faults>>
  BY DEF CreateCheckout
<1>2. c \in Call /\ c.email \in Emails /\ c.reg \in Registration /\ c.event \in Event
  BY <1>1, TypeInvParts
     DEF CallOK, CopiesPresent, HoldsEmail, HoldsReg, HoldsEvent, Creating, PCs
<1>3. CASE \E s \in Sessions :
             /\ Stripe!Open(s, c.email)
             /\ Goto(w, [c EXCEPT !.pc = "CreateRegistrationWithPayment",
                                  !.session = s, !.intent = NewIntent(s)])
  <2>1. PICK s \in Sessions :
          /\ Stripe!Open(s, c.email)
          /\ Goto(w, [c EXCEPT !.pc = "CreateRegistrationWithPayment",
                               !.session = s, !.intent = NewIntent(s)])
    BY <1>3
  <2> DEFINE next == [c EXCEPT !.pc = "CreateRegistrationWithPayment",
                               !.session = s, !.intent = NewIntent(s)]
  <2>2. NewIntent(s) \in RegistrationIntent
    BY DEF NewIntent, RegistrationIntent
  <2> HIDE DEF c
  <2>3. next \in Call /\ CopiesPresent(next)
    BY <1>2, <2>2 DEF Call, PCs, CopiesPresent, HoldsEmail, HoldsSession, HoldsReg,
                      HoldsIntent, HoldsEvent, Creating
  <2>4. Goto(w, next)
    BY <2>1
  <2> HIDE DEF next
  <2>5. call' \in [Workers -> Call] /\ CallOK' /\ reply' \in Reply
    BY <2>3, <2>4, GotoKeeps, TypeInvParts
  <2>6. sessions' \in [Sessions -> Stripe!SessionType] /\ SessionsOK'
    BY <1>2, <2>1, SessionsType, TypeInvParts
  <2>7. QED
    BY <1>1, <2>5, <2>6, TypeInvParts, UnchangedTable
<1>4. CASE Return(w, "registrations", 500, c.email) /\ UNCHANGED sessions
  <2>1. call' \in [Workers -> Call] /\ CallOK' /\ reply' \in Reply
    BY <1>2, <1>4, ReturnKeeps, TypeInvParts
  <2>2. QED
    BY <1>1, <1>4, <2>1, TypeInvParts, UnchangedTable, UnchangedSessions
<1>5. QED
  BY <1>3, <1>4 DEF CreateCheckout

LEMMA CommitHoldTypes ==
  ASSUME TypeInv, NEW w \in Workers, CommitHold(w)
  PROVE  PlainTypes'
<1> DEFINE c == call[w]
<1>1. c.pc = "CreateRegistrationWithPayment" /\ UNCHANGED confirmed
  BY DEF CommitHold
<1>2. /\ c.email \in Emails /\ c.session \in Sessions /\ c.reg \in Registration
      /\ c.intent \in RegistrationIntent /\ c.event \in Event
  BY <1>1, TypeInvParts DEF CallOK, CopiesPresent, HoldsEmail, HoldsSession, HoldsReg,
                            HoldsIntent, HoldsEvent, Creating, PCs
<1>3. TableOK'
  BY <1>2, CreateRegistrationWithPaymentType, TypeInvParts, UnchangedTable DEF CommitHold
<1>4. \E status \in {200, 409, 500} : Return(w, "registrations", status, c.email)
  BY DEF CommitHold, AlreadyExistsStatus
<1>5. call' \in [Workers -> Call] /\ CallOK' /\ reply' \in Reply
  BY <1>2, <1>4, ReturnKeeps, TypeInvParts
<1>6. faults' \in Nat
  BY FaultsType, TypeInvParts DEF CommitHold
<1>7. sessions' = Stripe!Offered(c.session) \/ UNCHANGED sessions
  BY DEF CommitHold
<1>8. sessions' \in [Sessions -> Stripe!SessionType] /\ SessionsOK'
  <2>1. sessions[c.session].state # "unused"
    BY <1>1 DEF TypeInv, HeldIsOpened
  <2>2. QED
    BY <1>2, <1>7, <2>1, SessionsType, TypeInvParts, UnchangedSessions
<1>9. QED
  BY <1>1, <1>3, <1>5, <1>6, <1>8, TypeInvParts

LEMMA WebhookCompletedTypes ==
  ASSUME TypeInv, NEW w \in Workers, NEW s \in Sessions, WebhookCompleted(w, s)
  PROVE  PlainTypes'
<1> DEFINE e == sessions[s].email
<1>1. UNCHANGED <<tableVars, sessions, confirmed>>
  BY DEF WebhookCompleted
<1>2. e \in Emails
  BY TypeInvParts DEF WebhookCompleted, SessionsOK, Stripe!Complete
<1>3. PICK seen \in GetRegistration(e) :
        \/ Return(w, "webhook", 500, e)
        \/ /\ seen # None
           /\ Goto(w, [Idle EXCEPT !.pc = "UpdateRegistrationToPaid", !.email = e,
                                   !.session = s, !.reg = PaidRegistration(seen)])
  BY DEF WebhookCompleted
<1>4. call' \in [Workers -> Call] /\ CallOK' /\ reply' \in Reply
  <2>1. CASE Return(w, "webhook", 500, e)
    BY <1>2, <2>1, ReturnKeeps, TypeInvParts
  <2>2. CASE /\ seen # None
             /\ Goto(w, [Idle EXCEPT !.pc = "UpdateRegistrationToPaid", !.email = e,
                                     !.session = s, !.reg = PaidRegistration(seen)])
    <3> DEFINE next == [Idle EXCEPT !.pc = "UpdateRegistrationToPaid", !.email = e,
                                    !.session = s, !.reg = PaidRegistration(seen)]
    <3>1. seen \in Registration
      BY <1>2, <1>3, <2>2, ReadsType DEF TypeInv, PlainTypes
    <3>2. PaidRegistration(seen) \in Registration
      BY <3>1, PaidRegistrationType
    <3> HIDE DEF e
    <3>3. next \in Call /\ CopiesPresent(next)
      BY <1>2, <3>2 DEF Idle, Call, PCs, CopiesPresent, HoldsEmail, HoldsSession, HoldsReg,
                        HoldsIntent, HoldsEvent, Creating
    <3>4. Goto(w, next)
      BY <2>2
    <3> HIDE DEF next
    <3>5. QED
      BY <3>3, <3>4, GotoKeeps, TypeInvParts
  <2>3. QED
    BY <1>3, <2>1, <2>2
<1>5. faults' \in Nat
  BY FaultsType, TypeInvParts DEF WebhookCompleted, Delivered
<1>6. QED
  BY <1>1, <1>4, <1>5, TypeInvParts, UnchangedTable, UnchangedSessions

LEMMA CommitPaidTypes ==
  ASSUME TypeInv, NEW w \in Workers, CommitPaid(w)
  PROVE  PlainTypes'
<1> DEFINE c == call[w]
<1> DEFINE next == [Idle EXCEPT !.pc = "SendConfirmation", !.email = c.email,
                                !.session = c.session]
<1>1. c.pc = "UpdateRegistrationToPaid" /\ UNCHANGED <<sessions, confirmed>>
  BY DEF CommitPaid
<1>2. c.email \in Emails /\ c.session \in Sessions /\ c.reg \in Registration
  BY <1>1, TypeInvParts
     DEF CallOK, CopiesPresent, HoldsEmail, HoldsSession, HoldsReg, Creating, PCs
<1>3. TableOK'
  BY <1>2, UpdateRegistrationToPaidType, TypeInvParts, UnchangedTable DEF CommitPaid
<1>4. Goto(w, next) \/ Return(w, "webhook", 500, c.email)
  BY DEF CommitPaid
<1>5. next \in Call /\ CopiesPresent(next)
  BY <1>2 DEF Idle, Call, PCs, CopiesPresent, HoldsEmail, HoldsSession, HoldsReg,
              HoldsIntent, HoldsEvent, Creating
<1>6. call' \in [Workers -> Call] /\ CallOK' /\ reply' \in Reply
  <2>1. CASE Goto(w, next)
    <3> HIDE DEF next
    <3>1. QED
      BY <1>5, <2>1, GotoKeeps, TypeInvParts
  <2>2. CASE Return(w, "webhook", 500, c.email)
    BY <1>2, <2>2, ReturnKeeps, TypeInvParts
  <2>3. QED
    BY <1>4, <2>1, <2>2
<1>7. faults' \in Nat
  BY FaultsType, TypeInvParts DEF CommitPaid
<1>8. QED
  BY <1>1, <1>3, <1>6, <1>7, TypeInvParts, UnchangedSessions

LEMMA SendConfirmationTypes ==
  ASSUME TypeInv, NEW w \in Workers, SendConfirmation(w)
  PROVE  PlainTypes'
<1> DEFINE c == call[w]
<1>1. c.pc = "SendConfirmation" /\ UNCHANGED tableVars
  BY DEF SendConfirmation
<1>2. c \in Call /\ c.email \in Emails
  BY <1>1, TypeInvParts DEF CallOK, CopiesPresent, HoldsEmail, PCs
<1>3. confirmed' \subseteq Emails
  BY <1>2, TypeInvParts DEF SendConfirmation
<1>4. \E to \in {"register", "webhook"}, status \in {200, 500} :
        Return(w, to, status, c.email)
  BY DEF SendConfirmation
<1>5. call' \in [Workers -> Call] /\ CallOK' /\ reply' \in Reply
  BY <1>2, <1>4, ReturnKeeps, TypeInvParts
<1>6. sessions' \in [Sessions -> Stripe!SessionType] /\ SessionsOK'
  <2>1. CASE UNCHANGED sessions
    BY <2>1, UnchangedSessions
  <2>2. CASE c.session # None /\ sessions' = Stripe!Acked(c.session)
    <3>1. c.session \in Sessions
      BY <1>2, <2>2 DEF Call
    <3>2. QED
      BY <1>2, <2>2, <3>1, SessionsType, TypeInvParts
  <2>3. QED
    BY <2>1, <2>2 DEF SendConfirmation
<1>7. faults' \in Nat
  BY FaultsType, TypeInvParts DEF SendConfirmation
<1>8. QED
  BY <1>1, <1>3, <1>5, <1>6, <1>7, TypeInvParts, UnchangedTable

LEMMA WebhookExpiredTypes ==
  ASSUME TypeInv, NEW w \in Workers, NEW s \in Sessions, WebhookExpired(w, s)
  PROVE  PlainTypes'
<1> DEFINE e == sessions[s].email
<1>1. UNCHANGED <<tableVars, sessions, confirmed>>
  BY DEF WebhookExpired
<1>2. e \in Emails
  BY TypeInvParts DEF WebhookExpired, checkoutIsExpired, SessionsOK, Stripe!Expired
<1>3. PICK seen \in GetRegistration(e) :
        Goto(w, [Idle EXCEPT !.pc = "GetRegistrationIntent", !.email = e,
                             !.session = s, !.reg = seen])
  BY DEF WebhookExpired
<1>4. call' \in [Workers -> Call] /\ CallOK' /\ reply' \in Reply
  <2> DEFINE next == [Idle EXCEPT !.pc = "GetRegistrationIntent", !.email = e,
                                  !.session = s, !.reg = seen]
  <2>1. seen \in Registration \cup {None}
    BY <1>2, <1>3, ReadsType DEF TypeInv, PlainTypes
  <2> HIDE DEF e
  <2>2. next \in Call /\ CopiesPresent(next)
    BY <1>2, <2>1 DEF Idle, Call, PCs, CopiesPresent, HoldsEmail, HoldsSession, HoldsReg,
                      HoldsIntent, HoldsEvent, Creating
  <2>3. Goto(w, next)
    BY <1>3
  <2> HIDE DEF next
  <2>4. QED
    BY <2>2, <2>3, GotoKeeps, TypeInvParts
<1>5. faults' \in Nat
  BY FaultsType, TypeInvParts DEF WebhookExpired, Delivered
<1>6. QED
  BY <1>1, <1>4, <1>5, TypeInvParts, UnchangedTable, UnchangedSessions

LEMMA ReadIntentTypes ==
  ASSUME TypeInv, NEW w \in Workers, ReadIntent(w)
  PROVE  PlainTypes'
<1> DEFINE c == call[w]
<1>1. c.pc = "GetRegistrationIntent" /\ UNCHANGED <<tableVars, confirmed, faults>>
  BY DEF ReadIntent
<1>2. c \in Call /\ c.email \in Emails /\ c.session \in Sessions
  BY <1>1, TypeInvParts DEF CallOK, CopiesPresent, HoldsEmail, HoldsSession, PCs
<1>3. PICK seen \in GetRegistrationIntent(c.email) :
        \/ Return(w, "webhook", 200, c.email) /\ sessions' = Stripe!Acked(c.session)
        \/ Return(w, "webhook", 500, c.email) /\ UNCHANGED sessions
        \/ /\ c.reg # None /\ seen # None
           /\ Goto(w, [c EXCEPT !.pc = "GetEvent", !.intent = seen])
           /\ UNCHANGED sessions
  BY Zenon DEF ReadIntent
<1>4. call' \in [Workers -> Call] /\ CallOK' /\ reply' \in Reply
  <2>1. CASE \E status \in {200, 500} : Return(w, "webhook", status, c.email)
    BY <1>2, <2>1, ReturnKeeps, TypeInvParts
  <2>2. CASE /\ c.reg # None /\ seen # None
             /\ Goto(w, [c EXCEPT !.pc = "GetEvent", !.intent = seen])
    <3> DEFINE next == [c EXCEPT !.pc = "GetEvent", !.intent = seen]
    <3>1. seen \in RegistrationIntent
      BY <1>2, <1>3, <2>2, ReadsType DEF TypeInv, PlainTypes
    <3>2. c.reg \in Registration
      BY <1>2, <2>2 DEF Call
    <3> HIDE DEF c
    <3>3. next \in Call /\ CopiesPresent(next)
      BY <1>2, <3>1, <3>2 DEF Call, PCs, CopiesPresent, HoldsEmail, HoldsSession, HoldsReg,
                              HoldsIntent, HoldsEvent, Creating
    <3>4. Goto(w, next)
      BY <2>2
    <3> HIDE DEF next
    <3>5. QED
      BY <3>3, <3>4, GotoKeeps, TypeInvParts
  <2>3. QED
    BY <1>3, <2>1, <2>2
<1>5. sessions' \in [Sessions -> Stripe!SessionType] /\ SessionsOK'
  BY <1>2, <1>3, SessionsType, TypeInvParts, UnchangedSessions
<1>6. QED
  BY <1>1, <1>4, <1>5, TypeInvParts, UnchangedTable

LEMMA ReadEventTypes ==
  ASSUME TypeInv, NEW w \in Workers, ReadEvent(w)
  PROVE  PlainTypes'
<1> DEFINE c == call[w]
<1>1. c.pc = "GetEvent" /\ UNCHANGED <<tableVars, sessions, confirmed, faults>>
  BY DEF ReadEvent
<1>2. /\ c \in Call /\ c.email \in Emails /\ c.session \in Sessions
      /\ c.reg \in Registration /\ c.intent \in RegistrationIntent
  BY <1>1, TypeInvParts DEF CallOK, CopiesPresent, HoldsEmail, HoldsSession, HoldsReg,
                            HoldsIntent, PCs
<1>3. PICK seen \in GetEvent :
        \/ Return(w, "webhook", 500, c.email)
        \/ /\ seen # None
           /\ Goto(w, [c EXCEPT !.pc = "DeleteExpiredRegistration",
                                !.event = WithoutRegistration(seen, c.reg)])
  BY Zenon DEF ReadEvent
<1>4. call' \in [Workers -> Call] /\ CallOK' /\ reply' \in Reply
  <2>1. CASE Return(w, "webhook", 500, c.email)
    BY <1>2, <2>1, ReturnKeeps, TypeInvParts
  <2>2. CASE /\ seen # None
             /\ Goto(w, [c EXCEPT !.pc = "DeleteExpiredRegistration",
                                  !.event = WithoutRegistration(seen, c.reg)])
    <3> DEFINE next == [c EXCEPT !.pc = "DeleteExpiredRegistration",
                                 !.event = WithoutRegistration(seen, c.reg)]
    <3>1. seen \in Event
      BY <1>3, <2>2, ReadsType DEF TypeInv, PlainTypes
    <3>2. WithoutRegistration(seen, c.reg) \in Event
      BY <1>2, <3>1, WithoutRegistrationType
    <3> HIDE DEF c
    <3>3. next \in Call /\ CopiesPresent(next)
      BY <1>2, <3>2 DEF Call, PCs, CopiesPresent, HoldsEmail, HoldsSession, HoldsReg,
                        HoldsIntent, HoldsEvent, Creating
    <3>4. Goto(w, next)
      BY <2>2
    <3> HIDE DEF next
    <3>5. QED
      BY <3>3, <3>4, GotoKeeps, TypeInvParts
  <2>3. QED
    BY <1>3, <2>1, <2>2
<1>5. QED
  BY <1>1, <1>4, TypeInvParts, UnchangedTable, UnchangedSessions

LEMMA CommitReleaseTypes ==
  ASSUME TypeInv, NEW w \in Workers, CommitRelease(w)
  PROVE  PlainTypes'
<1> DEFINE c == call[w]
<1>1. c.pc = "DeleteExpiredRegistration" /\ UNCHANGED confirmed
  BY DEF CommitRelease
<1>2. /\ c.email \in Emails /\ c.session \in Sessions /\ c.reg \in Registration
      /\ c.intent \in RegistrationIntent /\ c.event \in Event
  BY <1>1, TypeInvParts DEF CallOK, CopiesPresent, HoldsEmail, HoldsSession, HoldsReg,
                            HoldsIntent, HoldsEvent, PCs
<1>3. TableOK'
  BY <1>2, DeleteExpiredRegistrationType, TypeInvParts, UnchangedTable DEF CommitRelease
<1>4. \E status \in {200, 500} : Return(w, "webhook", status, c.email)
  BY DEF CommitRelease
<1>5. call' \in [Workers -> Call] /\ CallOK' /\ reply' \in Reply
  BY <1>2, <1>4, ReturnKeeps, TypeInvParts
<1>6. faults' \in Nat
  BY FaultsType, TypeInvParts DEF CommitRelease
<1>7. sessions' = Stripe!Acked(c.session) \/ UNCHANGED sessions
  BY DEF CommitRelease
<1>8. sessions' \in [Sessions -> Stripe!SessionType] /\ SessionsOK'
  BY <1>2, <1>7, SessionsType, TypeInvParts, UnchangedSessions
<1>9. QED
  BY <1>1, <1>3, <1>5, <1>6, <1>8, TypeInvParts

LEMMA HandlerFailsTypes ==
  ASSUME TypeInv, NEW w \in Workers, HandlerFails(w)
  PROVE  PlainTypes'
<1>1. Fault /\ UNCHANGED <<tableVars, sessions, confirmed>>
  BY DEF HandlerFails
<1> DEFINE c == call[w]
           to == CASE c.pc = "UpdateEvent" -> "PATCH"
                   [] c.pc = "CreateRegistration" -> "register"
                   [] c.pc = "SendConfirmation" /\ c.session = None -> "register"
                   [] c.pc \in {"CreateCheckout", "CreateRegistrationWithPayment"} ->
                        "registrations"
                   [] OTHER -> "webhook"
<1>2. /\ to \in {"PATCH", "register", "registrations", "webhook"}
      /\ \E status \in {409, 500} : Return(w, to, status, c.email)
  <2>1. to \in {"PATCH", "register", "registrations", "webhook"}
    BY DEF to
  <2>2. \/ Return(w, to, 500, c.email)
        \/ Return(w, to, 409, c.email)
    BY DEF HandlerFails
  <2> HIDE DEF to, c
  <2>3. QED
    BY <2>1, <2>2
<1>3. call[w].email \in Emails \cup {None}
  BY TypeInvParts DEF Call
<1>4. call' \in [Workers -> Call] /\ CallOK' /\ reply' \in Reply
  BY <1>2, <1>3, ReturnKeeps, TypeInvParts
<1>5. QED
  BY <1>1, <1>4, FaultsType, TypeInvParts, UnchangedTable, UnchangedSessions

LEMMA OutsideTypes ==
  ASSUME TypeInv,
         \/ \E s \in Sessions : PaySession(s) \/ ExpireSession(s)
         \/ ReplicaCatchesUp
  PROVE  PlainTypes'
<1>1. UNCHANGED <<call, confirmed, faults>> /\ reply' = NoReply
  BY DEF PaySession, ExpireSession, ReplicaCatchesUp
<1>2. CASE \E s \in Sessions : PaySession(s) \/ ExpireSession(s)
  <2>1. PICK s \in Sessions : PaySession(s) \/ ExpireSession(s)
    BY <1>2
  <2>2. sessions[s].email \in Emails
    BY <2>1, TypeInvParts
       DEF SessionsOK, PaySession, ExpireSession, Stripe!Pay, Stripe!Expire
  <2>3. UNCHANGED tableVars /\ (Stripe!Pay(s) \/ Stripe!Expire(s))
    BY <2>1 DEF PaySession, ExpireSession
  <2>4. sessions' \in [Sessions -> Stripe!SessionType] /\ SessionsOK'
    BY <2>2, <2>3, SessionsType, TypeInvParts
  <2>5. QED
    BY <1>1, <2>3, <2>4, NoReplyType, TypeInvParts, UnchangedTable, UnchangedCall
<1>3. CASE ReplicaCatchesUp
  <2>1. UNCHANGED <<event, regs, intents, sessions>> /\ replica' = Table
    BY <1>3 DEF ReplicaCatchesUp, Replicate
  <2>2. TableOK'
    BY <2>1, TypeInvParts DEF TableOK, Table, TableType
  <2>3. QED
    BY <1>1, <2>1, <2>2, NoReplyType, TypeInvParts, UnchangedSessions, UnchangedCall
<1>4. QED
  BY <1>2, <1>3

-----------------------------------------------------------------------------
\* The steps of Next, one by one.

LEMMA NextCases ==
  ASSUME Next
  PROVE  \/ \E config \in Configs : PostEventsV1(config)
         \/ \E w \in Workers :
              \/ \E config \in Configs : PatchEventsV1Id(w, config)
              \/ \E to \in {"register", "registrations"}, e \in Emails, at \in Times,
                    nextPc \in {"CreateRegistration", "CreateCheckout"} :
                   \E shape \in ShapesOf[e] :
                     StartRegistration(w, to, e, shape, at, nextPc)
              \/ CommitPatch(w) \/ CommitRegistration(w) \/ CreateCheckout(w)
              \/ CommitHold(w) \/ CommitPaid(w) \/ SendConfirmation(w)
              \/ ReadIntent(w) \/ ReadEvent(w) \/ CommitRelease(w) \/ HandlerFails(w)
              \/ \E s \in Sessions : WebhookCompleted(w, s) \/ WebhookExpired(w, s)
         \/ \E s \in Sessions : PaySession(s) \/ ExpireSession(s)
         \/ ReplicaCatchesUp
<1>1. CASE \E w \in Workers : Request(w)
  <2>1. PICK w \in Workers : Request(w)
    BY <1>1
  <2>2. CASE \E config \in Configs : PatchEventsV1Id(w, config)
    BY <2>2
  <2>3. CASE \E e \in Emails, at \in Times : \E shape \in ShapesOf[e] :
               \/ PostEventsV1EventIdRegister(w, e, shape, at)
               \/ PostEventsV1EventIdRegistrations(w, e, shape, at)
    <3>1. PICK e \in Emails, at \in Times : \E shape \in ShapesOf[e] :
               \/ PostEventsV1EventIdRegister(w, e, shape, at)
               \/ PostEventsV1EventIdRegistrations(w, e, shape, at)
      BY <2>3
    <3>2. PICK shape \in ShapesOf[e] :
               \/ StartRegistration(w, "register", e, shape, at, "CreateRegistration")
               \/ StartRegistration(w, "registrations", e, shape, at, "CreateCheckout")
      BY <3>1 DEF PostEventsV1EventIdRegister, PostEventsV1EventIdRegistrations
    <3>3. QED
      BY <3>2
  <2>4. QED
    BY <2>1, <2>2, <2>3 DEF Request
<1>2. CASE \E w \in Workers : HandlerStep(w) \/ HandlerFails(w)
  BY <1>2 DEF HandlerStep
<1>3. CASE \E s \in Sessions : Deliver(s)
  BY <1>3 DEF Deliver
<1>4. QED
  BY <1>1, <1>2, <1>3 DEF Next

LEMMA PlainTypesStep ==
  ASSUME TypeInv, Next
  PROVE  PlainTypes'
BY NextCases, PostEventsV1Types, PatchEventsV1IdTypes, StartRegistrationTypes,
   CommitPatchTypes, CommitRegistrationTypes, CreateCheckoutTypes, CommitHoldTypes,
   CommitPaidTypes, SendConfirmationTypes, ReadIntentTypes, ReadEventTypes,
   CommitReleaseTypes, HandlerFailsTypes, WebhookCompletedTypes, WebhookExpiredTypes,
   OutsideTypes

\* The worker whose handler moves.
OwnStep(w) ==
  \/ \E config \in Configs : PatchEventsV1Id(w, config)
  \/ \E to \in {"register", "registrations"}, e \in Emails, at \in Times,
        nextPc \in {"CreateRegistration", "CreateCheckout"} :
       \E shape \in ShapesOf[e] : StartRegistration(w, to, e, shape, at, nextPc)
  \/ HandlerStep(w)
  \/ HandlerFails(w)
  \/ \E s \in Sessions : WebhookCompleted(w, s) \/ WebhookExpired(w, s)

\* What a step does to the checkout sessions.
Acks(w) ==
  /\ SendConfirmation(w) \/ ReadIntent(w) \/ CommitRelease(w)
  /\ call[w].session \in Sessions
  /\ sessions' = Stripe!Acked(call[w].session)

Offers(w) == CommitHold(w) /\ sessions' = Stripe!Offered(call[w].session)

Opens(w, s) ==
  /\ CreateCheckout(w)
  /\ Stripe!Open(s, call[w].email)
  /\ Goto(w, [call[w] EXCEPT !.pc = "CreateRegistrationWithPayment",
                             !.session = s, !.intent = NewIntent(s)])

SessionMove ==
  \/ UNCHANGED sessions
  \/ \E s \in Sessions : PaySession(s) \/ ExpireSession(s)
  \/ \E w \in Workers : Acks(w) \/ Offers(w) \/ \E s \in Sessions : Opens(w, s)

LEMMA SessionMoves ==
  ASSUME TypeInv, Next
  PROVE  SessionMove
<1>1. \A w \in Workers : SendConfirmation(w) => UNCHANGED sessions \/ Acks(w)
  <2>1. SUFFICES ASSUME NEW w \in Workers, SendConfirmation(w)
                 PROVE  UNCHANGED sessions \/ Acks(w)
    OBVIOUS
  <2>2. call[w].session \in Sessions \cup {None}
    BY TypeInvParts DEF Call
  <2>3. \/ UNCHANGED sessions
        \/ call[w].session # None /\ sessions' = Stripe!Acked(call[w].session)
    BY <2>1 DEF SendConfirmation
  <2>4. QED
    BY <2>1, <2>2, <2>3 DEF Acks
<1>2. \A w \in Workers : ReadIntent(w) \/ CommitRelease(w) => UNCHANGED sessions \/ Acks(w)
  <2>1. SUFFICES ASSUME NEW w \in Workers, ReadIntent(w) \/ CommitRelease(w)
                 PROVE  UNCHANGED sessions \/ Acks(w)
    OBVIOUS
  <2>2. call[w].pc \in HoldsSession
    BY <2>1 DEF ReadIntent, CommitRelease, HoldsSession
  <2>3. call[w].session \in Sessions
    BY <2>2, TypeInvParts DEF CallOK, CopiesPresent
  <2>4. UNCHANGED sessions \/ sessions' = Stripe!Acked(call[w].session)
    BY <2>1 DEF ReadIntent, CommitRelease
  <2>5. QED
    BY <2>1, <2>3, <2>4 DEF Acks
<1>3. \A w \in Workers :
        /\ CommitHold(w) => UNCHANGED sessions \/ Offers(w)
        /\ CreateCheckout(w) => UNCHANGED sessions \/ \E s \in Sessions : Opens(w, s)
  <2>1. \A w \in Workers : CommitHold(w) => UNCHANGED sessions \/ Offers(w)
    BY DEF CommitHold, Offers
  <2>2. \A w \in Workers :
          CreateCheckout(w) => UNCHANGED sessions \/ \E s \in Sessions : Opens(w, s)
    BY DEF CreateCheckout, Opens
  <2>3. QED
    BY <2>1, <2>2
<1>4. \A s \in Sessions : PaySession(s) \/ ExpireSession(s) => SessionMove
  BY DEF SessionMove
<1>5. ASSUME NEW w \in Workers
      PROVE  /\ \A config \in Configs : PatchEventsV1Id(w, config) => UNCHANGED sessions
             /\ \A to, e, shape, at, nextPc :
                  StartRegistration(w, to, e, shape, at, nextPc) => UNCHANGED sessions
             /\ \A s \in Sessions :
                  WebhookCompleted(w, s) \/ WebhookExpired(w, s) => UNCHANGED sessions
             /\ CommitPatch(w) \/ CommitRegistration(w) \/ CommitPaid(w) \/ ReadEvent(w)
                  \/ HandlerFails(w) => UNCHANGED sessions
  <2>1. \A config \in Configs : PatchEventsV1Id(w, config) => UNCHANGED sessions
    BY DEF PatchEventsV1Id
  <2>2. \A to, e, shape, at, nextPc :
          StartRegistration(w, to, e, shape, at, nextPc) => UNCHANGED sessions
    BY DEF StartRegistration
  <2>3. \A s \in Sessions : WebhookCompleted(w, s) \/ WebhookExpired(w, s)
                              => UNCHANGED sessions
    BY DEF WebhookCompleted, WebhookExpired
  <2>4. CommitPatch(w) \/ CommitRegistration(w) \/ CommitPaid(w) => UNCHANGED sessions
    BY DEF CommitPatch, CommitRegistration, CommitPaid
  <2>5. ReadEvent(w) \/ HandlerFails(w) => UNCHANGED sessions
    BY DEF ReadEvent, HandlerFails
  <2>6. QED
    BY <2>1, <2>2, <2>3, <2>4, <2>5
<1>6. \A config \in Configs : PostEventsV1(config) => UNCHANGED sessions
  BY DEF PostEventsV1
<1>7. ReplicaCatchesUp => UNCHANGED sessions
  BY DEF ReplicaCatchesUp
<1>8. \A w \in Workers : OwnStep(w) => SessionMove
  BY <1>1, <1>2, <1>3, <1>5 DEF OwnStep, HandlerStep, SessionMove
<1>9. QED
  BY <1>4, <1>6, <1>7, <1>8, NextCases DEF OwnStep, HandlerStep, SessionMove

LEMMA GotoCall ==
  ASSUME call \in [Workers -> Call], NEW w \in Workers, NEW next, Goto(w, next)
  PROVE  call'[w] = next /\ \A v \in Workers : v # w => call'[v] = call[v]
BY DEF Goto

LEMMA ReturnCall ==
  ASSUME call \in [Workers -> Call], NEW w \in Workers,
         NEW to, NEW status, NEW e, Return(w, to, status, e)
  PROVE  call'[w] = Idle /\ \A v \in Workers : v # w => call'[v] = call[v]
BY DEF Return

\* Only its own worker moves a handler.
LEMMA OnlyOwn ==
  ASSUME TypeInv, NEW w \in Workers, OwnStep(w), NEW v \in Workers, v # w
  PROVE  call'[v] = call[v]
<1>1. CASE \E config \in Configs : PatchEventsV1Id(w, config)
  BY <1>1, GotoCall, ReturnCall, TypeInvParts DEF PatchEventsV1Id
<1>2. CASE \E to \in {"register", "registrations"}, e \in Emails, at \in Times,
              nextPc \in {"CreateRegistration", "CreateCheckout"} :
             \E shape \in ShapesOf[e] : StartRegistration(w, to, e, shape, at, nextPc)
  BY <1>2, GotoCall, ReturnCall, TypeInvParts DEF StartRegistration
<1>3. CASE CommitPatch(w) \/ CommitHold(w) \/ SendConfirmation(w) \/ CommitRelease(w)
  BY <1>3, ReturnCall, TypeInvParts
     DEF CommitPatch, CommitHold, SendConfirmation, CommitRelease
<1>4. CASE CommitRegistration(w) \/ CommitPaid(w) \/ CreateCheckout(w)
  BY <1>4, GotoCall, ReturnCall, TypeInvParts
     DEF CommitRegistration, CommitPaid, CreateCheckout
<1>5. CASE ReadIntent(w) \/ ReadEvent(w)
  BY <1>5, GotoCall, ReturnCall, TypeInvParts DEF ReadIntent, ReadEvent
<1>6. CASE HandlerFails(w)
  BY <1>6, ReturnCall, TypeInvParts DEF HandlerFails
<1>7. CASE \E s \in Sessions : WebhookCompleted(w, s) \/ WebhookExpired(w, s)
  BY <1>7, GotoCall, ReturnCall, TypeInvParts DEF WebhookCompleted, WebhookExpired
<1>8. QED
  BY <1>1, <1>2, <1>3, <1>4, <1>5, <1>6, <1>7 DEF OwnStep, HandlerStep

LEMMA MovedByOwnStep ==
  ASSUME TypeInv, Next, NEW v \in Workers, call'[v] # call[v]
  PROVE  OwnStep(v)
<1>1. \E w \in Workers : OwnStep(w)
  BY NextCases DEF OwnStep, HandlerStep, PostEventsV1, PaySession, ExpireSession,
                   ReplicaCatchesUp
<1>2. QED
  BY <1>1, OnlyOwn

\* Where each step leaves its handler.
LEMMA NextPc ==
  ASSUME TypeInv, NEW w \in Workers
  PROVE  /\ \A config \in Configs :
              PatchEventsV1Id(w, config) => call'[w].pc \in {"idle", "UpdateEvent"}
         /\ \A to, e, shape, at, nextPc :
              StartRegistration(w, to, e, shape, at, nextPc)
                => call'[w].pc \in {"idle", nextPc}
         /\ \A s \in Sessions :
              /\ WebhookCompleted(w, s)
                   => call'[w].pc \in {"idle", "UpdateRegistrationToPaid"}
              /\ WebhookExpired(w, s) => call'[w].pc = "GetRegistrationIntent"
         /\ CommitPatch(w) \/ CommitHold(w) \/ SendConfirmation(w) \/ CommitRelease(w)
              \/ HandlerFails(w) => call'[w] = Idle
         /\ CommitRegistration(w) \/ CommitPaid(w)
              => call'[w].pc \in {"idle", "SendConfirmation"}
         /\ CreateCheckout(w) => call'[w].pc \in {"idle", "CreateRegistrationWithPayment"}
         /\ ReadIntent(w) => call'[w].pc \in {"idle", "GetEvent"}
         /\ ReadEvent(w) => call'[w].pc \in {"idle", "DeleteExpiredRegistration"}
<1> USE DEF Goto, Return
<1>1. call \in [Workers -> Call] /\ call[w] \in Call
  BY TypeInvParts
<1>2. Idle.pc = "idle"
  BY DEF Idle
<1>3. \A config \in Configs :
        PatchEventsV1Id(w, config) => call'[w].pc \in {"idle", "UpdateEvent"}
  BY <1>1, <1>2 DEF PatchEventsV1Id, Idle
<1>4. ASSUME NEW to, NEW e, NEW shape, NEW at, NEW nextPc,
             StartRegistration(w, to, e, shape, at, nextPc)
      PROVE  call'[w].pc \in {"idle", nextPc}
  <2>1. \/ call' = [call EXCEPT ![w] = Idle]
        \/ \E reg, ev : call' = [call EXCEPT ![w] = [Idle EXCEPT !.pc = nextPc, !.email = e,
                                                               !.reg = reg, !.event = ev]]
    BY <1>4, Zenon DEF StartRegistration
  <2>2. QED
    BY <1>1, <1>2, <2>1 DEF Idle
<1>5. \A s \in Sessions :
        WebhookCompleted(w, s) => call'[w].pc \in {"idle", "UpdateRegistrationToPaid"}
  BY <1>1, <1>2 DEF WebhookCompleted, Idle
<1>6. \A s \in Sessions : WebhookExpired(w, s) => call'[w].pc = "GetRegistrationIntent"
  BY <1>1 DEF WebhookExpired, Idle
<1>7. CommitPatch(w) \/ CommitHold(w) \/ SendConfirmation(w) \/ CommitRelease(w)
        => call'[w] = Idle
  BY <1>1 DEF CommitPatch, CommitHold, SendConfirmation, CommitRelease
<1>8. HandlerFails(w) => call'[w] = Idle
  BY <1>1 DEF HandlerFails
<1>9. CommitRegistration(w) \/ CommitPaid(w) => call'[w].pc \in {"idle", "SendConfirmation"}
  BY <1>1, <1>2 DEF CommitRegistration, CommitPaid, Idle
<1>10. CreateCheckout(w) => call'[w].pc \in {"idle", "CreateRegistrationWithPayment"}
  BY <1>1, <1>2 DEF CreateCheckout, Call
<1>11. ReadIntent(w) => call'[w].pc \in {"idle", "GetEvent"}
  BY <1>1, <1>2 DEF ReadIntent, Call
<1>12. ReadEvent(w) => call'[w].pc \in {"idle", "DeleteExpiredRegistration"}
  BY <1>1, <1>2 DEF ReadEvent, Call
<1>13. QED
  BY <1>2, <1>3, <1>4, <1>5, <1>6, <1>7, <1>8, <1>9, <1>10, <1>11, <1>12

\* A session once opened stays so.
LEMMA StaysOpened ==
  ASSUME TypeInv, Next, NEW s \in Sessions, sessions[s].state # "unused"
  PROVE  sessions'[s].state # "unused" /\ sessions'[s].email = sessions[s].email
<1>1. /\ sessions \in [Sessions -> Stripe!SessionType] /\ SessionMove
      /\ \A w \in Workers : CommitHold(w) => call[w].session \in Sessions
  BY SessionMoves, TypeInvParts DEF CallOK, CopiesPresent, HoldsSession, CommitHold
<1>2. ASSUME NEW u \in Sessions, NEW r,
             sessions' = [sessions EXCEPT ![u] = r],
             sessions[u].state # "unused" => r.state # "unused" /\ r.email = sessions[u].email
      PROVE  sessions'[s].state # "unused" /\ sessions'[s].email = sessions[s].email
  BY <1>1, <1>2
<1>3. CASE \E u \in Sessions : Stripe!Pay(u)
  <2>1. PICK u \in Sessions : Stripe!Pay(u)
    BY <1>3
  <2> DEFINE r == [sessions[u] EXCEPT !.state = "complete"]
  <2>2. sessions' = [sessions EXCEPT ![u] = r]
    BY <2>1 DEF Stripe!Pay
  <2>3. sessions[u].state # "unused" => r.state # "unused" /\ r.email = sessions[u].email
    BY <1>1 DEF Stripe!SessionType
  <2> HIDE DEF r
  <2>4. QED
    BY <1>2, <2>2, <2>3
<1>4. CASE \E u \in Sessions : Stripe!Expire(u)
  <2>1. PICK u \in Sessions : Stripe!Expire(u)
    BY <1>4
  <2> DEFINE r == [sessions[u] EXCEPT !.state = "expired"]
  <2>2. sessions' = [sessions EXCEPT ![u] = r]
    BY <2>1 DEF Stripe!Expire
  <2>3. sessions[u].state # "unused" => r.state # "unused" /\ r.email = sessions[u].email
    BY <1>1 DEF Stripe!SessionType
  <2> HIDE DEF r
  <2>4. QED
    BY <1>2, <2>2, <2>3
<1>5. CASE \E u \in Sessions : sessions' = Stripe!Acked(u)
  <2>1. PICK u \in Sessions : sessions' = Stripe!Acked(u)
    BY <1>5
  <2> DEFINE r == [sessions[u] EXCEPT !.acked = TRUE]
  <2>2. sessions' = [sessions EXCEPT ![u] = r]
    BY <2>1 DEF Stripe!Acked
  <2>3. sessions[u].state # "unused" => r.state # "unused" /\ r.email = sessions[u].email
    BY <1>1 DEF Stripe!SessionType
  <2> HIDE DEF r
  <2>4. QED
    BY <1>2, <2>2, <2>3
<1>6. CASE \E u \in Sessions : sessions' = Stripe!Offered(u)
  <2>1. PICK u \in Sessions : sessions' = Stripe!Offered(u)
    BY <1>6
  <2> DEFINE r == [sessions[u] EXCEPT !.state = "offered"]
  <2>2. sessions' = [sessions EXCEPT ![u] = r]
    BY <2>1 DEF Stripe!Offered
  <2>3. sessions[u].state # "unused" => r.state # "unused" /\ r.email = sessions[u].email
    BY <1>1 DEF Stripe!SessionType
  <2> HIDE DEF r
  <2>4. QED
    BY <1>2, <2>2, <2>3
<1>7. CASE \E u \in Sessions : \E e : Stripe!Open(u, e)
  BY <1>1, <1>7 DEF Stripe!Open
<1>8. CASE UNCHANGED sessions
  BY <1>8
<1>9. QED
  BY <1>1, <1>3, <1>4, <1>5, <1>6, <1>7, <1>8
     DEF SessionMove, PaySession, ExpireSession, Acks, Offers, Opens

LEMMA HeldIsOpenedStep ==
  ASSUME TypeInv, Next
  PROVE  HeldIsOpened'
<1>1. SUFFICES ASSUME NEW v \in Workers, call'[v].pc = "CreateRegistrationWithPayment"
               PROVE  sessions'[call'[v].session].state # "unused"
  BY DEF HeldIsOpened
<1>2. CASE call'[v] = call[v]
  <2>1. call[v].session \in Sessions /\ sessions[call[v].session].state # "unused"
    BY <1>1, <1>2, TypeInvParts DEF TypeInv, HeldIsOpened, CallOK, CopiesPresent, HoldsSession
  <2>2. QED
    BY <1>2, <2>1, StaysOpened
<1>3. CASE call'[v] # call[v]
  <2>1. CreateCheckout(v)
    BY <1>1, <1>3, MovedByOwnStep, NextPc DEF OwnStep, HandlerStep, Idle
  <2>2. PICK s \in Sessions : Opens(v, s)
    <3>1. ~Return(v, "registrations", 500, call[v].email)
      BY <1>1, TypeInvParts DEF Return, Idle
    <3>2. QED
      BY <2>1, <3>1 DEF CreateCheckout, Opens
  <2>3. call'[v].session = s
    BY <2>2, TypeInvParts DEF Opens, Goto, Call
  <2>4. sessions'[s].state = "open"
    BY <2>2, TypeInvParts DEF Opens, Stripe!Open, Stripe!SessionType
  <2>5. QED
    BY <2>3, <2>4
<1>4. QED
  BY <1>2, <1>3

-----------------------------------------------------------------------------
\* The theorem.

LEMMA TypeInvInit == Init => TypeInv
BY IdleType, NoReplyType
   DEF Init, TableInit, NoItems, Table, TableType, Stripe!CheckoutInit, Stripe!SessionType,
       Stripe!SessionStates, TypeInv, PlainTypes, TypeOK, CallOK, SessionsOK, HeldIsOpened,
       Idle

LEMMA TypeInvStep == TypeInv /\ [Next]_vars => TypeInv'
<1>1. ASSUME TypeInv, Next PROVE TypeInv'
  BY <1>1, PlainTypesStep, HeldIsOpenedStep DEF TypeInv
<1>2. ASSUME TypeInv, UNCHANGED vars PROVE TypeInv'
  <2>1. PlainTypes'
    BY <1>2, TypeInvParts, UnchangedTable, UnchangedSessions, UnchangedCall DEF vars, tableVars
  <2>2. HeldIsOpened'
    BY <1>2 DEF TypeInv, HeldIsOpened, vars
  <2>3. QED
    BY <2>1, <2>2 DEF TypeInv
<1>3. QED
  BY <1>1, <1>2

LEMMA TypeInvAlways == Spec => []TypeInv
BY TypeInvInit, TypeInvStep, PTL DEF Spec

(* TypeCorrectness: whatever handlers run, interleave, fail or repeat, the items, the *)
(* sessions and the copies stay what the code takes them for: in particular, no       *)
(* handler writes an item it does not have.                                           *)
THEOREM TypeCorrectness == Spec => []TypeOK
<1>1. TypeInv => TypeOK
  BY DEF TypeInv, PlainTypes
<1>2. QED
  BY <1>1, TypeInvAlways, PTL
=============================================================================
