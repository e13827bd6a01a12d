------------------------------ MODULE SheetProofs ------------------------------
(***************************************************************************)
(* The handlers implement the sign-up sheet, where no email comes back     *)
(* with another shape.  Each write that is applied is one step of the      *)
(* sheet, and everything else a handler does leaves the sheet alone; the   *)
(* totals follow from the counters' invariant (StatsInv).                  *)
(***************************************************************************)
EXTENDS RegistrationCountProofs

\* A patch under way was asked for with settings an organiser may save.
PatchesOffered ==
  \A w \in Workers : call[w].pc = "UpdateEvent" => call[w].event.config \in Configs

SheetInv == StatsInv /\ PatchesOffered

LEMMA PatchesOfferedStep ==
  ASSUME TypeInv, PatchesOffered, ReplicaBehind, Next
  PROVE  PatchesOffered'
<1>1. SUFFICES ASSUME NEW w \in Workers, call'[w].pc = "UpdateEvent"
               PROVE  call'[w].event.config \in Configs
  BY DEF PatchesOffered
<1>2. CASE call'[w] = call[w]
  BY <1>1, <1>2 DEF PatchesOffered
<1>3. CASE call'[w] # call[w]
  <2>1. PICK config \in Configs, seen \in GetEvent :
          seen # None /\ call'[w].event = PatchedEvent(seen, config)
    BY <1>1, <1>3, MovedByOwnStep, ReachesUpdateEvent
  <2>2. seen \in Event
    BY <2>1, SeenIsBehind
  <2>3. QED
    BY <2>1, <2>2, PatchedEventType, ConstantTypes DEF EventItem
<1>4. QED
  BY <1>2, <1>3

LEMMA SheetInvStep ==
  ASSUME OneShapePerEmail
  PROVE  SheetInv /\ [Next]_vars => SheetInv'
<1>1. CASE Next
  BY <1>1, StatsInvStep, PatchesOfferedStep DEF SheetInv, StatsInv, EventInv, SettleInv
<1>2. CASE UNCHANGED vars
  BY <1>2, StatsInvStep DEF SheetInv, PatchesOffered, vars
<1>3. QED
  BY <1>1, <1>2

-----------------------------------------------------------------------------
\* What is applied to the table, whole.

Applies(w) ==
  LET c == call[w] IN
  \/ c.pc = "UpdateEvent" /\ UpdateEvent(c.event)
  \/ c.pc = "CreateRegistration" /\ CreateRegistration(c.email, c.reg, c.event)
  \/ /\ c.pc = "CreateRegistrationWithPayment"
     /\ CreateRegistrationWithPayment(c.email, c.reg, c.intent, c.event)
  \/ c.pc = "UpdateRegistrationToPaid" /\ UpdateRegistrationToPaid(c.email, c.reg)
  \/ /\ c.pc = "DeleteExpiredRegistration"
     /\ DeleteExpiredRegistration(c.email, c.reg, c.intent, c.event)

Still == UNCHANGED <<event, regs, intents>>

LEMMA WhatIsApplied ==
  ASSUME Next
  PROVE  \/ Still
         \/ \E config \in Configs : PostEventsV1(config)
         \/ \E w \in Workers : Applies(w)
<1>1. UNCHANGED tableVars => Still
  BY DEF tableVars, Still
<1>2. \A w \in Workers :
        CommitPatch(w) \/ CommitRegistration(w) \/ CommitHold(w) \/ CommitPaid(w)
          \/ CommitRelease(w) => UNCHANGED tableVars \/ Applies(w)
  BY DEF CommitPatch, CommitRegistration, CommitHold, CommitPaid, CommitRelease, Applies
<1>3. \A w \in Workers :
        CreateCheckout(w) \/ SendConfirmation(w) \/ ReadIntent(w) \/ ReadEvent(w)
          \/ HandlerFails(w) => UNCHANGED tableVars
  BY DEF CreateCheckout, SendConfirmation, ReadIntent, ReadEvent, HandlerFails
<1>4. \A w \in Workers, s \in Sessions :
        WebhookCompleted(w, s) \/ WebhookExpired(w, s) => UNCHANGED tableVars
  BY DEF WebhookCompleted, WebhookExpired
<1>5. \A w \in Workers, config \in Configs :
        PatchEventsV1Id(w, config) => UNCHANGED tableVars
  BY DEF PatchEventsV1Id
<1>6. \A w \in Workers : \A to, e, shape, at, nextPc :
        StartRegistration(w, to, e, shape, at, nextPc) => UNCHANGED tableVars
  BY DEF StartRegistration
<1>7. \A s \in Sessions : PaySession(s) \/ ExpireSession(s) => UNCHANGED tableVars
  BY DEF PaySession, ExpireSession
<1>8. ReplicaCatchesUp => Still
  BY DEF ReplicaCatchesUp, Replicate, Still
<1>9. QED
  BY <1>1, <1>2, <1>3, <1>4, <1>5, <1>6, <1>7, <1>8, NextCases

-----------------------------------------------------------------------------
\* The sheet that stands for the table.

Rules == IF event = None THEN None ELSE event.config
Shown == [e \in Emails |-> IF regs[e] = None THEN None ELSE Entry(e)]
Stats == IF event = None THEN None
         ELSE [numTeams |-> event.numTeams, numRostered |-> event.numRostered,
               numTotal |-> event.numTotal]

\* The entries that some registrations and intents show.
Line(reg, place) == [type |-> reg.type, players |-> reg.players, place |-> place]

Place(reg, intent) ==
  IF reg.paid THEN "paid" ELSE IF intent # None THEN "held" ELSE "entered"

LineOf(reg, intent) == IF reg = None THEN None ELSE Line(reg, Place(reg, intent))

LinesOf(r, i) == [e \in Emails |-> LineOf(r[e], i[e])]

LEMMA ShownAre == Shown = LinesOf(regs, intents) /\ Shown' = LinesOf(regs', intents')
<1>1. \A e \in Emails : Entry(e) = Line(regs[e], Place(regs[e], intents[e]))
  BY DEF Entry, Line, Place
<1>2. \A e \in Emails : Entry(e)' = Line(regs'[e], Place(regs'[e], intents'[e]))
  BY DEF Entry, Line, Place
<1>3. QED
  BY <1>1, <1>2 DEF Shown, LinesOf, LineOf

LEMMA LineIsThere ==
  ASSUME NEW reg \in Registration, NEW intent
  PROVE  LineOf(reg, intent) = Line(reg, Place(reg, intent)) /\ LineOf(reg, intent) # None
<1>1. Line(reg, Place(reg, intent)) \in SheetEntry
  BY DEF Line, Place, SheetEntry, Registration
<1>2. QED
  BY <1>1, NoneIsNoItem, SheetAssumption DEF SheetAssumption, LineOf

\* An entry stands for a registration, and for nothing else.
LEMMA LinesStandFor ==
  ASSUME NEW r \in RegMap, NEW i, NEW e \in Emails
  PROVE  /\ LinesOf(r, i)[e] = None <=> r[e] = None
         /\ r[e] # None => LinesOf(r, i)[e].type = r[e].type
                           /\ LinesOf(r, i)[e].players = r[e].players
<1>1. LinesOf(r, i)[e] = LineOf(r[e], i[e])
  BY DEF LinesOf
<1>2. CASE r[e] = None
  BY <1>1, <1>2 DEF LineOf
<1>3. CASE r[e] \in Registration
  BY <1>1, <1>3, LineIsThere, NoneIsNoItem DEF Line
<1>4. QED
  BY <1>2, <1>3 DEF RegMap

LEMMA SameCardinality ==
  ASSUME NEW S
  PROVE  Sheet!Cardinality(S) = Cardinality(S)
BY DEF Sheet!Cardinality, Cardinality

\* The totals of the entries are the counters of their event.
LEMMA TotalsAre ==
  ASSUME NEW r \in RegMap, NEW i, NEW ev, CountsAre(ev, r)
  PROVE  Sheet!Totals(LinesOf(r, i)) =
           [numTeams |-> ev.numTeams, numRostered |-> ev.numRostered,
            numTotal |-> ev.numTotal]
<1> DEFINE sh == LinesOf(r, i)
<1>1. \A e \in Emails : /\ sh[e] = None <=> r[e] = None
                        /\ r[e] # None => sh[e].type = r[e].type
                                          /\ sh[e].players = r[e].players
  BY LinesStandFor
<1> HIDE DEF sh
<1>2. Sheet!Teams(sh) = TeamsOf(r)
  BY <1>1 DEF Sheet!Teams, TeamsOf
<1>3. \A types : Sheet!Seats(sh, types) = SeatsOf(r, types)
  BY <1>1 DEF Sheet!Seats, SeatsOf
<1>4. {"BY_TEAM", "BY_INDIVIDUAL"} = RegTypes
  BY DEF RegTypes
<1>5. /\ Sheet!Cardinality(Sheet!Teams(sh)) = ev.numTeams
      /\ Sheet!Cardinality(Sheet!Seats(sh, {"BY_TEAM"})) = ev.numRostered
      /\ Sheet!Cardinality(Sheet!Seats(sh, {"BY_TEAM", "BY_INDIVIDUAL"})) = ev.numTotal
  BY <1>2, <1>3, <1>4, SameCardinality DEF CountsAre
<1>6. Sheet!Totals(sh) =
        [numTeams |-> ev.numTeams, numRostered |-> ev.numRostered, numTotal |-> ev.numTotal]
  BY <1>5 DEF Sheet!Totals
<1>7. QED
  BY <1>6 DEF sh

\* After a step, the counters are the totals of the entries.
LEMMA StatsAreTotals ==
  ASSUME SheetInv', event' # None
  PROVE  Stats' = Sheet!Totals(Shown')
<1>1. CountsAre(event', regs')
  BY DEF SheetInv, StatsInv, SignUpStats, CountsAre, Teams, Seats, TeamsOf, SeatsOf
<1>2. regs' \in RegMap
  BY DEF SheetInv, StatsInv, EventInv, SettleInv, TypeInv, PlainTypes, TypeOK, RegMap
<1>3. QED
  BY <1>1, <1>2, ShownAre, TotalsAre DEF Stats

-----------------------------------------------------------------------------
\* Each write that is applied is a step of the sheet.

SheetStep == Sheet!Next \/ UNCHANGED <<Rules, Shown, Stats>>

LEMMA EntrySteps ==
  ASSUME NEW e \in Emails,
         \/ \E shape \in ShapesOf[e], place \in {"held", "entered"} :
              Sheet!Admit(e, shape, place)
         \/ Sheet!MarkPaid(e)
         \/ Sheet!Release(e)
  PROVE  SheetStep
BY Zenon DEF SheetStep, Sheet!Next

LEMMA PostOpens ==
  ASSUME SheetInv, SheetInv', NEW config \in Configs, PostEventsV1(config)
  PROVE  SheetStep
<1>1. /\ event = None /\ event' = NewEvent(config) /\ event' # None
      /\ UNCHANGED <<regs, intents>>
  BY NewEventType, NoneIsNoItem
     DEF PostEventsV1, CreateEvent, newEntityVersionConditional
<1>2. Rules = None /\ Rules' = config /\ Shown' = Shown
  BY <1>1, NewEventType, ShownAre DEF Rules, EventItem
<1>3. Stats' = Sheet!Totals(Shown)
  BY <1>1, <1>2, StatsAreTotals
<1>4. Sheet!OpenEvent(config)
  BY <1>2, <1>3 DEF Sheet!OpenEvent, Rules, Shown, Stats
<1>5. QED
  BY <1>4 DEF SheetStep, Sheet!Next

\* What the invariant says of a handler that is about to write, and of the table.
LEMMA WriterFacts ==
  ASSUME SheetInv, NEW w \in Workers
  PROVE  /\ event \in Event \cup {None} /\ regs \in RegMap
         /\ intents \in [Emails -> RegistrationIntent \cup {None}]
         /\ CopiesPresent(call[w])
         /\ call[w].pc \in HoldsEvent => Fits(call[w], event)
         /\ call[w].pc \in HoldsReg => HasShapeOf(call[w].reg, call[w].email)
         /\ \A e \in Emails : regs[e] # None => HasShapeOf(regs[e], e)
<1>1. TypeInv /\ CopiesFit /\ ShapesKept
  BY DEF SheetInv, StatsInv, EventInv, SettleInv
<1>2. CopiesPresent(call[w])
  BY <1>1, TypeInvParts DEF CallOK
<1>3. call[w].pc \in HoldsReg => call[w].reg # None
  BY <1>2, NoneIsNoItem DEF CopiesPresent
<1>4. QED
  BY <1>1, <1>2, <1>3, TypeInvParts, CopiesFitParts DEF TableOK, RegMap, ShapesKept

LEMMA RulesAreThere ==
  ASSUME event \in Event
  PROVE  Rules = event.config /\ Rules # None
BY NoneIsNoItem, SheetAssumption DEF SheetAssumption, Rules, Event

LEMMA PatchAmends ==
  ASSUME SheetInv, NEW w \in Workers, call[w].pc = "UpdateEvent", UpdateEvent(call[w].event)
  PROVE  SheetStep
<1> DEFINE c == call[w]
           config == c.event.config
<1>1. /\ event \in Event /\ event' = c.event /\ c.event \in Event
      /\ c.event.version = event.version + 1
      /\ UNCHANGED <<regs, intents>> /\ Fits(c, event)
  <2>1. event \in Event \cup {None} /\ c.event \in Event /\ Fits(c, event)
    BY WriterFacts DEF CopiesPresent, HoldsEvent
  <2>2. event # None /\ event.version = c.event.version - 1
    BY DEF UpdateEvent, UpdateEventHolds, existingEntityVersionConditional
  <2>3. QED
    BY <2>1, <2>2 DEF UpdateEvent, Event
<1>2. config \in Configs /\ config \in Config
  BY ConstantTypes DEF SheetInv, PatchesOffered
<1>3. c.event = PatchedEvent(event, config)
  BY <1>1 DEF Fits
<1>4. /\ event'.numTeams = event.numTeams /\ event'.numRostered = event.numRostered
      /\ event'.numTotal = event.numTotal /\ event'.config = config
  BY <1>1, <1>2, <1>3, PatchedEventType DEF EventItem
<1>5. Rules # None /\ Rules' = config /\ Stats' = Stats /\ Shown' = Shown
  BY <1>1, <1>4, RulesAreThere, ShownAre, NoneIsNoItem DEF Rules, Stats
<1>6. Sheet!Amend(config)
  BY <1>5 DEF Sheet!Amend, Rules, Shown, Stats
<1>7. QED
  BY <1>2, <1>6 DEF SheetStep, Sheet!Next

\* Both kinds of registration, admitted as an entry in its place.
LEMMA CreateAdmits ==
  ASSUME SheetInv, SheetInv', NEW w \in Workers, NEW e \in Emails, call[w].email = e,
         call[w].pc \in {"CreateRegistration", "CreateRegistrationWithPayment"},
         event # None, event.version = call[w].event.version - 1, event' = call[w].event,
         regs[e] = None,
         regs' = [regs EXCEPT ![e] = call[w].reg],
         \A f \in Emails : f # e => intents'[f] = intents[f]
  PROVE  SheetStep
<1> DEFINE c == call[w]
<1>0. PICK place \in {"held", "entered"} :
        place = IF intents'[e] # None THEN "held" ELSE "entered"
  OBVIOUS
<1>1. /\ event \in Event /\ c.event \in Event /\ c.reg \in Registration
      /\ c.event.version = event.version + 1 /\ c.reg.paid = FALSE
      /\ Fits(c, event) /\ HasShapeOf(c.reg, e) /\ regs \in RegMap
  <2>1. c.pc \in HoldsEvent /\ c.pc \in HoldsEmail /\ c.pc \in HoldsReg /\ c.pc \in Creating
    BY DEF HoldsEvent, HoldsEmail, HoldsReg, Creating, PCs
  <2>2. c.event \in Event /\ c.reg \in Registration /\ event \in Event
    BY <2>1, WriterFacts DEF CopiesPresent
  <2>3. c.event.version = event.version + 1
    BY <2>2 DEF Event
  <2>4. c.reg.paid = FALSE
    BY <2>1 DEF SheetInv, StatsInv, EventInv, SettleInv, CallReg
  <2>5. QED
    BY <2>1, <2>2, <2>3, <2>4, WriterFacts
<1>2. PICK shape \in ShapesOf[e] :
        c.reg.type = shape.type /\ c.reg.players = shape.players
  BY <1>1 DEF HasShapeOf
<1>3. /\ c.event = WithRegistration(event, c.reg)
      /\ MayRegister(c.event.config, c.reg)
      /\ c.event.config = event.config
  <2>1. c.event = WithRegistration(event, c.reg) /\ MayRegister(c.event.config, c.reg)
    BY <1>1 DEF Fits, Creating
  <2>2. QED
    BY <1>1, <2>1, WithRegistrationType DEF EventItem
<1>4. Rules = event.config /\ Rules # None /\ Rules' = Rules
  BY <1>1, <1>3, RulesAreThere, NoneIsNoItem DEF Rules
<1>5. Shown[e] = None
  BY <1>1, ShownAre, LinesStandFor
<1>6. Shown' = [Shown EXCEPT ![e] = Line(c.reg, place)]
  <2>1. LineOf(regs'[e], intents'[e]) = Line(c.reg, place)
    <3>1. regs'[e] = c.reg
      BY <1>1 DEF RegMap
    <3>2. QED
      BY <1>0, <1>1, <3>1, LineIsThere DEF Place
  <2>2. \A f \in Emails :
          f # e => LineOf(regs'[f], intents'[f]) = LineOf(regs[f], intents[f])
    BY <1>1 DEF RegMap
  <2>3. QED
    BY <2>1, <2>2, ShownAre DEF LinesOf
<1>7. Stats' = Sheet!Totals(Shown')
  BY <1>1, NoneIsNoItem, StatsAreTotals
<1>8. /\ shape.type \in Rules.options
      /\ \E at \in Times : at <= Rules.closeTime
      /\ shape.type = "BY_TEAM" => shape.players >= Rules.min /\ shape.players <= Rules.max
  BY <1>1, <1>2, <1>3, <1>4
     DEF MayRegister, TypeAllowed, StillOpen, TeamSizeAllowed, Registration
<1>9. Line(c.reg, place) = Sheet!Entry(shape, place)
  BY <1>2 DEF Line, Sheet!Entry
<1>10. Sheet!Admit(e, shape, place)
  BY <1>4, <1>5, <1>6, <1>7, <1>8, <1>9
     DEF Sheet!Admit, Sheet!Admissible, Rules, Shown, Stats
<1>11. QED
  BY <1>1, <1>10, EntrySteps

LEMMA PaymentMarks ==
  ASSUME OneShapePerEmail, SheetInv, NEW w \in Workers, NEW e \in Emails, call[w].email = e,
         call[w].pc = "UpdateRegistrationToPaid",
         UpdateRegistrationToPaid(e, call[w].reg)
  PROVE  SheetStep
<1> DEFINE c == call[w]
<1>1. /\ c.reg \in Registration /\ c.reg.paid = TRUE
      /\ regs \in RegMap /\ regs[e] \in Registration
      /\ HasShapeOf(c.reg, e) /\ HasShapeOf(regs[e], e)
  <2>1. c.pc \in HoldsReg /\ c.pc \in HoldsEmail
    BY DEF HoldsReg, HoldsEmail, PCs
  <2>2. c.reg \in Registration /\ regs \in RegMap /\ HasShapeOf(c.reg, e)
    BY <2>1, WriterFacts DEF CopiesPresent
  <2>3. regs[e] # None
    BY DEF UpdateRegistrationToPaid, UpdateRegistrationToPaidHolds,
           existingEntityVersionConditional
  <2>4. c.reg.paid = TRUE
    BY DEF SheetInv, StatsInv, EventInv, SettleInv, CallReg
  <2>5. QED
    BY <2>2, <2>3, <2>4, WriterFacts DEF RegMap
<1>2. /\ regs' = [regs EXCEPT ![e] = c.reg] /\ event' = event
      /\ \A f \in Emails : f # e => intents'[f] = intents[f]
  <2>1. /\ regs' = [regs EXCEPT ![e] = c.reg] /\ event' = event
        /\ intents' = [intents EXCEPT ![e] = None]
    BY DEF UpdateRegistrationToPaid
  <2>2. intents \in [Emails -> RegistrationIntent \cup {None}]
    BY WriterFacts
  <2>3. QED
    BY <2>1, <2>2
<1>3. c.reg.type = regs[e].type /\ c.reg.players = regs[e].players
  BY <1>1, OneShape
<1>4. Shown[e] = Line(regs[e], Place(regs[e], intents[e])) /\ Shown[e] # None
  BY <1>1, ShownAre, LineIsThere DEF LinesOf
<1>5. Shown' = [Shown EXCEPT ![e] = Line(regs[e], "paid")]
  <2>1. LineOf(regs'[e], intents'[e]) = Line(regs[e], "paid")
    <3>1. regs'[e] = c.reg
      BY <1>1, <1>2 DEF RegMap
    <3>2. LineOf(c.reg, intents'[e]) = Line(c.reg, "paid")
      BY <1>1, LineIsThere DEF Place
    <3>3. QED
      BY <1>3, <3>1, <3>2 DEF Line
  <2>2. \A f \in Emails :
          f # e => LineOf(regs'[f], intents'[f]) = LineOf(regs[f], intents[f])
    BY <1>1, <1>2 DEF RegMap
  <2>3. QED
    BY <2>1, <2>2, ShownAre DEF LinesOf
<1>6. Shown' = [Shown EXCEPT ![e].place = "paid"]
  <2>1. [Shown[e] EXCEPT !.place = "paid"] = Line(regs[e], "paid")
    BY <1>4 DEF Line
  <2>2. QED
    BY <1>5, <2>1
<1>7. Rules' = Rules /\ Stats' = Stats
  BY <1>2 DEF Rules, Stats
<1>8. Sheet!MarkPaid(e)
  BY <1>4, <1>6, <1>7 DEF Sheet!MarkPaid, Rules, Shown, Stats
<1>9. QED
  BY <1>1, <1>8, EntrySteps

LEMMA ExpiryReleases ==
  ASSUME SheetInv, SheetInv', NEW w \in Workers, NEW e \in Emails, call[w].email = e,
         call[w].pc = "DeleteExpiredRegistration",
         DeleteExpiredRegistration(e, call[w].reg, call[w].intent, call[w].event)
  PROVE  SheetStep
<1> DEFINE c == call[w]
<1>1. /\ c.reg \in Registration /\ c.event \in Event
      /\ event \in Event \cup {None} /\ regs \in RegMap
      /\ intents \in [Emails -> RegistrationIntent \cup {None}] /\ Fits(c, event)
  <2>1. c.pc \in HoldsReg /\ c.pc \in HoldsEmail /\ c.pc \in HoldsEvent
    BY DEF HoldsReg, HoldsEmail, HoldsEvent, PCs
  <2>2. QED
    BY <2>1, WriterFacts DEF CopiesPresent
<1>2. /\ regs[e] # None /\ intents[e] # None
      /\ event # None /\ event.version = c.event.version - 1
  BY DEF DeleteExpiredRegistration, DeleteExpiredRegistrationHolds,
         deleteEntityVersionConditional, existingEntityVersionConditional
<1>3. /\ event' = c.event /\ regs' = [regs EXCEPT ![e] = None]
      /\ intents' = [intents EXCEPT ![e] = None]
  BY DEF DeleteExpiredRegistration
<1>4. event \in Event /\ c.event.version = event.version + 1
  BY <1>1, <1>2 DEF Event
<1>5. c.event.config = event.config
  <2>1. c.event = WithoutRegistration(event, c.reg)
    BY <1>1, <1>4 DEF Fits
  <2>2. QED
    BY <1>1, <1>4, <2>1, WithoutRegistrationType DEF EventItem
<1>6. Rules # None /\ Rules' = Rules
  BY <1>1, <1>3, <1>4, <1>5, RulesAreThere, NoneIsNoItem DEF Rules
<1>7. Shown[e] # None /\ Shown[e].place = "held"
  <2>1. regs[e].paid = FALSE /\ regs[e] \in Registration
    BY <1>1, <1>2 DEF SheetInv, StatsInv, EventInv, SettleInv, HoldInv, RegMap
  <2>2. Shown[e] = LineOf(regs[e], intents[e])
    BY <1>1, ShownAre DEF LinesOf
  <2>3. QED
    BY <1>2, <2>1, <2>2, LineIsThere DEF Place, Line
<1>8. Shown' = [Shown EXCEPT ![e] = None]
  <2>1. LineOf(regs'[e], intents'[e]) = None
    BY <1>1, <1>3 DEF RegMap, LineOf
  <2>2. \A f \in Emails :
          f # e => LineOf(regs'[f], intents'[f]) = LineOf(regs[f], intents[f])
    BY <1>1, <1>3 DEF RegMap
  <2>3. QED
    BY <2>1, <2>2, ShownAre DEF LinesOf
<1>9. Stats' = Sheet!Totals(Shown')
  BY <1>1, <1>3, NoneIsNoItem, StatsAreTotals
<1>10. Sheet!Release(e)
  BY <1>6, <1>7, <1>8, <1>9 DEF Sheet!Release, Rules, Shown, Stats
<1>11. QED
  BY <1>1, <1>10, EntrySteps

LEMMA StepsAreSheetSteps ==
  ASSUME OneShapePerEmail, SheetInv, SheetInv', Next
  PROVE  SheetStep
<1>1. CASE Still
  BY <1>1, ShownAre DEF Still, SheetStep, Rules, Stats
<1>2. CASE \E config \in Configs : PostEventsV1(config)
  BY <1>2, PostOpens
<1>3. ASSUME NEW w \in Workers, Applies(w)
      PROVE  SheetStep
  <2> DEFINE c == call[w]
  <2>1. CASE c.pc = "UpdateEvent"
    BY <1>3, <2>1, PatchAmends DEF Applies
  <2>2. CASE c.pc # "UpdateEvent"
    <3>1. PICK e \in Emails : c.email = e
      BY <1>3, <2>2, WriterFacts DEF CopiesPresent, HoldsEmail, PCs, Applies
    <3>2. CASE c.pc = "CreateRegistration"
      <4>1. CreateRegistration(e, c.reg, c.event)
        BY <1>3, <3>1, <3>2 DEF Applies
      <4>2. QED
        BY <3>1, <3>2, <4>1, CreateAdmits DEF CreateRegistration, CreateRegistrationHolds,
           newEntityVersionConditional, existingEntityVersionConditional
    <3>3. CASE c.pc = "CreateRegistrationWithPayment"
      <4>1. /\ event # None /\ event.version = c.event.version - 1 /\ event' = c.event
            /\ regs[e] = None /\ regs' = [regs EXCEPT ![e] = c.reg]
            /\ intents' = [intents EXCEPT ![e] = c.intent]
        BY <1>3, <3>1, <3>3
           DEF Applies, CreateRegistrationWithPayment, CreateRegistrationWithPaymentHolds,
               newEntityVersionConditional, existingEntityVersionConditional
      <4>2. \A f \in Emails : f # e => intents'[f] = intents[f]
        BY <4>1, WriterFacts
      <4>3. QED
        BY <3>1, <3>3, <4>1, <4>2, CreateAdmits
    <3>4. CASE c.pc = "UpdateRegistrationToPaid"
      <4>1. UpdateRegistrationToPaid(e, c.reg)
        BY <1>3, <3>1, <3>4 DEF Applies
      <4>2. QED
        BY <3>1, <3>4, <4>1, PaymentMarks
    <3>5. CASE c.pc = "DeleteExpiredRegistration"
      <4>1. DeleteExpiredRegistration(e, c.reg, c.intent, c.event)
        BY <1>3, <3>1, <3>5 DEF Applies
      <4>2. QED
        BY <3>1, <3>5, <4>1, ExpiryReleases
    <3>6. QED
      BY <1>3, <2>2, <3>2, <3>3, <3>4, <3>5 DEF Applies
  <2>3. QED
    BY <2>1, <2>2
<1>4. QED
  BY <1>1, <1>2, <1>3, WhatIsApplied

-----------------------------------------------------------------------------
(* HandlersKeepTheSheet: where no email comes back with another shape, the handlers,  *)
(* with their interleaved reads and writes, stale copies, failed calls and redelivered *)
(* webhooks, implement the sign-up sheet (ImplementsSheet): every write that is        *)
(* applied is one indivisible change of the sheet, and nothing else touches it.        *)
THEOREM HandlersKeepTheSheet ==
  ASSUME OneShapePerEmail
  PROVE  Spec => ImplementsSheet
<1>1. Init => SheetInv
  BY StatsInvInit DEF SheetInv, PatchesOffered, Init, Idle
<1>2. Init => Sheet!Init
  BY DEF Init, TableInit, NoItems, Sheet!Init
<1>3. SheetInv /\ [Next]_vars => SheetInv'
  BY SheetInvStep
<1>4. ASSUME SheetInv, SheetInv', [Next]_vars
      PROVE  [Sheet!Next]_(Sheet!sheetVars)
  <2>1. CASE UNCHANGED vars
    <3>1. UNCHANGED <<Rules, Shown, Stats>>
      BY <2>1, ShownAre DEF vars, Rules, Stats
    <3>2. QED
      BY <3>1 DEF Sheet!sheetVars, Rules, Shown, Stats
  <2>2. CASE Next
    BY <1>4, <2>2, StepsAreSheetSteps DEF SheetStep, Sheet!sheetVars, Rules, Shown, Stats
  <2>3. QED
    BY <1>4, <2>1, <2>2
<1>5. QED
  BY <1>1, <1>2, <1>3, <1>4, PTL DEF Spec, ImplementsSheet, Sheet!Spec
=============================================================================
