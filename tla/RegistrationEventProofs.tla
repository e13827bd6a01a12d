------------------------ MODULE RegistrationEventProofs ------------------------
(***************************************************************************)
(* The event item, which patches, registrations and expiries rewrite from  *)
(* copies: a copy that can still be written is the current event with the  *)
(* handler's own change made to it (CopiesFit).  It follows that no update *)
(* is lost and that the rules checked before the write hold at the write.  *)
(* An event is never deleted, so a webhook that reads it late still has a  *)
(* confirmation to send.                                                   *)
(***************************************************************************)
EXTENDS RegistrationFlowProofs

-----------------------------------------------------------------------------
\* What a step does to the event item.

SameEmails == \A e \in Emails : regs[e] = None <=> regs'[e] = None

\* A handler commits its copy of the event, with what it does to the registrations.
Writes(w) ==
  /\ event # None /\ call[w].event \in Event
  /\ call[w].event.version = event.version + 1
  /\ event' = call[w].event
  /\ \/ call[w].pc = "UpdateEvent" /\ regs' = regs
     \/ /\ call[w].pc \in {"CreateRegistration", "CreateRegistrationWithPayment"}
        /\ call[w].email \in Emails /\ call[w].reg \in Registration
        /\ regs[call[w].email] = None
        /\ regs' = [regs EXCEPT ![call[w].email] = call[w].reg]
     \/ /\ call[w].pc = "DeleteExpiredRegistration"
        /\ call[w].email \in Emails /\ call[w].reg \in Registration
        /\ regs[call[w].email] # None
        /\ regs' = [regs EXCEPT ![call[w].email] = None]

EventMove ==
  \/ event' = event /\ SameEmails
  \/ event = None /\ regs' = regs /\ \E config \in Configs : event' = NewEvent(config)
  \/ \E w \in Workers : Writes(w)

LEMMA CommitsWrite ==
  ASSUME TypeInv, NEW w \in Workers,
         CommitPatch(w) \/ CommitRegistration(w) \/ CommitHold(w) \/ CommitRelease(w)
  PROVE  UNCHANGED tableVars \/ Writes(w)
<1> DEFINE c == call[w]
<1>1. /\ event \in Event \cup {None} /\ regs \in [Emails -> Registration \cup {None}]
      /\ CopiesPresent(c)
  BY TypeInvParts DEF TableOK, CallOK
<1>2. CASE CommitPatch(w)
  <2>1. c.pc = "UpdateEvent" /\ c.event \in Event
    BY <1>1, <1>2 DEF CommitPatch, CopiesPresent, HoldsEvent
  <2>2. CASE UpdateEvent(c.event)
    <3>1. event # None /\ event.version = c.event.version - 1
      BY <2>2 DEF UpdateEvent, UpdateEventHolds, existingEntityVersionConditional
    <3>2. c.event.version = event.version + 1
      BY <1>1, <2>1, <3>1 DEF Event
    <3>3. QED
      BY <2>1, <2>2, <3>1, <3>2 DEF UpdateEvent, Writes
  <2>3. QED
    BY <1>2, <2>2 DEF CommitPatch
<1>3. CASE CommitRegistration(w)
  <2>1. /\ c.pc = "CreateRegistration" /\ c.event \in Event
        /\ c.email \in Emails /\ c.reg \in Registration
    BY <1>1, <1>3
       DEF CommitRegistration, CopiesPresent, HoldsEvent, HoldsEmail, HoldsReg, Creating, PCs
  <2>2. CASE CreateRegistration(c.email, c.reg, c.event)
    <3>1. event # None /\ event.version = c.event.version - 1 /\ regs[c.email] = None
      BY <2>2 DEF CreateRegistration, CreateRegistrationHolds,
                  newEntityVersionConditional, existingEntityVersionConditional
    <3>2. c.event.version = event.version + 1
      BY <1>1, <2>1, <3>1 DEF Event
    <3>3. QED
      BY <2>1, <2>2, <3>1, <3>2 DEF CreateRegistration, Writes
  <2>3. QED
    BY <1>3, <2>2 DEF CommitRegistration
<1>4. CASE CommitHold(w)
  <2>1. /\ c.pc = "CreateRegistrationWithPayment" /\ c.event \in Event
        /\ c.email \in Emails /\ c.reg \in Registration
    BY <1>1, <1>4
       DEF CommitHold, CopiesPresent, HoldsEvent, HoldsEmail, HoldsReg, Creating, PCs
  <2>2. CASE CreateRegistrationWithPayment(c.email, c.reg, c.intent, c.event)
    <3>1. event # None /\ event.version = c.event.version - 1 /\ regs[c.email] = None
      BY <2>2 DEF CreateRegistrationWithPayment, CreateRegistrationWithPaymentHolds,
                  newEntityVersionConditional, existingEntityVersionConditional
    <3>2. c.event.version = event.version + 1
      BY <1>1, <2>1, <3>1 DEF Event
    <3>3. QED
      BY <2>1, <2>2, <3>1, <3>2 DEF CreateRegistrationWithPayment, Writes
  <2>3. QED
    BY <1>4, <2>2 DEF CommitHold
<1>5. CASE CommitRelease(w)
  <2>1. /\ c.pc = "DeleteExpiredRegistration" /\ c.event \in Event
        /\ c.email \in Emails /\ c.reg \in Registration
    BY <1>1, <1>5
       DEF CommitRelease, CopiesPresent, HoldsEvent, HoldsEmail, HoldsReg, PCs
  <2>2. CASE DeleteExpiredRegistration(c.email, c.reg, c.intent, c.event)
    <3>1. event # None /\ event.version = c.event.version - 1 /\ regs[c.email] # None
      BY <2>2 DEF DeleteExpiredRegistration, DeleteExpiredRegistrationHolds,
                  deleteEntityVersionConditional, existingEntityVersionConditional
    <3>2. c.event.version = event.version + 1
      BY <1>1, <2>1, <3>1 DEF Event
    <3>3. QED
      BY <2>1, <2>2, <3>1, <3>2 DEF DeleteExpiredRegistration, Writes
  <2>3. QED
    BY <1>5, <2>2 DEF CommitRelease
<1>6. QED
  BY <1>2, <1>3, <1>4, <1>5

LEMMA PaidKeepsEmails ==
  ASSUME TypeInv, NEW w \in Workers, CommitPaid(w)
  PROVE  event' = event /\ SameEmails
<1>1. /\ regs \in [Emails -> Registration \cup {None}]
      /\ call[w].email \in Emails /\ call[w].reg # None
  BY TypeInvParts, NoneIsNoItem
     DEF CommitPaid, TableOK, CallOK, CopiesPresent, HoldsEmail, HoldsReg, PCs
<1>2. CASE UpdateRegistrationToPaid(call[w].email, call[w].reg)
  BY <1>1, <1>2 DEF UpdateRegistrationToPaid, UpdateRegistrationToPaidHolds,
                    existingEntityVersionConditional, SameEmails
<1>3. CASE UNCHANGED tableVars
  BY <1>3 DEF tableVars, SameEmails
<1>4. QED
  BY <1>2, <1>3 DEF CommitPaid

LEMMA EventMoves ==
  ASSUME TypeInv, Next
  PROVE  EventMove
<1>1. ASSUME UNCHANGED tableVars PROVE EventMove
  BY <1>1 DEF tableVars, EventMove, SameEmails
<1>2. ASSUME NEW w \in Workers,
             CommitPatch(w) \/ CommitRegistration(w) \/ CommitHold(w) \/ CommitRelease(w)
      PROVE  EventMove
  BY <1>1, <1>2, CommitsWrite DEF EventMove
<1>3. ASSUME NEW w \in Workers, CommitPaid(w) PROVE EventMove
  BY <1>3, PaidKeepsEmails DEF EventMove
<1>4. ASSUME NEW w \in Workers,
             CreateCheckout(w) \/ SendConfirmation(w) \/ ReadIntent(w) \/ ReadEvent(w)
               \/ HandlerFails(w)
      PROVE  EventMove
  BY <1>1, <1>4 DEF CreateCheckout, SendConfirmation, ReadIntent, ReadEvent, HandlerFails
<1>5. ASSUME NEW w \in Workers, NEW s \in Sessions,
             WebhookCompleted(w, s) \/ WebhookExpired(w, s)
      PROVE  EventMove
  BY <1>1, <1>5 DEF WebhookCompleted, WebhookExpired
<1>6. ASSUME NEW w \in Workers, NEW config \in Configs, PatchEventsV1Id(w, config)
      PROVE  EventMove
  BY <1>1, <1>6 DEF PatchEventsV1Id
<1>7. ASSUME NEW w \in Workers, NEW to, NEW e, NEW shape, NEW at, NEW nextPc,
             StartRegistration(w, to, e, shape, at, nextPc)
      PROVE  EventMove
  BY <1>1, <1>7 DEF StartRegistration
<1>8. ASSUME NEW config \in Configs, PostEventsV1(config) PROVE EventMove
  BY <1>8 DEF PostEventsV1, CreateEvent, newEntityVersionConditional, EventMove
<1>9. ASSUME NEW s \in Sessions, PaySession(s) \/ ExpireSession(s) PROVE EventMove
  BY <1>1, <1>9 DEF PaySession, ExpireSession
<1>10. ASSUME ReplicaCatchesUp PROVE EventMove
  BY <1>10 DEF ReplicaCatchesUp, Replicate, EventMove, SameEmails
<1>11. QED
  BY <1>2, <1>3, <1>4, <1>5, <1>6, <1>7, <1>8, <1>9, <1>10, NextCases

-----------------------------------------------------------------------------
\* ReplicaBehind and CopiesFit.

LEMMA ReplicaBehindStep ==
  ASSUME TypeInv, ReplicaBehind, Next
  PROVE  ReplicaBehind'
<1>1. /\ event \in Event \cup {None} /\ event' \in Event \cup {None}
      /\ replica.event \in Event \cup {None}
  BY PlainTypesStep, TypeInvParts DEF TableOK, TableType
<1>2. CASE replica' = Table'
  BY <1>1, <1>2 DEF Table, ReplicaBehind, Event
<1>3. CASE replica' = replica
  <2>1. SUFFICES ASSUME replica.event # None
                 PROVE  /\ event' # None
                        /\ replica.event.version <= event'.version
                        /\ replica.event.version = event'.version => replica.event = event'
    BY <1>3 DEF ReplicaBehind
  <2>2. /\ event # None /\ replica.event.version <= event.version
        /\ replica.event.version = event.version => replica.event = event
    BY <2>1 DEF ReplicaBehind
  <2>3. CASE event' = event
    BY <2>2, <2>3
  <2>4. CASE \E w \in Workers : Writes(w)
    <3>1. event' \in Event /\ event'.version = event.version + 1
      BY <2>4 DEF Writes
    <3>2. event.version \in Nat /\ replica.event.version \in Nat
      BY <1>1, <2>1, <2>2 DEF Event
    <3>3. QED
      BY <2>2, <3>1, <3>2, NoneIsNoItem
  <2>5. QED
    BY <2>2, <2>3, <2>4, EventMoves DEF EventMove
<1>4. QED
  BY <1>2, <1>3, ReplicaMoves

\* What a read answers is the current event or one of an earlier version.
LEMMA SeenIsBehind ==
  ASSUME TypeInv, ReplicaBehind, NEW seen \in GetEvent, seen # None
  PROVE  /\ seen \in Event /\ event \in Event
         /\ seen.version <= event.version
         /\ seen.version = event.version => seen = event
<1>1. seen \in Event /\ event \in Event \cup {None}
  BY ReadsType, TypeInvParts DEF TypeInv, PlainTypes, TableOK
<1>2. CASE seen = event
  BY <1>1, <1>2 DEF Event
<1>3. CASE seen = replica.event
  BY <1>1, <1>3 DEF ReplicaBehind
<1>4. QED
  BY <1>2, <1>3 DEF GetEvent

\* What CopiesFit says of one copy and the current event.
Fits(c, ev) ==
  /\ ev # None
  /\ c.event.version <= ev.version + 1
  /\ c.event.version = ev.version + 1 =>
       /\ c.pc = "UpdateEvent" => c.event = PatchedEvent(ev, c.event.config)
       /\ c.pc \in Creating => c.event = WithRegistration(ev, c.reg)
       /\ c.pc = "DeleteExpiredRegistration" => c.event = WithoutRegistration(ev, c.reg)
  /\ c.pc \in Creating => MayRegister(c.event.config, c.reg)

LEMMA CopiesFitParts ==
  /\ CopiesFit <=> \A w \in Workers : call[w].pc \in HoldsEvent => Fits(call[w], event)
  /\ CopiesFit' <=> \A w \in Workers : call'[w].pc \in HoldsEvent => Fits(call'[w], event')
BY DEF CopiesFit, Fits

LEMMA CopyStays ==
  ASSUME TypeInv, CopiesFit, Next, NEW v \in Workers,
         call'[v] = call[v], call[v].pc \in HoldsEvent
  PROVE  Fits(call[v], event')
<1>1. Fits(call[v], event) /\ call[v].event \in Event /\ event \in Event \cup {None}
  BY CopiesFitParts, TypeInvParts DEF TableOK, CallOK, CopiesPresent
<1>2. CASE event' = event
  BY <1>1, <1>2
<1>3. CASE event = None
  BY <1>1, <1>3 DEF Fits
<1>4. CASE \E w \in Workers : Writes(w)
  <2>1. event' \in Event /\ event'.version = event.version + 1 /\ event # None
    BY <1>4 DEF Writes
  <2>2. call[v].event.version <= event'.version
    BY <1>1, <2>1 DEF Fits
  <2>3. call[v].event.version \in Nat /\ event'.version \in Nat
    BY <1>1, <2>1 DEF Event
  <2>4. /\ call[v].event.version <= event'.version + 1
        /\ call[v].event.version # event'.version + 1
    BY <2>2, <2>3
  <2>5. QED
    BY <1>1, <2>1, <2>4, NoneIsNoItem DEF Fits
<1>5. QED
  BY <1>2, <1>3, <1>4, EventMoves DEF EventMove

LEMMA CopyMoves ==
  ASSUME TypeInv, ReplicaBehind, CopiesFit, Next, NEW v \in Workers, OwnStep(v),
         call'[v].pc \in HoldsEvent
  PROVE  Fits(call'[v], event')
<1> DEFINE c == call'[v]
<1>1. CASE c.pc = "UpdateEvent"
  <2>1. PICK config \in Configs, seen \in GetEvent :
          seen # None /\ c.event = PatchedEvent(seen, config)
    BY <1>1, ReachesUpdateEvent
  <2>2. /\ seen \in Event /\ event \in Event
        /\ seen.version <= event.version
        /\ seen.version = event.version => seen = event
    BY <2>1, SeenIsBehind
  <2>3. c.event.version = seen.version + 1 /\ c.event.config = config
    BY <2>1, <2>2, PatchedEventType, ConstantTypes DEF EventItem
  <2>4. seen.version \in Nat /\ event.version \in Nat /\ event' = event
    BY <1>1, <2>2, ReachesUpdateEvent DEF Event, tableVars
  <2>5. QED
    BY <1>1, <2>1, <2>2, <2>3, <2>4, NoneIsNoItem DEF Fits, Creating
<1>2. CASE c.pc \in {"CreateRegistration", "CreateCheckout"}
  <2>1. PICK e \in Emails, at \in Times, seen \in GetEvent : \E shape \in ShapesOf[e] :
          LET reg == NewRegistration(shape, at) IN
          /\ seen # None /\ MayRegister(seen.config, reg)
          /\ c.reg = reg /\ c.event = WithRegistration(seen, reg)
    BY <1>2, ReachesCreate
  <2>2. /\ seen # None /\ MayRegister(seen.config, c.reg)
        /\ c.reg \in Registration /\ c.event = WithRegistration(seen, c.reg)
    BY <2>1, NewRegistrationType
  <2>3. /\ seen \in Event /\ event \in Event
        /\ seen.version <= event.version
        /\ seen.version = event.version => seen = event
    BY <2>2, SeenIsBehind
  <2>4. c.event.version = seen.version + 1 /\ c.event.config = seen.config
    BY <2>2, <2>3, WithRegistrationType DEF EventItem
  <2>5. seen.version \in Nat /\ event.version \in Nat /\ event' = event
    BY <1>2, <2>3, ReachesCreate DEF Event, tableVars
  <2>6. QED
    BY <1>2, <2>2, <2>3, <2>4, <2>5, NoneIsNoItem DEF Fits, Creating
<1>3. CASE c.pc = "CreateRegistrationWithPayment"
  <2>1. /\ event' = event /\ call[v].pc = "CreateCheckout"
        /\ c.reg = call[v].reg /\ c.event = call[v].event
    BY <1>3, ReachesHold DEF tableVars
  <2>2. Fits(call[v], event)
    BY <2>1, CopiesFitParts DEF HoldsEvent, Creating
  <2>3. QED
    BY <1>3, <2>1, <2>2 DEF Fits, Creating
<1>4. CASE c.pc = "DeleteExpiredRegistration"
  <2>1. PICK seen \in GetEvent :
          seen # None /\ c.event = WithoutRegistration(seen, call[v].reg)
    BY <1>4, ReachesRelease
  <2>2. /\ seen \in Event /\ event \in Event
        /\ seen.version <= event.version
        /\ seen.version = event.version => seen = event
    BY <2>1, SeenIsBehind
  <2>3. c.reg = call[v].reg /\ call[v].reg \in Registration /\ event' = event
    BY <1>4, ReachesRelease, TypeInvParts DEF CallOK, CopiesPresent, HoldsReg, tableVars
  <2>4. c.event.version = seen.version + 1
    BY <2>1, <2>2, <2>3, WithoutRegistrationType DEF EventItem
  <2>5. seen.version \in Nat /\ event.version \in Nat
    BY <2>2 DEF Event
  <2>6. QED
    BY <1>4, <2>1, <2>2, <2>3, <2>4, <2>5, NoneIsNoItem DEF Fits, Creating
<1>5. QED
  BY <1>1, <1>2, <1>3, <1>4 DEF HoldsEvent, Creating

LEMMA CopiesFitStep ==
  ASSUME TypeInv, ReplicaBehind, CopiesFit, Next
  PROVE  CopiesFit'
<1>1. ASSUME NEW v \in Workers, call'[v].pc \in HoldsEvent
      PROVE  Fits(call'[v], event')
  <2>1. CASE call'[v] = call[v]
    BY <1>1, <2>1, CopyStays
  <2>2. CASE call'[v] # call[v]
    BY <1>1, <2>2, CopyMoves, MovedByOwnStep
  <2>3. QED
    BY <2>1, <2>2
<1>2. QED
  BY <1>1, CopiesFitParts

-----------------------------------------------------------------------------
\* The event item's invariant is inductive.

EventInv == SettleInv /\ ReplicaBehind /\ CopiesFit

LEMMA EventInvInit == Init => EventInv
<1> SUFFICES ASSUME Init PROVE EventInv
  OBVIOUS
<1>1. replica.event = None /\ \A w \in Workers : call[w].pc = "idle"
  BY DEF Init, TableInit, Table, Idle
<1>2. QED
  BY <1>1, SettleInvInit DEF EventInv, ReplicaBehind, CopiesFit, HoldsEvent, Creating

LEMMA EventInvStep == EventInv /\ [Next]_vars => EventInv'
<1>1. ASSUME EventInv, Next PROVE EventInv'
  BY <1>1, SettleInvStep, ReplicaBehindStep, CopiesFitStep DEF EventInv, SettleInv
<1>2. ASSUME EventInv, UNCHANGED vars PROVE EventInv'
  <2>1. SettleInv'
    BY <1>2, SettleInvStep DEF EventInv
  <2>2. ReplicaBehind' /\ CopiesFit'
    BY <1>2 DEF EventInv, ReplicaBehind, CopiesFit, vars
  <2>3. QED
    BY <2>1, <2>2 DEF EventInv
<1>3. QED
  BY <1>1, <1>2

LEMMA EventInvAlways == Spec => []EventInv
BY EventInvInit, EventInvStep, PTL DEF Spec

-----------------------------------------------------------------------------
\* What was acknowledged was confirmed, where the webhook's last read finds the event.

\* An event that is yet to be created has no registrations.
EventBeforeRegs == event = None => \A e \in Emails : regs[e] = None

LEMMA EventBeforeRegsStep ==
  ASSUME TypeInv, EventBeforeRegs, Next
  PROVE  EventBeforeRegs'
<1>1. CASE event' = event /\ SameEmails
  BY <1>1 DEF EventBeforeRegs, SameEmails
<1>2. CASE \E config \in Configs : event' = NewEvent(config)
  BY <1>2, NewEventType, NoneIsNoItem DEF EventBeforeRegs
<1>3. CASE \E w \in Workers : Writes(w)
  BY <1>3, NoneIsNoItem DEF Writes, EventBeforeRegs
<1>4. QED
  BY <1>1, <1>2, <1>3, EventMoves DEF EventMove

ReadsAreFresh == replica = Table

LEMMA ReadsAreFreshStep ==
  ASSUME StaleReads = FALSE, ReadsAreFresh, Next
  PROVE  ReadsAreFresh'
<1>1. Table' = Table \/ ~UNCHANGED tableVars
  BY DEF Table, tableVars
<1>2. UNCHANGED tableVars => replica' = replica
  BY DEF tableVars
<1>3. QED
  BY <1>1, <1>2, ReplicaFollows DEF ReadsAreFresh, Written

\* What the webhook needs of its last read, where a payment is recorded already: that it
\* does not miss an event created long before.
EventIsSeen ==
  \A w \in Workers :
    call[w].pc = "SendConfirmation" /\ call[w].session # None => None \notin GetEvent

\* Whoever acknowledges a completed session has just sent the confirmation or failed to.
LEMMA AckTells ==
  ASSUME EventInv, EventIsSeen,
         NEW w \in Workers, Acks(w), sessions[call[w].session].state = "complete"
  PROVE  sessions[call[w].session].email \in confirmed' \/ faults' # faults
<1> DEFINE c == call[w]
<1>1. /\ TypeInv /\ CallSession /\ CallConfirms
      /\ faults \in Nat /\ c.session # None
  BY TypeInvParts, NoneIsNoItem DEF EventInv, SettleInv, Acks
<1>2. SendConfirmation(w) /\ c.pc = "SendConfirmation"
  BY <1>1 DEF Acks, ReadIntent, CommitRelease, CallSession, Releasing, SendConfirmation
<1>3. sessions[c.session].email = c.email
  BY <1>1, <1>2 DEF CallSession
<1>4. None \notin GetEvent
  BY <1>1, <1>2 DEF EventIsSeen
<1>5. confirmed' = confirmed \cup {c.email} \/ Fault
  BY <1>2, <1>4 DEF SendConfirmation
<1>6. QED
  BY <1>1, <1>3, <1>5 DEF Fault

\* What AckedIsTold says of one step.
Told ==
  \A s \in Sessions :
    ~sessions[s].acked /\ sessions'[s].acked /\ sessions'[s].state = "complete"
      => sessions'[s].email \in confirmed' \/ faults' # faults

LEMMA AckedIsToldStep ==
  ASSUME EventInv, EventIsSeen, Next
  PROVE  Told
<1>1. SUFFICES ASSUME NEW s \in Sessions, ~sessions[s].acked,
                      sessions'[s].acked, sessions'[s].state = "complete"
               PROVE  sessions'[s].email \in confirmed' \/ faults' # faults
  BY DEF Told
<1>2. TypeInv /\ CallSession /\ sessions[s] \in Stripe!SessionType
  BY TypeInvParts DEF EventInv, SettleInv
<1>3. PICK w \in Workers : Acks(w) /\ call[w].session = s
  BY <1>1, <1>2, SessionStates
<1>4. sessions'[s].state = sessions[s].state
  BY <1>2, <1>3, TypeInvParts DEF Acks, Stripe!Acked, Stripe!SessionType
<1>5. sessions'[s].email = sessions[s].email
  BY <1>1, <1>2, <1>4, SessionFields DEF Stripe!SessionType
<1>6. QED
  BY <1>1, <1>3, <1>4, <1>5, AckTells

-----------------------------------------------------------------------------
\* The theorems.

(* AdmittedUnderTheRules: a registration enters the table only in a state in which    *)
(* the event's own settings allow it (AdmittedOnlyWhenOpen), although the handler     *)
(* checked a copy it read before: had the settings changed, the version would have.   *)
THEOREM AdmittedUnderTheRules == Spec => AdmittedOnlyWhenOpen
<1> DEFINE Admitted == \A e \in Emails : regs[e] = None /\ regs'[e] # None =>
                         event # None /\ MayRegister(event.config, regs'[e])
<1>1. ASSUME EventInv, Next PROVE Admitted
  <2>1. SUFFICES ASSUME NEW e \in Emails, regs[e] = None, regs'[e] # None
                 PROVE  event # None /\ MayRegister(event.config, regs'[e])
    OBVIOUS
  <2>2. TypeInv /\ regs \in [Emails -> Registration \cup {None}]
    BY <1>1, TypeInvParts DEF EventInv, SettleInv, TableOK
  <2>3. PICK w \in Workers : Writes(w)
    BY <1>1, <2>1, <2>2, EventMoves DEF EventMove, SameEmails
  <2>4. /\ call[w].pc \in Creating
        /\ regs'[e] = call[w].reg /\ call[w].reg \in Registration
    BY <2>1, <2>2, <2>3 DEF Writes, Creating
  <2>5. Fits(call[w], event)
    BY <1>1, <2>4, CopiesFitParts DEF EventInv, HoldsEvent
  <2>6. call[w].event = WithRegistration(event, call[w].reg) /\ event \in Event
    BY <2>2, <2>3, <2>4, <2>5, TypeInvParts DEF Writes, Fits, TableOK
  <2>7. call[w].event.config = event.config
    BY <2>4, <2>6, WithRegistrationType DEF EventItem
  <2>8. QED
    BY <2>3, <2>4, <2>5, <2>7 DEF Fits, Writes
<1>2. EventInv /\ [Next]_vars => [Admitted]_vars
  BY <1>1
<1>3. QED
  BY <1>2, EventInvAlways, PTL DEF Spec, AdmittedOnlyWhenOpen

(* UpdatesAreKept: a write of the event item moves its version on by one and changes  *)
(* the settings alone or, with one registration, the counters alone (NoLostUpdate).   *)
THEOREM UpdatesAreKept == Spec => NoLostUpdate
<1> DEFINE Kept ==
      event # None /\ event' # event =>
        /\ event' # None
        /\ event'.version = event.version + 1
        /\ IF regs' = regs
             THEN /\ event'.numTeams = event.numTeams
                  /\ event'.numRostered = event.numRostered
                  /\ event'.numTotal = event.numTotal
             ELSE event'.config = event.config
<1>1. ASSUME EventInv, Next PROVE Kept
  <2>1. SUFFICES ASSUME event # None, event' # event PROVE Kept
    OBVIOUS
  <2>2. TypeInv /\ event \in Event /\ regs \in [Emails -> Registration \cup {None}]
    BY <1>1, <2>1, TypeInvParts DEF EventInv, SettleInv, TableOK
  <2>3. PICK w \in Workers : Writes(w)
    BY <1>1, <2>1, <2>2, EventMoves DEF EventMove
  <2> DEFINE c == call[w]
  <2>4. /\ event' = c.event /\ c.event # None /\ c.event.version = event.version + 1
        /\ c.pc \in HoldsEvent
    BY <2>3, NoneIsNoItem DEF Writes, HoldsEvent, Creating
  <2>5. Fits(c, event)
    BY <1>1, <2>4, CopiesFitParts DEF EventInv
  <2>6. CASE c.pc = "UpdateEvent"
    <3>1. regs' = regs /\ c.event.config \in Config
      BY <2>3, <2>6 DEF Writes, Event
    <3>2. c.event = PatchedEvent(event, c.event.config)
      BY <2>4, <2>5, <2>6 DEF Fits
    <3>3. /\ c.event.numTeams = event.numTeams
          /\ c.event.numRostered = event.numRostered
          /\ c.event.numTotal = event.numTotal
      BY <2>2, <3>1, <3>2, PatchedEventType DEF EventItem
    <3>4. QED
      BY <2>4, <3>1, <3>3
  <2>7. CASE c.pc # "UpdateEvent"
    <3>1. c.reg \in Registration /\ regs' # regs
      BY <2>2, <2>3, <2>7, NoneIsNoItem DEF Writes
    <3>2. \/ c.event = WithRegistration(event, c.reg)
          \/ c.event = WithoutRegistration(event, c.reg)
      BY <2>3, <2>4, <2>5, <2>7 DEF Writes, Fits, Creating
    <3>3. WithRegistration(event, c.reg).config = event.config
      BY <2>2, <3>1, WithRegistrationType DEF EventItem
    <3>4. WithoutRegistration(event, c.reg).config = event.config
      BY <2>2, <3>1, WithoutRegistrationType DEF EventItem
    <3>5. c.event.config = event.config
      BY <3>2, <3>3, <3>4
    <3>6. QED
      BY <2>4, <3>1, <3>5
  <2>8. QED
    BY <2>6, <2>7
<1>2. EventInv /\ [Next]_vars => [Kept]_vars
  BY <1>1
<1>3. QED
  BY <1>2, EventInvAlways, PTL DEF Spec, NoLostUpdate

-----------------------------------------------------------------------------
(* ConfirmedWhereEventIsSeen: reads of registrations and intents may be as stale as    *)
(* they like; the step that acknowledges a payment comes after its confirmation or    *)
(* fails to send it (AckedIsTold), as long as the webhook's read of the event finds   *)
(* it, which was there before anybody registered                                      *)
(* (api/registrationpayment.go:77-102).                                               *)
THEOREM ConfirmedWhereEventIsSeen == Spec /\ []EventIsSeen => AckedIsTold
<1>1. EventInv /\ EventIsSeen /\ [Next]_vars => [Told]_vars
  BY AckedIsToldStep
<1>2. AckedIsTold <=> [][Told]_vars
  BY PTL DEF AckedIsTold, Told
<1>3. QED
  BY <1>1, <1>2, EventInvAlways, PTL DEF Spec

(* ConfirmedBeforeSilence: where reads see every earlier write, they see the event,   *)
(* and a payment is acknowledged after its confirmation or in the step that fails to  *)
(* send it (AckedIsTold).                                                             *)
THEOREM ConfirmedBeforeSilence ==
  ASSUME StaleReads = FALSE
  PROVE  Spec => AckedIsTold
<1> DEFINE SeenInv == EventBeforeRegs /\ ReadsAreFresh
<1>1. Init => SeenInv
  BY DEF Init, TableInit, NoItems, EventBeforeRegs, ReadsAreFresh
<1>2. EventInv /\ SeenInv /\ [Next]_vars => SeenInv'
  <2>1. EventInv /\ SeenInv /\ Next => SeenInv'
    BY EventBeforeRegsStep, ReadsAreFreshStep DEF EventInv, SettleInv
  <2>2. SeenInv /\ UNCHANGED vars => SeenInv'
    BY DEF EventBeforeRegs, ReadsAreFresh, Table, vars
  <2>3. QED
    BY <2>1, <2>2
<1>3. EventInv /\ SeenInv => EventIsSeen
  <2>1. SUFFICES ASSUME EventInv, SeenInv, NEW w \in Workers,
                        call[w].pc = "SendConfirmation"
                 PROVE  None \notin GetEvent
    BY DEF EventIsSeen
  <2>2. call[w].email \in Emails /\ Settled(call[w].email)
    BY <2>1, TypeInvParts
       DEF EventInv, SettleInv, CallConfirms, CallOK, CopiesPresent, HoldsEmail, PCs
  <2>3. QED
    BY <2>1, <2>2 DEF Settled, EventBeforeRegs, ReadsAreFresh, GetEvent, Table
<1>4. Spec => []EventIsSeen
  BY <1>1, <1>2, <1>3, EventInvAlways, PTL DEF Spec
<1>5. QED
  BY <1>4, ConfirmedWhereEventIsSeen, PTL

-----------------------------------------------------------------------------
\* What 404 and 409 say.

\* What a response says that no fault distorts: 404 comes from a read without an answer
\* or from a version that moved on, 409 from a condition that did not hold.
NotFoundReply ==
  reply'.to = "PATCH" /\ reply'.status = 404 =>
    /\ event' = event
    /\ \/ None \in GetEvent
       \/ \E w \in Workers : /\ call[w].pc = "UpdateEvent" /\ call'[w].pc = "idle"
                             /\ ~UpdateEventHolds(call[w].event)

AlreadyExistsReply ==
  reply'.status = 409 =>
    /\ regs' = regs
    /\ \E w \in Workers :
         LET c == call[w] IN
         /\ reply'.email = c.email /\ call'[w].pc = "idle"
         /\ \/ /\ c.pc = "CreateRegistration"
               /\ ~CreateRegistrationHolds(c.email, c.reg, c.event)
            \/ /\ c.pc = "CreateRegistrationWithPayment"
               /\ ~CreateRegistrationWithPaymentHolds(c.email, c.reg, c.intent, c.event)

LEMMA PlainReplies ==
  ASSUME TypeInv, Next, faults' = faults
  PROVE  NotFoundReply /\ AlreadyExistsReply
<1> USE DEF Goto, Return, NoReply, tableVars, NotFoundReply, AlreadyExistsReply
<1>1. ~Fault
  BY TypeInvParts DEF Fault
<1>2. CASE \E config \in Configs : PostEventsV1(config)
  BY <1>2 DEF PostEventsV1
<1>3. ASSUME NEW w \in Workers, NEW config \in Configs, PatchEventsV1Id(w, config)
      PROVE  NotFoundReply /\ AlreadyExistsReply
  BY <1>3 DEF PatchEventsV1Id
<1>4. ASSUME NEW w \in Workers, NEW to \in {"register", "registrations"}, NEW e, NEW shape,
             NEW at, NEW nextPc, StartRegistration(w, to, e, shape, at, nextPc)
      PROVE  NotFoundReply /\ AlreadyExistsReply
  BY <1>4 DEF StartRegistration, RefusalStatus
<1>5. ASSUME NEW w \in Workers, CommitPatch(w)
      PROVE  NotFoundReply /\ AlreadyExistsReply
  BY <1>1, <1>5, ReturnIsIdle DEF CommitPatch
<1>6. ASSUME NEW w \in Workers, CommitRegistration(w)
      PROVE  NotFoundReply /\ AlreadyExistsReply
  BY <1>1, <1>6, ReturnIsIdle DEF CommitRegistration
<1>7. ASSUME NEW w \in Workers, CommitHold(w)
      PROVE  NotFoundReply /\ AlreadyExistsReply
  BY <1>1, <1>7, ReturnIsIdle DEF CommitHold
<1>8. ASSUME NEW w \in Workers,
             CreateCheckout(w) \/ CommitPaid(w) \/ SendConfirmation(w) \/ ReadIntent(w)
               \/ ReadEvent(w) \/ CommitRelease(w)
      PROVE  NotFoundReply /\ AlreadyExistsReply
  <2>1. CreateCheckout(w) => reply'.status \in {0, 500}
    <3>1. CreateCheckout(w) => \/ \E next : Goto(w, next)
                               \/ Return(w, "registrations", 500, call[w].email)
      BY Zenon DEF CreateCheckout
    <3>2. QED
      BY <3>1
  <2>2. CommitPaid(w) => reply'.status \in {0, 500}
    BY <1>1 DEF CommitPaid
  <2>3. SendConfirmation(w) => reply'.status = 200
    BY <1>1 DEF SendConfirmation
  <2>4. ReadIntent(w) => reply'.status \in {0, 200, 500}
    BY DEF ReadIntent
  <2>5. ReadEvent(w) => reply'.status \in {0, 500}
    BY DEF ReadEvent
  <2>6. CommitRelease(w) => reply'.status \in {200, 500}
    BY <1>1 DEF CommitRelease
  <2>7. QED
    BY <1>8, <2>1, <2>2, <2>3, <2>4, <2>5, <2>6
<1>9. ASSUME NEW w \in Workers, NEW s \in Sessions,
             WebhookCompleted(w, s) \/ WebhookExpired(w, s)
      PROVE  NotFoundReply /\ AlreadyExistsReply
  <2>1. WebhookCompleted(w, s) => reply'.status \in {0, 500}
    BY DEF WebhookCompleted
  <2>2. WebhookExpired(w, s) => reply'.status = 0
    BY DEF WebhookExpired
  <2>3. QED
    BY <1>9, <2>1, <2>2
<1>10. \A w \in Workers : ~HandlerFails(w)
  BY <1>1 DEF HandlerFails
<1>11. ASSUME ReplicaCatchesUp \/ \E s \in Sessions : PaySession(s) \/ ExpireSession(s)
       PROVE  NotFoundReply /\ AlreadyExistsReply
  BY <1>11 DEF ReplicaCatchesUp, PaySession, ExpireSession
<1>12. QED
  BY <1>2, <1>3, <1>4, <1>5, <1>6, <1>7, <1>8, <1>9, <1>10, <1>11, NextCases

\* A copy that cannot be written was overtaken.
LEMMA OvertakenCopy ==
  ASSUME TypeInv, CopiesFit, NEW w \in Workers,
         call[w].pc \in {"UpdateEvent", "CreateRegistration", "CreateRegistrationWithPayment"},
         call'[w].pc = "idle",
         ~existingEntityVersionConditional(event, call[w].event.version)
  PROVE  Overtaken(w)
<1>1. /\ event # None /\ event \in Event /\ call[w].event \in Event
      /\ call[w].event.version <= event.version + 1
  BY TypeInvParts DEF CopiesFit, TableOK, CallOK, CopiesPresent, HoldsEvent, Creating
<1>2. event.version \in Nat /\ call[w].event.version \in Nat
  BY <1>1 DEF Event
<1>3. event.version # call[w].event.version - 1
  BY <1>1 DEF existingEntityVersionConditional
<1>4. QED
  BY <1>1, <1>2, <1>3 DEF Overtaken

\* Where the email has no registration, the event's version is the only condition that
\* can have failed: there is no intent without a registration.
LEMMA TakenByNobody ==
  ASSUME EventInv, NEW w \in Workers, regs[call[w].email] = None, call'[w].pc = "idle",
         LET c == call[w] IN
           \/ /\ c.pc = "CreateRegistration"
              /\ ~CreateRegistrationHolds(c.email, c.reg, c.event)
           \/ /\ c.pc = "CreateRegistrationWithPayment"
              /\ ~CreateRegistrationWithPaymentHolds(c.email, c.reg, c.intent, c.event)
  PROVE  Overtaken(w)
<1> DEFINE c == call[w]
<1>1. TypeInv /\ CopiesFit /\ HoldInv /\ CallReg /\ CallSession
  BY DEF EventInv, SettleInv
<1>2. c.pc \in Creating /\ c.email \in Emails /\ c.reg.version = 1
  BY <1>1, TypeInvParts DEF CallReg, CallOK, CopiesPresent, HoldsEmail, PCs, Creating
<1>3. c.pc = "CreateRegistrationWithPayment" => c.intent.version = 1
  <2>1. c.pc = "CreateRegistrationWithPayment" => c.intent = NewIntent(c.session)
    BY <1>1 DEF CallSession
  <2>2. QED
    BY <2>1 DEF NewIntent
<1>4. intents[c.email] = None
  BY <1>1, <1>2 DEF HoldInv
<1>5. ~existingEntityVersionConditional(event, c.event.version)
  BY <1>2, <1>3, <1>4
     DEF CreateRegistrationHolds, CreateRegistrationWithPaymentHolds,
         newEntityVersionConditional
<1>6. QED
  BY <1>1, <1>5, OvertakenCopy

(* WrongAnswersAreLostRaces: for any number of handlers, reads and faults, 404 for an  *)
(* event that exists and 409 for an email that nobody registered are sent only by a    *)
(* handler whose copy of the event was overtaken, after a read from before the event,  *)
(* or in a step in which a call fails (OnlyLostRacesMisinform; dynamo/events.go:315,   *)
(* dynamo/registration.go:206 and 285).                                                *)
THEOREM WrongAnswersAreLostRaces == Spec => OnlyLostRacesMisinform
<1> DEFINE NotFoundTold == reply'.to = "PATCH" /\ reply'.status = 404 /\ event' # None
           TakenTold == reply'.status = 409 /\ regs'[reply'.email] = None
           Updating(w) == call[w].pc = "UpdateEvent" /\ Overtaken(w)
           Registering(w) ==
             /\ call[w].pc \in {"CreateRegistration", "CreateRegistrationWithPayment"}
             /\ call[w].email = reply'.email
             /\ Overtaken(w)
           Explained ==
             /\ NotFoundTold => \/ faults' # faults \/ replica.event = None
                                \/ \E w \in Workers : Updating(w)
             /\ TakenTold => faults' # faults \/ \E w \in Workers : Registering(w)
<1>1. ASSUME EventInv, Next, faults' = faults PROVE Explained
  <2>1. TypeInv /\ CopiesFit /\ NotFoundReply /\ AlreadyExistsReply
    BY <1>1, PlainReplies DEF EventInv, SettleInv
  <2>2. ASSUME NotFoundTold, replica.event # None
        PROVE  \E w \in Workers : Updating(w)
    <3>1. event' = event /\ None \notin GetEvent
      BY <2>1, <2>2 DEF NotFoundReply, GetEvent
    <3>2. PICK w \in Workers : /\ call[w].pc = "UpdateEvent" /\ call'[w].pc = "idle"
                               /\ ~UpdateEventHolds(call[w].event)
      BY <2>1, <2>2, <3>1 DEF NotFoundReply
    <3>3. QED
      BY <2>1, <3>2, OvertakenCopy DEF UpdateEventHolds
  <2>3. ASSUME TakenTold PROVE \E w \in Workers : Registering(w)
    <3>1. PICK w \in Workers :
            LET c == call[w] IN
            /\ reply'.email = c.email /\ call'[w].pc = "idle" /\ regs' = regs
            /\ \/ /\ c.pc = "CreateRegistration"
                  /\ ~CreateRegistrationHolds(c.email, c.reg, c.event)
               \/ /\ c.pc = "CreateRegistrationWithPayment"
                  /\ ~CreateRegistrationWithPaymentHolds(c.email, c.reg, c.intent, c.event)
      BY <2>1, <2>3 DEF AlreadyExistsReply
    <3>2. Overtaken(w)
      BY <1>1, <2>3, <3>1, TakenByNobody
    <3>3. QED
      BY <3>1, <3>2
  <2>4. QED
    BY <2>2, <2>3
<1>2. EventInv /\ [Next]_vars => [Explained]_vars
  BY <1>1
<1>3. QED
  BY <1>2, EventInvAlways, PTL DEF Spec, OnlyLostRacesMisinform
=============================================================================
