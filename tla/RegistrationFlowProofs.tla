------------------------ MODULE RegistrationFlowProofs ------------------------
(***************************************************************************)
(* Registrations, intents and checkout sessions stay in step: the proof    *)
(* that SettleInv is inductive, and the safety properties that follow.     *)
(* The first part says what one step can do to each variable (the items of *)
(* one email, the replica, the sessions, the handlers' copies); the second *)
(* takes the conjuncts of SettleInv one by one.                            *)
(***************************************************************************)
EXTENDS RegistrationTypeProofs

-----------------------------------------------------------------------------
\* What a step does to the items of one email.

Unmoved(e) == regs'[e] = regs[e] /\ intents'[e] = intents[e]

Registers(w, e) ==
  /\ call[w].pc = "CreateRegistration" /\ call[w].email = e
  /\ regs[e] = None
  /\ regs'[e] = call[w].reg /\ intents'[e] = intents[e]

Holds(w, e) ==
  /\ CommitHold(w)
  /\ call[w].pc = "CreateRegistrationWithPayment" /\ call[w].email = e
  /\ regs[e] = None /\ intents[e] = None
  /\ regs'[e] = call[w].reg /\ intents'[e] = call[w].intent

Settles(w, e) ==
  /\ call[w].pc = "UpdateRegistrationToPaid" /\ call[w].email = e
  /\ regs[e] # None
  /\ regs'[e] = call[w].reg /\ intents'[e] = None

Releases(w, e) ==
  /\ call[w].pc = "DeleteExpiredRegistration" /\ call[w].email = e
  /\ regs[e] # None /\ intents[e] # None
  /\ regs'[e] = None /\ intents'[e] = None

LEMMA OwnStepKeepsItems ==
  ASSUME NEW w \in Workers, OwnStep(w)
  PROVE  \/ UNCHANGED <<regs, intents>>
         \/ CommitRegistration(w) \/ CommitHold(w) \/ CommitPaid(w) \/ CommitRelease(w)
<1>1. CASE \E config \in Configs : PatchEventsV1Id(w, config)
  BY <1>1 DEF PatchEventsV1Id, tableVars
<1>2. CASE \E to \in {"register", "registrations"}, e \in Emails, at \in Times,
              nextPc \in {"CreateRegistration", "CreateCheckout"} :
             \E shape \in ShapesOf[e] : StartRegistration(w, to, e, shape, at, nextPc)
  BY <1>2 DEF StartRegistration, tableVars
<1>3. CASE CommitPatch(w)
  BY <1>3 DEF CommitPatch, UpdateEvent, tableVars
<1>4. CASE CreateCheckout(w) \/ SendConfirmation(w) \/ ReadIntent(w) \/ ReadEvent(w)
  BY <1>4 DEF CreateCheckout, SendConfirmation, ReadIntent, ReadEvent, tableVars
<1>5. CASE HandlerFails(w)
  BY <1>5 DEF HandlerFails, tableVars
<1>6. CASE \E s \in Sessions : WebhookCompleted(w, s) \/ WebhookExpired(w, s)
  BY <1>6 DEF WebhookCompleted, WebhookExpired, tableVars
<1>7. QED
  BY <1>1, <1>2, <1>3, <1>4, <1>5, <1>6 DEF OwnStep, HandlerStep

LEMMA TableMoves ==
  ASSUME TypeInv, Next, NEW e \in Emails
  PROVE  \/ Unmoved(e)
         \/ \E w \in Workers : Registers(w, e) \/ Holds(w, e) \/ Settles(w, e) \/ Releases(w, e)
<1>1. /\ regs \in [Emails -> Registration \cup {None}]
      /\ intents \in [Emails -> RegistrationIntent \cup {None}]
  BY TypeInvParts DEF TableOK
<1>2. ASSUME NEW w \in Workers, CommitRegistration(w)
      PROVE  Unmoved(e) \/ Registers(w, e)
  <2>1. call[w].pc = "CreateRegistration"
    BY <1>2 DEF CommitRegistration
  <2>2. CASE UNCHANGED tableVars
    BY <2>2 DEF Unmoved, tableVars
  <2>3. CASE CreateRegistration(call[w].email, call[w].reg, call[w].event)
    BY <1>1, <2>1, <2>3 DEF CreateRegistration, CreateRegistrationHolds,
         newEntityVersionConditional, Unmoved, Registers
  <2>4. QED
    BY <1>2, <2>2, <2>3 DEF CommitRegistration
<1>3. ASSUME NEW w \in Workers, CommitHold(w)
      PROVE  Unmoved(e) \/ Holds(w, e)
  <2>1. call[w].pc = "CreateRegistrationWithPayment"
    BY <1>3 DEF CommitHold
  <2>2. CASE UNCHANGED tableVars
    BY <2>2 DEF Unmoved, tableVars
  <2>3. CASE CreateRegistrationWithPayment(call[w].email, call[w].reg, call[w].intent,
                                           call[w].event)
    BY <1>1, <1>3, <2>1, <2>3 DEF CreateRegistrationWithPayment,
         CreateRegistrationWithPaymentHolds, newEntityVersionConditional, Unmoved, Holds
  <2>4. QED
    BY <1>3, <2>2, <2>3 DEF CommitHold
<1>4. ASSUME NEW w \in Workers, CommitPaid(w)
      PROVE  Unmoved(e) \/ Settles(w, e)
  <2>1. call[w].pc = "UpdateRegistrationToPaid"
    BY <1>4 DEF CommitPaid
  <2>2. CASE UNCHANGED tableVars
    BY <2>2 DEF Unmoved, tableVars
  <2>3. CASE UpdateRegistrationToPaid(call[w].email, call[w].reg)
    BY <1>1, <2>1, <2>3 DEF UpdateRegistrationToPaid, UpdateRegistrationToPaidHolds,
         existingEntityVersionConditional, Unmoved, Settles
  <2>4. QED
    BY <1>4, <2>2, <2>3 DEF CommitPaid
<1>5. ASSUME NEW w \in Workers, CommitRelease(w)
      PROVE  Unmoved(e) \/ Releases(w, e)
  <2>1. call[w].pc = "DeleteExpiredRegistration"
    BY <1>5 DEF CommitRelease
  <2>2. CASE UNCHANGED tableVars
    BY <2>2 DEF Unmoved, tableVars
  <2>3. CASE DeleteExpiredRegistration(call[w].email, call[w].reg, call[w].intent,
                                       call[w].event)
    BY <1>1, <2>1, <2>3 DEF DeleteExpiredRegistration, DeleteExpiredRegistrationHolds,
         deleteEntityVersionConditional, Unmoved, Releases
  <2>4. QED
    BY <1>5, <2>2, <2>3 DEF CommitRelease
<1>6. ASSUME UNCHANGED <<regs, intents>> PROVE Unmoved(e)
  BY <1>6 DEF Unmoved
<1>7. ASSUME NEW w \in Workers, OwnStep(w)
      PROVE  \/ UNCHANGED <<regs, intents>>
             \/ CommitRegistration(w) \/ CommitHold(w) \/ CommitPaid(w) \/ CommitRelease(w)
  BY <1>7, OwnStepKeepsItems
<1>8. QED
  BY <1>2, <1>3, <1>4, <1>5, <1>6, <1>7, NextCases DEF OwnStep, HandlerStep, tableVars,
     PostEventsV1, CreateEvent, PaySession, ExpireSession, ReplicaCatchesUp, Replicate

-----------------------------------------------------------------------------
\* What a step does to one session.

LEMMA SessionFields ==
  ASSUME TypeInv, Next, NEW s \in Sessions
  PROVE  \/ sessions'[s] = sessions[s]
         \/ /\ PaySession(s) /\ sessions[s].state = "offered"
            /\ sessions'[s] = [sessions[s] EXCEPT !.state = "complete"]
         \/ /\ ExpireSession(s) /\ sessions[s].state \in {"open", "offered"}
            /\ sessions'[s] = [sessions[s] EXCEPT !.state = "expired"]
         \/ \E w \in Workers :
              \/ /\ Acks(w) /\ call[w].session = s
                 /\ sessions'[s] = [sessions[s] EXCEPT !.acked = TRUE]
              \/ /\ Offers(w) /\ call[w].session = s
                 /\ sessions'[s] = [sessions[s] EXCEPT !.state = "offered"]
              \/ /\ Opens(w, s) /\ sessions[s].state = "unused"
                 /\ sessions'[s] = [sessions[s] EXCEPT !.state = "open",
                                                       !.email = call[w].email]
<1>1. sessions \in [Sessions -> Stripe!SessionType] /\ SessionMove
  BY SessionMoves, TypeInvParts
<1>2. CASE UNCHANGED sessions
  BY <1>2
<1>3. CASE \E u \in Sessions : PaySession(u)
  <2>1. PICK u \in Sessions : PaySession(u)
    BY <1>3
  <2>2. QED
    BY <1>1, <2>1 DEF PaySession, Stripe!Pay
<1>4. CASE \E u \in Sessions : ExpireSession(u)
  <2>1. PICK u \in Sessions : ExpireSession(u)
    BY <1>4
  <2>2. QED
    BY <1>1, <2>1 DEF ExpireSession, Stripe!Expire
<1>5. CASE \E w \in Workers : Acks(w)
  <2>1. PICK w \in Workers : Acks(w)
    BY <1>5
  <2>2. sessions' = [sessions EXCEPT ![call[w].session].acked = TRUE]
    BY <2>1 DEF Acks, Stripe!Acked
  <2>3. QED
    BY <1>1, <2>1, <2>2
<1>6. CASE \E w \in Workers : Offers(w)
  <2>1. PICK w \in Workers : Offers(w)
    BY <1>6
  <2>2. sessions' = [sessions EXCEPT ![call[w].session].state = "offered"]
    BY <2>1 DEF Offers, Stripe!Offered
  <2>3. QED
    BY <1>1, <2>1, <2>2
<1>7. CASE \E w \in Workers, u \in Sessions : Opens(w, u)
  <2>1. PICK w \in Workers, u \in Sessions : Opens(w, u)
    BY <1>7
  <2>2. /\ sessions[u].state = "unused"
        /\ sessions' = [sessions EXCEPT ![u].state = "open", ![u].email = call[w].email]
    BY <2>1 DEF Opens, Stripe!Open
  <2>3. QED
    BY <1>1, <2>1, <2>2
<1>8. QED
  BY <1>1, <1>2, <1>3, <1>4, <1>5, <1>6, <1>7 DEF SessionMove

LEMMA SessionStates ==
  ASSUME TypeInv, CallSession, Next, NEW s \in Sessions
  PROVE  /\ sessions[s].state \in {"complete", "expired"}
              => sessions'[s].state = sessions[s].state
         /\ sessions[s].state \in {"open", "offered"} => sessions'[s].state # "unused"
         /\ sessions'[s].state = "expired" => sessions[s].state = "expired" \/ ExpireSession(s)
         /\ sessions'[s].acked
              => sessions[s].acked \/ \E w \in Workers : Acks(w) /\ call[w].session = s
         /\ sessions[s].state = "open" /\ sessions'[s].state # "open"
              => \/ ExpireSession(s)
                 \/ \E w \in Workers : CommitHold(w) /\ call[w].session = s
<1>1. sessions[s] \in Stripe!SessionType
  BY TypeInvParts
<1>2. \A w \in Workers : Offers(w) => sessions[call[w].session].state = "open"
  BY DEF Offers, CommitHold, CallSession
<1> USE DEF Stripe!SessionType, Stripe!SessionStates
<1>3. CASE sessions'[s] = sessions[s]
  BY <1>3
<1>4. CASE /\ PaySession(s) /\ sessions[s].state = "offered"
           /\ sessions'[s] = [sessions[s] EXCEPT !.state = "complete"]
  BY <1>1, <1>4
<1>5. CASE /\ ExpireSession(s) /\ sessions[s].state \in {"open", "offered"}
           /\ sessions'[s] = [sessions[s] EXCEPT !.state = "expired"]
  BY <1>1, <1>5
<1>6. ASSUME NEW w \in Workers, Acks(w), call[w].session = s,
             sessions'[s] = [sessions[s] EXCEPT !.acked = TRUE]
      PROVE  /\ sessions'[s].state = sessions[s].state
             /\ \E v \in Workers : Acks(v) /\ call[v].session = s
  BY <1>1, <1>6
<1>7. ASSUME NEW w \in Workers, Offers(w), call[w].session = s,
             sessions'[s] = [sessions[s] EXCEPT !.state = "offered"]
      PROVE  /\ sessions[s].state = "open" /\ sessions'[s].state = "offered"
             /\ sessions'[s].acked = sessions[s].acked
             /\ \E v \in Workers : CommitHold(v) /\ call[v].session = s
  <2>1. sessions[s].state = "open"
    BY <1>2, <1>7
  <2>2. \E v \in Workers : CommitHold(v) /\ call[v].session = s
    BY <1>7 DEF Offers
  <2>3. QED
    BY <1>1, <1>7, <2>1, <2>2
<1>8. ASSUME NEW w \in Workers, sessions[s].state = "unused",
             sessions'[s] = [sessions[s] EXCEPT !.state = "open", !.email = call[w].email]
      PROVE  sessions'[s].state = "open" /\ sessions'[s].acked = sessions[s].acked
  BY <1>1, <1>8
<1>9. QED
  BY <1>1, <1>3, <1>4, <1>5, <1>6, <1>7, <1>8, SessionFields

-----------------------------------------------------------------------------
\* How a handler comes to each of its calls, and with which copies.

LEMMA ReturnIsIdle ==
  ASSUME TypeInv, NEW w \in Workers, NEW to, NEW status, NEW e, Return(w, to, status, e)
  PROVE  call'[w].pc = "idle"
BY TypeInvParts DEF Return, Idle

LEMMA GotoIsNext ==
  ASSUME TypeInv, NEW w \in Workers, NEW next, Goto(w, next)
  PROVE  call'[w] = next
BY TypeInvParts DEF Goto

LEMMA ReachesUpdateEvent ==
  ASSUME TypeInv, NEW w \in Workers, OwnStep(w), call'[w].pc = "UpdateEvent"
  PROVE  /\ UNCHANGED tableVars
         /\ \E config \in Configs, seen \in GetEvent :
              /\ seen # None
              /\ call'[w].event = PatchedEvent(seen, config)
<1>1. PICK config \in Configs : PatchEventsV1Id(w, config)
  BY NextPc DEF OwnStep, HandlerStep, Idle
<1>2. PICK seen \in GetEvent :
        /\ seen # None
        /\ Goto(w, [Idle EXCEPT !.pc = "UpdateEvent", !.event = PatchedEvent(seen, config)])
  BY <1>1, ReturnIsIdle DEF PatchEventsV1Id
<1>3. call'[w].event = PatchedEvent(seen, config)
  BY <1>2, GotoIsNext DEF Idle
<1>4. QED
  BY <1>1, <1>2, <1>3 DEF PatchEventsV1Id

LEMMA ReachesCreate ==
  ASSUME TypeInv, NEW w \in Workers, OwnStep(w),
         call'[w].pc \in {"CreateRegistration", "CreateCheckout"}
  PROVE  /\ UNCHANGED tableVars
         /\ \E e \in Emails, at \in Times, seen \in GetEvent : \E shape \in ShapesOf[e] :
              LET reg == NewRegistration(shape, at) IN
              /\ seen # None
              /\ MayRegister(seen.config, reg)
              /\ call'[w].email = e /\ call'[w].reg = reg
              /\ call'[w].event = WithRegistration(seen, reg)
<1>1. PICK to \in {"register", "registrations"}, e \in Emails, at \in Times,
           nextPc \in {"CreateRegistration", "CreateCheckout"} :
             \E shape \in ShapesOf[e] : StartRegistration(w, to, e, shape, at, nextPc)
  BY NextPc DEF OwnStep, HandlerStep, Idle
<1>2. PICK shape \in ShapesOf[e] : StartRegistration(w, to, e, shape, at, nextPc)
  BY <1>1
<1> DEFINE reg == NewRegistration(shape, at)
<1>3. \A seen : ~Return(w, to, 404, e) /\ ~Return(w, to, RefusalStatus(seen.config, reg), e)
  BY ReturnIsIdle
<1>4. PICK seen \in GetEvent :
        /\ seen # None
        /\ MayRegister(seen.config, reg)
        /\ Goto(w, [Idle EXCEPT !.pc = nextPc, !.email = e, !.reg = reg,
                                !.event = WithRegistration(seen, reg)])
  BY <1>2, <1>3, Zenon DEF StartRegistration
<1> HIDE DEF reg
<1>5. /\ call'[w].email = e /\ call'[w].reg = reg
      /\ call'[w].event = WithRegistration(seen, reg)
  BY <1>4, GotoIsNext DEF Idle
<1>6. UNCHANGED tableVars
  BY <1>2 DEF StartRegistration
<1>7. QED
  BY <1>4, <1>5, <1>6 DEF reg

LEMMA ReachesHold ==
  ASSUME TypeInv, NEW w \in Workers, OwnStep(w),
         call'[w].pc = "CreateRegistrationWithPayment"
  PROVE  \E s \in Sessions :
           /\ UNCHANGED tableVars
           /\ Opens(w, s)
           /\ call[w].pc = "CreateCheckout"
           /\ sessions'[s].state = "open" /\ sessions'[s].email = call[w].email
           /\ sessions[s].state = "unused"
           /\ call'[w].session = s /\ call'[w].intent = NewIntent(s)
           /\ call'[w].email = call[w].email /\ call'[w].reg = call[w].reg
           /\ call'[w].event = call[w].event
<1>1. CreateCheckout(w) /\ call[w] \in Call /\ sessions \in [Sessions -> Stripe!SessionType]
  BY NextPc, TypeInvParts DEF OwnStep, HandlerStep, Idle
<1>2. PICK s \in Sessions : Opens(w, s)
  BY <1>1, ReturnIsIdle DEF CreateCheckout, Opens
<1>3. /\ call'[w].session = s /\ call'[w].intent = NewIntent(s)
      /\ call'[w].email = call[w].email /\ call'[w].reg = call[w].reg
      /\ call'[w].event = call[w].event
  BY <1>1, <1>2, GotoIsNext DEF Opens, Call
<1>4. /\ sessions[s].state = "unused"
      /\ sessions' = [sessions EXCEPT ![s].state = "open", ![s].email = call[w].email]
  BY <1>2 DEF Opens, Stripe!Open
<1>5. sessions'[s].state = "open" /\ sessions'[s].email = call[w].email
  BY <1>1, <1>4 DEF Stripe!SessionType
<1>6. QED
  BY <1>1, <1>2, <1>3, <1>4, <1>5 DEF CreateCheckout

LEMMA ReachesPaid ==
  ASSUME TypeInv, NEW w \in Workers, OwnStep(w), call'[w].pc = "UpdateRegistrationToPaid"
  PROVE  /\ UNCHANGED <<tableVars, sessions>>
         /\ \E s \in Sessions : \E seen \in GetRegistration(sessions[s].email) :
              /\ sessions[s].state = "complete" /\ seen # None
              /\ call'[w].session = s /\ call'[w].email = sessions[s].email
              /\ call'[w].reg = PaidRegistration(seen)
<1>1. PICK s \in Sessions : WebhookCompleted(w, s)
  BY NextPc DEF OwnStep, HandlerStep, Idle
<1>2. PICK seen \in GetRegistration(sessions[s].email) :
        /\ seen # None
        /\ Goto(w, [Idle EXCEPT !.pc = "UpdateRegistrationToPaid", !.email = sessions[s].email,
                                !.session = s, !.reg = PaidRegistration(seen)])
  BY <1>1, ReturnIsIdle DEF WebhookCompleted
<1>3. /\ call'[w].session = s /\ call'[w].email = sessions[s].email
      /\ call'[w].reg = PaidRegistration(seen)
  BY <1>2, GotoIsNext DEF Idle
<1>4. QED
  BY <1>1, <1>2, <1>3 DEF WebhookCompleted, Stripe!Complete

LEMMA ReachesReadIntent ==
  ASSUME TypeInv, NEW w \in Workers, OwnStep(w), call'[w].pc = "GetRegistrationIntent"
  PROVE  /\ UNCHANGED <<tableVars, sessions>>
         /\ \E s \in Sessions :
              /\ sessions[s].state = "expired"
              /\ call'[w].session = s /\ call'[w].email = sessions[s].email
              /\ call'[w].reg \in GetRegistration(sessions[s].email)
<1>1. PICK s \in Sessions : WebhookExpired(w, s)
  BY NextPc DEF OwnStep, HandlerStep, Idle
<1>2. PICK seen \in GetRegistration(sessions[s].email) :
        Goto(w, [Idle EXCEPT !.pc = "GetRegistrationIntent", !.email = sessions[s].email,
                             !.session = s, !.reg = seen])
  BY <1>1 DEF WebhookExpired
<1>3. call'[w].session = s /\ call'[w].email = sessions[s].email /\ call'[w].reg = seen
  BY <1>2, GotoIsNext DEF Idle
<1>4. QED
  BY <1>1, <1>2, <1>3 DEF WebhookExpired, checkoutIsExpired, Stripe!Expired

LEMMA ReachesReadEvent ==
  ASSUME TypeInv, NEW w \in Workers, OwnStep(w), call'[w].pc = "GetEvent"
  PROVE  /\ UNCHANGED <<tableVars, sessions>>
         /\ call[w].pc = "GetRegistrationIntent"
         /\ call'[w].session = call[w].session /\ call'[w].email = call[w].email
         /\ call'[w].reg = call[w].reg
<1>1. ReadIntent(w) /\ call[w] \in Call
  BY NextPc, TypeInvParts DEF OwnStep, HandlerStep, Idle
<1>2. PICK seen : /\ Goto(w, [call[w] EXCEPT !.pc = "GetEvent", !.intent = seen])
                  /\ UNCHANGED sessions
  BY <1>1, ReturnIsIdle DEF ReadIntent
<1>3. /\ call'[w].session = call[w].session /\ call'[w].email = call[w].email
      /\ call'[w].reg = call[w].reg
  BY <1>1, <1>2, GotoIsNext DEF Call
<1>4. QED
  BY <1>1, <1>2, <1>3 DEF ReadIntent

LEMMA ReachesRelease ==
  ASSUME TypeInv, NEW w \in Workers, OwnStep(w), call'[w].pc = "DeleteExpiredRegistration"
  PROVE  /\ UNCHANGED <<tableVars, sessions>>
         /\ call[w].pc = "GetEvent"
         /\ call'[w].session = call[w].session /\ call'[w].email = call[w].email
         /\ call'[w].reg = call[w].reg
         /\ \E seen \in GetEvent :
              seen # None /\ call'[w].event = WithoutRegistration(seen, call[w].reg)
<1>1. ReadEvent(w) /\ call[w] \in Call
  BY NextPc, TypeInvParts DEF OwnStep, HandlerStep, Idle
<1>2. PICK seen \in GetEvent :
        /\ seen # None
        /\ Goto(w, [call[w] EXCEPT !.pc = "DeleteExpiredRegistration",
                                   !.event = WithoutRegistration(seen, call[w].reg)])
  BY <1>1, ReturnIsIdle DEF ReadEvent
<1>3. /\ call'[w].session = call[w].session /\ call'[w].email = call[w].email
      /\ call'[w].reg = call[w].reg
      /\ call'[w].event = WithoutRegistration(seen, call[w].reg)
  BY <1>1, <1>2, GotoIsNext DEF Call
<1>4. QED
  BY <1>1, <1>2, <1>3 DEF ReadEvent

LEMMA ReachesConfirmation ==
  ASSUME TypeInv, NEW w \in Workers, OwnStep(w), call'[w].pc = "SendConfirmation"
  PROVE  /\ UNCHANGED sessions /\ call'[w].email = call[w].email
         /\ \/ /\ call[w].pc = "CreateRegistration" /\ call'[w].session = None
               /\ CreateRegistration(call[w].email, call[w].reg, call[w].event)
            \/ /\ call[w].pc = "UpdateRegistrationToPaid"
               /\ call'[w].session = call[w].session
               /\ UpdateRegistrationToPaid(call[w].email, call[w].reg)
<1>1. CommitRegistration(w) \/ CommitPaid(w)
  BY NextPc DEF OwnStep, HandlerStep, Idle
<1>2. CASE CommitRegistration(w)
  <2>1. /\ Goto(w, [Idle EXCEPT !.pc = "SendConfirmation", !.email = call[w].email])
        /\ CreateRegistration(call[w].email, call[w].reg, call[w].event)
    BY <1>2, ReturnIsIdle DEF CommitRegistration
  <2>2. call'[w].email = call[w].email /\ call'[w].session = None
    BY <2>1, GotoIsNext DEF Idle
  <2>3. QED
    BY <1>2, <2>1, <2>2 DEF CommitRegistration
<1>3. CASE CommitPaid(w)
  <2>1. /\ Goto(w, [Idle EXCEPT !.pc = "SendConfirmation", !.email = call[w].email,
                                !.session = call[w].session])
        /\ UpdateRegistrationToPaid(call[w].email, call[w].reg)
    BY <1>3, ReturnIsIdle DEF CommitPaid
  <2>2. call'[w].email = call[w].email /\ call'[w].session = call[w].session
    BY <2>1, GotoIsNext DEF Idle
  <2>3. QED
    BY <1>3, <2>1, <2>2 DEF CommitPaid
<1>4. QED
  BY <1>1, <1>2, <1>3

-----------------------------------------------------------------------------
\* AckedIsSettled, CallSession and OneHandlerPerSession.

LEMMA AckedIsSettledStep ==
  ASSUME TypeInv, AckedIsSettled, CallSession, Next
  PROVE  AckedIsSettled'
<1>1. SUFFICES ASSUME NEW s \in Sessions, sessions'[s].acked
               PROVE  sessions'[s].state \in {"complete", "expired"}
  BY DEF AckedIsSettled
<1>2. CASE sessions[s].acked
  BY <1>2, SessionStates DEF AckedIsSettled
<1>3. CASE \E w \in Workers : Acks(w) /\ call[w].session = s
  <2>1. PICK w \in Workers : Acks(w) /\ call[w].session = s
    BY <1>3
  <2>2. s # None
    BY NoneIsNoItem
  <2>3. sessions[s].state \in {"complete", "expired"}
    BY <2>1, <2>2 DEF Acks, SendConfirmation, ReadIntent, CommitRelease, CallSession, Releasing
  <2>4. QED
    BY <2>3, SessionStates
<1>4. QED
  BY <1>1, <1>2, <1>3, SessionStates

\* What CallSession says of one handler and the sessions.
SessionOf(c, ss) ==
  /\ c.pc \in HoldsSession => ss[c.session].email = c.email
  /\ c.pc = "CreateRegistrationWithPayment" =>
       ss[c.session].state = "open" /\ c.intent = NewIntent(c.session)
  /\ c.pc = "UpdateRegistrationToPaid" => ss[c.session].state = "complete"
  /\ c.pc \in Releasing => ss[c.session].state = "expired"
  /\ c.pc = "SendConfirmation" /\ c.session # None =>
       ss[c.session].state = "complete" /\ ss[c.session].email = c.email

LEMMA CallSessionParts ==
  /\ CallSession <=> \A w \in Workers : SessionOf(call[w], sessions)
  /\ CallSession' <=> \A w \in Workers : SessionOf(call'[w], sessions')
BY DEF CallSession, SessionOf

LEMMA CallSessionStays ==
  ASSUME TypeInv, CallSession, OneHandlerPerSession, Next,
         NEW v \in Workers, call'[v] = call[v]
  PROVE  SessionOf(call[v], sessions')
<1> DEFINE c == call[v]
<1>1. SessionOf(c, sessions)
  BY CallSessionParts
<1>2. /\ c.pc \in HoldsSession => c.session \in Sessions
      /\ c.session \in Sessions \cup {None}
  BY TypeInvParts DEF CallOK, CopiesPresent, Call
<1>3. ASSUME c.pc \in HoldsSession
      PROVE  sessions'[c.session].email = c.email
  BY <1>1, <1>2, <1>3, StaysOpened DEF SessionOf, HoldsSession, Releasing
<1>4. ASSUME c.pc = "CreateRegistrationWithPayment"
      PROVE  sessions'[c.session].state = "open" /\ c.intent = NewIntent(c.session)
  <2>1. c.session \in Sessions /\ sessions[c.session].state = "open"
    BY <1>1, <1>2, <1>4 DEF SessionOf, HoldsSession
  <2>2. ~ExpireSession(c.session)
    BY <1>4 DEF ExpireSession, Outlived
  <2>3. \A w \in Workers : ~(CommitHold(w) /\ call[w].session = c.session)
    <3>1. SUFFICES ASSUME NEW w \in Workers, CommitHold(w), call[w].session = c.session
                   PROVE  FALSE
      OBVIOUS
    <3>2. w = v
      BY <1>4, <3>1 DEF CommitHold, OneHandlerPerSession
    <3>3. QED
      BY <1>4, <3>1, <3>2, NextPc DEF Idle
  <2>4. QED
    BY <1>1, <1>4, <2>1, <2>2, <2>3, SessionStates DEF SessionOf
<1>5. ASSUME c.pc = "UpdateRegistrationToPaid"
      PROVE  sessions'[c.session].state = "complete"
  BY <1>1, <1>2, <1>5, SessionStates DEF SessionOf, HoldsSession
<1>6. ASSUME c.pc \in Releasing
      PROVE  sessions'[c.session].state = "expired"
  BY <1>1, <1>2, <1>6, SessionStates DEF SessionOf, HoldsSession, Releasing
<1>7. ASSUME c.pc = "SendConfirmation", c.session # None
      PROVE  sessions'[c.session].state = "complete" /\ sessions'[c.session].email = c.email
  BY <1>1, <1>2, <1>7, SessionStates, StaysOpened DEF SessionOf
<1>8. QED
  BY <1>3, <1>4, <1>5, <1>6, <1>7 DEF SessionOf

LEMMA CallSessionMoves ==
  ASSUME TypeInv, CallSession, Next, NEW v \in Workers, OwnStep(v)
  PROVE  SessionOf(call'[v], sessions')
<1> DEFINE c == call'[v]
<1>1. SessionOf(call[v], sessions)
  BY CallSessionParts
<1>2. CASE c.pc = "CreateRegistrationWithPayment"
  BY <1>2, ReachesHold DEF SessionOf, HoldsSession, Releasing
<1>3. CASE c.pc = "UpdateRegistrationToPaid"
  <2>1. PICK s \in Sessions : /\ sessions[s].state = "complete"
                              /\ c.session = s /\ c.email = sessions[s].email
    BY <1>3, ReachesPaid
  <2>2. UNCHANGED sessions
    BY <1>3, ReachesPaid
  <2>3. QED
    BY <1>3, <2>1, <2>2 DEF SessionOf, HoldsSession, Releasing
<1>4. CASE c.pc = "GetRegistrationIntent"
  <2>1. PICK s \in Sessions : /\ sessions[s].state = "expired"
                              /\ c.session = s /\ c.email = sessions[s].email
    BY <1>4, ReachesReadIntent
  <2>2. UNCHANGED sessions
    BY <1>4, ReachesReadIntent
  <2>3. QED
    BY <1>4, <2>1, <2>2 DEF SessionOf, HoldsSession, Releasing
<1>5. CASE c.pc = "GetEvent"
  BY <1>1, <1>5, ReachesReadEvent DEF SessionOf, HoldsSession, Releasing
<1>6. CASE c.pc = "DeleteExpiredRegistration"
  BY <1>1, <1>6, ReachesRelease DEF SessionOf, HoldsSession, Releasing
<1>7. CASE c.pc = "SendConfirmation"
  BY <1>1, <1>7, ReachesConfirmation DEF SessionOf, HoldsSession, Releasing
<1>8. CASE c.pc \in PCs \ (HoldsSession \cup {"SendConfirmation"})
  BY <1>8 DEF SessionOf, HoldsSession, Releasing, PCs
<1>9. c.pc \in PCs
  BY PlainTypesStep, TypeInvParts DEF Call
<1>10. QED
  BY <1>2, <1>3, <1>4, <1>5, <1>6, <1>7, <1>8, <1>9 DEF HoldsSession

LEMMA CallSessionStep ==
  ASSUME TypeInv, CallSession, OneHandlerPerSession, Next
  PROVE  CallSession'
<1>1. ASSUME NEW v \in Workers PROVE SessionOf(call'[v], sessions')
  <2>1. CASE call'[v] = call[v]
    BY <2>1, CallSessionStays
  <2>2. CASE call'[v] # call[v]
    BY <2>2, CallSessionMoves, MovedByOwnStep
  <2>3. QED
    BY <2>1, <2>2
<1>2. QED
  BY <1>1, CallSessionParts

LEMMA OneHandlerPerSessionStep ==
  ASSUME TypeInv, CallSession, OneHandlerPerSession, Next
  PROVE  OneHandlerPerSession'
<1> DEFINE Offering(c) == c.pc = "CreateRegistrationWithPayment"
<1>1. ASSUME NEW v \in Workers, NEW w \in Workers, v # w,
             Offering(call'[v]), Offering(call'[w]), call'[v].session = call'[w].session,
             call'[v] # call[v]
      PROVE  FALSE
  <2>1. OwnStep(v)
    BY <1>1, MovedByOwnStep
  <2>2. call'[w] = call[w]
    BY <1>1, <2>1, OnlyOwn
  <2>3. sessions[call'[v].session].state = "unused"
    BY <1>1, <2>1, ReachesHold
  <2>4. sessions[call[w].session].state = "open"
    BY <1>1, <2>2 DEF CallSession
  <2>5. QED
    BY <1>1, <2>2, <2>3, <2>4
<1>2. SUFFICES ASSUME NEW v \in Workers, NEW w \in Workers, v # w,
                      Offering(call'[v]), Offering(call'[w]),
                      call'[v].session = call'[w].session
               PROVE  FALSE
  BY DEF OneHandlerPerSession
<1>3. CASE call'[v] = call[v] /\ call'[w] = call[w]
  BY <1>2, <1>3 DEF OneHandlerPerSession
<1>4. QED
  BY <1>1, <1>2, <1>3

-----------------------------------------------------------------------------
\* CallReg, HoldInv and PaidMeansPaidFor.

LEMMA CallRegStep ==
  ASSUME TypeInv, CallReg, Next
  PROVE  CallReg'
<1>1. SUFFICES ASSUME NEW v \in Workers
               PROVE  /\ call'[v].pc \in Creating
                           => call'[v].reg.version = 1 /\ call'[v].reg.paid = FALSE
                      /\ call'[v].pc = "UpdateRegistrationToPaid" => call'[v].reg.paid = TRUE
  BY DEF CallReg
<1>2. CASE call'[v] = call[v]
  BY <1>2 DEF CallReg
<1>3. CASE call'[v] # call[v]
  <2>1. OwnStep(v)
    BY <1>3, MovedByOwnStep
  <2>2. CASE call'[v].pc \in {"CreateRegistration", "CreateCheckout"}
    <3>1. \E e \in Emails, at \in Times : \E shape \in ShapesOf[e] :
            call'[v].reg = NewRegistration(shape, at)
      BY <2>1, <2>2, ReachesCreate
    <3>2. QED
      BY <2>2, <3>1, NewRegistrationType
  <2>3. CASE call'[v].pc = "CreateRegistrationWithPayment"
    BY <2>1, <2>3, ReachesHold DEF CallReg, Creating
  <2>4. CASE call'[v].pc = "UpdateRegistrationToPaid"
    <3>1. PICK s \in Sessions : \E seen \in GetRegistration(sessions[s].email) :
            /\ sessions[s].state = "complete" /\ seen # None
            /\ call'[v].reg = PaidRegistration(seen)
      BY <2>1, <2>4, ReachesPaid
    <3>2. sessions[s].email \in Emails
      BY <3>1, TypeInvParts DEF SessionsOK
    <3>3. \E seen \in Registration : call'[v].reg = PaidRegistration(seen)
      BY <3>1, <3>2, ReadsType DEF TypeInv, PlainTypes
    <3>4. QED
      BY <2>4, <3>3, PaidRegistrationType DEF Creating
  <2>5. QED
    BY <2>2, <2>3, <2>4 DEF Creating
<1>4. QED
  BY <1>2, <1>3

LEMMA HoldInvStep ==
  ASSUME TypeInv, CallSession, CallReg, HoldInv, Next
  PROVE  HoldInv'
<1>1. SUFFICES ASSUME NEW e \in Emails, intents'[e] # None
               PROVE  /\ regs'[e] # None /\ regs'[e].paid = FALSE /\ regs'[e].version = 1
                      /\ intents'[e].version = 1
                      /\ sessions'[intents'[e].session].email = e
                      /\ sessions'[intents'[e].session].state # "unused"
  BY DEF HoldInv
<1>2. /\ intents \in [Emails -> RegistrationIntent \cup {None}]
      /\ \A w \in Workers : CopiesPresent(call[w])
  BY TypeInvParts DEF TableOK, CallOK
<1>3. CASE Unmoved(e)
  <2>1. intents[e].session \in Sessions
    BY <1>1, <1>2, <1>3 DEF Unmoved, RegistrationIntent
  <2>2. QED
    BY <1>1, <1>3, <2>1, StaysOpened DEF Unmoved, HoldInv
<1>4. CASE \E w \in Workers : Registers(w, e)
  BY <1>1, <1>4 DEF Registers, HoldInv
<1>5. CASE \E w \in Workers : Holds(w, e)
  <2>1. PICK w \in Workers : Holds(w, e)
    BY <1>5
  <2> DEFINE s == call[w].session
  <2>2. /\ s \in Sessions /\ sessions[s].email = e /\ sessions[s].state = "open"
        /\ call[w].intent = NewIntent(s)
    BY <1>2, <2>1 DEF Holds, CopiesPresent, HoldsSession, CallSession
  <2>3. intents'[e].session = s /\ intents'[e].version = 1
    BY <2>1, <2>2 DEF Holds, NewIntent
  <2>4. sessions'[s].email = e /\ sessions'[s].state # "unused"
    BY <2>2, StaysOpened
  <2>5. call[w].reg \in Registration /\ call[w].reg.version = 1 /\ call[w].reg.paid = FALSE
    BY <1>2, <2>1 DEF Holds, CopiesPresent, HoldsReg, Creating, CallReg
  <2>6. QED
    BY <2>1, <2>3, <2>4, <2>5, NoneIsNoItem DEF Holds
<1>6. CASE \E w \in Workers : Settles(w, e) \/ Releases(w, e)
  BY <1>1, <1>6 DEF Settles, Releases
<1>7. QED
  BY <1>3, <1>4, <1>5, <1>6, TableMoves

LEMMA PaidMeansPaidForStep ==
  ASSUME TypeInv, CallSession, CallReg, PaidMeansPaidFor, Next
  PROVE  PaidMeansPaidFor'
<1>1. SUFFICES ASSUME NEW e \in Emails, regs'[e] # None, regs'[e].paid
               PROVE  \E s \in Sessions : sessions'[s].email = e /\ sessions'[s].state = "complete"
  BY DEF PaidMeansPaidFor
<1>2. \A s \in Sessions : sessions[s].email = e /\ sessions[s].state = "complete"
        => sessions'[s].email = e /\ sessions'[s].state = "complete"
  BY SessionStates, StaysOpened
<1>3. CASE Unmoved(e)
  BY <1>1, <1>2, <1>3 DEF Unmoved, PaidMeansPaidFor
<1>4. CASE \E w \in Workers : Registers(w, e) \/ Holds(w, e) \/ Releases(w, e)
  BY <1>1, <1>4 DEF Registers, Holds, Releases, CallReg, Creating
<1>5. CASE \E w \in Workers : Settles(w, e)
  <2>1. PICK w \in Workers : Settles(w, e)
    BY <1>5
  <2>2. call[w].session \in Sessions
    BY <2>1, TypeInvParts DEF Settles, CallOK, CopiesPresent, HoldsSession
  <2>3. sessions[call[w].session].email = e /\ sessions[call[w].session].state = "complete"
    BY <2>1 DEF Settles, CallSession, HoldsSession
  <2>4. QED
    BY <1>2, <2>2, <2>3
<1>6. QED
  BY <1>3, <1>4, <1>5, TableMoves

-----------------------------------------------------------------------------
\* CallConfirms and ConfirmedIsRegistered.

LEMMA SettledStays ==
  ASSUME TypeInv, Next, NEW e \in Emails, Settled(e)
  PROVE  regs'[e] # None /\ intents'[e] = None
<1>1. \A w \in Workers : Settles(w, e) => regs'[e] # None
  BY TypeInvParts, NoneIsNoItem DEF Settles, CallOK, CopiesPresent, HoldsReg
<1>2. QED
  BY <1>1, TableMoves DEF Settled, Unmoved, Registers, Holds, Settles, Releases

LEMMA CallConfirmsStep ==
  ASSUME TypeInv, HoldInv, CallConfirms, Next
  PROVE  CallConfirms'
<1>1. SUFFICES ASSUME NEW v \in Workers, call'[v].pc = "SendConfirmation"
               PROVE  regs'[call'[v].email] # None /\ intents'[call'[v].email] = None
  BY DEF CallConfirms, Settled
<1>2. CASE call'[v] = call[v]
  <2>1. call[v].email \in Emails /\ Settled(call[v].email)
    BY <1>1, <1>2, TypeInvParts DEF CallConfirms, CallOK, CopiesPresent, HoldsEmail, PCs
  <2>2. QED
    BY <1>2, <2>1, SettledStays
<1>3. CASE call'[v] # call[v]
  <2> DEFINE e == call[v].email
  <2>1. OwnStep(v)
    BY <1>3, MovedByOwnStep
  <2>2. /\ call'[v].email = e
        /\ \/ /\ call[v].pc = "CreateRegistration"
              /\ CreateRegistration(e, call[v].reg, call[v].event)
           \/ /\ call[v].pc = "UpdateRegistrationToPaid"
              /\ UpdateRegistrationToPaid(e, call[v].reg)
    BY <1>1, <2>1, ReachesConfirmation
  <2>3. /\ e \in Emails /\ call[v].reg # None
        /\ regs \in [Emails -> Registration \cup {None}]
        /\ intents \in [Emails -> RegistrationIntent \cup {None}]
    BY <2>2, TypeInvParts, NoneIsNoItem
       DEF TableOK, CallOK, CopiesPresent, HoldsEmail, HoldsReg, Creating, PCs
  <2>4. CASE CreateRegistration(e, call[v].reg, call[v].event)
    BY <2>2, <2>3, <2>4 DEF CreateRegistration, CreateRegistrationHolds,
       newEntityVersionConditional, HoldInv
  <2>5. CASE UpdateRegistrationToPaid(e, call[v].reg)
    BY <2>2, <2>3, <2>5 DEF UpdateRegistrationToPaid
  <2>6. QED
    BY <2>2, <2>4, <2>5
<1>4. QED
  BY <1>2, <1>3

LEMMA ConfirmedGrows ==
  ASSUME Next
  PROVE  \/ confirmed' = confirmed
         \/ \E w \in Workers : /\ call[w].pc = "SendConfirmation"
                               /\ confirmed' = confirmed \cup {call[w].email}
<1>1. \A w \in Workers : SendConfirmation(w) =>
        \/ confirmed' = confirmed
        \/ call[w].pc = "SendConfirmation" /\ confirmed' = confirmed \cup {call[w].email}
  BY DEF SendConfirmation
<1>2. \A w \in Workers :
        CommitPatch(w) \/ CommitRegistration(w) \/ CreateCheckout(w) \/ CommitHold(w)
          \/ CommitPaid(w) => confirmed' = confirmed
  BY DEF CommitPatch, CommitRegistration, CreateCheckout, CommitHold, CommitPaid
<1>3. \A w \in Workers :
        ReadIntent(w) \/ ReadEvent(w) \/ CommitRelease(w) \/ HandlerFails(w)
          => confirmed' = confirmed
  BY DEF ReadIntent, ReadEvent, CommitRelease, HandlerFails
<1>4. \A w \in Workers, s \in Sessions :
        WebhookCompleted(w, s) \/ WebhookExpired(w, s) => confirmed' = confirmed
  BY DEF WebhookCompleted, WebhookExpired
<1>5. \A w \in Workers, config \in Configs : PatchEventsV1Id(w, config) => confirmed' = confirmed
  BY DEF PatchEventsV1Id
<1>6. \A w \in Workers : \A to, e, shape, at, nextPc :
        StartRegistration(w, to, e, shape, at, nextPc) => confirmed' = confirmed
  BY DEF StartRegistration
<1>7. /\ \A config \in Configs : PostEventsV1(config) => confirmed' = confirmed
      /\ \A s \in Sessions : PaySession(s) \/ ExpireSession(s) => confirmed' = confirmed
      /\ ReplicaCatchesUp => confirmed' = confirmed
  BY DEF PostEventsV1, PaySession, ExpireSession, ReplicaCatchesUp
<1>8. QED
  BY <1>1, <1>2, <1>3, <1>4, <1>5, <1>6, <1>7, NextCases

LEMMA ConfirmedIsRegisteredStep ==
  ASSUME TypeInv, CallConfirms, ConfirmedIsRegistered, Next
  PROVE  ConfirmedIsRegistered'
<1>1. SUFFICES ASSUME NEW e \in confirmed'
               PROVE  regs'[e] # None /\ intents'[e] = None
  BY DEF ConfirmedIsRegistered
<1>2. e \in Emails /\ Settled(e)
  <2>1. CASE e \in confirmed
    BY <2>1, TypeInvParts DEF ConfirmedIsRegistered, Settled
  <2>2. CASE \E w \in Workers : call[w].pc = "SendConfirmation" /\ e = call[w].email
    BY <2>2, TypeInvParts DEF CallConfirms, CallOK, CopiesPresent, HoldsEmail, PCs
  <2>3. QED
    BY <1>1, <2>1, <2>2, ConfirmedGrows
<1>3. QED
  BY <1>2, SettledStays

-----------------------------------------------------------------------------
\* ExpiredHoldSeen and AckedSessionHoldsNothing.

\* A write shows at the replica at once, or only when the replica catches up.
LEMMA ReplicaFollows ==
  ASSUME Next
  PROVE  UNCHANGED tableVars \/ Written \/ replica' = Table'
<1>1. \A w \in Workers :
        CommitPatch(w) \/ CommitRegistration(w) \/ CommitHold(w) \/ CommitPaid(w)
          \/ CommitRelease(w) => Written \/ UNCHANGED tableVars
  BY DEF CommitPatch, UpdateEvent, CommitRegistration, CreateRegistration, CommitHold,
         CreateRegistrationWithPayment, CommitPaid, UpdateRegistrationToPaid, CommitRelease,
         DeleteExpiredRegistration
<1>2. \A w \in Workers :
        CreateCheckout(w) \/ SendConfirmation(w) \/ ReadIntent(w) \/ ReadEvent(w)
          \/ HandlerFails(w) => UNCHANGED tableVars
  BY DEF CreateCheckout, SendConfirmation, ReadIntent, ReadEvent, HandlerFails
<1>3. \A w \in Workers, s \in Sessions :
        WebhookCompleted(w, s) \/ WebhookExpired(w, s) => UNCHANGED tableVars
  BY DEF WebhookCompleted, WebhookExpired
<1>4. \A w \in Workers, config \in Configs : PatchEventsV1Id(w, config) => UNCHANGED tableVars
  BY DEF PatchEventsV1Id
<1>5. \A w \in Workers : \A to, e, shape, at, nextPc :
        StartRegistration(w, to, e, shape, at, nextPc) => UNCHANGED tableVars
  BY DEF StartRegistration
<1>6. /\ \A config \in Configs : PostEventsV1(config) => Written
      /\ \A s \in Sessions : PaySession(s) \/ ExpireSession(s) => UNCHANGED tableVars
  BY DEF PostEventsV1, CreateEvent, PaySession, ExpireSession
<1>7. ReplicaCatchesUp => replica' = Table'
  BY DEF ReplicaCatchesUp, Replicate, Table
<1>8. QED
  BY <1>1, <1>2, <1>3, <1>4, <1>5, <1>6, <1>7, NextCases

LEMMA ReplicaMoves ==
  ASSUME Next
  PROVE  replica' = replica \/ replica' = Table'
BY ReplicaFollows DEF Written, tableVars

LEMMA ExpiredHoldSeenStep ==
  ASSUME TypeInv, CallSession, ExpiredHoldSeen, Next
  PROVE  ExpiredHoldSeen'
<1>1. SUFFICES ASSUME NEW e \in Emails, intents'[e] # None,
                      sessions'[intents'[e].session].state = "expired"
               PROVE  replica'.intents[e] = intents'[e]
  BY DEF ExpiredHoldSeen
<1>2. /\ intents \in [Emails -> RegistrationIntent \cup {None}]
      /\ \A w \in Workers : CopiesPresent(call[w])
  BY TypeInvParts DEF TableOK, CallOK
<1>3. CASE replica' = Table'
  BY <1>3 DEF Table
<1>4. CASE replica' = replica /\ intents'[e] = intents[e]
  <2> DEFINE s == intents[e].session
  <2>1. s \in Sessions /\ (sessions[s].state = "expired" \/ ExpireSession(s))
    BY <1>1, <1>2, <1>4, SessionStates DEF RegistrationIntent
  <2>2. replica.intents[e] = intents[e]
    BY <1>1, <1>4, <2>1 DEF ExpiredHoldSeen, ExpireSession, Outlived
  <2>3. QED
    BY <1>4, <2>2
<1>5. ASSUME NEW w \in Workers, Holds(w, e) PROVE FALSE
  <2> DEFINE s == call[w].session
  <2>1. /\ s \in Sessions /\ sessions[s].state = "open"
        /\ call[w].intent = NewIntent(s) /\ call[w].reg \in Registration
    BY <1>2, <1>5 DEF Holds, CopiesPresent, HoldsSession, HoldsReg, Creating, CallSession
  <2>2. intents'[e].session = s
    BY <1>5, <2>1 DEF Holds, NewIntent
  <2>3. ~ExpireSession(s)
    BY <1>5, <2>1, NoneIsNoItem DEF Holds, ExpireSession, tableVars
  <2>4. QED
    BY <1>1, <2>1, <2>2, <2>3, SessionStates
<1>6. QED
  BY <1>1, <1>3, <1>4, <1>5, ReplicaMoves, TableMoves
     DEF Unmoved, Registers, Settles, Releases

LEMMA AckedSessionHoldsNothingStep ==
  ASSUME TypeInv, AckedIsSettled, CallSession, CallReg, CallConfirms, HoldInv, ExpiredHoldSeen,
         AckedSessionHoldsNothing, Next
  PROVE  AckedSessionHoldsNothing'
<1>1. SUFFICES ASSUME NEW s \in Sessions, NEW e \in Emails, sessions'[s].acked,
                      intents'[e] # None, intents'[e].session = s
               PROVE  FALSE
  BY DEF AckedSessionHoldsNothing
<1>2. CASE sessions[s].acked
  <2>1. intents'[e] # intents[e]
    BY <1>1, <1>2 DEF AckedSessionHoldsNothing
  <2>2. PICK w \in Workers : Holds(w, e)
    BY <1>1, <2>1, TableMoves DEF Unmoved, Registers, Settles, Releases
  <2>3. sessions[call[w].session].state = "open" /\ call[w].intent = NewIntent(call[w].session)
    BY <2>2 DEF Holds, CallSession
  <2>4. call[w].session = s
    BY <1>1, <2>2, <2>3 DEF Holds, NewIntent
  <2>5. QED
    BY <1>2, <2>3, <2>4 DEF AckedIsSettled
<1>3. CASE ~sessions[s].acked
  <2>1. PICK w \in Workers : Acks(w) /\ call[w].session = s
    BY <1>1, <1>3, SessionStates
  <2>2. s # None /\ sessions \in [Sessions -> Stripe!SessionType]
    BY NoneIsNoItem, TypeInvParts
  <2>3. ~UNCHANGED sessions
    BY <1>1, <1>3
  <2>4. /\ sessions[s].email = call[w].email
        /\ sessions[s].state \in {"complete", "expired"}
        /\ call[w].pc \in Releasing => sessions[s].state = "expired"
    BY <2>1, <2>2 DEF Acks, SendConfirmation, ReadIntent, CommitRelease, CallSession,
                      Releasing, HoldsSession
  <2>5. call[w].email = e
    <3>1. sessions'[s].email = e
      BY <1>1, HoldInvStep DEF HoldInv
    <3>2. QED
      BY <2>4, <3>1, StaysOpened
  <2>6. CASE SendConfirmation(w)
    BY <1>1, <2>5, <2>6, SettledStays DEF SendConfirmation, CallConfirms
  <2>7. CASE ReadIntent(w)
    <3>1. \E seen \in GetRegistrationIntent(e) : seen = None
      BY <2>3, <2>5, <2>7 DEF ReadIntent
    <3>2. UNCHANGED tableVars /\ sessions[s].state = "expired"
      BY <2>4, <2>7 DEF ReadIntent, Releasing
    <3>3. intents[e] # None /\ replica.intents[e] = intents[e]
      BY <1>1, <3>2 DEF tableVars, ExpiredHoldSeen
    <3>4. QED
      BY <3>1, <3>3 DEF GetRegistrationIntent
  <2>8. CASE CommitRelease(w)
    <3>1. DeleteExpiredRegistration(e, call[w].reg, call[w].intent, call[w].event)
      BY <2>3, <2>5, <2>8 DEF CommitRelease
    <3>2. intents \in [Emails -> RegistrationIntent \cup {None}]
      BY TypeInvParts DEF TableOK
    <3>3. QED
      BY <1>1, <3>1, <3>2 DEF DeleteExpiredRegistration
  <2>9. QED
    BY <2>1, <2>6, <2>7, <2>8 DEF Acks
<1>4. QED
  BY <1>2, <1>3

-----------------------------------------------------------------------------
\* SettleInv is inductive.

LEMMA SettleInvInit == Init => SettleInv
<1>1. ASSUME Init PROVE SettleInv
  <2>1. TypeInv
    BY <1>1, TypeInvInit
  <2>2. /\ \A w \in Workers : call[w] = Idle
        /\ \A e \in Emails : regs[e] = None /\ intents[e] = None
        /\ \A s \in Sessions : sessions[s].acked = FALSE
        /\ confirmed = {}
    BY <1>1 DEF Init, TableInit, NoItems, Stripe!CheckoutInit
  <2>3. AckedIsSettled /\ HoldInv /\ PaidMeansPaidFor /\ ConfirmedIsRegistered
          /\ ExpiredHoldSeen /\ AckedSessionHoldsNothing
    BY <2>2 DEF AckedIsSettled, HoldInv, PaidMeansPaidFor, ConfirmedIsRegistered,
                ExpiredHoldSeen, AckedSessionHoldsNothing
  <2>4. CallSession /\ OneHandlerPerSession /\ CallReg /\ CallConfirms
    BY <2>2 DEF Idle, CallSession, OneHandlerPerSession, CallReg, CallConfirms, HoldsSession,
                Releasing, Creating
  <2>5. QED
    BY <2>1, <2>3, <2>4 DEF SettleInv
<1>2. QED
  BY <1>1

LEMMA SettleInvStep == SettleInv /\ [Next]_vars => SettleInv'
<1>1. ASSUME SettleInv, Next PROVE SettleInv'
  <2>1. TypeInv'
    BY <1>1, TypeInvStep DEF SettleInv
  <2>2. AckedIsSettled' /\ CallSession' /\ OneHandlerPerSession'
    BY <1>1, AckedIsSettledStep, CallSessionStep, OneHandlerPerSessionStep DEF SettleInv
  <2>3. CallReg' /\ HoldInv' /\ PaidMeansPaidFor'
    BY <1>1, CallRegStep, HoldInvStep, PaidMeansPaidForStep DEF SettleInv
  <2>4. CallConfirms' /\ ConfirmedIsRegistered'
    BY <1>1, CallConfirmsStep, ConfirmedIsRegisteredStep DEF SettleInv
  <2>5. ExpiredHoldSeen' /\ AckedSessionHoldsNothing'
    BY <1>1, ExpiredHoldSeenStep, AckedSessionHoldsNothingStep DEF SettleInv
  <2>6. QED
    BY <2>1, <2>2, <2>3, <2>4, <2>5 DEF SettleInv
<1>2. ASSUME SettleInv, UNCHANGED vars PROVE SettleInv'
  <2>1. TypeInv'
    BY <1>2, TypeInvStep DEF SettleInv
  <2>2. AckedIsSettled' /\ CallSession' /\ OneHandlerPerSession' /\ CallReg'
    BY <1>2 DEF SettleInv, vars, AckedIsSettled, CallSession, OneHandlerPerSession, CallReg
  <2>3. CallConfirms' /\ HoldInv' /\ PaidMeansPaidFor' /\ ConfirmedIsRegistered'
    BY <1>2 DEF SettleInv, vars, CallConfirms, Settled, HoldInv, PaidMeansPaidFor,
                ConfirmedIsRegistered
  <2>4. ExpiredHoldSeen' /\ AckedSessionHoldsNothing'
    BY <1>2 DEF SettleInv, vars, ExpiredHoldSeen, AckedSessionHoldsNothing
  <2>5. QED
    BY <2>1, <2>2, <2>3, <2>4 DEF SettleInv
<1>3. QED
  BY <1>1, <1>2

LEMMA SettleInvAlways == Spec => []SettleInv
BY SettleInvInit, SettleInvStep, PTL DEF Spec

-----------------------------------------------------------------------------
\* PaymentKept and AskedToPayOnce, by induction over steps from SettleInv states.

\* A payment form is shown in the step that stores the hold it is for.
LEMMA OfferedWithHold ==
  ASSUME SettleInv, Next, NEW s \in Sessions,
         sessions'[s].state \in {"offered", "complete"},
         sessions[s].state \notin {"offered", "complete"}
  PROVE  /\ regs[sessions'[s].email] = None /\ intents[sessions'[s].email] = None
         /\ intents'[sessions'[s].email] # None
         /\ intents'[sessions'[s].email].session = s
         /\ \A t \in Sessions : t # s => sessions'[t] = sessions[t]
<1>1. /\ sessions \in [Sessions -> Stripe!SessionType]
      /\ \A w \in Workers : CopiesPresent(call[w])
      /\ intents \in [Emails -> RegistrationIntent \cup {None}]
  BY TypeInvParts DEF SettleInv, TableOK, CallOK
<1>2. PICK w \in Workers : Offers(w) /\ call[w].session = s
  <2>1. sessions[s] \in Stripe!SessionType
    BY <1>1
  <2>2. CASE \E w \in Workers : Offers(w) /\ call[w].session = s
    BY <2>2
  <2>3. CASE sessions'[s] = sessions[s]
    BY <2>3
  <2>4. CASE sessions'[s] = [sessions[s] EXCEPT !.state = "expired"]
    BY <2>1, <2>4 DEF Stripe!SessionType
  <2>5. CASE sessions'[s] = [sessions[s] EXCEPT !.acked = TRUE]
    BY <2>1, <2>5 DEF Stripe!SessionType
  <2>6. CASE \E w \in Workers :
               sessions'[s] = [sessions[s] EXCEPT !.state = "open", !.email = call[w].email]
    BY <2>1, <2>6 DEF Stripe!SessionType
  <2>7. QED
    BY <2>2, <2>3, <2>4, <2>5, <2>6, SessionFields DEF SettleInv
<1> DEFINE e == call[w].email
<1>3. /\ call[w].pc = "CreateRegistrationWithPayment" /\ CommitHold(w)
      /\ sessions' = [sessions EXCEPT ![s].state = "offered"]
  BY <1>2 DEF Offers, CommitHold, Stripe!Offered
<1>4. /\ e \in Emails /\ call[w].intent \in RegistrationIntent
      /\ sessions[s].state = "open" /\ sessions[s].email = e
      /\ call[w].intent = NewIntent(s)
  BY <1>1, <1>2, <1>3 DEF CopiesPresent, HoldsEmail, HoldsIntent, HoldsSession, PCs,
     SettleInv, CallSession
<1>5. sessions'[s].state = "offered" /\ sessions'[s].email = e
  BY <1>1, <1>3, <1>4 DEF Stripe!SessionType
<1>6. CreateRegistrationWithPayment(e, call[w].reg, call[w].intent, call[w].event)
  BY <1>3, <1>4, <1>5 DEF CommitHold
<1>7. /\ regs[e] = None /\ intents[e] = None
      /\ intents'[e] = call[w].intent
  BY <1>1, <1>4, <1>6 DEF CreateRegistrationWithPayment,
     CreateRegistrationWithPaymentHolds, newEntityVersionConditional
<1>8. \A t \in Sessions : t # s => sessions'[t] = sessions[t]
  BY <1>1, <1>3
<1>9. QED
  BY <1>4, <1>5, <1>7, <1>8, NoneIsNoItem DEF NewIntent

\* An email's expired session stays one.
LEMMA ExpiredStays ==
  ASSUME SettleInv, Next, NEW e \in Emails,
         \E t \in Sessions : sessions[t].email = e /\ sessions[t].state = "expired"
  PROVE  \E t \in Sessions : sessions'[t].email = e /\ sessions'[t].state = "expired"
BY SessionStates, StaysOpened DEF SettleInv

LEMMA PaymentKeptStep ==
  ASSUME SettleInv, PaymentKept, Next
  PROVE  PaymentKept'
<1> DEFINE Lapsed(e) == \E t \in Sessions : sessions[t].email = e /\ sessions[t].state = "expired"
<1>1. SUFFICES ASSUME NEW s \in Sessions, NEW e \in Emails, sessions'[s].email = e,
                      sessions'[s].state \in {"offered", "complete"}
               PROVE  \/ intents'[e] # None /\ intents'[e].session = s
                      \/ regs'[e] # None /\ regs'[e].paid
                      \/ Lapsed(e)'
  BY DEF PaymentKept
<1>2. CASE sessions[s].state \notin {"offered", "complete"}
  BY <1>1, <1>2, OfferedWithHold
<1>3. CASE sessions[s].state \in {"offered", "complete"}
  <2>1. sessions[s].email = e
    BY <1>1, <1>3, StaysOpened DEF SettleInv
  <2>2. CASE Lapsed(e)
    BY <2>2, ExpiredStays
  <2>3. CASE ~Lapsed(e)
    <3>1. \/ intents[e] # None /\ intents[e].session = s
          \/ regs[e] # None /\ regs[e].paid
      BY <1>3, <2>1, <2>3 DEF PaymentKept
    <3>2. regs[e] # None
      BY <3>1 DEF SettleInv, HoldInv
    <3>3. ASSUME NEW w \in Workers, Settles(w, e)
          PROVE  regs'[e] # None /\ regs'[e].paid
      <4>1. call[w].reg \in Registration /\ call[w].reg.paid = TRUE
        BY <3>3, TypeInvParts
           DEF SettleInv, CallReg, Settles, CallOK, CopiesPresent, HoldsReg
      <4>2. QED
        BY <3>3, <4>1, NoneIsNoItem DEF Settles
    <3>4. ASSUME NEW w \in Workers, Releases(w, e) PROVE FALSE
      <4>1. call[w].session \in Sessions
        BY <3>4, TypeInvParts DEF SettleInv, Releases, CallOK, CopiesPresent, HoldsSession
      <4>2. /\ sessions[call[w].session].email = e
            /\ sessions[call[w].session].state = "expired"
        BY <3>4 DEF SettleInv, CallSession, Releases, Releasing, HoldsSession
      <4>3. QED
        BY <2>3, <4>1, <4>2
    <3>5. QED
      BY <3>1, <3>2, <3>3, <3>4, TableMoves DEF SettleInv, Unmoved, Registers, Holds
  <2>4. QED
    BY <2>2, <2>3
<1>4. QED
  BY <1>2, <1>3

LEMMA AskedToPayOnceStep ==
  ASSUME SettleInv, PaymentKept, AskedToPayOnce, Next
  PROVE  AskedToPayOnce'
<1> DEFINE Form(s) == sessions[s].state \in {"offered", "complete"}
<1> DEFINE Lapsed(e) == \E t \in Sessions : sessions[t].email = e /\ sessions[t].state = "expired"
<1>1. SUFFICES ASSUME NEW s \in Sessions, NEW t \in Sessions, s # t, Form(s)', Form(t)',
                      sessions'[s].email = sessions'[t].email
               PROVE  Lapsed(sessions[s].email)'
  BY DEF AskedToPayOnce
<1>2. \A u \in Sessions : sessions'[u].state \in {"offered", "complete"}
        => sessions'[u].email \in Emails
  BY TypeInvStep DEF SettleInv, TypeInv, PlainTypes, SessionsOK
<1> DEFINE e == sessions'[s].email
<1>3. e \in Emails
  BY <1>1, <1>2
<1>4. SUFFICES Lapsed(e)
  BY <1>3, <1>4, ExpiredStays
<1>5. ASSUME NEW u \in Sessions, NEW v \in Sessions, u # v, ~Form(u), Form(u)', Form(v)',
             sessions'[u].email = e, sessions'[v].email = e
      PROVE  Lapsed(e)
  <2>1. /\ regs[e] = None /\ intents[e] = None
        /\ sessions'[v] = sessions[v]
    BY <1>5, OfferedWithHold
  <2>2. QED
    BY <1>3, <1>5, <2>1 DEF PaymentKept
<1>6. CASE Form(s) /\ Form(t)
  <2>1. sessions[s].email = e /\ sessions[t].email = e
    BY <1>1, <1>6, StaysOpened DEF SettleInv
  <2>2. QED
    BY <1>1, <1>6, <2>1 DEF AskedToPayOnce
<1>7. QED
  BY <1>1, <1>5, <1>6

PaymentInv == SettleInv /\ PaymentKept /\ AskedToPayOnce

LEMMA PaymentInvAlways == Spec => []PaymentInv
<1>1. Init => PaymentInv
  <2>1. ASSUME Init PROVE PaymentKept /\ AskedToPayOnce
    <3>1. \A s \in Sessions : sessions[s].state = "unused"
      BY <2>1 DEF Init, Stripe!CheckoutInit
    <3>2. QED
      BY <3>1 DEF PaymentKept, AskedToPayOnce
  <2>2. QED
    BY <2>1, SettleInvInit DEF PaymentInv
<1>2. ASSUME PaymentInv, [Next]_vars PROVE PaymentInv'
  <2>1. SettleInv'
    BY <1>2, SettleInvStep DEF PaymentInv
  <2>2. CASE Next
    BY <1>2, <2>1, <2>2, PaymentKeptStep, AskedToPayOnceStep DEF PaymentInv
  <2>3. CASE UNCHANGED vars
    BY <1>2, <2>1, <2>3 DEF PaymentInv, vars, PaymentKept, AskedToPayOnce
  <2>4. QED
    BY <1>2, <2>2, <2>3
<1>3. QED
  BY <1>1, <1>2, PTL DEF Spec

-----------------------------------------------------------------------------
\* The theorems.

(* HoldsStayInStep: in every run, for any number of emails, sessions and handlers, a  *)
(* registration intent stands only beside the unpaid registration it was written with *)
(* and names a checkout session of that email (HoldInv).                              *)
THEOREM HoldsStayInStep == Spec => []HoldInv
<1>1. SettleInv => HoldInv
  BY DEF SettleInv
<1>2. QED
  BY <1>1, SettleInvAlways, PTL

(* OnlyPaidIsMarkedPaid: a registration is marked paid only if a session of its email *)
(* was completed (PaidMeansPaidFor), whatever is retried, redelivered or read late.   *)
THEOREM OnlyPaidIsMarkedPaid == Spec => []PaidMeansPaidFor
<1>1. SettleInv => PaidMeansPaidFor
  BY DEF SettleInv
<1>2. QED
  BY <1>1, SettleInvAlways, PTL

(* ConfirmationIsKept: whoever was sent a confirmation has a registration that no     *)
(* expiry can take away (ConfirmedIsRegistered).                                      *)
THEOREM ConfirmationIsKept == Spec => []ConfirmedIsRegistered
<1>1. SettleInv => ConfirmedIsRegistered
  BY DEF SettleInv
<1>2. QED
  BY <1>1, SettleInvAlways, PTL

(* SilenceMeansSettled: after the webhook's 200, when Stripe stops delivering, no     *)
(* hold waits for that session any more (AckedSessionHoldsNothing).                   *)
THEOREM SilenceMeansSettled == Spec => []AckedSessionHoldsNothing
<1>1. SettleInv => AckedSessionHoldsNothing
  BY DEF SettleInv
<1>2. QED
  BY <1>1, SettleInvAlways, PTL

(* TheHoldOutlastsThePayment: a payment form stands, and is paid, for a hold that is   *)
(* still there or a registration already marked paid, unless a session of that email  *)
(* has expired (PaymentKept): what a completed notification is to mark paid has not   *)
(* been lost to failures, retries or other handlers.                                  *)
THEOREM TheHoldOutlastsThePayment == Spec => []PaymentKept
<1>1. PaymentInv => PaymentKept
  BY DEF PaymentInv
<1>2. QED
  BY <1>1, PaymentInvAlways, PTL

(* NobodyPaysTwice: no two payment forms of one email stand or are paid unless a      *)
(* session of it has expired (AskedToPayOnce), because the second hold needs the      *)
(* registration gone and by PaymentKept only an expiry takes that away.               *)
THEOREM NobodyPaysTwice == Spec => []AskedToPayOnce
<1>1. PaymentInv => AskedToPayOnce
  BY DEF PaymentInv
<1>2. QED
  BY <1>1, PaymentInvAlways, PTL

(* PaidIsFinal: no step of any handler takes a paid registration away or marks it     *)
(* unpaid (PaidForever).  A release needs an intent at the version the handler read,  *)
(* and by HoldInv no intent stands beside a paid registration.                        *)
THEOREM PaidIsFinal == Spec => PaidForever
<1> DEFINE Kept == \A e \in Emails : regs[e] # None /\ regs[e].paid =>
                      regs'[e] # None /\ regs'[e].paid
<1>1. ASSUME SettleInv, Next PROVE Kept
  <2>1. SUFFICES ASSUME NEW e \in Emails, regs[e] # None, regs[e].paid
                 PROVE  regs'[e] # None /\ regs'[e].paid
    OBVIOUS
  <2>2. intents[e] = None
    BY <1>1, <2>1 DEF SettleInv, HoldInv
  <2>3. ASSUME NEW w \in Workers, Settles(w, e) PROVE regs'[e] # None /\ regs'[e].paid
    <3>1. call[w].reg \in Registration /\ call[w].reg.paid = TRUE
      BY <1>1, <2>3, TypeInvParts
         DEF SettleInv, CallReg, Settles, CallOK, CopiesPresent, HoldsReg
    <3>2. QED
      BY <2>3, <3>1, NoneIsNoItem DEF Settles
  <2>4. QED
    BY <1>1, <2>1, <2>2, <2>3, TableMoves
       DEF SettleInv, Unmoved, Registers, Holds, Releases
<1>2. SettleInv /\ [Next]_vars => [Kept]_vars
  BY <1>1
<1>3. QED
  BY <1>2, SettleInvAlways, PTL DEF Spec, PaidForever

(* OnlyExpiryCancels: a registration disappears only in a step of an expiry handler   *)
(* whose session, of the same email, has expired (CancelledOnlyAfterExpiry).          *)
THEOREM OnlyExpiryCancels == Spec => CancelledOnlyAfterExpiry
<1> DEFINE Owed == \A e \in Emails : regs[e] # None /\ regs'[e] = None =>
                     \E s \in Sessions : sessions[s].email = e /\ sessions[s].state = "expired"
<1>1. ASSUME SettleInv, Next PROVE Owed
  <2>1. SUFFICES ASSUME NEW e \in Emails, regs[e] # None, regs'[e] = None
                 PROVE  \E s \in Sessions :
                          sessions[s].email = e /\ sessions[s].state = "expired"
    OBVIOUS
  <2>2. \A w \in Workers : ~Settles(w, e)
    BY <1>1, <2>1, TypeInvParts, NoneIsNoItem
       DEF SettleInv, Settles, CallOK, CopiesPresent, HoldsReg
  <2>3. PICK w \in Workers : Releases(w, e)
    BY <1>1, <2>1, <2>2, TableMoves DEF SettleInv, Unmoved, Registers, Holds
  <2>4. call[w].session \in Sessions
    BY <1>1, <2>3, TypeInvParts DEF SettleInv, Releases, CallOK, CopiesPresent, HoldsSession
  <2>5. /\ sessions[call[w].session].email = e
        /\ sessions[call[w].session].state = "expired"
    BY <1>1, <2>3 DEF SettleInv, CallSession, Releases, Releasing, HoldsSession
  <2>6. QED
    BY <2>4, <2>5
<1>2. SettleInv /\ [Next]_vars => [Owed]_vars
  BY <1>1
<1>3. QED
  BY <1>2, SettleInvAlways, PTL DEF Spec, CancelledOnlyAfterExpiry

\* What the findings other_expiry and payment_lost take: a second session of one email.
OneSessionPerEmail ==
  \A s, t \in Sessions :
    sessions[s].state # "unused" /\ sessions[s].email = sessions[t].email => s = t

(* OnlySecondSessionsInterfere: while nobody opens a second checkout session, a hold  *)
(* is cancelled only by its own session's expiry (OwnExpiryOnly), and whoever holds a *)
(* payment form, or has paid, keeps the hold it is for or is marked paid: the expiry  *)
(* handler's lookup by email (registration/registration.go:328) is all that lets one  *)
(* session take away what another one pays for.                                       *)
THEOREM OnlySecondSessionsInterfere ==
  Spec /\ []OneSessionPerEmail =>
    /\ OwnExpiryOnly
    /\ [](\A s \in Sessions, e \in Emails :
             sessions[s].state \in {"offered", "complete"} /\ sessions[s].email = e =>
               \/ intents[e] # None /\ intents[e].session = s
               \/ regs[e] # None /\ regs[e].paid)
<1> DEFINE Owed == \A e \in Emails : regs[e] # None /\ regs'[e] = None =>
                     \E s \in Sessions : sessions[s].email = e /\ sessions[s].state = "expired"
           Own == \A e \in Emails : intents[e] # None /\ regs'[e] = None =>
                    sessions[intents[e].session].state = "expired"
           Kept == \A s \in Sessions, e \in Emails :
                     sessions[s].state \in {"offered", "complete"} /\ sessions[s].email = e =>
                       \/ intents[e] # None /\ intents[e].session = s
                       \/ regs[e] # None /\ regs[e].paid
<1>1. SettleInv /\ OneSessionPerEmail /\ [Owed]_vars => [Own]_vars
  <2>1. SUFFICES ASSUME SettleInv, OneSessionPerEmail, Owed,
                        NEW e \in Emails, intents[e] # None, regs'[e] = None
                 PROVE  sessions[intents[e].session].state = "expired"
    OBVIOUS
  <2>2. /\ regs[e] # None /\ intents[e].session \in Sessions
        /\ sessions[intents[e].session].email = e
        /\ sessions[intents[e].session].state # "unused"
    BY <2>1, TypeInvParts DEF SettleInv, HoldInv, TableOK, RegistrationIntent
  <2>3. PICK s \in Sessions : sessions[s].email = e /\ sessions[s].state = "expired"
    BY <2>1, <2>2
  <2>4. s = intents[e].session
    BY <2>1, <2>2, <2>3 DEF OneSessionPerEmail
  <2>5. QED
    BY <2>3, <2>4
<1>2. PaymentKept /\ OneSessionPerEmail => Kept
  BY DEF PaymentKept, OneSessionPerEmail
<1>3. QED
  BY <1>1, <1>2, SettleInvAlways, OnlyExpiryCancels, TheHoldOutlastsThePayment, PTL
     DEF CancelledOnlyAfterExpiry, OwnExpiryOnly
=============================================================================
