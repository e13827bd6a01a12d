------------------------ MODULE RegistrationInvariant ------------------------
(***************************************************************************)
(* The inductive invariant behind the safety theorems: what the copies in  *)
(* a handler's hands have to do with the table and with Stripe while other *)
(* handlers move both.  MCRegistrationFlow extends this module, so that    *)
(* TLC can look at each conjunct before it is proved.                      *)
(***************************************************************************)
EXTENDS RegistrationProperties

\* Where a handler holds which copy.
HoldsEmail   == PCs \ {"idle", "UpdateEvent"}
HoldsSession == {"CreateRegistrationWithPayment", "UpdateRegistrationToPaid",
                 "GetRegistrationIntent", "GetEvent", "DeleteExpiredRegistration"}
Creating     == {"CreateRegistration", "CreateCheckout", "CreateRegistrationWithPayment"}
Releasing    == {"GetRegistrationIntent", "GetEvent", "DeleteExpiredRegistration"}
HoldsReg     == Creating \cup {"UpdateRegistrationToPaid", "GetEvent",
                               "DeleteExpiredRegistration"}
HoldsIntent  == {"CreateRegistrationWithPayment", "GetEvent", "DeleteExpiredRegistration"}
HoldsEvent   == Creating \cup {"UpdateEvent", "DeleteExpiredRegistration"}

\* The copies a handler is about to use are there.
CopiesPresent(c) ==
  /\ c.pc \in HoldsEmail => c.email \in Emails
  /\ c.pc \in HoldsSession => c.session \in Sessions
  /\ c.pc \in HoldsReg => c.reg \in Registration
  /\ c.pc \in HoldsIntent => c.intent \in RegistrationIntent
  /\ c.pc \in HoldsEvent => c.event \in Event

CallOK == \A w \in Workers : CopiesPresent(call[w])

\* A session that was opened has an email.
SessionsOK ==
  \A s \in Sessions : sessions[s].state # "unused" => sessions[s].email \in Emails

\* The session a handler is about to offer was opened.
HeldIsOpened ==
  \A w \in Workers : call[w].pc = "CreateRegistrationWithPayment" =>
    sessions[call[w].session].state # "unused"

\* A session whose notification was acknowledged was settled.
AckedIsSettled ==
  \A s \in Sessions : sessions[s].acked => sessions[s].state \in {"complete", "expired"}

\* A handler works for a session of its own email, in the state that started it.
CallSession ==
  \A w \in Workers :
    /\ call[w].pc \in HoldsSession => sessions[call[w].session].email = call[w].email
    /\ call[w].pc = "CreateRegistrationWithPayment" =>
         /\ sessions[call[w].session].state = "open"
         /\ call[w].intent = NewIntent(call[w].session)
    /\ call[w].pc = "UpdateRegistrationToPaid" =>
         sessions[call[w].session].state = "complete"
    /\ call[w].pc \in Releasing => sessions[call[w].session].state = "expired"
    /\ call[w].pc = "SendConfirmation" /\ call[w].session # None =>
         /\ sessions[call[w].session].state = "complete"
         /\ sessions[call[w].session].email = call[w].email

\* No two handlers are about to offer the same session.
OneHandlerPerSession ==
  \A v, w \in Workers :
    /\ call[v].pc = "CreateRegistrationWithPayment"
    /\ call[w].pc = "CreateRegistrationWithPayment"
    /\ call[v].session = call[w].session
    => v = w

\* A registration about to be created is new; one about to be written as paid is paid.
CallReg ==
  \A w \in Workers :
    /\ call[w].pc \in Creating => call[w].reg.version = 1 /\ call[w].reg.paid = FALSE
    /\ call[w].pc = "UpdateRegistrationToPaid" => call[w].reg.paid = TRUE

\* What is confirmed, or about to be, has no intent left.
Settled(e) == regs[e] # None /\ intents[e] = None

CallConfirms ==
  \A w \in Workers : call[w].pc = "SendConfirmation" => Settled(call[w].email)

\* An expired session's hold is one every read sees.
ExpiredHoldSeen ==
  \A e \in Emails :
    intents[e] # None /\ sessions[intents[e].session].state = "expired"
      => replica.intents[e] = intents[e]

\* The replica's event is an earlier one, and the same if the version is.
ReplicaBehind ==
  replica.event # None =>
    /\ event # None
    /\ replica.event.version <= event.version
    /\ replica.event.version = event.version => replica.event = event

\* A copy of the event whose version can still be written is the current event with
\* the handler's change made to it.
CopiesFit ==
  \A w \in Workers : call[w].pc \in HoldsEvent =>
    /\ event # None
    /\ call[w].event.version <= event.version + 1
    /\ call[w].event.version = event.version + 1 =>
         /\ call[w].pc = "UpdateEvent" =>
              call[w].event = PatchedEvent(event, call[w].event.config)
         /\ call[w].pc \in Creating =>
              call[w].event = WithRegistration(event, call[w].reg)
         /\ call[w].pc = "DeleteExpiredRegistration" =>
              call[w].event = WithoutRegistration(event, call[w].reg)
    /\ call[w].pc \in Creating => MayRegister(call[w].event.config, call[w].reg)

\* Every registration, stored or in a handler's hands, has a shape of its email's.
HasShapeOf(reg, e) ==
  \E shape \in ShapesOf[e] : reg.type = shape.type /\ reg.players = shape.players

ShapesKept ==
  /\ \A e \in Emails : regs[e] # None => HasShapeOf(regs[e], e)
  /\ \A e \in Emails : replica.regs[e] # None => HasShapeOf(replica.regs[e], e)
  /\ \A w \in Workers :
       call[w].pc \in HoldsReg \cup {"GetRegistrationIntent"} /\ call[w].reg # None
         => HasShapeOf(call[w].reg, call[w].email)

\* The session a handler is about to offer is named by no intent yet, not even by one
\* the replica still answers with.
HeldIsFresh ==
  \A w \in Workers, e \in Emails : call[w].pc = "CreateRegistrationWithPayment" =>
    /\ intents[e] # None => intents[e].session # call[w].session
    /\ replica.intents[e] # None => replica.intents[e].session # call[w].session

ReplicaNamesOpened ==
  \A e \in Emails : replica.intents[e] # None =>
    sessions[replica.intents[e].session].state # "unused"

\* A replica that answers with the current intent answers with its registration too.
ReplicaPair ==
  \A e \in Emails : intents[e] # None /\ replica.intents[e] = intents[e] =>
    replica.regs[e] = regs[e]

\* As long as its session's own hold stands, the registration a handler read is the
\* one in the table.
OwnHoldRead ==
  \A w \in Workers :
    /\ call[w].pc \in Releasing /\ OwnHold(w) => call[w].reg = regs[call[w].email]
    /\ call[w].pc = "UpdateRegistrationToPaid" /\ OwnHold(w) /\ ~StaleReads =>
         call[w].reg = PaidRegistration(regs[call[w].email])

PlainTypes == TypeOK /\ CallOK /\ SessionsOK

TypeInv == PlainTypes /\ HeldIsOpened

\* Registrations, intents and sessions agree, whatever the event item says.
SettleInv ==
  /\ TypeInv
  /\ AckedIsSettled
  /\ CallSession
  /\ OneHandlerPerSession
  /\ CallReg
  /\ CallConfirms
  /\ HoldInv
  /\ PaidMeansPaidFor
  /\ ConfirmedIsRegistered
  /\ ExpiredHoldSeen
  /\ AckedSessionHoldsNothing

FlowInv ==
  /\ SettleInv
  /\ ReplicaBehind
  /\ CopiesFit
  /\ ShapesKept
  /\ HeldIsFresh
  /\ ReplicaNamesOpened
  /\ ReplicaPair
  /\ OwnHoldRead
=============================================================================
