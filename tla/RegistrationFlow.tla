--------------------------- MODULE RegistrationFlow ---------------------------
(***************************************************************************)
(* The request handlers that change an event's sign-ups (packages api,     *)
(* registration and events), run by Workers against the DynamoDB items of  *)
(* EventTable and the Stripe sessions of Checkout:                         *)
(*                                                                         *)
(*   POST /events/v1                       PostEventsV1                    *)
(*   PATCH /events/v1/{id}                 PatchEventsV1Id, CommitPatch    *)
(*   POST /events/v1/{eventId}/register    PostEventsV1EventIdRegister,    *)
(*                                         CommitRegistration              *)
(*   POST .../{eventId}/registrations      PostEventsV1EventIdRegistrations,*)
(*                                         CreateCheckout, CommitHold      *)
(*   Stripe webhook, completed             WebhookCompleted, CommitPaid    *)
(*   Stripe webhook, expired               WebhookExpired, ReadIntent,     *)
(*                                         ReadEvent, CommitRelease        *)
(*                                                                         *)
(* A handler is a sequence of calls to the table and to Stripe; between    *)
(* two of them it holds only the copies in call[w].  A handler's first     *)
(* read is one step with its start.  Any other step may come in between,   *)
(* and a handler may fail between any two of its calls.                    *)
(***************************************************************************)
EXTENDS EventTable

CONSTANTS
  Workers,     \* the handlers that can run at once
  ShapesOf,    \* [Emails -> the shapes submitted under that email]
  MaxFaults,   \* bound: failed calls, lost answers and needless redeliveries
  MaxVersion   \* bound: an event at this version is no longer patched

ASSUME FlowAssumption ==
  /\ ShapesOf \in [Emails -> SUBSET Shape]
  /\ MaxFaults \in Nat
  /\ MaxVersion \in Nat

VARIABLES
  sessions,   \* [Sessions -> the checkout session's state at Stripe]
  call,       \* [Workers -> where the worker's handler is, and its copies]
  confirmed,  \* the emails a registration confirmation was sent to
  reply,      \* the response the last step sent, NoReply if it sent none
  faults      \* how many faults have happened

Stripe == INSTANCE Checkout

vars == <<event, regs, intents, replica, sessions, call, confirmed, reply, faults>>

Idle == [pc |-> "idle", email |-> None, session |-> None,
         reg |-> None, intent |-> None, event |-> None]

NoReply == [to |-> "nobody", status |-> 0, email |-> None]

PCs == {"idle", "UpdateEvent", "CreateRegistration", "CreateCheckout",
        "CreateRegistrationWithPayment", "UpdateRegistrationToPaid",
        "GetRegistrationIntent", "GetEvent", "DeleteExpiredRegistration",
        "SendConfirmation"}

Call == [pc : PCs, email : Emails \cup {None}, session : Sessions \cup {None},
         reg : Registration \cup {None}, intent : RegistrationIntent \cup {None},
         event : Event \cup {None}]

Reply == [to : {"nobody", "PATCH", "register", "registrations", "webhook"},
          status : {0, 200, 403, 404, 409, 500}, email : Emails \cup {None}]

TypeOK ==
  /\ event \in Event \cup {None}
  /\ regs \in [Emails -> Registration \cup {None}]
  /\ intents \in [Emails -> RegistrationIntent \cup {None}]
  /\ replica \in TableType
  /\ sessions \in [Sessions -> Stripe!SessionType]
  /\ call \in [Workers -> Call]
  /\ confirmed \subseteq Emails
  /\ reply \in Reply
  /\ faults \in Nat

Init ==
  /\ TableInit
  /\ Stripe!CheckoutInit
  /\ call = [w \in Workers |-> Idle]
  /\ confirmed = {}
  /\ reply = NoReply
  /\ faults = 0

-----------------------------------------------------------------------------
\* What the handlers compute.

Bump(item) == [item EXCEPT !.version = @ + 1]

\* POST /events/v1 overwrites the version and the sign-up stats of the body.
NewEvent(config) ==
  [config |-> config, version |-> 1, numTeams |-> 0, numRostered |-> 0, numTotal |-> 0]

\* A slip: the stats are taken from the request as well, where they are zero.
PatchedFromBody(ev, config) == [NewEvent(config) EXCEPT !.version = ev.version + 1]

\* events.UpdateEvent takes the settings from the request and keeps the stats.
PatchedEvent(ev, config) == [Bump(ev) EXCEPT !.config = config]

\* A slip: a registration starts out paid.
PaidOnArrival(shape, at) ==
  [type |-> shape.type, players |-> shape.players, at |-> at,
   paid |-> TRUE, version |-> 1]

NewRegistration(shape, at) ==
  [type |-> shape.type, players |-> shape.players, at |-> at,
   paid |-> FALSE, version |-> 1]

NewIntent(s) == [session |-> s, version |-> 1]

\* A slip: BumpVersion is forgotten.
PaidUnbumped(reg) == [reg EXCEPT !.paid = TRUE]

PaidRegistration(reg) == [Bump(reg) EXCEPT !.paid = TRUE]

registerIndividualAsFreeAgent(ev) == [ev EXCEPT !.numTotal = @ + 1]

registerTeam(ev, size) ==
  [ev EXCEPT !.numTeams = @ + 1, !.numTotal = @ + size, !.numRostered = @ + size]

unregisterIndividualFromEvent(ev) == [ev EXCEPT !.numTotal = @ - 1]

\* A slip: the roster keeps the players of a team that is gone.
unregisterTeamButRoster(ev, size) ==
  [ev EXCEPT !.numTeams = @ - 1, !.numTotal = @ - size]

unregisterTeamFromEvent(ev, size) ==
  [ev EXCEPT !.numTeams = @ - 1, !.numTotal = @ - size, !.numRostered = @ - size]

WithRegistration(ev, reg) ==
  Bump(IF reg.type = "BY_TEAM" THEN registerTeam(ev, reg.players)
                               ELSE registerIndividualAsFreeAgent(ev))

\* A slip: event.Version++ is forgotten before the delete.
WithoutRegistrationUnbumped(ev, reg) ==
  IF reg.type = "BY_TEAM" THEN unregisterTeamFromEvent(ev, reg.players)
                          ELSE unregisterIndividualFromEvent(ev)

WithoutRegistration(ev, reg) ==
  Bump(IF reg.type = "BY_TEAM" THEN unregisterTeamFromEvent(ev, reg.players)
                               ELSE unregisterIndividualFromEvent(ev))

TypeAllowed(config, reg) == reg.type \in config.options

StillOpen(config, reg) == reg.at <= config.closeTime

TeamSizeAllowed(config, reg) ==
  reg.type = "BY_TEAM" => reg.players >= config.min /\ reg.players <= config.max

MayRegister(config, reg) ==
  TypeAllowed(config, reg) /\ StillOpen(config, reg) /\ TeamSizeAllowed(config, reg)

\* A slip: a refusal gets a status the handlers have no response for.
RefusalAsBadRequest(config, reg) ==
  IF TypeAllowed(config, reg) /\ ~StillOpen(config, reg) THEN 403 ELSE 400

\* The status of a refused registration; the type is looked at first.
RefusalStatus(config, reg) ==
  IF TypeAllowed(config, reg) /\ ~StillOpen(config, reg) THEN 403 ELSE 500

AlreadyExistsStatus(e, reg) == IF ReportsAlreadyExists(e, reg) THEN 409 ELSE 500

-----------------------------------------------------------------------------
\* How a handler moves: on to its next call, or back with a response.

NoFault == UNCHANGED faults

Fault == faults < MaxFaults /\ faults' = faults + 1

Goto(w, next) ==
  /\ call' = [call EXCEPT ![w] = next]
  /\ reply' = NoReply

Return(w, to, status, e) ==
  /\ call' = [call EXCEPT ![w] = Idle]
  /\ reply' = [to |-> to, status |-> status, email |-> e]

-----------------------------------------------------------------------------
\* The organiser's requests.

PostEventsV1(config) ==
  /\ CreateEvent(NewEvent(config))
  /\ reply' = NoReply
  /\ UNCHANGED <<sessions, call, confirmed, faults>>

PatchEventsV1Id(w, config) ==
  /\ call[w] = Idle
  /\ \E seen \in GetEvent :
       \/ /\ seen = None
          /\ Return(w, "PATCH", 404, None)
       \/ /\ seen # None
          /\ seen.version < MaxVersion
          /\ Goto(w, [Idle EXCEPT !.pc = "UpdateEvent",
                                  !.event = PatchedEvent(seen, config)])
  /\ UNCHANGED <<tableVars, sessions, confirmed, faults>>

\* A PutItem whose answer is lost is retried by the SDK, and the retry finds the
\* version moved on: the answer to an applied patch can be 404 as well as 500.
CommitPatch(w) ==
  /\ call[w].pc = "UpdateEvent"
  /\ \/ /\ UpdateEvent(call[w].event)
        /\ \/ NoFault /\ Return(w, "PATCH", 200, None)
           \/ Fault /\ \E status \in {404, 500} : Return(w, "PATCH", status, None)
     \/ /\ ~UpdateEventHolds(call[w].event)
        /\ NoFault
        /\ Return(w, "PATCH", 404, None)
        /\ UNCHANGED tableVars
  /\ UNCHANGED <<sessions, confirmed>>

-----------------------------------------------------------------------------
\* Registering, without (register) and with payment (registrations).

\* Both start alike: read the event, check and count the registration in the copy.
StartRegistration(w, to, e, shape, at, nextPc) ==
  /\ call[w] = Idle
  /\ \E seen \in GetEvent :
       LET reg == NewRegistration(shape, at) IN
       \/ /\ seen = None
          /\ Return(w, to, 404, e)
       \/ /\ seen # None
          /\ ~MayRegister(seen.config, reg)
          /\ Return(w, to, RefusalStatus(seen.config, reg), e)
       \/ /\ seen # None
          /\ MayRegister(seen.config, reg)
          /\ Goto(w, [Idle EXCEPT !.pc = nextPc, !.email = e, !.reg = reg,
                                  !.event = WithRegistration(seen, reg)])
  /\ UNCHANGED <<tableVars, sessions, confirmed, faults>>

PostEventsV1EventIdRegister(w, e, shape, at) ==
  StartRegistration(w, "register", e, shape, at, "CreateRegistration")

PostEventsV1EventIdRegistrations(w, e, shape, at) ==
  StartRegistration(w, "registrations", e, shape, at, "CreateCheckout")

CommitRegistration(w) ==
  LET c == call[w] IN
  /\ c.pc = "CreateRegistration"
  /\ \/ /\ CreateRegistration(c.email, c.reg, c.event)
        /\ \/ /\ NoFault
              /\ Goto(w, [Idle EXCEPT !.pc = "SendConfirmation", !.email = c.email])
           \/ Fault /\ Return(w, "register", 500, c.email)
     \/ /\ ~CreateRegistrationHolds(c.email, c.reg, c.event)
        /\ NoFault
        /\ Return(w, "register", AlreadyExistsStatus(c.email, c.reg), c.email)
        /\ UNCHANGED tableVars
  /\ UNCHANGED <<sessions, confirmed>>

CreateCheckout(w) ==
  LET c == call[w] IN
  /\ c.pc = "CreateCheckout"
  /\ \/ \E s \in Sessions :
          /\ Stripe!Open(s, c.email)
          /\ Goto(w, [c EXCEPT !.pc = "CreateRegistrationWithPayment",
                               !.session = s, !.intent = NewIntent(s)])
     \/ /\ Return(w, "registrations", 500, c.email)
        /\ UNCHANGED sessions
  /\ UNCHANGED <<tableVars, confirmed, faults>>

\* Only a 200 carries the client secret, so only then can the session be paid.
CommitHold(w) ==
  LET c == call[w] IN
  /\ c.pc = "CreateRegistrationWithPayment"
  /\ \/ /\ CreateRegistrationWithPayment(c.email, c.reg, c.intent, c.event)
        /\ \/ /\ NoFault
              /\ Return(w, "registrations", 200, c.email)
              /\ sessions' = Stripe!Offered(c.session)
           \/ /\ Fault
              /\ Return(w, "registrations", 500, c.email)
              /\ UNCHANGED sessions
     \/ /\ ~CreateRegistrationWithPaymentHolds(c.email, c.reg, c.intent, c.event)
        /\ NoFault
        /\ Return(w, "registrations", AlreadyExistsStatus(c.email, c.reg), c.email)
        /\ UNCHANGED <<tableVars, sessions>>
  /\ UNCHANGED confirmed

-----------------------------------------------------------------------------
\* The Stripe webhook.  Stripe delivers until it gets a 200; an acknowledged
\* notification delivered once more is a fault.

Delivered(s) ==
  \/ ~sessions[s].acked /\ NoFault
  \/ sessions[s].acked /\ Fault

\* A slip: every error of ConfirmCheckout is taken for an expiry.
AnyErrorIsExpired(s) == sessions[s].state \in {"open", "offered", "expired"}

\* ConfirmCheckout reports an expired session as an error with a reason of its own.
checkoutIsExpired(s) == Stripe!Expired(s)

\* setRegistrationToPaid: the session names only the email; whatever registration
\* that email has now is the one to be paid.
WebhookCompleted(w, s) ==
  /\ call[w] = Idle
  /\ Stripe!Complete(s)
  /\ Delivered(s)
  /\ LET e == sessions[s].email IN
     \E seen \in GetRegistration(e) :
       \/ /\ seen = None
          /\ Return(w, "webhook", 500, e)
       \/ /\ seen # None
          /\ Goto(w, [Idle EXCEPT !.pc = "UpdateRegistrationToPaid", !.email = e,
                                  !.session = s, !.reg = PaidRegistration(seen)])
  /\ UNCHANGED <<tableVars, sessions, confirmed>>

\* A slip: the payment is acknowledged at once, before the email.
PaidIsAcked(w) ==
  /\ call[w].pc = "UpdateRegistrationToPaid"
  /\ UpdateRegistrationToPaid(call[w].email, call[w].reg)
  /\ NoFault
  /\ Return(w, "webhook", 200, call[w].email)
  /\ sessions' = Stripe!Acked(call[w].session)
  /\ UNCHANGED confirmed

CommitPaid(w) ==
  LET c == call[w] IN
  /\ c.pc = "UpdateRegistrationToPaid"
  /\ \/ /\ UpdateRegistrationToPaid(c.email, c.reg)
        /\ \/ /\ NoFault
              /\ Goto(w, [Idle EXCEPT !.pc = "SendConfirmation", !.email = c.email,
                                      !.session = c.session])
           \/ Fault /\ Return(w, "webhook", 500, c.email)
     \/ /\ ~UpdateRegistrationToPaidHolds(c.email, c.reg)
        /\ NoFault
        /\ Return(w, "webhook", 500, c.email)
        /\ UNCHANGED tableVars
  /\ UNCHANGED <<sessions, confirmed>>

\* The end of the webhook's completed path and of POST register: read the event for
\* the email's text (webhook only), send it, answer 200 whether or not that worked.
\* The process can also stop with the email sent and nothing answered.
SendConfirmation(w) ==
  LET c == call[w]
      to == IF c.session = None THEN "register" ELSE "webhook" IN
  /\ c.pc = "SendConfirmation"
  /\ \/ /\ \/ NoFault /\ confirmed' = confirmed \cup {c.email}
           \/ /\ IF c.session # None /\ None \in GetEvent THEN NoFault ELSE Fault
              /\ UNCHANGED confirmed
        /\ Return(w, to, 200, c.email)
        /\ sessions' = IF c.session = None THEN sessions ELSE Stripe!Acked(c.session)
     \/ /\ Fault
        /\ confirmed' = confirmed \cup {c.email}
        /\ Return(w, to, 500, c.email)
        /\ UNCHANGED sessions
  /\ UNCHANGED tableVars

\* deleteExpiredRegistration: three reads, one after the other, then the delete.
WebhookExpired(w, s) ==
  /\ call[w] = Idle
  /\ checkoutIsExpired(s)
  /\ Delivered(s)
  /\ LET e == sessions[s].email IN
     \E seen \in GetRegistration(e) :
       Goto(w, [Idle EXCEPT !.pc = "GetRegistrationIntent", !.email = e,
                            !.session = s, !.reg = seen])
  /\ UNCHANGED <<tableVars, sessions, confirmed>>

\* With both gone there is nothing to release; with one gone the reads disagree.
ReadIntent(w) ==
  LET c == call[w] IN
  /\ c.pc = "GetRegistrationIntent"
  /\ \E seen \in GetRegistrationIntent(c.email) :
       \/ /\ c.reg = None /\ seen = None
          /\ Return(w, "webhook", 200, c.email)
          /\ sessions' = Stripe!Acked(c.session)
       \/ /\ (c.reg = None) # (seen = None)
          /\ Return(w, "webhook", 500, c.email)
          /\ UNCHANGED sessions
       \/ /\ c.reg # None /\ seen # None
          /\ Goto(w, [c EXCEPT !.pc = "GetEvent", !.intent = seen])
          /\ UNCHANGED sessions
  /\ UNCHANGED <<tableVars, confirmed, faults>>

ReadEvent(w) ==
  LET c == call[w] IN
  /\ c.pc = "GetEvent"
  /\ \E seen \in GetEvent :
       \/ /\ seen = None
          /\ Return(w, "webhook", 500, c.email)
       \/ /\ seen # None
          /\ Goto(w, [c EXCEPT !.pc = "DeleteExpiredRegistration",
                               !.event = WithoutRegistration(seen, c.reg)])
  /\ UNCHANGED <<tableVars, sessions, confirmed, faults>>

CommitRelease(w) ==
  LET c == call[w] IN
  /\ c.pc = "DeleteExpiredRegistration"
  /\ \/ /\ DeleteExpiredRegistration(c.email, c.reg, c.intent, c.event)
        /\ \/ /\ NoFault
              /\ Return(w, "webhook", 200, c.email)
              /\ sessions' = Stripe!Acked(c.session)
           \/ /\ Fault
              /\ Return(w, "webhook", 500, c.email)
              /\ UNCHANGED sessions
     \/ /\ ~DeleteExpiredRegistrationHolds(c.email, c.reg, c.intent, c.event)
        /\ NoFault
        /\ Return(w, "webhook", 500, c.email)
        /\ UNCHANGED <<tableVars, sessions>>
  /\ UNCHANGED confirmed

-----------------------------------------------------------------------------
\* What happens to the handlers and at Stripe.

\* The process is stopped, or the next call fails or times out without effect.  A
\* create that DynamoDB cancels because another transaction holds an item has
\* reason codes too, and answers 409 as a failed condition does.
HandlerFails(w) ==
  LET c == call[w]
      to == CASE c.pc = "UpdateEvent" -> "PATCH"
              [] c.pc = "CreateRegistration" -> "register"
              [] c.pc = "SendConfirmation" /\ c.session = None -> "register"
              [] c.pc \in {"CreateCheckout", "CreateRegistrationWithPayment"} ->
                   "registrations"
              [] OTHER -> "webhook" IN
  /\ c.pc # "idle"
  /\ Fault
  /\ \/ Return(w, to, 500, c.email)
     \/ /\ c.pc \in {"CreateRegistration", "CreateRegistrationWithPayment"}
        /\ Return(w, to, 409, c.email)
  /\ UNCHANGED <<tableVars, sessions, confirmed>>

PaySession(s) ==
  /\ Stripe!Pay(s)
  /\ reply' = NoReply
  /\ UNCHANGED <<tableVars, call, confirmed, faults>>

\* A session lives 30 minutes; the handler that opened it has 2 seconds and a
\* replica lags by less: both are long over when the session expires.
Outlived(s) ==
  /\ \A w \in Workers : call[w].pc = "CreateRegistrationWithPayment" => call[w].session # s
  /\ \A e \in Emails : intents[e] # None /\ intents[e].session = s
                          => replica.intents[e] = intents[e]

ExpireSession(s) ==
  /\ Outlived(s)
  /\ Stripe!Expire(s)
  /\ reply' = NoReply
  /\ UNCHANGED <<tableVars, call, confirmed, faults>>

ReplicaCatchesUp ==
  /\ Replicate
  /\ reply' = NoReply
  /\ UNCHANGED <<sessions, call, confirmed, faults>>

-----------------------------------------------------------------------------
\* A handler under way takes its next step.
HandlerStep(w) ==
  \/ CommitPatch(w)
  \/ CommitRegistration(w)
  \/ CreateCheckout(w)
  \/ CommitHold(w)
  \/ CommitPaid(w)
  \/ SendConfirmation(w)
  \/ ReadIntent(w)
  \/ ReadEvent(w)
  \/ CommitRelease(w)

Deliver(s) == \E w \in Workers : WebhookCompleted(w, s) \/ WebhookExpired(w, s)

Request(w) ==
  \/ \E config \in Configs : PatchEventsV1Id(w, config)
  \/ \E e \in Emails, at \in Times : \E shape \in ShapesOf[e] :
       \/ PostEventsV1EventIdRegister(w, e, shape, at)
       \/ PostEventsV1EventIdRegistrations(w, e, shape, at)

Next ==
  \/ \E config \in Configs : PostEventsV1(config)
  \/ \E w \in Workers : Request(w) \/ HandlerStep(w) \/ HandlerFails(w)
  \/ \E s \in Sessions : Deliver(s) \/ PaySession(s) \/ ExpireSession(s)
  \/ ReplicaCatchesUp

Spec == Init /\ [][Next]_vars

\* Handlers run to their end; a session nobody pays expires; a replica catches up;
\* Stripe retries until it gets its 200, and a Lambda instance is free for it again
\* and again.  No fault is ever bound to happen.
Fairness ==
  /\ \A w \in Workers : WF_vars(HandlerStep(w))
  /\ \A s \in Sessions : /\ WF_vars(ExpireSession(s))
                        /\ SF_vars(~sessions[s].acked /\ Deliver(s))
  /\ WF_vars(ReplicaCatchesUp)

FairSpec == Spec /\ Fairness
=============================================================================
