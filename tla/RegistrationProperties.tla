------------------------ MODULE RegistrationProperties ------------------------
(***************************************************************************)
(* What the handlers of RegistrationFlow must get right together.          *)
(***************************************************************************)
EXTENDS RegistrationFlow

-----------------------------------------------------------------------------
\* The totals of the event item.

Teams == {e \in Emails : regs[e] # None /\ regs[e].type = "BY_TEAM"}

\* The players the registrations of some types bring, one <<email, number>> each.
Seats(types) ==
  {seat \in Emails \X (1..MaxPlayers) :
     /\ regs[seat[1]] # None
     /\ regs[seat[1]].type \in types
     /\ seat[2] <= regs[seat[1]].players}

(* SignUpStats: the three counters of the event item, which every register, expiry    *)
(* and patch handler rewrites from a copy it read earlier, always equal what counting *)
(* the event's registrations gives.                                                   *)
SignUpStats ==
  event # None =>
    /\ event.numTeams = Cardinality(Teams)
    /\ event.numRostered = Cardinality(Seats({"BY_TEAM"}))
    /\ event.numTotal = Cardinality(Seats(RegTypes))

\* Nobody who registers again after an expiry changes type or team size.
OneShapePerEmail == \A e \in Emails : \A s, t \in ShapesOf[e] : s = t

-----------------------------------------------------------------------------
\* Holds and payments.

(* HoldInv: an intent stands only beside an unpaid registration at version 1, and     *)
(* names a checkout session of the same email.  The intent's Delete in                *)
(* UpdateRegistrationToPaid and the three-way condition of DeleteExpiredRegistration  *)
(* keep the two items in step although they are written by different handlers.        *)
HoldInv ==
  \A e \in Emails : intents[e] # None =>
    /\ regs[e] # None
    /\ regs[e].paid = FALSE
    /\ regs[e].version = 1
    /\ intents[e].version = 1
    /\ sessions[intents[e].session].email = e
    /\ sessions[intents[e].session].state # "unused"

(* PaidMeansPaidFor: a registration is marked paid only if a checkout session opened  *)
(* for its email was completed; no retry, late webhook or stale copy marks another.   *)
PaidMeansPaidFor ==
  \A e \in Emails : regs[e] # None /\ regs[e].paid =>
    \E s \in Sessions : sessions[s].email = e /\ sessions[s].state = "complete"

(* ConfirmedIsRegistered: whoever was sent the confirmation email has a registration, *)
(* and one that no expiry can take away any more.                                     *)
ConfirmedIsRegistered ==
  \A e \in confirmed : regs[e] # None /\ intents[e] = None

(* AckedSessionHoldsNothing: once the webhook has answered 200 to a session's         *)
(* completed or expired notification, after which Stripe falls silent, no hold is     *)
(* left that waits for that session.                                                  *)
AckedSessionHoldsNothing ==
  \A s \in Sessions : sessions[s].acked =>
    \A e \in Emails : intents[e] # None => intents[e].session # s

(* PaymentKept: whoever has been shown a payment form, or has paid, has the hold that *)
(* the payment is for or a paid registration, unless a session of theirs has expired: *)
(* the hold stands before the form is shown, and only a payment or an expiry takes it *)
(* away.                                                                              *)
PaymentKept ==
  \A s \in Sessions, e \in Emails :
    sessions[s].state \in {"offered", "complete"} /\ sessions[s].email = e =>
      \/ intents[e] # None /\ intents[e].session = s
      \/ regs[e] # None /\ regs[e].paid
      \/ \E t \in Sessions : sessions[t].email = e /\ sessions[t].state = "expired"

(* AskedToPayOnce: nobody is given a second payment form while the first one stands   *)
(* or is paid, by double submissions or retries, unless a session of theirs has       *)
(* expired in between: nobody pays twice for one registration.                        *)
AskedToPayOnce ==
  \A s, t \in Sessions :
    /\ s # t
    /\ {sessions[s].state, sessions[t].state} \subseteq {"offered", "complete"}
    /\ sessions[s].email = sessions[t].email
    => \E u \in Sessions :
         sessions[u].email = sessions[s].email /\ sessions[u].state = "expired"

-----------------------------------------------------------------------------
\* What no step may do.

(* AckedIsTold: Stripe falls silent about a completed payment only in a step before    *)
(* which the registrant was sent the confirmation, or in which reading the event or   *)
(* sending it fails: whatever failed earlier and however often the notification came, *)
(* nobody comes back for an email that was not sent when the webhook answered 200.    *)
AckedIsTold ==
  [][\A s \in Sessions :
       ~sessions[s].acked /\ sessions'[s].acked /\ sessions'[s].state = "complete"
         => sessions'[s].email \in confirmed' \/ faults' # faults]_vars

(* PaidForever: no handler takes a paid registration away or marks it unpaid.         *)
PaidForever ==
  [][\A e \in Emails : regs[e] # None /\ regs[e].paid =>
       regs'[e] # None /\ regs'[e].paid]_vars

(* AdmittedOnlyWhenOpen: a registration enters the table only if the event's settings *)
(* at that moment, not those the handler read before it went to Stripe, allow its     *)
(* type, its time and its team size.                                                  *)
AdmittedOnlyWhenOpen ==
  [][\A e \in Emails : regs[e] = None /\ regs'[e] # None =>
       event # None /\ MayRegister(event.config, regs'[e])]_vars

(* CancelledOnlyAfterExpiry: a registration disappears only when some checkout        *)
(* session of its email has expired.                                                  *)
CancelledOnlyAfterExpiry ==
  [][\A e \in Emails : regs[e] # None /\ regs'[e] = None =>
       \E s \in Sessions : sessions[s].email = e /\ sessions[s].state = "expired"]_vars

(* NoLostUpdate: whoever rewrites the event item moves its version on by one and      *)
(* changes either the settings or, together with one registration, the counters:      *)
(* a patch never undoes a sign-up it did not see, nor a sign-up a patch.              *)
NoLostUpdate ==
  [][event # None /\ event' # event =>
       /\ event' # None
       /\ event'.version = event.version + 1
       /\ IF regs' = regs
            THEN /\ event'.numTeams = event.numTeams
                 /\ event'.numRostered = event.numRostered
                 /\ event'.numTotal = event.numTotal
            ELSE event'.config = event.config]_vars

-----------------------------------------------------------------------------
\* What must eventually happen.

(* HoldsAreReleased: the hold of an expired session does not keep its email and its   *)
(* places for ever: the webhook, retried, releases it.                                *)
HoldsAreReleased ==
  \A s \in Sessions, e \in Emails :
    (sessions[s].state = "expired" /\ intents[e] # None /\ intents[e].session = s)
      ~> (intents[e] = None \/ intents[e].session # s)

(* PaymentHonouredUnlessCancelled: a completed session ends with its email's          *)
(* registration paid, unless another session of the same email expired.               *)
PaymentHonouredUnlessCancelled ==
  \A s \in Sessions, e \in Emails :
    (sessions[s].state = "complete" /\ sessions[s].email = e)
      ~> (\/ regs[e] # None /\ regs[e].paid
          \/ \E t \in Sessions : sessions[t].email = e /\ sessions[t].state = "expired")

-----------------------------------------------------------------------------
\* Where the counters can go wrong, for emails that come back with another shape.

\* The hold a webhook handler finds under its session's email is that session's own.
OwnHold(w) ==
  intents[call[w].email] # None /\ intents[call[w].email].session = call[w].session

\* A webhook handler overwrites, or deletes, a registration of another shape than it read.
MixUp(w) ==
  LET c == call[w] IN
  /\ \/ c.pc = "UpdateRegistrationToPaid" /\ regs'[c.email] = c.reg
     \/ c.pc = "DeleteExpiredRegistration" /\ regs'[c.email] = None
  /\ regs[c.email] # None
  /\ c.reg.type # regs[c.email].type \/ c.reg.players # regs[c.email].players

(* OnlyMixUpsMiscount: the counters go wrong in no other way than this: a webhook     *)
(* handler deletes, or overwrites as paid, a registration of another shape than the   *)
(* one it read, and the hold it finds is not its session's own.  Comparing the        *)
(* intent's PaymentSessionId with the session would prevent it, but for a payment     *)
(* that starts from a stale read.                                                     *)
OnlyMixUpsMiscount ==
  [][SignUpStats /\ ~SignUpStats' =>
       \E w \in Workers :
         /\ MixUp(w)
         /\ OwnHold(w) => StaleReads /\ call[w].pc = "UpdateRegistrationToPaid"]_vars

-----------------------------------------------------------------------------
\* When a response can be wrong.

\* Somebody has written the event since handler w, which answers now, read its copy.
Overtaken(w) ==
  /\ call'[w] # call[w]
  /\ event # None /\ event.version >= call[w].event.version

(* OnlyLostRacesMisinform: a PATCH is told that an existing event is missing, or a    *)
(* registrant that an email nobody registered is taken, in no other way than these:   *)
(* another write of the event overtook the handler's copy, its read missed the        *)
(* event's creation, or a call failed in the very step that answers.  The conditions  *)
(* on registration and intent are never to blame (dynamo/events.go:315,               *)
(* dynamo/registration.go:206 and 285).                                               *)
OnlyLostRacesMisinform ==
  [][/\ reply'.to = "PATCH" /\ reply'.status = 404 /\ event' # None =>
          \/ faults' # faults
          \/ replica.event = None
          \/ \E w \in Workers : call[w].pc = "UpdateEvent" /\ Overtaken(w)
     /\ reply'.status = 409 /\ regs'[reply'.email] = None =>
          \/ faults' # faults
          \/ \E w \in Workers :
               /\ call[w].pc \in {"CreateRegistration", "CreateRegistrationWithPayment"}
               /\ call[w].email = reply'.email
               /\ Overtaken(w)]_vars

-----------------------------------------------------------------------------
\* What the repository says and the code does not do.

(* OwnExpiryOnly: a hold is cancelled only when its own session has expired.          *)
(* registration/registration.go:334 takes "both of them do not exist" to mean "that   *)
(* they are already deleted": an expiry notification is read as being about the hold  *)
(* found under the email.                                                             *)
OwnExpiryOnly ==
  [][\A e \in Emails : intents[e] # None /\ regs'[e] = None =>
       sessions[intents[e].session].state = "expired"]_vars

(* PaymentHonoured: dynamo/README.md:68, "Whether the registration has been paid":    *)
(* a completed session ends with its email's registration marked paid.                *)
PaymentHonoured ==
  \A s \in Sessions, e \in Emails :
    (sessions[s].state = "complete" /\ sessions[s].email = e)
      ~> (regs[e] # None /\ regs[e].paid)

(* PatchNotFoundOnlyWhenMissing: spec/api.yaml:188 gives 404 to PATCH as "Event not   *)
(* found."                                                                            *)
PatchNotFoundOnlyWhenMissing ==
  reply.to = "PATCH" /\ reply.status = 404 => event = None

(* AlreadyExistsOnlyWhenRegistered: spec/api.yaml:260 and 395 give 409 to a           *)
(* registration as "Someone is already signed up under this email".                   *)
AlreadyExistsOnlyWhenRegistered ==
  reply.status = 409 => regs[reply.email] # None

-----------------------------------------------------------------------------
\* The sheet the table shows.

SheetEntry ==
  [type : RegTypes, players : 1..MaxPlayers, place : {"held", "entered", "paid"}]

ASSUME SheetAssumption == None \notin Config \cup SheetEntry

Entry(e) ==
  [type |-> regs[e].type, players |-> regs[e].players,
   place |-> CASE regs[e].paid -> "paid"
               [] ~regs[e].paid /\ intents[e] # None -> "held"
               [] OTHER -> "entered"]

Sheet == INSTANCE SignUpSheet WITH
  rules <- IF event = None THEN None ELSE event.config,
  sheet <- [e \in Emails |-> IF regs[e] = None THEN None ELSE Entry(e)],
  stats <- IF event = None THEN None
           ELSE [numTeams |-> event.numTeams, numRostered |-> event.numRostered,
                 numTotal |-> event.numTotal]

(* ImplementsSheet: with all their interleaved reads, failed calls and redelivered    *)
(* webhooks, the handlers do to the table only what the sign-up sheet allows.         *)
ImplementsSheet == Sheet!Spec
=============================================================================
