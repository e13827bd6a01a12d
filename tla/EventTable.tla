------------------------------ MODULE EventTable ------------------------------
(***************************************************************************)
(* The items one event owns in the DynamoDB table (package dynamo): the    *)
(* event itself, one registration per email and one registration intent   *)
(* per email.  All three kinds share a partition key, and an email is the  *)
(* sort key of the other two, so each kind is a map from emails to items.  *)
(*                                                                         *)
(* A write is a conditional Put or a TransactWriteItems: it applies all of *)
(* its items or none.  For each, the module gives the condition DynamoDB   *)
(* evaluates (...Holds) and the step that applies it.  Reads are GetItem   *)
(* without ConsistentRead: they answer from the table or from `replica`,   *)
(* an earlier state of it.                                                 *)
(***************************************************************************)
EXTENDS Integers, FiniteSets

CONSTANTS
  Emails,      \* the addresses people register with, lowercased by the API
  Sessions,    \* Stripe checkout sessions
  Configs,     \* the event settings an organiser may save
  Times,       \* the moments at which registrations are submitted
  MaxPlayers,  \* the largest team that is ever submitted
  StaleReads,  \* whether a GetItem may miss the latest writes
  None         \* no such item

RegTypes == {"BY_INDIVIDUAL", "BY_TEAM"}

\* What a sign-up asks for: its type and the number of players it brings.
Shape == {s \in [type : RegTypes, players : 1..MaxPlayers] :
            s.type = "BY_INDIVIDUAL" => s.players = 1}

\* What an organiser decides about an event.
Config == [options : SUBSET RegTypes, min : Nat, max : Nat, closeTime : Int]

Event == [config : Config, version : Nat,
          numTeams : Int, numRostered : Int, numTotal : Int]

Registration == [type : RegTypes, players : 1..MaxPlayers, at : Times,
                 paid : BOOLEAN, version : Nat]

RegistrationIntent == [session : Sessions, version : Nat]

ASSUME TableAssumption ==
  /\ IsFiniteSet(Emails)
  /\ Configs \subseteq Config
  /\ Times \subseteq Int
  /\ MaxPlayers \in Nat \ {0}
  /\ StaleReads \in BOOLEAN
  /\ None \notin Event \cup Registration \cup RegistrationIntent \cup Sessions \cup Emails

VARIABLES
  event,    \* the event item, or None
  regs,     \* [Emails -> registration item or None]
  intents,  \* [Emails -> registration intent item or None]
  replica   \* the earlier table an eventually consistent read may answer from

tableVars == <<event, regs, intents, replica>>

TableType ==
  [event   : Event \cup {None},
   regs    : [Emails -> Registration \cup {None}],
   intents : [Emails -> RegistrationIntent \cup {None}]]

Table == [event |-> event, regs |-> regs, intents |-> intents]

NoItems == [e \in Emails |-> None]

TableInit ==
  /\ event = None
  /\ regs = NoItems
  /\ intents = NoItems
  /\ replica = Table

\* With StaleReads a replica lags until Replicate copies the table over it.
Written == replica' = IF StaleReads THEN replica ELSE Table'

Replicate ==
  /\ replica # Table
  /\ replica' = Table
  /\ UNCHANGED <<event, regs, intents>>

-----------------------------------------------------------------------------
\* The version conditions every write carries.

newEntityVersionConditional(item, version) == item = None /\ version = 1

\* The slip the runs must notice: the expected version is not compared.
AnyVersionConditional(item, version) == item # None

\* A slip: the new version is compared where the old one should be.
NewVersionConditional(item, version) == item # None /\ item.version = version

existingEntityVersionConditional(item, version) ==
  item # None /\ item.version = version - 1

deleteEntityVersionConditional(item, version) ==
  item # None /\ item.version = version

-----------------------------------------------------------------------------
\* The reads: what GetItem may answer.

GetEvent == {event, replica.event}

GetRegistration(e) == {regs[e], replica.regs[e]}

GetRegistrationIntent(e) == {intents[e], replica.intents[e]}

-----------------------------------------------------------------------------
\* The writes.

CreateEvent(ev) ==
  /\ newEntityVersionConditional(event, ev.version)
  /\ event' = ev
  /\ UNCHANGED <<regs, intents>>
  /\ Written

UpdateEventHolds(ev) == existingEntityVersionConditional(event, ev.version)

UpdateEvent(ev) ==
  /\ UpdateEventHolds(ev)
  /\ event' = ev
  /\ UNCHANGED <<regs, intents>>
  /\ Written

CreateRegistrationHolds(e, reg, ev) ==
  /\ newEntityVersionConditional(regs[e], reg.version)
  /\ existingEntityVersionConditional(event, ev.version)

CreateRegistration(e, reg, ev) ==
  /\ CreateRegistrationHolds(e, reg, ev)
  /\ regs' = [regs EXCEPT ![e] = reg]
  /\ event' = ev
  /\ UNCHANGED intents
  /\ Written

\* A slip: of the transaction's items only the event carries a condition.
EventConditionHolds(e, reg, intent, ev) ==
  existingEntityVersionConditional(event, ev.version)

CreateRegistrationWithPaymentHolds(e, reg, intent, ev) ==
  /\ newEntityVersionConditional(regs[e], reg.version)
  /\ newEntityVersionConditional(intents[e], intent.version)
  /\ existingEntityVersionConditional(event, ev.version)

CreateRegistrationWithPayment(e, reg, intent, ev) ==
  /\ CreateRegistrationWithPaymentHolds(e, reg, intent, ev)
  /\ regs' = [regs EXCEPT ![e] = reg]
  /\ intents' = [intents EXCEPT ![e] = intent]
  /\ event' = ev
  /\ Written

UpdateRegistrationToPaidHolds(e, reg) ==
  existingEntityVersionConditional(regs[e], reg.version)

\* A slip: the paid registration's intent is left behind.
PaidKeepsIntent(e, reg) ==
  /\ UpdateRegistrationToPaidHolds(e, reg)
  /\ regs' = [regs EXCEPT ![e] = reg]
  /\ UNCHANGED <<event, intents>>
  /\ Written

\* The intent's Delete carries no condition: it succeeds without an intent too.
UpdateRegistrationToPaid(e, reg) ==
  /\ UpdateRegistrationToPaidHolds(e, reg)
  /\ regs' = [regs EXCEPT ![e] = reg]
  /\ intents' = [intents EXCEPT ![e] = None]
  /\ UNCHANGED event
  /\ Written

DeleteExpiredRegistrationHolds(e, reg, intent, ev) ==
  /\ deleteEntityVersionConditional(regs[e], reg.version)
  /\ deleteEntityVersionConditional(intents[e], intent.version)
  /\ existingEntityVersionConditional(event, ev.version)

\* A slip: the transaction deletes the registration and forgets the intent.
ExpiryKeepsIntent(e, reg, intent, ev) ==
  /\ DeleteExpiredRegistrationHolds(e, reg, intent, ev)
  /\ regs' = [regs EXCEPT ![e] = None]
  /\ event' = ev
  /\ UNCHANGED intents
  /\ Written

DeleteExpiredRegistration(e, reg, intent, ev) ==
  /\ DeleteExpiredRegistrationHolds(e, reg, intent, ev)
  /\ regs' = [regs EXCEPT ![e] = None]
  /\ intents' = [intents EXCEPT ![e] = None]
  /\ event' = ev
  /\ Written

\* A cancelled transaction gives a code for each of its items; an item whose
\* condition held gets the string "None".  The create operations ask only whether
\* the first code, the registration's, is not the nil pointer.
ReasonCode(conditionHolds) ==
  IF conditionHolds THEN "None" ELSE "ConditionalCheckFailed"

ReportsAlreadyExists(e, reg) ==
  ReasonCode(newEntityVersionConditional(regs[e], reg.version)) # "nil"

=============================================================================
