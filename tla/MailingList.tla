------------------------------ MODULE MailingList ------------------------------
(***************************************************************************)
(* The mailing list of an event, beside the handlers of RegistrationFlow.  *)
(* POST /events/v1 creates a MailerLite group, then the event item that    *)
(* names it; whoever rewrites the event item writes back the group of the  *)
(* copy it read; and after a confirmation the players are added to the     *)
(* group.  Each call to MailerLite may fail: the handlers log it and go on.*)
(* An administrator's test makes groups of its own, with any addresses.    *)
(*                                                                         *)
(* The steps are those of RegistrationFlow; this module adds what they do  *)
(* to groups and lists, and splits POST /events/v1 in two.                 *)
(***************************************************************************)
EXTENDS RegistrationInvariant

CONSTANTS
  Groups,    \* the ids MailerLite may give to new groups
  Stranger   \* an address that is on nobody's registration

ASSUME MailAssumption ==
  /\ None \notin Groups
  /\ \A members \in SUBSET (Emails \cup {Stranger}) : members # None

VARIABLES
  creating,  \* POST /events/v1 under way: <<>>, or <<the group it was given>>
  groupOf,   \* the event item's MailingListGroupID, None if it has none
  replicaGroup, \* the MailingListGroupID of the replica's event item
  copy,      \* [Workers -> the MailingListGroupID of the event the handler holds]
  list       \* [Groups -> those on the list, or None before the group exists]

mailVars == <<creating, groupOf, replicaGroup, copy, list>>
allVars  == <<vars, mailVars>>

MailInit ==
  /\ Init
  /\ creating = <<>>
  /\ groupOf = None
  /\ replicaGroup = None
  /\ copy = [w \in Workers |-> None]
  /\ list = [g \in Groups |-> None]

-----------------------------------------------------------------------------
\* MailerLite, as the email package's SubscriberManager offers it.

\* A slip: FindOrCreateGroup is called, and finds the group of an event.
FindOrCreateGroup(g, members) ==
  list' = [list EXCEPT ![g] = IF @ = None THEN members ELSE @ \cup members]

\* Every group gets an id of its own, a second one of the same name too.
CreateGroup(g, members) ==
  /\ list[g] = None
  /\ list' = [list EXCEPT ![g] = members]

-----------------------------------------------------------------------------
\* POST /events/v1.

\* A failed CreateGroup is logged: the event will have no list.
StartPost ==
  /\ event = None /\ creating = <<>>
  /\ \/ \E g \in Groups : CreateGroup(g, {}) /\ creating' = <<g>>
     \/ creating' = <<None>> /\ UNCHANGED list
  /\ UNCHANGED <<vars, groupOf, replicaGroup, copy>>

\* The group is an attribute of the event item: the replica has both or neither.
GroupReplicated ==
  replicaGroup' = IF replica' = replica THEN replicaGroup ELSE groupOf'

CommitPost(config) ==
  /\ creating # <<>>
  /\ PostEventsV1(config)
  /\ groupOf' = creating[1]
  /\ GroupReplicated
  /\ creating' = <<>>
  /\ UNCHANGED <<copy, list>>

\* The event is not written, or the process is stopped first: the group stays.
PostFails ==
  /\ creating # <<>>
  /\ creating' = <<>>
  /\ UNCHANGED <<vars, groupOf, replicaGroup, copy, list>>

-----------------------------------------------------------------------------
\* The group travels with the copies of the event.

\* A slip: the group is taken from the request's event, which has none.
GroupOfBody(group) == None

\* events.UpdateEvent keeps the existing event's group.
PatchedGroup(group) == group

\* The group of the very item the handler has just read, the table's or the replica's:
\* the copy's version is one above that of the item it was made of.
ReadGroup(w) ==
  LET seen == IF call'[w].event.version = event.version + 1 THEN groupOf ELSE replicaGroup IN
  IF call'[w].pc = "UpdateEvent" THEN PatchedGroup(seen) ELSE seen

\* A registrant's copy is needed until the confirmation.
Carried(w) ==
  IF call'[w].event # None /\ call[w].event = None THEN ReadGroup(w)
  ELSE IF call'[w].event # None \/ call'[w].pc = "SendConfirmation" THEN copy[w]
  ELSE None

\* A step of handler w: what it writes to the event carries its copy's group.
WithGroup(w) ==
  /\ copy' = [copy EXCEPT ![w] = Carried(w)]
  /\ groupOf' = IF event' # event THEN copy[w] ELSE groupOf
  /\ GroupReplicated

\* The players are added one by one, and any of these calls may fail.  One person of
\* a registration stands for all of them.
AddToMailingList(group, e) ==
  \/ group # None /\ list' = [list EXCEPT ![group] = @ \cup {e}]
  \/ UNCHANGED list

\* POST register holds the event it registered with; the webhook reads it again, from
\* the table or the replica.
Confirm(w) ==
  LET groups == IF call[w].session = None THEN {copy[w]} ELSE {groupOf, replicaGroup} IN
  /\ SendConfirmation(w)
  /\ \E group \in groups : AddToMailingList(group, call[w].email)
  /\ WithGroup(w)
  /\ UNCHANGED creating

HandlerMoves(w) ==
  /\ \/ Request(w)
     \/ call[w].pc # "SendConfirmation" /\ HandlerStep(w)
     \/ HandlerFails(w)
     \/ \E s \in Sessions : WebhookCompleted(w, s) \/ WebhookExpired(w, s)
  /\ WithGroup(w)
  /\ UNCHANGED <<creating, list>>

-----------------------------------------------------------------------------
\* POST /events/v1/admin/test-mailerlite: a group comes first, then the addresses of
\* the request, unless the request turns out to be no good.
PostEventsV1AdminTestMailerlite ==
  /\ \E g \in Groups, members \in SUBSET {Stranger} : CreateGroup(g, members)
  /\ UNCHANGED <<vars, creating, groupOf, replicaGroup, copy>>

Elsewhere ==
  /\ \/ \E s \in Sessions : PaySession(s) \/ ExpireSession(s)
     \/ ReplicaCatchesUp
  /\ UNCHANGED <<creating, groupOf, copy, list>>
  /\ GroupReplicated

MailNext ==
  \/ StartPost \/ PostFails
  \/ \E config \in Configs : CommitPost(config)
  \/ \E w \in Workers : HandlerMoves(w) \/ Confirm(w)
  \/ PostEventsV1AdminTestMailerlite
  \/ Elsewhere

MailSpec == MailInit /\ [][MailNext]_allVars

-----------------------------------------------------------------------------
(* ListedAreRegistered: whoever is on the list of the event's group has a             *)
(* registration that no expiry can take away any more; neither a registration that    *)
(* was cancelled or never paid nor a test puts anybody there.                         *)
ListedAreRegistered ==
  groupOf # None =>
    \A e \in list[groupOf] : e \in Emails /\ regs[e] # None /\ intents[e] = None

(* GroupKept: an event keeps the group it was created with, through every patch,      *)
(* sign-up and expiry that rewrites its item from a copy.                             *)
GroupKept == [][event # None => groupOf' = groupOf]_allVars
=============================================================================
