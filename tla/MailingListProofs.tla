--------------------------- MODULE MailingListProofs ---------------------------
(***************************************************************************)
(* The mailing list of an event, for any number of groups and handlers:    *)
(* its steps are those of RegistrationFlow, so the invariants proved there *)
(* hold here too; and every copy of the event that may still be written    *)
(* carries the event's own group (CopiesOfGroup), because the items a read *)
(* may answer with, the table's and the replica's, do (ReplicaOfGroup).    *)
(***************************************************************************)
EXTENDS MailingList, RegistrationEventProofs

\* Whose list a handler's copy may still be written to, or mailed with.
CarriesGroup(c) ==
  \/ c.pc \in HoldsEvent
  \/ c.pc = "SendConfirmation" /\ c.session = None

MailTypes ==
  /\ creating = <<>> \/ \E g \in Groups \cup {None} : creating = <<g>>
  /\ groupOf \in Groups \cup {None}
  /\ copy \in [Workers -> Groups \cup {None}]
  /\ list \in [Groups -> (SUBSET (Emails \cup {Stranger})) \cup {None}]

\* A group that waits for its event is empty.
NoEventYet ==
  /\ event = None => groupOf = None
  /\ creating # <<>> => event = None
  /\ \A g \in Groups : creating = <<g>> => list[g] = {}

\* The replica has no event yet, or an item with the event's group.
ReplicaOfGroup ==
  replicaGroup = IF replica.event = None THEN None ELSE groupOf

CopiesOfGroup ==
  \A w \in Workers :
    /\ CarriesGroup(call[w]) => event # None /\ copy[w] = groupOf
    /\ call[w].pc \in {"GetRegistrationIntent", "GetEvent"} => call[w].event = None

ListKept == groupOf # None => list[groupOf] # None

MailInv ==
  /\ EventInv
  /\ MailTypes
  /\ NoEventYet
  /\ ReplicaOfGroup
  /\ CopiesOfGroup
  /\ ListKept
  /\ ListedAreRegistered

-----------------------------------------------------------------------------
\* The steps are those of the handlers.

LEMMA HandlerIsOwn ==
  ASSUME NEW w \in Workers, HandlerMoves(w) \/ Confirm(w)
  PROVE  Next /\ OwnStep(w) /\ WithGroup(w) /\ UNCHANGED creating
<1>1. ASSUME Request(w) PROVE Next /\ OwnStep(w)
  BY <1>1 DEF Request, Next, OwnStep, PostEventsV1EventIdRegister,
              PostEventsV1EventIdRegistrations
<1>2. ASSUME HandlerStep(w) \/ HandlerFails(w) PROVE Next /\ OwnStep(w)
  BY <1>2 DEF Next, OwnStep
<1>3. ASSUME NEW s \in Sessions, WebhookCompleted(w, s) \/ WebhookExpired(w, s)
      PROVE  Next /\ OwnStep(w)
  BY <1>3 DEF Next, OwnStep, Deliver
<1>4. SendConfirmation(w) => HandlerStep(w)
  BY DEF HandlerStep
<1>5. QED
  BY <1>1, <1>2, <1>3, <1>4 DEF HandlerMoves, Confirm

LEMMA MailStepIsStep == [MailNext]_allVars => [Next]_vars
<1>1. UNCHANGED allVars => UNCHANGED vars
  BY DEF allVars
<1>2. StartPost \/ PostFails \/ PostEventsV1AdminTestMailerlite => UNCHANGED vars
  BY DEF StartPost, PostFails, PostEventsV1AdminTestMailerlite
<1>3. (\E config \in Configs : CommitPost(config)) \/ Elsewhere => Next
  BY DEF CommitPost, Elsewhere, Next
<1>4. \A w \in Workers : HandlerMoves(w) \/ Confirm(w) => Next
  BY HandlerIsOwn
<1>5. QED
  BY <1>1, <1>2, <1>3, <1>4 DEF MailNext

-----------------------------------------------------------------------------
\* The group in the handlers' copies.

LEMMA OwnWrites ==
  ASSUME TypeInv, NEW w \in Workers, OwnStep(w)
  PROVE  event' = event \/ Writes(w)
<1>1. UNCHANGED tableVars => event' = event
  BY DEF tableVars
<1>2. CASE CommitPatch(w) \/ CommitRegistration(w) \/ CommitHold(w) \/ CommitRelease(w)
  BY <1>1, <1>2, CommitsWrite
<1>3. CASE CommitPaid(w)
  BY <1>1, <1>3, PaidKeepsEmails
<1>4. CASE CreateCheckout(w) \/ SendConfirmation(w) \/ ReadIntent(w) \/ ReadEvent(w)
             \/ HandlerFails(w)
  BY <1>1, <1>4 DEF CreateCheckout, SendConfirmation, ReadIntent, ReadEvent, HandlerFails
<1>5. CASE \E s \in Sessions : WebhookCompleted(w, s) \/ WebhookExpired(w, s)
  BY <1>1, <1>5 DEF WebhookCompleted, WebhookExpired
<1>6. CASE \E config \in Configs : PatchEventsV1Id(w, config)
  BY <1>1, <1>6 DEF PatchEventsV1Id
<1>7. CASE \E to \in {"register", "registrations"}, e \in Emails, at \in Times,
              nextPc \in {"CreateRegistration", "CreateCheckout"} :
             \E shape \in ShapesOf[e] : StartRegistration(w, to, e, shape, at, nextPc)
  BY <1>1, <1>7 DEF StartRegistration
<1>8. QED
  BY <1>2, <1>3, <1>4, <1>5, <1>6, <1>7 DEF OwnStep, HandlerStep

LEMMA GroupStays ==
  ASSUME MailInv, NEW w \in Workers, OwnStep(w), WithGroup(w)
  PROVE  groupOf' = groupOf /\ (event' = None <=> event = None)
<1>1. TypeInv
  BY DEF MailInv, EventInv, SettleInv
<1>2. CASE event' = event
  BY <1>2 DEF WithGroup
<1>3. CASE Writes(w)
  <2>1. CarriesGroup(call[w]) /\ event # None /\ event' # None
    BY <1>3, NoneIsNoItem DEF Writes, CarriesGroup, HoldsEvent, Creating
  <2>2. copy[w] = groupOf
    BY <2>1 DEF MailInv, CopiesOfGroup
  <2>3. QED
    BY <2>1, <2>2 DEF WithGroup
<1>4. QED
  BY <1>1, <1>2, <1>3, OwnWrites

LEMMA ReadNothingYet ==
  ASSUME MailInv, NEW w \in Workers, OwnStep(w),
         call'[w].pc \in {"GetRegistrationIntent", "GetEvent"}
  PROVE  call'[w].event = None
<1>1. TypeInv /\ call[w] \in Call
  BY TypeInvParts DEF MailInv, EventInv, SettleInv
<1>2. CASE call'[w].pc = "GetRegistrationIntent"
  <2>1. PICK s \in Sessions : WebhookExpired(w, s)
    BY <1>1, <1>2, NextPc DEF OwnStep, HandlerStep, Idle
  <2>2. PICK seen :
          Goto(w, [Idle EXCEPT !.pc = "GetRegistrationIntent", !.email = sessions[s].email,
                               !.session = s, !.reg = seen])
    BY <2>1 DEF WebhookExpired
  <2>3. QED
    BY <1>1, <2>2, GotoIsNext DEF Idle
<1>3. CASE call'[w].pc = "GetEvent"
  <2>1. ReadIntent(w)
    BY <1>1, <1>3, NextPc DEF OwnStep, HandlerStep, Idle
  <2>2. PICK seen : Goto(w, [call[w] EXCEPT !.pc = "GetEvent", !.intent = seen])
    BY <1>1, <1>3, <2>1, ReturnIsIdle DEF ReadIntent
  <2>3. call[w].event = None
    BY <2>1 DEF ReadIntent, MailInv, CopiesOfGroup
  <2>4. QED
    BY <1>1, <2>2, <2>3, GotoIsNext DEF Call
<1>4. QED
  BY <1>2, <1>3

\* Whichever item a read answers with, the table's or the replica's, has the same group.
LEMMA ReadGroupIsGroup ==
  ASSUME MailInv, NEW w \in Workers, NEW seen \in GetEvent, seen # None,
         call'[w].event.version = seen.version + 1
  PROVE  event # None /\ ReadGroup(w) = groupOf
<1>1. event # None
  BY SeenIsBehind, NoneIsNoItem DEF MailInv, EventInv, SettleInv
<1>2. CASE seen = event
  BY <1>1, <1>2 DEF ReadGroup, PatchedGroup, MailInv, ReplicaOfGroup
<1>3. CASE seen = replica.event
  BY <1>1, <1>3 DEF ReadGroup, PatchedGroup, MailInv, ReplicaOfGroup
<1>4. QED
  BY <1>2, <1>3, <1>1 DEF GetEvent

LEMMA CarriedIsGroup ==
  ASSUME MailInv, NEW w \in Workers, Next, OwnStep(w), CarriesGroup(call'[w])
  PROVE  event' # None /\ Carried(w) = groupOf
<1> DEFINE c == call'[w]
<1>1. TypeInv /\ ReplicaBehind /\ CopiesPresent(call[w]) /\ CopiesPresent(c)
  <2>1. TypeInv /\ ReplicaBehind
    BY DEF MailInv, EventInv, SettleInv
  <2>2. TypeInv'
    BY <2>1, TypeInvStep
  <2>3. QED
    BY <2>1, <2>2 DEF TypeInv, PlainTypes, CallOK
<1>2. \A seen \in GetEvent : seen # None => event # None /\ seen \in Event
  BY <1>1, SeenIsBehind, NoneIsNoItem
<1>3. c.pc \in HoldsEvent => c.event # None
  BY <1>1, NoneIsNoItem DEF CopiesPresent
<1>4. CASE c.pc = "UpdateEvent"
  <2>1. event' # None /\ ReadGroup(w) = groupOf
    <3>1. PICK config \in Configs, seen \in GetEvent :
            seen # None /\ c.event = PatchedEvent(seen, config)
      BY <1>1, <1>4, ReachesUpdateEvent
    <3>2. c.event.version = seen.version + 1
      BY <1>2, <3>1, PatchedEventType, ConstantTypes DEF EventItem
    <3>3. event' = event
      BY <1>1, <1>4, ReachesUpdateEvent DEF tableVars
    <3>4. QED
      BY <3>1, <3>2, <3>3, ReadGroupIsGroup
  <2>2. \E config \in Configs : PatchEventsV1Id(w, config)
    BY <1>1, <1>4, NextPc DEF OwnStep, HandlerStep, Idle
  <2>3. call[w].event = None
    BY <2>2 DEF PatchEventsV1Id, Idle
  <2>4. QED
    BY <1>3, <1>4, <2>1, <2>3 DEF HoldsEvent, Carried
<1>5. CASE c.pc \in {"CreateRegistration", "CreateCheckout"}
  <2>1. event' # None /\ ReadGroup(w) = groupOf
    <3>1. PICK e \in Emails, at \in Times, seen \in GetEvent : \E shape \in ShapesOf[e] :
            LET reg == NewRegistration(shape, at) IN
            seen # None /\ c.event = WithRegistration(seen, reg)
      BY <1>1, <1>5, ReachesCreate
    <3>2. seen # None /\ \E reg \in Registration : c.event = WithRegistration(seen, reg)
      BY <3>1, NewRegistrationType
    <3>3. c.event.version = seen.version + 1
      BY <1>2, <3>2, WithRegistrationType DEF EventItem
    <3>4. event' = event
      BY <1>1, <1>5, ReachesCreate DEF tableVars
    <3>5. QED
      BY <3>2, <3>3, <3>4, ReadGroupIsGroup
  <2>2. \E to \in {"register", "registrations"}, e \in Emails, at \in Times,
           nextPc \in {"CreateRegistration", "CreateCheckout"} :
          \E shape \in ShapesOf[e] : StartRegistration(w, to, e, shape, at, nextPc)
    BY <1>1, <1>5, NextPc DEF OwnStep, HandlerStep, Idle
  <2>3. call[w].event = None
    BY <2>2 DEF StartRegistration, Idle
  <2>4. QED
    BY <1>3, <1>5, <2>1, <2>3 DEF HoldsEvent, Creating, Carried
<1>6. CASE c.pc = "CreateRegistrationWithPayment"
  <2>1. event' = event /\ call[w].pc = "CreateCheckout" /\ c.event = call[w].event
    BY <1>1, <1>6, ReachesHold DEF tableVars
  <2>2. event # None /\ copy[w] = groupOf
    BY <2>1 DEF MailInv, CopiesOfGroup, CarriesGroup, HoldsEvent, Creating
  <2>3. QED
    BY <1>3, <1>6, <2>1, <2>2 DEF HoldsEvent, Creating, Carried
<1>7. CASE c.pc = "DeleteExpiredRegistration"
  <2>1. event' # None /\ call[w].pc = "GetEvent" /\ ReadGroup(w) = groupOf
    <3>1. PICK seen \in GetEvent :
            seen # None /\ c.event = WithoutRegistration(seen, call[w].reg)
      BY <1>1, <1>7, ReachesRelease
    <3>2. call[w].reg \in Registration
      BY <1>1, <1>7, ReachesRelease DEF CopiesPresent, HoldsReg
    <3>3. c.event.version = seen.version + 1
      BY <1>2, <3>1, <3>2, WithoutRegistrationType DEF EventItem
    <3>4. event' = event /\ call[w].pc = "GetEvent"
      BY <1>1, <1>7, ReachesRelease DEF tableVars
    <3>5. QED
      BY <3>1, <3>3, <3>4, ReadGroupIsGroup
  <2>2. call[w].event = None
    BY <2>1 DEF MailInv, CopiesOfGroup
  <2>3. QED
    BY <1>3, <1>7, <2>1, <2>2 DEF HoldsEvent, Carried
<1>8. CASE c.pc = "SendConfirmation" /\ c.session = None
  <2>1. ~(call[w].pc = "UpdateRegistrationToPaid" /\ c.session = call[w].session)
    BY <1>1, <1>8, NoneIsNoItem DEF CopiesPresent, HoldsSession
  <2>2. /\ call[w].pc = "CreateRegistration"
        /\ CreateRegistration(call[w].email, call[w].reg, call[w].event)
    BY <1>1, <1>8, <2>1, ReachesConfirmation
  <2>3. call[w].event # None /\ event' = call[w].event
    BY <1>1, <2>2, NoneIsNoItem DEF CopiesPresent, HoldsEvent, Creating, CreateRegistration
  <2>4. copy[w] = groupOf
    BY <2>2 DEF MailInv, CopiesOfGroup, CarriesGroup, HoldsEvent, Creating
  <2>5. QED
    BY <1>8, <2>3, <2>4 DEF Carried
<1>9. QED
  BY <1>4, <1>5, <1>6, <1>7, <1>8 DEF CarriesGroup, HoldsEvent, Creating

-----------------------------------------------------------------------------
\* The invariant is inductive.

LEMMA MailInvInit == MailInit => MailInv
<1> SUFFICES ASSUME MailInit PROVE MailInv
  OBVIOUS
<1>1. EventInv /\ \A w \in Workers : call[w] = Idle
  BY EventInvInit DEF MailInit, Init
<1>2. MailTypes
  <2>1. creating = <<>> /\ groupOf = None
    BY DEF MailInit
  <2>2. copy \in [Workers -> Groups \cup {None}]
    BY DEF MailInit
  <2>3. list \in [Groups -> (SUBSET (Emails \cup {Stranger})) \cup {None}]
    BY DEF MailInit
  <2>4. QED
    BY <2>1, <2>2, <2>3 DEF MailTypes
<1>3. NoEventYet /\ ListKept /\ ListedAreRegistered /\ ReplicaOfGroup
  BY DEF MailInit, NoEventYet, ListKept, ListedAreRegistered, ReplicaOfGroup
<1>4. CopiesOfGroup
  BY <1>1 DEF CopiesOfGroup, CarriesGroup, Idle, HoldsEvent, Creating
<1>5. QED
  BY <1>1, <1>2, <1>3, <1>4 DEF MailInv

LEMMA SettledStay ==
  ASSUME MailInv, [Next]_vars
  PROVE  \A e \in Emails : Settled(e) => Settled(e)'
<1>1. CASE Next
  BY <1>1, SettledStays DEF MailInv, EventInv, SettleInv, Settled
<1>2. CASE UNCHANGED vars
  BY <1>2 DEF vars, Settled
<1>3. QED
  BY <1>1, <1>2

\* A handler's step adds to the list of the event's group, if to any, somebody settled.
LEMMA ListMoves ==
  ASSUME MailInv, NEW w \in Workers, HandlerMoves(w) \/ Confirm(w)
  PROVE  \/ list' = list
         \/ /\ groupOf \in Groups /\ event # None
            /\ \E e \in Emails :
                 Settled(e) /\ list' = [list EXCEPT ![groupOf] = @ \cup {e}]
<1>1. CASE HandlerMoves(w)
  BY <1>1 DEF HandlerMoves
<1>2. CASE Confirm(w)
  <2> DEFINE c == call[w]
  <2>1. /\ c.pc = "SendConfirmation"
        /\ \E group \in IF c.session = None THEN {copy[w]} ELSE {groupOf, replicaGroup} :
             AddToMailingList(group, c.email)
    BY <1>2 DEF Confirm, SendConfirmation
  <2>2. c.email \in Emails /\ Settled(c.email)
    BY <2>1, TypeInvParts
       DEF MailInv, EventInv, SettleInv, CallConfirms, CallOK, CopiesPresent, HoldsEmail, PCs
  <2>3. c.session = None => copy[w] = groupOf
    BY <2>1 DEF MailInv, CopiesOfGroup, CarriesGroup
  <2>4. AddToMailingList(groupOf, c.email) \/ AddToMailingList(None, c.email)
    BY <2>1, <2>3 DEF MailInv, ReplicaOfGroup
  <2>5. groupOf # None => groupOf \in Groups /\ event # None
    BY DEF MailInv, MailTypes, NoEventYet
  <2>6. QED
    BY <2>2, <2>4, <2>5 DEF AddToMailingList
<1>3. QED
  BY <1>1, <1>2

LEMMA HandlerKeeps ==
  ASSUME MailInv, NEW w \in Workers, HandlerMoves(w) \/ Confirm(w)
  PROVE  /\ groupOf' = groupOf
         /\ MailTypes' /\ NoEventYet' /\ CopiesOfGroup' /\ ListKept' /\ ListedAreRegistered'
<1>1. /\ Next /\ OwnStep(w) /\ WithGroup(w) /\ UNCHANGED creating
      /\ TypeInv /\ MailTypes /\ NoEventYet /\ CopiesOfGroup
  BY HandlerIsOwn DEF MailInv, EventInv, SettleInv
<1>2. groupOf' = groupOf /\ (event' = None <=> event = None)
  BY <1>1, GroupStays
<1>3. copy' = [copy EXCEPT ![w] = Carried(w)] /\ copy \in [Workers -> Groups \cup {None}]
  BY <1>1 DEF WithGroup, MailTypes
<1>4. list' \in [Groups -> (SUBSET (Emails \cup {Stranger})) \cup {None}]
  <2>1. ASSUME groupOf \in Groups, NEW e \in Emails,
               list' = [list EXCEPT ![groupOf] = @ \cup {e}]
        PROVE  list' \in [Groups -> (SUBSET (Emails \cup {Stranger})) \cup {None}]
    <3>1. list[groupOf] \in SUBSET (Emails \cup {Stranger})
      BY <1>1, <2>1, MailAssumption DEF MailAssumption, MailInv, MailTypes, ListKept
    <3>2. QED
      BY <1>1, <2>1, <3>1 DEF MailTypes
  <2>2. QED
    BY <1>1, <2>1, ListMoves DEF MailTypes
<1>5. MailTypes'
  <2>1. copy' \in [Workers -> Groups \cup {None}]
    <3>1. Carried(w) \in Groups \cup {None}
      BY <1>1, <1>3 DEF Carried, ReadGroup, PatchedGroup, MailTypes, MailInv, ReplicaOfGroup
    <3>2. QED
      BY <1>3, <3>1
  <2>2. QED
    BY <1>1, <1>2, <1>4, <2>1 DEF MailTypes
<1>6. NoEventYet'
  <2>1. event = None => list' = list
    BY ListMoves
  <2>2. creating' = creating
    BY <1>1
  <2>3. (event' = None => groupOf' = None) /\ (creating' # <<>> => event' = None)
    BY <1>1, <1>2, <2>2 DEF NoEventYet
  <2>4. ASSUME NEW g \in Groups, creating = <<g>> PROVE list'[g] = {}
    <3>1. creating # <<>>
      BY <2>4
    <3>2. event = None /\ list[g] = {}
      BY <1>1, <2>4, <3>1 DEF NoEventYet
    <3>3. QED
      BY <2>1, <3>2
  <2>5. QED
    BY <2>2, <2>3, <2>4 DEF NoEventYet
<1>7. CopiesOfGroup'
  <2>1. SUFFICES ASSUME NEW v \in Workers
                 PROVE  /\ CarriesGroup(call'[v]) => event' # None /\ copy'[v] = groupOf'
                        /\ call'[v].pc \in {"GetRegistrationIntent", "GetEvent"}
                             => call'[v].event = None
    BY DEF CopiesOfGroup, CarriesGroup
  <2>2. CASE v = w
    BY <1>1, <1>2, <1>3, <2>2, CarriedIsGroup, ReadNothingYet
  <2>3. CASE v # w
    <3>1. call'[v] = call[v] /\ copy'[v] = copy[v]
      BY <1>1, <1>3, <2>3, OnlyOwn
    <3>2. QED
      BY <1>1, <1>2, <3>1 DEF CopiesOfGroup
  <2>4. QED
    BY <2>2, <2>3
<1>8. ListKept' /\ ListedAreRegistered'
  <2>1. SUFFICES ASSUME groupOf # None
                 PROVE  /\ list'[groupOf] # None
                        /\ \A e \in list'[groupOf] : e \in Emails /\ Settled(e)'
    BY <1>2 DEF ListKept, ListedAreRegistered, Settled
  <2>2. /\ groupOf \in Groups
        /\ list[groupOf] \in SUBSET (Emails \cup {Stranger})
        /\ \A e \in list[groupOf] : e \in Emails /\ Settled(e)
    BY <1>1, <2>1 DEF MailInv, MailTypes, ListKept, ListedAreRegistered, Settled
  <2>3. \/ list'[groupOf] = list[groupOf]
        \/ \E e \in Emails : Settled(e) /\ list'[groupOf] = list[groupOf] \cup {e}
    BY <1>1, <2>2, ListMoves DEF MailTypes
  <2>4. \A e \in list'[groupOf] : e \in Emails /\ Settled(e)
    BY <2>2, <2>3
  <2>5. \A e \in Emails : Settled(e) => Settled(e)'
    BY <1>1, SettledStay
  <2>6. list'[groupOf] \in SUBSET (Emails \cup {Stranger})
    BY <2>2, <2>3
  <2>7. list'[groupOf] # None
    BY <2>6, MailAssumption DEF MailAssumption
  <2>8. QED
    BY <2>4, <2>5, <2>7
<1>9. QED
  BY <1>2, <1>5, <1>6, <1>7, <1>8

\* A new group is nobody's yet.
LEMMA CreateGroupKeeps ==
  ASSUME MailInv, NEW g \in Groups, NEW members \in SUBSET {Stranger}, CreateGroup(g, members)
  PROVE  /\ list' \in [Groups -> (SUBSET (Emails \cup {Stranger})) \cup {None}]
         /\ list'[g] = members
         /\ \A h \in Groups : h # g => list'[h] = list[h]
         /\ groupOf # g
         /\ creating # <<g>>
<1>1. list[g] = None /\ list' = [list EXCEPT ![g] = members]
  BY DEF CreateGroup
<1>2. list \in [Groups -> (SUBSET (Emails \cup {Stranger})) \cup {None}]
  BY DEF MailInv, MailTypes
<1>3. groupOf # g
  BY <1>1, MailAssumption DEF MailAssumption, MailInv, ListKept
<1>4. creating # <<g>>
  <2>1. {} # None
    BY MailAssumption DEF MailAssumption
  <2>2. QED
    BY <1>1, <2>1 DEF MailInv, NoEventYet
<1>5. QED
  BY <1>1, <1>2, <1>3, <1>4

LEMMA OrganiserKeeps ==
  ASSUME MailInv,
         \/ StartPost \/ PostFails \/ PostEventsV1AdminTestMailerlite
         \/ \E config \in Configs : CommitPost(config)
  PROVE  /\ event # None => groupOf' = groupOf
         /\ MailTypes' /\ NoEventYet' /\ CopiesOfGroup' /\ ListKept' /\ ListedAreRegistered'
<1>0. MailTypes /\ NoEventYet /\ CopiesOfGroup /\ ListKept /\ ListedAreRegistered
  BY DEF MailInv
<1>1. CASE StartPost
  <2>1. UNCHANGED <<event, regs, intents, call, groupOf, copy>> /\ event = None
    BY <1>1 DEF StartPost, vars
  <2>2. CASE creating' = <<None>> /\ UNCHANGED list
    BY <1>0, <2>1, <2>2, MailAssumption
       DEF MailAssumption, MailTypes, NoEventYet, CopiesOfGroup, ListKept, ListedAreRegistered
  <2>3. CASE \E g \in Groups : CreateGroup(g, {}) /\ creating' = <<g>>
    <3>1. PICK g \in Groups : CreateGroup(g, {}) /\ creating' = <<g>>
      BY <2>3
    <3>2. /\ list' \in [Groups -> (SUBSET (Emails \cup {Stranger})) \cup {None}]
          /\ list'[g] = {} /\ groupOf = None
      BY <1>0, <2>1, <3>1, CreateGroupKeeps DEF NoEventYet
    <3>3. QED
      BY <1>0, <2>1, <3>1, <3>2
         DEF MailTypes, NoEventYet, CopiesOfGroup, ListKept, ListedAreRegistered
  <2>4. QED
    BY <1>1, <2>2, <2>3 DEF StartPost
<1>2. CASE PostFails
  <2>1. UNCHANGED <<event, regs, intents, call, groupOf, copy, list>> /\ creating' = <<>>
    BY <1>2 DEF PostFails, vars
  <2>2. QED
    BY <1>0, <2>1 DEF MailTypes, NoEventYet, CopiesOfGroup, ListKept, ListedAreRegistered
<1>3. CASE PostEventsV1AdminTestMailerlite
  <2>1. UNCHANGED <<event, regs, intents, call, groupOf, copy, creating>>
    BY <1>3 DEF PostEventsV1AdminTestMailerlite, vars
  <2>2. PICK g \in Groups, members \in SUBSET {Stranger} : CreateGroup(g, members)
    BY <1>3 DEF PostEventsV1AdminTestMailerlite
  <2>3. /\ list' \in [Groups -> (SUBSET (Emails \cup {Stranger})) \cup {None}]
        /\ \A h \in Groups : h # g => list'[h] = list[h]
        /\ groupOf # g /\ creating # <<g>>
    BY <2>2, CreateGroupKeeps
  <2>4. MailTypes' /\ NoEventYet' /\ CopiesOfGroup'
    BY <1>0, <2>1, <2>3 DEF MailTypes, NoEventYet, CopiesOfGroup
  <2>5. ListKept' /\ ListedAreRegistered'
    BY <1>0, <2>1, <2>3 DEF MailTypes, ListKept, ListedAreRegistered
  <2>6. QED
    BY <2>1, <2>4, <2>5
<1>4. ASSUME NEW config \in Configs, CommitPost(config)
      PROVE  /\ event # None => groupOf' = groupOf
             /\ MailTypes' /\ NoEventYet' /\ CopiesOfGroup' /\ ListKept'
             /\ ListedAreRegistered'
  <2>1. /\ event = None /\ event' # None /\ creating # <<>>
        /\ groupOf' = creating[1] /\ creating' = <<>>
        /\ UNCHANGED <<regs, intents, call, copy, list>>
    BY <1>4, NewEventType, NoneIsNoItem
       DEF CommitPost, PostEventsV1, CreateEvent, newEntityVersionConditional
  <2>2. PICK g \in Groups \cup {None} : creating = <<g>>
    BY <1>0, <2>1 DEF MailTypes
  <2>3. groupOf' = g /\ (g # None => list'[g] = {})
    BY <1>0, <2>1, <2>2 DEF NoEventYet
  <2>4. MailTypes' /\ NoEventYet'
    BY <1>0, <2>1, <2>2, <2>3 DEF MailTypes, NoEventYet
  <2>5. CopiesOfGroup'
    BY <1>0, <2>1 DEF CopiesOfGroup
  <2>6. {} # None
    BY MailAssumption DEF MailAssumption
  <2>7. ListKept' /\ ListedAreRegistered'
    BY <2>3, <2>6 DEF ListKept, ListedAreRegistered
  <2>8. QED
    BY <2>1, <2>4, <2>5, <2>7
<1>5. QED
  BY <1>1, <1>2, <1>3, <1>4

LEMMA ElsewhereKeeps ==
  ASSUME MailInv, Elsewhere \/ UNCHANGED allVars
  PROVE  /\ groupOf' = groupOf
         /\ MailTypes' /\ NoEventYet' /\ CopiesOfGroup' /\ ListKept' /\ ListedAreRegistered'
<1>1. UNCHANGED <<event, regs, intents, call, creating, groupOf, copy, list>>
  <2>1. CASE UNCHANGED allVars
    BY <2>1 DEF allVars, vars, mailVars
  <2>2. CASE Elsewhere
    BY <2>2 DEF Elsewhere, PaySession, ExpireSession, ReplicaCatchesUp, Replicate,
                tableVars, mailVars
  <2>3. QED
    BY <2>1, <2>2
<1>2. QED
  BY <1>1 DEF MailInv, MailTypes, NoEventYet, CopiesOfGroup, ListKept, ListedAreRegistered

\* The replica gets the group together with the item.
LEMMA ReplicaKeeps ==
  ASSUME MailInv, [MailNext]_allVars, NoEventYet', event # None => groupOf' = groupOf
  PROVE  ReplicaOfGroup'
<1>1. /\ ReplicaOfGroup
      /\ replica.event # None => event # None
      /\ event' = None => groupOf' = None
  BY DEF MailInv, EventInv, ReplicaBehind, NoEventYet
<1>2. CASE UNCHANGED <<replica, event, groupOf, replicaGroup>>
  BY <1>1, <1>2 DEF ReplicaOfGroup
<1>3. CASE Next /\ GroupReplicated
  <2>1. CASE replica' = replica
    BY <1>1, <1>3, <2>1 DEF ReplicaOfGroup, GroupReplicated
  <2>2. CASE replica' # replica
    <3>1. replica'.event = event'
      BY <1>3, <2>2, ReplicaMoves DEF Table
    <3>2. QED
      BY <1>1, <1>3, <2>2, <3>1 DEF ReplicaOfGroup, GroupReplicated
  <2>3. QED
    BY <2>1, <2>2
<1>4. UNCHANGED allVars => UNCHANGED <<replica, event, groupOf, replicaGroup>>
  BY DEF allVars, vars, mailVars
<1>5. StartPost \/ PostFails \/ PostEventsV1AdminTestMailerlite
        => UNCHANGED <<replica, event, groupOf, replicaGroup>>
  BY DEF StartPost, PostFails, PostEventsV1AdminTestMailerlite, vars
<1>6. (\E config \in Configs : CommitPost(config)) \/ Elsewhere => Next /\ GroupReplicated
  BY DEF CommitPost, Elsewhere, Next
<1>7. \A w \in Workers : HandlerMoves(w) \/ Confirm(w) => Next /\ GroupReplicated
  BY HandlerIsOwn DEF WithGroup
<1>8. QED
  BY <1>2, <1>3, <1>4, <1>5, <1>6, <1>7 DEF MailNext

LEMMA MailInvStep ==
  ASSUME MailInv, [MailNext]_allVars
  PROVE  MailInv' /\ (event # None => groupOf' = groupOf)
<1>1. EventInv'
  BY MailStepIsStep, EventInvStep DEF MailInv
<1>2. /\ event # None => groupOf' = groupOf
      /\ MailTypes' /\ NoEventYet' /\ CopiesOfGroup' /\ ListKept' /\ ListedAreRegistered'
  BY HandlerKeeps, OrganiserKeeps, ElsewhereKeeps DEF MailNext
<1>3. ReplicaOfGroup'
  BY <1>2, ReplicaKeeps
<1>4. QED
  BY <1>1, <1>2, <1>3 DEF MailInv

LEMMA MailInvAlways == MailSpec => []MailInv
<1>1. MailInv /\ [MailNext]_allVars => MailInv'
  BY MailInvStep
<1>2. QED
  BY <1>1, MailInvInit, PTL DEF MailSpec

-----------------------------------------------------------------------------
\* The theorems.

(* MailingChangesNothing: groups and lists are kept beside the handlers and never     *)
(* stand in their way nor move them, so what is proved of Spec holds of MailSpec.     *)
THEOREM MailingChangesNothing == MailSpec => Spec
<1>1. MailInit => Init
  BY DEF MailInit
<1>2. QED
  BY <1>1, MailStepIsStep, PTL DEF MailSpec, Spec

(* OnlyTheSettledAreListed: whoever is on the list of the event's group has a         *)
(* registration that no expiry can take away (ListedAreRegistered).                   *)
THEOREM OnlyTheSettledAreListed == MailSpec => []ListedAreRegistered
<1>1. MailInv => ListedAreRegistered
  BY DEF MailInv
<1>2. QED
  BY <1>1, MailInvAlways, PTL

(* OneGroupForEver: no patch, sign-up or expiry that rewrites the event item with the *)
(* group of the copy it read, the table's or the replica's, changes the group the     *)
(* event was created with (GroupKept).                                                *)
THEOREM OneGroupForEver == MailSpec => GroupKept
<1>1. MailInv /\ [MailNext]_allVars => [event # None => groupOf' = groupOf]_allVars
  BY MailInvStep
<1>2. QED
  BY <1>1, MailInvAlways, PTL DEF MailSpec, GroupKept
=============================================================================
