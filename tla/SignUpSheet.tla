------------------------------ MODULE SignUpSheet ------------------------------
(***************************************************************************)
(* What the registration service promises the organiser of one event: a    *)
(* sheet with at most one entry per email, each admitted under the rules   *)
(* in force when it was written, and totals that always add up.  An entry  *)
(* is held while its payment is awaited, entered by the registration that  *)
(* asks for no payment, or paid.  A held entry may be released; an entered *)
(* or paid one stays.  There are no handlers, versions, sessions or copies *)
(* here: every step is one indivisible change of the sheet.                *)
(***************************************************************************)
EXTENDS Integers, FiniteSets

CONSTANTS Emails, Configs, Times, ShapesOf, MaxPlayers, None

VARIABLES
  rules,  \* the event's settings, None before the event is created
  sheet,  \* [Emails -> entry or None]
  stats   \* the totals shown with the event

sheetVars == <<rules, sheet, stats>>

Entry(shape, place) == [type |-> shape.type, players |-> shape.players, place |-> place]

\* The players that the entries of some types bring, one <<email, number>> each.
Seats(sh, types) ==
  {seat \in Emails \X (1..MaxPlayers) :
     /\ sh[seat[1]] # None
     /\ sh[seat[1]].type \in types
     /\ seat[2] <= sh[seat[1]].players}

Teams(sh) == {e \in Emails : sh[e] # None /\ sh[e].type = "BY_TEAM"}

Totals(sh) ==
  [numTeams    |-> Cardinality(Teams(sh)),
   numRostered |-> Cardinality(Seats(sh, {"BY_TEAM"})),
   numTotal    |-> Cardinality(Seats(sh, {"BY_TEAM", "BY_INDIVIDUAL"}))]

Admissible(shape) ==
  /\ shape.type \in rules.options
  /\ \E at \in Times : at <= rules.closeTime
  /\ shape.type = "BY_TEAM" => shape.players >= rules.min /\ shape.players <= rules.max

Init ==
  /\ rules = None
  /\ sheet = [e \in Emails |-> None]
  /\ stats = None

OpenEvent(config) ==
  /\ rules = None
  /\ rules' = config
  /\ stats' = Totals(sheet)
  /\ UNCHANGED sheet

Amend(config) ==
  /\ rules # None
  /\ rules' = config
  /\ UNCHANGED <<sheet, stats>>

Admit(e, shape, place) ==
  /\ rules # None
  /\ sheet[e] = None
  /\ Admissible(shape)
  /\ sheet' = [sheet EXCEPT ![e] = Entry(shape, place)]
  /\ stats' = Totals(sheet')
  /\ UNCHANGED rules

MarkPaid(e) ==
  /\ sheet[e] # None
  /\ sheet' = [sheet EXCEPT ![e].place = "paid"]
  /\ UNCHANGED <<rules, stats>>

Release(e) ==
  /\ sheet[e] # None
  /\ sheet[e].place = "held"
  /\ sheet' = [sheet EXCEPT ![e] = None]
  /\ stats' = Totals(sheet')
  /\ UNCHANGED rules

Next ==
  \/ \E config \in Configs : OpenEvent(config) \/ Amend(config)
  \/ \E e \in Emails :
       \/ \E shape \in ShapesOf[e], place \in {"held", "entered"} : Admit(e, shape, place)
       \/ MarkPaid(e)
       \/ Release(e)

Spec == Init /\ [][Next]_sheetVars
=============================================================================
