------------------------------- MODULE Checkout -------------------------------
(***************************************************************************)
(* Stripe's checkout sessions, behind payments.CheckoutManager.  This is   *)
(* external code, modelled from how the repository uses it: a session is   *)
(* created with a 30-minute life for an email (the metadata the webhook    *)
(* gets back), the client can pay once it has been given the client        *)
(* secret, a session nobody paid expires, and the completed or expired     *)
(* notification is delivered again until a delivery is answered with 200.  *)
(***************************************************************************)
EXTENDS Integers

CONSTANTS Emails, Sessions, None

VARIABLE sessions

SessionStates == {"unused", "open", "offered", "complete", "expired"}

SessionType == [state : SessionStates, email : Emails \cup {None}, acked : BOOLEAN]

CheckoutInit ==
  sessions = [s \in Sessions |-> [state |-> "unused", email |-> None, acked |-> FALSE]]

Complete(s) == sessions[s].state = "complete"

Expired(s) == sessions[s].state = "expired"

Open(s, e) ==
  /\ sessions[s].state = "unused"
  /\ sessions' = [sessions EXCEPT ![s].state = "open", ![s].email = e]

\* The client holds the secret: the payment form is on the registrant's screen.
Offered(s) == [sessions EXCEPT ![s].state = "offered"]

Pay(s) ==
  /\ sessions[s].state = "offered"
  /\ sessions' = [sessions EXCEPT ![s].state = "complete"]

Expire(s) ==
  /\ sessions[s].state \in {"open", "offered"}
  /\ sessions' = [sessions EXCEPT ![s].state = "expired"]

Acked(s) == [sessions EXCEPT ![s].acked = TRUE]

=============================================================================
