----------------------------- MODULE ServerProofs -----------------------------
(***************************************************************************)
(* The safety properties of a process, for any number of requests: what    *)
(* start-up leaves behind before anything is served, what a return of run  *)
(* has done, and whose token reaches an administrator's handler.           *)
(***************************************************************************)
EXTENDS ServerProperties, TLAPS

\* How far start-up has come: what is not yet begun, and what is over.
SetUpInv ==
  /\ main \in {"licence", "telemetry"} => groupErr = None /\ telemetry = "off"
  /\ main \in {"licence", "telemetry"} => \A r \in Routines : group[r] = "idle"
  /\ main = "wait" => \A r \in Routines : group[r] # "idle"
  /\ main \in {"wire", "select"} => \A r \in Routines : group[r] = "ok"
  /\ groupErr = None => \A r \in Routines : group[r] # "failed"
  /\ server # "idle" =>
       /\ main \in {"select", "defer", "exited"}
       /\ \A r \in Routines : group[r] = "ok"
  /\ \A r \in Requests : request[r] # None => server # "idle"

\* run returns with a result, after the goroutines ended, and telemetry that is on is
\* in the hands of the deferred shutdown.
ReturnInv ==
  /\ main = "defer" => result \in {"nil", "error"}
  /\ main = "exited" => result # None
  /\ result \in {"nil", "error"} =>
       main \in {"defer", "exited"} /\ \A r \in Routines : group[r] # "running"
  /\ telemetry = "on" => shutdown = "telemetry"
  /\ ReturnsFlushed

\* A request at the gate has neither token nor status yet, its status is written
\* together with its answer, and both have their cause in what came with it.
RequestOK(q) ==
  /\ q.at = "gate" => q.jwt = "none"
  /\ q.at \in {"gate", "handler"} => q.status = 0
  /\ q.op = "admin" /\ (q.at = "handler" \/ q.status = 200) => q.jwt = "admin"
  /\ q.jwt # "none" => q.op = "admin" /\ q.jwt \in {q.cookie, q.bearer}
  /\ q.status = 401 => q.op = "admin" /\ "admin" \notin {q.cookie, q.bearer}
  /\ q.status = 400 =>
       /\ ~q.valid /\ q.op # "webhook"
       /\ q.op = "admin" => "admin" \in {q.cookie, q.bearer}

RequestInv == \A r \in Requests : request[r] # None => RequestOK(request[r])

ServerInv == TypeOK /\ SetUpInv /\ ReturnInv /\ RequestInv

LEMMA InitInv == Init => ServerInv
  BY ServerAssumption DEF Init, ServerInv, TypeOK, SetUpInv, ReturnInv, RequestInv, Routines,
     ReturnsFlushed

-----------------------------------------------------------------------------
\* Start-up and return.

LEMMA StartUpStep ==
  ServerInv /\ (DeadlinePasses \/ getNewRelicLicenseKey \/ LicenseKeyFails \/ TelemetryInit)
    => ServerInv'
<1> SUFFICES ASSUME ServerInv,
                    DeadlinePasses \/ getNewRelicLicenseKey \/ LicenseKeyFails \/ TelemetryInit
             PROVE  ServerInv'
  OBVIOUS
<1> USE ServerAssumption
<1>1. CASE DeadlinePasses
  BY <1>1 DEF ServerInv, TypeOK, SetUpInv, ReturnInv, RequestInv, ReturnsFlushed,
     DeadlinePasses, SettingUp, initVars, Routines
<1>2. CASE getNewRelicLicenseKey
  BY <1>2 DEF ServerInv, TypeOK, SetUpInv, ReturnInv, RequestInv, ReturnsFlushed,
     getNewRelicLicenseKey, Routines
<1>3. CASE LicenseKeyFails
  BY <1>3 DEF ServerInv, TypeOK, SetUpInv, ReturnInv, RequestInv, ReturnsFlushed,
     LicenseKeyFails, Return, Routines
<1>4. CASE TelemetryInit
  BY <1>4 DEF ServerInv, TypeOK, SetUpInv, ReturnInv, RequestInv, ReturnsFlushed,
     TelemetryInit, Return, Routines
<1> QED BY <1>1, <1>2, <1>3, <1>4

LEMMA GroupStep == ServerInv /\ (Goroutine \/ Wait) => ServerInv'
<1> SUFFICES ASSUME ServerInv, Goroutine \/ Wait
             PROVE  ServerInv'
  OBVIOUS
<1> USE ServerAssumption
<1>1. CASE Goroutine
  <2>1. main # "exited" /\ main # "defer" /\ server = "idle"
    BY <1>1 DEF ServerInv, SetUpInv, ReturnInv, Goroutine, fetchAppConfig, makeDB,
       GoroutineFails, Routines, TypeOK
  <2>2. main = "wait"
    BY <1>1, <2>1 DEF ServerInv, TypeOK, SetUpInv, Goroutine, fetchAppConfig, makeDB,
       GoroutineFails, Routines
  <2>3. TypeOK' /\ SetUpInv'
    BY <1>1, <2>1, <2>2 DEF ServerInv, TypeOK, SetUpInv, Goroutine, fetchAppConfig, makeDB,
       GoroutineFails, KeepFirstError, Routines
  <2>4. ReturnInv' /\ RequestInv'
    BY <1>1, <2>1, <2>2 DEF ServerInv, TypeOK, ReturnInv, RequestInv, ReturnsFlushed,
       Goroutine
  <2> QED BY <2>3, <2>4 DEF ServerInv
<1>2. CASE Wait
  BY <1>2 DEF ServerInv, TypeOK, SetUpInv, ReturnInv, RequestInv, ReturnsFlushed,
     Wait, WaitFailed, GroupEnded, Return, Routines
<1> QED BY <1>1, <1>2

LEMMA ServeStep ==
  ServerInv /\ (Wire \/ ListenAndServe \/ ServerFails \/ Select) => ServerInv'
<1> SUFFICES ASSUME ServerInv, Wire \/ ListenAndServe \/ ServerFails \/ Select
             PROVE  ServerInv'
  OBVIOUS
<1> USE ServerAssumption
<1>1. CASE Wire
  BY <1>1 DEF ServerInv, TypeOK, SetUpInv, ReturnInv, RequestInv, ReturnsFlushed,
     Wire, initVars
<1>2. CASE ListenAndServe
  BY <1>2 DEF ServerInv, TypeOK, SetUpInv, ReturnInv, RequestInv, ReturnsFlushed,
     ListenAndServe, initVars
<1>3. CASE ServerFails
  BY <1>3 DEF ServerInv, TypeOK, SetUpInv, ReturnInv, RequestInv, ReturnsFlushed,
     ServerFails, initVars
<1>4. CASE Select
  <2>1. /\ main = "select" /\ main' = "defer" /\ result' \in {"nil", "error"}
        /\ notified' = FALSE
        /\ UNCHANGED <<env, group, groupErr, telemetry, shutdown, expired,
                       signalled, server, request>>
    BY <1>4 DEF Select, Return, initVars
  <2>2. TypeOK'
    BY <2>1 DEF ServerInv, TypeOK
  <2>3. SetUpInv'
    BY <2>1 DEF ServerInv, SetUpInv
  <2>4. ReturnInv'
    BY <2>1 DEF ServerInv, TypeOK, SetUpInv, ReturnInv, ReturnsFlushed
  <2>5. RequestInv'
    BY <1>4 DEF ServerInv, RequestInv, Select
  <2> QED BY <2>2, <2>3, <2>4, <2>5 DEF ServerInv
<1> QED BY <1>1, <1>2, <1>3, <1>4

-----------------------------------------------------------------------------
\* Records: what an EXCEPT leaves alone.

LEMMA AtChanged ==
  ASSUME NEW q \in Request, NEW a \in {"gate", "handler", "answered", "dropped"}
  PROVE  /\ At(q, a) \in Request /\ At(q, a).at = a
         /\ At(q, a).op = q.op /\ At(q, a).valid = q.valid /\ At(q, a).cookie = q.cookie /\ At(q, a).bearer = q.bearer
         /\ At(q, a).status = q.status /\ At(q, a).jwt = q.jwt
  BY DEF Request, At

LEMMA StatusChanged ==
  ASSUME NEW q \in Request, NEW s \in {0, 200, 400, 401},
         NEW p, p = [q EXCEPT !.status = s]
  PROVE  /\ p \in Request /\ p.at = q.at /\ p.status = s
         /\ p.op = q.op /\ p.valid = q.valid
         /\ p.cookie = q.cookie /\ p.bearer = q.bearer /\ p.jwt = q.jwt
  BY DEF Request

LEMMA Answers ==
  ASSUME NEW q \in Request, NEW s \in {0, 200, 400, 401}
  PROVE  /\ Answer(q, s) \in Request
         /\ Answer(q, s).at = "answered" /\ Answer(q, s).status = s
         /\ Answer(q, s).op = q.op /\ Answer(q, s).valid = q.valid
         /\ Answer(q, s).jwt = q.jwt
         /\ Answer(q, s).cookie = q.cookie /\ Answer(q, s).bearer = q.bearer
<1>1. Answer(q, s) = [At(q, "answered") EXCEPT !.status = s]
  BY DEF Answer
<1>2. At(q, "answered") \in Request
  BY AtChanged
<1> QED BY <1>1, <1>2, AtChanged, StatusChanged

\* The end of the process keeps what is known of its requests.
LEMMA ExitKeepsRequests ==
  ASSUME TypeOK, RequestInv, SetUpInv, Exit
  PROVE  /\ request' \in [Requests -> Request \cup {None}]
         /\ RequestInv'
         /\ \A r \in Requests : request'[r] # None => request[r] # None
<1> USE ServerAssumption
<1>1. \A r \in Requests :
        \/ request'[r] = request[r]
        \/ InFlight(r) /\ request'[r] = At(request[r], "dropped")
  BY DEF Exit
<1>2. \A r \in Requests : request[r] \in Request \cup {None}
  BY DEF TypeOK
<1>3. \A r \in Requests : InFlight(r) => request[r] \in Request
  BY <1>2 DEF InFlight
<1>4. \A r \in Requests : request'[r] \in Request \cup {None}
  BY <1>1, <1>2, <1>3, AtChanged
<1>5. request' \in [Requests -> Request \cup {None}]
  BY <1>4 DEF Exit
<1>6. \A r \in Requests : request'[r] # None => request[r] # None
  BY <1>1 DEF InFlight
<1>7. \A r \in Requests : InFlight(r) =>
        /\ request'[r].op = request[r].op /\ request'[r].valid = request[r].valid
        /\ request'[r].jwt = request[r].jwt
        /\ request'[r].cookie = request[r].cookie /\ request'[r].bearer = request[r].bearer
        /\ request'[r].status = request[r].status
        /\ request'[r] \in Request
        /\ (request'[r].at = "dropped" \/ request'[r].at = request[r].at)
  BY <1>1, <1>3, AtChanged
<1>8. RequestInv'
  BY <1>1, <1>6, <1>7 DEF RequestInv, RequestOK
<1> QED BY <1>5, <1>6, <1>8

LEMMA EndStep == ServerInv /\ (TraceShutdown \/ Signal) => ServerInv'
<1> SUFFICES ASSUME ServerInv, TraceShutdown \/ Signal
             PROVE  ServerInv'
  OBVIOUS
<1> USE ServerAssumption
<1>1. CASE TraceShutdown
  <2>1. Exit
    BY <1>1 DEF TraceShutdown
  <2>2. TypeOK' /\ SetUpInv' /\ RequestInv'
    BY <1>1, <2>1, ExitKeepsRequests
       DEF ServerInv, TypeOK, SetUpInv, TraceShutdown, Exit, Routines
  <2>3. ReturnInv'
    BY <1>1 DEF ServerInv, TypeOK, ReturnInv, ReturnsFlushed, TraceShutdown, Exit
  <2> QED BY <2>2, <2>3 DEF ServerInv
<1>2. CASE Signal /\ notified
  BY <1>2 DEF ServerInv, TypeOK, SetUpInv, ReturnInv, RequestInv, ReturnsFlushed,
     Signal, initVars
<1>3. CASE Signal /\ ~notified
  <2>1. Exit /\ result' = "killed"
    BY <1>3 DEF Signal
  <2>2. TypeOK' /\ SetUpInv' /\ RequestInv'
    BY <1>3, <2>1, ExitKeepsRequests
       DEF ServerInv, TypeOK, SetUpInv, Signal, Exit, initVars, Routines
  <2>3. ReturnInv'
    BY <1>3, <2>1 DEF ServerInv, TypeOK, ReturnInv, ReturnsFlushed, Signal, Exit, initVars
  <2> QED BY <2>2, <2>3 DEF ServerInv
<1> QED BY <1>1, <1>2, <1>3

-----------------------------------------------------------------------------
\* Requests.

\* What the gate makes of a request: one whose token and status have their cause.
LEMMA GatedRequest ==
  ASSUME NEW q \in Request, q.at = "gate", q.jwt = "none", q.status = 0
  PROVE  Gated(q) \in Request /\ RequestOK(Gated(q))
<1> DEFINE p == CtxWithJWT(q)
<1>1. Authenticated(q) \in {"none", "admin"}
      /\ (Authenticated(q) = "admin" <=> "admin" \in {q.cookie, q.bearer})
  BY DEF Authenticated, Accepts, validateScopes
<1>2. Refusal(q) \in {0, 400, 401}
      /\ (Refusal(q) = 0 /\ q.op = "admin" => Authenticated(q) = "admin")
      /\ (Refusal(q) = 401 => q.op = "admin" /\ Authenticated(q) = "none")
      /\ (Refusal(q) = 400 => ~q.valid /\ (q.op = "admin" => Authenticated(q) = "admin"))
  BY <1>1 DEF Refusal
<1>3. /\ p \in Request /\ p.at = "gate" /\ p.status = 0
      /\ p.op = q.op /\ p.valid = q.valid /\ p.cookie = q.cookie /\ p.bearer = q.bearer
      /\ p.jwt = IF q.op = "admin" THEN Authenticated(q) ELSE "none"
  BY <1>1 DEF CtxWithJWT, Request
<1> HIDE DEF p
<1>4. CASE q.op # "webhook" /\ Refusal(q) # 0
  <2>1. Gated(q) = Answer(p, Refusal(q))
    BY <1>4 DEF Gated, Refuse, p
  <2>2. Refusal(q) \in {400, 401}
    BY <1>2, <1>4
  <2> QED BY <1>1, <1>2, <1>3, <1>4, <2>1, <2>2, Answers DEF RequestOK
<1>5. CASE ~(q.op # "webhook" /\ Refusal(q) # 0)
  <2>1. Gated(q) = At(p, "handler")
    BY <1>5 DEF Gated, p
  <2>2. q.op = "admin" => Authenticated(q) = "admin"
    BY <1>2, <1>5
  <2> QED BY <1>1, <1>3, <2>1, <2>2, AtChanged DEF RequestOK
<1> QED BY <1>4, <1>5

LEMMA RequestStep ==
  ServerInv /\ (\E r \in Requests : Arrive(r) \/ Gate(r) \/ Handle(r)) => ServerInv'
<1> SUFFICES ASSUME ServerInv, NEW r \in Requests, Arrive(r) \/ Gate(r) \/ Handle(r)
             PROVE  ServerInv'
  OBVIOUS
<1> USE ServerAssumption
<1> DEFINE Fits(q) == q \in Request /\ RequestOK(q)
<1>0. \A s \in Requests : request[s] # None => Fits(request[s])
  BY DEF ServerInv, TypeOK, RequestInv
<1>1. \E q : request' = [request EXCEPT ![r] = q] /\ Fits(q)
  <2>1. CASE Arrive(r)
    <3>1. PICK op \in {"public", "admin", "webhook"}, cookie \in Tokens, bearer \in Tokens,
               valid \in BOOLEAN :
            request' = [request EXCEPT ![r] =
              [op |-> op, cookie |-> cookie, bearer |-> bearer, valid |-> valid,
               at |-> "gate", status |-> 0, jwt |-> "none"]]
      BY <2>1 DEF Arrive
    <3> DEFINE q == [op |-> op, cookie |-> cookie, bearer |-> bearer, valid |-> valid,
                     at |-> "gate", status |-> 0, jwt |-> "none"]
    <3>2. Fits(q)
      BY DEF Request, RequestOK
    <3> QED BY <3>1, <3>2
  <2>2. CASE Gate(r)
    <3>1. request[r] # None /\ request[r].at = "gate"
          /\ request' = [request EXCEPT ![r] = Gated(request[r])]
      BY <2>2 DEF Gate
    <3>2. Fits(Gated(request[r]))
      BY <1>0, <3>1, GatedRequest DEF RequestOK
    <3> QED BY <3>1, <3>2
  <2>3. CASE Handle(r)
    <3>1. request[r] # None /\ request[r].at = "handler"
      BY <2>3 DEF Handle
    <3>2. PICK q \in {Answer(request[r], 200), At(request[r], "dropped")} :
            request' = [request EXCEPT ![r] = q]
      BY <2>3 DEF Handle
    <3>3. Fits(Answer(request[r], 200))
      BY <1>0, <3>1, Answers DEF RequestOK
    <3>4. Fits(At(request[r], "dropped"))
      BY <1>0, <3>1, AtChanged DEF RequestOK
    <3> QED BY <3>2, <3>3, <3>4
  <2> QED BY <2>1, <2>2, <2>3
<1>2. \A s \in Requests : request'[s] # None => Fits(request'[s])
  BY <1>0, <1>1 DEF ServerInv, TypeOK
<1>3. UNCHANGED <<env, main, initVars, expired, notified, signalled, server, result>>
  BY DEF Arrive, Gate, Handle
<1>4. server # "idle"
  BY DEF Arrive, Gate, Handle, ServerInv, SetUpInv
<1>5. TypeOK'
  BY <1>1, <1>3 DEF ServerInv, TypeOK, initVars
<1>6. RequestInv'
  BY <1>2 DEF RequestInv
<1>7. SetUpInv' /\ ReturnInv'
  BY <1>3, <1>4 DEF ServerInv, TypeOK, SetUpInv, ReturnInv, ReturnsFlushed, initVars
<1> QED BY <1>5, <1>6, <1>7 DEF ServerInv

-----------------------------------------------------------------------------
(* The inductive invariant of the process, from main to its exit.                     *)
THEOREM Invariance == Spec => []ServerInv
<1>1. ServerInv /\ [Next]_vars => ServerInv'
  <2> SUFFICES ASSUME ServerInv, [Next]_vars
               PROVE  ServerInv'
    OBVIOUS
  <2>1. CASE Next
    BY <2>1, StartUpStep, GroupStep, ServeStep, EndStep, RequestStep DEF Next
  <2>2. CASE UNCHANGED vars
    BY <2>2 DEF vars, ServerInv, TypeOK, SetUpInv, ReturnInv, RequestInv, ReturnsFlushed
  <2> QED BY <2>1, <2>2
<1> QED BY InitInv, <1>1, PTL DEF Spec

\* No request reaches a process whose configuration or database client is missing
\* (cmd/main.go:114-143).
THEOREM WiredBeforeServing == Spec => []ServesWired
<1>1. ServerInv => ServesWired
  BY DEF ServerInv, SetUpInv, ServesWired
<1> QED BY Invariance, <1>1, PTL

\* Nobody reads cfg and db, and run does not return, while a goroutine of the errgroup
\* may still write them (cmd/main.go:139).
THEOREM GoroutinesAreJoined == Spec => []GroupJoined
<1>1. ServerInv => GroupJoined
  BY DEF ServerInv, TypeOK, SetUpInv, ReturnInv, GroupJoined
<1> QED BY Invariance, <1>1, PTL

\* Every return of run shuts down the telemetry that was started (cmd/main.go:35-41).
THEOREM TelemetryIsFlushed == Spec => []ReturnsFlushed
<1>1. ServerInv => ReturnsFlushed
  BY DEF ServerInv, ReturnInv
<1> QED BY Invariance, <1>1, PTL

\* An administrator's handler runs only for an administrator's token, and only a token
\* presented with the request gets into its context (api/openapivalidate.go:53-97).
THEOREM AdminHandlersServeAdmins == Spec => []AdminByAdmin
<1>1. ServerInv => AdminByAdmin
  BY DEF ServerInv, RequestInv, RequestOK, AdminByAdmin
<1> QED BY Invariance, <1>1, PTL

\* A refusal is always for something that is wrong with the request itself
\* (api/openapivalidate.go:53-131).
THEOREM RefusalsHaveTheirCause == Spec => []RefusedForCause
<1>1. ServerInv => RefusedForCause
  BY DEF ServerInv, RequestInv, RequestOK, RefusedForCause
<1> QED BY Invariance, <1>1, PTL
=============================================================================
