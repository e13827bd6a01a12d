-------------------------------- MODULE Server --------------------------------
(***************************************************************************)
(* One process of the service, from main to its exit (package cmd), and    *)
(* the way of a request through its middlewares to a handler (api/api.go,  *)
(* api/openapivalidate.go).                                                *)
(*                                                                         *)
(* run sets the API up: the licence key, telemetry, then two goroutines of *)
(* an errgroup that fetch the configuration and make the database client   *)
(* side by side, all within 10 seconds.  Then it serves until a signal or  *)
(* until the server fails, and on every return shuts telemetry down.       *)
(*                                                                         *)
(* Calls to AWS may succeed, fail or hang.  Nothing obliges them to answer;*)
(* a call that hangs fails when its context is done.                       *)
(***************************************************************************)
EXTENDS Integers

CONSTANTS
  Requests,  \* the requests that may reach this process
  None

VARIABLES
  env,        \* LOCAL or PROD
  main,       \* where the main goroutine is
  expired,    \* whether the 10 seconds of setupApi are over
  group,      \* [Routines -> where the errgroup's goroutines are]
  groupErr,   \* the goroutine whose error the errgroup keeps, or None
  shutdown,   \* what the deferred traceShutdown is
  telemetry,  \* "off", "on" or "stopped"
  notified,   \* whether signals are caught (signal.NotifyContext)
  signalled,  \* whether one was caught
  server,     \* the goroutine of ListenAndServe
  result,     \* what run is about to return: None (running), "nil" or "error"
  request     \* [Requests -> the request and where it is, or None]

initVars == <<group, groupErr, telemetry, shutdown>>
vars == <<env, main, expired, group, groupErr, shutdown, telemetry, notified,
          signalled, server, result, request>>

Routines == {"init-config", "init-db"}

Tokens == {"missing", "invalid", "user", "admin"}

\* op: an operation whose security is empty, one with the scope admin, or the
\* Stripe webhook; valid: whether parameters and body fit the OpenAPI document.
Request == [op : {"public", "admin", "webhook"}, cookie : Tokens, bearer : Tokens,
            valid : BOOLEAN, at : {"gate", "handler", "answered", "dropped"},
            status : {0, 200, 400, 401}, jwt : {"none", "user", "admin"}]

ASSUME ServerAssumption == None \notin Request \cup Routines \cup {"nil", "error", "killed"}

TypeOK ==
  /\ env \in {"LOCAL", "PROD"}
  /\ main \in {"licence", "telemetry", "wait", "wire", "select", "defer", "exited"}
  /\ expired \in BOOLEAN
  /\ group \in [Routines -> {"idle", "running", "ok", "failed"}]
  /\ groupErr \in Routines \cup {None}
  /\ shutdown \in {"none", "noop", "telemetry"}
  /\ telemetry \in {"off", "on", "stopped"}
  /\ notified \in BOOLEAN /\ signalled \in BOOLEAN
  /\ server \in {"idle", "starting", "listening", "failed"}
  /\ result \in {None, "nil", "error", "killed"}
  /\ request \in [Requests -> Request \cup {None}]

Init ==
  /\ env \in {"LOCAL", "PROD"}
  /\ main = "licence"
  /\ expired = FALSE
  /\ group = [r \in Routines |-> "idle"]
  /\ groupErr = None
  /\ shutdown = "none"
  /\ telemetry = "off"
  /\ notified = FALSE
  /\ signalled = FALSE
  /\ server = "idle"
  /\ result = None
  /\ request = [r \in Requests |-> None]

-----------------------------------------------------------------------------
\* setupApi, phase 1: the licence key, then telemetry.

Return(res) == result' = res /\ main' = "defer"

SettingUp == main \in {"licence", "telemetry", "wait", "wire"}

\* context.WithTimeout(10 s); it is cancelled when setupApi returns.
DeadlinePasses ==
  /\ SettingUp /\ ~expired
  /\ expired' = TRUE
  /\ UNCHANGED <<env, main, initVars, notified, signalled, server, result, request>>

\* On LOCAL the key is an environment variable, on PROD a call to the parameter store.
getNewRelicLicenseKey ==
  /\ main = "licence"
  /\ main' = "telemetry"
  /\ UNCHANGED <<env, expired, group, groupErr, shutdown, telemetry, notified,
                 signalled, server, result, request>>

\* The AWS configuration cannot be loaded or the parameter not be had.  The caller always
\* calls the shutdown function, so there is always one.
LicenseKeyFails ==
  /\ main = "licence"
  /\ env = "PROD"
  /\ shutdown' = "noop"
  /\ Return("error")
  /\ UNCHANGED <<env, expired, group, groupErr, telemetry, notified, signalled,
                 server, request>>

\* Once telemetry is up the two goroutines of the errgroup are started.
TelemetryInit ==
  /\ main = "telemetry"
  /\ shutdown' = "telemetry"
  /\ \/ /\ telemetry' = "on"
        /\ group' = [r \in Routines |-> "running"]
        /\ main' = "wait"
        /\ UNCHANGED result
     \/ /\ Return("error")
        /\ UNCHANGED <<telemetry, group>>
  /\ UNCHANGED <<env, expired, groupErr, notified, signalled, server, request>>

-----------------------------------------------------------------------------
\* Phase 2: fetchAppConfig and makeDB in an errgroup.

\* The group's context: done when the 10 seconds are over or a goroutine has failed.
gCtxDone == expired \/ groupErr # None

\* One GetParameters call on PROD, the environment on LOCAL.
fetchAppConfig ==
  /\ group["init-config"] = "running"
  /\ group' = [group EXCEPT !["init-config"] = "ok"]
  /\ UNCHANGED groupErr

\* Neither client calls anybody yet.
makeDB ==
  /\ group["init-db"] = "running"
  /\ group' = [group EXCEPT !["init-db"] = "ok"]
  /\ UNCHANGED groupErr

\* On PROD the call for the configuration, a missing value, a key that does not parse; on
\* LOCAL the AWS defaults of the database client.  On PROD both use the AWS configuration
\* that was loaded, once, for the licence key: without it run would have returned.
MayFail(r) == r = (IF env = "PROD" THEN "init-config" ELSE "init-db")

\* A slip: the last error is kept, and a goroutine that ends well clears it.
LastResultKept(r) == groupErr' = IF group["init-db"] = "ok" THEN None ELSE r

\* errgroup: the first error is kept and cancels the group's context.
KeepFirstError(r) == groupErr' = IF groupErr = None THEN r ELSE groupErr

GoroutineFails(r) ==
  /\ group[r] = "running"
  /\ MayFail(r)
  /\ group' = [group EXCEPT ![r] = "failed"]
  /\ KeepFirstError(r)

\* A slip: the call is made with a context of its own.
CallOutlivesContext == FALSE

\* What ends a call that hangs.
ContextEndsCall == gCtxDone

Goroutine ==
  /\ main # "exited"
  /\ fetchAppConfig \/ makeDB \/ \E r \in Routines : GoroutineFails(r)
  /\ UNCHANGED <<env, main, expired, shutdown, telemetry, notified, signalled,
                 server, result, request>>

\* A slip: the first error is not waited out.
FirstErrorEndsWait == groupErr # None \/ \A r \in Routines : group[r] # "running"

GroupEnded == \A r \in Routines : group[r] # "running"

\* A slip: the error path returns before telemetry's shutdown function is known.
WaitFailedForgetsShutdown == shutdown' = "noop" /\ Return("error")

WaitFailed == Return("error") /\ UNCHANGED shutdown

Wait ==
  /\ main = "wait"
  /\ GroupEnded
  /\ \/ groupErr # None /\ WaitFailed
     \/ groupErr = None /\ main' = "wire" /\ UNCHANGED <<result, shutdown>>
  /\ UNCHANGED <<env, expired, group, groupErr, telemetry, notified,
                 signalled, server, request>>

-----------------------------------------------------------------------------
\* Phase 3, then run: catch signals, serve, wait for either to end.

\* Building the clients and the API makes no call and fails on nothing.
Wire ==
  /\ main = "wire"
  /\ main' = "select"
  /\ notified' = TRUE
  /\ server' = "starting"
  /\ UNCHANGED <<env, initVars, expired, signalled, result, request>>

ListenAndServe ==
  /\ server = "starting" /\ main # "exited"
  /\ server' = "listening"
  /\ UNCHANGED <<env, main, initVars, expired, notified, signalled, result, request>>

\* The OpenAPI document or the address is no good, or accepting connections fails.
ServerFails ==
  /\ server \in {"starting", "listening"} /\ main # "exited"
  /\ server' = "failed"
  /\ UNCHANGED <<env, main, initVars, expired, notified, signalled, result, request>>

\* return nil on a signal, the error if the server failed; sigStop comes first of the
\* deferred calls.  The server is not shut down: it goes on listening.
Select ==
  /\ main = "select"
  /\ \/ signalled /\ Return("nil")
     \/ server = "failed" /\ Return("error")
  /\ notified' = FALSE
  /\ UNCHANGED <<env, initVars, expired, signalled, server, request>>

\* A request that has got as far as a place, and one that is answered there.
At(q, place) == [q EXCEPT !.at = place]
Answer(q, status) == [At(q, "answered") EXCEPT !.status = status]

InFlight(r) == request[r] # None /\ request[r].at \in {"gate", "handler"}

\* The end of the process takes its goroutines with it.
Exit ==
  /\ main' = "exited"
  /\ request' = [r \in Requests |->
                   IF InFlight(r) THEN At(request[r], "dropped") ELSE request[r]]

\* A slip: the shutdown has no limit of its own.
ShutdownUnlimited == FALSE

\* The collector took the last spans, or the 5 seconds are over.
ShutdownLimit == TRUE

\* The deferred traceShutdown; the no-op leaves telemetry as it is.
TraceShutdown ==
  /\ main = "defer"
  /\ telemetry' = IF shutdown = "telemetry" THEN "stopped" ELSE telemetry
  /\ Exit
  /\ UNCHANGED <<env, expired, group, groupErr, shutdown, notified,
                 signalled, server, result>>

\* SIGTERM or SIGINT: caught, or fatal at once if it is not.
Signal ==
  /\ main # "exited"
  /\ \/ /\ notified /\ ~signalled
        /\ signalled' = TRUE
        /\ UNCHANGED <<main, result, request>>
     \/ /\ ~notified
        /\ result' = "killed"
        /\ Exit
        /\ UNCHANGED signalled
  /\ UNCHANGED <<env, initVars, expired, notified, server>>

-----------------------------------------------------------------------------
\* A request: the webhook's middleware lies outside the validator's.

Arrive(r) ==
  /\ request[r] = None
  /\ server = "listening" /\ main # "exited"
  /\ \E op \in {"public", "admin", "webhook"}, cookie, bearer \in Tokens, valid \in BOOLEAN :
       request' = [request EXCEPT ![r] =
         [op |-> op, cookie |-> cookie, bearer |-> bearer, valid |-> valid,
          at |-> "gate", status |-> 0, jwt |-> "none"]]
  /\ UNCHANGED <<env, main, initVars, expired, notified, signalled, server, result>>

\* A slip: the validators of the scopes are not called.
anyoneInScope(token) == token \in {"user", "admin"}

\* validateScopes: the one scope there is, admin, asks for the admin role.
validateScopes(token) == token = "admin"

\* AuthenticationFunc for one scheme: a valid token with the scopes of the operation.
Accepts(token) == token \in {"user", "admin"} /\ validateScopes(token)

\* A slip: a cookie that is refused is the end of it.
CookieDecides(q) ==
  IF q.cookie = "missing" THEN IF Accepts(q.bearer) THEN q.bearer ELSE "none"
  ELSE IF Accepts(q.cookie) THEN q.cookie ELSE "none"

\* The schemes are alternatives, the cookie first.
Authenticated(q) ==
  IF Accepts(q.cookie) THEN q.cookie
  ELSE IF Accepts(q.bearer) THEN q.bearer ELSE "none"

\* ErrorHandlerWithOpts.
Refuse(q, status) == Answer(q, status)

\* Security is looked at before parameters and body.
Refusal(q) ==
  IF q.op = "admin" /\ Authenticated(q) = "none" THEN 401 ELSE IF ~q.valid THEN 400 ELSE 0

\* CtxWithJWT: the accepted token goes into the request's context.
CtxWithJWT(q) == [q EXCEPT !.jwt = IF q.op = "admin" THEN Authenticated(q) ELSE "none"]

Gated(q) ==
  IF q.op # "webhook" /\ Refusal(q) # 0 THEN Refuse(CtxWithJWT(q), Refusal(q))
  ELSE At(CtxWithJWT(q), "handler")

Gate(r) ==
  /\ main # "exited"
  /\ request[r] # None /\ request[r].at = "gate"
  /\ request' = [request EXCEPT ![r] = Gated(request[r])]
  /\ UNCHANGED <<env, main, initVars, expired, notified, signalled, server, result>>

\* 200 stands for whatever the handler answers.  One that panics (an item that cannot be
\* unmarshalled does it) answers nothing: no middleware recovers, net/http drops the
\* connection, and the process lives on.
Handle(r) ==
  /\ main # "exited"
  /\ request[r] # None /\ request[r].at = "handler"
  /\ \E q \in {Answer(request[r], 200), At(request[r], "dropped")} :
       request' = [request EXCEPT ![r] = q]
  /\ UNCHANGED <<env, main, initVars, expired, notified, signalled, server, result>>

-----------------------------------------------------------------------------
Next ==
  \/ DeadlinePasses \/ getNewRelicLicenseKey \/ LicenseKeyFails \/ TelemetryInit
  \/ Goroutine \/ Wait \/ Wire \/ ListenAndServe \/ ServerFails \/ Select
  \/ TraceShutdown \/ Signal
  \/ \E r \in Requests : Arrive(r) \/ Gate(r) \/ Handle(r)

Spec == Init /\ [][Next]_vars

\* The process runs; AWS need not answer, but time passes, and a call whose context is
\* done fails.  On LOCAL nobody is called.  A request is owed nothing.
Fairness ==
  /\ WF_vars(DeadlinePasses)
  /\ WF_vars(env = "LOCAL" /\ getNewRelicLicenseKey)
  /\ WF_vars(expired /\ LicenseKeyFails)
  /\ WF_vars(expired /\ TelemetryInit)
  /\ WF_vars((env = "LOCAL" \/ ContextEndsCall) /\ Goroutine)
  /\ WF_vars(Wait) /\ WF_vars(Wire) /\ WF_vars(ListenAndServe) /\ WF_vars(Select)
  /\ WF_vars(ShutdownLimit /\ TraceShutdown)

FairSpec == Spec /\ Fairness
=============================================================================
