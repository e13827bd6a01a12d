--------------------------- MODULE ServerProperties ---------------------------
(***************************************************************************)
(* What a process of the service promises from main to its exit, and what  *)
(* a request may count on at its gate.                                     *)
(***************************************************************************)
EXTENDS Server

-----------------------------------------------------------------------------
\* Safety

\* Nothing is served with half a configuration: once ListenAndServe is called, and so
\* for every request, both goroutines of the errgroup ended without an error
\* (cmd/main.go:139-143, errgroup's first error).
ServesWired ==
  server # "idle" \/ (\E r \in Requests : request[r] # None) =>
    \A r \in Routines : group[r] = "ok"

\* cfg and db are written by the goroutines and read after Wait: nobody reads them, and
\* run does not return, while a goroutine still runs, unless a signal killed the
\* process (cmd/main.go:109-143).
GroupJoined ==
  main \in {"wire", "select", "defer"} \/ result \in {"nil", "error"} =>
    \A r \in Routines : group[r] # "running"

\* Whatever way run returns, error paths of setupApi included, telemetry that was
\* started was shut down first; only a signal that is not caught skips it
\* (cmd/main.go:34-45, 77, 92, 142).
ReturnsFlushed ==
  main = "exited" /\ telemetry = "on" => result = "killed"

\* A handler of an operation with the scope admin runs only with the token of an admin
\* in the context, and a token gets there only if an operation asked for one and it
\* came with the request, in whichever of the two places
\* (api/openapivalidate.go:53-97).
AdminByAdmin ==
  \A r \in Requests :
    request[r] # None =>
      /\ request[r].op = "admin" /\ (request[r].at = "handler" \/ request[r].status = 200) =>
           request[r].jwt = "admin"
      /\ request[r].jwt # "none" =>
           /\ request[r].op = "admin"
           /\ request[r].jwt \in {request[r].cookie, request[r].bearer}

\* A request is refused only for what is wrong with it: with 401 if neither place holds
\* an administrator's token, so a stale cookie does not lock out a good bearer token, and
\* with 400 if its parameters or body do not fit and it may ask at all.  The webhook's
\* requests are never refused here (api/openapivalidate.go:53-131).
RefusedForCause ==
  \A r \in Requests :
    request[r] # None =>
      /\ request[r].status = 401 =>
           request[r].op = "admin" /\ "admin" \notin {request[r].cookie, request[r].bearer}
      /\ request[r].status = 400 =>
           /\ ~request[r].valid /\ request[r].op # "webhook"
           /\ request[r].op = "admin" => "admin" \in {request[r].cookie, request[r].bearer}

-----------------------------------------------------------------------------
\* Liveness

\* Start-up ends one way or the other, though AWS may never answer: the process comes
\* to serve or to return (the 10 seconds of cmd/main.go:70).
StartupEnds == <>(main \in {"select", "defer", "exited"})

\* A caught signal ends the process, though the collector may never take the last
\* spans (cmd/main.go:36, 57-59).
StopEnds == signalled ~> main = "exited"
=============================================================================
