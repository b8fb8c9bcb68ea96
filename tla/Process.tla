------------------------------ MODULE Process ------------------------------
(***************************************************************************)
(* The life of the server's process (internal/bootstrap/app.go), as far as *)
(* its services depend on it: whether the database is open and whether the *)
(* context of the background fan-outs is alive.                            *)
(***************************************************************************)

CONSTANTS Calls         \* requests in flight at a time

VARIABLES phase, bg       \* bg: bgCtx is alive

\* NewApp up to the reset, Serve, and the deferred calls of Serve one by one.
Phases == {"starting", "serving", "stopping", "reset", "closed", "down"}

\* The services' statements can succeed; closeDB has not run.
DbOpen == phase \in {"serving", "stopping", "reset"}

\* bgCtx ends with the signal that stops the server; when Serve ends by itself,
\* with an error of the listener, it lives on.
BgAlive == bg

\* The port is listened on; in-flight requests outlive it.
Accepting == phase = "serving"
Alive == phase \notin {"down", "starting"}

=============================================================================
