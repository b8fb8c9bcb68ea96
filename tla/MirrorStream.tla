---------------------------- MODULE MirrorStream ----------------------------
(***************************************************************************)
(* The server's side of a mirror WebSocket: MirrorHandler.Stream and its   *)
(* reader goroutine (internal/interfaces/httpapi/mirror_handler.go) over   *)
(* mirror.Service.Stream (internal/application/mirror/mirror_service.go).  *)
(* One handler per socket, with two goroutines that each have to learn of  *)
(* the other's end: the reader cancels the context of the stream, the      *)
(* stream closes the connection under the reader.                          *)
(***************************************************************************)
EXTENDS Naturals

CONSTANTS Conns         \* upgraded connections

VARIABLES
    main,       \* the handler's goroutine
    reader,     \* runControlReader's goroutine
    cancelled,  \* streamCtx is cancelled
    conn,       \* the server has not closed the connection
    frame       \* reason of the close frame the server has put on the wire

streamVars == <<main, reader, cancelled, conn, frame>>

\* classifyMirrorClose: what the text of the close frame lets a client tell.
Reasons == {"", "auth", "other"}

StreamTypeOK ==
    /\ main \in [Conns -> {"none", "streaming", "joining", "ended"}]
    /\ reader \in [Conns -> {"reading", "touching", "ended"}]
    /\ cancelled \in [Conns -> BOOLEAN] /\ conn \in [Conns -> BOOLEAN]
    /\ frame \in [Conns -> Reasons]

StreamInit ==
    /\ main = [c \in Conns |-> "ended"] /\ reader = [c \in Conns |-> "ended"]
    /\ cancelled = [c \in Conns |-> FALSE] /\ conn = [c \in Conns |-> FALSE]
    /\ frame = [c \in Conns |-> ""]

\* Stream up to the start of the reader: the user is authenticated, the id
\* parses, the upgrade succeeds.
Upgrade(c) ==
    /\ main[c] = "none"
    /\ main' = [main EXCEPT ![c] = "streaming"] /\ reader' = [reader EXCEPT ![c] = "reading"]
    /\ conn' = [conn EXCEPT ![c] = TRUE] /\ frame' = [frame EXCEPT ![c] = ""]
    /\ UNCHANGED cancelled

\* Slip: the connection is left to the deferred Close.
ReturnsOpen(c) ==
    /\ main' = [main EXCEPT ![c] = "joining"]
    /\ UNCHANGED conn

\* svc.Stream returns, and the handler closes the connection: nothing can be
\* observed between the two.
Returns(c) ==
    /\ main' = [main EXCEPT ![c] = "joining"]
    /\ conn' = [conn EXCEPT ![c] = FALSE]

\* Service.Stream looks up the instance, which may fail or have no serial, and
\* then stays in the attach until its context is cancelled, a write fails, or
\* the device's session ends.
StreamReturns(c) ==
    /\ main[c] = "streaming" /\ Returns(c)
    /\ UNCHANGED <<reader, cancelled, frame>>

\* wg.Wait, then WriteControl, which reaches the wire only over an open
\* connection; the handler's context ends with it.  (Which error svc.Stream
\* returned matters here alone, so the reason is chosen here.)
Join(c) ==
    /\ main[c] = "joining" /\ reader[c] = "ended"
    /\ main' = [main EXCEPT ![c] = "ended"]
    /\ \E r \in Reasons : frame' = [frame EXCEPT ![c] = IF conn[c] THEN r ELSE @]
    /\ conn' = [conn EXCEPT ![c] = FALSE] /\ cancelled' = [cancelled EXCEPT ![c] = FALSE]
    /\ UNCHANGED reader

\* The reader has read a touch frame, perhaps one that was buffered before the
\* connection broke, and is in control.Service.Touch (module Control), which
\* waits for the instance's lock, for the device's dimensions and for the write
\* to its control socket, none of them bounded by a context or a deadline.
Dispatch(c) ==
    /\ reader[c] = "reading"
    /\ reader' = [reader EXCEPT ![c] = "touching"]
    /\ UNCHANGED <<main, cancelled, conn, frame>>

\* ReadMessage fails: the connection is closed, by the client or by the server.
\* (When the reader was in a touch: that one, and those of the frames buffered
\* behind it, have returned.)
ReadFails(c) ==
    /\ reader[c] # "ended"
    /\ reader' = [reader EXCEPT ![c] = "ended"]
    /\ cancelled' = [cancelled EXCEPT ![c] = TRUE]
    /\ UNCHANGED <<main, conn, frame>>

=============================================================================
