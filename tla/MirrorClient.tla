---------------------------- MODULE MirrorClient ----------------------------
(***************************************************************************)
(* The browser's side of a mirror (web/src/lib/mirror/websocket.ts,        *)
(* transport-registry.ts and the effect of MirrorScreen.tsx that owns a    *)
(* transport): a transport per mounted screen of one instance, the         *)
(* WebSockets it opens, its reconnect timers, its decoder, and the         *)
(* registry through which control frames find a transport.                 *)
(*                                                                         *)
(* JavaScript runs one callback at a time, so every action is a whole      *)
(* callback.  A transport keeps the handle of one timer and of one socket: *)
(* what it overwrites is not lost, it only can no longer be cancelled, and *)
(* is counted in "stray" (timers) or stays in ws (sockets).                *)
(***************************************************************************)
EXTENDS Naturals, FiniteSets

CONSTANTS Transports,   \* one per run of MirrorScreen's effect
          Sockets,      \* WebSocket objects in use at a time (bound)
          MaxAttempts,  \* MAX_RECONNECT_ATTEMPTS
          None

ASSUME ClientAssumption ==
    /\ MaxAttempts \in Nat \ {0}
    /\ None \notin Transports /\ None \notin Sockets
    /\ IsFiniteSet(Sockets)

VARIABLES
    tr,         \* the fields of each transport
    registry,   \* the transport registered for the instance
    ws,         \* readyState of each socket
    owner,      \* the transport whose callbacks a socket calls
    orphaned    \* history: a socket was overwritten before it was closed

clientVars == <<tr, registry, ws, owner, orphaned>>

\* (Of the status only this matters: whether it is "open".)
Transport == [opts : {"new", "set", "null"}, attempts : 0..MaxAttempts + 1,
              armed : BOOLEAN, stray : Nat, socket : Sockets \cup {None},
              decoder : Sockets \cup {None},
              status : {"open", "other"}]

ClientTypeOK ==
    /\ tr \in [Transports -> Transport]
    /\ registry \in Transports \cup {None}
    /\ ws \in [Sockets -> {"connecting", "open", "closing", "closed"}]
    /\ owner \in [Sockets -> Transports \cup {None}]
    /\ \A s \in Sockets : ws[s] # "closed" => owner[s] \in Transports
    /\ orphaned \in BOOLEAN

NewTransport == [opts |-> "new", attempts |-> 0, armed |-> FALSE, stray |-> 0,
                 socket |-> None, decoder |-> None, status |-> "other"]

ClientInit ==
    /\ tr = [t \in Transports |-> NewTransport]
    /\ registry = None
    /\ ws = [s \in Sockets |-> "closed"] /\ owner = [s \in Sockets |-> None]
    /\ orphaned = FALSE

-----------------------------------------------------------------------------
(* Methods of a transport, as what they make of its fields.                *)

ResetDecoder(r) == [r EXCEPT !.decoder = None]

\* Slip: the decoder is kept.
HandleDisconnectKeepsDecoder(r) ==
    LET n == IF r.attempts > MaxAttempts THEN r.attempts ELSE r.attempts + 1
        q == [r EXCEPT !.attempts = n]
    IN  IF r.opts # "set" THEN r
        ELSE IF n > MaxAttempts THEN [q EXCEPT !.status = "other"]
        ELSE [q EXCEPT !.status = "other", !.armed = TRUE,
                       !.stray = IF q.armed THEN @ + 1 ELSE @]

\* Slip: the count starts over when the limit is reached.
HandleDisconnectForgets(r) ==
    LET n == r.attempts + 1
        q == [ResetDecoder(r) EXCEPT !.attempts = n]
    IN  IF r.opts # "set" THEN r
        ELSE IF n >= MaxAttempts THEN [q EXCEPT !.status = "other", !.attempts = 0]
        ELSE [q EXCEPT !.status = "other", !.armed = TRUE,
                       !.stray = IF q.armed THEN @ + 1 ELSE @]

\* attempts is only compared with the limit (the delay that grows with it is
\* left out), so it saturates one above it.
HandleDisconnect(r) ==
    LET n == IF r.attempts > MaxAttempts THEN r.attempts ELSE r.attempts + 1
        q == [ResetDecoder(r) EXCEPT !.attempts = n]
    IN  IF r.opts # "set" THEN r
        ELSE IF n > MaxAttempts THEN [q EXCEPT !.status = "other"]
        ELSE [q EXCEPT !.status = "other", !.armed = TRUE,
                       !.stray = IF q.armed THEN @ + 1 ELSE @]

\* Slip: whoever is registered is taken out.
UnregisterAny(t) == None

Unregister(t) == IF registry = t THEN None ELSE registry

Lives(s) == s # None /\ ws[s] # "closed"

\* openSocket by a transport whose fields are r: nothing without options.  The
\* constructor of WebSocket may throw.  The old socket is overwritten, not
\* closed.  The new one is named from a pool of names no longer in use.
OpenSocket(t, r, pool) ==
    IF r.opts # "set"
    THEN tr' = [tr EXCEPT ![t] = r] /\ UNCHANGED <<ws, owner, orphaned>>
    ELSE \/ /\ tr' = [tr EXCEPT ![t] = HandleDisconnect([r EXCEPT !.status = "other"])]
            /\ UNCHANGED <<ws, owner, orphaned>>
         \/ \E s \in pool :
              /\ tr' = [tr EXCEPT ![t] = [r EXCEPT !.status = "other", !.socket = s]]
              /\ ws' = [ws EXCEPT ![s] = "connecting"]
              /\ owner' = [owner EXCEPT ![s] = t]
              /\ orphaned' = (orphaned \/ Lives(r.socket))

\* The effect of MirrorScreen makes its next transport, when the cleanup of the
\* one before has run.
Mounts(t) ==
    /\ \A u \in Transports : tr[u].opts # "set"
    /\ \E u \in Transports : tr[u].opts = "new"
    /\ t = CHOOSE u \in Transports : tr[u].opts = "new"

Connect(t, pool) ==
    /\ Mounts(t)
    /\ OpenSocket(t, [tr[t] EXCEPT !.opts = "set", !.attempts = 0], pool)
    /\ UNCHANGED registry

\* Slip: the socket is dropped and not closed.
DisconnectDrops(t) ==
    /\ tr[t].opts = "set"
    /\ tr' = [tr EXCEPT ![t] = [ResetDecoder(@) EXCEPT !.opts = "null", !.attempts = 0,
                                      !.armed = FALSE, !.socket = None, !.status = "other"]]
    /\ registry' = Unregister(t)
    /\ UNCHANGED <<ws, owner, orphaned>>

\* disconnect: clears the one timer and closes the one socket it still knows.
\* (attempts, which nothing reads any more, is set back so that it makes no
\* states.)
Disconnect(t) ==
    /\ tr[t].opts = "set"
    /\ tr' = [tr EXCEPT ![t] = [ResetDecoder(@) EXCEPT !.opts = "null", !.attempts = 0,
                                      !.armed = FALSE, !.socket = None, !.status = "other"]]
    /\ ws' = [s \in Sockets |-> IF s = tr[t].socket /\ ws[s] # "closed"
                                THEN "closing" ELSE ws[s]]
    /\ registry' = Unregister(t)
    /\ UNCHANGED <<owner, orphaned>>

\* A timer fires: the one whose handle is kept, or a stray one.
TimerFires(t, pool) ==
    /\ \/ tr[t].armed /\ OpenSocket(t, [tr[t] EXCEPT !.armed = FALSE], pool)
       \/ tr[t].stray > 0 /\ OpenSocket(t, [tr[t] EXCEPT !.stray = @ - 1], pool)
    /\ UNCHANGED registry

\* onopen
Opened(s) ==
    /\ ws[s] = "connecting"
    /\ ws' = [ws EXCEPT ![s] = "open"]
    /\ tr' = [tr EXCEPT ![owner[s]].attempts = 0, ![owner[s]].status = "open"]
    /\ registry' = owner[s]
    /\ UNCHANGED <<owner, orphaned>>

\* The end of a socket: one task fires onerror, if the connection failed, and
\* then onclose, with the reason of the close frame that was received ("" for
\* none).  A connection that never opened always fails.
Closed(s, failed, reason) ==
    LET t == owner[s]
        r == IF failed THEN HandleDisconnect(tr[t]) ELSE tr[t]
    IN  /\ ws[s] # "closed" /\ (ws[s] = "connecting" => failed)
        /\ ws' = [ws EXCEPT ![s] = "closed"]
        /\ registry' = Unregister(t)
        /\ tr' = [tr EXCEPT ![t] = IF reason = "auth" THEN [r EXCEPT !.status = "other"]
                                                      ELSE HandleDisconnect(r)]
        /\ owner' = [owner EXCEPT ![s] = None]
        /\ UNCHANGED orphaned

\* onmessage: a key frame with parameter sets configures the decoder if it is
\* not ready (or fails to); a frame the decoder is ready for is decoded, and
\* decode may throw.
Frame(s, key) ==
    LET t == owner[s]
    IN  /\ ws[s] = "open"
        /\ \/ /\ tr[t].decoder = None /\ key
              /\ \/ tr' = [tr EXCEPT ![t].decoder = s]
                 \/ tr' = [tr EXCEPT ![t].status = "other"]
           \/ /\ tr[t].decoder # None
              /\ tr' = [tr EXCEPT ![t] = ResetDecoder(@)]
        /\ UNCHANGED <<registry, ws, owner, orphaned>>

\* The decoder's error callback.
DecoderFails(t) ==
    /\ tr[t].decoder # None
    /\ tr' = [tr EXCEPT ![t] = [ResetDecoder(@) EXCEPT !.status = "other"]]
    /\ UNCHANGED <<registry, ws, owner, orphaned>>

=============================================================================
