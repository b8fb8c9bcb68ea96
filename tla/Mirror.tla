------------------------------- MODULE Mirror -------------------------------
(***************************************************************************)
(* A mirror from end to end: the transports of one instance's screens      *)
(* (MirrorClient) and the handlers that serve their sockets (MirrorStream, *)
(* a connection for each socket).  The network may fail a connection at    *)
(* any time, to each end in its own time.  A socket's name is used again   *)
(* when both ends are done with it.                                        *)
(***************************************************************************)
EXTENDS MirrorClient

CONSTANTS MaxStray      \* a transport with that many stray timers opens no more

ASSUME MirrorAssumption == MaxStray \in Nat \ {0}

VARIABLES main, reader, cancelled, conn, frame

Server == INSTANCE MirrorStream WITH Conns <- Sockets

serverVars == <<main, reader, cancelled, conn, frame>>
vars == <<clientVars, serverVars>>

TypeOK == ClientTypeOK /\ Server!StreamTypeOK

Init == ClientInit /\ Server!StreamInit

\* Both ends are done with these: any one of them names the next socket.
Done == {s \in Sockets : /\ ws[s] = "closed" /\ main[s] \in {"none", "ended"}
                         /\ \A t \in Transports : tr[t].decoder # s}
Pool == IF Done = {} THEN {} ELSE {CHOOSE s \in Done : TRUE}

-----------------------------------------------------------------------------
(* The browser.                                                            *)

\* A new socket's name starts a life in which no handler serves it yet.
Opens ==
    /\ main' = [s \in Sockets |-> IF ws[s] = "closed" /\ ws'[s] # "closed"
                                  THEN "none" ELSE main[s]]
    /\ UNCHANGED <<reader, cancelled, conn, frame>>

Mount(t)   == Connect(t, Pool) /\ Opens
Timer(t)   == TimerFires(t, Pool) /\ Opens
Unmount(t) == Disconnect(t) /\ UNCHANGED serverVars
Decoder(t) == DecoderFails(t) /\ UNCHANGED serverVars

\* Each opening lets a transport fail anew and leave more timers behind: the
\* server accepts only while few are (bound).
Accepted(s) ==
    /\ ws[s] = "connecting" /\ main[s] # "none"
    /\ tr[owner[s]].stray < MaxStray
    /\ Opened(s) /\ UNCHANGED serverVars

\* The connection's end as the browser sees it.
Ends(s) ==
    /\ \E failed \in BOOLEAN : Closed(s, failed, frame[s])
    /\ UNCHANGED serverVars

Receive(s) ==
    /\ main[s] = "streaming"
    /\ \E key \in BOOLEAN : Frame(s, key)
    /\ UNCHANGED serverVars

-----------------------------------------------------------------------------
(* The server.                                                             *)

Serve(s) ==
    /\ ws[s] \in {"connecting", "closing"} /\ Server!Upgrade(s)
    /\ UNCHANGED clientVars

\* A connection that breaks is noticed by the client first, or ends the
\* stream's writes: the read fails when either end has closed it.
Broken(s) == ~conn[s] \/ ws[s] \in {"closing", "closed"}

ReadFails(s) == Broken(s) /\ Server!ReadFails(s) /\ UNCHANGED clientVars

\* While the connection is sound a touch hinders nobody: one that is under way
\* when it breaks is taken to begin then.
Touch(s) ==
    /\ Broken(s) /\ ws[s] # "connecting" /\ Server!Dispatch(s)
    /\ UNCHANGED clientVars

Handler(s) ==
    /\ Server!StreamReturns(s) \/ Server!Join(s)
    /\ UNCHANGED clientVars

Next ==
    \/ \E t \in Transports : Mount(t) \/ Timer(t) \/ Unmount(t) \/ Decoder(t)
    \/ \E s \in Sockets : \/ Accepted(s) \/ Ends(s) \/ Receive(s)
                          \/ Serve(s) \/ ReadFails(s) \/ Touch(s) \/ Handler(s)

Spec == Init /\ [][Next]_vars

\* What is certain to happen: timers fire; a connection that is being made or
\* closed, or that the server has closed, comes to its end; a read that must
\* fail does, unless the reader is in a touch; a handler whose reader has ended
\* returns.  A client need not act, a device need not end its session, an open
\* connection need not break, and neither a touch nor a stream is assumed to
\* return.
Fairness ==
    /\ \A t \in Transports : WF_vars(Timer(t))
    /\ \A s \in Sockets :
         /\ WF_vars(~(ws[s] = "open" /\ conn[s]) /\ (Accepted(s) \/ Ends(s)))
         /\ WF_vars(reader[s] = "reading" /\ ReadFails(s))
         /\ WF_vars(Server!Join(s) /\ UNCHANGED clientVars)

FairSpec == Spec /\ Fairness

-----------------------------------------------------------------------------
(* Properties.                                                             *)

\* Control frames of a screen go to a transport with an open socket or to
\* nobody: a registration never outlives the last open socket behind it
\* (transport-registry.ts and the callbacks that call it).
RegisteredHasAnOpenSocket ==
    registry # None => \E s \in Sockets : ws[s] = "open" /\ owner[s] = registry

\* Unless a socket was ever overwritten while alive (two timers pending, see
\* orphaned): a transport whose stream is open is the one registered, so the
\* late close of the transport before it has not taken its place
\* (transport-registry.ts:14).
OpenIsRegistered ==
    ~orphaned => \A t \in Transports : tr[t].status = "open" => registry = t

\* Unless orphaned: frames are decoded by a decoder that a key frame of the
\* same stream configured, never by what a dropped stream left
\* (handleDisconnect, ensureDecoder).
DecoderBelongsToStream ==
    ~orphaned => \A t \in Transports :
        LET d == tr[t].decoder
        IN  d # None => d = tr[t].socket /\ ws[d] = "open" /\ owner[d] = t

\* Unless orphaned: after disconnect a transport holds nothing, and no socket
\* of its is or becomes open; what it had is closing.
DisconnectReleases ==
    ~orphaned => \A t \in Transports : tr[t].opts = "null" =>
        /\ tr[t].decoder = None /\ registry # t
        /\ \A s \in Sockets : owner[s] = t => ws[s] \in {"closing", "closed"}

\* The timers that disconnect could not clear open no socket (openSocket's
\* check of currentOpts).
NoSocketAfterDisconnect ==
    [][\A s \in Sockets : ws[s] = "closed" /\ ws'[s] = "connecting"
           => tr[owner'[s]].opts # "null"]_vars

\* What the code puts no deadline on, as premises: a touch that a reader
\* dispatches returns; a stream returns when its context is cancelled (the
\* deferred detach waits for the session manager's actor, which may be in an
\* open).
TouchesReturn == \A s \in Sockets : []<>(reader[s] # "touching")
StreamsReturn == \A s \in Sockets : []<>(main[s] # "streaming" \/ ~cancelled[s])

\* When from some time on no socket opens, every transport gives up: the retry
\* limit ends all its timers, however many of them run at once.  (The premises
\* on the server are there because the few names of sockets are used again only
\* when both ends are done with them.)
GivesUp ==
    TouchesReturn /\ StreamsReturn /\ <>[](\A s \in Sockets : ws[s] # "open")
        => <>[](/\ \A s \in Sockets : ws[s] = "closed"
                /\ \A t \in Transports : ~tr[t].armed /\ tr[t].stray = 0)

\* Neither goroutine of a handler waits for ever on the other: once the stream
\* has returned or the client has closed, both end, if touches and streams
\* return.
HandlerEnds ==
    TouchesReturn /\ StreamsReturn =>
        \A s \in Sockets :
            (main[s] = "joining" \/ (main[s] # "none" /\ ws[s] \in {"closing", "closed"}))
                ~> (main[s] \in {"none", "ended"} /\ reader[s] = "ended")

=============================================================================
