---------------------------- MODULE MirrorProofs ----------------------------
(***************************************************************************)
(* The safety of a mirror, for every number of transports and sockets and  *)
(* every retry limit.                                                      *)
(***************************************************************************)
EXTENDS Mirror, TLAPS

USE ClientAssumption, MirrorAssumption

-----------------------------------------------------------------------------
(* Types.                                                                  *)

\* What the methods of a transport make of its fields are fields again.
LEMMA MethodTypes ==
    ASSUME NEW r \in Transport
    PROVE  ResetDecoder(r) \in Transport /\ HandleDisconnect(r) \in Transport
<1>1. ResetDecoder(r) \in Transport
  BY DEF ResetDecoder, Transport
<1>2. HandleDisconnect(r) \in Transport
  <2> DEFINE n == IF r.attempts > MaxAttempts THEN r.attempts ELSE r.attempts + 1
             q == [ResetDecoder(r) EXCEPT !.attempts = n]
  <2>1. r.attempts \in 0..MaxAttempts + 1 /\ n \in 0..MaxAttempts + 1
    BY DEF Transport
  <2> HIDE DEF n
  <2>2. q \in Transport /\ q.stray + 1 \in Nat
    BY <1>1, <2>1 DEF Transport
  <2> HIDE DEF q
  <2>3. /\ [q EXCEPT !.status = "other"] \in Transport
        /\ [q EXCEPT !.status = "other", !.armed = TRUE,
                     !.stray = IF q.armed THEN @ + 1 ELSE @] \in Transport
    BY <2>2 DEF Transport
  <2> QED BY <2>3 DEF HandleDisconnect, n, q
<1> QED BY <1>1, <1>2

\* The edits the callbacks make are fields, too.
LEMMA EditTypes ==
    ASSUME NEW r \in Transport
    PROVE  /\ [r EXCEPT !.opts = "set", !.attempts = 0] \in Transport
           /\ [r EXCEPT !.armed = FALSE] \in Transport
           /\ r.stray > 0 => [r EXCEPT !.stray = @ - 1] \in Transport
           /\ [r EXCEPT !.opts = "null", !.attempts = 0, !.armed = FALSE,
                        !.socket = None, !.status = "other"] \in Transport
           /\ [r EXCEPT !.attempts = 0, !.status = "open"] \in Transport
           /\ [r EXCEPT !.status = "other"] \in Transport
           /\ \A s \in Sockets :
                /\ [r EXCEPT !.decoder = s] \in Transport
                /\ [r EXCEPT !.status = "other", !.socket = s] \in Transport
<1>0. 0 \in 0..MaxAttempts + 1
  OBVIOUS
<1>1. [r EXCEPT !.opts = "set", !.attempts = 0] \in Transport
  BY <1>0 DEF Transport
<1>2. [r EXCEPT !.armed = FALSE] \in Transport
  BY DEF Transport
<1>3. r.stray > 0 => [r EXCEPT !.stray = @ - 1] \in Transport
  BY DEF Transport
<1>4. [r EXCEPT !.opts = "null", !.attempts = 0, !.armed = FALSE,
               !.socket = None, !.status = "other"] \in Transport
  BY <1>0 DEF Transport
<1>5. [r EXCEPT !.attempts = 0, !.status = "open"] \in Transport
  BY <1>0 DEF Transport
<1>6. [r EXCEPT !.status = "other"] \in Transport
  BY DEF Transport
<1>7. ASSUME NEW s \in Sockets
      PROVE  /\ [r EXCEPT !.decoder = s] \in Transport
             /\ [r EXCEPT !.status = "other", !.socket = s] \in Transport
  BY DEF Transport
<1> QED BY <1>1, <1>2, <1>3, <1>4, <1>5, <1>6, <1>7

\* The pool names closed sockets of the set.
LEMMA PoolFree == Pool \subseteq Done
<1>1. CASE Done = {}
  BY <1>1 DEF Pool
<1>2. CASE Done # {}
  BY <1>2 DEF Pool
<1> QED BY <1>1, <1>2

\* Opening a socket for fields that are well typed keeps the types.
LEMMA OpenSocketTypes ==
    ASSUME ClientTypeOK, NEW t \in Transports, NEW r \in Transport, OpenSocket(t, r, Pool)
    PROVE  /\ tr' \in [Transports -> Transport]
           /\ ws' \in [Sockets -> {"connecting", "open", "closing", "closed"}]
           /\ owner' \in [Sockets -> Transports \cup {None}]
           /\ \A s \in Sockets : ws'[s] # "closed" => owner'[s] \in Transports
           /\ orphaned' \in BOOLEAN
<1> USE DEF ClientTypeOK
<1>1. CASE r.opts # "set"
  BY <1>1 DEF OpenSocket
<1>2. CASE \E s \in Pool :
             /\ tr' = [tr EXCEPT ![t] = [r EXCEPT !.status = "other", !.socket = s]]
             /\ ws' = [ws EXCEPT ![s] = "connecting"]
             /\ owner' = [owner EXCEPT ![s] = t]
             /\ orphaned' = (orphaned \/ Lives(r.socket))
  <2>1. PICK s \in Pool :
          /\ tr' = [tr EXCEPT ![t] = [r EXCEPT !.status = "other", !.socket = s]]
          /\ ws' = [ws EXCEPT ![s] = "connecting"]
          /\ owner' = [owner EXCEPT ![s] = t]
          /\ orphaned' = (orphaned \/ Lives(r.socket))
    BY <1>2
  <2>2. s \in Sockets
    BY PoolFree DEF Done
  <2>3. [r EXCEPT !.status = "other", !.socket = s] \in Transport
    BY <2>2, EditTypes
  <2>4. orphaned' \in BOOLEAN
    BY <2>1, Zenon DEF Lives
  <2> QED BY <2>1, <2>2, <2>3, <2>4
<1>3. CASE /\ tr' = [tr EXCEPT ![t] = HandleDisconnect([r EXCEPT !.status = "other"])]
           /\ UNCHANGED <<ws, owner, orphaned>>
  <2>1. HandleDisconnect([r EXCEPT !.status = "other"]) \in Transport
    BY EditTypes, MethodTypes
  <2> QED BY <1>3, <2>1
<1> QED BY <1>1, <1>2, <1>3 DEF OpenSocket

LEMMA InitTypes == Init => TypeOK
<1> SUFFICES ASSUME Init PROVE TypeOK
  OBVIOUS
<1>1. NewTransport \in Transport
  BY DEF NewTransport, Transport
<1>2. ClientTypeOK
  BY <1>1 DEF Init, ClientInit, ClientTypeOK
<1>3. Server!StreamTypeOK
  BY DEF Init, Server!StreamInit, Server!StreamTypeOK, Server!Reasons
<1> QED BY <1>2, <1>3 DEF TypeOK

LEMMA StepTypes == TypeOK /\ [Next]_vars => TypeOK'
<1> SUFFICES ASSUME TypeOK, [Next]_vars PROVE TypeOK'
  OBVIOUS
<1> USE DEF TypeOK
<1>0. \A t \in Transports : tr[t] \in Transport
  BY DEF ClientTypeOK
<1>1. ASSUME UNCHANGED clientVars PROVE ClientTypeOK'
  BY <1>1 DEF clientVars, ClientTypeOK
<1>2. ASSUME UNCHANGED serverVars PROVE Server!StreamTypeOK'
  BY <1>2 DEF serverVars, Server!StreamTypeOK
<1>3. ASSUME Opens PROVE Server!StreamTypeOK'
  BY <1>3 DEF Opens, Server!StreamTypeOK
<1>4. ASSUME NEW t \in Transports, Mount(t) PROVE TypeOK'
  <2>1. [tr[t] EXCEPT !.opts = "set", !.attempts = 0] \in Transport
    BY <1>0, EditTypes
  <2>2. ClientTypeOK'
    BY <1>4, <2>1, OpenSocketTypes DEF Mount, Connect, ClientTypeOK
  <2> QED BY <1>3, <1>4, <2>2 DEF Mount
<1>5. ASSUME NEW t \in Transports, Timer(t) PROVE TypeOK'
  <2>1. [tr[t] EXCEPT !.armed = FALSE] \in Transport
    BY <1>0, EditTypes
  <2>2. tr[t].stray > 0 => [tr[t] EXCEPT !.stray = @ - 1] \in Transport
    BY <1>0, EditTypes
  <2>3. ClientTypeOK'
    BY <1>5, <2>1, <2>2, OpenSocketTypes DEF Timer, TimerFires, ClientTypeOK
  <2> QED BY <1>3, <1>5, <2>3 DEF Timer
<1>6. ASSUME NEW t \in Transports, Unmount(t) PROVE TypeOK'
  <2>1. [ResetDecoder(tr[t]) EXCEPT !.opts = "null", !.attempts = 0, !.armed = FALSE,
                                    !.socket = None, !.status = "other"] \in Transport
    BY <1>0, MethodTypes, EditTypes
  <2>2. ClientTypeOK'
    BY <1>6, <2>1 DEF Unmount, Disconnect, Unregister, ClientTypeOK
  <2> QED BY <1>2, <1>6, <2>2 DEF Unmount
<1>7. ASSUME NEW t \in Transports, Decoder(t) PROVE TypeOK'
  <2>1. [ResetDecoder(tr[t]) EXCEPT !.status = "other"] \in Transport
    BY <1>0, MethodTypes, EditTypes
  <2>2. ClientTypeOK'
    BY <1>7, <2>1 DEF Decoder, DecoderFails, ClientTypeOK
  <2> QED BY <1>2, <1>7, <2>2 DEF Decoder
<1>8. ASSUME NEW s \in Sockets, Accepted(s) PROVE TypeOK'
  <2>1. owner[s] \in Transports
    BY <1>8 DEF Accepted, ClientTypeOK
  <2>2. [tr[owner[s]] EXCEPT !.attempts = 0, !.status = "open"] \in Transport
    BY <2>1, <1>0, EditTypes
  <2>3. tr' = [tr EXCEPT ![owner[s]] = [tr[owner[s]] EXCEPT !.attempts = 0, !.status = "open"]]
    BY <1>8, <2>1 DEF Accepted, Opened, ClientTypeOK
  <2>4. ClientTypeOK'
    BY <1>8, <2>1, <2>2, <2>3 DEF Accepted, Opened, ClientTypeOK
  <2> QED BY <1>2, <1>8, <2>4 DEF Accepted
<1>9. ASSUME NEW s \in Sockets, Ends(s) PROVE TypeOK'
  <2>1. PICK failed \in BOOLEAN : Closed(s, failed, frame[s])
    BY <1>9 DEF Ends
  <2>2. owner[s] \in Transports
    BY <2>1 DEF Closed, ClientTypeOK
  <2> DEFINE t == owner[s]
             r == IF failed THEN HandleDisconnect(tr[t]) ELSE tr[t]
             q == IF frame[s] = "auth" THEN [r EXCEPT !.status = "other"] ELSE HandleDisconnect(r)
  <2>3. r \in Transport
    BY <2>2, MethodTypes DEF ClientTypeOK
  <2>4. q \in Transport
    BY <2>3, MethodTypes DEF Transport
  <2>5. tr' = [tr EXCEPT ![t] = q]
    BY <2>1 DEF Closed
  <2> HIDE DEF q
  <2>6. ClientTypeOK'
    BY <2>1, <2>2, <2>4, <2>5 DEF Closed, Unregister, ClientTypeOK
  <2> QED BY <1>2, <1>9, <2>6 DEF Ends
<1>10. ASSUME NEW s \in Sockets, Receive(s) PROVE TypeOK'
  <2>1. owner[s] \in Transports
    BY <1>10 DEF Receive, Frame, ClientTypeOK
  <2>2. /\ ResetDecoder(tr[owner[s]]) \in Transport
        /\ [tr[owner[s]] EXCEPT !.decoder = s] \in Transport
        /\ [tr[owner[s]] EXCEPT !.status = "other"] \in Transport
    BY <2>1, <1>0, MethodTypes, EditTypes
  <2>3. ClientTypeOK'
    BY <1>10, <2>1, <2>2 DEF Receive, Frame, ClientTypeOK
  <2> QED BY <1>2, <1>10, <2>3 DEF Receive
<1>11. ASSUME NEW s \in Sockets, Serve(s) \/ ReadFails(s) \/ Touch(s) \/ Handler(s)
       PROVE  TypeOK'
  <2>1. Server!StreamTypeOK'
    BY <1>11 DEF Serve, ReadFails, Touch, Handler, Server!Upgrade, Server!ReadFails,
                 Server!Dispatch, Server!StreamReturns, Server!Returns, Server!Join, Server!StreamTypeOK,
                 Server!Reasons
  <2> QED BY <1>1, <1>11, <2>1 DEF Serve, ReadFails, Touch, Handler
<1>12. CASE UNCHANGED vars
  BY <1>1, <1>2, <1>12 DEF vars
<1> QED
  BY <1>4, <1>5, <1>6, <1>7, <1>8, <1>9, <1>10, <1>11, <1>12 DEF Next

\* The state of both ends keeps its types.
THEOREM TypeCorrect == Spec => []TypeOK
BY InitTypes, StepTypes, PTL DEF Spec

-----------------------------------------------------------------------------
(* The inductive invariant.                                                *)

\* At most one transport is connected, and only that one keeps a socket, which
\* is its own while it lives.
OneConnected ==
    /\ \A t, u \in Transports : tr[t].opts = "set" /\ tr[u].opts = "set" => t = u
    /\ \A t \in Transports : tr[t].opts # "set" => tr[t].socket = None
    /\ \A t \in Transports, s \in Sockets :
         tr[t].socket = s /\ ws[s] # "closed" => owner[s] = t

\* No close frame of the server is ever on the wire: the connection is closed in
\* front of it.
NoCloseFrame ==
    \A s \in Sockets : frame[s] = "" /\ (main[s] = "joining" => ~conn[s])

\* Unless orphaned: a socket that is or may become open is the one its transport
\* keeps, and a transport whose status is open is connected.
KeepsItsSocket ==
    ~orphaned =>
      /\ \A s \in Sockets : ws[s] \in {"connecting", "open"} =>
            tr[owner[s]].opts = "set" /\ tr[owner[s]].socket = s
      /\ \A t \in Transports : tr[t].status = "open" => tr[t].opts = "set"

IInv == /\ TypeOK /\ OneConnected /\ NoCloseFrame /\ KeepsItsSocket
        /\ RegisteredHasAnOpenSocket /\ OpenIsRegistered /\ DecoderBelongsToStream

LEMMA InitIInv == Init => IInv
<1> SUFFICES ASSUME Init PROVE IInv
  OBVIOUS
<1>1. TypeOK
  BY InitTypes
<1>2. \A t \in Transports : /\ tr[t].opts = "new" /\ tr[t].socket = None
                            /\ tr[t].decoder = None /\ tr[t].status = "other"
  BY DEF Init, ClientInit, NewTransport
<1>3. registry = None /\ (\A s \in Sockets : ws[s] = "closed")
  BY DEF Init, ClientInit
<1>4. \A s \in Sockets : frame[s] = "" /\ main[s] = "ended"
  BY DEF Init, Server!StreamInit
<1> QED
  BY <1>1, <1>2, <1>3, <1>4 DEF IInv, OneConnected, NoCloseFrame, KeepsItsSocket,
     RegisteredHasAnOpenSocket, OpenIsRegistered, DecoderBelongsToStream

\* What disconnecting does to the fields that the invariant reads.
LEMMA HandleDisconnectFields ==
    ASSUME NEW r \in Transport
    PROVE  LET q == HandleDisconnect(r)
           IN  /\ q.opts = r.opts /\ q.socket = r.socket
               /\ r.opts = "set" => q.decoder = None /\ q.status = "other"
               /\ r.opts # "set" => q = r
<1> DEFINE n == IF r.attempts > MaxAttempts THEN r.attempts ELSE r.attempts + 1
           q == [ResetDecoder(r) EXCEPT !.attempts = n]
<1>1. q.opts = r.opts /\ q.socket = r.socket /\ q.decoder = None
  BY DEF Transport, ResetDecoder
<1>2. DOMAIN q = {"opts", "attempts", "armed", "stray", "socket", "decoder", "status"}
  BY DEF Transport, ResetDecoder
<1> HIDE DEF q, n
<1>3. CASE r.opts # "set"
  BY <1>3 DEF HandleDisconnect
<1>4. CASE r.opts = "set" /\ n > MaxAttempts
  BY <1>1, <1>2, <1>4 DEF HandleDisconnect, q, n
<1>5. CASE r.opts = "set" /\ ~(n > MaxAttempts)
  BY <1>1, <1>2, <1>5 DEF HandleDisconnect, q, n
<1> QED BY <1>3, <1>4, <1>5

\* A connected transport opens a socket: every older one that might be in its
\* way is alive, and overwritten.
LEMMA SocketKeepsIInv ==
    ASSUME IInv, NEW t \in Transports, NEW r \in Transport, r.opts = "set",
           r.socket = tr[t].socket, r.decoder = tr[t].decoder,
           \A u \in Transports : tr[u].opts = "set" => u = t,
           NEW s \in Pool,
           tr' = [tr EXCEPT ![t] = [r EXCEPT !.status = "other", !.socket = s]],
           ws' = [ws EXCEPT ![s] = "connecting"], owner' = [owner EXCEPT ![s] = t],
           orphaned' = (orphaned \/ Lives(r.socket)),
           Opens, registry' = registry, TypeOK'
    PROVE  IInv'
<1> USE DEF IInv
<1>2. s \in Sockets /\ ws[s] = "closed" /\ (\A u \in Transports : tr[u].decoder # s)
  BY PoolFree DEF Done
<1>3. /\ tr'[t].opts = "set" /\ tr'[t].socket = s /\ tr'[t].decoder = tr[t].decoder
      /\ tr'[t].status = "other"
      /\ \A u \in Transports \ {t} : tr'[u] = tr[u]
  BY DEF TypeOK, ClientTypeOK, Transport
<1>4. /\ ws'[s] = "connecting" /\ owner'[s] = t
      /\ \A x \in Sockets \ {s} : ws'[x] = ws[x] /\ owner'[x] = owner[x]
  BY <1>2 DEF TypeOK, ClientTypeOK
<1>5. ~orphaned' => ~orphaned /\ ~Lives(tr[t].socket)
  OBVIOUS
<1>6. OneConnected'
  BY <1>2, <1>3, <1>4 DEF OneConnected
<1>7. NoCloseFrame'
  BY DEF Opens, NoCloseFrame
<1>8. KeepsItsSocket'
  <2>1. ASSUME ~orphaned', NEW x \in Sockets, ws'[x] \in {"connecting", "open"}
        PROVE  tr'[owner'[x]].opts = "set" /\ tr'[owner'[x]].socket = x
    <3>1. CASE x = s
      BY <1>3, <1>4, <3>1
    <3>2. CASE x # s
      <4>1. owner[x] \in Transports /\ ws[x] \in {"connecting", "open"}
        BY <1>4, <2>1, <3>2 DEF TypeOK, ClientTypeOK
      <4>2. tr[owner[x]].opts = "set" /\ tr[owner[x]].socket = x
        BY <1>5, <2>1, <4>1 DEF KeepsItsSocket
      <4>3. Lives(tr[t].socket)
        BY <4>1, <4>2 DEF Lives
      <4> QED BY <1>5, <2>1, <4>3
    <3> QED BY <3>1, <3>2
  <2>2. ASSUME ~orphaned', NEW u \in Transports, tr'[u].status = "open"
        PROVE  tr'[u].opts = "set"
    BY <1>3, <1>5, <2>2 DEF KeepsItsSocket
  <2> QED BY <2>1, <2>2 DEF KeepsItsSocket
<1>9. RegisteredHasAnOpenSocket'
  BY <1>2, <1>4 DEF RegisteredHasAnOpenSocket
<1>10. OpenIsRegistered'
  BY <1>3, <1>5 DEF OpenIsRegistered
<1>11. DecoderBelongsToStream'
  <2>1. ASSUME ~orphaned', NEW u \in Transports, tr'[u].decoder # None
        PROVE  LET d == tr'[u].decoder
               IN  d = tr'[u].socket /\ ws'[d] = "open" /\ owner'[d] = u
    <3>1. tr'[u].decoder = tr[u].decoder /\ tr[u].decoder \in Sockets
      BY <1>3, <2>1 DEF TypeOK, ClientTypeOK, Transport
    <3>2. /\ tr[u].decoder = tr[u].socket /\ ws[tr[u].decoder] = "open"
          /\ owner[tr[u].decoder] = u
      BY <1>5, <2>1, <3>1 DEF DecoderBelongsToStream
    <3>3. u # t
      BY <1>5, <2>1, <3>1, <3>2 DEF Lives
    <3> QED BY <1>2, <1>3, <1>4, <3>1, <3>2, <3>3
  <2> QED BY <2>1 DEF DecoderBelongsToStream
<1> QED BY <1>6, <1>7, <1>8, <1>9, <1>10, <1>11

\* The constructor throws: the decoder is gone, the old socket is still kept.
LEMMA ThrowKeepsIInv ==
    ASSUME IInv, NEW t \in Transports, NEW r \in Transport, r.opts = "set",
           r.socket = tr[t].socket,
           \A u \in Transports : tr[u].opts = "set" => u = t,
           tr' = [tr EXCEPT ![t] = HandleDisconnect([r EXCEPT !.status = "other"])],
           UNCHANGED <<ws, owner, orphaned>>, Opens, registry' = registry, TypeOK'
    PROVE  IInv'
<1> USE DEF IInv
<1> DEFINE p == [r EXCEPT !.status = "other"]
           q == HandleDisconnect(p)
<1>1. p \in Transport /\ p.opts = "set" /\ p.socket = tr[t].socket
  BY DEF Transport
<1> HIDE DEF p
<1>2. q.opts = "set" /\ q.socket = tr[t].socket /\ q.decoder = None /\ q.status = "other"
  BY <1>1, HandleDisconnectFields
<1>3. tr'[t] = q /\ \A u \in Transports \ {t} : tr'[u] = tr[u]
  BY DEF p, TypeOK, ClientTypeOK
<1> HIDE DEF q
<1>4. \A x \in Sockets : ws[x] # "closed" => owner[x] \in Transports
  BY DEF TypeOK, ClientTypeOK
<1>5. OneConnected'
  BY <1>2, <1>3 DEF OneConnected
<1>6. NoCloseFrame'
  BY DEF Opens, NoCloseFrame
<1>7. KeepsItsSocket'
  BY <1>2, <1>3, <1>4 DEF KeepsItsSocket
<1>8. RegisteredHasAnOpenSocket' /\ OpenIsRegistered'
  BY <1>2, <1>3 DEF RegisteredHasAnOpenSocket, OpenIsRegistered
<1>9. DecoderBelongsToStream'
  BY <1>2, <1>3 DEF DecoderBelongsToStream
<1> QED BY <1>5, <1>6, <1>7, <1>8, <1>9

LEMMA OpeningKeepsIInv ==
    ASSUME IInv, NEW t \in Transports, NEW r \in Transport, r.opts = "set",
           r.socket = tr[t].socket, r.decoder = tr[t].decoder,
           \A u \in Transports : tr[u].opts = "set" => u = t,
           OpenSocket(t, r, Pool), Opens, registry' = registry, TypeOK'
    PROVE  IInv'
<1>1. CASE /\ tr' = [tr EXCEPT ![t] = HandleDisconnect([r EXCEPT !.status = "other"])]
           /\ UNCHANGED <<ws, owner, orphaned>>
  BY <1>1, ThrowKeepsIInv
<1>2. CASE \E s \in Pool :
             /\ tr' = [tr EXCEPT ![t] = [r EXCEPT !.status = "other", !.socket = s]]
             /\ ws' = [ws EXCEPT ![s] = "connecting"]
             /\ owner' = [owner EXCEPT ![s] = t]
             /\ orphaned' = (orphaned \/ Lives(r.socket))
  BY <1>2, SocketKeepsIInv
<1> QED BY <1>1, <1>2 DEF OpenSocket

\* A timer of a transport that is no longer connected opens nothing.
LEMMA IdleTimerKeepsIInv ==
    ASSUME IInv, NEW t \in Transports, NEW r \in Transport, r.opts # "set", r.opts = tr[t].opts,
           r.socket = tr[t].socket, r.decoder = tr[t].decoder, r.status = tr[t].status,
           OpenSocket(t, r, Pool), Opens, registry' = registry, TypeOK'
    PROVE  IInv'
<1> USE DEF IInv
<1>1. /\ tr' = [tr EXCEPT ![t] = r] /\ UNCHANGED <<ws, owner, orphaned>>
  BY DEF OpenSocket
<1>2. \A u \in Transports : /\ tr'[u].opts = tr[u].opts /\ tr'[u].socket = tr[u].socket
                            /\ tr'[u].decoder = tr[u].decoder /\ tr'[u].status = tr[u].status
  BY <1>1 DEF TypeOK, ClientTypeOK
<1>3. OneConnected'
  BY <1>1, <1>2 DEF OneConnected
<1>4. NoCloseFrame'
  BY DEF Opens, NoCloseFrame
<1>5. \A x \in Sockets : ws[x] # "closed" => owner[x] \in Transports
  BY DEF TypeOK, ClientTypeOK
<1>6. KeepsItsSocket'
  BY <1>1, <1>2, <1>5 DEF KeepsItsSocket
<1>7. RegisteredHasAnOpenSocket' /\ OpenIsRegistered' /\ DecoderBelongsToStream'
  BY <1>1, <1>2 DEF RegisteredHasAnOpenSocket, OpenIsRegistered, DecoderBelongsToStream
<1> QED BY <1>3, <1>4, <1>6, <1>7

\* A step of the server leaves the browser alone and puts no close frame on the
\* wire.
LEMMA ServerKeepsIInv ==
    ASSUME IInv, NEW s \in Sockets, TypeOK',
           Serve(s) \/ ReadFails(s) \/ Touch(s) \/ Handler(s)
    PROVE  IInv'
<1> USE DEF IInv
<1>1. UNCHANGED clientVars
  BY DEF Serve, ReadFails, Touch, Handler
<1>2. /\ main \in [Sockets -> {"none", "streaming", "joining", "ended"}]
      /\ conn \in [Sockets -> BOOLEAN] /\ frame \in [Sockets -> {"", "auth", "other"}]
  BY DEF TypeOK, Server!StreamTypeOK, Server!Reasons
<1>3. ASSUME Serve(s) \/ ReadFails(s) \/ Touch(s) PROVE NoCloseFrame'
  BY <1>2, <1>3 DEF Serve, ReadFails, Touch, Server!Upgrade, Server!ReadFails,
                    Server!Dispatch, NoCloseFrame
<1>4. ASSUME Server!StreamReturns(s) PROVE NoCloseFrame'
  BY <1>2, <1>4 DEF Server!StreamReturns, Server!Returns, NoCloseFrame
<1>5. ASSUME Server!Join(s) PROVE NoCloseFrame'
  BY <1>2, <1>5 DEF Server!Join, NoCloseFrame
<1>6. NoCloseFrame'
  BY <1>3, <1>4, <1>5 DEF Handler
<1> QED
  BY <1>1, <1>6 DEF clientVars, OneConnected, KeepsItsSocket, RegisteredHasAnOpenSocket,
     OpenIsRegistered, DecoderBelongsToStream

\* The unmount of a screen.
LEMMA UnmountKeepsIInv ==
    ASSUME IInv, NEW t \in Transports, Unmount(t), TypeOK'
    PROVE  IInv'
<1> USE DEF IInv
<1>1. /\ tr[t].opts = "set" /\ UNCHANGED <<owner, orphaned>> /\ UNCHANGED serverVars
      /\ registry' = Unregister(t)
      /\ ws' = [x \in Sockets |-> IF x = tr[t].socket /\ ws[x] # "closed"
                                  THEN "closing" ELSE ws[x]]
  BY DEF Unmount, Disconnect
<1>2. /\ tr'[t].opts = "null" /\ tr'[t].socket = None /\ tr'[t].decoder = None
      /\ tr'[t].status = "other"
      /\ \A u \in Transports \ {t} : tr'[u] = tr[u]
  <2> DEFINE q == ResetDecoder(tr[t])
             r == [q EXCEPT !.opts = "null", !.attempts = 0, !.armed = FALSE,
                            !.socket = None, !.status = "other"]
  <2>1. tr' = [tr EXCEPT ![t] = r]
    BY DEF Unmount, Disconnect
  <2>2. q \in Transport /\ q.decoder = None
    BY MethodTypes DEF TypeOK, ClientTypeOK, ResetDecoder, Transport
  <2> HIDE DEF q
  <2>3. r.opts = "null" /\ r.socket = None /\ r.decoder = None /\ r.status = "other"
    BY <2>2 DEF Transport
  <2> QED BY <2>1, <2>3 DEF TypeOK, ClientTypeOK
<1>3. OneConnected'
  BY <1>1, <1>2 DEF OneConnected
<1>4. NoCloseFrame'
  BY <1>1 DEF serverVars, NoCloseFrame
<1>5. KeepsItsSocket'
  <2>1. ASSUME ~orphaned', NEW x \in Sockets, ws'[x] \in {"connecting", "open"}
        PROVE  tr'[owner'[x]].opts = "set" /\ tr'[owner'[x]].socket = x
    <3>1. x # tr[t].socket /\ ws[x] \in {"connecting", "open"} /\ owner[x] \in Transports
      BY <1>1, <2>1 DEF TypeOK, ClientTypeOK
    <3>2. tr[owner[x]].opts = "set" /\ tr[owner[x]].socket = x
      BY <1>1, <2>1, <3>1 DEF KeepsItsSocket
    <3> QED BY <1>1, <1>2, <3>1, <3>2
  <2>2. ASSUME ~orphaned', NEW u \in Transports, tr'[u].status = "open"
        PROVE  tr'[u].opts = "set"
    BY <1>1, <1>2, <2>2 DEF KeepsItsSocket
  <2> QED BY <2>1, <2>2 DEF KeepsItsSocket
<1>6. RegisteredHasAnOpenSocket'
  <2>1. ASSUME registry' # None PROVE \E x \in Sockets : ws'[x] = "open" /\ owner'[x] = registry'
    <3>1. registry # t /\ registry' = registry
      BY <1>1, <2>1 DEF Unregister
    <3>2. PICK x \in Sockets : ws[x] = "open" /\ owner[x] = registry
      BY <2>1, <3>1 DEF RegisteredHasAnOpenSocket
    <3>3. x # tr[t].socket
      BY <3>1, <3>2 DEF OneConnected
    <3> QED BY <1>1, <3>1, <3>2, <3>3
  <2> QED BY <2>1 DEF RegisteredHasAnOpenSocket
<1>7. OpenIsRegistered'
  BY <1>1, <1>2 DEF OpenIsRegistered, Unregister
<1>8. DecoderBelongsToStream'
  <2>1. ASSUME ~orphaned', NEW u \in Transports, tr'[u].decoder # None
        PROVE  LET d == tr'[u].decoder
               IN  d = tr'[u].socket /\ ws'[d] = "open" /\ owner'[d] = u
    <3>1. u # t /\ tr'[u] = tr[u] /\ tr[u].decoder \in Sockets
      BY <1>2, <2>1 DEF TypeOK, ClientTypeOK, Transport
    <3>2. /\ tr[u].decoder = tr[u].socket /\ ws[tr[u].decoder] = "open"
          /\ owner[tr[u].decoder] = u
      BY <1>1, <2>1, <3>1 DEF DecoderBelongsToStream
    <3>3. tr[t].socket # tr[u].decoder
      BY <3>1, <3>2 DEF OneConnected
    <3> QED BY <1>1, <3>1, <3>2, <3>3
  <2> QED BY <2>1 DEF DecoderBelongsToStream
<1> QED BY <1>3, <1>4, <1>5, <1>6, <1>7, <1>8

\* The decoder fails, a frame is received or a socket opens: fields of one
\* transport change, and no socket gets another owner.
LEMMA CallbackKeepsIInv ==
    ASSUME IInv, TypeOK',
           (\E t \in Transports : Decoder(t)) \/ (\E s \in Sockets : Receive(s) \/ Accepted(s))
    PROVE  IInv'
<1> USE DEF IInv
<1>0. /\ \A t \in Transports : tr[t] \in Transport
      /\ \A s \in Sockets : ws[s] # "closed" => owner[s] \in Transports
  BY DEF TypeOK, ClientTypeOK
<1>1. UNCHANGED <<owner, orphaned>> /\ UNCHANGED serverVars
  BY DEF Decoder, DecoderFails, Receive, Frame, Accepted, Opened
<1>2. NoCloseFrame'
  BY <1>1 DEF serverVars, NoCloseFrame
<1>3. ASSUME UNCHANGED <<registry, ws>>,
             NEW t \in Transports, \A u \in Transports \ {t} : tr'[u] = tr[u],
             tr'[t].opts = tr[t].opts, tr'[t].socket = tr[t].socket,
             tr'[t].status \in {tr[t].status, "other"},
             \/ tr'[t].decoder \in {None, tr[t].decoder}
             \/ \E s \in Sockets : ws[s] = "open" /\ owner[s] = t /\ tr'[t].decoder = s
      PROVE  IInv'
  <2>1. OneConnected'
    BY <1>1, <1>3 DEF OneConnected
  <2>2. KeepsItsSocket'
    BY <1>0, <1>1, <1>3 DEF KeepsItsSocket
  <2>3. RegisteredHasAnOpenSocket' /\ OpenIsRegistered'
    BY <1>1, <1>3 DEF RegisteredHasAnOpenSocket, OpenIsRegistered
  <2>4. DecoderBelongsToStream'
    BY <1>1, <1>3 DEF DecoderBelongsToStream, KeepsItsSocket
  <2> QED BY <1>2, <2>1, <2>2, <2>3, <2>4
<1>4. ASSUME NEW t \in Transports, Decoder(t) PROVE IInv'
  <2> DEFINE q == ResetDecoder(tr[t])
  <2>1. q \in Transport /\ q.decoder = None /\ q.opts = tr[t].opts /\ q.socket = tr[t].socket
    BY <1>0, MethodTypes DEF ResetDecoder, Transport
  <2>2. tr' = [tr EXCEPT ![t] = [q EXCEPT !.status = "other"]] /\ UNCHANGED <<registry, ws>>
    BY <1>4 DEF Decoder, DecoderFails
  <2> HIDE DEF q
  <2>3. /\ tr'[t].opts = tr[t].opts /\ tr'[t].socket = tr[t].socket
        /\ tr'[t].status = "other" /\ tr'[t].decoder = None
        /\ \A u \in Transports \ {t} : tr'[u] = tr[u]
    BY <2>1, <2>2 DEF TypeOK, ClientTypeOK, Transport
  <2> QED BY <1>3, <2>2, <2>3
<1>5. ASSUME NEW s \in Sockets, Receive(s) PROVE IInv'
  <2> DEFINE t == owner[s]
             q == ResetDecoder(tr[t])
  <2>0. ws[s] = "open" /\ t \in Transports /\ UNCHANGED <<registry, ws>>
    BY <1>0, <1>5 DEF Receive, Frame
  <2>1. /\ q.decoder = None /\ q.opts = tr[t].opts
        /\ q.socket = tr[t].socket /\ q.status = tr[t].status
    BY <1>0, <2>0 DEF ResetDecoder, Transport
  <2>2. \/ tr' = [tr EXCEPT ![t] = [tr[t] EXCEPT !.decoder = s]]
        \/ tr' = [tr EXCEPT ![t] = [tr[t] EXCEPT !.status = "other"]]
        \/ tr' = [tr EXCEPT ![t] = q]
    BY <1>5, <2>0 DEF Receive, Frame, TypeOK, ClientTypeOK
  <2> HIDE DEF q
  <2>3. /\ tr'[t].opts = tr[t].opts /\ tr'[t].socket = tr[t].socket
        /\ tr'[t].status \in {tr[t].status, "other"}
        /\ tr'[t].decoder \in {None, tr[t].decoder, s}
        /\ \A u \in Transports \ {t} : tr'[u] = tr[u]
    BY <2>0, <2>1, <2>2 DEF TypeOK, ClientTypeOK, Transport
  <2> HIDE DEF t
  <2> QED BY <1>3, <2>0, <2>3 DEF t
<1>6. ASSUME NEW s \in Sockets, Accepted(s) PROVE IInv'
  <2> DEFINE t == owner[s]
  <2>0. ws[s] = "connecting" /\ t \in Transports
    BY <1>0, <1>6 DEF Accepted, Opened
  <2>1. /\ tr' = [tr EXCEPT ![t] = [tr[t] EXCEPT !.attempts = 0, !.status = "open"]]
        /\ ws' = [ws EXCEPT ![s] = "open"] /\ registry' = t
    BY <1>6, <2>0 DEF Accepted, Opened, TypeOK, ClientTypeOK
  <2>2. /\ tr'[t].opts = tr[t].opts /\ tr'[t].socket = tr[t].socket
        /\ tr'[t].decoder = tr[t].decoder
        /\ \A u \in Transports \ {t} : tr'[u] = tr[u]
    BY <2>0, <2>1 DEF TypeOK, ClientTypeOK, Transport
  <2>3. ws'[s] = "open" /\ \A x \in Sockets \ {s} : ws'[x] = ws[x]
    BY <2>1 DEF TypeOK, ClientTypeOK
  <2>4. OneConnected'
    BY <1>1, <2>0, <2>2, <2>3 DEF OneConnected
  <2>5. ~orphaned => tr[t].opts = "set" /\ \A u \in Transports \ {t} : tr[u].status # "open"
    BY <2>0 DEF KeepsItsSocket, OneConnected
  <2>6. KeepsItsSocket'
    BY <1>0, <1>1, <2>0, <2>2, <2>3, <2>5 DEF KeepsItsSocket
  <2>7. RegisteredHasAnOpenSocket'
    BY <1>1, <2>1, <2>3 DEF RegisteredHasAnOpenSocket
  <2>8. OpenIsRegistered'
    BY <1>1, <2>1, <2>2, <2>5 DEF OpenIsRegistered
  <2>9. DecoderBelongsToStream'
    <3>1. \A u \in Transports : tr'[u].decoder = tr[u].decoder /\ tr'[u].socket = tr[u].socket
      BY <2>2
    <3>2. \A u \in Transports : tr[u].decoder # None => tr[u].decoder \in Sockets
      BY <1>0 DEF Transport
    <3> QED BY <1>1, <2>0, <2>3, <3>1, <3>2 DEF DecoderBelongsToStream
  <2> QED BY <1>2, <2>4, <2>6, <2>7, <2>8, <2>9
<1> QED BY <1>4, <1>5, <1>6

\* The end of a connection.
LEMMA EndKeepsIInv ==
    ASSUME IInv, NEW s \in Sockets, Ends(s), TypeOK'
    PROVE  IInv'
<1> USE DEF IInv
<1>0. /\ \A t \in Transports : tr[t] \in Transport
      /\ \A x \in Sockets : ws[x] # "closed" => owner[x] \in Transports
  BY DEF TypeOK, ClientTypeOK
<1>1. PICK failed \in BOOLEAN : Closed(s, failed, "")
  BY DEF Ends, NoCloseFrame
<1> DEFINE t == owner[s]
           r == IF failed THEN HandleDisconnect(tr[t]) ELSE tr[t]
           q == HandleDisconnect(r)
<1>2. /\ ws[s] # "closed" /\ t \in Transports /\ ws' = [ws EXCEPT ![s] = "closed"]
      /\ registry' = Unregister(t) /\ tr' = [tr EXCEPT ![t] = q]
      /\ owner' = [owner EXCEPT ![s] = None] /\ UNCHANGED orphaned /\ UNCHANGED serverVars
  BY <1>0, <1>1 DEF Closed, Ends
<1>3. r \in Transport /\ r.opts = tr[t].opts /\ r.socket = tr[t].socket
      /\ (tr[t].opts # "set" => r = tr[t])
  BY <1>0, <1>2, MethodTypes, HandleDisconnectFields
<1> HIDE DEF r
<1>4. /\ q.opts = tr[t].opts /\ q.socket = tr[t].socket
      /\ tr[t].opts = "set" => q.decoder = None /\ q.status # "open"
      /\ tr[t].opts # "set" => q = tr[t]
  BY <1>3, HandleDisconnectFields
<1> HIDE DEF q, t
<1>5. tr'[t] = q /\ \A u \in Transports \ {t} : tr'[u] = tr[u]
  BY <1>2 DEF TypeOK, ClientTypeOK
<1>6. /\ ws'[s] = "closed" /\ owner'[s] = None
      /\ \A x \in Sockets \ {s} : ws'[x] = ws[x] /\ owner'[x] = owner[x]
  BY <1>2 DEF TypeOK, ClientTypeOK
<1>7. OneConnected'
  BY <1>4, <1>5, <1>6 DEF OneConnected
<1>8. NoCloseFrame'
  BY <1>2 DEF serverVars, NoCloseFrame
<1>9. ASSUME ~orphaned, tr[t].opts # "set" PROVE tr[t].status # "open"
  BY <1>2, <1>9 DEF KeepsItsSocket
<1>10. KeepsItsSocket'
  BY <1>0, <1>2, <1>4, <1>5, <1>6, <1>9 DEF KeepsItsSocket
<1>11. RegisteredHasAnOpenSocket'
  BY <1>2, <1>6 DEF RegisteredHasAnOpenSocket, Unregister, t
<1>12. OpenIsRegistered'
  BY <1>2, <1>4, <1>5, <1>9 DEF OpenIsRegistered, Unregister
<1>13. DecoderBelongsToStream'
  <2>1. ASSUME ~orphaned', NEW u \in Transports, tr'[u].decoder # None
        PROVE  LET d == tr'[u].decoder
               IN  d = tr'[u].socket /\ ws'[d] = "open" /\ owner'[d] = u
    <3>1. tr'[u] = tr[u] /\ tr[u].decoder \in Sockets
      BY <1>0, <1>2, <1>4, <1>5, <2>1 DEF Transport, DecoderBelongsToStream, KeepsItsSocket
    <3>2. /\ tr[u].decoder = tr[u].socket /\ ws[tr[u].decoder] = "open"
          /\ owner[tr[u].decoder] = u
      BY <1>2, <2>1, <3>1 DEF DecoderBelongsToStream
    <3>3. tr[u].opts = "set"
      BY <1>2, <2>1, <3>1, <3>2 DEF KeepsItsSocket
    <3>4. u # t
      BY <1>4, <1>5, <2>1, <3>1, <3>3
    <3> QED BY <1>6, <3>1, <3>2, <3>4 DEF t
  <2> QED BY <2>1 DEF DecoderBelongsToStream
<1> QED BY <1>7, <1>8, <1>10, <1>11, <1>12, <1>13

LEMMA StepIInv == IInv /\ [Next]_vars => IInv'
<1> SUFFICES ASSUME IInv, [Next]_vars PROVE IInv'
  OBVIOUS
<1>0. TypeOK' /\ \A t \in Transports : tr[t] \in Transport
  BY StepTypes DEF IInv, TypeOK, ClientTypeOK
<1>1. ASSUME NEW t \in Transports, Mount(t) PROVE IInv'
  <2> DEFINE r == [tr[t] EXCEPT !.opts = "set", !.attempts = 0]
  <2>0. tr[t] \in Transport
    BY <1>0
  <2>1. /\ r \in Transport /\ r.opts = "set" /\ r.socket = tr[t].socket
        /\ r.decoder = tr[t].decoder
    <3>1. r \in Transport
      BY <2>0, EditTypes
    <3> QED BY <2>0, <3>1 DEF Transport
  <2>2. /\ OpenSocket(t, r, Pool) /\ Opens /\ registry' = registry
        /\ \A u \in Transports : tr[u].opts # "set"
    BY <1>1 DEF Mount, Connect, Mounts
  <2> HIDE DEF r
  <2> QED BY <1>0, <2>1, <2>2, OpeningKeepsIInv
<1>2. ASSUME NEW t \in Transports, Timer(t) PROVE IInv'
  <2>1. PICK r \in {[tr[t] EXCEPT !.armed = FALSE], [tr[t] EXCEPT !.stray = @ - 1]} :
          /\ r = [tr[t] EXCEPT !.armed = FALSE] \/ tr[t].stray > 0
          /\ OpenSocket(t, r, Pool)
    BY <1>2 DEF Timer, TimerFires
  <2>2. r \in Transport
    BY <1>0, <2>1, EditTypes
  <2>3. /\ r.opts = tr[t].opts /\ r.socket = tr[t].socket /\ r.decoder = tr[t].decoder
        /\ r.status = tr[t].status
    BY <1>0, <2>1 DEF Transport
  <2>4. Opens /\ registry' = registry
    BY <1>2 DEF Timer, TimerFires
  <2>5. CASE r.opts = "set"
    <3>1. \A u \in Transports : tr[u].opts = "set" => u = t
      BY <2>3, <2>5 DEF IInv, OneConnected
    <3> QED BY <1>0, <2>1, <2>2, <2>3, <2>4, <2>5, <3>1, OpeningKeepsIInv
  <2>6. CASE r.opts # "set"
    BY <1>0, <2>1, <2>2, <2>3, <2>4, <2>6, IdleTimerKeepsIInv
  <2> QED BY <2>5, <2>6
<1>3. ASSUME NEW t \in Transports, Unmount(t) PROVE IInv'
  BY <1>0, <1>3, UnmountKeepsIInv
<1>4. ASSUME NEW t \in Transports, Decoder(t) PROVE IInv'
  BY <1>0, <1>4, CallbackKeepsIInv
<1>5. ASSUME NEW s \in Sockets, Receive(s) \/ Accepted(s) PROVE IInv'
  BY <1>0, <1>5, CallbackKeepsIInv
<1>6. ASSUME NEW s \in Sockets, Ends(s) PROVE IInv'
  BY <1>0, <1>6, EndKeepsIInv
<1>7. ASSUME NEW s \in Sockets, Serve(s) \/ ReadFails(s) \/ Touch(s) \/ Handler(s)
      PROVE  IInv'
  BY <1>0, <1>7, ServerKeepsIInv
<1>8. CASE UNCHANGED vars
  <2>1. UNCHANGED <<tr, registry, ws, owner, orphaned, main, conn, frame>>
    BY <1>8 DEF vars, clientVars, serverVars
  <2>2. OneConnected' /\ NoCloseFrame' /\ KeepsItsSocket'
    BY <2>1 DEF IInv, OneConnected, NoCloseFrame, KeepsItsSocket
  <2>3. RegisteredHasAnOpenSocket' /\ OpenIsRegistered' /\ DecoderBelongsToStream'
    BY <2>1 DEF IInv, RegisteredHasAnOpenSocket, OpenIsRegistered, DecoderBelongsToStream
  <2> QED BY <1>0, <2>2, <2>3 DEF IInv
<1> QED BY <1>1, <1>2, <1>3, <1>4, <1>5, <1>6, <1>7, <1>8 DEF Next

LEMMA Inductive == Spec => []IInv
BY InitIInv, StepIInv, PTL DEF Spec

-----------------------------------------------------------------------------
(* The safety properties of Mirror.                                        *)

\* Control frames never go to a transport without an open socket.
THEOREM RegistrationEnds == Spec => []RegisteredHasAnOpenSocket
<1>1. IInv => RegisteredHasAnOpenSocket
  BY DEF IInv
<1> QED BY <1>1, Inductive, PTL

\* The transport whose stream is open is the registered one.
THEOREM RegistrationIsCurrent == Spec => []OpenIsRegistered
<1>1. IInv => OpenIsRegistered
  BY DEF IInv
<1> QED BY <1>1, Inductive, PTL

\* A decoder decodes the stream it was configured by.
THEOREM DecoderIsOwn == Spec => []DecoderBelongsToStream
<1>1. IInv => DecoderBelongsToStream
  BY DEF IInv
<1> QED BY <1>1, Inductive, PTL

\* A disconnected transport holds nothing.
THEOREM DisconnectComplete == Spec => []DisconnectReleases
<1>1. IInv => DisconnectReleases
  <2> SUFFICES ASSUME IInv, ~orphaned, NEW t \in Transports, tr[t].opts = "null"
               PROVE  /\ tr[t].decoder = None /\ registry # t
                      /\ \A s \in Sockets : owner[s] = t => ws[s] \in {"closing", "closed"}
    BY DEF DisconnectReleases
  <2>1. ASSUME NEW s \in Sockets, owner[s] = t PROVE ws[s] \in {"closing", "closed"}
    BY <2>1 DEF IInv, KeepsItsSocket, TypeOK, ClientTypeOK
  <2>2. tr[t].decoder \in Sockets \cup {None}
    BY DEF IInv, TypeOK, ClientTypeOK, Transport
  <2>3. tr[t].decoder = None
    BY <2>1, <2>2 DEF IInv, DecoderBelongsToStream
  <2>4. registry # t
    BY <2>1 DEF IInv, RegisteredHasAnOpenSocket
  <2> QED BY <2>1, <2>3, <2>4
<1> QED BY <1>1, Inductive, PTL

\* No timer that outlives its transport opens a socket for it.
THEOREM TimersDieWithTransport == Spec => NoSocketAfterDisconnect
<1> DEFINE A == \A s \in Sockets : ws[s] = "closed" /\ ws'[s] = "connecting"
                  => tr[owner'[s]].opts # "null"
<1>1. IInv /\ [Next]_vars => [A]_vars
  <2> SUFFICES ASSUME IInv, [Next]_vars, NEW s \in Sockets, ws[s] = "closed",
                      ws'[s] = "connecting"
               PROVE  tr[owner'[s]].opts # "null"
    OBVIOUS
  <2>0. ws \in [Sockets -> {"connecting", "open", "closing", "closed"}]
        /\ owner \in [Sockets -> Transports \cup {None}]
        /\ \A t \in Transports : tr[t] \in Transport
    BY DEF IInv, TypeOK, ClientTypeOK
  <2>1. ASSUME NEW t \in Transports, NEW r, OpenSocket(t, r, Pool)
        PROVE  r.opts = "set" /\ owner'[s] = t
    BY <2>0, <2>1, PoolFree DEF OpenSocket, Done
  <2>2. ASSUME NEW t \in Transports, Mount(t) PROVE tr[owner'[s]].opts # "null"
    BY <2>1, <2>2 DEF Mount, Connect, Mounts
  <2>3. ASSUME NEW t \in Transports, Timer(t) PROVE tr[owner'[s]].opts # "null"
    BY <2>0, <2>1, <2>3 DEF Timer, TimerFires, Transport
  <2>4. CASE \E t \in Transports : Unmount(t) \/ Decoder(t)
    BY <2>0, <2>4 DEF Unmount, Disconnect, Decoder, DecoderFails
  <2>5. CASE \E x \in Sockets : Accepted(x) \/ Ends(x) \/ Receive(x)
    BY <2>0, <2>5 DEF Accepted, Opened, Ends, Closed, Receive, Frame
  <2>6. CASE \E x \in Sockets : Serve(x) \/ ReadFails(x) \/ Touch(x) \/ Handler(x)
    BY <2>6 DEF Serve, ReadFails, Touch, Handler, clientVars
  <2>7. CASE UNCHANGED vars
    BY <2>7 DEF vars, clientVars
  <2> QED BY <2>2, <2>3, <2>4, <2>5, <2>6, <2>7 DEF Next
<1> QED BY <1>1, Inductive, PTL DEF Spec, NoSocketAfterDisconnect

=============================================================================
