--------------------------- MODULE SupervisorLife ---------------------------
(***************************************************************************)
(* A session supervisor as its manager sees it, from NewSessionSupervisor  *)
(* to the end of run(): whether somebody has called Close, whether run()   *)
(* is inside OpenFunc, where it sees neither a command nor the stop        *)
(* channel, and whether it has seen the stop channel and is closing its    *)
(* session.  Module Supervisor implements it, and module SessionManager    *)
(* has one for each of its supervisors.                                    *)
(***************************************************************************)

VARIABLES life,     \* "none" before it is made, "up", "closing" behind a Close,
                    \* "ending" once run() has seen that, "closed"
          opening   \* run() is inside OpenFunc

vars == <<life, opening>>

Init == life \in {"none", "up"} /\ opening = FALSE

Made == life = "none" /\ life' = "up" /\ UNCHANGED opening

\* For an Acquire or after a backoff.  A select in which the stop channel is
\* ready, too, may still take such a case.
Open == /\ life \in {"up", "closing"} /\ ~opening
        /\ opening' = TRUE
        /\ UNCHANGED life

OpenReturns == opening /\ opening' = FALSE /\ UNCHANGED life

Close == life = "up" /\ life' = "closing" /\ UNCHANGED opening

\* run() is back in its select, takes the stop case...
StopSeen == /\ life = "closing" /\ ~opening
            /\ life' = "ending"
            /\ UNCHANGED opening

\* ...and returns when its session is closed.
End == life = "ending" /\ life' = "closed" /\ UNCHANGED opening

\* What the supervisor does of its own.
Own == Open \/ OpenReturns \/ StopSeen \/ End

Next == Made \/ Close \/ Own

Spec == Init /\ [][Next]_vars
=============================================================================
