------------------------------ MODULE Circuit ------------------------------
(***************************************************************************)
(* What a session supervisor promises to the rest of the server, without   *)
(* its queue, its timer or its callers: it keeps one session up, it        *)
(* retries a bounded number of times, it then trips, and only a reset      *)
(* closes the circuit again.  Supervisor implements it.                    *)
(***************************************************************************)
EXTENDS Naturals

CONSTANT Budget    \* RestartPolicyOpts.MaxAttempts, a positive number

VARIABLES phase,     \* "idle", "trying", "up", "tripped" or "shut"
          spent      \* retries charged since the policy was last reset

vars == <<phase, spent>>

Init == phase = "idle" /\ spent = 0

\* The first demand for a session.
Start == /\ phase = "idle"
         /\ phase' = "trying"
         /\ UNCHANGED spent

ComeUp == /\ phase = "trying"
          /\ phase' = "up"
          /\ UNCHANGED spent

\* An attempt failed, or the session died, and the policy grants a retry.
Retry == /\ phase \in {"trying", "up"}
         /\ spent < Budget
         /\ phase' = "trying"
         /\ spent' = spent + 1

\* The same, and the retries are used up.
Trip == /\ phase \in {"trying", "up"}
        /\ spent = Budget
        /\ phase' = "tripped"
        /\ UNCHANGED spent

\* The manual recovery path.  It is the only way out of "tripped" that leads
\* back to service.
ResetPolicy == /\ phase # "shut"
               /\ phase' = IF phase = "tripped" THEN "idle" ELSE phase
               /\ spent' = 0

Shut == /\ phase # "shut"
        /\ phase' = "shut"
        /\ UNCHANGED spent

Next == Start \/ ComeUp \/ Retry \/ Trip \/ ResetPolicy \/ Shut

Spec == Init /\ [][Next]_vars
=============================================================================
