------------------------------ MODULE NapServer ------------------------------
(***************************************************************************)
(* What a supervisor promises to the people who use one server: the        *)
(* process is launched only on demand, at most one attempt per demand that *)
(* arose since the previous attempt, never beside another of its own and   *)
(* never again once a backend that is not ours has been seen.              *)
(***************************************************************************)
VARIABLES
    server,   \* "down", "up" (a process we own) or "foreign"
    asked     \* a player has asked since the last attempt

Init == server = "down" /\ asked = FALSE

\* A player tries to log in.
Ask == asked' = TRUE /\ UNCHANGED server

\* One attempt consumes the demand, whether the launch works or not.
Attempt ==
    /\ server = "down" /\ asked
    /\ asked' = FALSE
    /\ server' \in {"down", "up"}

\* The attempt is given up because the port could not be shown to be free.
GiveUp == server # "up" /\ asked /\ asked' = FALSE /\ UNCHANGED server

\* A backend that is not ours is seen; that verdict is final.
SeeForeign ==
    /\ server = "down"
    /\ server' = "foreign"
    /\ asked' \in {asked, FALSE}

\* The owned process is gone: idle, failed or shut down.
GoDown == server = "up" /\ server' = "down" /\ UNCHANGED asked

Next == Ask \/ Attempt \/ GiveUp \/ SeeForeign \/ GoDown

Spec == Init /\ [][Next]_<<server, asked>>
=============================================================================
