------------------------------- MODULE Service -------------------------------
(***************************************************************************)
(* What the daemons of one state directory (src/src/mcp/run.rs) are to the *)
(* launchers that look for them (src/src/command/mcp/mundus_animarum): one *)
(* service, that one daemon after another provides, and whose URL each     *)
(* launcher is told once, while it is there.  There is no lock file and no *)
(* database in it.  Daemon implements it.                                  *)
(***************************************************************************)

CONSTANTS Daemons, Launchers, Nobody \* as in Daemon

VARIABLES
    serving, \* the daemons whose URL answers
    gone,    \* the daemons that have ended
    told     \* the daemon whose URL a launcher has been told, or Nobody

vars == <<serving, gone, told>>

Init ==
    /\ serving = {}
    /\ gone = {}
    /\ told = [l \in Launchers |-> Nobody]

\* A daemon begins to serve where no other does.
Start(d) ==
    /\ serving = {} /\ d \notin gone
    /\ serving' = {d}
    /\ UNCHANGED <<gone, told>>

\* It is killed, or fails before it serves.
Stop(d) ==
    /\ d \notin gone
    /\ serving' = serving \ {d}
    /\ gone' = gone \cup {d}
    /\ UNCHANGED told

Tell(l, d) ==
    /\ d \in serving
    /\ told[l] = Nobody
    /\ told' = [told EXCEPT ![l] = d]
    /\ UNCHANGED <<serving, gone>>

Next ==
    \/ \E d \in Daemons : Start(d) \/ Stop(d)
    \/ \E l \in Launchers, d \in Daemons : Tell(l, d)

Spec == Init /\ [][Next]_vars
=============================================================================
