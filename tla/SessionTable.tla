----------------------------- MODULE SessionTable -----------------------------
(***************************************************************************)
(* What the session manager (src/src/mcp/header_session_manager.rs)        *)
(* promises to clients that send one request at a time and neither close a *)
(* session nor go away, when no initialize fails: a table that says under  *)
(* which identity each session acts.  There are no workers, handles or     *)
(* cleaning tasks in it.  Sessions implements it.                          *)
(***************************************************************************)
CONSTANTS
    Ids, Identities, Missing, Requests, Nothing \* as in Sessions

VARIABLES
    known,   \* the identity each session acts under, or Nothing
    request, \* what each request asks for: its session, kind and header
    answer   \* how each request ended

vars == <<known, request, answer>>

NoRequest == [id |-> Nothing, kind |-> "call", header |-> Missing]

Init ==
    /\ known = [i \in Ids |-> Nothing]
    /\ request = [r \in Requests |-> NoRequest]
    /\ answer = [r \in Requests |-> "none"]

-----------------------------------------------------------------------------

Id(r)      == request[r].id
Waiting(r) == Id(r) \in Ids

Answer(r, how) ==
    /\ request' = [request EXCEPT ![r] = NoRequest]
    /\ answer' = [answer EXCEPT ![r] = how]

\* One request for a session at a time.
Ask(r, i, kind, header) ==
    /\ \A q \in Requests : Id(q) # i
    /\ ~ Waiting(r)
    /\ request' = [request EXCEPT ![r] = [id |-> i, kind |-> kind,
                                          header |-> header]]
    /\ answer' = [answer EXCEPT ![r] = "none"]
    /\ UNCHANGED known

\* A session is made, or made again, for a request that names an identity,
\* and acts under that one.  An initialize may thereby be served: one that
\* came while a session was there is still to be, and may lose the new one.
Open(r) ==
    /\ Waiting(r) /\ known[Id(r)] = Nothing
    /\ request[r].header \in Identities
    /\ known' = [known EXCEPT ![Id(r)] = request[r].header]
    /\ \/ request[r].kind = "initialize" /\ Answer(r, "served")
       \/ UNCHANGED <<request, answer>>

\* A session that is known serves its requests, whatever headers they carry.
Serve(r) ==
    /\ Waiting(r) /\ known[Id(r)] # Nothing
    /\ Answer(r, "served")
    /\ UNCHANGED known

\* No session, and no identity to make one under.
Refuse(r) ==
    /\ Waiting(r) /\ known[Id(r)] = Nothing
    /\ request[r].header = Missing
    /\ Answer(r, "refused")
    /\ UNCHANGED known

\* The session was lost under the request.
Break(r) ==
    /\ Waiting(r) /\ known[Id(r)] = Nothing
    /\ Answer(r, "broken")
    /\ UNCHANGED known

\* A session that is idle for long is forgotten, as a whole ...
Lose(i) ==
    /\ known' = [known EXCEPT ![i] = Nothing]
    /\ UNCHANGED <<request, answer>>

\* ... and so is everything with the process.
Restart ==
    /\ known' = [i \in Ids |-> Nothing]
    /\ request' = [r \in Requests |-> NoRequest]
    /\ answer' = [r \in Requests |-> "none"]

Next ==
    \/ \E r \in Requests :
           \/ Open(r) \/ Serve(r) \/ Refuse(r) \/ Break(r)
           \/ \E i \in Ids, kind \in {"initialize", "call"},
                 h \in Identities \cup {Missing} : Ask(r, i, kind, h)
    \/ \E i \in Ids : Lose(i)
    \/ Restart

Spec == Init /\ [][Next]_vars
=============================================================================
