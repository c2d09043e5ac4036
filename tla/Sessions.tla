------------------------------- MODULE Sessions -------------------------------
(***************************************************************************)
(* The sessions of the MCP server (src/src/mcp/header_session_manager.rs   *)
(* and session.rs): the registry of identities, the inner manager's map of *)
(* session handles, the workers behind the handles, and the HTTP requests  *)
(* that find, mint, use and close sessions, all at the same time.          *)
(*                                                                         *)
(* A step of a request runs from one await to the next.  The HTTP tower,   *)
(* the inner LocalSessionManager and the workers belong to rmcp; they are  *)
(* modelled from how this code uses them.                                  *)
(***************************************************************************)
EXTENDS FiniteSets

CONSTANTS
    Ids,        \* session ids, which clients present and keep
    Identities, \* agent full id and instance hierarchy, the two headers
    Missing,    \* a request without one of the headers, or an empty one
    Requests,   \* bound: the HTTP requests in flight
    Workers,    \* bound: the workers alive or being cleaned up
    Nothing,    \* no entry, no worker
    Hazards     \* what may happen: see Events

Events ==
    {"overlap", \* two requests for one session id at a time
     "close",   \* a client DELETEs its session
     "cancel",  \* a client goes away in the middle of a request
     "fail",    \* a worker dies under its initialize
     "idle",    \* a worker ends after its keep-alive time
     "restart"} \* the server process dies and starts again

ASSUME SessionsAssumption ==
    /\ Missing \notin Identities
    /\ Nothing \notin Identities \cup Workers \cup Ids
    /\ Hazards \subseteq Events

VARIABLES
    registry, \* SessionRegistry: the identity recorded for each id
    sessions, \* LocalSessionManager's map: the handle held for each id
    worker,   \* "free", "waiting" for an initialize, "running", "ended", or
              \* "forgotten": half way through the task that cleans up
    serving,  \* the id each worker was made for
    pc,       \* where each request is
    request,  \* its session id, kind and header
    mine,     \* the worker whose handle, or stream, a request holds
    synthetic,\* whether it mints in ensure_session, whose initialize is synthetic
    answer    \* how each request ended

vars == <<registry, sessions, worker, serving, pc, request, mine, synthetic,
          answer>>

Kinds   == {"initialize", "call", "close"}
Labels  == {"idle", "check", "ensure", "mint", "initialize", "insert", "send",
            "await", "record", "begin", "forget", "drop"}
Answers == {"none", "served", "refused", "unknown", "broken"}

NoRequest == [id |-> Nothing, kind |-> "call", header |-> Missing]

TypeOK ==
    /\ registry \in [Ids -> Identities \cup {Nothing}]
    /\ sessions \in [Ids -> Workers \cup {Nothing}]
    /\ worker \in [Workers -> {"free", "waiting", "running", "ended",
                               "forgotten"}]
    /\ serving \in [Workers -> Ids \cup {Nothing}]
    /\ pc \in [Requests -> Labels]
    /\ request \in [Requests -> [id : Ids \cup {Nothing}, kind : Kinds,
                                 header : Identities \cup {Missing}]]
    /\ mine \in [Requests -> Workers \cup {Nothing}]
    /\ synthetic \in [Requests -> BOOLEAN]
    /\ answer \in [Requests -> Answers]

Init ==
    /\ registry = [i \in Ids |-> Nothing]
    /\ sessions = [i \in Ids |-> Nothing]
    /\ worker = [w \in Workers |-> "free"]
    /\ serving = [w \in Workers |-> Nothing]
    /\ pc = [r \in Requests |-> "idle"]
    /\ request = [r \in Requests |-> NoRequest]
    /\ mine = [r \in Requests |-> Nothing]
    /\ synthetic = [r \in Requests |-> FALSE]
    /\ answer = [r \in Requests |-> "none"]

-----------------------------------------------------------------------------

Id(r) == request[r].id

\* The requests that run on this id, and the workers made for it.
OnId(i)       == {r \in Requests : pc[r] # "idle" /\ Id(r) = i}
MadeFor(i)    == {w \in Workers : serving[w] = i}

\* A handle is held by the map, or by the request that minted it until then.
Held(w) ==
    \/ \E i \in Ids : sessions[i] = w
    \/ \E r \in Requests : pc[r] \in {"initialize", "insert"} /\ mine[r] = w

\* A slot for a new worker.
Spare(w) == worker[w] = "free" /\ \A r \in Requests : mine[r] # w

Goto(r, label) == pc' = [pc EXCEPT ![r] = label]

\* The request is answered and leaves nothing behind.
Answer(r, how) ==
    /\ Goto(r, "idle")
    /\ answer' = [answer EXCEPT ![r] = how]
    /\ request' = [request EXCEPT ![r] = NoRequest]
    /\ mine' = [mine EXCEPT ![r] = Nothing]
    /\ synthetic' = [synthetic EXCEPT ![r] = FALSE]

\* create_local_session and WorkerTransport::spawn.
Spawn(w, i) ==
    /\ Spare(w)
    /\ worker' = [worker EXCEPT ![w] = "waiting"]
    /\ serving' = [serving EXCEPT ![w] = i]

-----------------------------------------------------------------------------
(* A POST or DELETE that carries a session id.                             *)

\* A client presents ids it made up or was given; a session of the tower that
\* waits for its initialize has an id nobody has been given.
Presentable(i) ==
    /\ \A r \in OnId(i) : pc[r] \notin {"record", "begin"}
    /\ sessions[i] # Nothing => worker[sessions[i]] # "waiting"
    /\ "overlap" \in Hazards \/ OnId(i) = {}

Arrive(r, i, kind, header) ==
    /\ pc[r] = "idle" /\ Presentable(i)
    /\ kind = "close" => "close" \in Hazards /\ header = Missing
    /\ request' = [request EXCEPT ![r] = [id |-> i, kind |-> kind,
                                          header |-> header]]
    /\ answer' = [answer EXCEPT ![r] = "none"]
    /\ Goto(r, CASE kind = "close"      -> "forget"
                 [] kind = "initialize" -> "check"
                 [] kind = "call"       -> "ensure")
    /\ UNCHANGED <<registry, sessions, worker, serving, mine, synthetic>>

\* create_stream, for an initialize: an id without a handle is minted for it,
\* with the message itself; any other goes the way of the other messages.
Check(r) ==
    /\ pc[r] = "check"
    /\ Goto(r, IF sessions[Id(r)] = Nothing THEN "mint" ELSE "ensure")
    /\ UNCHANGED <<registry, sessions, worker, serving, request, mine, synthetic,
                   answer>>

\* Mutant of Ensure: every request that carries the headers records them.
EnsureRecording(r) ==
    /\ pc[r] = "ensure"
    /\ registry' = IF request[r].header = Missing THEN registry
                   ELSE [registry EXCEPT ![Id(r)] = request[r].header]
    /\ LET mints == sessions[Id(r)] = Nothing
       IN  /\ synthetic' = [synthetic EXCEPT ![r] = mints]
           /\ Goto(r, IF mints THEN "mint" ELSE "send")
    /\ UNCHANGED <<sessions, worker, serving, request, mine, answer>>

\* Mutant of Ensure: a handle whose worker has ended is not a session.
EnsureAlive(r) ==
    /\ pc[r] = "ensure"
    /\ LET mints == sessions[Id(r)] = Nothing \/ worker[sessions[Id(r)]] # "running"
       IN  /\ synthetic' = [synthetic EXCEPT ![r] = mints]
           /\ Goto(r, IF mints THEN "mint" ELSE "send")
    /\ UNCHANGED <<registry, sessions, worker, serving, request, mine, answer>>

\* ensure_session asks again, an await later: has_session is a handle in the
\* map, whatever has become of its worker.
Ensure(r) ==
    /\ pc[r] = "ensure"
    /\ LET mints == sessions[Id(r)] = Nothing
       IN  /\ synthetic' = [synthetic EXCEPT ![r] = mints]
           /\ Goto(r, IF mints THEN "mint" ELSE "send")
    /\ UNCHANGED <<registry, sessions, worker, serving, request, mine, answer>>

\* Mutants of Mint: the headers are not looked at, or not recorded; or the
\* handle goes into the map at once.
MintInserted(r) ==
    /\ pc[r] = "mint" /\ request[r].header # Missing
    /\ registry' = [registry EXCEPT ![Id(r)] = request[r].header]
    /\ \E w \in Workers : /\ Spawn(w, Id(r))
                          /\ sessions' = [sessions EXCEPT ![Id(r)] = w]
                          /\ mine' = [mine EXCEPT ![r] = w]
    /\ Goto(r, "initialize")
    /\ UNCHANGED <<request, synthetic, answer>>

MintUnchecked(r) ==
    /\ pc[r] = "mint"
    /\ registry' = [registry EXCEPT ![Id(r)] = request[r].header]
    /\ \E w \in Workers : /\ Spawn(w, Id(r))
                          /\ mine' = [mine EXCEPT ![r] = w]
    /\ Goto(r, "initialize")
    /\ UNCHANGED <<sessions, request, synthetic, answer>>

MintUnrecorded(r) ==
    /\ pc[r] = "mint" /\ request[r].header # Missing
    /\ \E w \in Workers : /\ Spawn(w, Id(r))
                          /\ mine' = [mine EXCEPT ![r] = w]
    /\ Goto(r, "initialize")
    /\ UNCHANGED <<registry, sessions, request, synthetic, answer>>

\* mint_worker: the headers are recorded; worker and service end are spawned.
Mint(r) ==
    /\ pc[r] = "mint" /\ request[r].header # Missing
    /\ registry' = [registry EXCEPT ![Id(r)] = request[r].header]
    /\ \E w \in Workers : /\ Spawn(w, Id(r))
                          /\ mine' = [mine EXCEPT ![r] = w]
    /\ Goto(r, "initialize")
    /\ UNCHANGED <<sessions, request, synthetic, answer>>

\* extract_session_state finds no identity.
Refuse(r) ==
    /\ pc[r] \in {"mint", "record"} /\ request[r].header = Missing
    /\ Answer(r, "refused")
    /\ UNCHANGED <<registry, sessions, worker, serving>>

\* handle.initialize, with the message itself or with the synthetic one.
Initialize(r) ==
    /\ pc[r] = "initialize"
    /\ worker' = [worker EXCEPT ![mine[r]] = "running"]
    /\ Goto(r, "insert")
    /\ UNCHANGED <<registry, sessions, serving, request, mine, synthetic, answer>>

\* The handle goes into the map; one it replaces is dropped.  The worker has
\* answered the message itself; after a synthetic one it is still to be sent.
Insert(r) ==
    /\ pc[r] = "insert"
    /\ sessions' = [sessions EXCEPT ![Id(r)] = mine[r]]
    /\ IF synthetic[r]
       THEN /\ Goto(r, "send")
            /\ mine' = [mine EXCEPT ![r] = Nothing]
            /\ synthetic' = [synthetic EXCEPT ![r] = FALSE]
            /\ UNCHANGED <<request, answer>>
       ELSE Answer(r, "served")
    /\ UNCHANGED <<registry, worker, serving>>

\* inner.create_stream and inner.accept_message: the message is pushed
\* through the handle that is in the map now.
Send(r) ==
    /\ pc[r] = "send"
    /\ LET w == sessions[Id(r)]
       IN  IF w # Nothing /\ worker[w] = "running"
           THEN /\ mine' = [mine EXCEPT ![r] = w]
                /\ Goto(r, "await")
                /\ UNCHANGED <<request, synthetic, answer>>
           ELSE Answer(r, "broken")
    /\ UNCHANGED <<registry, sessions, worker, serving>>

\* The service handles the message: a tool looks its session up with
\* resolve_session.  If the worker has ended meanwhile the stream is cut.
Serve(r) ==
    /\ pc[r] = "await"
    /\ Answer(r, CASE worker[mine[r]] # "running" -> "broken"
                   [] /\ worker[mine[r]] = "running"
                      /\ request[r].kind = "call"
                      /\ registry[Id(r)] = Nothing -> "unknown"
                   [] OTHER -> "served")
    /\ UNCHANGED <<registry, sessions, worker, serving>>

-----------------------------------------------------------------------------
(* A first POST, without a session id.                                     *)

\* create_session: the tower makes an id no one has used and its session.
CreateSession(r, i, header) ==
    /\ pc[r] = "idle"
    /\ sessions[i] = Nothing /\ registry[i] = Nothing
    /\ OnId(i) = {} /\ MadeFor(i) = {}
    /\ \E w \in Workers : /\ Spawn(w, i)
                          /\ sessions' = [sessions EXCEPT ![i] = w]
    /\ request' = [request EXCEPT ![r] = [id |-> i, kind |-> "initialize",
                                          header |-> header]]
    /\ answer' = [answer EXCEPT ![r] = "none"]
    /\ Goto(r, "record")
    /\ UNCHANGED <<registry, mine, synthetic>>

\* initialize_session records the identity ...
Record(r) ==
    /\ pc[r] = "record" /\ request[r].header # Missing
    /\ registry' = [registry EXCEPT ![Id(r)] = request[r].header]
    /\ Goto(r, "begin")
    /\ UNCHANGED <<sessions, worker, serving, request, mine, synthetic, answer>>

\* ... and then drives the worker through the inner manager.
Begin(r) ==
    /\ pc[r] = "begin"
    /\ worker' = [worker EXCEPT ![sessions[Id(r)]] = "running"]
    /\ Answer(r, "served")
    /\ UNCHANGED <<registry, sessions, serving>>

\* The initialize, of a minted worker or of the tower's, meets a worker that
\* has died: the identity stays recorded, and the tower's handle in the map.
Fail(r) ==
    /\ "fail" \in Hazards
    /\ pc[r] \in {"initialize", "begin"}
    /\ LET w == IF pc[r] = "begin" THEN sessions[Id(r)] ELSE mine[r]
       IN  worker' = [worker EXCEPT ![w] = "ended"]
    /\ Answer(r, "broken")
    /\ UNCHANGED <<registry, sessions, serving>>

-----------------------------------------------------------------------------
(* Sessions end.                                                           *)

\* close_session, for a DELETE: first the registry, then the inner manager,
\* which drops the handle and tells its worker to close.
Forget(r) ==
    /\ pc[r] = "forget"
    /\ registry' = [registry EXCEPT ![Id(r)] = Nothing]
    /\ Goto(r, "drop")
    /\ UNCHANGED <<sessions, worker, serving, request, mine, synthetic, answer>>

Drop(r) ==
    /\ pc[r] = "drop"
    /\ sessions' = [sessions EXCEPT ![Id(r)] = Nothing]
    /\ worker' = [w \in Workers |->
                     IF w = sessions[Id(r)] /\ worker[w] = "running"
                     THEN "ended" ELSE worker[w]]
    /\ Answer(r, "served")
    /\ UNCHANGED <<registry, serving>>

\* A worker ends when its last handle is dropped ...
Abandoned(w) ==
    /\ worker[w] \in {"waiting", "running"} /\ ~Held(w)
    /\ worker' = [worker EXCEPT ![w] = "ended"]
    /\ UNCHANGED <<registry, sessions, serving, pc, request, mine, synthetic, answer>>

\* ... or when it has had nothing to do for minutes; its handle stays.
Idle(w) ==
    /\ "idle" \in Hazards
    /\ worker[w] = "running"
    /\ \A r \in Requests : mine[r] # w
    /\ worker' = [worker EXCEPT ![w] = "ended"]
    /\ UNCHANGED <<registry, sessions, serving, pc, request, mine, synthetic, answer>>

\* Mutants of the cleaning task: it leaves out one of the maps.
CleanNoRegistry(w) ==
    /\ worker[w] = "ended"
    /\ worker' = [worker EXCEPT ![w] = "forgotten"]
    /\ UNCHANGED <<registry, sessions, serving, pc, request, mine, synthetic, answer>>

CleanNoSessions(w) ==
    /\ worker[w] = "forgotten"
    /\ worker' = [worker EXCEPT ![w] = "free"]
    /\ serving' = [serving EXCEPT ![w] = Nothing]
    /\ UNCHANGED <<registry, sessions, pc, request, mine, synthetic, answer>>

\* The task that waits for the service to end: it removes the id, whoever
\* the entries belong to by now, from one map and then from the other.
CleanRegistry(w) ==
    /\ worker[w] = "ended"
    /\ registry' = [registry EXCEPT ![serving[w]] = Nothing]
    /\ worker' = [worker EXCEPT ![w] = "forgotten"]
    /\ UNCHANGED <<sessions, serving, pc, request, mine, synthetic, answer>>

CleanSessions(w) ==
    /\ worker[w] = "forgotten"
    /\ sessions' = [sessions EXCEPT ![serving[w]] = Nothing]
    /\ worker' = [worker EXCEPT ![w] = "free"]
    /\ serving' = [serving EXCEPT ![w] = Nothing]
    /\ UNCHANGED <<registry, pc, request, mine, synthetic, answer>>

\* The client goes away: the request's future, and what it holds, is dropped.
Cancel(r) ==
    /\ "cancel" \in Hazards
    /\ pc[r] # "idle"
    /\ Answer(r, "none")
    /\ UNCHANGED <<registry, sessions, worker, serving>>

\* Both maps are in memory only.
Restart ==
    /\ "restart" \in Hazards
    /\ registry' = [i \in Ids |-> Nothing]
    /\ sessions' = [i \in Ids |-> Nothing]
    /\ worker' = [w \in Workers |-> "free"]
    /\ serving' = [w \in Workers |-> Nothing]
    /\ pc' = [r \in Requests |-> "idle"]
    /\ request' = [r \in Requests |-> NoRequest]
    /\ mine' = [r \in Requests |-> Nothing]
    /\ synthetic' = [r \in Requests |-> FALSE]
    /\ answer' = [r \in Requests |-> "none"]

-----------------------------------------------------------------------------

Step(r) ==
    \/ Check(r) \/ Ensure(r) \/ Mint(r) \/ Refuse(r) \/ Initialize(r)
    \/ Insert(r) \/ Send(r) \/ Serve(r) \/ Record(r) \/ Begin(r)
    \/ Forget(r) \/ Drop(r)

End(w) == Abandoned(w) \/ CleanRegistry(w) \/ CleanSessions(w)

Next ==
    \/ \E r \in Requests : Step(r) \/ Fail(r) \/ Cancel(r)
    \/ \E r \in Requests, i \in Ids, h \in Identities \cup {Missing} :
           \/ CreateSession(r, i, h)
           \/ \E kind \in Kinds : Arrive(r, i, kind, h)
    \/ \E w \in Workers : End(w) \/ Idle(w)
    \/ Restart

Spec == Init /\ [][Next]_vars

(***************************************************************************)
(* The runtime polls every task that is ready: requests in flight, workers *)
(* and their cleaning tasks go on.  Nothing makes a client send a request. *)
(***************************************************************************)
Fairness ==
    /\ \A r \in Requests : WF_vars(Step(r))
    /\ \A w \in Workers : WF_vars(End(w))

FairSpec == Spec /\ Fairness

-----------------------------------------------------------------------------
(* Properties *)

Live(i) == sessions[i] # Nothing /\ worker[sessions[i]] = "running"

\* Every entry of the two maps will be removed by some cleaning task that has
\* not yet come to it: no entry outlives the last worker of its id.
EveryEntryHasAnOwner ==
    \A i \in Ids :
        /\ registry[i] # Nothing =>
               \E w \in MadeFor(i) : worker[w] # "forgotten"
        /\ sessions[i] # Nothing => sessions[i] \in MadeFor(i)

\* A worker that is being minted is known to its request alone; one the tower
\* has created for a new id is the only one, and its request too.
WorkersHaveTheirPlace ==
    /\ \A w \in Workers : worker[w] = "free" <=> serving[w] = Nothing
    /\ \A r \in Requests :
        /\ pc[r] # "idle" => Id(r) \in Ids
        /\ pc[r] \notin {"initialize", "insert", "await"} => mine[r] = Nothing
        /\ pc[r] \in {"initialize", "insert"} =>
               /\ mine[r] \in MadeFor(Id(r))
               /\ worker[mine[r]] \in {"waiting", "running"}
               /\ \A i \in Ids : sessions[i] # mine[r]
               /\ \A q \in Requests \ {r} : mine[q] # mine[r]
        /\ pc[r] \in {"record", "begin"} =>
               /\ OnId(Id(r)) = {r}
               /\ MadeFor(Id(r)) = {sessions[Id(r)]}
               /\ worker[sessions[Id(r)]] = "waiting"

\* The inductive invariant the proofs rest on.
IInv ==
    /\ TypeOK
    /\ WorkersHaveTheirPlace
    /\ EveryEntryHasAnOwner

\* A session that clients can reach has an identity to act under.
LiveSessionsAreKnown == \A i \in Ids : Live(i) => registry[i] # Nothing

\* With clients that send one request at a time and neither close a session
\* nor go away, when no initialize fails: an id has one worker, in the map or on its way there, and the
\* identity is recorded from before the worker is inserted until it has ended.
OneWorkerPerId ==
    /\ \A q, r \in Requests : pc[q] # "idle" /\ pc[r] # "idle" /\ Id(q) = Id(r)
                                 => q = r
    /\ \A r \in Requests : pc[r] \notin {"forget", "drop"}
    /\ \A r \in Requests : pc[r] \in {"mint", "initialize", "insert"}
                              => sessions[Id(r)] = Nothing
    /\ \A r \in Requests : pc[r] \in {"initialize", "insert", "begin"}
                              => registry[Id(r)] # Nothing
    /\ \A w \in Workers : serving[w] # Nothing =>
           \/ sessions[serving[w]] = w
           \/ \E r \in Requests : pc[r] \in {"initialize", "insert"} /\ mine[r] = w
    /\ LiveSessionsAreKnown

\* What a request knows of its session: it mints under the identity it names,
\* and is served by the worker in the map, which stays until it has answered.
RequestsKeepTheirWorker ==
    \A r \in Requests :
        /\ pc[r] = "idle" => request[r] = NoRequest
        /\ request[r].kind # "close"
        /\ pc[r] \in {"check", "record", "begin"} => request[r].kind = "initialize"
        /\ pc[r] \in {"mint", "initialize", "insert"} /\ ~ synthetic[r]
               => request[r].kind = "initialize"
        /\ pc[r] \in {"initialize", "insert", "begin"} =>
               /\ request[r].header \in Identities
               /\ registry[Id(r)] = request[r].header
        /\ pc[r] = "insert" => worker[mine[r]] = "running"
        /\ pc[r] = "await" => mine[r] = sessions[Id(r)] /\ Live(Id(r))

\* When nothing runs for an id any more, the session left behind, if there is
\* one, is known: the next request for the id will be served.
SettledSessionsAreKnown ==
    \A i \in Ids : Live(i) /\ OnId(i) = {} /\ MadeFor(i) = {sessions[i]}
                       => registry[i] # Nothing

\* Whoever sends both headers is served, whatever the server has forgotten.
PostsAreServed == \A r \in Requests : answer[r] \notin {"unknown", "broken"}

\* Without the headers no initialize is served.
ConnectionsAreIdentified ==
    [][\A r \in Requests :
          /\ pc[r] # "idle" /\ request[r].kind = "initialize"
          /\ request[r].header = Missing
          => answer'[r] # "served"]_vars

\* The identity of a session is pinned to it: as long as one worker serves
\* the id, no other identity takes its place.
IdentityIsPinned ==
    [][\A i \in Ids : Live(i) /\ Live(i)' /\ sessions'[i] = sessions[i]
          => registry'[i] = registry[i]]_vars

\* What a client sees of a session: the identity it acts under, if it can be
\* reached.
Known(i) == IF Live(i) THEN registry[i] ELSE Nothing

\* Clients that send one request at a time, and neither close nor go away, see
\* a table of sessions when no initialize fails: opened under the identity of the request that needs
\* one, served under it from then on, lost only as a whole.  The two maps, the
\* awaits between them, dead handles and cleaning tasks do not show.
Table == INSTANCE SessionTable WITH known <- [i \in Ids |-> Known(i)]

ImplementsTable == Table!Spec

\* A handle whose worker has ended does not stay in the map for ever, where
\* it would break every request for its id.
DeadHandlesGo ==
    \A i \in Ids :
        (sessions[i] # Nothing /\ worker[sessions[i]] \in {"ended", "forgotten"})
            ~> (sessions[i] = Nothing \/ worker[sessions[i]] = "running")
=============================================================================
