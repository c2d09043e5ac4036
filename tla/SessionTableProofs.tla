-------------------------- MODULE SessionTableProofs --------------------------
(***************************************************************************)
(* Sessions implements SessionTable for clients that send one request at a *)
(* time and neither close nor go away, when no initialize fails            *)
(* (Sequential): each step of a request and of a cleaning task is a step   *)
(* of the table or leaves it alone.                                        *)
(* RequestsKeep is the invariant that needs; PostsServed, at the end, says *)
(* of the same clients which of their requests are served.                 *)
(***************************************************************************)
EXTENDS SessionsProofs

LEMMA InitKeeps == Init => RequestsKeepTheirWorker
  BY DEF Init, RequestsKeepTheirWorker, NoRequest

\* A request that has been answered is out of the way.
LEMMA AnswerKeeps ==
    ASSUME IInv, RequestsKeepTheirWorker, NEW r \in Requests, NEW how,
           Answer(r, how), UNCHANGED registry,
           \A q \in Requests \ {r} : pc[q] \in {"insert", "await"} =>
               /\ sessions'[Id(q)] = sessions[Id(q)]
               /\ worker'[mine[q]] = worker[mine[q]]
    PROVE  RequestsKeepTheirWorker'
  BY DEF IInv, TypeOK, RequestsKeepTheirWorker, Answer, Goto, Id, NoRequest, Live

LEMMA StepKeeps ==
    ASSUME Sequential, IInv, OneWorkerPerId, RequestsKeepTheirWorker,
           NEW r \in Requests, Step(r)
    PROVE  RequestsKeepTheirWorker'
  <1> USE DEF IInv, TypeOK, Id, Live
  <1>1. CASE Check(r) \/ Ensure(r)
    <2>1. CASE Check(r)
      BY <2>1 DEF Check, Goto, RequestsKeepTheirWorker
    <2>2. CASE Ensure(r)
      <3>1. /\ UNCHANGED <<registry, sessions, worker, request, mine>>
            /\ \A q \in Requests \ {r} : synthetic'[q] = synthetic[q]
            /\ pc[r] = "ensure"
        BY <2>2 DEF Ensure
      <3>2. CASE Goto(r, "mint") /\ synthetic'[r]
        BY <3>1, <3>2 DEF Goto, RequestsKeepTheirWorker
      <3>3. CASE Goto(r, "send")
        BY <3>1, <3>3 DEF Goto, RequestsKeepTheirWorker
      <3> QED BY <2>2, <3>2, <3>3 DEF Ensure
    <2> QED BY <1>1, <2>1, <2>2
  <1>2. CASE Mint(r)
    <2>1. Id(r) \in Ids /\ \A q \in Requests \ {r} : pc[q] # "idle" => Id(q) # Id(r)
      BY <1>2 DEF Mint, WorkersHaveTheirPlace, OneWorkerPerId
    <2>2. PICK w \in Workers : Spare(w) /\ mine' = [mine EXCEPT ![r] = w]
                               /\ worker' = [worker EXCEPT ![w] = "waiting"]
      BY <1>2 DEF Mint, Spawn
    <2> QED
      BY <1>2, <2>1, <2>2 DEF Mint, Goto, Spare, RequestsKeepTheirWorker
  <1>3. CASE Refuse(r) \/ Serve(r)
    BY <1>3, AnswerKeeps DEF Refuse, Serve
  <1>4. CASE Initialize(r)
    <2>1. mine[r] \in Workers
      BY <1>4 DEF Initialize, WorkersHaveTheirPlace, MadeFor
    <2>2. \A q \in Requests : pc[q] \in {"insert", "await"} => mine[q] # mine[r]
      BY <1>4 DEF Initialize, WorkersHaveTheirPlace
    <2> QED
      BY <1>4, <2>1, <2>2 DEF Initialize, Goto, RequestsKeepTheirWorker
  <1>5. CASE Insert(r)
    <2>1. \A q \in Requests \ {r} : pc[q] # "idle" => Id(q) # Id(r)
      BY <1>5 DEF Insert, OneWorkerPerId
    <2>2. CASE Answer(r, "served")
      <3>1. \A q \in Requests \ {r} : pc[q] \in {"insert", "await"} =>
               sessions'[Id(q)] = sessions[Id(q)]
        BY <1>5, <2>1 DEF Insert, WorkersHaveTheirPlace
      <3>2. UNCHANGED <<registry, worker>>
        BY <1>5 DEF Insert
      <3> QED BY <2>2, <3>1, <3>2, AnswerKeeps
    <2>3. CASE Goto(r, "send") /\ UNCHANGED request
               /\ mine' = [mine EXCEPT ![r] = Nothing]
               /\ synthetic' = [synthetic EXCEPT ![r] = FALSE]
      <3>1. \A q \in Requests \ {r} :
               /\ pc'[q] = pc[q] /\ mine'[q] = mine[q]
               /\ synthetic'[q] = synthetic[q]
        BY <2>3 DEF Goto
      <3>2. \A q \in Requests \ {r} :
               pc[q] # "idle" => sessions'[Id(q)] = sessions[Id(q)]
        BY <1>5, <2>1 DEF Insert, WorkersHaveTheirPlace
      <3>3. pc'[r] = "send" /\ UNCHANGED <<registry, worker, request>>
        BY <1>5, <2>3 DEF Insert, Goto
      <3> QED BY <3>1, <3>2, <3>3 DEF RequestsKeepTheirWorker
    <2> QED BY <1>5, <2>2, <2>3 DEF Insert
  <1>6. CASE Send(r)
    <2>1. CASE Answer(r, "broken")
      BY <1>6, <2>1, AnswerKeeps DEF Send
    <2>2. CASE /\ sessions[Id(r)] # Nothing
               /\ worker[sessions[Id(r)]] = "running"
               /\ mine' = [mine EXCEPT ![r] = sessions[Id(r)]]
               /\ Goto(r, "await") /\ UNCHANGED request
      BY <1>6, <2>2 DEF Send, Goto, RequestsKeepTheirWorker
    <2> QED BY <1>6, <2>1, <2>2 DEF Send
  <1>7. CASE Record(r)
    <2>1. Id(r) \in Ids /\ \A q \in Requests \ {r} : pc[q] # "idle" => Id(q) # Id(r)
      BY <1>7 DEF Record, WorkersHaveTheirPlace, OneWorkerPerId
    <2> QED
      BY <1>7, <2>1 DEF Record, Goto, RequestsKeepTheirWorker
  <1>8. CASE Begin(r)
    <2>1. \A q \in Requests : pc[q] \in {"insert", "await"} =>
                                 mine[q] # sessions[Id(r)]
      BY <1>8, SessionsAssumption
         DEF Begin, WorkersHaveTheirPlace, RequestsKeepTheirWorker, MadeFor
    <2> QED BY <1>8, <2>1, AnswerKeeps DEF Begin
  <1>9. CASE Forget(r) \/ Drop(r)
    BY <1>9 DEF Forget, Drop, OneWorkerPerId
  <1> QED
    BY <1>1, <1>2, <1>3, <1>4, <1>5, <1>6, <1>7, <1>8, <1>9 DEF Step

LEMMA NextKeeps ==
    ASSUME Sequential, IInv, OneWorkerPerId, RequestsKeepTheirWorker,
           [Next]_vars
    PROVE  RequestsKeepTheirWorker'
  <1> USE DEF IInv, TypeOK, Id, Live
  <1>1. CASE UNCHANGED vars
    BY <1>1 DEF vars, RequestsKeepTheirWorker
  <1>2. ASSUME NEW r \in Requests, Step(r) \/ Fail(r) \/ Cancel(r)
        PROVE  RequestsKeepTheirWorker'
    BY <1>2, StepKeeps DEF Fail, Cancel, Sequential
  <1>3. ASSUME NEW r \in Requests, NEW i \in Ids,
               NEW h \in Identities \cup {Missing}, CreateSession(r, i, h)
        PROVE  RequestsKeepTheirWorker'
    BY <1>3
       DEF CreateSession, Spawn, Spare, OnId, Goto, RequestsKeepTheirWorker
  <1>4. ASSUME NEW r \in Requests, NEW i \in Ids, NEW kind \in Kinds,
               NEW h \in Identities \cup {Missing}, Arrive(r, i, kind, h)
        PROVE  RequestsKeepTheirWorker'
    <2>1. /\ pc[r] = "idle" /\ kind # "close"
          /\ \/ Goto(r, "check") /\ kind = "initialize"
             \/ Goto(r, "ensure") /\ kind = "call"
          /\ request' = [request EXCEPT ![r] = [id |-> i, kind |-> kind,
                                                header |-> h]]
          /\ UNCHANGED <<registry, sessions, worker, mine, synthetic>>
      <3> HIDE DEF TypeOK
      <3> QED BY <1>4, SequentialArrival
    <2> QED BY <2>1 DEF Goto, RequestsKeepTheirWorker
  <1>5. ASSUME NEW w \in Workers, End(w) \/ Idle(w)
        PROVE  RequestsKeepTheirWorker'
    <2>1. CASE Abandoned(w)
      BY <1>5, <2>1 DEF Abandoned, Held, RequestsKeepTheirWorker, WorkersHaveTheirPlace
    <2>2. CASE Idle(w)
      BY <2>2 DEF Idle, RequestsKeepTheirWorker
    <2>3. CASE CleanRegistry(w) \/ CleanSessions(w)
      <3>1. serving[w] # Nothing /\ worker[w] \in {"ended", "forgotten"}
        BY <2>3 DEF CleanRegistry, CleanSessions, WorkersHaveTheirPlace
      <3>2. sessions[serving[w]] = w
        BY <3>1 DEF OneWorkerPerId, WorkersHaveTheirPlace
      <3>3. \A q \in Requests : pc[q] \in {"initialize", "insert", "begin", "await"}
                                  => Id(q) # serving[w]
        BY <3>1, <3>2, SessionsAssumption
           DEF OneWorkerPerId, WorkersHaveTheirPlace, RequestsKeepTheirWorker
      <3>4. \A q \in Requests : pc[q] = "await" =>
               /\ mine[q] \in Workers \ {w}
               /\ sessions[Id(q)] = mine[q] /\ worker[mine[q]] = "running"
        BY <3>1 DEF RequestsKeepTheirWorker
      <3>5. CASE CleanRegistry(w)
        BY <3>1, <3>3, <3>4, <3>5 DEF CleanRegistry, RequestsKeepTheirWorker
      <3>6. CASE CleanSessions(w)
        BY <3>1, <3>3, <3>4, <3>6 DEF CleanSessions, RequestsKeepTheirWorker
      <3> QED BY <2>3, <3>5, <3>6
    <2> QED BY <1>5, <2>1, <2>2, <2>3 DEF End
  <1>6. CASE Restart
    BY <1>6 DEF Restart, NoRequest, RequestsKeepTheirWorker
  <1> QED BY <1>1, <1>2, <1>3, <1>4, <1>5, <1>6 DEF Next

LEMMA TableInvariance ==
    ASSUME Sequential
    PROVE  Spec => [](IInv /\ OneWorkerPerId /\ RequestsKeepTheirWorker)
  <1>1. IInv /\ OneWorkerPerId /\ RequestsKeepTheirWorker /\ [Next]_vars
            => RequestsKeepTheirWorker'
    BY NextKeeps
  <1> QED BY SequentialInvariance, InitKeeps, <1>1, PTL DEF Spec

\* A request mints and inserts under the identity it names, and the worker it
\* is served by stays until it has answered: header_session_manager.rs checks
\* neither again after an await.
THEOREM RequestsKeep ==
    ASSUME Sequential
    PROVE  Spec => []RequestsKeepTheirWorker
  BY TableInvariance, PTL

-------------------------------------------------------------------------------
(* Each step is a step of the table, or leaves it alone.                      *)

Ready == IInv /\ OneWorkerPerId /\ RequestsKeepTheirWorker

LEMMA InitMaps == Init => Table!Init
  <1> SUFFICES ASSUME Init PROVE Table!Init
    OBVIOUS
  <1>1. \A i \in Ids : Known(i) = Nothing
    BY DEF Init, Known, Live
  <1> QED BY <1>1 DEF Init, Table!Init, Table!NoRequest, NoRequest

\* What becomes of the table when at most the session i changes.
LEMMA OneKnown ==
    ASSUME NEW i \in Ids, \A j \in Ids \ {i} : Known(j)' = Known(j)
    PROVE  [j \in Ids |-> Known(j)]'
               = [[j \in Ids |-> Known(j)] EXCEPT ![i] = Known(i)']
  OBVIOUS

LEMMA AllKnown ==
    ASSUME \A j \in Ids : Known(j)' = Known(j)
    PROVE  UNCHANGED [j \in Ids |-> Known(j)]
  OBVIOUS

LEMMA AnswerMaps ==
    ASSUME NEW r, NEW how, Answer(r, how)
    PROVE  Table!Answer(r, how)
  BY DEF Answer, Table!Answer, Table!NoRequest, NoRequest

\* A request that runs, and what its session is to the table.
LEMMA RequestMaps ==
    ASSUME Ready, NEW r \in Requests, pc[r] # "idle"
    PROVE  /\ Id(r) \in Ids /\ Table!Waiting(r)
           /\ Table!Id(r) = Id(r)
           /\ [j \in Ids |-> Known(j)][Id(r)] = Known(Id(r))
  BY DEF Ready, IInv, WorkersHaveTheirPlace, Table!Waiting, Table!Id, Id

LEMMA StepMaps ==
    ASSUME Sequential, Ready, NEW r \in Requests, Step(r)
    PROVE  [Table!Next]_(Table!vars)
  <1> USE DEF Ready, IInv, TypeOK
  <1>0. ASSUME \A j \in Ids : Known(j)' = Known(j),
               UNCHANGED <<request, answer>>
        PROVE  UNCHANGED Table!vars
    BY <1>0, AllKnown DEF Table!vars
  <1>1. CASE Check(r) \/ Ensure(r)
    BY <1>0, <1>1 DEF Check, Ensure, Known, Live
  <1>2. CASE Mint(r)
    <2>1. PICK w \in Workers : worker[w] = "free"
                               /\ worker' = [worker EXCEPT ![w] = "waiting"]
      BY <1>2 DEF Mint, Spawn, Spare
    <2>2. sessions[Id(r)] = Nothing /\ Id(r) \in Ids
      BY <1>2 DEF Mint, OneWorkerPerId, WorkersHaveTheirPlace
    <2>3. \A j \in Ids : Known(j)' = Known(j)
      BY <1>2, <2>1, <2>2 DEF Mint, Known, Live
    <2> QED BY <1>0, <1>2, <2>3 DEF Mint
  <1>3. CASE Refuse(r)
    <2>1. Known(Id(r)) = Nothing
      BY <1>3 DEF Refuse, OneWorkerPerId, WorkersHaveTheirPlace, Known, Live
    <2>2. UNCHANGED [j \in Ids |-> Known(j)]
      BY <1>3, AllKnown DEF Refuse, Known, Live
    <2>3. Table!Refuse(r)
      BY <1>3, <2>1, <2>2, AnswerMaps, RequestMaps DEF Refuse, Table!Refuse
    <2> QED BY <2>3 DEF Table!Next
  <1>4. CASE Initialize(r)
    <2>1. /\ mine[r] \in Workers
          /\ \A j \in Ids : sessions[j] # mine[r]
      BY <1>4 DEF Initialize, WorkersHaveTheirPlace, MadeFor
    <2>2. \A j \in Ids : Known(j)' = Known(j)
      BY <1>4, <2>1 DEF Initialize, Known, Live
    <2> QED BY <1>0, <1>4, <2>2 DEF Initialize
  <1>5. CASE Insert(r)
    <2>1. PICK i \in Ids : i = Id(r)
      BY <1>5 DEF Insert, WorkersHaveTheirPlace
    <2>2. /\ sessions[i] = Nothing
          /\ mine[r] \in Workers /\ worker[mine[r]] = "running"
          /\ request[r].header \in Identities
          /\ registry[i] = request[r].header
      BY <1>5, <2>1 DEF Insert, OneWorkerPerId, WorkersHaveTheirPlace, MadeFor,
                        RequestsKeepTheirWorker
    <2>3. /\ sessions' = [sessions EXCEPT ![i] = mine[r]]
          /\ UNCHANGED <<registry, worker>>
      BY <1>5, <2>1 DEF Insert
    <2>4. Known(i) = Nothing /\ Known(i)' = request[r].header
      BY <2>2, <2>3, SessionsAssumption DEF Known, Live
    <2>5. \A j \in Ids \ {i} : Known(j)' = Known(j)
      BY <2>3 DEF Known, Live
    <2>6. [j \in Ids |-> Known(j)]'
              = [[j \in Ids |-> Known(j)] EXCEPT ![i] = request[r].header]
      BY <2>4, <2>5, OneKnown
    <2>7. \/ request[r].kind = "initialize" /\ Table!Answer(r, "served")
          \/ UNCHANGED <<request, answer>>
      BY <1>5, AnswerMaps DEF Insert, RequestsKeepTheirWorker
    <2>8. Table!Open(r)
      BY <1>5, <2>1, <2>2, <2>4, <2>6, <2>7, RequestMaps DEF Insert, Table!Open
    <2> QED BY <2>8 DEF Table!Next
  <1>6. CASE Send(r)
    <2>1. \A j \in Ids : Known(j)' = Known(j)
      BY <1>6 DEF Send, Known, Live
    <2>2. CASE UNCHANGED <<request, answer>>
      BY <1>0, <2>1, <2>2
    <2>3. CASE ~ Live(Id(r)) /\ Answer(r, "broken")
      <3>1. Table!Break(r)
        BY <1>6, <2>1, <2>3, AllKnown, AnswerMaps, RequestMaps
           DEF Send, Table!Break, Known
      <3> QED BY <3>1 DEF Table!Next
    <2> QED BY <1>6, <2>2, <2>3 DEF Send, Live
  <1>7. CASE Serve(r)
    <2>1. /\ mine[r] = sessions[Id(r)] /\ Live(Id(r))
          /\ registry[Id(r)] # Nothing
      BY <1>7 DEF Serve, RequestsKeepTheirWorker, OneWorkerPerId,
                  LiveSessionsAreKnown, WorkersHaveTheirPlace
    <2>2. Answer(r, "served") /\ Known(Id(r)) # Nothing
      BY <1>7, <2>1 DEF Serve, Live, Known
    <2>3. UNCHANGED [j \in Ids |-> Known(j)]
      BY <1>7, AllKnown DEF Serve, Known, Live
    <2>4. Table!Serve(r)
      BY <1>7, <2>2, <2>3, AnswerMaps, RequestMaps DEF Serve, Table!Serve
    <2> QED BY <2>4 DEF Table!Next
  <1>8. CASE Record(r)
    <2>1. Id(r) \in Ids /\ ~ Live(Id(r))
      BY <1>8 DEF Record, WorkersHaveTheirPlace, Live
    <2>2. \A j \in Ids : Known(j)' = Known(j)
      BY <1>8, <2>1 DEF Record, Known, Live
    <2> QED BY <1>0, <1>8, <2>2 DEF Record
  <1>9. CASE Begin(r)
    <2>1. PICK i \in Ids : i = Id(r)
      BY <1>9 DEF Begin, WorkersHaveTheirPlace
    <2>2. sessions[i] \in Workers /\ worker[sessions[i]] = "waiting"
      BY <1>9, <2>1 DEF Begin, WorkersHaveTheirPlace, MadeFor
    <2>3. \A j \in Ids \ {i} : sessions[j] # sessions[i]
      BY <2>1, <2>2, SessionsAssumption DEF EveryEntryHasAnOwner, MadeFor
    <2>4. /\ request[r].kind = "initialize"
          /\ request[r].header \in Identities
          /\ registry[i] = request[r].header
      BY <1>9, <2>1 DEF Begin, RequestsKeepTheirWorker
    <2>5. /\ worker' = [worker EXCEPT ![sessions[i]] = "running"]
          /\ UNCHANGED <<registry, sessions>>
      BY <1>9, <2>1 DEF Begin
    <2>6. Known(i) = Nothing /\ Known(i)' = request[r].header
      BY <2>2, <2>4, <2>5, SessionsAssumption DEF Known, Live
    <2>7. \A j \in Ids \ {i} : Known(j)' = Known(j)
      BY <2>3, <2>5 DEF Known, Live
    <2>8. [j \in Ids |-> Known(j)]'
              = [[j \in Ids |-> Known(j)] EXCEPT ![i] = request[r].header]
      BY <2>6, <2>7, OneKnown
    <2>9. Table!Open(r)
      BY <1>9, <2>1, <2>4, <2>6, <2>8, AnswerMaps, RequestMaps
         DEF Begin, Table!Open
    <2> QED BY <2>9 DEF Table!Next
  <1>10. CASE Forget(r) \/ Drop(r)
    BY <1>10 DEF Forget, Drop, OneWorkerPerId
  <1> QED
    BY <1>1, <1>2, <1>3, <1>4, <1>5, <1>6, <1>7, <1>8, <1>9, <1>10 DEF Step

LEMMA ClientMaps ==
    ASSUME Sequential, Ready, NEW r \in Requests, NEW i \in Ids,
           NEW h \in Identities \cup {Missing},
           \/ CreateSession(r, i, h)
           \/ \E kind \in Kinds : Arrive(r, i, kind, h)
    PROVE  Table!Next
  <1> USE DEF Ready, IInv, TypeOK
  <1>1. PICK kind \in {"initialize", "call"} :
            /\ request' = [request EXCEPT ![r] = [id |-> i, kind |-> kind,
                                                  header |-> h]]
            /\ answer' = [answer EXCEPT ![r] = "none"]
    BY DEF CreateSession, Arrive, Kinds, Sequential
  <1>2. pc[r] = "idle" /\ OnId(i) = {}
    BY DEF CreateSession, Arrive, Presentable, Sequential
  <1>3. \A q \in Requests : Table!Id(q) # i
    <2> SUFFICES ASSUME NEW q \in Requests PROVE request[q].id # i
      BY DEF Table!Id
    <2>1. CASE pc[q] = "idle"
      BY <2>1, SessionsAssumption DEF RequestsKeepTheirWorker, NoRequest
    <2>2. CASE pc[q] # "idle"
      BY <1>2, <2>2 DEF OnId, Id
    <2> QED BY <2>1, <2>2
  <1>4. ~ Table!Waiting(r)
    BY <1>2, SessionsAssumption
       DEF RequestsKeepTheirWorker, NoRequest, Table!Waiting, Table!Id
  <1>5. UNCHANGED [j \in Ids |-> Known(j)]
    <2>1. CASE CreateSession(r, i, h)
      <3>1. PICK w \in Workers :
                /\ worker[w] = "free"
                /\ worker' = [worker EXCEPT ![w] = "waiting"]
                /\ sessions' = [sessions EXCEPT ![i] = w]
        BY <2>1 DEF CreateSession, Spawn, Spare
      <3>2. sessions[i] = Nothing /\ UNCHANGED registry
        BY <2>1 DEF CreateSession
      <3>3. \A j \in Ids : Known(j)' = Known(j)
        BY <3>1, <3>2 DEF Known, Live
      <3> QED BY <3>3, AllKnown
    <2>2. CASE \E kind_1 \in Kinds : Arrive(r, i, kind_1, h)
      BY <2>2, AllKnown DEF Arrive, Known, Live
    <2> QED BY <2>1, <2>2
  <1>6. Table!Ask(r, i, kind, h)
    BY <1>1, <1>3, <1>4, <1>5 DEF Table!Ask
  <1> QED BY <1>6 DEF Table!Next

LEMMA EndMaps ==
    ASSUME Sequential, Ready, NEW w \in Workers, End(w) \/ Idle(w)
    PROVE  [Table!Next]_(Table!vars)
  <1> USE DEF Ready, IInv, TypeOK
  <1>0. ASSUME \A j \in Ids : Known(j)' = Known(j),
               UNCHANGED <<request, answer>>
        PROVE  UNCHANGED Table!vars
    BY <1>0, AllKnown DEF Table!vars
  <1>1. CASE Abandoned(w)
    <2>1. \A j \in Ids : Known(j)' = Known(j)
      BY <1>1 DEF Abandoned, Held, Known, Live
    <2> QED BY <1>0, <1>1, <2>1 DEF Abandoned
  <1>2. CASE Idle(w)
    <2>1. PICK i \in Ids : serving[w] = i /\ sessions[i] = w
      BY <1>2 DEF Idle, WorkersHaveTheirPlace, OneWorkerPerId
    <2>2. Known(i)' = Nothing
      BY <1>2, <2>1 DEF Idle, Known, Live
    <2>3. \A j \in Ids \ {i} : Known(j)' = Known(j)
      BY <1>2, <2>1, SessionsAssumption
         DEF Idle, Known, Live, EveryEntryHasAnOwner, MadeFor
    <2>4. [j \in Ids |-> Known(j)]'
              = [[j \in Ids |-> Known(j)] EXCEPT ![i] = Nothing]
      BY <2>2, <2>3, OneKnown
    <2>5. Table!Lose(i)
      BY <1>2, <2>4 DEF Idle, Table!Lose
    <2> QED BY <2>5 DEF Table!Next
  <1>3. CASE CleanRegistry(w) \/ CleanSessions(w)
    <2>1. PICK i \in Ids : serving[w] = i /\ sessions[i] = w
      <3>1. serving[w] # Nothing /\ worker[w] \notin {"waiting", "running"}
        BY <1>3 DEF CleanRegistry, CleanSessions, WorkersHaveTheirPlace
      <3>2. sessions[serving[w]] = w
        BY <3>1 DEF OneWorkerPerId, WorkersHaveTheirPlace
      <3> QED BY <3>1, <3>2
    <2>2. \A j \in Ids \ {i} : sessions[j] # w
      BY <2>1, SessionsAssumption DEF EveryEntryHasAnOwner, MadeFor
    <2>3. \A j \in Ids : Known(j)' = Known(j)
      BY <1>3, <2>1, <2>2 DEF CleanRegistry, CleanSessions, Known, Live
    <2> QED BY <1>0, <1>3, <2>3 DEF CleanRegistry, CleanSessions
  <1> QED BY <1>1, <1>2, <1>3 DEF End

LEMMA RestartMaps ==
    ASSUME Restart
    PROVE  Table!Restart
  <1>1. \A j \in Ids : Known(j)' = Nothing
    BY DEF Restart, Known, Live
  <1> QED BY <1>1 DEF Restart, Table!Restart, Table!NoRequest, NoRequest

LEMMA NextMaps ==
    ASSUME Sequential, Ready, [Next]_vars
    PROVE  [Table!Next]_(Table!vars)
  <1>1. CASE UNCHANGED vars
    <2>1. UNCHANGED [j \in Ids |-> Known(j)]
      BY <1>1, AllKnown DEF vars, Known, Live
    <2> QED BY <1>1, <2>1 DEF vars, Table!vars
  <1>2. ASSUME NEW r \in Requests, Step(r) \/ Fail(r) \/ Cancel(r)
        PROVE  [Table!Next]_(Table!vars)
    BY <1>2, StepMaps DEF Fail, Cancel, Sequential
  <1>3. CASE Restart
    BY <1>3, RestartMaps DEF Table!Next
  <1> QED BY <1>1, <1>2, <1>3, ClientMaps, EndMaps DEF Next

\* For clients that send one request at a time, and neither close a session nor
\* go away, when no initialize fails, the two maps, the awaits between them,
\* the dead handles and the cleaning tasks of header_session_manager.rs do not
\* show: they see a table of sessions, each opened under the identity that its
\* request names, serving every request under it from then on, and lost only as
\* a whole.
THEOREM TableRefinement ==
    ASSUME Sequential
    PROVE  Spec => ImplementsTable
  <1>1. IInv /\ OneWorkerPerId /\ RequestsKeepTheirWorker /\ [Next]_vars
            => [Table!Next]_(Table!vars)
    BY NextMaps DEF Ready
  <1>2. Spec => [][Table!Next]_(Table!vars)
    BY TableInvariance, <1>1, PTL DEF Spec
  <1> QED BY InitMaps, <1>2, PTL DEF Spec, ImplementsTable, Table!Spec

-------------------------------------------------------------------------------
(* The same clients, when no worker is idle long enough to end.               *)

Busy == Hazards \subseteq {"restart"}

\* No worker ends at all, so that whatever a request has found in the map is
\* still there and running when its message is pushed.
WorkersStay ==
    /\ \A w \in Workers : worker[w] \notin {"ended", "forgotten"}
    /\ \A r \in Requests :
        /\ pc[r] \in {"check", "ensure"} /\ sessions[Id(r)] # Nothing => Live(Id(r))
        /\ pc[r] = "send" => Live(Id(r))
    /\ PostsAreServed

LEMMA InitStays == Init => WorkersStay
  BY DEF Init, WorkersStay, PostsAreServed

\* A request that has been answered, but for the worst, changes nothing else.
LEMMA AnswerStays ==
    ASSUME Ready, WorkersStay, NEW r \in Requests,
           NEW how \in {"none", "served", "refused"}, Answer(r, how),
           UNCHANGED <<sessions, worker>>
    PROVE  WorkersStay'
  BY DEF Ready, IInv, TypeOK, WorkersStay, PostsAreServed, Answer, Goto, Live, Id

LEMMA StepStays ==
    ASSUME Busy, Ready, WorkersStay, NEW r \in Requests, Step(r)
    PROVE  WorkersStay'
  <1> USE DEF Ready, IInv, TypeOK, WorkersStay, PostsAreServed, Live, Id
  <1>1. CASE Check(r) \/ Ensure(r) \/ Record(r)
    BY <1>1 DEF Check, Ensure, Record, Goto
  <1>2. CASE Mint(r)
    BY <1>2 DEF Mint, Spawn, Spare, Goto
  <1>3. CASE Refuse(r)
    BY <1>3, AnswerStays DEF Refuse
  <1>4. CASE Initialize(r)
    BY <1>4 DEF Initialize, Goto, WorkersHaveTheirPlace
  <1>5. CASE Insert(r)
    <2>1. PICK i \in Ids : i = Id(r)
      BY <1>5 DEF Insert, WorkersHaveTheirPlace
    <2>2. \A q \in Requests \ {r} : pc[q] # "idle" => Id(q) # i
      BY <1>5, <2>1 DEF Insert, OneWorkerPerId
    <2>3. sessions' = [sessions EXCEPT ![i] = mine[r]] /\ UNCHANGED worker
      BY <1>5, <2>1 DEF Insert
    <2>4. mine[r] # Nothing /\ worker[mine[r]] = "running"
      BY <1>5, SessionsAssumption
         DEF Insert, WorkersHaveTheirPlace, MadeFor, RequestsKeepTheirWorker
    <2>5. CASE Answer(r, "served")
      BY <2>1, <2>2, <2>3, <2>5 DEF Answer, Goto
    <2>6. CASE Goto(r, "send") /\ UNCHANGED <<request, answer>>
      BY <2>1, <2>2, <2>3, <2>4, <2>6 DEF Goto
    <2> QED BY <1>5, <2>5, <2>6 DEF Insert
  <1>6. CASE Send(r)
    BY <1>6 DEF Send, Goto
  <1>7. CASE Serve(r)
    <2>1. Answer(r, "served")
      BY <1>7 DEF Serve, RequestsKeepTheirWorker, OneWorkerPerId,
                  LiveSessionsAreKnown, WorkersHaveTheirPlace
    <2> QED BY <1>7, <2>1, AnswerStays DEF Serve
  <1>8. CASE Begin(r)
    <2>1. \A q \in Requests \ {r} : pc[q] # "idle" => Id(q) # Id(r)
      BY <1>8 DEF Begin, OneWorkerPerId
    <2> QED BY <1>8, <2>1 DEF Begin, Answer, Goto
  <1>9. CASE Forget(r) \/ Drop(r)
    BY <1>9 DEF Forget, Drop, OneWorkerPerId
  <1> QED
    BY <1>1, <1>2, <1>3, <1>4, <1>5, <1>6, <1>7, <1>8, <1>9 DEF Step

LEMMA NextStays ==
    ASSUME Busy, Ready, WorkersStay, [Next]_vars
    PROVE  WorkersStay'
  <1> USE DEF Ready, IInv, TypeOK
  <1>1. CASE UNCHANGED vars
    BY <1>1 DEF vars, WorkersStay, PostsAreServed, Live, Id
  <1>2. ASSUME NEW r \in Requests, Step(r) \/ Fail(r) \/ Cancel(r)
        PROVE  WorkersStay'
    BY <1>2, StepStays DEF Fail, Cancel, Busy
  <1>3. ASSUME NEW r \in Requests, NEW i \in Ids,
               NEW h \in Identities \cup {Missing}, CreateSession(r, i, h)
        PROVE  WorkersStay'
    BY <1>3 DEF CreateSession, Spawn, Spare, OnId, Goto, WorkersStay,
                PostsAreServed, Live, Id
  <1>4. ASSUME NEW r \in Requests, NEW i \in Ids, NEW kind \in Kinds,
               NEW h \in Identities \cup {Missing}, Arrive(r, i, kind, h)
        PROVE  WorkersStay'
    <2>1. sessions[i] # Nothing => Live(i)
      <3>1. sessions[i] # Nothing => worker[sessions[i]] \notin {"free", "waiting"}
        BY <1>4, SessionsAssumption DEF Arrive, Presentable, MadeFor,
                 EveryEntryHasAnOwner, WorkersHaveTheirPlace
      <3> QED BY <3>1 DEF WorkersStay, Live
    <2>2. UNCHANGED <<sessions, worker>>
      BY <1>4 DEF Arrive
    <2>3. /\ pc' = [pc EXCEPT ![r] = pc'[r]]
          /\ pc'[r] \in {"forget", "check", "ensure"}
          /\ request' = [request EXCEPT ![r] = [id |-> i, kind |-> kind,
                                                header |-> h]]
          /\ answer' = [answer EXCEPT ![r] = "none"]
      BY <1>4 DEF Arrive, Goto, Kinds
    <2> QED
      BY <2>1, <2>2, <2>3 DEF WorkersStay, PostsAreServed, Live, Id
  <1>5. ASSUME NEW w \in Workers, End(w) \/ Idle(w)
        PROVE  FALSE
    <2>1. CASE Abandoned(w)
      <3>1. serving[w] # Nothing /\ ~ Held(w)
        BY <2>1 DEF Abandoned, WorkersHaveTheirPlace
      <3> QED BY <3>1 DEF OneWorkerPerId, Held
    <2>2. CASE CleanRegistry(w) \/ CleanSessions(w)
      BY <2>2 DEF CleanRegistry, CleanSessions, WorkersStay
    <2> QED BY <1>5, <2>1, <2>2 DEF End, Idle, Busy
  <1>6. CASE Restart
    BY <1>6 DEF Restart, WorkersStay, PostsAreServed
  <1> QED BY <1>1, <1>2, <1>3, <1>4, <1>5, <1>6 DEF Next

\* Whoever sends both headers, one request at a time, is served, however often
\* the server restarts and forgets the sessions its clients still hold.  The
\* run finding_mint_race shows what a second request at the same time does.
THEOREM PostsServed ==
    ASSUME Busy
    PROVE  Spec => []PostsAreServed
  <1>1. Sequential
    BY DEF Busy, Sequential
  <1>2. Ready /\ WorkersStay /\ [Next]_vars => WorkersStay'
    BY NextStays
  <1>3. Spec => []Ready
    BY <1>1, TableInvariance DEF Ready
  <1>4. WorkersStay => PostsAreServed
    BY DEF WorkersStay
  <1> QED BY InitStays, <1>2, <1>3, <1>4, PTL DEF Spec
=============================================================================
