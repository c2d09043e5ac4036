---------------------------- MODULE SessionsProofs ----------------------------
(***************************************************************************)
(* Proofs about Sessions: that the entries of the two maps always have a   *)
(* worker whose cleaning task will find them, whatever clients, workers    *)
(* and the server's process do; and, for clients that send one request at  *)
(* a time and close nothing, that a session keeps the identity it was      *)
(* made with.                                                              *)
(***************************************************************************)
EXTENDS Sessions, TLAPS

LEMMA InitHolds == Init => IInv
  <1> SUFFICES ASSUME Init PROVE IInv
    OBVIOUS
  <1>1. TypeOK
    BY DEF Init, TypeOK, NoRequest, Kinds, Labels, Answers
  <1>2. WorkersHaveTheirPlace
    BY SessionsAssumption DEF Init, WorkersHaveTheirPlace
  <1>3. EveryEntryHasAnOwner
    BY DEF Init, EveryEntryHasAnOwner
  <1> QED BY <1>1, <1>2, <1>3 DEF IInv

LEMMA TypeIsKept == TypeOK /\ WorkersHaveTheirPlace /\ [Next]_vars => TypeOK'
  <1> SUFFICES ASSUME TypeOK, WorkersHaveTheirPlace, [Next]_vars PROVE TypeOK'
    OBVIOUS
  <1> USE DEF TypeOK, Kinds, Labels, Answers
  <1> NoRequest \in [id : Ids \cup {Nothing}, kind : Kinds,
                     header : Identities \cup {Missing}]
    BY DEF NoRequest
  <1>1. CASE UNCHANGED vars
    BY <1>1 DEF vars
  <1>2. ASSUME NEW r \in Requests, Step(r) \/ Fail(r) \/ Cancel(r)
        PROVE  TypeOK'
    <2> USE DEF Id
    <2>0. /\ request[r].id \in Ids \cup {Nothing}
          /\ request[r].header \in Identities \cup {Missing}
      OBVIOUS
    <2>1. CASE Check(r) \/ Ensure(r)
      <3>1. Goto(r, "mint") \/ Goto(r, "ensure") \/ Goto(r, "send")
        BY <2>1 DEF Check, Ensure
      <3>2. pc' \in [Requests -> Labels]
        BY <3>1 DEF Goto
      <3>3. synthetic' \in [Requests -> BOOLEAN]
        BY <2>1 DEF Check, Ensure
      <3> QED BY <2>1, <3>2, <3>3 DEF Check, Ensure
    <2>2. CASE Mint(r)
      <3>1. PICK w \in Workers : Spawn(w, Id(r)) /\ mine' = [mine EXCEPT ![r] = w]
        BY <2>2 DEF Mint
      <3> QED BY <2>0, <2>2, <3>1 DEF Mint, Spawn, Goto
    <2>3. CASE Refuse(r)
      BY <2>3 DEF Refuse, Answer, Goto
    <2>4. CASE Initialize(r)
      BY <2>4 DEF Initialize, Goto
    <2>5. CASE Insert(r)
      <3>1. sessions' \in [Ids -> Workers \cup {Nothing}]
        BY <2>5 DEF Insert
      <3>2. CASE Answer(r, "served")
        BY <2>5, <3>1, <3>2 DEF Insert, Answer, Goto
      <3>3. CASE /\ Goto(r, "send")
                 /\ mine' = [mine EXCEPT ![r] = Nothing]
                 /\ synthetic' = [synthetic EXCEPT ![r] = FALSE]
                 /\ UNCHANGED <<request, answer>>
        BY <2>5, <3>1, <3>3 DEF Insert, Goto
      <3> QED BY <2>5, <3>2, <3>3 DEF Insert
    <2>6. CASE Send(r)
      <3>1. CASE Answer(r, "broken")
        BY <2>6, <3>1 DEF Send, Answer, Goto
      <3>2. CASE /\ sessions[Id(r)] # Nothing
                 /\ worker[sessions[Id(r)]] = "running"
                 /\ mine' = [mine EXCEPT ![r] = sessions[Id(r)]]
                 /\ Goto(r, "await")
                 /\ UNCHANGED <<request, synthetic, answer>>
        <4>1. sessions[Id(r)] \in Workers
          BY <2>6, <3>2 DEF WorkersHaveTheirPlace, Send
        <4> QED BY <2>6, <3>2, <4>1 DEF Send, Goto
      <3> QED BY <2>6, <3>1, <3>2 DEF Send
    <2>7. CASE Serve(r)
      BY <2>7 DEF Serve, Answer, Goto
    <2>8. CASE Record(r)
      BY <2>0, <2>8 DEF Record, Goto
    <2>9. CASE Begin(r)
      BY <2>9 DEF Begin, Answer, Goto
    <2>10. CASE Forget(r)
      BY <2>10 DEF Forget, Goto
    <2>11. CASE Drop(r)
      BY <2>11 DEF Drop, Answer, Goto
    <2>12. CASE Cancel(r)
      BY <2>12 DEF Cancel, Answer, Goto
    <2>13. CASE Fail(r)
      BY <2>13 DEF Fail, Answer, Goto
    <2> QED
      BY <1>2, <2>1, <2>2, <2>3, <2>4, <2>5, <2>6, <2>7, <2>8, <2>9, <2>10,
         <2>11, <2>12, <2>13 DEF Step
  <1>3. ASSUME NEW r \in Requests, NEW i \in Ids,
               NEW h \in Identities \cup {Missing},
               \/ CreateSession(r, i, h)
               \/ \E kind \in Kinds : Arrive(r, i, kind, h)
        PROVE  TypeOK'
    <2>1. CASE CreateSession(r, i, h)
      <3>1. PICK w \in Workers : Spawn(w, i) /\ sessions' = [sessions EXCEPT ![i] = w]
        BY <2>1 DEF CreateSession
      <3> QED BY <2>1, <3>1 DEF CreateSession, Spawn, Goto
    <2>2. CASE \E kind \in Kinds : Arrive(r, i, kind, h)
      BY <2>2 DEF Arrive, Goto
    <2> QED BY <1>3, <2>1, <2>2
  <1>4. ASSUME NEW w \in Workers, End(w) \/ Idle(w)
        PROVE  TypeOK'
    BY <1>4 DEF End, Idle, Abandoned, CleanRegistry, CleanSessions
  <1>5. CASE Restart
    BY <1>5 DEF Restart
  <1> QED BY <1>1, <1>2, <1>3, <1>4, <1>5 DEF Next

\* What a request does when it arrives.
LEMMA Arrival ==
    ASSUME TypeOK, NEW r \in Requests, NEW i \in Ids,
           NEW h \in Identities \cup {Missing}, NEW kind \in Kinds,
           Arrive(r, i, kind, h)
    PROVE  /\ pc[r] = "idle" /\ Presentable(i)
           /\ \/ Goto(r, "forget") /\ kind = "close" /\ "close" \in Hazards
              \/ Goto(r, "check") /\ kind = "initialize"
              \/ Goto(r, "ensure") /\ kind = "call"
           /\ request' = [request EXCEPT ![r] = [id |-> i, kind |-> kind,
                                                 header |-> h]]
           /\ answer' = [answer EXCEPT ![r] = "none"]
           /\ UNCHANGED <<registry, sessions, worker, serving, mine, synthetic>>
  <1>1. CASE kind = "close"
    BY <1>1 DEF Arrive, Goto, TypeOK
  <1>2. CASE kind = "initialize"
    BY <1>2 DEF Arrive, Goto, TypeOK
  <1>3. CASE kind = "call"
    BY <1>3 DEF Arrive, Goto, TypeOK
  <1> QED BY <1>1, <1>2, <1>3 DEF Kinds

LEMMA PlaceIsKept == IInv /\ [Next]_vars => WorkersHaveTheirPlace'
  <1> SUFFICES ASSUME IInv, [Next]_vars PROVE WorkersHaveTheirPlace'
    OBVIOUS
  <1> USE SessionsAssumption
      DEF IInv, TypeOK, WorkersHaveTheirPlace, EveryEntryHasAnOwner, OnId, MadeFor, Id
  <1>1. CASE UNCHANGED vars
    BY <1>1 DEF vars
  <1>2. ASSUME NEW r \in Requests, Step(r) \/ Fail(r) \/ Cancel(r)
        PROVE  WorkersHaveTheirPlace'
    <2>1. CASE Check(r) \/ Ensure(r)
      <3>1. /\ pc' = [pc EXCEPT ![r] = pc'[r]]
            /\ pc'[r] \in {"mint", "ensure", "send"}
            /\ pc[r] \in {"check", "ensure"}
            /\ UNCHANGED <<sessions, worker, serving, request, mine>>
        BY <2>1 DEF Check, Ensure, Goto
      <3> QED BY <3>1
    <2>2. CASE Mint(r)
      BY <2>2 DEF Mint, Goto, Spawn, Spare
    <2>3. CASE Refuse(r)
      BY <2>3 DEF Refuse, Answer, Goto
    <2>4. CASE Initialize(r)
      BY <2>4 DEF Initialize, Goto
    <2>5. CASE Insert(r)
      <3>1. /\ sessions' = [sessions EXCEPT ![Id(r)] = mine[r]]
            /\ mine' = [mine EXCEPT ![r] = Nothing]
            /\ pc' = [pc EXCEPT ![r] = pc'[r]]
            /\ pc'[r] \in {"idle", "send"}
            /\ \A q \in Requests : pc'[q] # "idle" => request'[q] = request[q]
            /\ UNCHANGED <<worker, serving>>
        BY <2>5 DEF Insert, Answer, Goto
      <3> QED BY <2>5, <3>1 DEF Insert
    <2>6. CASE Send(r)
      <3>1. CASE Answer(r, "broken")
        BY <2>6, <3>1 DEF Send, Answer, Goto
      <3>2. CASE /\ sessions[Id(r)] # Nothing
                 /\ mine' = [mine EXCEPT ![r] = sessions[Id(r)]]
                 /\ Goto(r, "await")
                 /\ UNCHANGED request
        BY <2>6, <3>2 DEF Send, Goto
      <3> QED BY <2>6, <3>1, <3>2 DEF Send
    <2>7. CASE Serve(r)
      BY <2>7 DEF Serve, Answer, Goto
    <2>8. CASE Record(r)
      BY <2>8 DEF Record, Goto
    <2>9. CASE Begin(r)
      BY <2>9 DEF Begin, Answer, Goto
    <2>10. CASE Forget(r)
      BY <2>10 DEF Forget, Goto
    <2>11. CASE Drop(r)
      BY <2>11 DEF Drop, Answer, Goto
    <2>12. CASE Cancel(r)
      BY <2>12 DEF Cancel, Answer, Goto
    <2>13. CASE Fail(r)
      BY <2>13 DEF Fail, Answer, Goto
    <2> QED
      BY <1>2, <2>1, <2>2, <2>3, <2>4, <2>5, <2>6, <2>7, <2>8, <2>9, <2>10,
         <2>11, <2>12, <2>13 DEF Step
  <1>3. ASSUME NEW r \in Requests, NEW i \in Ids,
               NEW h \in Identities \cup {Missing},
               \/ CreateSession(r, i, h)
               \/ \E kind \in Kinds : Arrive(r, i, kind, h)
        PROVE  WorkersHaveTheirPlace'
    <2>1. CASE CreateSession(r, i, h)
      BY <2>1 DEF CreateSession, Spawn, Spare, Goto
    <2>2. ASSUME NEW kind \in Kinds, Arrive(r, i, kind, h)
          PROVE  WorkersHaveTheirPlace'
      <3>1. /\ pc[r] = "idle" /\ Presentable(i)
            /\ Goto(r, "forget") \/ Goto(r, "check") \/ Goto(r, "ensure")
            /\ request' = [request EXCEPT ![r] = [id |-> i, kind |-> kind,
                                                  header |-> h]]
            /\ UNCHANGED <<sessions, worker, serving, mine>>
        BY <2>2, Arrival
      <3> QED BY <3>1 DEF Presentable, Goto
    <2> QED BY <1>3, <2>1, <2>2
  <1>4. ASSUME NEW w \in Workers, End(w) \/ Idle(w)
        PROVE  WorkersHaveTheirPlace'
    <2>1. CASE Abandoned(w)
      BY <2>1 DEF Abandoned, Held
    <2>2. CASE CleanRegistry(w)
      BY <2>2 DEF CleanRegistry
    <2>3. CASE CleanSessions(w)
      BY <2>3 DEF CleanSessions
    <2>4. CASE Idle(w)
      BY <2>4 DEF Idle
    <2> QED BY <1>4, <2>1, <2>2, <2>3, <2>4 DEF End
  <1>5. CASE Restart
    BY <1>5 DEF Restart
  <1> QED BY <1>1, <1>2, <1>3, <1>4, <1>5 DEF Next

LEMMA OwnersAreKept == IInv /\ [Next]_vars => EveryEntryHasAnOwner'
  <1> SUFFICES ASSUME IInv, [Next]_vars PROVE EveryEntryHasAnOwner'
    OBVIOUS
  <1> USE SessionsAssumption
      DEF IInv, TypeOK, WorkersHaveTheirPlace, EveryEntryHasAnOwner, MadeFor, Id
  <1>1. CASE UNCHANGED vars
    BY <1>1 DEF vars
  <1>2. ASSUME NEW r \in Requests, Step(r) \/ Fail(r) \/ Cancel(r)
        PROVE  EveryEntryHasAnOwner'
    <2>1. CASE \/ Check(r) \/ Ensure(r) \/ Refuse(r) \/ Send(r) \/ Serve(r)
               \/ Cancel(r)
      BY <2>1 DEF Check, Ensure, Refuse, Send, Serve, Cancel
    <2>2. CASE Mint(r)
      BY <2>2 DEF Mint, Spawn, Spare
    <2>3. CASE Initialize(r)
      BY <2>3 DEF Initialize
    <2>4. CASE Insert(r)
      BY <2>4 DEF Insert
    <2>5. CASE Record(r)
      BY <2>5 DEF Record
    <2>6. CASE Begin(r)
      BY <2>6 DEF Begin
    <2>7. CASE Forget(r)
      BY <2>7 DEF Forget
    <2>8. CASE Drop(r)
      BY <2>8 DEF Drop
    <2>9. CASE Fail(r)
      BY <2>9 DEF Fail
    <2> QED
      BY <1>2, <2>1, <2>2, <2>3, <2>4, <2>5, <2>6, <2>7, <2>8, <2>9 DEF Step
  <1>3. ASSUME NEW r \in Requests, NEW i \in Ids,
               NEW h \in Identities \cup {Missing},
               \/ CreateSession(r, i, h)
               \/ \E kind \in Kinds : Arrive(r, i, kind, h)
        PROVE  EveryEntryHasAnOwner'
    <2>1. CASE CreateSession(r, i, h)
      <3>1. PICK w \in Workers : Spawn(w, i) /\ sessions' = [sessions EXCEPT ![i] = w]
        BY <2>1 DEF CreateSession
      <3> QED BY <2>1, <3>1 DEF CreateSession, Spawn, Spare
    <2>2. CASE \E kind \in Kinds : Arrive(r, i, kind, h)
      BY <2>2 DEF Arrive
    <2> QED BY <1>3, <2>1, <2>2
  <1>4. ASSUME NEW w \in Workers, End(w) \/ Idle(w)
        PROVE  EveryEntryHasAnOwner'
    <2>1. CASE Abandoned(w) \/ Idle(w)
      BY <2>1 DEF Abandoned, Idle
    <2>2. CASE CleanRegistry(w)
      BY <2>2 DEF CleanRegistry
    <2>3. CASE CleanSessions(w)
      BY <2>3 DEF CleanSessions
    <2> QED BY <1>4, <2>1, <2>2, <2>3 DEF End
  <1>5. CASE Restart
    BY <1>5 DEF Restart
  <1> QED BY <1>1, <1>2, <1>3, <1>4, <1>5 DEF Next

LEMMA NextHolds == IInv /\ [Next]_vars => IInv'
  BY TypeIsKept, PlaceIsKept, OwnersAreKept DEF IInv

\* The inductive invariant: types, the place of each worker, and an owner for
\* each entry of the maps that header_session_manager.rs keeps.
THEOREM Invariance == Spec => []IInv
  BY InitHolds, NextHolds, PTL DEF Spec

\* Every variable keeps its type.
THEOREM TypeCorrectness == Spec => []TypeOK
  <1>1. IInv => TypeOK
    BY DEF IInv
  <1> QED BY Invariance, <1>1, PTL

\* No entry of the registry or of the map of handles outlives the cleaning
\* tasks of the workers made for its id, for any number of sessions, requests
\* and workers, whatever clients do and however workers and the server end.
THEOREM EntriesHaveOwners == Spec => []EveryEntryHasAnOwner
  <1>1. IInv => EveryEntryHasAnOwner
    BY DEF IInv
  <1> QED BY Invariance, <1>1, PTL

-------------------------------------------------------------------------------
(* Clients that send one request at a time, and neither close nor go away,   *)
(* when no initialize fails.                                                 *)

Sequential == Hazards \subseteq {"idle", "restart"}

LEMMA InitAlone == Init => OneWorkerPerId
  BY SessionsAssumption DEF Init, OneWorkerPerId, LiveSessionsAreKnown, Live

\* Such a client's request arrives at an id on which nothing runs.
LEMMA SequentialArrival ==
    ASSUME Sequential, TypeOK, NEW r \in Requests, NEW i \in Ids,
           NEW h \in Identities \cup {Missing}, NEW kind \in Kinds,
           Arrive(r, i, kind, h)
    PROVE  /\ pc[r] = "idle" /\ OnId(i) = {} /\ kind # "close"
           /\ \/ Goto(r, "check") /\ kind = "initialize"
              \/ Goto(r, "ensure") /\ kind = "call"
           /\ request' = [request EXCEPT ![r] = [id |-> i, kind |-> kind,
                                                 header |-> h]]
           /\ UNCHANGED <<registry, sessions, worker, serving, mine, synthetic>>
  BY Arrival DEF Presentable, Sequential

LEMMA OneWorkerIsKept ==
    ASSUME Sequential, IInv, OneWorkerPerId, [Next]_vars
    PROVE  OneWorkerPerId'
  <1> USE SessionsAssumption
      DEF IInv, TypeOK, WorkersHaveTheirPlace, EveryEntryHasAnOwner, MadeFor, Id,
          OneWorkerPerId, LiveSessionsAreKnown, Live
  <1>1. CASE UNCHANGED vars
    BY <1>1 DEF vars
  <1>2. ASSUME NEW r \in Requests, Step(r)
        PROVE  OneWorkerPerId'
    <2>1. CASE Check(r) \/ Ensure(r)
      <3>1. /\ pc[r] \in {"check", "ensure"}
            /\ UNCHANGED <<registry, sessions, worker, serving, request, mine>>
        BY <2>1 DEF Check, Ensure
      <3>2. CASE Goto(r, "mint") /\ sessions[Id(r)] = Nothing
        BY <3>1, <3>2 DEF Goto
      <3>3. CASE Goto(r, "ensure")
        BY <3>1, <3>3 DEF Goto
      <3>4. CASE Goto(r, "send")
        BY <3>1, <3>4 DEF Goto
      <3>5. \/ Goto(r, "mint") /\ sessions[Id(r)] = Nothing
            \/ Goto(r, "ensure") \/ Goto(r, "send")
        <4> HIDE DEF OneWorkerPerId, LiveSessionsAreKnown, IInv, TypeOK, Id,
                     WorkersHaveTheirPlace, EveryEntryHasAnOwner, Live, MadeFor
        <4> QED BY <2>1 DEF Check, Ensure
      <3> QED BY <3>2, <3>3, <3>4, <3>5
    <2>2. CASE Mint(r)
      BY <2>2 DEF Mint, Goto, Spawn, Spare
    <2>3. CASE Refuse(r)
      BY <2>3 DEF Refuse, Answer, Goto
    <2>4. CASE Initialize(r)
      BY <2>4 DEF Initialize, Goto
    <2>5. CASE Insert(r)
      <3>1. /\ sessions' = [sessions EXCEPT ![Id(r)] = mine[r]]
            /\ mine' = [mine EXCEPT ![r] = Nothing]
            /\ pc' = [pc EXCEPT ![r] = pc'[r]]
            /\ pc'[r] \in {"idle", "send"}
            /\ \A q \in Requests : pc'[q] # "idle" => request'[q] = request[q]
            /\ UNCHANGED <<registry, worker, serving>>
        BY <2>5 DEF Insert, Answer, Goto
      <3>2. /\ pc[r] = "insert" /\ Id(r) \in Ids
            /\ registry[Id(r)] # Nothing
            /\ sessions[Id(r)] = Nothing
            /\ serving[mine[r]] = Id(r)
            /\ \A q \in Requests \ {r} : pc[q] # "idle" => Id(q) # Id(r)
        BY <2>5 DEF Insert
      <3>3. \A q \in Requests : pc'[q] \in {"mint", "initialize", "insert"}
                                  => sessions'[request'[q].id] = Nothing
        BY <3>1, <3>2
      <3>4. \A w \in Workers : serving'[w] # Nothing =>
               \/ sessions'[serving'[w]] = w
               \/ \E q \in Requests : /\ pc'[q] \in {"initialize", "insert"}
                                      /\ mine'[q] = w
        <4> SUFFICES ASSUME NEW w \in Workers, serving[w] # Nothing,
                            sessions'[serving[w]] # w
                     PROVE  \E q \in Requests : /\ pc'[q] \in {"initialize", "insert"}
                                                /\ mine'[q] = w
          BY <3>1
        <4>1. sessions[serving[w]] # w
          BY <3>1, <3>2
        <4>2. PICK q \in Requests : pc[q] \in {"initialize", "insert"} /\ mine[q] = w
          BY <4>1
        <4> QED BY <3>1, <3>2, <4>2
      <3>5. LiveSessionsAreKnown'
        BY <3>1, <3>2
      <3>6. \A q \in Requests : /\ pc'[q] \notin {"forget", "drop"}
                                /\ pc'[q] \in {"initialize", "insert", "begin"}
                                      => registry'[request'[q].id] # Nothing
        BY <3>1
      <3>7. \A p, q \in Requests :
               pc'[p] # "idle" /\ pc'[q] # "idle" /\ request'[p].id = request'[q].id => p = q
        BY <3>1, <3>2
      <3> QED BY <3>3, <3>4, <3>5, <3>6, <3>7
    <2>6. CASE Send(r)
      <3>1. CASE Answer(r, "broken")
        BY <2>6, <3>1 DEF Send, Answer, Goto
      <3>2. CASE /\ sessions[Id(r)] # Nothing
                 /\ mine' = [mine EXCEPT ![r] = sessions[Id(r)]]
                 /\ Goto(r, "await")
                 /\ UNCHANGED request
        BY <2>6, <3>2 DEF Send, Goto
      <3> QED BY <2>6, <3>1, <3>2 DEF Send
    <2>7. CASE Serve(r)
      BY <2>7 DEF Serve, Answer, Goto
    <2>8. CASE Record(r)
      BY <2>8 DEF Record, Goto
    <2>9. CASE Begin(r)
      BY <2>9 DEF Begin, Answer, Goto
    <2>10. CASE Forget(r) \/ Drop(r)
      BY <2>10 DEF Forget, Drop
    <2> QED
      BY <1>2, <2>1, <2>2, <2>3, <2>4, <2>5, <2>6, <2>7, <2>8, <2>9, <2>10 DEF Step
  <1>3. ASSUME NEW r \in Requests, Fail(r) \/ Cancel(r)
        PROVE  OneWorkerPerId'
    BY <1>3 DEF Fail, Cancel, Sequential
  <1>4. ASSUME NEW r \in Requests, NEW i \in Ids,
               NEW h \in Identities \cup {Missing},
               \/ CreateSession(r, i, h)
               \/ \E kind \in Kinds : Arrive(r, i, kind, h)
        PROVE  OneWorkerPerId'
    <2>1. CASE CreateSession(r, i, h)
      BY <2>1 DEF CreateSession, Spawn, Spare, Goto, OnId
    <2>2. ASSUME NEW kind \in Kinds, Arrive(r, i, kind, h)
          PROVE  OneWorkerPerId'
      <3>1. /\ pc[r] = "idle" /\ OnId(i) = {}
            /\ request' = [request EXCEPT ![r] = [id |-> i, kind |-> kind,
                                                  header |-> h]]
            /\ UNCHANGED <<registry, sessions, worker, serving, mine>>
        BY <2>2, SequentialArrival
      <3>2. \A q \in Requests \ {r} : pc[q] # "idle" => Id(q) # i
        BY <3>1 DEF OnId
      <3>3. CASE Goto(r, "check")
        BY <3>1, <3>2, <3>3 DEF Goto
      <3>4. CASE Goto(r, "ensure")
        BY <3>1, <3>2, <3>4 DEF Goto
      <3> QED BY <2>2, <3>3, <3>4, SequentialArrival
    <2> QED BY <1>4, <2>1, <2>2
  <1>5. ASSUME NEW w \in Workers, End(w) \/ Idle(w)
        PROVE  OneWorkerPerId'
    <2>1. CASE Abandoned(w) \/ Idle(w)
      BY <2>1 DEF Abandoned, Idle
    <2>2. CASE CleanRegistry(w)
      <3>1. /\ worker[w] = "ended"
            /\ serving[w] \in Ids
            /\ sessions[serving[w]] = w
        BY <2>2 DEF CleanRegistry
      <3>2. \A q \in Requests : pc[q] \in {"initialize", "insert", "begin"}
                                  => Id(q) # serving[w]
        BY <3>1
      <3>3. /\ registry' = [registry EXCEPT ![serving[w]] = Nothing]
            /\ worker' = [worker EXCEPT ![w] = "forgotten"]
            /\ UNCHANGED <<sessions, serving, pc, request, mine>>
        BY <2>2 DEF CleanRegistry
      <3>4. \A q \in Requests : pc'[q] \in {"initialize", "insert", "begin"}
                                  => registry'[Id(q)'] # Nothing
        BY <3>2, <3>3
      <3>5. LiveSessionsAreKnown'
        BY <3>1, <3>3
      <3> QED BY <3>3, <3>4, <3>5
    <2>3. CASE CleanSessions(w)
      BY <2>3 DEF CleanSessions
    <2> QED BY <1>5, <2>1, <2>2, <2>3 DEF End
  <1>6. CASE Restart
    BY <1>6 DEF Restart, NoRequest
  <1> QED BY <1>1, <1>2, <1>3, <1>4, <1>5, <1>6 DEF Next

LEMMA SequentialInvariance ==
    ASSUME Sequential
    PROVE  Spec => [](IInv /\ OneWorkerPerId)
  <1>1. Init => IInv /\ OneWorkerPerId
    BY InitHolds, InitAlone
  <1>2. IInv /\ OneWorkerPerId /\ [Next]_vars => (IInv /\ OneWorkerPerId)'
    BY NextHolds, OneWorkerIsKept
  <1> QED BY <1>1, <1>2, PTL DEF Spec

\* An id has one worker, in the map or on its way there, as long as its client
\* sends one request at a time and neither closes the session nor goes away.
THEOREM OneWorkerEach ==
    ASSUME Sequential
    PROVE  Spec => []OneWorkerPerId
  BY SequentialInvariance, PTL

\* For such clients a session that can be reached has an identity to act
\* under, although the registry and the map are changed apart, workers end
\* when they are idle, and the server restarts.
THEOREM LiveSessionsKnown ==
    ASSUME Sequential
    PROVE  Spec => []LiveSessionsAreKnown
  <1>1. OneWorkerPerId => LiveSessionsAreKnown
    BY DEF OneWorkerPerId
  <1> QED BY SequentialInvariance, <1>1, PTL

\* For such clients no session is left behind without an identity, where the
\* next request for its id would be refused; finding_reopen shows a close and
\* a cleaning task leave one.
THEOREM SettledSessionsKnown ==
    ASSUME Sequential
    PROVE  Spec => []SettledSessionsAreKnown
  <1>1. LiveSessionsAreKnown => SettledSessionsAreKnown
    BY DEF LiveSessionsAreKnown, SettledSessionsAreKnown
  <1> QED BY LiveSessionsKnown, <1>1, PTL

\* For such clients the identity of a session does not change under the worker
\* that serves it.
THEOREM IdentitiesArePinned ==
    ASSUME Sequential
    PROVE  Spec => IdentityIsPinned
  <1> DEFINE Pinned == \A i \in Ids :
                 Live(i) /\ Live(i)' /\ sessions'[i] = sessions[i]
                     => registry'[i] = registry[i]
  <1>1. ASSUME IInv, OneWorkerPerId, [Next]_vars
        PROVE  [Pinned]_vars
    <2> USE SessionsAssumption
        DEF IInv, TypeOK, WorkersHaveTheirPlace, EveryEntryHasAnOwner, MadeFor,
            Id, OneWorkerPerId, Live
    <2>1. CASE UNCHANGED vars
      BY <2>1
    <2>2. ASSUME NEW r \in Requests, Step(r) \/ Fail(r) \/ Cancel(r)
          PROVE  Pinned
      <3>1. CASE Mint(r)
        BY <1>1, <3>1 DEF Mint
      <3>2. CASE Record(r)
        BY <1>1, <3>2 DEF Record
      <3>3. CASE Forget(r)
        BY <1>1, <3>3 DEF Forget
      <3>4. CASE UNCHANGED registry
        BY <3>4
      <3> QED
        BY <2>2, <3>1, <3>2, <3>3, <3>4
        DEF Step, Check, Ensure, Refuse, Initialize, Insert, Send, Serve, Begin, Drop,
            Fail, Cancel
    <2>3. ASSUME NEW r \in Requests, NEW i \in Ids,
                 NEW h \in Identities \cup {Missing},
                 \/ CreateSession(r, i, h)
                 \/ \E kind \in Kinds : Arrive(r, i, kind, h)
          PROVE  Pinned
      BY <2>3 DEF CreateSession, Arrive
    <2>4. ASSUME NEW w \in Workers, End(w) \/ Idle(w)
          PROVE  Pinned
      BY <1>1, <2>4 DEF End, Idle, Abandoned, CleanRegistry, CleanSessions
    <2>5. CASE Restart
      BY <2>5 DEF Restart
    <2> QED BY <1>1, <2>1, <2>2, <2>3, <2>4, <2>5 DEF Next
  <1>2. Spec => [][Pinned]_vars
    BY SequentialInvariance, <1>1, PTL DEF Spec
  <1> QED BY <1>2 DEF IdentityIsPinned

===============================================================================
