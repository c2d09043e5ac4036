--------------------------- MODULE SoulCallsProofs ---------------------------
(***************************************************************************)
(* SoulStore implements SoulCalls, for every value of the constants: the   *)
(* statements of a call are one step of the call, or none if it fails.     *)
(***************************************************************************)
EXTENDS SoulStoreProofs

LEMMA SameRows ==
    /\ Calls!Rows = Rows /\ Calls!Board!Rows = Rows
    /\ Calls!Board!Scopes = Scopes /\ Calls!Board!Cells = Cells
BY DEF Calls!Rows, Calls!Board!Rows, Calls!Board!Scopes, Calls!Board!Cells,
       Rows, Scopes, Cells

LEMMA SamePresent == \A r : Calls!Present(r) <=> Present(r)
BY DEF Calls!Present, Calls!Board!Present, Present

LEMMA CallsCardinality == \A S : Calls!Cardinality(S) = Cardinality(S)
BY DEF Calls!Cardinality, Cardinality

\* A call in flight, as SoulCalls sees it.
LEMMA JobOfAWrite ==
    ASSUME NEW c, pc[c] \in {"write", "fireKey", "raiseKey", "raiseSoul"}
    PROVE  Job(c) = [op |-> "write", target |-> call[c].target,
                     scope |-> call[c].scope, value |-> call[c].value]
BY DEF Job

LEMMA JobOfARead ==
    ASSUME NEW c, pc[c] \in {"select", "clear"}
    PROVE  Job(c) = [op |-> "read", who |-> call[c].who,
                     target |-> call[c].target, scope |-> call[c].scope]
BY DEF Job

LEMMA JobOfATake ==
    ASSUME NEW c, pc[c] \in {"claimKeys", "claimSouls", "count", "settle"}
    PROVE  Job(c) = [op |-> "take", who |-> call[c].who, limit |-> call[c].limit]
BY DEF Job

LEMMA NoJobWhenIdle ==
    ASSUME IInv, NEW c \in Conns
    PROVE  Job(c) = Calls!NoJob <=> pc[c] = "idle"
<1>1. pc[c] \in Labels
  BY DEF IInv, TypeOK
<1>2. CASE pc[c] = "idle"
  BY <1>2 DEF Job, Calls!NoJob
<1>3. CASE pc[c] # "idle"
  <2>1. Job(c).op \in {"write", "read", "take"}
    BY <1>1, <1>3, JobOfAWrite, JobOfARead, JobOfATake DEF Labels
  <2>2. Calls!NoJob.op = "none"
    BY DEF Calls!NoJob
  <2> QED BY <1>3, <2>1, <2>2
<1> QED BY <1>2, <1>3

\* A statement that neither begins nor ends its call, and commits nothing.
LEMMA QuietCall ==
    ASSUME \A d \in Conns : Job(d)' = Job(d), UNCHANGED <<souls, subs, late>>
    PROVE  UNCHANGED Calls!vars
BY DEF Calls!vars

LEMMA ReturnMaps ==
    ASSUME IInv, NEW c \in Conns, pc[c] # "idle", Finish(c)
    PROVE  Calls!Return(c)
<1>1. \A d \in Conns \ {c} : pc'[d] = pc[d] /\ call'[d] = call[d]
  BY DEF Finish, IInv, TypeOK
<1>2. pc'[c] = "idle"
  BY DEF Finish, IInv, TypeOK
<1>3. \A d \in Conns \ {c} : Job(d)' = Job(d)
  BY <1>1 DEF Job
<1>4. Job(c)' = Calls!NoJob
  BY <1>2 DEF Job, Calls!NoJob
<1>5. [d \in Conns |-> Job(d)]'
          = [[d \in Conns |-> Job(d)] EXCEPT ![c] = Calls!NoJob]
  BY <1>3, <1>4
<1>6. Job(c) # Calls!NoJob
  BY NoJobWhenIdle
<1> QED BY <1>5, <1>6 DEF Calls!Return, Finish

\* A call that is over, in one way or another, is a step of SoulCalls.
LEMMA ReturnIsNext ==
    ASSUME NEW c \in Conns, Calls!Return(c),
           \/ Calls!Write(c) \/ Calls!DeleteNothing(c)
           \/ Calls!Read(c) \/ Calls!Take(c) \/ Calls!Fail(c)
    PROVE  Calls!Next
<1>1. [d \in Conns |-> Job(d)]'[c] # [d \in Conns |-> Job(d)][c]
  BY DEF Calls!Return
<1> QED BY <1>1 DEF Calls!Next

\* A call begins, with arguments of its kind.
LEMMA InvokeMaps ==
    ASSUME IInv, NEW c \in Conns, StartCall(c)
    PROVE  Calls!Next
<1> USE DEF IInv, TypeOK
<1>1. /\ pc[c] = "idle" /\ UNCHANGED <<souls, subs, late>>
      /\ \A d \in Conns \ {c} : pc'[d] = pc[d] /\ call'[d] = call[d]
  BY DEF StartCall, StartSet, StartDelete, StartRead, StartTake, Start,
         tables, history
<1>2. Job(c)' \in Calls!Writes \cup Calls!Reads \cup Calls!Takes
  <2>1. CASE StartSet(c) \/ StartDelete(c)
    <3>1. PICK a \in Agents, k \in Keys, v \in Values \cup {Absent} :
              Start(c, "write", NoReader, a, k, v, 0)
      BY <2>1 DEF StartSet, StartDelete
    <3>2. pc'[c] = "write" /\ call'[c].target = a /\ call'[c].scope = k
          /\ call'[c].value = v
      BY <3>1 DEF Start
    <3>3. Job(c)' = [op |-> "write", target |-> a, scope |-> k, value |-> v]
      BY <3>2 DEF Job
    <3> QED BY <3>3 DEF Calls!Writes
  <2>2. CASE StartRead(c)
    <3>1. PICK s \in Readers, a \in Agents, x \in Scopes :
              Start(c, "select", s, a, x, Absent, 0)
      BY <2>2 DEF StartRead
    <3>2. pc'[c] = "select" /\ call'[c].who = s /\ call'[c].target = a
          /\ call'[c].scope = x
      BY <3>1 DEF Start
    <3>3. Job(c)' = [op |-> "read", who |-> s, target |-> a, scope |-> x]
      BY <3>2 DEF Job
    <3> QED BY <3>3, NamesAssumption, SameRows DEF Calls!Reads
  <2>3. CASE StartTake(c)
    <3>1. PICK s \in Subscribers, n \in Limits :
              Start(c, "claimKeys", s, 0, SoulScope, Absent, n)
      BY <2>3 DEF StartTake
    <3>2. pc'[c] = "claimKeys" /\ call'[c].who = s /\ call'[c].limit = n
      BY <3>1 DEF Start
    <3>3. Job(c)' = [op |-> "take", who |-> s, limit |-> n]
      BY <3>2 DEF Job
    <3> QED BY <3>3 DEF Calls!Takes
  <2> QED BY <2>1, <2>2, <2>3 DEF StartCall
<1>3. \A d \in Conns \ {c} : Job(d)' = Job(d)
  BY <1>1 DEF Job
<1>4. [d \in Conns |-> Job(d)]'
          = [[d \in Conns |-> Job(d)] EXCEPT ![c] = Job(c)']
  BY <1>3
<1>5. Calls!Invoke(c)
  BY <1>1, <1>2, <1>4, NoJobWhenIdle DEF Calls!Invoke, Calls!Jobs
<1>6. Job(c)' # Calls!NoJob
  BY <1>2 DEF Calls!NoJob, Calls!Writes, Calls!Reads, Calls!Takes
<1>7. [d \in Conns |-> Job(d)]'[c] # [d \in Conns |-> Job(d)][c]
  BY <1>1, <1>4, <1>6, NoJobWhenIdle
<1> QED BY <1>5, <1>7 DEF Calls!Next

\* The COMMIT of a write fires every row of its scope that it could find.
LEMMA CommitIsWrite ==
    ASSUME IInv, NEW c \in Conns, CommitWrite(c)
    PROVE  Calls!Next
<1> USE DEF IInv
<1> DEFINE j == Job(c)
           fired == {r \in Concerned(c) : Present(r)}
<1>1. /\ Raising(c) /\ todo[c] = {} /\ Writing(c) /\ Finish(c)
      /\ pc[c] = "raiseSoul" <=> keySetChanged[c]
      /\ souls' = [souls EXCEPT ![Cell(c)] = call[c].value]
      /\ subs' = [r \in Rows |-> IF r \in held[c] THEN "unread" ELSE subs[r]]
  BY DEF CommitWrite, Raising, Writing, CallsHoldWhatTheyNeed
<1>2. ChangesKeySet(c) = keySetChanged[c]
  BY <1>1 DEF CallsHoldWhatTheyNeed
<1>3. /\ Concerned(c) \subseteq Rows
      /\ \A r \in Rows : r \in Concerned(c) <=> PassedBy(c, r)
  BY <1>1, <1>2 DEF Concerned, PassedBy, Raising
<1>4. held[c] \subseteq fired /\ fired \ held[c] \subseteq late[c]
  BY <1>1, <1>3 DEF WritesReachTheirScope, TypeOK
<1>5. /\ j.op = "write" /\ j.target = call[c].target
      /\ j.scope = call[c].scope /\ j.value = call[c].value
  BY <1>1, JobOfAWrite DEF Raising
<1>6. Calls!Board!Fired(j.target, j.scope, j.value) = Concerned(c)
  BY <1>5, SameRows
     DEF Calls!Board!Fired, Concerned, ChangesKeySet, Cell
<1>7. j.value = Absent => souls[<<j.target, j.scope>>] # Absent
  <2>1. call[c].value = Absent => keySetChanged[c]
    BY <1>1 DEF CallsHoldWhatTheyNeed
  <2>2. call[c].value = Absent => souls[Cell(c)] # Absent
    BY <1>2, <2>1 DEF ChangesKeySet
  <2> QED BY <1>5, <2>2 DEF Cell
<1> DEFINE missed == fired \ held[c]
<1>8. missed \in SUBSET late[c]
  BY <1>4
<1>9. subs' = [r \in Rows |-> IF r \in Concerned(c) \ missed /\ Present(r)
                              THEN "unread" ELSE subs[r]]
  BY <1>1, <1>3, <1>4
<1>10. souls' = [souls EXCEPT ![<<j.target, j.scope>>] = j.value]
  BY <1>1, <1>5 DEF Cell
<1>11. Calls!Return(c)
  BY <1>1, ReturnMaps DEF Raising
<1> HIDE DEF j, missed
<1>12. Calls!Write(c)
  BY <1>5, <1>6, <1>7, <1>8, <1>9, <1>10, <1>11, SameRows, SamePresent
     DEF Calls!Write, j
<1> QED BY <1>11, <1>12, ReturnIsNext

\* The UPDATE of a read clears the reader's own row, if it is there.
LEMMA ClearIsRead ==
    ASSUME IInv, NEW c \in Conns, Clear(c)
    PROVE  Calls!Next
<1> USE DEF IInv
<1>1. Row(c) \in Rows /\ pc[c] = "clear" /\ Finish(c) /\ UNCHANGED souls
  BY DEF Clear, CallsHoldWhatTheyNeed
<1>2. /\ Job(c).op = "read" /\ Job(c).who = call[c].who
      /\ Job(c).target = call[c].target /\ Job(c).scope = call[c].scope
  BY <1>1, JobOfARead
<1> DEFINE own == {r \in Rows : /\ Present(r) /\ r.who = Job(c).who
                                /\ r.target = Job(c).target
                                /\ r.scope = Job(c).scope}
<1>3. \A r \in Rows : r \in own <=> r = Row(c) /\ Present(r)
  BY <1>1, <1>2, RowFields DEF Row
<1>4. subs' = [r \in Rows |-> IF r \in own THEN "read" ELSE subs[r]]
  BY <1>1, <1>3 DEF Clear, TypeOK, Present
<1>5. Calls!Return(c)
  BY <1>1, ReturnMaps
<1>6. Calls!Read(c)
  BY <1>1, <1>2, <1>4, <1>5, SameRows, SamePresent
     DEF Calls!Read, Calls!Resolve
<1> QED BY <1>5, <1>6, ReturnIsNext

\* The COMMIT of a claim resolves what it has locked.
LEMMA SettleIsTake ==
    ASSUME IInv, NEW c \in Conns, Settle(c)
    PROVE  Calls!Next
<1> USE DEF IInv
<1>1. /\ pc[c] = "settle" /\ Finish(c) /\ UNCHANGED souls
      /\ subs' = [r \in Rows |-> IF r \in held[c] THEN "read" ELSE subs[r]]
  BY DEF Settle
<1>2. Job(c).op = "take" /\ Job(c).who = call[c].who
      /\ Job(c).limit = call[c].limit
  BY <1>1, JobOfATake
<1>3. /\ held[c] \subseteq Pending(call[c].who)
      /\ Cardinality(held[c]) <= call[c].limit
  BY <1>1 DEF Claiming, ClaimsAreExclusive, BatchWithinLimit, TypeOK, Pending
<1>4. Calls!Board!Pending(Job(c).who) = Pending(call[c].who)
  BY <1>2, SameRows DEF Calls!Board!Pending, Pending
<1>5. Calls!Return(c)
  BY <1>1, ReturnMaps
<1>6. Calls!Take(c)
  BY <1>1, <1>2, <1>3, <1>4, <1>5, SameRows, CallsCardinality
     DEF Calls!Take, Calls!Resolve
<1> QED BY <1>5, <1>6, ReturnIsNext

\* A call that has nothing to commit: there is no row to delete, or no reader
\* whose row it would clear.
LEMMA EmptyEndMaps ==
    ASSUME IInv, NEW c \in Conns, DeleteNothing(c) \/ SelectOnly(c)
    PROVE  Calls!Next
<1> USE DEF IInv
<1>1. pc[c] # "idle" /\ Finish(c) /\ UNCHANGED <<souls, subs>>
  BY DEF DeleteNothing, SelectOnly, tables
<1>2. Calls!Return(c)
  BY <1>1, ReturnMaps
<1>3. CASE DeleteNothing(c)
  <2>1. /\ Job(c).op = "write" /\ Job(c).value = Absent
        /\ souls[<<Job(c).target, Job(c).scope>>] = Absent
    BY <1>3, JobOfAWrite DEF DeleteNothing, Cell
  <2>2. Calls!DeleteNothing(c)
    BY <1>1, <1>2, <2>1 DEF Calls!DeleteNothing
  <2> QED BY <1>2, <2>2, ReturnIsNext
<1>4. CASE SelectOnly(c)
  <2>1. Job(c).op = "read" /\ Job(c).who = NoReader
    BY <1>4, JobOfARead DEF SelectOnly
  <2>2. \A r \in Rows : r.who # NoReader
    BY RowFields, NamesAssumption
  <2>3. subs' = [r \in Rows |-> IF r \in {} THEN "read" ELSE subs[r]]
    BY <1>1 DEF TypeOK
  <2>4. Calls!Read(c)
    BY <1>1, <1>2, <2>1, <2>2, <2>3, SameRows
       DEF Calls!Read, Calls!Resolve
  <2> QED BY <1>2, <2>4, ReturnIsNext
<1> QED BY <1>3, <1>4

LEMMA FailMaps ==
    ASSUME IInv, NEW c \in Conns, Kill(c) \/ DeadlockAbort(c)
    PROVE  Calls!Next
<1> USE DEF IInv
<1>1. pc[c] # "idle"
  <2>1. CASE \E d \in Conns : WaitsFor(c, d)
    BY <2>1 DEF WaitsFor, CallsHoldWhatTheyNeed, Raising
  <2> QED BY <2>1 DEF Kill, DeadlockAbort, Cycle
<1>2. Finish(c) /\ UNCHANGED <<souls, subs>>
  BY DEF Kill, DeadlockAbort, Rollback, tables
<1>3. Calls!Fail(c)
  BY <1>1, <1>2, ReturnMaps DEF Calls!Fail
<1> QED BY <1>1, <1>2, <1>3, ReturnMaps, ReturnIsNext

\* Only writes of its scope that are under way can have missed a subscription.
LEMMA SubscriptionIsOne ==
    ASSUME IInv, NEW r \in Rows, Subscribe(r) \/ Unsubscribe(r)
    PROVE  Calls!Next
<1> USE DEF IInv
<1>1. UNCHANGED souls /\ \A d \in Conns : Job(d)' = Job(d)
  BY DEF Subscribe, Unsubscribe, locals, Job
<1>2. UNCHANGED [d \in Conns |-> Job(d)]
  BY <1>1
<1>3. CASE Subscribe(r)
  <2> DEFINE missing == {d \in Conns : PassedBy(d, r)}
  <2>1. \A d \in missing : /\ Job(d).op = "write"
                            /\ Job(d).target = r.target
                            /\ r.scope \in {Job(d).scope, SoulScope}
    BY JobOfAWrite DEF PassedBy
  <2>2. late' = [d \in Conns |-> IF d \in missing THEN late[d] \cup {r}
                                 ELSE late[d]]
    BY <1>3 DEF Subscribe
  <2> HIDE DEF missing
  <2>3. missing \in SUBSET {d \in Conns : /\ Job(d).op = "write"
                                           /\ Job(d).target = r.target
                                           /\ r.scope \in {Job(d).scope, SoulScope}}
    BY <2>1 DEF missing
  <2>4. Calls!Subscribe(r)
    BY <1>1, <1>2, <1>3, <2>2, <2>3, SamePresent
       DEF Calls!Subscribe, Subscribe, Present
  <2> QED BY <2>4, SameRows DEF Calls!Next
<1>4. CASE Unsubscribe(r)
  <2>1. Calls!Unsubscribe(r)
    BY <1>1, <1>2, <1>4 DEF Calls!Unsubscribe, Unsubscribe
  <2> QED BY <2>1, SameRows DEF Calls!Next
<1> QED BY <1>3, <1>4

\* The other statements of a call do not show.
LEMMA StatementIsQuiet ==
    ASSUME IInv, NEW c \in Conns,
           \/ Upsert(c) \/ DeleteRow(c) \/ FireKey(c) \/ FireSoul(c)
           \/ \E r \in Rows : Raise(c, r)
           \/ Select(c) \/ ClaimKeys(c) \/ ClaimSouls(c) \/ Count(c)
    PROVE  UNCHANGED Calls!vars
<1>1. UNCHANGED <<souls, subs, call, late>>
  BY DEF Upsert, DeleteRow, FireKey, FireSoul, Raise, Select, ClaimKeys,
         ClaimSouls, Count, tables, history
<1>2. \A d \in Conns \ {c} : pc'[d] = pc[d]
  BY DEF IInv, TypeOK, Upsert, DeleteRow, FireKey, FireSoul, Raise, Select,
         ClaimKeys, ClaimSouls, Count
<1>3. \/ /\ pc[c] \in {"write", "fireKey", "raiseKey", "raiseSoul"}
         /\ pc'[c] \in {"write", "fireKey", "raiseKey", "raiseSoul"}
      \/ pc[c] = "select" /\ pc'[c] = "clear"
      \/ /\ pc[c] \in {"claimKeys", "claimSouls", "count"}
         /\ pc'[c] \in {"claimSouls", "count", "settle"}
  <2>1. CASE \E r \in Rows : Raise(c, r)
    <3>1. todo[c] # {} /\ UNCHANGED pc
      BY <2>1 DEF Raise
    <3> QED BY <3>1 DEF IInv, CallsHoldWhatTheyNeed, Raising
  <2> QED
    BY <2>1 DEF IInv, TypeOK, Upsert, DeleteRow, FireKey, FireSoul, Select,
                ClaimKeys, ClaimSouls, Count
<1>4. Job(c)' = Job(c)
  BY <1>1, <1>3 DEF Job
<1>5. \A d \in Conns \ {c} : Job(d)' = Job(d)
  BY <1>1, <1>2 DEF Job
<1> QED BY <1>1, <1>4, <1>5, QuietCall

LEMMA InitIsCalls == Init => Calls!Init
<1> SUFFICES ASSUME Init PROVE Calls!Init
  OBVIOUS
<1>1. \A c \in Conns : Job(c) = Calls!NoJob
  BY DEF Init, Job, Calls!NoJob
<1> QED BY <1>1, SameRows DEF Init, Calls!Init

LEMMA NextIsCalls == IInv /\ [Next]_vars => [Calls!Next]_(Calls!vars)
<1> SUFFICES ASSUME IInv, [Next]_vars
             PROVE  Calls!Next \/ UNCHANGED Calls!vars
  OBVIOUS
<1>1. CASE UNCHANGED vars
  BY <1>1, QuietCall DEF vars, tables, locals, history, Job
<1>2. ASSUME NEW c \in Conns, Step(c)
      PROVE  Calls!Next \/ UNCHANGED Calls!vars
  BY <1>2, CommitIsWrite, ClearIsRead, SettleIsTake, EmptyEndMaps,
     StatementIsQuiet DEF Step
<1>3. ASSUME NEW r \in Watchable, Subscribe(r) \/ Unsubscribe(r)
      PROVE  Calls!Next
  BY <1>3, NamesAssumption, SubscriptionIsOne
<1> QED BY <1>1, <1>2, <1>3, InvokeMaps, FailMaps DEF Next

\* Each call of `Db` happens once, with its own arguments, between its beginning
\* and its return, or fails without a trace, whatever statements it is made of
\* and however they interleave, deadlock and die; and a write misses only the
\* subscriptions added behind its own back.
THEOREM CallsRefinement == Spec => ImplementsCalls
BY InitIsCalls, NextIsCalls, Invariance, PTL
   DEF Spec, ImplementsCalls, Calls!Spec
=============================================================================
