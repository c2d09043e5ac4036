--------------------------- MODULE SoulBoardProofs ---------------------------
(***************************************************************************)
(* SoulStore implements SoulBoard, for every value of the constants: each  *)
(* statement is a step of the board or leaves it alone.  A write happens   *)
(* at its COMMIT, a read at its UPDATE, a claim at its COMMIT.             *)
(***************************************************************************)
EXTENDS SoulStoreProofs

Young == UNION {late[c] : c \in Conns}

LEMMA YoungShrinks ==
    ASSUME \A d \in Conns : late'[d] \subseteq late[d]
    PROVE  Young' \in SUBSET Young
BY DEF Young

\* A statement that commits nothing.
LEMMA QuietMaps ==
    ASSUME UNCHANGED <<souls, subs>>, \A d \in Conns : late'[d] \subseteq late[d]
    PROVE  Board!Next
BY YoungShrinks DEF Young, Board!Next, Board!Age

\* The board's Cardinality is that of FiniteSets, instantiated.
LEMMA SameCardinality == \A S : Board!Cardinality(S) = Cardinality(S)
BY DEF Board!Cardinality, Cardinality

LEMMA BoardWrites ==
    ASSUME NEW a \in Agents, NEW k \in Keys, NEW v \in Values \cup {Absent},
           Board!Write(a, k, v)
    PROVE  Board!Next
BY DEF Board!Next

LEMMA BoardActsOnARow ==
    ASSUME NEW r \in Rows,
           Board!Read(r) \/ Board!Subscribe(r) \/ Board!Unsubscribe(r)
    PROVE  Board!Next
<1>1. r \in Board!Rows
  BY DEF Rows, Scopes, Board!Rows, Board!Scopes
<1> QED BY <1>1 DEF Board!Next

LEMMA BoardTakes ==
    ASSUME NEW s \in Subscribers, NEW n \in Limits, Board!Take(s, n)
    PROVE  Board!Next
BY DEF Board!Next

LEMMA InitMaps == Init => Board!Init
BY DEF Init, Board!Init, Cells, Rows, Scopes, Board!Cells, Board!Rows,
       Board!Scopes

\* The COMMIT of a write fires every row of its scope but the late ones.
LEMMA CommitMaps ==
    ASSUME IInv, NEW c \in Conns, CommitWrite(c)
    PROVE  Board!Next
<1> USE DEF IInv
<1>0. PICK a \in Agents, k \in Keys, v \in Values \cup {Absent} :
          a = call[c].target /\ k = call[c].scope /\ v = call[c].value
  <2>1. Cell(c) \in Cells /\ call[c] \in CallRecords
    BY DEF CommitWrite, Writing, CallsHoldWhatTheyNeed, TypeOK
  <2> QED BY <2>1 DEF Cell, Cells, CallRecords
<1> DEFINE fired == {r \in Concerned(c) : Present(r)}
<1>1. /\ Raising(c) /\ todo[c] = {} /\ Writing(c) /\ Finish(c)
      /\ pc[c] = "raiseSoul" <=> keySetChanged[c]
      /\ souls' = [souls EXCEPT ![<<a, k>>] = v]
      /\ subs' = [r \in Rows |-> IF r \in held[c] THEN "unread" ELSE subs[r]]
  BY <1>0 DEF CommitWrite, Raising, Writing, CallsHoldWhatTheyNeed, Cell
<1>2. ChangesKeySet(c) = keySetChanged[c]
  BY <1>1 DEF CallsHoldWhatTheyNeed
<1>3. /\ Concerned(c) \subseteq Rows
      /\ \A r \in Rows : r \in Concerned(c) <=> PassedBy(c, r)
  BY <1>1, <1>2 DEF Concerned, PassedBy, Raising
<1>4. held[c] \subseteq fired /\ fired \ held[c] \subseteq late[c]
  BY <1>1, <1>3 DEF WritesReachTheirScope, TypeOK
<1>5. Board!Fired(a, k, v) = Concerned(c)
  BY <1>0 DEF Board!Fired, Concerned, ChangesKeySet, Cell, Rows, Scopes,
         Board!Rows, Board!Scopes
<1>6. v = Absent => souls[<<a, k>>] # Absent
  BY <1>0, <1>1, <1>2 DEF CallsHoldWhatTheyNeed, ChangesKeySet, Cell
<1>7. Young' \in SUBSET Young
  BY <1>1, YoungShrinks DEF Finish, TypeOK
<1> DEFINE missed == fired \ held[c]
<1>8. missed \in SUBSET Young
  BY <1>4 DEF Young
<1>9. subs' = [r \in Rows |->
                  IF r \in Board!Fired(a, k, v) \ missed /\ Board!Present(r)
                  THEN "unread" ELSE subs[r]]
  BY <1>1, <1>4, <1>5 DEF Board!Present, Present
<1>10. Board!Write(a, k, v)
  BY <1>1, <1>6, <1>7, <1>8, <1>9
     DEF Board!Write, Young, Rows, Scopes, Board!Rows, Board!Scopes
<1> QED BY <1>0, <1>10, BoardWrites

LEMMA ClearMaps ==
    ASSUME IInv, NEW c \in Conns, Clear(c)
    PROVE  Board!Next
<1> USE DEF IInv
<1>1. PICK r \in Rows : r = Row(c)
  BY DEF Clear, CallsHoldWhatTheyNeed
<1>2. Young' \in SUBSET Young
  BY YoungShrinks DEF Clear, Finish, TypeOK
<1>3. subs' = [p \in Rows |-> IF p \in {q \in {r} : Board!Present(q)}
                              THEN "read" ELSE subs[p]]
  BY <1>1 DEF Clear, TypeOK, Board!Present, Present
<1>4. Board!Read(r)
  BY <1>2, <1>3
     DEF Clear, Board!Read, Board!Resolve, Young, Rows, Scopes, Board!Rows,
         Board!Scopes
<1> QED BY <1>1, <1>4, BoardActsOnARow

LEMMA SettleMaps ==
    ASSUME IInv, NEW c \in Conns, Settle(c)
    PROVE  Board!Next
<1> USE DEF IInv
<1>0. PICK s, n : s = call[c].who /\ n = call[c].limit
  OBVIOUS
<1>1. Young' \in SUBSET Young
  BY YoungShrinks DEF Settle, Finish, TypeOK
<1>2. /\ held[c] \subseteq Pending(s) /\ Cardinality(held[c]) <= n
      /\ n \in Limits \cup {0}
  BY <1>0
     DEF Settle, Claiming, ClaimsAreExclusive, BatchWithinLimit, TypeOK,
         CallRecords, Pending
<1>3. CASE held[c] = {}
  <2>1. UNCHANGED <<souls, subs>>
    BY <1>3 DEF Settle, TypeOK
  <2> QED BY <1>1, <2>1 DEF Board!Next, Board!Age, Young
<1>4. CASE held[c] # {}
  <2>1. s \in Subscribers
    BY <1>2, <1>4, RowFields DEF Pending
  <2>2. Cardinality(held[c]) \in Nat \ {0}
    BY <1>4, RowSetsAreFinite, FS_EmptySet DEF TypeOK
  <2>3. n \in Limits
    BY <1>2, <2>2
  <2>4. Board!Take(s, n)
    BY <1>1, <1>2, SameCardinality
       DEF Settle, Board!Take, Board!Resolve, Board!Pending, Pending, Young,
           Rows, Scopes, Board!Rows, Board!Scopes
  <2> QED BY <2>1, <2>3, <2>4, BoardTakes
<1> QED BY <1>3, <1>4

LEMMA SubscriptionMaps ==
    ASSUME IInv, NEW r \in Rows, Subscribe(r) \/ Unsubscribe(r)
    PROVE  Board!Next
<1> USE DEF IInv
<1>1. CASE Subscribe(r)
  <2>1. \A d \in Conns : late'[d] \subseteq late[d] \cup {r}
    BY <1>1 DEF Subscribe, TypeOK
  <2>2. Young' \in SUBSET (Young \cup {r})
    BY <2>1 DEF Young
  <2>3. Board!Subscribe(r)
    BY <1>1, <2>2
       DEF Subscribe, Board!Subscribe, Board!Present, Young, TypeOK
  <2> QED BY <2>3, BoardActsOnARow
<1>2. CASE Unsubscribe(r)
  <2>1. \A d \in Conns : late'[d] = late[d] \ {r}
    BY <1>2 DEF Unsubscribe
  <2>2. Young' \in SUBSET (Young \ {r})
    BY <2>1 DEF Young
  <2>3. Board!Unsubscribe(r)
    BY <1>2, <2>2 DEF Unsubscribe, Board!Unsubscribe, Young
  <2> QED BY <2>3, BoardActsOnARow
<1> QED BY <1>1, <1>2

LEMMA NextMaps == IInv /\ [Next]_vars => [Board!Next]_(Board!vars)
<1> SUFFICES ASSUME IInv, [Next]_vars
             PROVE  Board!Next \/ UNCHANGED Board!vars
  OBVIOUS
<1>1. CASE UNCHANGED vars
  BY <1>1 DEF vars, tables, history, Board!vars
<1>2. ASSUME NEW c \in Conns, StartCall(c)
      PROVE  Board!Next
  BY <1>2, QuietMaps
     DEF StartCall, StartSet, StartDelete, StartRead, StartTake, Start,
         tables, history
<1>3. ASSUME NEW c \in Conns, Step(c)
      PROVE  Board!Next
  <2>1. CASE CommitWrite(c)
    BY <2>1, CommitMaps
  <2>2. CASE Clear(c)
    BY <2>2, ClearMaps
  <2>3. CASE Settle(c)
    BY <2>3, SettleMaps
  <2>4. CASE DeleteNothing(c) \/ SelectOnly(c)
    BY <2>4, QuietMaps
       DEF DeleteNothing, SelectOnly, Finish, tables, IInv, TypeOK
  <2>5. CASE Upsert(c) \/ DeleteRow(c) \/ FireKey(c) \/ FireSoul(c)
             \/ (\E r \in Rows : Raise(c, r))
    BY <2>5, QuietMaps
       DEF Upsert, DeleteRow, FireKey, FireSoul, Raise, tables, history
  <2>6. CASE Select(c) \/ ClaimKeys(c) \/ ClaimSouls(c) \/ Count(c)
    BY <2>6, QuietMaps
       DEF Select, ClaimKeys, ClaimSouls, Count, tables, history
  <2> QED BY <1>3, <2>1, <2>2, <2>3, <2>4, <2>5, <2>6 DEF Step
<1>4. ASSUME NEW c \in Conns, Kill(c) \/ DeadlockAbort(c)
      PROVE  Board!Next
  BY <1>4, QuietMaps
     DEF Kill, DeadlockAbort, Rollback, Finish, tables, IInv, TypeOK
<1>5. ASSUME NEW r \in Watchable, Subscribe(r) \/ Unsubscribe(r)
      PROVE  Board!Next
  BY <1>5, NamesAssumption, SubscriptionMaps
<1> QED BY <1>1, <1>2, <1>3, <1>4, <1>5 DEF Next

\* Whatever statements the calls are made of and however they interleave,
\* fail and die, callers see the atomic board: a write and the notifications
\* it fires appear together, a claim takes only pending rows of its caller
\* within its limit, and only the subscriptions added during a write escape it.
THEOREM Refinement == Spec => ImplementsBoard
BY InitMaps, NextMaps, Invariance, PTL
   DEF Spec, ImplementsBoard, Board!Spec
=============================================================================
