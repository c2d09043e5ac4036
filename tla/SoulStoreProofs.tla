--------------------------- MODULE SoulStoreProofs ---------------------------
(***************************************************************************)
(* What the runs of SoulStore check on small instances, proved for any     *)
(* number of agents, keys, subscribers and connections.                    *)
(***************************************************************************)
EXTENDS SoulStore, FiniteSetTheorems, TLAPS

-----------------------------------------------------------------------------
(* Type correctness *)

LEMMA RowFields ==
    ASSUME NEW r \in Rows
    PROVE  /\ r.who \in Subscribers /\ r.target \in Agents
           /\ r.scope \in Scopes
           /\ r = [who |-> r.who, target |-> r.target, scope |-> r.scope]
BY DEF Rows

LEMMA RowSetsAreFinite ==
    ASSUME NEW R \in SUBSET Rows
    PROVE  IsFiniteSet(R) /\ Cardinality(R) \in Nat
BY NamesAssumption, FS_Subset, FS_CardinalityType

LEMMA LimitsAreNumbers ==
    ASSUME NEW r \in CallRecords
    PROVE  r.limit \in Nat
<1>1. r.limit \in Limits \cup {0}
  BY DEF CallRecords
<1>2. Limits \subseteq Nat
  BY NamesAssumption
<1>3. CASE r.limit = 0
  BY <1>3
<1>4. CASE r.limit \in Limits
  BY <1>2, <1>4
<1> QED BY <1>1, <1>3, <1>4

LEMMA InitTypeOK == Init => TypeOK
BY NamesAssumption DEF Init, TypeOK, NoCall, CallRecords, Labels, Scopes

LEMMA StartTypeOK ==
    ASSUME TypeOK, NEW c \in Conns, StartCall(c)
    PROVE  TypeOK'
<1> USE NamesAssumption DEF TypeOK, Start, tables, history, Labels
<1>1. CASE StartSet(c)
  BY <1>1 DEF StartSet, CallRecords, Scopes
<1>2. CASE StartDelete(c)
  BY <1>2 DEF StartDelete, CallRecords, Scopes
<1>3. CASE StartRead(c)
  BY <1>3 DEF StartRead, CallRecords, Scopes
<1>4. CASE StartTake(c)
  BY <1>4 DEF StartTake, CallRecords, Scopes
<1> QED BY <1>1, <1>2, <1>3, <1>4 DEF StartCall

LEMMA FinishTypeOK ==
    ASSUME TypeOK, NEW c \in Conns, Finish(c),
           souls' \in [Cells -> Values \cup {Absent}],
           subs' \in [Rows -> {"absent", "read", "unread"}],
           informed' \in SUBSET Rows, exposed' \in SUBSET Rows,
           fresh' \in [Conns -> SUBSET Rows]
    PROVE  TypeOK'
BY NamesAssumption
   DEF TypeOK, Finish, Labels, NoCall, CallRecords, Scopes

LEMMA StepTypeOK ==
    ASSUME TypeOK, CallsHoldWhatTheyNeed, NEW c \in Conns, Step(c)
    PROVE  TypeOK'
<1>1. CASE Upsert(c) \/ DeleteRow(c)
  <2>1. Cell(c) \in Cells
    BY <1>1 DEF Upsert, DeleteRow, CallsHoldWhatTheyNeed
  <2>2. keySetChanged' \in [Conns -> BOOLEAN]
    BY <1>1 DEF TypeOK, Upsert, DeleteRow
  <2> QED
    BY <1>1, <2>1, <2>2
       DEF TypeOK, Upsert, DeleteRow, tables, history, Labels
<1>2. CASE DeleteNothing(c)
  BY <1>2, FinishTypeOK DEF DeleteNothing, TypeOK, tables
<1>3. CASE FireKey(c) \/ FireSoul(c)
  BY <1>3 DEF TypeOK, FireKey, FireSoul, Found, tables, history, Labels
<1>4. ASSUME NEW r \in Rows, Raise(c, r)
      PROVE  TypeOK'
  BY <1>4 DEF TypeOK, Raise, tables, history
<1>5. CASE CommitWrite(c)
  <2>1. souls' \in [Cells -> Values \cup {Absent}]
    BY <1>5 DEF CommitWrite, TypeOK, CallRecords
  <2>2. /\ subs' \in [Rows -> {"absent", "read", "unread"}]
        /\ informed' \in SUBSET Rows
        /\ exposed' \in SUBSET Rows
        /\ fresh' \in [Conns -> SUBSET Rows]
    BY <1>5 DEF CommitWrite, TypeOK
  <2> QED BY <1>5, <2>1, <2>2, FinishTypeOK DEF CommitWrite
<1>6. CASE Select(c)
  <2>1. Row(c) \in Rows
    BY <1>6 DEF Select, CallsHoldWhatTheyNeed
  <2> QED BY <1>6, <2>1 DEF TypeOK, Select, tables, Labels
<1>7. CASE SelectOnly(c)
  BY <1>7, FinishTypeOK DEF SelectOnly, TypeOK, tables
<1>8. CASE Clear(c)
  <2>1. subs' \in [Rows -> {"absent", "read", "unread"}]
    BY <1>8 DEF Clear, TypeOK
  <2>2. /\ informed' \in SUBSET Rows
        /\ exposed' \in SUBSET Rows
        /\ fresh' \in [Conns -> SUBSET Rows]
    <3>1. Row(c) \in Rows
      BY <1>8 DEF Clear, CallsHoldWhatTheyNeed
    <3> QED BY <1>8, <3>1 DEF Clear, Reply, TypeOK
  <2> QED BY <1>8, <2>1, <2>2, FinishTypeOK DEF Clear, TypeOK
<1>9. CASE ClaimKeys(c) \/ ClaimSouls(c)
  BY <1>9 DEF TypeOK, ClaimKeys, ClaimSouls, Batches, Pending, tables, Labels
<1>10. CASE Count(c)
  <2>1. Cardinality(Pending(call[c].who) \ held[c]) \in Nat
    BY RowSetsAreFinite DEF Pending
  <2> QED BY <1>10, <2>1 DEF TypeOK, Count, tables, history, Labels
<1>11. CASE Settle(c)
  <2>1. /\ subs' \in [Rows -> {"absent", "read", "unread"}]
        /\ informed' \in SUBSET Rows
        /\ exposed' \in SUBSET Rows
        /\ fresh' \in [Conns -> SUBSET Rows]
    BY <1>11 DEF Settle, Reply, TypeOK
  <2> QED BY <1>11, <2>1, FinishTypeOK DEF Settle, TypeOK
<1> QED
  BY <1>1, <1>2, <1>3, <1>4, <1>5, <1>6, <1>7, <1>8, <1>9, <1>10, <1>11
     DEF Step

LEMMA FailTypeOK ==
    ASSUME TypeOK, NEW c \in Conns, Kill(c) \/ DeadlockAbort(c)
    PROVE  TypeOK'
BY FinishTypeOK DEF Kill, DeadlockAbort, Rollback, TypeOK, tables

LEMMA SubscriptionTypeOK ==
    ASSUME TypeOK, NEW r \in Rows, Subscribe(r) \/ Unsubscribe(r)
    PROVE  TypeOK'
BY DEF Subscribe, Unsubscribe, TypeOK, locals

LEMMA NextTypeOK == TypeOK /\ CallsHoldWhatTheyNeed /\ [Next]_vars => TypeOK'
<1> SUFFICES ASSUME TypeOK, CallsHoldWhatTheyNeed, [Next]_vars
             PROVE  TypeOK'
  OBVIOUS
<1>1. CASE UNCHANGED vars
  BY <1>1 DEF TypeOK, vars, tables, locals, history
<1>2. CASE Next
  BY <1>2, NamesAssumption, StartTypeOK, StepTypeOK, FailTypeOK,
     SubscriptionTypeOK DEF Next
<1> QED BY <1>1, <1>2

-----------------------------------------------------------------------------
(* The inductive invariant: steps that leave both tables alone *)

LEMMA InitIInv == Init => IInv
<1> SUFFICES ASSUME Init PROVE IInv
  OBVIOUS
<1> QED
  BY InitTypeOK
     DEF Init, IInv, LocksAreExclusive, CallsHoldWhatTheyNeed,
         WritesReachTheirScope, NoLossOutsideWindows, NoPhantomNotification,
         ClaimsAreExclusive, BatchWithinLimit, Writing, Raising, Claiming,
         Present

\* Nothing that a reply says is at stake while no table and no reply changes.
LEMMA QuietStep ==
    ASSUME IInv, UNCHANGED <<subs, informed, exposed>>
    PROVE  NoLossOutsideWindows' /\ NoPhantomNotification'
BY DEF IInv, NoLossOutsideWindows, NoPhantomNotification

LEMMA StartIInv ==
    ASSUME IInv, NEW c \in Conns, StartCall(c)
    PROVE  IInv'
<1> USE DEF IInv
<1>1. TypeOK'
  BY StartTypeOK
<1>2. /\ UNCHANGED <<souls, subs, owned, held, todo, keySetChanged, late,
                     informed, exposed>>
      /\ pc[c] = "idle"
      /\ pc'[c] \in {"write", "select", "claimKeys"}
      /\ \A d \in Conns \ {c} : pc'[d] = pc[d] /\ call'[d] = call[d]
  BY <1>1 DEF StartCall, StartSet, StartDelete, StartRead, StartTake, Start,
              tables, history, TypeOK
<1>3. LocksAreExclusive'
  BY <1>2 DEF LocksAreExclusive
<1>4. CallsHoldWhatTheyNeed'
  <2>1. ASSUME pc'[c] = "write" PROVE Cell(c)' \in Cells
    BY <2>1 DEF StartCall, StartSet, StartDelete, StartRead, StartTake, Start,
                TypeOK, Cell, Cells
  <2>2. ASSUME pc'[c] = "select", call'[c].who # NoReader
        PROVE  Row(c)' \in Rows
    <3>1. StartRead(c)
      BY <2>2 DEF StartCall, StartSet, StartDelete, StartTake, Start, TypeOK
    <3>2. PICK s \in Readers, a \in Agents, x \in Scopes :
              Start(c, "select", s, a, x, Absent, 0)
      BY <3>1 DEF StartRead
    <3>3. /\ call'[c].who = s /\ call'[c].target = a /\ call'[c].scope = x
      BY <3>2 DEF Start, TypeOK
    <3>4. s \in Subscribers
      BY <2>2, <3>3, NamesAssumption
    <3> QED BY <3>3, <3>4 DEF Row, Rows
  <2> SUFFICES ASSUME NEW d \in Conns
               PROVE  CallsHoldWhatTheyNeed!(d)'
    BY DEF CallsHoldWhatTheyNeed
  <2>3. CASE d = c
    BY <1>2, <2>1, <2>2, <2>3
       DEF CallsHoldWhatTheyNeed, Writing, Raising, Claiming
  <2>4. CASE d # c
    BY <1>2, <2>4
       DEF CallsHoldWhatTheyNeed, Writing, Raising, Claiming, Cell, Row,
           ChangesKeySet
  <2> QED BY <2>3, <2>4
<1>5. WritesReachTheirScope'
  BY <1>2 DEF WritesReachTheirScope, Raising, Present, PassedBy
<1>6. ClaimsAreExclusive' /\ BatchWithinLimit'
  BY <1>2 DEF ClaimsAreExclusive, BatchWithinLimit, Claiming
<1> QED BY <1>1, <1>2, <1>3, <1>4, <1>5, <1>6, QuietStep

\* A write takes its soul row, which no other transaction holds.
LEMMA WriteIInv ==
    ASSUME IInv, NEW c \in Conns, Upsert(c) \/ DeleteRow(c)
    PROVE  IInv'
<1> USE DEF IInv
<1>1. TypeOK'
  BY StepTypeOK DEF Step
<1>2. /\ UNCHANGED <<souls, subs, call, held, todo, late, informed, exposed>>
      /\ pc[c] = "write" /\ pc'[c] = "fireKey"
      /\ owned'[c] = {Cell(c)}
      /\ keySetChanged'[c] = ChangesKeySet(c)
      /\ call[c].value = Absent => keySetChanged'[c]
      /\ \A d \in Conns \ {c} : /\ pc'[d] = pc[d] /\ owned'[d] = owned[d]
                                /\ keySetChanged'[d] = keySetChanged[d]
                                /\ Cell(c) \notin owned[d]
  BY DEF Upsert, DeleteRow, tables, history, TypeOK, ChangesKeySet, FreeCell
<1>3. LocksAreExclusive'
  BY <1>2 DEF LocksAreExclusive
<1>4. CallsHoldWhatTheyNeed'
  BY <1>2 DEF CallsHoldWhatTheyNeed, Writing, Raising, Claiming, Cell, Row,
              ChangesKeySet
<1>5. WritesReachTheirScope'
  BY <1>2 DEF WritesReachTheirScope, Raising, Present, PassedBy
<1>6. ClaimsAreExclusive' /\ BatchWithinLimit'
  BY <1>2 DEF ClaimsAreExclusive, BatchWithinLimit, Claiming
<1> QED BY <1>1, <1>2, <1>3, <1>4, <1>5, <1>6, QuietStep

\* The UPDATEs of a write begin, and find all the rows of their scope.
LEMMA FireIInv ==
    ASSUME IInv, NEW c \in Conns, FireKey(c) \/ FireSoul(c)
    PROVE  IInv'
<1> USE DEF IInv
<1>1. TypeOK'
  BY StepTypeOK DEF Step
<1>2. /\ UNCHANGED <<souls, subs, call, owned, held, keySetChanged, late,
                     informed, exposed>>
      /\ \A d \in Conns \ {c} : pc'[d] = pc[d] /\ todo'[d] = todo[d]
  BY DEF FireKey, FireSoul, tables, history, TypeOK
<1>3. \/ /\ pc[c] = "fireKey" /\ pc'[c] = "raiseKey"
         /\ todo'[c] = Found(c, call[c].scope)
      \/ /\ pc[c] = "raiseKey" /\ pc'[c] = "raiseSoul"
         /\ todo[c] = {} /\ keySetChanged[c]
         /\ todo'[c] = Found(c, SoulScope)
  BY DEF FireKey, FireSoul, TypeOK
<1>4. LocksAreExclusive'
  BY <1>2 DEF LocksAreExclusive
<1>5. CallsHoldWhatTheyNeed'
  BY <1>2, <1>3
     DEF CallsHoldWhatTheyNeed, Writing, Raising, Claiming, Cell, Row,
         ChangesKeySet
<1>6. WritesReachTheirScope'
  <2>1. Cell(c) \in Cells /\ call[c].scope \in Keys
    BY <1>3 DEF CallsHoldWhatTheyNeed, Writing, Cell, Cells
  <2>2. CASE pc[c] = "fireKey"
    <3>1. held[c] = {} /\ late[c] = {}
      BY <2>2 DEF CallsHoldWhatTheyNeed, Raising, Claiming
    <3> QED
      BY <1>2, <1>3, <2>2, <3>1
         DEF WritesReachTheirScope, Raising, Present, PassedBy, Found
  <2>3. CASE pc[c] = "raiseKey"
    BY <1>2, <1>3, <2>3
       DEF WritesReachTheirScope, Raising, Present, PassedBy, Found
  <2> QED BY <1>3, <2>2, <2>3
<1>7. ClaimsAreExclusive' /\ BatchWithinLimit'
  BY <1>2, <1>3 DEF ClaimsAreExclusive, BatchWithinLimit, Claiming
<1> QED BY <1>1, <1>2, <1>4, <1>5, <1>6, <1>7, QuietStep

\* An UPDATE writes a row that no other transaction holds.
LEMMA RaiseIInv ==
    ASSUME IInv, NEW c \in Conns, NEW r \in Rows, Raise(c, r)
    PROVE  IInv'
<1> USE DEF IInv
<1>1. TypeOK'
  BY StepTypeOK DEF Step
<1>2. /\ UNCHANGED <<souls, subs, pc, call, owned, keySetChanged, late,
                     informed, exposed>>
      /\ r \in todo[c]
      /\ held'[c] = held[c] \cup {r}
      /\ todo'[c] = todo[c] \ {r}
      /\ \A d \in Conns \ {c} : /\ held'[d] = held[d] /\ todo'[d] = todo[d]
                                /\ r \notin held[d]
  BY DEF Raise, tables, history, TypeOK, FreeRow
<1>3. Raising(c)
  BY <1>2 DEF CallsHoldWhatTheyNeed
<1>4. LocksAreExclusive'
  BY <1>2 DEF LocksAreExclusive
<1>5. CallsHoldWhatTheyNeed'
  BY <1>2, <1>3
     DEF CallsHoldWhatTheyNeed, Writing, Raising, Claiming, Cell, Row,
         ChangesKeySet
<1>6. WritesReachTheirScope'
  BY <1>2 DEF WritesReachTheirScope, Raising, Present, PassedBy
<1>7. ClaimsAreExclusive' /\ BatchWithinLimit'
  BY <1>2, <1>3 DEF ClaimsAreExclusive, BatchWithinLimit, Claiming, Raising
<1> QED BY <1>1, <1>2, <1>4, <1>5, <1>6, <1>7, QuietStep

LEMMA SelectIInv ==
    ASSUME IInv, NEW c \in Conns, Select(c)
    PROVE  IInv'
<1> USE DEF IInv
<1>1. TypeOK'
  BY StepTypeOK DEF Step
<1>2. /\ UNCHANGED <<souls, subs, call, owned, held, todo, keySetChanged,
                     late, informed, exposed>>
      /\ pc[c] = "select" /\ call[c].who # NoReader /\ pc'[c] = "clear"
      /\ \A d \in Conns \ {c} : pc'[d] = pc[d]
  BY DEF Select, tables, TypeOK
<1>3. LocksAreExclusive'
  BY <1>2 DEF LocksAreExclusive
<1>4. CallsHoldWhatTheyNeed'
  BY <1>2
     DEF CallsHoldWhatTheyNeed, Writing, Raising, Claiming, Cell, Row,
         ChangesKeySet
<1>5. WritesReachTheirScope'
  BY <1>2 DEF WritesReachTheirScope, Raising, Present, PassedBy
<1>6. ClaimsAreExclusive' /\ BatchWithinLimit'
  BY <1>2 DEF ClaimsAreExclusive, BatchWithinLimit, Claiming
<1> QED BY <1>1, <1>2, <1>3, <1>4, <1>5, <1>6, QuietStep

\* A batch is made of free rows; two batches of a call fit in its limit.
LEMMA BatchFacts ==
    ASSUME NEW c \in Conns, NEW R \in SUBSET Rows, NEW n,
           NEW B \in Batches(c, R, n)
    PROVE  /\ B \subseteq R
           /\ Cardinality(B) <= n
           /\ \A d \in Conns \ {c} : B \cap held[d] = {}
BY DEF Batches, FreeRow

LEMMA UnionFits ==
    ASSUME NEW A \in SUBSET Rows, NEW B \in SUBSET Rows, NEW n \in Nat,
           Cardinality(B) <= n - Cardinality(A)
    PROVE  Cardinality(A \cup B) <= n
<1>1. IsFiniteSet(A) /\ IsFiniteSet(B)
  BY RowSetsAreFinite
<1>2. Cardinality(A \cup B)
        = Cardinality(A) + Cardinality(B) - Cardinality(A \cap B)
  BY <1>1, FS_Union
<1>3. /\ Cardinality(A) \in Nat /\ Cardinality(B) \in Nat
      /\ Cardinality(A \cap B) \in Nat
  BY RowSetsAreFinite
<1> QED BY <1>2, <1>3

LEMMA ClaimIInv ==
    ASSUME IInv, NEW c \in Conns, ClaimKeys(c) \/ ClaimSouls(c)
    PROVE  IInv'
<1> USE DEF IInv
<1>1. TypeOK'
  BY StepTypeOK DEF Step
<1>2. /\ UNCHANGED <<souls, subs, call, owned, todo, keySetChanged, late,
                     informed, exposed>>
      /\ \A d \in Conns \ {c} : pc'[d] = pc[d] /\ held'[d] = held[d]
      /\ pc[c] \in {"claimKeys", "claimSouls"}
      /\ pc'[c] \in {"claimSouls", "count"}
  BY DEF ClaimKeys, ClaimSouls, tables, TypeOK
<1>3. PICK B \in SUBSET Pending(call[c].who) :
          /\ held'[c] = held[c] \cup B
          /\ \A d \in Conns \ {c} : B \cap held[d] = {}
          /\ Cardinality(held'[c]) <= call[c].limit
  <2> DEFINE P == Pending(call[c].who)
             PK == {r \in P : r.scope # SoulScope}
             PS == {r \in P : r.scope = SoulScope}
             n == call[c].limit
  <2>0. P \in SUBSET Rows /\ PK \in SUBSET Rows /\ PS \in SUBSET Rows
    BY DEF Pending
  <2>1. CASE ClaimKeys(c)
    <3>1. held[c] = {}
      BY <2>1 DEF ClaimKeys, CallsHoldWhatTheyNeed, Raising, Claiming
    <3>2. PICK B \in Batches(c, PK, n) : held'[c] = B
      BY <2>1 DEF ClaimKeys, TypeOK
    <3> HIDE DEF PK, n
    <3>3. /\ B \subseteq PK /\ Cardinality(B) <= n
          /\ \A d \in Conns \ {c} : B \cap held[d] = {}
      BY <2>0, <3>2, BatchFacts
    <3> QED BY <3>1, <3>2, <3>3 DEF PK, n
  <2>2. CASE ClaimSouls(c)
    <3>1. PICK B \in Batches(c, PS, call[c].limit - Cardinality(held[c])) :
              held'[c] = held[c] \cup B
      BY <2>2 DEF ClaimSouls, TypeOK
    <3> HIDE DEF PS
    <3>2. /\ B \subseteq PS
          /\ Cardinality(B) <= call[c].limit - Cardinality(held[c])
          /\ \A d \in Conns \ {c} : B \cap held[d] = {}
      BY <2>0, <3>1, BatchFacts
    <3>3. call[c].limit \in Nat /\ held[c] \in SUBSET Rows
      <4>1. call[c] \in CallRecords /\ held[c] \in SUBSET Rows
        BY DEF TypeOK
      <4> QED BY <4>1, LimitsAreNumbers
    <3>4. Cardinality(held[c] \cup B) <= call[c].limit
      BY <2>0, <3>2, <3>3, UnionFits
    <3> QED BY <3>1, <3>2, <3>4 DEF PS
  <2> QED BY <2>1, <2>2
<1>4. /\ Claiming(c)'
      /\ ~Writing(c) /\ ~Writing(c)' /\ ~Raising(c) /\ ~Raising(c)'
      /\ pc[c] \notin {"write", "select", "clear"}
      /\ pc'[c] \notin {"write", "select", "clear", "raiseSoul"}
  BY <1>2 DEF Writing, Raising, Claiming
<1>5. LocksAreExclusive'
  BY <1>2, <1>3 DEF LocksAreExclusive
<1>6. CallsHoldWhatTheyNeed'
  BY <1>2, <1>4
     DEF CallsHoldWhatTheyNeed, Writing, Raising, Claiming, Cell, Row,
         ChangesKeySet
<1>7. WritesReachTheirScope'
  BY <1>2, <1>4 DEF WritesReachTheirScope, Raising, Present, PassedBy
<1>8. ClaimsAreExclusive'
  <2>1. \A r \in held[c] : subs[r] = "unread" /\ r.who = call[c].who
    BY <1>2 DEF ClaimsAreExclusive, Claiming, CallsHoldWhatTheyNeed, Raising
  <2>2. \A r \in held'[c] : subs'[r] = "unread" /\ r.who = call'[c].who
    BY <1>2, <1>3, <2>1 DEF Pending
  <2> QED
    BY <1>2, <1>3, <1>5, <2>2
       DEF ClaimsAreExclusive, Claiming, LocksAreExclusive
<1>9. BatchWithinLimit'
  BY <1>2, <1>3 DEF BatchWithinLimit, Claiming
<1> QED BY <1>1, <1>2, <1>5, <1>6, <1>7, <1>8, <1>9, QuietStep

LEMMA CountIInv ==
    ASSUME IInv, NEW c \in Conns, Count(c)
    PROVE  IInv'
<1> USE DEF IInv
<1>1. TypeOK'
  BY StepTypeOK DEF Step
<1>2. /\ UNCHANGED <<souls, subs, call, owned, held, todo, keySetChanged,
                     late, informed, exposed>>
      /\ pc[c] = "count" /\ pc'[c] = "settle"
      /\ \A d \in Conns \ {c} : pc'[d] = pc[d]
  BY DEF Count, tables, history, TypeOK
<1>3. LocksAreExclusive'
  BY <1>2 DEF LocksAreExclusive
<1>4. CallsHoldWhatTheyNeed'
  BY <1>2
     DEF CallsHoldWhatTheyNeed, Writing, Raising, Claiming, Cell, Row,
         ChangesKeySet
<1>5. WritesReachTheirScope'
  BY <1>2 DEF WritesReachTheirScope, Raising, Present, PassedBy
<1>6. ClaimsAreExclusive' /\ BatchWithinLimit'
  BY <1>2 DEF ClaimsAreExclusive, BatchWithinLimit, Claiming
<1> QED BY <1>1, <1>2, <1>3, <1>4, <1>5, <1>6, QuietStep

-----------------------------------------------------------------------------
(* The inductive invariant: calls that end *)

\* When a call ends its locks go, and no other call notices as long as its
\* own soul row, the rows there are, and its claims stay as they were.
LEMMA FinishKeepsLocks ==
    ASSUME IInv, TypeOK', NEW c \in Conns, Finish(c),
           \A d \in Conns \ {c} :
               Writing(d) => souls'[Cell(d)] = souls[Cell(d)],
           \A r \in Rows : Present(r)' <=> Present(r),
           \A d \in Conns \ {c} : Claiming(d) =>
               \A r \in held[d] : subs'[r] = subs[r]
    PROVE  /\ LocksAreExclusive' /\ CallsHoldWhatTheyNeed'
           /\ WritesReachTheirScope' /\ ClaimsAreExclusive'
           /\ BatchWithinLimit'
<1> USE DEF IInv
<1>1. /\ pc'[c] = "idle" /\ owned'[c] = {} /\ held'[c] = {} /\ todo'[c] = {}
      /\ late'[c] = {}
      /\ \A d \in Conns \ {c} :
             /\ pc'[d] = pc[d] /\ call'[d] = call[d] /\ owned'[d] = owned[d]
             /\ held'[d] = held[d] /\ todo'[d] = todo[d]
             /\ late'[d] = late[d] /\ keySetChanged'[d] = keySetChanged[d]
  BY DEF Finish, TypeOK
<1>2. LocksAreExclusive'
  BY <1>1 DEF LocksAreExclusive
<1>3. CallsHoldWhatTheyNeed'
  <2> SUFFICES ASSUME NEW d \in Conns
               PROVE  CallsHoldWhatTheyNeed!(d)'
    BY DEF CallsHoldWhatTheyNeed
  <2>1. CASE d = c
    BY <1>1, <2>1 DEF Writing, Raising, Claiming
  <2>2. CASE d # c
    BY <1>1, <2>2, SMTT(30)
       DEF CallsHoldWhatTheyNeed, Writing, Raising, Claiming, Cell, Row,
           ChangesKeySet
  <2> QED BY <2>1, <2>2
<1>4. WritesReachTheirScope'
  BY <1>1 DEF WritesReachTheirScope, Raising, PassedBy
<1>5. ClaimsAreExclusive' /\ BatchWithinLimit'
  BY <1>1 DEF ClaimsAreExclusive, BatchWithinLimit, Claiming
<1> QED BY <1>2, <1>3, <1>4, <1>5

\* Calls that end without a change: nothing to delete, a read of the command
\* line, a failure.
LEMMA EmptyEndIInv ==
    ASSUME IInv, NEW c \in Conns,
           \/ DeleteNothing(c) \/ SelectOnly(c)
           \/ Kill(c) \/ DeadlockAbort(c)
    PROVE  IInv'
<1> USE DEF IInv
<1>1. TypeOK'
  BY StepTypeOK, FailTypeOK DEF Step
<1>2. Finish(c) /\ UNCHANGED <<souls, subs, informed, exposed>>
  BY DEF DeleteNothing, SelectOnly, Kill, DeadlockAbort, Rollback, tables
<1>3. /\ LocksAreExclusive' /\ CallsHoldWhatTheyNeed'
      /\ WritesReachTheirScope' /\ ClaimsAreExclusive' /\ BatchWithinLimit'
  BY <1>1, <1>2, FinishKeepsLocks DEF Present
<1> QED BY <1>1, <1>2, <1>3, QuietStep

\* The commit of a write: the rows it changes and does not raise are those it
\* was too early to find.
LEMMA CommitIInv ==
    ASSUME IInv, NEW c \in Conns, CommitWrite(c)
    PROVE  IInv'
<1> USE DEF IInv
<1>1. TypeOK'
  BY StepTypeOK DEF Step
<1>2. /\ Finish(c) /\ Raising(c) /\ Writing(c)
      /\ todo[c] = {}
      /\ pc[c] = "raiseKey" => ~keySetChanged[c]
      /\ souls' = [souls EXCEPT ![Cell(c)] = call[c].value]
      /\ \A r \in Rows : subs'[r] = IF r \in held[c] THEN "unread" ELSE subs[r]
      /\ informed' = informed \ Concerned(c)
      /\ exposed' = exposed \cup late[c]
  BY DEF CommitWrite, Raising, Writing
<1>3. Cell(c) \in Cells /\ call[c].scope \in Keys
  BY <1>2 DEF CallsHoldWhatTheyNeed, Cell, Cells
<1>4. \A r \in Rows : PassedBy(c, r) <=> r \in Concerned(c)
  BY <1>2, <1>3
     DEF CallsHoldWhatTheyNeed, PassedBy, Concerned, Raising
<1>5. held[c] \subseteq Concerned(c)
  BY <1>2, <1>4 DEF WritesReachTheirScope, TypeOK
<1>6. \A r \in Concerned(c) : Present(r) => r \in held[c] \cup late[c]
  BY <1>2, <1>4 DEF WritesReachTheirScope, Concerned
<1>7. NoPhantomNotification'
  BY <1>2, <1>5 DEF NoPhantomNotification
<1>8. NoLossOutsideWindows'
  BY <1>2, <1>6 DEF NoLossOutsideWindows, Present
<1>9. \A d \in Conns \ {c} : Writing(d) => souls'[Cell(d)] = souls[Cell(d)]
  <2> SUFFICES ASSUME NEW d \in Conns \ {c}, Writing(d)
               PROVE  souls'[Cell(d)] = souls[Cell(d)]
    OBVIOUS
  <2>1. owned[c] = {Cell(c)} /\ owned[d] = {Cell(d)} /\ Cell(d) \in Cells
    BY <1>2 DEF CallsHoldWhatTheyNeed
  <2>2. Cell(c) # Cell(d)
    BY <2>1 DEF LocksAreExclusive
  <2> QED BY <1>2, <2>1, <2>2 DEF TypeOK
<1>10. \A r \in Rows : Present(r)' <=> Present(r)
  BY <1>2 DEF WritesReachTheirScope, Present
<1>11. \A d \in Conns \ {c} : Claiming(d) =>
           \A r \in held[d] : subs'[r] = subs[r]
  BY <1>2 DEF LocksAreExclusive, TypeOK
<1>12. /\ LocksAreExclusive' /\ CallsHoldWhatTheyNeed'
       /\ WritesReachTheirScope' /\ ClaimsAreExclusive' /\ BatchWithinLimit'
  BY <1>1, <1>2, <1>9, <1>10, <1>11, FinishKeepsLocks
<1> QED BY <1>1, <1>7, <1>8, <1>12

\* A reply either informs, or exposes what it resolves.
LEMMA ReplyFacts ==
    ASSUME IInv, NEW c \in Conns, NEW R \in SUBSET Rows,
           NEW replied \in BOOLEAN, Reply(c, R, replied),
           \A r \in R : Present(r),
           \A r \in Rows : subs'[r] = IF r \in R THEN "read" ELSE subs[r]
    PROVE  NoLossOutsideWindows' /\ NoPhantomNotification'
<1> DEFINE told == IF replied THEN R \cap fresh[c] ELSE {}
           lost == {r \in R \ told : subs[r] = "unread"}
<1>1. /\ informed' = informed \cup told
      /\ exposed' = (exposed \ told) \cup lost
      /\ told \subseteq R
  BY DEF Reply
<1> HIDE DEF told
<1>2. NoPhantomNotification'
  BY <1>1 DEF IInv, NoPhantomNotification
<1>3. NoLossOutsideWindows'
  BY <1>1 DEF IInv, NoLossOutsideWindows, TypeOK, Present
<1> QED BY <1>2, <1>3

LEMMA ClearIInv ==
    ASSUME IInv, NEW c \in Conns, Clear(c)
    PROVE  IInv'
<1> USE DEF IInv
<1>1. TypeOK'
  BY StepTypeOK DEF Step
<1> DEFINE R == {r \in {Row(c)} : Present(r)}
<1>2. Row(c) \in Rows
  BY DEF Clear, CallsHoldWhatTheyNeed
<1>3. /\ Finish(c) /\ souls' = souls
      /\ \A d \in Conns \ {c} : Row(c) \notin held[d]
      /\ \A r \in Rows : subs'[r] = IF r \in R THEN "read" ELSE subs[r]
  BY <1>2 DEF Clear, FreeRow, TypeOK
<1>4. PICK replied \in BOOLEAN : Reply(c, R, replied)
  BY DEF Clear, Outcomes
<1>5. R \in SUBSET Rows /\ \A r \in R : Present(r)
  BY <1>2
<1>6. NoLossOutsideWindows' /\ NoPhantomNotification'
  <2> HIDE DEF R
  <2> QED BY <1>3, <1>4, <1>5, ReplyFacts
<1>7. /\ \A r \in Rows : Present(r)' <=> Present(r)
      /\ \A d \in Conns \ {c} : Claiming(d) =>
             \A r \in held[d] : subs'[r] = subs[r]
  BY <1>3 DEF Present, TypeOK
<1>8. /\ LocksAreExclusive' /\ CallsHoldWhatTheyNeed'
      /\ WritesReachTheirScope' /\ ClaimsAreExclusive' /\ BatchWithinLimit'
  BY <1>1, <1>3, <1>7, FinishKeepsLocks
<1> QED BY <1>1, <1>6, <1>8

LEMMA SettleIInv ==
    ASSUME IInv, NEW c \in Conns, Settle(c)
    PROVE  IInv'
<1> USE DEF IInv
<1>1. TypeOK'
  BY StepTypeOK DEF Step
<1>2. /\ Finish(c) /\ souls' = souls /\ Claiming(c)
      /\ \A r \in Rows : subs'[r] = IF r \in held[c] THEN "read" ELSE subs[r]
  BY DEF Settle, Claiming
<1>3. PICK replied \in BOOLEAN : Reply(c, held[c], replied)
  BY DEF Settle, Outcomes
<1>4. held[c] \in SUBSET Rows /\ \A r \in held[c] : Present(r)
  BY <1>2 DEF ClaimsAreExclusive, Present, TypeOK
<1>5. NoLossOutsideWindows' /\ NoPhantomNotification'
  BY <1>2, <1>3, <1>4, ReplyFacts
<1>6. /\ \A r \in Rows : Present(r)' <=> Present(r)
      /\ \A d \in Conns \ {c} : Claiming(d) =>
             \A r \in held[d] : subs'[r] = subs[r]
  BY <1>2, <1>4 DEF Present, LocksAreExclusive, TypeOK
<1>7. /\ LocksAreExclusive' /\ CallsHoldWhatTheyNeed'
      /\ WritesReachTheirScope' /\ ClaimsAreExclusive' /\ BatchWithinLimit'
  BY <1>1, <1>2, <1>6, FinishKeepsLocks
<1> QED BY <1>1, <1>5, <1>7

-----------------------------------------------------------------------------
(* The inductive invariant: subscriptions come and go *)

LEMMA SubscribeIInv ==
    ASSUME IInv, NEW r \in Rows, Subscribe(r)
    PROVE  IInv'
<1> USE DEF IInv
<1>1. TypeOK'
  BY SubscriptionTypeOK
<1>2. /\ UNCHANGED <<souls, pc, call, owned, held, todo, keySetChanged,
                     exposed>>
      /\ subs[r] = "absent"
      /\ subs' = [subs EXCEPT ![r] = "read"]
      /\ informed' = informed \cup {r}
      /\ \A c \in Conns : late'[c] = IF PassedBy(c, r)
                                       THEN late[c] \cup {r} ELSE late[c]
  BY DEF Subscribe, locals
<1>3. NoLossOutsideWindows' /\ NoPhantomNotification'
  BY <1>2 DEF NoLossOutsideWindows, NoPhantomNotification, TypeOK
<1>4. LocksAreExclusive'
  BY <1>2 DEF LocksAreExclusive
<1>5. CallsHoldWhatTheyNeed'
  BY <1>2 DEF CallsHoldWhatTheyNeed, Writing, Raising, Claiming, Cell, Row,
              ChangesKeySet, PassedBy
<1>6. WritesReachTheirScope'
  <2>1. \A q \in Rows : Present(q)' <=> Present(q) \/ q = r
    BY <1>2 DEF Present, TypeOK
  <2>2. \A c \in Conns, q \in Rows : PassedBy(c, q)' <=> PassedBy(c, q)
    BY <1>2 DEF PassedBy
  <2>3. \A c \in Conns : Raising(c)' <=> Raising(c)
    BY <1>2 DEF Raising
  <2> QED BY <1>2, <2>1, <2>2, <2>3 DEF WritesReachTheirScope
<1>7. ClaimsAreExclusive' /\ BatchWithinLimit'
  BY <1>2 DEF ClaimsAreExclusive, BatchWithinLimit, Claiming, TypeOK
<1> QED BY <1>1, <1>3, <1>4, <1>5, <1>6, <1>7

LEMMA UnsubscribeIInv ==
    ASSUME IInv, NEW r \in Rows, Unsubscribe(r)
    PROVE  IInv'
<1> USE DEF IInv
<1>1. TypeOK'
  BY SubscriptionTypeOK
<1>2. /\ UNCHANGED <<souls, pc, call, owned, held, keySetChanged>>
      /\ \A c \in Conns : r \notin held[c]
      /\ subs' = [subs EXCEPT ![r] = "absent"]
      /\ informed' = informed \ {r}
      /\ exposed' = exposed \ {r}
      /\ \A c \in Conns : /\ todo'[c] = todo[c] \ {r}
                          /\ late'[c] = late[c] \ {r}
  BY DEF Unsubscribe
<1>3. NoLossOutsideWindows' /\ NoPhantomNotification'
  BY <1>2 DEF NoLossOutsideWindows, NoPhantomNotification, TypeOK
<1>4. LocksAreExclusive'
  BY <1>2 DEF LocksAreExclusive
<1>5. CallsHoldWhatTheyNeed'
  BY <1>2 DEF CallsHoldWhatTheyNeed, Writing, Raising, Claiming, Cell, Row,
              ChangesKeySet
<1>6. WritesReachTheirScope'
  BY <1>2 DEF WritesReachTheirScope, Raising, Present, PassedBy, TypeOK
<1>7. ClaimsAreExclusive' /\ BatchWithinLimit'
  BY <1>2 DEF ClaimsAreExclusive, BatchWithinLimit, Claiming, TypeOK
<1> QED BY <1>1, <1>3, <1>4, <1>5, <1>6, <1>7

-----------------------------------------------------------------------------
(* The theorems *)

LEMMA NextIInv == IInv /\ [Next]_vars => IInv'
<1> SUFFICES ASSUME IInv, [Next]_vars PROVE IInv'
  OBVIOUS
<1>1. CASE UNCHANGED vars
  <2> USE <1>1 DEF vars, tables, locals, history, IInv
  <2>1. TypeOK' /\ LocksAreExclusive'
    BY DEF TypeOK, LocksAreExclusive
  <2>2. CallsHoldWhatTheyNeed'
    BY DEF CallsHoldWhatTheyNeed, Writing, Raising, Claiming, Cell, Row,
           ChangesKeySet
  <2>3. WritesReachTheirScope'
    BY DEF WritesReachTheirScope, Raising, Present, PassedBy
  <2>4. ClaimsAreExclusive' /\ BatchWithinLimit'
    BY DEF ClaimsAreExclusive, BatchWithinLimit, Claiming
  <2> QED BY <2>1, <2>2, <2>3, <2>4, QuietStep
<1>2. ASSUME NEW c \in Conns,
             StartCall(c) \/ Step(c) \/ Kill(c) \/ DeadlockAbort(c)
      PROVE  IInv'
  BY <1>2, StartIInv, WriteIInv, FireIInv, RaiseIInv, CommitIInv, SelectIInv,
     ClearIInv, ClaimIInv, CountIInv, SettleIInv, EmptyEndIInv DEF Step
<1>3. ASSUME NEW r \in Watchable, Subscribe(r) \/ Unsubscribe(r)
      PROVE  IInv'
  BY <1>3, NamesAssumption, SubscribeIInv, UnsubscribeIInv
<1> QED BY <1>1, <1>2, <1>3 DEF Next

\* In every reachable state the inductive invariant holds, type correctness
\* with it.
THEOREM Invariance == Spec => []IInv
BY InitIInv, NextIInv, PTL DEF Spec

\* The variables keep their types.
THEOREM TypeCorrectness == Spec => []TypeOK
<1>1. IInv => TypeOK
  BY DEF IInv
<1> QED BY Invariance, <1>1, PTL

\* A committed change stays hidden from a subscriber only through one of the
\* three windows: a read's gap between SELECT and UPDATE, a subscription added
\* after a write has looked for it, a reply that never arrives.
THEOREM NoLoss == Spec => []NoLossOutsideWindows
<1>1. IInv => NoLossOutsideWindows
  BY DEF IInv
<1> QED BY Invariance, <1>1, PTL

\* A pending notification always stands for a change not yet told.
THEOREM NoPhantom == Spec => []NoPhantomNotification
<1>1. IInv => NoPhantomNotification
  BY DEF IInv
<1> QED BY Invariance, <1>1, PTL

\* Batches claimed in parallel are disjoint, pending and the caller's own.
THEOREM ExclusiveClaims == Spec => []ClaimsAreExclusive
<1>1. IInv => ClaimsAreExclusive
  BY DEF IInv
<1> QED BY Invariance, <1>1, PTL

\* The two statements of a claim together respect its limit.
THEOREM LimitRespected == Spec => []BatchWithinLimit
<1>1. IInv => BatchWithinLimit
  BY DEF IInv
<1> QED BY Invariance, <1>1, PTL

\* A cycle of transactions waiting for each other consists of writes that
\* each add or delete another key of one soul.
LEMMA CyclesAreOfSoulRows == IInv => DeadlocksNeedTwoKeysOfOneSoul
<1> SUFFICES ASSUME IInv, NEW S \in SUBSET Conns, Cycle(S)
             PROVE  \A c, d \in S : /\ pc[c] = "raiseSoul"
                                    /\ WaitsFor(c, d) =>
                                          /\ call[c].target = call[d].target
                                          /\ call[c].scope # call[d].scope
  BY DEF DeadlocksNeedTwoKeysOfOneSoul
<1> USE DEF IInv
<1>1. ASSUME NEW c \in S PROVE todo[c] # {} /\ Raising(c)
  <2>1. PICK d \in S : WaitsFor(d, c)
    BY DEF Cycle
  <2>2. owned[c] # {} \/ held[c] # {}
    BY <2>1 DEF WaitsFor
  <2>3. pc[c] # "write"
    BY <2>2 DEF CallsHoldWhatTheyNeed, Writing, Raising, Claiming
  <2>4. PICK e \in S : WaitsFor(c, e)
    BY DEF Cycle
  <2>5. todo[c] # {}
    BY <2>3, <2>4 DEF WaitsFor
  <2> QED BY <2>5 DEF CallsHoldWhatTheyNeed
<1>2. ASSUME NEW c \in S, NEW d \in S, WaitsFor(c, d)
      PROVE  /\ pc[c] = "raiseSoul"
             /\ call[c].target = call[d].target
             /\ call[c].scope # call[d].scope
  <2>1. Raising(c) /\ Raising(d)
    BY <1>1
  <2>2. PICK r \in Rows : r \in todo[c] /\ r \in held[d]
    BY <1>2, <2>1 DEF WaitsFor, Raising, TypeOK
  <2>3. PassedBy(c, r) /\ PassedBy(d, r)
    BY <2>1, <2>2 DEF WritesReachTheirScope
  <2>4. call[c].target = call[d].target
    BY <2>3 DEF PassedBy
  <2>5. /\ owned[c] = {Cell(c)} /\ owned[d] = {Cell(d)}
        /\ call[c].scope \in Keys /\ call[d].scope \in Keys
    BY <2>1 DEF CallsHoldWhatTheyNeed, Writing, Raising, Cell, Cells
  <2>6. Cell(c) # Cell(d)
    BY <1>2, <2>5 DEF LocksAreExclusive, WaitsFor
  <2>7. call[c].scope # call[d].scope
    BY <2>4, <2>6 DEF Cell
  <2>8. pc[c] = "raiseSoul"
    BY <2>1, <2>3, <2>5, <2>7, NamesAssumption DEF PassedBy, Raising
  <2> QED BY <2>4, <2>7, <2>8
<1>3. ASSUME NEW c \in S PROVE pc[c] = "raiseSoul"
  BY <1>2 DEF Cycle
<1> QED BY <1>2, <1>3

\* Transactions deadlock only over the soul subscriptions of one soul, two of
\* whose keys they add or delete.
THEOREM Deadlocks == Spec => []DeadlocksNeedTwoKeysOfOneSoul
BY Invariance, CyclesAreOfSoulRows, PTL

\* While a claim is open no write of its rows commits but one that was too
\* early to find them, and no other reply resolves them.
LEMMA ClaimsStayCurrent ==
    ASSUME IInv, ClaimsLoseNothing, [Next]_vars
    PROVE  ClaimsLoseNothing'
<1> USE DEF IInv
<1>1. CASE UNCHANGED vars
  BY <1>1 DEF vars, locals, history, ClaimsLoseNothing, Claiming
<1>2. ASSUME NEW c \in Conns, StartCall(c)
      PROVE  ClaimsLoseNothing'
  BY <1>2 DEF StartCall, StartSet, StartDelete, StartRead, StartTake, Start,
              tables, history, ClaimsLoseNothing, Claiming, TypeOK
\* A call ends that has kept the reports of the other claims.
<1>3. ASSUME NEW c \in Conns, Finish(c),
             \A d \in Conns \ {c} : Claiming(d) =>
                 held[d] \cap (fresh[d] \cup exposed)
                     \subseteq fresh'[d] \cup exposed'
      PROVE  ClaimsLoseNothing'
  <2>1. pc'[c] = "idle"
    BY <1>3 DEF Finish, TypeOK
  <2>2. \A d \in Conns \ {c} : pc'[d] = pc[d] /\ held'[d] = held[d]
    BY <1>3 DEF Finish, TypeOK
  <2> QED BY <1>3, <2>1, <2>2 DEF ClaimsLoseNothing, Claiming
<1>4. ASSUME NEW c \in Conns, CommitWrite(c)
      PROVE  ClaimsLoseNothing'
  <2>1. /\ Finish(c) /\ Raising(c) /\ Writing(c) /\ todo[c] = {}
        /\ pc[c] = "raiseKey" => ~keySetChanged[c]
        /\ exposed' = exposed \cup late[c]
        /\ fresh' = [d \in Conns |-> fresh[d] \ Concerned(c)]
    BY <1>4 DEF CommitWrite, Raising, Writing
  <2>2. \A r \in Concerned(c) : PassedBy(c, r)
    BY <2>1 DEF CallsHoldWhatTheyNeed, PassedBy, Concerned, Raising
  <2>3. \A r \in Concerned(c) : Present(r) => r \in held[c] \cup late[c]
    BY <2>1, <2>2 DEF WritesReachTheirScope, Concerned
  <2>4. \A d \in Conns \ {c} : Claiming(d) =>
            \A r \in held[d] : Present(r) /\ r \notin held[c]
    BY DEF ClaimsAreExclusive, Present
  <2> QED BY <1>3, <2>1, <2>3, <2>4
<1>5. ASSUME NEW c \in Conns, NEW R \in SUBSET Rows, NEW replied \in BOOLEAN,
             Finish(c), Reply(c, R, replied),
             \A d \in Conns \ {c} : Claiming(d) => R \cap held[d] = {}
      PROVE  ClaimsLoseNothing'
  <2>1. \A d \in Conns \ {c} : fresh'[d] = fresh[d]
    BY <1>5 DEF Reply, TypeOK
  <2>2. exposed \ R \subseteq exposed'
    BY <1>5 DEF Reply
  <2> QED BY <1>3, <1>5, <2>1, <2>2
<1>6. ASSUME NEW c \in Conns, Clear(c)
      PROVE  ClaimsLoseNothing'
  <2> DEFINE R == {r \in {Row(c)} : Present(r)}
  <2>1. /\ R \in SUBSET Rows
        /\ \A d \in Conns \ {c} : R \cap held[d] = {}
    BY <1>6 DEF Clear, FreeRow, CallsHoldWhatTheyNeed
  <2>2. PICK replied \in BOOLEAN : Reply(c, R, replied)
    BY <1>6 DEF Clear, Outcomes
  <2> HIDE DEF R
  <2> QED BY <1>5, <1>6, <2>1, <2>2 DEF Clear
<1>7. ASSUME NEW c \in Conns, Settle(c)
      PROVE  ClaimsLoseNothing'
  <2>1. PICK replied \in BOOLEAN : Reply(c, held[c], replied)
    BY <1>7 DEF Settle, Outcomes
  <2>2. /\ held[c] \in SUBSET Rows
        /\ \A d \in Conns \ {c} : held[c] \cap held[d] = {}
    BY DEF TypeOK, LocksAreExclusive
  <2> QED BY <1>5, <1>7, <2>1, <2>2 DEF Settle
<1>8. ASSUME NEW c \in Conns,
             DeleteNothing(c) \/ SelectOnly(c) \/ Kill(c) \/ DeadlockAbort(c)
      PROVE  ClaimsLoseNothing'
  <2>1. /\ Finish(c) /\ exposed' = exposed
        /\ \A d \in Conns \ {c} : fresh'[d] = fresh[d]
    BY <1>8
       DEF DeleteNothing, SelectOnly, Kill, DeadlockAbort, Rollback, TypeOK
  <2> QED BY <1>3, <2>1
<1>9. ASSUME NEW c \in Conns, ClaimKeys(c) \/ ClaimSouls(c)
      PROVE  ClaimsLoseNothing'
  <2>1. PICK B : \/ fresh'[c] = B /\ held'[c] = B
                 \/ /\ Claiming(c) /\ held'[c] = held[c] \cup B
                    /\ fresh'[c] = fresh[c] \cup B
    <3>1. CASE ClaimKeys(c)
      BY <3>1 DEF ClaimKeys, TypeOK
    <3>2. CASE ClaimSouls(c)
      BY <3>2 DEF ClaimSouls, Claiming, TypeOK
    <3> QED BY <1>9, <3>1, <3>2
  <2>2. /\ exposed' = exposed
        /\ \A d \in Conns \ {c} : /\ fresh'[d] = fresh[d]
                                  /\ held'[d] = held[d] /\ pc'[d] = pc[d]
    BY <1>9 DEF ClaimKeys, ClaimSouls, TypeOK
  <2>3. Claiming(c)' => held'[c] \subseteq fresh'[c] \cup exposed
    BY <2>1 DEF ClaimsLoseNothing
  <2>4. \A d \in Conns \ {c} : Claiming(d)' =>
            held'[d] \subseteq fresh'[d] \cup exposed
    BY <2>2 DEF ClaimsLoseNothing, Claiming
  <2> QED BY <2>2, <2>3, <2>4 DEF ClaimsLoseNothing
<1>10. ASSUME NEW c \in Conns, Upsert(c) \/ DeleteRow(c) \/ FireKey(c)
                  \/ FireSoul(c) \/ Select(c) \/ Count(c)
       PROVE  ClaimsLoseNothing'
  <2>1. /\ UNCHANGED <<held, exposed>>
        /\ \A d \in Conns \ {c} : pc'[d] = pc[d] /\ fresh'[d] = fresh[d]
    BY <1>10 DEF Upsert, DeleteRow, FireKey, FireSoul, Select, Count, history,
                 TypeOK
  <2>2. Claiming(c)' => Claiming(c) /\ fresh'[c] = fresh[c]
    BY <1>10 DEF Upsert, DeleteRow, FireKey, FireSoul, Select, Count, history,
                 TypeOK, Claiming
  <2> QED BY <2>1, <2>2 DEF ClaimsLoseNothing, Claiming
<1>11. ASSUME NEW c \in Conns, NEW r \in Rows, Raise(c, r)
       PROVE  ClaimsLoseNothing'
  <2>1. ~Claiming(c)
    BY <1>11 DEF Raise, CallsHoldWhatTheyNeed, Raising, Claiming
  <2>2. /\ UNCHANGED <<pc, fresh, exposed>>
        /\ \A d \in Conns \ {c} : held'[d] = held[d]
    BY <1>11 DEF Raise, history, TypeOK
  <2> QED BY <2>1, <2>2 DEF ClaimsLoseNothing, Claiming
<1>12. ASSUME NEW r \in Rows, Subscribe(r) \/ Unsubscribe(r)
       PROVE  ClaimsLoseNothing'
  BY <1>12 DEF Subscribe, Unsubscribe, locals, ClaimsLoseNothing, Claiming
<1> QED
  BY <1>1, <1>2, <1>4, <1>6, <1>7, <1>8, <1>9, <1>10, <1>11, <1>12,
     NamesAssumption DEF Next, Step

\* What take_notifications has locked stays as current as it was found, until
\* its commit: the lock keeps away every write that could find the row.
THEOREM ClaimsKeepCurrent == Spec => []ClaimsLoseNothing
<1>1. Init => ClaimsLoseNothing
  BY DEF Init, ClaimsLoseNothing, Claiming
<1> QED BY Invariance, ClaimsStayCurrent, <1>1, PTL DEF Spec

\* `remaining` is an upper bound of what stays pending, never an undercount.
THEOREM RemainingIsUpperBound == Spec => RemainingNeverUndercounts
<1>1. IInv /\ [Next]_vars =>
        [\A c \in Conns : pc[c] = "count" /\ pc'[c] = "settle" =>
          remaining'[c] >= Cardinality({r \in Pending(call[c].who) :
              ~ \E d \in Conns : r \in held[d] /\ call[d].who = r.who})]_vars
  <2> SUFFICES ASSUME IInv, Next, NEW c \in Conns,
                      pc[c] = "count", pc'[c] = "settle"
               PROVE  remaining'[c] >=
                        Cardinality({r \in Pending(call[c].who) :
                            ~ \E d \in Conns :
                                r \in held[d] /\ call[d].who = r.who})
    OBVIOUS
  <2>1. Count(c)
    <3>1. \A d \in Conns : d # c /\ (StartCall(d) \/ Step(d) \/ Kill(d)
                                     \/ DeadlockAbort(d)) => pc'[c] = pc[c]
      BY DEF IInv, TypeOK, StartCall, StartSet, StartDelete, StartRead,
             StartTake, Start, Step, Upsert, DeleteRow, DeleteNothing,
             FireKey, FireSoul, Raise, CommitWrite, Select, SelectOnly, Clear,
             ClaimKeys, ClaimSouls, Settle, Count, Kill, DeadlockAbort,
             Rollback, Finish
    <3>2. \A r \in Rows : Subscribe(r) \/ Unsubscribe(r) => pc'[c] = pc[c]
      BY DEF Subscribe, Unsubscribe, locals
    <3>3. StartCall(c) \/ Step(c) \/ Kill(c) \/ DeadlockAbort(c)
      BY <3>1, <3>2, NamesAssumption DEF Next
    <3> QED
      BY <3>3
         DEF IInv, TypeOK, StartCall, StartSet, StartDelete, StartRead,
             StartTake, Start, Step, Upsert, DeleteRow, DeleteNothing,
             FireKey, FireSoul, Raise, CommitWrite, Select, SelectOnly, Clear,
             ClaimKeys, ClaimSouls, Settle, Kill, DeadlockAbort, Rollback,
             Finish
  <2> DEFINE all  == Pending(call[c].who) \ held[c]
             free == {r \in Pending(call[c].who) :
                        ~ \E d \in Conns :
                            r \in held[d] /\ call[d].who = r.who}
  <2>2. remaining'[c] = Cardinality(all)
    BY <2>1 DEF Count, IInv, TypeOK
  <2>3. all \in SUBSET Rows /\ free \subseteq all
    BY DEF Pending
  <2>4. Cardinality(free) <= Cardinality(all) /\ Cardinality(free) \in Nat
    BY <2>3, RowSetsAreFinite, FS_Subset
  <2> HIDE DEF all
  <2> QED BY <2>2, <2>4
<1> QED BY Invariance, <1>1, PTL DEF Spec, RemainingNeverUndercounts

-----------------------------------------------------------------------------
(* The runs finding_late_subscription and finding_read_clear show how a    *)
(* change can be missed.  Those are the only ways.                         *)

\* No subscription is added while a write of its scope is past the statement
\* that would have found it.
NoneTooLate == \A c \in Conns : late[c] = {}

\* No write that concerns a reader's subscription commits between the SELECT
\* and the UPDATE of the read: what a step must not do.
NoneOvertaken ==
    \A c, d \in Conns :
        pc[c] = "clear" /\ CommitWrite(d) => Row(c) \notin Concerned(d)

\* What a read is about to clear, its reply is about to tell.
ReadersAreCurrent == \A c \in Conns : pc[c] = "clear" => Row(c) \in fresh[c]

\* A commit raises what it concerns and could find.
LEMMA CommitRaises ==
    ASSUME IInv, NEW c \in Conns, CommitWrite(c),
           NEW r \in Concerned(c), Present(r), late[c] = {}
    PROVE  subs'[r] = "unread"
<1> USE DEF IInv
<1>1. Raising(c) /\ Writing(c) /\ todo[c] = {}
  BY DEF CommitWrite, Raising, Writing
<1>2. PassedBy(c, r)
  BY <1>1 DEF CommitWrite, CallsHoldWhatTheyNeed, PassedBy, Concerned, Raising
<1>3. r \in Rows /\ r \in held[c]
  BY <1>1, <1>2 DEF WritesReachTheirScope, Concerned
<1> QED BY <1>3 DEF CommitWrite

\* Only a commit or an end of the subscription makes a subscriber uninformed.
LEMMA OnlyCommitsConcern ==
    ASSUME IInv, Next, NEW r \in Rows, r \in informed \ informed',
           subs'[r] # "absent"
    PROVE  \E c \in Conns : CommitWrite(c) /\ r \in Concerned(c) /\ Present(r)
<1> USE DEF IInv, TypeOK
<1>1. ASSUME NEW c \in Conns, CommitWrite(c)
      PROVE  r \in Concerned(c) /\ Present(r)
  <2>1. r \in Concerned(c)
    BY <1>1 DEF CommitWrite
  <2>2. r \in held[c] => Present(r)
    BY <1>1 DEF CommitWrite, WritesReachTheirScope, Raising
  <2>3. r \notin held[c] => subs'[r] = subs[r]
    BY <1>1 DEF CommitWrite
  <2> QED BY <2>1, <2>2, <2>3 DEF Present
<1>2. ASSUME NEW c \in Conns, Clear(c) \/ Settle(c)
      PROVE  informed \subseteq informed'
  BY <1>2 DEF Clear, Settle, Reply
<1>3. ASSUME NEW q \in Rows, Subscribe(q) \/ Unsubscribe(q)
      PROVE  FALSE
  BY <1>3 DEF Subscribe, Unsubscribe
<1>4. ASSUME NEW c \in Conns,
             \/ StartCall(c) \/ Kill(c) \/ DeadlockAbort(c)
             \/ Upsert(c) \/ DeleteRow(c) \/ DeleteNothing(c) \/ FireKey(c)
             \/ FireSoul(c) \/ (\E q \in Rows : Raise(c, q)) \/ Select(c)
             \/ SelectOnly(c) \/ ClaimKeys(c) \/ ClaimSouls(c) \/ Count(c)
      PROVE  informed' = informed
  BY <1>4 DEF StartCall, StartSet, StartDelete, StartRead, StartTake, Start,
              Kill, DeadlockAbort, Rollback, Upsert, DeleteRow, DeleteNothing,
              FireKey, FireSoul, Raise, Select, SelectOnly, ClaimKeys,
              ClaimSouls, Count, history
<1>5. CASE \E c \in Conns : StartCall(c) \/ Step(c) \/ Kill(c) \/ DeadlockAbort(c)
  <2>1. PICK c \in Conns : StartCall(c) \/ Step(c) \/ Kill(c) \/ DeadlockAbort(c)
    BY <1>5
  <2>2. ~ (informed \subseteq informed')
    OBVIOUS
  <2> QED BY <1>1, <1>2, <1>4, <2>1, <2>2 DEF Step
<1> QED BY <1>3, <1>5, NamesAssumption DEF Next

\* If nobody subscribes behind the back of a write, a change that commits
\* leaves every subscription on it pending.
THEOREM EveryChangeIsRaised ==
    Spec /\ []NoneTooLate => ChangeRaisesEverySubscription
<1>1. ASSUME IInv, NoneTooLate, Next,
             NEW r \in Rows, r \in informed \ informed', subs'[r] # "absent"
      PROVE  subs'[r] = "unread"
  BY <1>1, OnlyCommitsConcern, CommitRaises DEF NoneTooLate
<1>2. IInv /\ NoneTooLate /\ [Next]_vars =>
        [\A r \in Rows : r \in informed \ informed' /\ subs'[r] # "absent"
                          => subs'[r] = "unread"]_vars
  BY <1>1
<1> QED BY <1>2, Invariance, PTL DEF Spec, ChangeRaisesEverySubscription

\* What the invariant below adds to IInv.
NothingMissed ==
    /\ ClaimsLoseNothing
    /\ exposed = {}
    /\ ReadersAreCurrent

LEMMA OnlyReadsAreCurrent ==
    ASSUME TypeOK, NEW c \in Conns, exposed = {}, exposed' = {},
           ReadersAreCurrent,
           \A d \in Conns \ {c} : /\ pc'[d] = pc[d] /\ call'[d] = call[d]
                                  /\ pc[d] = "clear" => Row(d) \in fresh'[d],
           pc'[c] # "clear" \/ (Row(c) \in fresh'[c] /\ call'[c] = call[c])
    PROVE  exposed' = {} /\ ReadersAreCurrent'
BY DEF ReadersAreCurrent, Row

\* A reply that tells of all it resolves exposes nothing.
LEMMA FullReply ==
    ASSUME TypeOK, NEW c \in Conns, NEW R \in SUBSET Rows, exposed = {},
           Reply(c, R, TRUE), \A r \in R : r \in fresh[c]
    PROVE  /\ exposed' = {} /\ R \subseteq informed'
           /\ \A d \in Conns \ {c} : fresh'[d] = fresh[d]
BY DEF Reply, TypeOK

LEMMA ClearTells ==
    ASSUME IInv, NothingMissed, Mortal = {}, NEW c \in Conns, Clear(c)
    PROVE  /\ exposed' = {} /\ ReadersAreCurrent'
           /\ \A r \in Rows : subs[r] = "unread" /\ subs'[r] = "read"
                                  => r \in informed'
<1> USE DEF IInv, NothingMissed
<1>1. PICK R \in SUBSET Rows : R = {r \in {Row(c)} : Present(r)}
  BY DEF Clear, CallsHoldWhatTheyNeed
<1>2. Reply(c, R, TRUE) /\ \A r \in R : r \in fresh[c]
  BY <1>1 DEF Clear, Outcomes, ReadersAreCurrent
<1>3. /\ exposed' = {} /\ R \subseteq informed'
      /\ \A d \in Conns \ {c} : fresh'[d] = fresh[d]
  BY <1>2, FullReply
<1>4. exposed' = {} /\ ReadersAreCurrent'
  BY <1>3, OnlyReadsAreCurrent DEF Clear, Finish, TypeOK, ReadersAreCurrent
<1>5. \A r \in Rows : subs[r] = "unread" /\ subs'[r] = "read" => r \in R
  BY <1>1 DEF Clear, TypeOK, Present
<1> QED BY <1>3, <1>4, <1>5

LEMMA SettleTells ==
    ASSUME IInv, NothingMissed, Mortal = {}, NEW c \in Conns, Settle(c)
    PROVE  /\ exposed' = {} /\ ReadersAreCurrent'
           /\ \A r \in Rows : subs[r] = "unread" /\ subs'[r] = "read"
                                  => r \in informed'
<1> USE DEF IInv, NothingMissed
<1>1. held[c] \in SUBSET Rows /\ Claiming(c)
  BY DEF TypeOK, Settle, Claiming
<1>2. Reply(c, held[c], TRUE) /\ \A r \in held[c] : r \in fresh[c]
  BY <1>1 DEF Settle, Outcomes, ClaimsLoseNothing
<1>3. /\ exposed' = {} /\ held[c] \subseteq informed'
      /\ \A d \in Conns \ {c} : fresh'[d] = fresh[d]
  BY <1>1, <1>2, FullReply
<1>4. exposed' = {} /\ ReadersAreCurrent'
  BY <1>3, OnlyReadsAreCurrent DEF Settle, Finish, TypeOK, ReadersAreCurrent
<1>5. \A r \in Rows : subs[r] = "unread" /\ subs'[r] = "read" => r \in held[c]
  BY DEF Settle
<1> QED BY <1>3, <1>4, <1>5

LEMMA NothingIsMissed ==
    ASSUME IInv, NothingMissed, Mortal = {}, NoneTooLate, NoneOvertaken, Next
    PROVE  /\ NothingMissed'
           /\ \A r \in Rows : subs[r] = "unread" /\ subs'[r] = "read"
                                  => r \in informed'
<1> USE DEF IInv, NothingMissed
<1> DEFINE goal == /\ exposed' = {} /\ ReadersAreCurrent'
                   /\ \A r \in Rows : subs[r] = "unread" /\ subs'[r] = "read"
                                          => r \in informed'
<1>1. ASSUME NEW c \in Conns, CommitWrite(c)
      PROVE  goal
  <2>1. exposed' = {}
    BY <1>1 DEF CommitWrite, NoneTooLate
  <2>2. \A d \in Conns : pc[d] = "clear" => Row(d) \notin Concerned(c)
    BY <1>1 DEF NoneOvertaken
  <2>3. \A d \in Conns \ {c} : pc[d] = "clear" => Row(d) \in fresh'[d]
    BY <1>1, <2>2 DEF CommitWrite, ReadersAreCurrent
  <2>4. ReadersAreCurrent'
    BY <1>1, <2>1, <2>3, OnlyReadsAreCurrent DEF CommitWrite, Finish, TypeOK
  <2> QED BY <1>1, <2>1, <2>4 DEF CommitWrite, TypeOK
<1>2. ASSUME NEW c \in Conns, Clear(c) \/ Settle(c)
      PROVE  goal
  BY <1>2, ClearTells, SettleTells
<1>3. ASSUME NEW r \in Rows, Subscribe(r) \/ Unsubscribe(r)
      PROVE  goal
  <2>1. exposed' = {} /\ UNCHANGED <<pc, call, fresh>>
    BY <1>3 DEF Subscribe, Unsubscribe, locals
  <2>2. ReadersAreCurrent'
    BY <2>1 DEF ReadersAreCurrent, Row
  <2> QED BY <1>3, <2>1, <2>2 DEF Subscribe, Unsubscribe, TypeOK
<1>4. ASSUME NEW c \in Conns,
             \/ StartCall(c) \/ Kill(c) \/ DeadlockAbort(c)
             \/ Upsert(c) \/ DeleteRow(c) \/ DeleteNothing(c) \/ FireKey(c)
             \/ FireSoul(c) \/ (\E q \in Rows : Raise(c, q)) \/ Select(c)
             \/ SelectOnly(c) \/ ClaimKeys(c) \/ ClaimSouls(c) \/ Count(c)
      PROVE  goal
  <2> USE DEF StartCall, StartSet, StartDelete, StartRead, StartTake, Start,
              Kill, DeadlockAbort, Rollback, Finish, Upsert, DeleteRow,
              DeleteNothing, FireKey, FireSoul, Raise, Select, SelectOnly,
              ClaimKeys, ClaimSouls, Count, history, tables
  <2>1. exposed' = {} /\ subs' = subs
    BY <1>4
  <2>2. \A d \in Conns \ {c} : /\ pc'[d] = pc[d] /\ call'[d] = call[d]
                               /\ fresh'[d] = fresh[d]
    <3>1. CASE \/ StartCall(c) \/ Upsert(c) \/ DeleteRow(c) \/ FireKey(c)
               \/ FireSoul(c) \/ (\E q \in Rows : Raise(c, q)) \/ Count(c)
      BY <3>1 DEF TypeOK
    <3>2. CASE \/ Kill(c) \/ DeadlockAbort(c) \/ DeleteNothing(c)
               \/ SelectOnly(c) \/ Select(c) \/ ClaimKeys(c) \/ ClaimSouls(c)
      BY <3>2 DEF TypeOK
    <3> QED BY <1>4, <3>1, <3>2
  <2>3. pc'[c] = "clear" => Row(c) \in fresh'[c] /\ call'[c] = call[c]
    <3>1. CASE Select(c)
      BY <3>1 DEF TypeOK
    <3>2. CASE \E q \in Rows : Raise(c, q)
      BY <3>2 DEF ReadersAreCurrent
    <3>3. CASE StartCall(c) \/ ClaimKeys(c) \/ ClaimSouls(c) \/ Count(c)
      BY <3>3 DEF TypeOK
    <3>4. CASE Upsert(c) \/ DeleteRow(c) \/ FireKey(c) \/ FireSoul(c)
      BY <3>4 DEF TypeOK
    <3>5. CASE \/ Kill(c) \/ DeadlockAbort(c) \/ DeleteNothing(c)
               \/ SelectOnly(c)
      BY <3>5 DEF TypeOK
    <3> QED BY <1>4, <3>1, <3>2, <3>3, <3>4, <3>5
  <2>4. ReadersAreCurrent'
    BY <2>1, <2>2, <2>3, OnlyReadsAreCurrent DEF ReadersAreCurrent
  <2> QED BY <2>1, <2>4
<1>5. ASSUME NEW c \in Conns,
             StartCall(c) \/ Step(c) \/ Kill(c) \/ DeadlockAbort(c)
      PROVE  goal
  <2> HIDE DEF goal
  <2> QED BY <1>1, <1>2, <1>4, <1>5 DEF Step
<1>6. goal
  <2> HIDE DEF goal
  <2> QED BY <1>3, <1>5, NamesAssumption DEF Next
<1>7. ClaimsLoseNothing'
  BY ClaimsStayCurrent
<1> QED BY <1>6, <1>7

\* If nobody subscribes behind the back of a write, no write passes a reader
\* between its two statements and every reply arrives, then a notification is
\* resolved only by telling its subscriber of the last change.
THEOREM ResolvedIsTold ==
    ASSUME Mortal = {}
    PROVE  Spec /\ []NoneTooLate /\ [][NoneOvertaken]_vars
              => ResolvedMeansInformed
<1>1. Init => NothingMissed
  BY DEF Init, NothingMissed, ClaimsLoseNothing, Claiming, ReadersAreCurrent
<1>2. /\ IInv /\ NothingMissed /\ NoneTooLate /\ [NoneOvertaken]_vars
      /\ [Next]_vars
      => NothingMissed'
  <2>1. ASSUME NothingMissed, UNCHANGED vars
        PROVE  NothingMissed'
    BY <2>1 DEF NothingMissed, ClaimsLoseNothing, Claiming, ReadersAreCurrent,
                Row, vars, locals, history
  <2> QED BY <2>1, NothingIsMissed
<1>3. /\ IInv /\ NothingMissed /\ NoneTooLate /\ [NoneOvertaken]_vars
      /\ [Next]_vars
      => [\A r \in Rows : subs[r] = "unread" /\ subs'[r] = "read"
                          => r \in informed']_vars
  BY NothingIsMissed
<1> QED
  BY Invariance, <1>1, <1>2, <1>3, PTL DEF Spec, ResolvedMeansInformed
=============================================================================
