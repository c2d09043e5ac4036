--------------------------- MODULE CallsBoardProofs ---------------------------
(***************************************************************************)
(* SoulCalls, where every step belongs to a call, implements SoulBoard,    *)
(* which only says what the calls do to the board.                         *)
(***************************************************************************)
EXTENDS SoulCalls, TLAPS

Young == UNION {behind[c] : c \in Conns}

LEMMA CardinalityIsSame == \A S : Board!Cardinality(S) = Cardinality(S)
BY DEF Board!Cardinality, Cardinality

-----------------------------------------------------------------------------
(* Types *)

LEMMA InitTypes == Init => TypeOK
BY DEF Init, TypeOK

LEMMA ReturnTypes ==
    ASSUME TypeOK, NEW c \in Conns, Return(c),
           subs' \in [Rows -> {"absent", "read", "unread"}]
    PROVE  TypeOK'
BY DEF Return, TypeOK

LEMMA NextTypes == TypeOK /\ [Next]_vars => TypeOK'
<1> SUFFICES ASSUME TypeOK, [Next]_vars PROVE TypeOK'
  OBVIOUS
<1>1. CASE UNCHANGED vars
  BY <1>1 DEF TypeOK, vars
<1>2. ASSUME NEW c \in Conns, Invoke(c)
      PROVE  TypeOK'
  BY <1>2 DEF Invoke, TypeOK
<1>3. ASSUME NEW c \in Conns,
             Write(c) \/ DeleteNothing(c) \/ Read(c) \/ Take(c) \/ Fail(c)
      PROVE  TypeOK'
  <2>1. Return(c) /\ subs' \in [Rows -> {"absent", "read", "unread"}]
    BY <1>3 DEF Write, DeleteNothing, Read, Take, Resolve, Fail, TypeOK
  <2> QED BY <2>1, ReturnTypes
<1>4. ASSUME NEW r \in Rows, Subscribe(r) \/ Unsubscribe(r)
      PROVE  TypeOK'
  BY <1>4 DEF Subscribe, Unsubscribe, TypeOK
<1> QED BY <1>1, <1>2, <1>3, <1>4 DEF Next

-----------------------------------------------------------------------------
(* Each step is one of the board's. *)

LEMMA YoungIsLess ==
    ASSUME \A d \in Conns : behind'[d] \subseteq behind[d]
    PROVE  Young' \in SUBSET Young
BY DEF Young

LEMMA ReturnForgets ==
    ASSUME TypeOK, NEW c \in Conns, Return(c)
    PROVE  Young' \in SUBSET Young
BY YoungIsLess DEF Return, TypeOK

LEMMA WriteOnBoard ==
    ASSUME TypeOK, NEW c \in Conns, Write(c)
    PROVE  Board!Next
<1>1. PICK a \in Agents, k \in Keys, v \in Values \cup {Absent} :
          /\ job[c].target = a /\ job[c].scope = k /\ job[c].value = v
  <2>1. job[c] \in Jobs \cup {NoJob} /\ job[c].op = "write"
    BY DEF Write, TypeOK
  <2>2. job[c] \in Writes
    BY <2>1 DEF Jobs, Reads, Takes, NoJob
  <2> QED BY <2>2 DEF Writes
<1>2. PICK missed \in SUBSET behind[c] :
          subs' = [r \in Rows |-> IF r \in Board!Fired(a, k, v) \ missed
                                     /\ Present(r)
                                  THEN "unread" ELSE subs[r]]
  BY <1>1 DEF Write
<1>3. missed \in SUBSET Young
  BY DEF Young
<1>4. Young' \in SUBSET Young
  BY ReturnForgets DEF Write
<1>5. Board!Write(a, k, v)
  BY <1>1, <1>2, <1>3, <1>4 DEF Write, Board!Write, Rows, Present, Young
<1> QED BY <1>5 DEF Board!Next

LEMMA ReadOnBoard ==
    ASSUME TypeOK, NEW c \in Conns, Read(c)
    PROVE  Board!Next
<1> DEFINE R == {r \in Rows : /\ Present(r) /\ r.who = job[c].who
                              /\ r.target = job[c].target
                              /\ r.scope = job[c].scope}
<1>1. /\ subs' = [r \in Rows |-> IF r \in R THEN "read" ELSE subs[r]]
      /\ UNCHANGED souls
  BY DEF Read, Resolve
<1>2. Young' \in SUBSET Young
  BY ReturnForgets DEF Read
<1>3. CASE R = {}
  <2>1. subs' = subs
    BY <1>1, <1>3 DEF TypeOK
  <2> QED BY <1>1, <1>2, <2>1 DEF Board!Next, Board!Age, Young
<1>4. CASE R # {}
  <2>1. PICK r \in Rows : r \in R
    BY <1>4
  <2>2. r = [who |-> job[c].who, target |-> job[c].target, scope |-> job[c].scope]
    BY <2>1 DEF Rows, Board!Rows
  <2>3. R = {q \in {r} : Present(q)}
    BY <2>1, <2>2 DEF Rows, Board!Rows
  <2> HIDE DEF R
  <2>4. Board!Read(r)
    BY <1>1, <1>2, <2>3 DEF Board!Read, Board!Resolve, Rows, Present, Young
  <2> QED BY <2>4 DEF Board!Next, Rows
<1> QED BY <1>3, <1>4

LEMMA TakeOnBoard ==
    ASSUME TypeOK, NEW c \in Conns, Take(c)
    PROVE  Board!Next
<1>1. PICK s \in Subscribers, n \in Limits :
          job[c].who = s /\ job[c].limit = n
  <2>1. job[c] \in Jobs \cup {NoJob} /\ job[c].op = "take"
    BY DEF Take, TypeOK
  <2>2. job[c] \in Takes
    BY <2>1 DEF Jobs, Reads, Writes, NoJob
  <2> QED BY <2>2 DEF Takes
<1>2. PICK batch \in SUBSET Board!Pending(s) :
          Cardinality(batch) <= n /\ Resolve(batch)
  BY <1>1 DEF Take
<1>3. Young' \in SUBSET Young
  BY ReturnForgets DEF Take
<1>4. Board!Take(s, n)
  BY <1>2, <1>3, CardinalityIsSame
     DEF Board!Take, Board!Resolve, Resolve, Rows, Young
<1> QED BY <1>4 DEF Board!Next

LEMMA SubscriptionOnBoard ==
    ASSUME TypeOK, NEW r \in Rows, Subscribe(r) \/ Unsubscribe(r)
    PROVE  Board!Next
<1>1. CASE Subscribe(r)
  <2>1. \A d \in Conns : behind'[d] \subseteq behind[d] \cup {r}
    BY <1>1 DEF Subscribe
  <2>2. Young' \in SUBSET (Young \cup {r})
    BY <2>1 DEF Young
  <2>3. Board!Subscribe(r)
    BY <1>1, <2>2 DEF Subscribe, Board!Subscribe, Present, Young
  <2> QED BY <2>3 DEF Board!Next, Rows
<1>2. CASE Unsubscribe(r)
  <2>1. \A d \in Conns : behind'[d] = behind[d] \ {r}
    BY <1>2 DEF Unsubscribe
  <2>2. Young' \in SUBSET (Young \ {r})
    BY <2>1 DEF Young
  <2>3. Board!Unsubscribe(r)
    BY <1>2, <2>2 DEF Unsubscribe, Board!Unsubscribe, Young
  <2> QED BY <2>3 DEF Board!Next, Rows
<1> QED BY <1>1, <1>2

LEMMA InitOnBoard == Init => Board!Init
BY DEF Init, Board!Init, Rows

LEMMA NextOnBoard == TypeOK /\ [Next]_vars => [Board!Next]_(Board!vars)
<1> SUFFICES ASSUME TypeOK, [Next]_vars
             PROVE  Board!Next \/ UNCHANGED Board!vars
  OBVIOUS
<1>1. CASE UNCHANGED vars
  BY <1>1 DEF vars, Board!vars
<1>2. ASSUME NEW c \in Conns, Invoke(c)
      PROVE  UNCHANGED Board!vars
  BY <1>2 DEF Invoke, Board!vars
<1>3. ASSUME NEW c \in Conns, DeleteNothing(c) \/ Fail(c)
      PROVE  Board!Next
  <2>1. UNCHANGED <<souls, subs>> /\ Young' \in SUBSET Young
    BY <1>3, ReturnForgets DEF DeleteNothing, Fail
  <2> QED BY <2>1 DEF Board!Next, Board!Age, Young
<1> QED
  BY <1>1, <1>2, <1>3, WriteOnBoard, ReadOnBoard, TakeOnBoard,
     SubscriptionOnBoard DEF Next

\* Whatever holds of the board holds of the calls that make it: one that
\* happens once, with its own arguments, between its beginning and its return.
THEOREM CallsMakeTheBoard == Spec => ImplementsBoard
<1>1. Spec => []TypeOK
  BY InitTypes, NextTypes, PTL DEF Spec
<1> QED
  BY <1>1, InitOnBoard, NextOnBoard, PTL DEF Spec, ImplementsBoard, Board!Spec
=============================================================================
