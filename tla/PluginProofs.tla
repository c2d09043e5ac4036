---------------------------- MODULE PluginProofs ----------------------------
(***************************************************************************)
(* The properties of Plugin, for every value of the constants.             *)
(***************************************************************************)
EXTENDS Plugin, SequenceTheorems, FiniteSetTheorems, TLAPS

LEMMA RowSets ==
    /\ Scopes = Keys \cup {SoulScope}
    /\ Rows = [who : Paths, target : Agents, scope : Scopes]
    /\ Topics = Agents \X Scopes
    /\ Store!Cells = Agents \X Keys
    /\ IsFiniteSet(Rows)
BY PluginAssumption DEF Scopes, Rows, Topics, Store!Scopes, Store!Rows, Store!Cells

\* The store's Cardinality is that of FiniteSets, instantiated.
LEMMA SameCardinality == \A S : Store!Cardinality(S) = Cardinality(S)
BY DEF Store!Cardinality, Cardinality

\* Sequences that end in one more element each are equal part by part.
LEMMA LastSegment ==
    ASSUME NEW S, NEW p \in Seq(S), NEW m \in Seq(S),
           NEW q \in Seq(S), NEW n \in Seq(S),
           Len(m) = 1, Len(n) = 1, p \o m = q \o n
    PROVE  p = q /\ m = n
<1>1. /\ Len(p \o m) = Len(p) + Len(m)
      /\ \A i \in 1 .. Len(p) + Len(m) :
             (p \o m)[i] = IF i <= Len(p) THEN p[i] ELSE m[i - Len(p)]
  BY ConcatProperties
<1>2. /\ Len(q \o n) = Len(q) + Len(n)
      /\ \A i \in 1 .. Len(q) + Len(n) :
             (q \o n)[i] = IF i <= Len(q) THEN q[i] ELSE n[i - Len(q)]
  BY ConcatProperties
<1>3. Len(p) \in Nat /\ Len(q) \in Nat
  BY LenProperties
<1>4. Len(p) = Len(q)
  BY <1>1, <1>2, <1>3
<1>5. \A i \in 1 .. Len(p) : p[i] = q[i]
  BY <1>1, <1>2, <1>3, <1>4
<1>6. m[1] = n[1]
  <2>1. Len(p) + 1 \in 1 .. Len(p) + Len(m) /\ (Len(p) + 1) - Len(p) = 1
        /\ ~ (Len(p) + 1 <= Len(p))
    BY <1>3
  <2>2. (p \o m)[Len(p) + 1] = m[1]
    BY <2>1, <1>1
  <2>3. (q \o n)[Len(p) + 1] = n[1]
    BY <2>1, <1>2, <1>4
  <2> QED BY <2>2, <2>3
<1>7. p = q
  BY <1>4, <1>5, SeqEqual
<1>8. m = n
  BY <1>6, SeqEqual
<1> QED BY <1>7, <1>8

\* Instances whose names are one segment have no namesakes.
LEMMA OneSegmentIsUnambiguous ==
    ASSUME \A e \in Entities : Len(e.name) = 1,
           NEW e \in Entities
    PROVE  Namesakes(e) = {}
<1> SUFFICES ASSUME NEW f \in Entities, Path(e) = Path(f)
             PROVE  e = f
  BY DEF Namesakes
<1>1. /\ e = [parent |-> e.parent, name |-> e.name]
      /\ f = [parent |-> f.parent, name |-> f.name]
      /\ e.parent \in Seq(STRING) /\ e.name \in Seq(STRING) /\ Len(e.name) = 1
      /\ f.parent \in Seq(STRING) /\ f.name \in Seq(STRING) /\ Len(f.name) = 1
  BY EntityAssumption
<1>2. e.parent \o e.name = f.parent \o f.name
  BY DEF Path
<1>3. ASSUME NEW p \in Seq(STRING), NEW m \in Seq(STRING),
             NEW q \in Seq(STRING), NEW n \in Seq(STRING),
             Len(m) = 1, Len(n) = 1, p \o m = q \o n
      PROVE  p = q /\ m = n
  BY <1>3, LastSegment
<1>4. e.parent = f.parent /\ e.name = f.name
  <2>1. /\ e.parent \in Seq(STRING) /\ e.name \in Seq(STRING) /\ Len(e.name) = 1
        /\ f.parent \in Seq(STRING) /\ f.name \in Seq(STRING) /\ Len(f.name) = 1
    BY <1>1
  <2> HIDE <1>1
  <2> QED BY <2>1, <1>2, <1>3
<1> QED BY <1>1, <1>4

LEMMA EntryIsARow ==
    ASSUME NEW e \in Entities, NEW t \in Topics
    PROVE  Entry(e, t) \in Rows
<1>1. t[1] \in Agents /\ t[2] \in Scopes
  BY RowSets
<1>2. Path(e) \in Paths
  BY DEF Paths
<1> QED BY <1>1, <1>2, RowSets DEF Entry

-----------------------------------------------------------------------------
(* What a call in flight may be: the part of the invariant about one call. *)

Allowed(j) ==
    /\ j.op = "write" => <<j.target, j.scope>> \in Store!Cells
    /\ j.op = "read" => j.target \in Agents
    /\ j.op \in {"take"} \cup Listing => j.who \in Paths
    /\ j.op \in {"subscribe", "unsubscribe"} =>
           /\ j.for \in Entities /\ j.who = Path(j.for)
           /\ <<j.target, j.scope>> \in Topics

OfTool(j) ==
    j.op # "none" => /\ j.by \in Known /\ j.op \notin Listing
                     /\ IF j.op = "write" THEN j.target = j.by.full
                        ELSE j.who = Path(j.by.self)

OfCommand(j) == j.op # "take" /\ (j.op = "read" => j.who = None)

LEMMA CallsAreAllowedSplit ==
    CallsAreAllowed <=> /\ \A c \in Requests \cup Processes : Allowed(job[c])
                        /\ \A c \in Requests : OfTool(job[c])
                        /\ \A c \in Processes : OfCommand(job[c])
BY DEF CallsAreAllowed, Allowed, OfTool, OfCommand

LEMMA NoJobIsAllowed ==
    NoJob \in Jobs /\ Allowed(NoJob) /\ OfTool(NoJob) /\ OfCommand(NoJob)
BY RowSets
   DEF NoJob, Call, Jobs, Ops, Listing, Optional, Allowed, OfTool, OfCommand

LEMMA KnownFields ==
    \A i \in Known : /\ i.full \in Agents /\ i.self \in Entities
                     /\ Path(i.self) \in Paths
BY EntityAssumption, PluginAssumption DEF Known, Optional, Paths

\* Stamping a call with the identity it is made under changes nothing else.
LEMMA StampedCall ==
    ASSUME NEW i \in Known, NEW j \in Jobs
    PROVE  LET k == [j EXCEPT !.by = i]
           IN  /\ k \in Jobs /\ k.by = i
               /\ k.op = j.op /\ k.who = j.who /\ k.target = j.target
               /\ k.scope = j.scope /\ k.for = j.for
BY DEF Jobs, Optional

\* Every tool asks the store in the name of the identity of its session.
LEMMA ToolsAskAsTheirIdentity ==
    ASSUME NEW i \in Known, NEW j \in ToolCalls(i)
    PROVE  LET k == [j EXCEPT !.by = i]
           IN  k \in Jobs /\ Allowed(k) /\ OfTool(k)
<1> DEFINE named == /\ j.op # "none" /\ j.op \notin Listing
                   /\ IF j.op = "write" THEN j.target = i.full
                      ELSE j.who = Path(i.self)
<1> SUFFICES j \in Jobs /\ Allowed(j) /\ named
  BY StampedCall DEF Allowed, OfTool
<1> HIDE DEF named
<1>0. /\ i.full \in Agents /\ i.self \in Entities /\ Path(i.self) \in Paths
      /\ Scopes = Keys \cup {SoulScope} /\ Store!Cells = Agents \X Keys
      /\ Topics = Agents \X Scopes
  BY KnownFields, RowSets, PluginAssumption
<1>1. CASE j \in ToolReads(i)
  <2>1. PICK a \in Optional(Agents), x \in Scopes :
            j = Call("read", Path(i.self), Given(a, i.full), x)
    BY <1>1 DEF ToolReads
  <2>2. Given(a, i.full) \in Agents
    BY <1>0, <2>1 DEF Given, Optional
  <2>3. j = [op |-> "read", who |-> Path(i.self), target |-> Given(a, i.full),
             scope |-> x, value |-> Absent, count |-> None, by |-> None,
             for |-> None]
    BY <2>1 DEF Call
  <2> QED BY <1>0, <2>1, <2>2, <2>3
          DEF Jobs, Ops, Listing, Optional, Allowed, named
<1>2. CASE j \in ToolWrites(i)
  <2>1. PICK x \in Keys, v \in Values \cup {Absent} :
            j = [Call("write", None, i.full, x) EXCEPT !.value = v]
    BY <1>2 DEF ToolWrites
  <2>2. j = [op |-> "write", who |-> None, target |-> i.full, scope |-> x,
             value |-> v, count |-> None, by |-> None, for |-> None]
    BY <2>1 DEF Call
  <2> QED BY <1>0, <2>1, <2>2
          DEF Jobs, Ops, Listing, Optional, Allowed, named
<1>3. CASE j \in ToolSubscriptions(i)
  <2>1. PICK op \in {"subscribe", "unsubscribe"}, t \in Topics :
            j = [Call(op, Path(i.self), t[1], t[2]) EXCEPT !.for = i.self]
    BY <1>3 DEF ToolSubscriptions
  <2>2. j = [op |-> op, who |-> Path(i.self), target |-> t[1],
             scope |-> t[2], value |-> Absent, count |-> None, by |-> None,
             for |-> i.self]
    BY <2>1 DEF Call
  <2>3. t = <<t[1], t[2]>> /\ t[1] \in Agents /\ t[2] \in Scopes
    BY <1>0
  <2> QED BY <1>0, <2>1, <2>2, <2>3
          DEF Jobs, Ops, Listing, Optional, Allowed, named
<1>4. CASE j \in ToolTakes(i)
  <2>1. PICK n \in Optional(Counts) :
            j = [Call("take", Path(i.self), None, SoulScope)
                    EXCEPT !.count = n]
    BY <1>4 DEF ToolTakes
  <2>2. j = [op |-> "take", who |-> Path(i.self), target |-> None,
             scope |-> SoulScope, value |-> Absent, count |-> n, by |-> None,
             for |-> None]
    BY <2>1 DEF Call
  <2> QED BY <1>0, <2>1, <2>2
          DEF Jobs, Ops, Listing, Optional, Allowed, named
<1> QED BY <1>1, <1>2, <1>3, <1>4 DEF ToolCalls

\* The hierarchy a selector resolves to is that of the instance it means.
LEMMA OwnerIsMeant ==
    ASSUME NEW i \in Identities, NEW s \in Selectors(i)
    PROVE  /\ Owner(i, s[1], s[2]) = Path(Meant(i, s[1], s[2]))
           /\ Meant(i, s[1], s[2]) \in Entities
           /\ Owner(i, s[1], s[2]) \in Paths
<1>1. /\ s[2] # None => s[1] # None
      /\ Meant(i, s[1], s[2]) \in Entities
  BY DEF Selectors
<1>2. Owner(i, s[1], s[2]) = Path(Meant(i, s[1], s[2]))
  <2>1. CASE s[1] = None
    BY <2>1 DEF Owner, Meant
  <2>2. CASE s[1] # None /\ s[2] = None
    BY <2>2 DEF Owner, Meant, Given, Path
  <2>3. CASE s[1] # None /\ s[2] # None
    BY <2>3 DEF Owner, Meant, Given, Path
  <2> QED BY <2>1, <2>2, <2>3
<1> QED BY <1>1, <1>2 DEF Paths

LEMMA TargetsAreAgents ==
    ASSUME NEW i \in Identities
    PROVE  Targets(i) \subseteq Agents
BY EntityAssumption DEF Targets, Given, Optional

\* No command claims notifications, and none reads as a subscriber.
LEMMA CommandsAskForTheirTarget ==
    ASSUME NEW i \in Identities, NEW j \in CommandCalls(i)
    PROVE  /\ j \in Jobs /\ Allowed(j) /\ OfCommand(j)
           /\ j.op \notin {"listSouls", "reply"}
<1>0. /\ Scopes = Keys \cup {SoulScope} /\ Store!Cells = Agents \X Keys
      /\ Topics = Agents \X Scopes
      /\ Targets(i) \subseteq Agents
  BY TargetsAreAgents, RowSets, PluginAssumption
<1>1. CASE j \in Get(i) \cup List(i)
  <2>1. PICK a \in Targets(i), x \in Scopes : j = Call("read", None, a, x)
    BY <1>0, <1>1 DEF Get, List
  <2> QED BY <1>0, <2>1
          DEF Call, Jobs, Ops, Listing, Optional, Allowed, OfCommand
<1>2. CASE j \in Set(i) \cup Delete(i)
  <2>1. PICK a \in Targets(i), x \in Keys, v \in Values \cup {Absent} :
            j = [op |-> "write", who |-> None, target |-> a, scope |-> x,
                 value |-> v, count |-> None, by |-> None, for |-> None]
    <3>1. CASE j \in Set(i)
      <4>1. PICK a \in Targets(i), x \in Keys, v \in Values :
                j = [Call("write", None, a, x) EXCEPT !.value = v]
        BY <3>1 DEF Set
      <4>2. j = [op |-> "write", who |-> None, target |-> a, scope |-> x,
                 value |-> v, count |-> None, by |-> None, for |-> None]
        BY <4>1 DEF Call
      <4> QED BY <4>2
    <3>2. CASE j \in Delete(i)
      BY <3>2 DEF Call, Delete
    <3> QED BY <1>2, <3>1, <3>2
  <2> QED BY <1>0, <2>1
          DEF Jobs, Ops, Listing, Optional, Allowed, OfCommand
<1>3. CASE j \in Subscribe(i) \cup Unsubscribe(i)
  <2>1. PICK op \in {"subscribe", "unsubscribe"}, s \in Selectors(i),
             t \in Topics :
            j = [Call(op, Owner(i, s[1], s[2]), t[1], t[2])
                    EXCEPT !.for = Meant(i, s[1], s[2])]
    BY <1>3 DEF Subscribe, Unsubscribe, Resolve
  <2>2. t = <<t[1], t[2]>> /\ t[1] \in Agents /\ t[2] \in Scopes
    BY <1>0
  <2>3. j = [op |-> op, who |-> Owner(i, s[1], s[2]), target |-> t[1],
             scope |-> t[2], value |-> Absent, count |-> None, by |-> None,
             for |-> Meant(i, s[1], s[2])]
    BY <2>1 DEF Call
  <2> QED BY <1>0, <2>1, <2>2, <2>3, OwnerIsMeant
          DEF Jobs, Ops, Listing, Optional, Allowed, OfCommand
<1>4. CASE j \in Subscriptions(i)
  <2>1. PICK s \in Selectors(i) :
            j = Call("listKeys", Owner(i, s[1], s[2]), None, SoulScope)
    BY <1>4 DEF Subscriptions
  <2> QED BY <1>0, <2>1, OwnerIsMeant
          DEF Call, Jobs, Ops, Listing, Optional, Allowed, OfCommand
<1> QED BY <1>1, <1>2, <1>3, <1>4 DEF CommandCalls

-----------------------------------------------------------------------------
(* What performing the call j does to the store.                           *)

StoreTyped ==
    /\ souls \in [Store!Cells -> Values \cup {Absent}]
    /\ subs \in [Rows -> {"absent", "read", "unread"}]
    /\ young \in SUBSET Rows

\* A row changes for a call of its owner, or a write raises it.
RowsChangeFor(j) ==
    \A r \in Rows :
        /\ subs'[r] # subs[r] =>
               \/ j.op # "write" /\ r.who = j.who
               \/ subs[r] = "read" /\ subs'[r] = "unread"
        /\ subs[r] = "unread" /\ subs'[r] = "read" =>
               j.op \in {"read", "take"} /\ r.who = j.who

\* No row appears or goes, and nothing else is asked for.
RowsStay ==
    /\ \A r \in Rows : subs'[r] = "absent" <=> subs[r] = "absent"
    /\ asked' = asked

LEMMA WriteEffect ==
    ASSUME StoreTyped, NEW c \in Requests \cup Processes, Write(job[c]),
           NEW j \in Jobs, j = job[c], Allowed(j)
    PROVE  /\ StoreTyped' /\ RowsChangeFor(j) /\ RowsStay
           /\ \A s \in Store!Cells : souls'[s] # souls[s] => s[1] = j.target
<1>1. /\ j.op = "write" /\ <<j.target, j.scope>> \in Store!Cells
      /\ j.value \in Values \cup {Absent}
  BY DEF Write, Allowed, Jobs
<1>2. CASE UNCHANGED <<souls, subs, young, asked>>
  BY <1>2 DEF StoreTyped, RowsChangeFor, RowsStay
<1>3. CASE Store!Write(j.target, j.scope, j.value) /\ asked' = asked
  <2>1. /\ souls' = [souls EXCEPT ![<<j.target, j.scope>>] = j.value]
        /\ young' \in SUBSET young
    BY <1>3 DEF Store!Write
  <2>2. PICK missed \in SUBSET young :
            subs' = [r \in Store!Rows |->
                       IF /\ r \in Store!Fired(j.target, j.scope, j.value) \ missed
                          /\ Store!Present(r)
                       THEN "unread" ELSE subs[r]]
    BY <1>3 DEF Store!Write
  <2>3. subs' \in [Rows -> {"absent", "read", "unread"}]
    BY <2>2 DEF StoreTyped, Rows
  <2>4. \A r \in Rows : \/ subs'[r] = subs[r]
                        \/ subs[r] # "absent" /\ subs'[r] = "unread"
    BY <2>2 DEF Store!Present, Rows
  <2>5. RowsChangeFor(j)
    BY <2>4 DEF RowsChangeFor, StoreTyped
  <2>6. RowsStay
    BY <1>3, <2>4 DEF RowsStay
  <2>7. \A s \in Store!Cells : souls'[s] # souls[s] => s[1] = j.target
    BY <1>1, <2>1 DEF StoreTyped
  <2>8. StoreTyped'
    BY <1>1, <2>1, <2>3 DEF StoreTyped
  <2> QED BY <2>5, <2>6, <2>7, <2>8
<1>4. UNCHANGED <<souls, subs, young, asked>>
      \/ (Store!Write(j.target, j.scope, j.value) /\ asked' = asked)
  BY DEF Write, Keep, store, Store!Write
<1> QED BY <1>2, <1>3, <1>4

LEMMA RowIsARow ==
    ASSUME NEW j \in Jobs, j.who \in Paths, j.target \in Agents
    PROVE  Row(j) \in Rows
BY RowSets DEF Row, Jobs

LEMMA ReadEffect ==
    ASSUME StoreTyped, NEW c \in Requests \cup Processes, Read(job[c]),
           NEW j \in Jobs, j = job[c], Allowed(j)
    PROVE  StoreTyped' /\ RowsChangeFor(j) /\ RowsStay /\ souls' = souls
<1>1. j.op = "read" /\ j.target \in Agents /\ j.who \in Optional(Paths)
  BY DEF Read, Allowed, Jobs
<1>2. CASE j.who = None
  <2>1. UNCHANGED <<souls, subs, young, asked>>
    BY <1>2 DEF Read, Keep, store
  <2> QED BY <2>1 DEF StoreTyped, RowsChangeFor, RowsStay
<1>3. CASE j.who # None
  <2>0. j.who \in Paths
    BY <1>1, <1>3 DEF Optional
  <2>1. PICK q \in Rows : q = Row(j) /\ q.who = j.who
    <3>1. Row(j) \in Rows
      BY <1>1, <2>0, RowIsARow
    <3>2. Row(j).who = j.who
      BY DEF Row
    <3> QED BY <3>1, <3>2
  <2>2. /\ subs' = [r \in Store!Rows |->
                      IF r \in {x \in {q} : Store!Present(x)}
                      THEN "read" ELSE subs[r]]
        /\ young' \in SUBSET young /\ souls' = souls /\ asked' = asked
    BY <1>3, <2>1 DEF Read, Row, Store!Read, Store!Resolve, Store!Present
  <2>3. subs' \in [Rows -> {"absent", "read", "unread"}]
    BY <2>2 DEF StoreTyped, Rows
  <2>4. \A r \in Rows : \/ subs'[r] = subs[r]
                        \/ r = q /\ subs[r] # "absent" /\ subs'[r] = "read"
    BY <2>2 DEF Store!Present, Rows
  <2> QED BY <1>1, <2>1, <2>2, <2>3, <2>4
          DEF StoreTyped, RowsChangeFor, RowsStay
<1> QED BY <1>2, <1>3

Taken == {r \in Rows : subs[r] = "unread" /\ subs'[r] = "read"}

LEMMA LimitIsLeast ==
    \A n \in Optional(Counts), m \in Nat : m <= Limit(n) =>
        m <= Cap /\ (n # None => m <= n)
BY PluginAssumption DEF Optional, Limit

LEMMA TakeEffect ==
    ASSUME StoreTyped, NEW c \in Requests \cup Processes, Take(job[c]),
           NEW j \in Jobs, j = job[c]
    PROVE  /\ StoreTyped' /\ RowsChangeFor(j) /\ RowsStay /\ souls' = souls
           /\ Cardinality(Taken) <= Cap
           /\ j.count # None => Cardinality(Taken) <= j.count
<1>1. PICK batch \in SUBSET Store!Pending(j.who) :
          /\ Store!Cardinality(batch) <= Limit(j.count)
          /\ subs' = [r \in Store!Rows |-> IF r \in batch THEN "read" ELSE subs[r]]
          /\ young' \in SUBSET young
  BY DEF Take, Store!Take, Store!Resolve
<1>2. /\ souls' = souls /\ asked' = asked /\ j.op = "take"
      /\ j.count \in Optional(Counts)
  BY DEF Take, Store!Take, Store!Resolve, Jobs
<1>3. /\ batch \subseteq Rows
      /\ \A r \in batch : r.who = j.who /\ subs[r] = "unread"
  BY DEF Store!Pending, Rows
<1>4. \A r \in Rows : subs'[r] = IF r \in batch THEN "read" ELSE subs[r]
  BY <1>1 DEF Rows
<1>5. subs' \in [Rows -> {"absent", "read", "unread"}]
  BY <1>1 DEF StoreTyped, Rows
<1>6. Taken = batch
  BY <1>3, <1>4 DEF Taken
<1>7. Cardinality(Taken) <= Limit(j.count) /\ Cardinality(Taken) \in Nat
  BY <1>1, <1>3, <1>6, SameCardinality, RowSets, FS_Subset, FS_CardinalityType
<1>8. /\ Cardinality(Taken) <= Cap
      /\ j.count # None => Cardinality(Taken) <= j.count
  BY <1>2, <1>7, LimitIsLeast
<1>9. StoreTyped'
  BY <1>1, <1>2, <1>5 DEF StoreTyped
<1>10. RowsChangeFor(j)
  BY <1>2, <1>3, <1>4 DEF RowsChangeFor
<1>11. RowsStay
  BY <1>2, <1>3, <1>4 DEF RowsStay
<1> QED BY <1>2, <1>8, <1>9, <1>10, <1>11

\* The row of a subscription call is that of the instance it is meant for, and
\* of its namesakes.
LEMMA WishIsRow ==
    ASSUME NEW j \in Jobs, Allowed(j), j.op \in {"subscribe", "unsubscribe"},
           NEW e \in Entities, NEW t \in Topics
    PROVE  /\ Row(j) \in Rows
           /\ <<e, t>> = Wish(j) => Entry(e, t) = Row(j)
           /\ Entry(e, t) = Row(j) =>
                  /\ j.for \in Namesakes(e) \cup {e}
                  /\ <<j.for, t>> = Wish(j)
<1>1. /\ j.for \in Entities /\ j.who = Path(j.for)
      /\ <<j.target, j.scope>> \in Topics
  BY DEF Allowed
<1>2. Row(j) \in Rows
  BY <1>1, RowSets, RowIsARow DEF Paths
<1>3. t = <<t[1], t[2]>>
  BY RowSets
<1>4. Entry(e, t) = Row(j) <=> /\ Path(e) = j.who
                               /\ t[1] = j.target /\ t[2] = j.scope
  BY DEF Row, Entry
<1>5. <<e, t>> = Wish(j) => Entry(e, t) = Row(j)
  BY <1>1, <1>4 DEF Wish
<1>6. ASSUME Entry(e, t) = Row(j)
      PROVE  j.for \in Namesakes(e) \cup {e} /\ <<j.for, t>> = Wish(j)
  BY <1>1, <1>3, <1>4, <1>6 DEF Namesakes, Wish
<1> QED BY <1>2, <1>5, <1>6

LEMMA SubscriptionEffect ==
    ASSUME StoreTyped, NEW c \in Requests \cup Processes,
           AddSubscription(job[c]) \/ RemoveSubscription(job[c]),
           NEW j \in Jobs, j = job[c], Allowed(j)
    PROVE  /\ StoreTyped' /\ RowsChangeFor(j) /\ souls' = souls
           /\ SubscribedAsAsked => SubscribedAsAsked'
<1>1. CASE AddSubscription(job[c])
  <2>1. j.op = "subscribe" /\ asked' = asked \cup {Wish(j)}
    BY <1>1 DEF AddSubscription, Wish
  <2>2. PICK q \in Rows : q = Row(j) /\ q.who = j.who
    <3>1. Row(j) \in Rows
      BY <2>1, RowIsARow, PluginAssumption, RowSets DEF Allowed, Paths
    <3>2. Row(j).who = j.who
      BY DEF Row
    <3> QED BY <3>1, <3>2
  <2>3. /\ subs' = [subs EXCEPT ![q] = IF subs[q] # "absent" THEN @ ELSE "read"]
        /\ young' \in SUBSET (young \cup {q}) /\ souls' = souls
    BY <1>1, <2>2 DEF AddSubscription, Row, Store!Subscribe, Store!Present
  <2>4. StoreTyped'
    BY <2>2, <2>3 DEF StoreTyped
  <2>5. RowsChangeFor(j)
    BY <2>1, <2>2, <2>3 DEF RowsChangeFor, StoreTyped
  <2>6. \A r \in Rows : subs'[r] # "absent" <=> subs[r] # "absent" \/ r = q
    BY <2>2, <2>3 DEF StoreTyped
  <2>7. ASSUME SubscribedAsAsked, NEW e \in Entities, NEW t \in Topics
        PROVE  /\ subs'[Entry(e, t)] # "absent" =>
                      \E d \in Namesakes(e) \cup {e} : <<d, t>> \in asked'
               /\ <<e, t>> \in asked' /\ Namesakes(e) = {} =>
                      subs'[Entry(e, t)] # "absent"
    <3>1. Entry(e, t) \in Rows
      BY EntryIsARow
    <3>2. /\ subs[Entry(e, t)] # "absent" =>
                 \E d \in Namesakes(e) \cup {e} : <<d, t>> \in asked
          /\ <<e, t>> \in asked /\ Namesakes(e) = {} =>
                 subs[Entry(e, t)] # "absent"
      BY <2>7 DEF SubscribedAsAsked, Store!Present
    <3> QED BY <2>1, <2>2, <2>6, <3>1, <3>2, WishIsRow
  <2> QED BY <2>3, <2>4, <2>5, <2>7 DEF SubscribedAsAsked, Store!Present
<1>2. CASE RemoveSubscription(job[c])
  <2>1. j.op = "unsubscribe" /\ asked' = asked \ {Wish(j)}
    BY <1>2 DEF RemoveSubscription, Wish
  <2>2. PICK q \in Rows : q = Row(j) /\ q.who = j.who
    <3>1. Row(j) \in Rows
      BY <2>1, RowIsARow, PluginAssumption, RowSets DEF Allowed, Paths
    <3>2. Row(j).who = j.who
      BY DEF Row
    <3> QED BY <3>1, <3>2
  <2>3. /\ subs' = [subs EXCEPT ![q] = "absent"]
        /\ young' \in SUBSET (young \ {q}) /\ souls' = souls
    BY <1>2, <2>2 DEF RemoveSubscription, Row, Store!Unsubscribe
  <2>4. StoreTyped'
    BY <2>2, <2>3 DEF StoreTyped
  <2>5. RowsChangeFor(j)
    BY <2>1, <2>2, <2>3 DEF RowsChangeFor, StoreTyped
  <2>6. \A r \in Rows : subs'[r] # "absent" <=> subs[r] # "absent" /\ r # q
    BY <2>2, <2>3 DEF StoreTyped
  <2>7. ASSUME SubscribedAsAsked, NEW e \in Entities, NEW t \in Topics
        PROVE  /\ subs'[Entry(e, t)] # "absent" =>
                      \E d \in Namesakes(e) \cup {e} : <<d, t>> \in asked'
               /\ <<e, t>> \in asked' /\ Namesakes(e) = {} =>
                      subs'[Entry(e, t)] # "absent"
    <3>1. Entry(e, t) \in Rows
      BY EntryIsARow
    <3>2. /\ subs[Entry(e, t)] # "absent" =>
                 \E d \in Namesakes(e) \cup {e} : <<d, t>> \in asked
          /\ <<e, t>> \in asked /\ Namesakes(e) = {} =>
                 subs[Entry(e, t)] # "absent"
      BY <2>7 DEF SubscribedAsAsked, Store!Present
    <3>3. ASSUME NEW d \in Namesakes(e) \cup {e}, Entry(e, t) # Row(j)
          PROVE  <<d, t>> # Wish(j)
      <4>1. d \in Entities /\ Entry(d, t) = Entry(e, t)
        BY DEF Namesakes, Entry
      <4> QED BY <2>1, <3>3, <4>1, WishIsRow
    <3>4. ASSUME Entry(e, t) = Row(j), Namesakes(e) = {}
          PROVE  <<e, t>> = Wish(j)
      BY <2>1, <3>4, WishIsRow
    <3> QED BY <2>1, <2>2, <2>6, <3>1, <3>2, <3>3, <3>4
  <2> QED BY <2>3, <2>4, <2>5, <2>7 DEF SubscribedAsAsked, Store!Present
<1> QED BY <1>1, <1>2

-----------------------------------------------------------------------------
(* The inductive invariant.                                                *)

LEMMA TypeIsStoreTyped == TypeOK => StoreTyped
BY DEF TypeOK, StoreTyped

LEMMA SubscribedStays ==
    ASSUME SubscribedAsAsked, RowsStay
    PROVE  SubscribedAsAsked'
<1>1. \A e \in Entities, t \in Topics : Entry(e, t) \in Rows
  BY EntryIsARow
<1> QED BY <1>1 DEF SubscribedAsAsked, Store!Present, RowsStay

\* Performing a call keeps the store's part of the invariant.
LEMMA PerformEffect ==
    ASSUME IInv, NEW c \in Requests \cup Processes, Perform(c),
           NEW j, j = job[c]
    PROVE  /\ StoreTyped' /\ SubscribedAsAsked' /\ RowsChangeFor(j)
           /\ asked' \in SUBSET (Entities \X Topics)
           /\ \A s \in Store!Cells :
                  souls'[s] # souls[s] => j.op = "write" /\ s[1] = j.target
<1>1. j \in Jobs /\ Allowed(j) /\ StoreTyped /\ SubscribedAsAsked
      /\ asked \in SUBSET (Entities \X Topics)
  BY CallsAreAllowedSplit, TypeIsStoreTyped DEF IInv, TypeOK
<1>2. CASE Write(job[c])
  <2>1. j.op = "write"
    BY <1>2 DEF Write
  <2> QED BY <1>1, <1>2, <2>1, WriteEffect, SubscribedStays DEF RowsStay
<1>3. CASE Read(job[c])
  BY <1>1, <1>3, ReadEffect, SubscribedStays DEF RowsStay
<1>4. CASE Take(job[c])
  BY <1>1, <1>4, TakeEffect, SubscribedStays DEF RowsStay
<1>5. CASE AddSubscription(job[c]) \/ RemoveSubscription(job[c])
  <2>1. /\ j.op \in {"subscribe", "unsubscribe"}
        /\ asked' \subseteq asked \cup {Wish(j)}
    BY <1>5 DEF AddSubscription, RemoveSubscription, Wish
  <2>2. Wish(j) \in Entities \X Topics
    BY <1>1, <2>1 DEF Allowed, Wish
  <2> QED BY <1>1, <1>5, <2>1, <2>2, SubscriptionEffect
<1> QED BY <1>2, <1>3, <1>4, <1>5 DEF Perform

\* Every other action leaves the store alone.
Others ==
    \/ \E s \in SessionIds : Forget(s) \/ \E i \in Identities : Connect(s, i)
    \/ \E c \in Requests : Request(c)
    \/ \E p \in Processes : Run(p) \/ ListKeys(p) \/ ListSouls(p) \/ ReplyListing(p)
    \/ \E c \in Requests \cup Processes : Fail(c)

LEMMA NextSplit ==
    ASSUME Next
    PROVE  /\ Others \/ \E c \in Requests \cup Processes : Perform(c)
           /\ Observe
BY DEF Next, Others

LEMMA OthersKeepTheStore ==
    ASSUME Others
    PROVE  UNCHANGED <<souls, subs, young, asked>>
BY DEF Others, Forget, Connect, Request, Run, ListKeys, ListSouls, Advance,
       ReplyListing, Fail, store

LEMMA StorePart ==
    ASSUME IInv, Next
    PROVE  /\ StoreTyped' /\ SubscribedAsAsked'
           /\ asked' \in SUBSET (Entities \X Topics)
<1>1. CASE Others
  <2>1. /\ UNCHANGED <<souls, subs, young, asked>> /\ StoreTyped /\ RowsStay
        /\ SubscribedAsAsked /\ asked \in SUBSET (Entities \X Topics)
    BY <1>1, OthersKeepTheStore, TypeIsStoreTyped DEF RowsStay, IInv, TypeOK
  <2> QED BY <2>1, SubscribedStays DEF StoreTyped
<1>2. ASSUME NEW c \in Requests \cup Processes, Perform(c)
      PROVE  /\ StoreTyped' /\ SubscribedAsAsked'
             /\ asked' \in SUBSET (Entities \X Topics)
  <2>1. PICK j : j = job[c]
    OBVIOUS
  <2> QED BY <1>2, <2>1, PerformEffect
<1> QED BY <1>1, <1>2, NextSplit

\* What an action makes of the calls: one that is allowed, or none.
LEMMA JobPart ==
    ASSUME IInv, Next
    PROVE  /\ job' \in [Requests \cup Processes -> Jobs]
           /\ CallsAreAllowed'
<1> USE DEF IInv
<1>0. /\ job \in [Requests \cup Processes -> Jobs]
      /\ \A c \in Requests \cup Processes : Allowed(job[c])
      /\ \A c \in Requests : OfTool(job[c])
      /\ \A c \in Processes : OfCommand(job[c])
      /\ Requests \cap Processes = {}
  BY CallsAreAllowedSplit, PluginAssumption DEF TypeOK
<1>1. ASSUME NEW c \in Requests \cup Processes, NEW k \in Jobs, Allowed(k),
             c \in Requests => OfTool(k), c \in Processes => OfCommand(k),
             job' = [job EXCEPT ![c] = k]
      PROVE  /\ job' \in [Requests \cup Processes -> Jobs]
             /\ CallsAreAllowed'
  <2>1. /\ \A d \in Requests \cup Processes : Allowed(job'[d])
        /\ \A d \in Requests : OfTool(job'[d])
        /\ \A d \in Processes : OfCommand(job'[d])
    BY <1>0, <1>1
  <2> QED BY <1>0, <1>1, <2>1
          DEF CallsAreAllowed, Allowed, OfTool, OfCommand
<1>2. ASSUME NEW c \in Requests \cup Processes, job' = [job EXCEPT ![c] = NoJob]
      PROVE  /\ job' \in [Requests \cup Processes -> Jobs]
             /\ CallsAreAllowed'
  BY <1>1, <1>2, NoJobIsAllowed
<1>3. ASSUME job' = job
      PROVE  /\ job' \in [Requests \cup Processes -> Jobs]
             /\ CallsAreAllowed'
  BY <1>0, <1>3 DEF CallsAreAllowed
<1>4. ASSUME NEW c \in Requests, Request(c)
      PROVE  /\ job' \in [Requests \cup Processes -> Jobs]
             /\ CallsAreAllowed'
  <2>0. PICK i \in Known : \E j \in ToolCalls(i) :
            job' = [job EXCEPT ![c] = [j EXCEPT !.by = i]]
    <3>1. PICK s \in SessionIds :
              /\ identity[s] # None
              /\ \E j \in ToolCalls(identity[s]) :
                     job' = [job EXCEPT ![c] = [j EXCEPT !.by = identity[s]]]
      BY <1>4 DEF Request
    <3>2. identity[s] \in Known
      BY <3>1 DEF TypeOK, Optional
    <3> QED BY <3>1, <3>2
  <2>1. PICK j \in ToolCalls(i) : job' = [job EXCEPT ![c] = [j EXCEPT !.by = i]]
    BY <2>0
  <2>2. PICK k : k = [j EXCEPT !.by = i]
    OBVIOUS
  <2>3. k \in Jobs /\ Allowed(k) /\ OfTool(k)
    BY <2>2, ToolsAskAsTheirIdentity
  <2> QED BY <1>0, <1>1, <2>1, <2>2, <2>3
<1>5. ASSUME NEW p \in Processes, Run(p)
      PROVE  /\ job' \in [Requests \cup Processes -> Jobs]
             /\ CallsAreAllowed'
  <2>0. PICK i \in Identities :
            \E j \in CommandCalls(i) : job' = [job EXCEPT ![p] = j]
    BY <1>5 DEF Run
  <2>1. PICK j \in CommandCalls(i) : job' = [job EXCEPT ![p] = j]
    BY <2>0
  <2>2. j \in Jobs /\ Allowed(j) /\ OfCommand(j)
    BY CommandsAskForTheirTarget
  <2> QED BY <1>0, <1>1, <2>1, <2>2
<1>6. ASSUME NEW p \in Processes, ListKeys(p) \/ ListSouls(p)
      PROVE  /\ job' \in [Requests \cup Processes -> Jobs]
             /\ CallsAreAllowed'
  <2>1. PICK to \in {"listSouls", "reply"} :
            job[p].op \in Listing /\ job' = [job EXCEPT ![p].op = to]
    BY <1>6 DEF ListKeys, ListSouls, Advance, Listing
  <2>2. PICK k : k = [job[p] EXCEPT !.op = to]
    OBVIOUS
  <2>3. /\ k \in Jobs /\ k.op = to /\ k.who = job[p].who
        /\ job' = [job EXCEPT ![p] = k]
    BY <1>0, <2>1, <2>2 DEF Jobs, Ops, Listing
  <2>4. Allowed(k) /\ OfCommand(k)
    BY <1>0, <2>1, <2>3 DEF Allowed, OfCommand, Listing
  <2> QED BY <1>0, <1>1, <2>3, <2>4
<1>7. CASE Others
  <2>1. CASE \E s \in SessionIds : Forget(s) \/ \E i \in Identities : Connect(s, i)
    BY <1>3, <2>1 DEF Forget, Connect
  <2>2. CASE \E p \in Processes : ReplyListing(p)
    BY <1>2, <2>2 DEF ReplyListing
  <2>3. CASE \E c \in Requests \cup Processes : Fail(c)
    BY <1>2, <2>3 DEF Fail
  <2> QED BY <1>4, <1>5, <1>6, <1>7, <2>1, <2>2, <2>3 DEF Others
<1>8. CASE \E c \in Requests \cup Processes : Perform(c)
  BY <1>2, <1>8 DEF Perform
<1> QED BY <1>7, <1>8, NextSplit

LEMMA AdvancedCall ==
    ASSUME NEW j \in Jobs, NEW op
    PROVE  LET k == [j EXCEPT !.op = op]
           IN  k.op = op /\ k.who = j.who
BY DEF Jobs

\* What becomes of a listing in one action.
LEMMA ListingStep ==
    ASSUME IInv, Next, NEW p \in Processes
    PROVE  \/ job'[p].op \notin Listing
           \/ /\ job[p].op \notin Listing /\ job'[p].op = "listKeys"
              /\ UNCHANGED subs
           \/ job'[p] = job[p] /\ listed'[p] = listed[p]
           \/ /\ job[p].op = "listKeys" /\ job'[p].op = "listSouls"
              /\ job'[p].who = job[p].who /\ UNCHANGED subs
              /\ listed'[p] = {r \in Owned(job[p].who) : r.scope # SoulScope}
           \/ /\ job[p].op = "listSouls" /\ job'[p].op = "reply"
              /\ job'[p].who = job[p].who /\ UNCHANGED subs
              /\ listed'[p] = listed[p] \cup
                     {r \in Owned(job[p].who) : r.scope = SoulScope}
<1> USE DEF IInv
<1>0. /\ job \in [Requests \cup Processes -> Jobs]
      /\ listed \in [Processes -> SUBSET Rows]
      /\ Requests \cap Processes = {} /\ NoJob.op = "none"
  BY PluginAssumption DEF TypeOK, NoJob, Call
<1>1. ASSUME NEW q \in Processes, ListKeys(q)
      PROVE  \/ job'[p] = job[p] /\ listed'[p] = listed[p]
             \/ /\ job[p].op = "listKeys" /\ job'[p].op = "listSouls"
                /\ job'[p].who = job[p].who /\ UNCHANGED subs
                /\ listed'[p] = {r \in Owned(job[p].who) : r.scope # SoulScope}
  <2>1. /\ job[q].op = "listKeys" /\ UNCHANGED subs
        /\ job' = [job EXCEPT ![q] = [job[q] EXCEPT !.op = "listSouls"]]
        /\ listed' = [listed EXCEPT ![q] =
                          {r \in Owned(job[q].who) : r.scope # SoulScope}]
    BY <1>1 DEF ListKeys, Advance, store
  <2>2. job[q] \in Jobs
    BY <1>0
  <2>3. PICK k : /\ k = [job[q] EXCEPT !.op = "listSouls"]
                 /\ k.op = "listSouls" /\ k.who = job[q].who
    BY <2>2, AdvancedCall
  <2> QED BY <1>0, <2>1, <2>3
<1>2. ASSUME NEW q \in Processes, ListSouls(q)
      PROVE  \/ job'[p] = job[p] /\ listed'[p] = listed[p]
             \/ /\ job[p].op = "listSouls" /\ job'[p].op = "reply"
                /\ job'[p].who = job[p].who /\ UNCHANGED subs
                /\ listed'[p] = listed[p] \cup
                       {r \in Owned(job[p].who) : r.scope = SoulScope}
  <2>1. /\ job[q].op = "listSouls" /\ UNCHANGED subs
        /\ job' = [job EXCEPT ![q] = [job[q] EXCEPT !.op = "reply"]]
        /\ listed' = [listed EXCEPT ![q] = listed[q] \cup
                          {r \in Owned(job[q].who) : r.scope = SoulScope}]
    BY <1>2 DEF ListSouls, Advance, store
  <2>2. job[q] \in Jobs
    BY <1>0
  <2>3. PICK k : /\ k = [job[q] EXCEPT !.op = "reply"]
                 /\ k.op = "reply" /\ k.who = job[q].who
    BY <2>2, AdvancedCall
  <2> QED BY <1>0, <2>1, <2>3
<1>3. ASSUME NEW c \in Requests, Request(c)
      PROVE  job'[p] = job[p] /\ listed'[p] = listed[p]
  BY <1>0, <1>3 DEF Request
<1>4. ASSUME NEW q \in Processes, Run(q)
      PROVE  \/ job'[p] = job[p] /\ listed'[p] = listed[p]
             \/ job'[p].op \notin Listing
             \/ /\ job[p].op \notin Listing /\ job'[p].op = "listKeys"
                /\ UNCHANGED subs
  <2>1. PICK i \in Identities :
            \E j \in CommandCalls(i) : job' = [job EXCEPT ![q] = j]
    BY <1>4 DEF Run
  <2>2. PICK j \in CommandCalls(i) : job' = [job EXCEPT ![q] = j]
    BY <2>1
  <2>3. j.op \notin {"listSouls", "reply"}
    BY CommandsAskForTheirTarget
  <2>4. job[q] = NoJob /\ UNCHANGED <<subs, listed>>
    BY <1>4 DEF Run, store
  <2> QED BY <1>0, <2>2, <2>3, <2>4 DEF Listing
<1>5. ASSUME NEW c \in Requests \cup Processes,
             Perform(c) \/ Fail(c) \/ (c \in Processes /\ ReplyListing(c))
      PROVE  \/ job'[p] = job[p] /\ listed'[p] = listed[p]
             \/ job'[p].op \notin Listing
  <2>1. /\ job' = [job EXCEPT ![c] = NoJob]
        /\ p # c => listed'[p] = listed[p]
    BY <1>0, <1>5 DEF Perform, Fail, ReplyListing
  <2> QED BY <1>0, <2>1 DEF Listing
<1>6. CASE \E s \in SessionIds : Forget(s) \/ \E i \in Identities : Connect(s, i)
  BY <1>6 DEF Forget, Connect
<1> QED BY <1>1, <1>2, <1>3, <1>4, <1>5, <1>6, NextSplit DEF Others

LEMMA ListingPart ==
    ASSUME IInv, Next
    PROVE  ListingsAreHalfDone' /\ ListingIsBetween'
<1> DEFINE own(p) == {r \in Rows : r.who = job[p].who /\ subs[r] # "absent"}
           ownNow(p) == {r \in Rows : r.who = job'[p].who /\ subs'[r] # "absent"}
           keys(R) == {r \in R : r.scope # SoulScope}
           wholes(R) == {r \in R : r.scope = SoulScope}
<1>1. ASSUME NEW p \in Processes, job'[p].op \in Listing
      PROVE  /\ steady'[p] \subseteq ownNow(p) /\ ownNow(p) \subseteq ever'[p]
             /\ job'[p].op = "listSouls" =>
                    keys(steady'[p]) \subseteq listed'[p] /\ listed'[p] \subseteq ever'[p]
             /\ job'[p].op = "reply" =>
                    steady'[p] \subseteq listed'[p] /\ listed'[p] \subseteq ever'[p]
  <2>1. CASE /\ job[p].op \notin Listing /\ job'[p].op = "listKeys"
             /\ UNCHANGED subs
    <3>1. /\ steady'[p] = Owned(job'[p].who) /\ ever'[p] = Owned(job'[p].who)
      BY <1>1, <2>1, NextSplit DEF Observe
    <3>2. Owned(job'[p].who) = ownNow(p)
      BY <2>1 DEF Owned, Store!Present
    <3> QED BY <2>1, <3>1, <3>2
  <2>2. ASSUME job[p].op \in Listing, job'[p].who = job[p].who
        PROVE  /\ steady'[p] = steady[p] \cap ownNow(p)
               /\ ever'[p] = ever[p] \cup ownNow(p)
               /\ steady[p] \subseteq own(p) /\ own(p) \subseteq ever[p]
               /\ job[p].op = "listSouls" =>
                      keys(steady[p]) \subseteq listed[p] /\ listed[p] \subseteq ever[p]
               /\ job[p].op = "reply" =>
                      steady[p] \subseteq listed[p] /\ listed[p] \subseteq ever[p]
    <3>1. /\ steady'[p] = steady[p] \cap Owned(job[p].who)'
          /\ ever'[p] = ever[p] \cup Owned(job[p].who)'
      BY <1>1, <2>2, NextSplit DEF Observe
    <3>2. Owned(job[p].who)' = ownNow(p) /\ Owned(job[p].who) = own(p)
      BY DEF Owned, Store!Present
    <3> QED BY <2>2, <3>1, <3>2 DEF IInv, ListingsAreHalfDone, ListingIsBetween
  <2>3. CASE job'[p] = job[p] /\ listed'[p] = listed[p]
    BY <1>1, <2>2, <2>3 DEF Listing
  <2>4. CASE /\ job[p].op = "listKeys" /\ job'[p].op = "listSouls"
             /\ job'[p].who = job[p].who /\ UNCHANGED subs
             /\ listed'[p] = {r \in Owned(job[p].who) : r.scope # SoulScope}
    <3>1. listed'[p] = keys(own(p)) /\ own(p) = ownNow(p)
      BY <2>4 DEF Owned, Store!Present
    <3> QED BY <2>2, <2>4, <3>1 DEF Listing
  <2>5. CASE /\ job[p].op = "listSouls" /\ job'[p].op = "reply"
             /\ job'[p].who = job[p].who /\ UNCHANGED subs
             /\ listed'[p] = listed[p] \cup
                    {r \in Owned(job[p].who) : r.scope = SoulScope}
    <3>1. listed'[p] = listed[p] \cup wholes(own(p)) /\ own(p) = ownNow(p)
      BY <2>5 DEF Owned, Store!Present
    <3> QED BY <2>2, <2>5, <3>1 DEF Listing
  <2> QED BY <1>1, <2>1, <2>3, <2>4, <2>5, ListingStep
<1>2. ASSUME NEW p \in Processes
      PROVE  Owned(job[p].who)' = ownNow(p)
  BY DEF Owned, Store!Present
<1>3. ListingsAreHalfDone'
  BY <1>1, <1>2 DEF ListingsAreHalfDone, Listing
<1>4. ListingIsBetween'
  BY <1>1 DEF ListingIsBetween, Listing
<1> QED BY <1>3, <1>4

LEMMA IdentityPart ==
    ASSUME IInv, Next
    PROVE  identity' \in [SessionIds -> Optional(Known)]
<1>1. identity \in [SessionIds -> Optional(Known)]
  BY DEF IInv, TypeOK
<1>2. \/ identity' = identity
      \/ \E s \in SessionIds, i \in Optional(Known) :
             identity' = [identity EXCEPT ![s] = i]
  BY DEF Next, Forget, Connect, Request, Run, ListKeys, ListSouls, Advance,
         ReplyListing, Perform, Fail, Optional
<1> QED BY <1>1, <1>2

LEMMA ListingTypes ==
    ASSUME IInv, Next
    PROVE  /\ listed' \in [Processes -> SUBSET Rows]
           /\ steady' \in [Processes -> SUBSET Rows]
           /\ ever' \in [Processes -> SUBSET Rows]
<1>1. /\ listed \in [Processes -> SUBSET Rows]
      /\ steady \in [Processes -> SUBSET Rows]
      /\ ever \in [Processes -> SUBSET Rows]
  BY DEF IInv, TypeOK
<1>2. ASSUME NEW p \in Processes
      PROVE  Owned(job[p].who)' \subseteq Rows /\ Owned(job'[p].who) \subseteq Rows
             /\ Owned(job[p].who) \subseteq Rows
  BY DEF Owned, Rows, Store!Rows, Store!Scopes
<1>3. steady' \in [Processes -> SUBSET Rows] /\ ever' \in [Processes -> SUBSET Rows]
  BY <1>1, <1>2, NextSplit DEF Observe
<1>4. listed' \in [Processes -> SUBSET Rows]
  <2>1. \/ listed' = listed
        \/ \E p \in Processes, R \in SUBSET Rows : listed' = [listed EXCEPT ![p] = R]
        \/ \E c \in Requests \cup Processes :
               listed' = [p \in Processes |-> IF p = c THEN {} ELSE listed[p]]
    <3>1. CASE \E c \in Requests \cup Processes : Fail(c)
      BY <3>1 DEF Fail
    <3>2. ASSUME NEW p \in Processes, ListKeys(p) \/ ListSouls(p) \/ ReplyListing(p)
          PROVE  \E R \in SUBSET Rows : listed' = [listed EXCEPT ![p] = R]
      BY <3>2, <1>1, <1>2 DEF ListKeys, ListSouls, ReplyListing
    <3>3. ASSUME ~ \E c \in Requests \cup Processes : Fail(c),
                 ~ \E p \in Processes : ListKeys(p) \/ ListSouls(p) \/ ReplyListing(p)
          PROVE  listed' = listed
      BY <3>3 DEF Next, Forget, Connect, Request, Run, Perform
    <3> QED BY <3>1, <3>2, <3>3
  <2> QED BY <1>1, <2>1
<1> QED BY <1>3, <1>4

LEMMA InitEstablishesIInv == Init => IInv
<1> SUFFICES ASSUME Init PROVE IInv
  OBVIOUS
<1>1. /\ souls = [s \in Store!Cells |-> Absent] /\ young = {} /\ asked = {}
      /\ subs = [r \in Rows |-> "absent"]
      /\ job = [c \in Requests \cup Processes |-> NoJob]
  BY DEF Init, Store!Init, Rows
<1>2. CallsAreAllowed
  BY <1>1, CallsAreAllowedSplit, NoJobIsAllowed
<1>3. \A c \in Requests \cup Processes : job[c].op = "none"
  BY <1>1 DEF NoJob, Call
<1>4. TypeOK
  BY <1>1, <1>3, NoJobIsAllowed DEF Init, TypeOK, Optional
<1>5. SubscribedAsAsked
  <2> QED BY <1>1, EntryIsARow DEF Init, SubscribedAsAsked, Store!Present
<1>6. ListingsAreHalfDone /\ ListingIsBetween
  BY <1>3 DEF ListingsAreHalfDone, ListingIsBetween, Listing
<1> QED BY <1>2, <1>4, <1>5, <1>6 DEF IInv

LEMMA NextKeepsIInv ==
    ASSUME IInv, Next
    PROVE  IInv'
<1>1. /\ souls' \in [Store!Cells -> Values \cup {Absent}]
      /\ subs' \in [Rows -> {"absent", "read", "unread"}]
      /\ young' \in SUBSET Rows /\ asked' \in SUBSET (Entities \X Topics)
      /\ SubscribedAsAsked'
  BY StorePart DEF StoreTyped
<1>2. /\ job' \in [Requests \cup Processes -> Jobs]
      /\ CallsAreAllowed'
  BY JobPart
<1>3. \A c \in Requests \cup Processes :
          job'[c].op \in {"write", "read"} => job'[c].target # None
  BY <1>2, PluginAssumption, RowSets DEF CallsAreAllowed
<1>4. TypeOK'
  BY <1>1, <1>2, <1>3, IdentityPart, ListingTypes DEF TypeOK
<1> QED BY <1>1, <1>2, <1>4, ListingPart DEF IInv

\* The invariant behind the theorems below.
THEOREM Invariance == Spec => []IInv
<1>1. IInv /\ [Next]_vars => IInv'
  <2>1. ASSUME IInv, UNCHANGED vars
        PROVE  IInv'
    BY <2>1 DEF vars, store, history, IInv, TypeOK, CallsAreAllowed,
       SubscribedAsAsked, ListingsAreHalfDone, ListingIsBetween, Owned,
       Store!Present
  <2> QED BY <2>1, NextKeepsIInv
<1> QED BY <1>1, InitEstablishesIInv, PTL DEF Spec

\* Every variable keeps its type; in particular a call that writes has a
\* target, and a session that is recorded has both of its identities.
THEOREM TypeCorrectness == Spec => []TypeOK
BY Invariance, PTL DEF IInv

\* For any set of instances, whoever subscribes one with whatever selector of
\* whatever strings, its session owns the subscription, and no row belongs to a
\* hierarchy for which nobody wants it.
THEOREM SubscriptionsHaveTheirOwner == Spec => []SubscribedAsAsked
BY Invariance, PTL DEF IInv

\* Where names have no "/", an instance is subscribed to just what it has been
\* asked to be: then no two instances share a hierarchy.
THEOREM OneSegmentOwners ==
    ASSUME \A e \in Entities : Len(e.name) = 1
    PROVE  Spec => [](\A e \in Entities, t \in Topics :
                          Store!Present(Entry(e, t)) <=> <<e, t>> \in asked)
<1>1. \A e \in Entities : Namesakes(e) = {}
  BY OneSegmentIsUnambiguous
<1>2. SubscribedAsAsked =>
          \A e \in Entities, t \in Topics :
              Store!Present(Entry(e, t)) <=> <<e, t>> \in asked
  BY <1>1 DEF SubscribedAsAsked
<1> QED BY SubscriptionsHaveTheirOwner, <1>2, PTL

\* The two SELECTs of `subscriptions` together miss no subscription that was
\* there all the time.
THEOREM ListingsHold == Spec => []ListingIsBetween
BY Invariance, PTL DEF IInv

-----------------------------------------------------------------------------
(* What an action may never do.                                            *)

\* A call that is in flight goes on as it is, or ends.
LEMMA RequestStep ==
    ASSUME IInv, Next, NEW c \in Requests, job'[c] # job[c]
    PROVE  \/ Request(c) /\ job[c] = NoJob
           \/ Perform(c)
           \/ UNCHANGED <<souls, subs>>
<1>1. /\ job \in [Requests \cup Processes -> Jobs]
      /\ Requests \cap Processes = {}
  BY PluginAssumption DEF IInv, TypeOK
<1>2. CASE Others
  BY <1>2, OthersKeepTheStore
<1>3. ASSUME NEW d \in Requests \cup Processes, Perform(d)
      PROVE  d = c
  BY <1>1, <1>3 DEF Perform
<1> QED BY <1>2, <1>3, NextSplit

\* A tool call that ends has written only for the identity it began under,
\* though its session may since have been recorded as another.
THEOREM ToolsAreTheirSessions == Spec => ToolsActForTheirSession
<1>1. ASSUME IInv, Next, NEW c \in Requests, job[c] # NoJob, job'[c] = NoJob
      PROVE  /\ \A s \in Store!Cells :
                    souls'[s] # souls[s] => s[1] = job[c].by.full
             /\ \A r \in Rows :
                    subs'[r] # subs[r] /\ r.who # Path(job[c].by.self)
                        => subs[r] = "read" /\ subs'[r] = "unread"
  <2>1. CASE Perform(c)
    <3>1. PICK j : j = job[c]
      OBVIOUS
    <3>2. /\ RowsChangeFor(j)
          /\ \A s \in Store!Cells :
                 souls'[s] # souls[s] => j.op = "write" /\ s[1] = j.target
      BY <1>1, <2>1, <3>1, PerformEffect
    <3>3. OfTool(j) /\ j.op # "none"
      BY <1>1, <2>1, <3>1, CallsAreAllowedSplit
         DEF IInv, Perform, Write, Read, Take, AddSubscription, RemoveSubscription
    <3> QED BY <3>1, <3>2, <3>3 DEF OfTool, RowsChangeFor
  <2> QED BY <1>1, <2>1, RequestStep DEF Request
<1>2. IInv /\ [Next]_vars =>
        [\A c \in Requests : job[c] # NoJob /\ job'[c] = NoJob =>
          /\ \A s \in Store!Cells :
                 souls'[s] # souls[s] => s[1] = job[c].by.full
          /\ \A r \in Rows :
                 subs'[r] # subs[r] /\ r.who # Path(job[c].by.self)
                     => subs[r] = "read" /\ subs'[r] = "unread"]_vars
  BY <1>1
<1> QED BY <1>2, Invariance, PTL DEF Spec, ToolsActForTheirSession

\* No command of the command line resolves a notification, nor does any tool
\* of another instance, even one with the same full id.
THEOREM OnlyToolsDo == Spec => OnlyToolsResolve
<1>1. ASSUME IInv, Next, NEW r \in Rows, subs[r] = "unread", subs'[r] = "read"
      PROVE  \E c \in Requests : /\ job[c].op \in {"read", "take"}
                                /\ job[c].by # None
                                /\ r.who = Path(job[c].by.self)
  <2>1. PICK c \in Requests \cup Processes : Perform(c)
    BY <1>1, NextSplit, OthersKeepTheStore
  <2>2. PICK j : j = job[c]
    OBVIOUS
  <2>3. j.op \in {"read", "take"} /\ r.who = j.who
    BY <1>1, <2>1, <2>2, PerformEffect DEF RowsChangeFor
  <2>4. r.who # None
    BY PluginAssumption, RowSets
  <2>5. c \in Requests /\ OfTool(j)
    BY <1>1, <2>2, <2>3, <2>4, CallsAreAllowedSplit DEF IInv, OfCommand
  <2>6. j.by \in Known /\ j.who = Path(j.by.self)
    BY <2>3, <2>5 DEF OfTool
  <2>7. None \notin Known
    BY EntityAssumption, PluginAssumption DEF Known, Optional
  <2> QED BY <2>2, <2>3, <2>5, <2>6, <2>7
<1>2. IInv /\ [Next]_vars =>
        [\A r \in Rows : subs[r] = "unread" /\ subs'[r] = "read" =>
          \E c \in Requests : /\ job[c].op \in {"read", "take"}
                              /\ job[c].by # None
                              /\ r.who = Path(job[c].by.self)]_vars
  BY <1>1
<1> QED BY <1>2, Invariance, PTL DEF Spec, OnlyToolsResolve

\* A batch is within its count and the cap, a count of 0 giving an empty one.
THEOREM BatchesAreWithinCount == Spec => BatchWithinCount
<1>1. ASSUME IInv, Next, NEW c \in Requests, job[c].op = "take", job'[c] = NoJob
      PROVE  /\ Cardinality(Taken) <= Cap
             /\ job[c].count # None => Cardinality(Taken) <= job[c].count
  <2>1. PICK j : j = job[c] /\ j \in Jobs /\ j.op = "take" /\ Allowed(j)
    BY <1>1, CallsAreAllowedSplit DEF IInv, TypeOK
  <2>2. j # NoJob /\ StoreTyped
    BY <1>1, <2>1, TypeIsStoreTyped DEF NoJob, Call, IInv
  <2>3. CASE Perform(c)
    <3>1. Take(job[c])
      BY <2>1, <2>3 DEF Perform, Write, Read, AddSubscription, RemoveSubscription
    <3> QED BY <2>1, <2>2, <3>1, TakeEffect
  <2>4. CASE UNCHANGED <<souls, subs>>
    <3>1. Taken = {} /\ Cardinality(Taken) = 0
      BY <2>4, FS_EmptySet DEF Taken
    <3>2. Cap \in Nat /\ (j.count # None => j.count \in Nat)
      BY <2>1, PluginAssumption DEF Jobs, Optional
    <3> QED BY <2>1, <3>1, <3>2
  <2> QED BY <1>1, <2>1, <2>2, <2>3, <2>4, RequestStep
<1>2. IInv /\ [Next]_vars =>
        [\A c \in Requests : job[c].op = "take" /\ job'[c] = NoJob =>
          LET taken == {r \in Rows : subs[r] = "unread" /\ subs'[r] = "read"}
          IN  /\ Cardinality(taken) <= Cap
              /\ job[c].count # None => Cardinality(taken) <= job[c].count]_vars
  BY <1>1 DEF Taken
<1> QED BY <1>2, Invariance, PTL DEF Spec, BatchWithinCount

-----------------------------------------------------------------------------
(* Tools and commands, whatever identities, selectors and counts they are  *)
(* given, call the store within what SoulBoard, and so SoulStore, promises *)
(* for: of agents, keys, subscribers and limits there are.                 *)

LEMMA LimitIsWithinCap ==
    ASSUME NEW n \in Optional(Counts)
    PROVE  Limit(n) \in 0 .. Cap
<1>1. CASE n = None
  BY <1>1, PluginAssumption DEF Limit
<1>2. CASE n \in Counts
  BY <1>2, PluginAssumption DEF Limit
<1> QED BY <1>1, <1>2 DEF Optional

LEMMA PerformIsOfTheStore ==
    ASSUME IInv, NEW c \in Requests \cup Processes, Perform(c)
    PROVE  Store!Next \/ UNCHANGED store
<1>1. PICK j \in Jobs : j = job[c] /\ Allowed(j)
  BY CallsAreAllowedSplit DEF IInv, TypeOK
<1>2. CASE Write(job[c])
  <2>1. /\ <<j.target, j.scope>> \in Agents \X Keys
        /\ j.value \in Values \cup {Absent}
    BY <1>1, <1>2, RowSets DEF Write, Allowed, Jobs
  <2>2. j.target \in Agents /\ j.scope \in Keys
    BY <2>1
  <2>3. CASE Keep
    BY <2>3 DEF Keep
  <2>4. CASE Store!Write(j.target, j.scope, j.value)
    BY <2>1, <2>2, <2>4 DEF Store!Next
  <2> QED BY <1>1, <1>2, <2>3, <2>4 DEF Write
<1>3. CASE Read(job[c])
  <2>1. CASE Keep
    BY <2>1 DEF Keep
  <2>2. CASE j.who # None /\ Store!Read(Row(j))
    <3>1. Row(j) \in Rows
      BY <1>1, <1>3, <2>2, RowIsARow DEF Read, Allowed, Jobs, Optional
    <3> QED BY <2>2, <3>1 DEF Store!Next, Rows
  <2> QED BY <1>1, <1>3, <2>1, <2>2 DEF Read
<1>4. CASE Take(job[c])
  <2>1. j.who \in Paths /\ j.count \in Optional(Counts)
    BY <1>1, <1>4 DEF Take, Allowed, Jobs
  <2>2. Limit(j.count) \in 0 .. Cap
    BY <2>1, LimitIsWithinCap
  <2>3. Store!Take(j.who, Limit(j.count))
    BY <1>1, <1>4 DEF Take
  <2>4. \E s \in Paths, n \in 0 .. Cap : Store!Take(s, n)
    <3> HIDE DEF Store!Take
    <3> QED BY <2>1, <2>2, <2>3
  <2> QED BY <2>4 DEF Store!Next
<1>5. CASE AddSubscription(job[c]) \/ RemoveSubscription(job[c])
  <2>1. j.op \in {"subscribe", "unsubscribe"}
    BY <1>1, <1>5 DEF AddSubscription, RemoveSubscription
  <2>2. Row(j) \in Rows
    <3>1. j.for \in Entities /\ <<j.target, j.scope>> \in Topics
      BY <1>1, <2>1 DEF Allowed
    <3> QED BY <1>1, <2>1, <3>1, WishIsRow
  <2> QED BY <1>1, <1>5, <2>2
          DEF AddSubscription, RemoveSubscription, Store!Next, Rows
<1> QED BY <1>2, <1>3, <1>4, <1>5 DEF Perform

\* The store that tools and commands share is the board, under any sequence
\* of sessions, tool calls and commands.
THEOREM StoreIsUsedAsPromised == Spec => Store!Spec
<1>1. Init => Store!Init
  BY DEF Init
<1>2. IInv /\ [Next]_vars => [Store!Next]_(Store!vars)
  <2> SUFFICES ASSUME IInv, [Next]_vars
               PROVE  Store!Next \/ UNCHANGED Store!vars
    OBVIOUS
  <2>1. CASE UNCHANGED vars
    BY <2>1 DEF vars, store, Store!vars
  <2>2. ASSUME NEW c \in Requests \cup Processes, Perform(c)
        PROVE  Store!Next \/ UNCHANGED Store!vars
    BY <2>2, PerformIsOfTheStore DEF store, Store!vars
  <2>3. CASE Others
    BY <2>3, OthersKeepTheStore DEF Store!vars
  <2> QED BY <2>1, <2>2, <2>3, NextSplit
<1> QED BY <1>1, <1>2, Invariance, PTL DEF Spec, Store!Spec
=============================================================================
