------------------------------- MODULE Plugin -------------------------------
(***************************************************************************)
(* How tool calls (src/src/mcp/tools.rs) and commands (src/src/command,    *)
(* src/src/context.rs) become calls of the soul store: whose soul, whose   *)
(* subscriptions, which reader and which limit.  The store is SoulBoard,   *)
(* which SoulStore implements.                                             *)
(***************************************************************************)
EXTENDS Integers, FiniteSets, Sequences

CONSTANTS
    Agents, Keys, Values, SoulScope, Absent, \* as in SoulStore
    None,       \* an argument, header or variable that is not given
    Entities,   \* bound: agent instances, by their parent's hierarchy and their
                \* name, that there are or that a selector makes up
    Default,    \* the instance of a process whose environment names none
    Identities, \* what headers and environments say: a full id, an instance
    Counts,     \* the counts that notifications is asked for
    Cap,        \* the largest batch, 10 in the code
    SessionIds, \* the sessions of the MCP server
    Requests,   \* bound: tool calls in flight
    Processes,  \* bound: command line processes
    Watchable,  \* bound: who subscribes to what
    Missable    \* bound: the subscriptions that an open write may miss

(***************************************************************************)
(* A hierarchy, a parent and a name are strings, here the sequences of     *)
(* their segments between "/".  A name may be of several: the code accepts *)
(* any string, and two instances may then share a hierarchy.               *)
(***************************************************************************)
Path(e)  == e.parent \o e.name
Paths    == {Path(e) : e \in Entities}
Parents  == {e.parent : e \in Entities} \ {<<>>} \* joining "" gives "/name"
Names    == {e.name : e \in Entities}
Optional(S) == S \cup {None}

ASSUME EntityAssumption ==
    /\ \A e \in Entities : /\ e = [parent |-> e.parent, name |-> e.name]
                           /\ e.parent \in Seq(STRING)
                           /\ e.name \in Seq(STRING) \ {<<>>}
    /\ Default \in Entities
    /\ Identities \subseteq [full : Optional(Agents), self : Optional(Entities)]

ASSUME PluginAssumption ==
    /\ None \notin Agents /\ None \notin Entities /\ None \notin Nat
    /\ None \notin Paths \cup Names \cup Parents
    /\ None \notin [full : Agents, self : Entities]
    /\ SoulScope \notin Keys
    /\ Absent \notin Values
    /\ Cap \in Nat /\ Counts \subseteq Nat
    /\ Requests \cap Processes = {}
    /\ IsFiniteSet([who : Paths, target : Agents, scope : Keys \cup {SoulScope}])

VARIABLES
    souls, subs, young, \* the store's
    identity, \* SessionRegistry: the identity pinned to each session, or None
    job,      \* the call of the store each request and process is making
    listed    \* what `subscriptions` has found so far

(***************************************************************************)
(* History, which no guard reads.                                          *)
(***************************************************************************)
VARIABLES
    asked,  \* what each instance is to be subscribed to
    steady, \* rows that were there all the time since a listing began
    ever    \* rows that were there at some time since a listing began

store   == <<souls, subs, young>>
history == <<asked, steady, ever>>
vars    == <<store, identity, job, listed, history>>

Store == INSTANCE SoulBoard WITH Subscribers <- Paths, Limits <- 0 .. Cap

Scopes == Store!Scopes
Rows   == Store!Rows
Topics == Agents \X Scopes
Known  == {i \in Identities : i.full # None /\ i.self # None}

Call(op, who, target, scope) ==
    [op |-> op, who |-> who, target |-> target, scope |-> scope,
     value |-> Absent, count |-> None,
     by |-> None,  \* history: the identity a tool call is made under
     for |-> None] \* history: the instance a subscription is meant for

NoJob == Call("none", None, None, SoulScope)

Listing == {"listKeys", "listSouls", "reply"}
Ops     == {"none", "write", "read", "take", "subscribe", "unsubscribe"}
           \cup Listing

Jobs == [op : Ops, who : Optional(Paths), target : Optional(Agents),
         scope : Scopes, value : Values \cup {Absent}, count : Optional(Counts),
         by : Optional(Known), for : Optional(Entities)]

TypeOK ==
    /\ souls \in [Store!Cells -> Values \cup {Absent}]
    /\ subs \in [Rows -> {"absent", "read", "unread"}]
    /\ young \in SUBSET Rows
    /\ identity \in [SessionIds -> Optional(Known)]
    /\ job \in [Requests \cup Processes -> Jobs]
    /\ \A c \in Requests \cup Processes :
           job[c].op \in {"write", "read"} => job[c].target # None
    /\ listed \in [Processes -> SUBSET Rows]
    /\ asked \in SUBSET (Entities \X Topics)
    /\ steady \in [Processes -> SUBSET Rows]
    /\ ever \in [Processes -> SUBSET Rows]

Init ==
    /\ Store!Init
    /\ identity = [s \in SessionIds |-> None]
    /\ job = [c \in Requests \cup Processes |-> NoJob]
    /\ listed = [p \in Processes |-> {}]
    /\ asked = {}
    /\ steady = [p \in Processes |-> {}]
    /\ ever = [p \in Processes |-> {}]

-----------------------------------------------------------------------------
(* What each tool asks of the store, under the identity i of its session.  *)

Given(arg, own) == IF arg = None THEN own ELSE arg

\* get and list: anyone's soul, for the session's own subscription.
ToolReads(i) == {Call("read", Path(i.self), Given(a, i.full), x) :
                     a \in Optional(Agents), x \in Scopes}

\* Mutant of ToolWrites: the owner is an argument, as on the command line.
ToolWritesAnywhere(i) ==
    {[Call("write", None, a, k) EXCEPT !.value = v] :
         a \in Agents, k \in Keys, v \in Values \cup {Absent}}

\* set and delete: the session's own soul only.
ToolWrites(i) == {[Call("write", None, i.full, k) EXCEPT !.value = v] :
                      k \in Keys, v \in Values \cup {Absent}}

\* subscribe_key, subscribe_soul, unsubscribe_key, unsubscribe_soul.
ToolSubscriptions(i) ==
    {[Call(op, Path(i.self), t[1], t[2]) EXCEPT !.for = i.self] :
         op \in {"subscribe", "unsubscribe"}, t \in Topics}

\* Mutant of Limit: the cap is the least, not the most.
LimitAtLeast(n) == IF n # None /\ n > Cap THEN n ELSE Cap

\* count.unwrap_or(10).min(10): a count of 0 is let through.
Limit(n) == IF n # None /\ n < Cap THEN n ELSE Cap

\* notifications.
ToolTakes(i) == {[Call("take", Path(i.self), None, SoulScope) EXCEPT !.count = n]
                     : n \in Optional(Counts)}

ToolCalls(i) ==
    ToolReads(i) \cup ToolWrites(i) \cup ToolSubscriptions(i) \cup ToolTakes(i)

-----------------------------------------------------------------------------
(* What each command asks of the store, in a process whose environment     *)
(* says i.                                                                 *)

\* The instance hierarchy of the environment, or the default.
Caller(i) == Given(i.self, Default)

\* agent_full_id: the argument or the environment's; neither is an error.
Targets(i) == {Given(a, i.full) : a \in Optional(Agents)} \ {None}

\* Mutant of Owner: of a parent and a name the parent alone is used.
OwnerNameless(i, name, parent) ==
    CASE name = None -> Path(Caller(i))
      [] name # None /\ parent = None -> Path(Caller(i)) \o name
      [] name # None /\ parent # None -> parent

\* agent_instance_hierarchy.
Owner(i, name, parent) ==
    CASE name = None -> Path(Caller(i))
      [] name # None /\ parent = None -> Path(Caller(i)) \o name
      [] name # None /\ parent # None -> parent \o name

\* History: the instance that the selector means.
Meant(i, name, parent) ==
    IF name = None THEN Caller(i)
    ELSE [parent |-> Given(parent, Path(Caller(i))), name |-> name]

\* The selectors clap accepts, of whatever strings, that make one of Entities.
Selectors(i) ==
    {s \in Optional(Names) \X Optional(Parents) :
         /\ s[2] # None => s[1] # None
         /\ Meant(i, s[1], s[2]) \in Entities}

\* Mutant of Get: the command line reads as the caller.
GetAsCaller(i) ==
    {Call("read", Path(Caller(i)), a, k) : a \in Targets(i), k \in Keys}

Get(i)    == {Call("read", None, a, k) : a \in Targets(i), k \in Keys}
List(i)   == {Call("read", None, a, SoulScope) : a \in Targets(i)}
Set(i)    == {[Call("write", None, a, k) EXCEPT !.value = v] :
                  a \in Targets(i), k \in Keys, v \in Values}
Delete(i) == {Call("write", None, a, k) : a \in Targets(i), k \in Keys}

\* SubscriptionArgs::resolve.
Resolve(i, op) ==
    {[Call(op, Owner(i, s[1], s[2]), t[1], t[2])
         EXCEPT !.for = Meant(i, s[1], s[2])] :
         s \in Selectors(i), t \in Topics}

Subscribe(i)     == Resolve(i, "subscribe")
Unsubscribe(i)   == Resolve(i, "unsubscribe")
Subscriptions(i) == {Call("listKeys", Owner(i, s[1], s[2]), None, SoulScope) :
                         s \in Selectors(i)}

CommandCalls(i) ==
    Get(i) \cup List(i) \cup Set(i) \cup Delete(i)
    \cup Subscribe(i) \cup Unsubscribe(i) \cup Subscriptions(i)

-----------------------------------------------------------------------------

Wish(j) == <<j.for, <<j.target, j.scope>>>>

\* Within the bound on subscriptions.
Bounded(j) == j.op \in {"subscribe", "unsubscribe"} => Wish(j) \in Watchable

\* Mutant of Connect: a header may be missing.
ConnectAnyone(s, i) ==
    /\ identity' = [identity EXCEPT ![s] = i]
    /\ UNCHANGED <<store, job, listed, asked>>

\* A session is recorded, or recorded anew, with both of its headers.
Connect(s, i) ==
    /\ i \in Known
    /\ identity' = [identity EXCEPT ![s] = i]
    /\ UNCHANGED <<store, job, listed, asked>>

\* A session is closed, or the server restarted.
Forget(s) ==
    /\ identity[s] # None
    /\ identity' = [identity EXCEPT ![s] = None]
    /\ UNCHANGED <<store, job, listed, asked>>

\* resolve_session: the call keeps the identity it found.
Request(c) ==
    /\ job[c] = NoJob
    /\ \E s \in SessionIds :
           /\ identity[s] # None
           /\ \E j \in ToolCalls(identity[s]) :
                  /\ Bounded(j)
                  /\ job' = [job EXCEPT ![c] = [j EXCEPT !.by = identity[s]]]
    /\ UNCHANGED <<store, identity, listed, asked>>

Run(p) ==
    /\ job[p] = NoJob
    /\ \E i \in Identities :
           \E j \in CommandCalls(i) :
               Bounded(j) /\ job' = [job EXCEPT ![p] = j]
    /\ UNCHANGED <<store, identity, listed, asked>>

Row(j)  == [who |-> j.who, target |-> j.target, scope |-> j.scope]
Keep    == UNCHANGED <<store, asked>>

\* The call of the store that a job is.
Write(j) ==
    /\ j.op = "write"
    /\ IF j.value = Absent /\ souls[<<j.target, j.scope>>] = Absent THEN Keep
       ELSE Store!Write(j.target, j.scope, j.value) /\ UNCHANGED asked

Read(j) ==
    /\ j.op = "read"
    /\ IF j.who = None THEN Keep ELSE Store!Read(Row(j)) /\ UNCHANGED asked

Take(j) ==
    /\ j.op = "take"
    /\ Store!Take(j.who, Limit(j.count))
    /\ UNCHANGED asked

AddSubscription(j) ==
    /\ j.op = "subscribe"
    /\ Store!Subscribe(Row(j))
    /\ asked' = asked \cup {Wish(j)}

RemoveSubscription(j) ==
    /\ j.op = "unsubscribe"
    /\ Store!Unsubscribe(Row(j))
    /\ asked' = asked \ {Wish(j)}

\* The store fails before it commits anything, or the caller is gone.
Fail(c) ==
    /\ job[c] # NoJob
    /\ job' = [job EXCEPT ![c] = NoJob]
    /\ listed' = [p \in Processes |-> IF p = c THEN {} ELSE listed[p]]
    /\ UNCHANGED <<store, identity, asked>>

Perform(c) ==
    /\ \/ Write(job[c]) \/ Read(job[c]) \/ Take(job[c])
       \/ AddSubscription(job[c]) \/ RemoveSubscription(job[c])
    /\ young' \subseteq Missable
    /\ job' = [job EXCEPT ![c] = NoJob]
    /\ UNCHANGED <<identity, listed>>

-----------------------------------------------------------------------------
(* subscriptions: two SELECTs, outside any transaction, and the reply.     *)

Owned(s) == {r \in Rows : r.who = s /\ Store!Present(r)}

Advance(p, from, to) ==
    /\ job[p].op = from
    /\ job' = [job EXCEPT ![p].op = to]
    /\ UNCHANGED <<store, identity, asked>>

ListKeys(p) ==
    /\ Advance(p, "listKeys", "listSouls")
    /\ listed' = [listed EXCEPT ![p] =
                     {r \in Owned(job[p].who) : r.scope # SoulScope}]

\* Mutant of ListSouls: the rows of the first table are lost.
ListSoulsOnly(p) ==
    /\ Advance(p, "listSouls", "reply")
    /\ listed' = [listed EXCEPT ![p] =
                     {r \in Owned(job[p].who) : r.scope = SoulScope}]

ListSouls(p) ==
    /\ Advance(p, "listSouls", "reply")
    /\ listed' = [listed EXCEPT ![p] =
                     @ \cup {r \in Owned(job[p].who) : r.scope = SoulScope}]

ReplyListing(p) ==
    /\ job[p].op = "reply"
    /\ job' = [job EXCEPT ![p] = NoJob]
    /\ listed' = [listed EXCEPT ![p] = {}]
    /\ UNCHANGED <<store, identity, asked>>

\* History: what each listing could have seen.
Observe ==
    /\ steady' = [p \in Processes |->
                     IF job'[p].op \notin Listing THEN {}
                     ELSE IF job[p].op \in Listing
                          THEN steady[p] \cap Owned(job[p].who)'
                          ELSE Owned(job'[p].who)]
    /\ ever' = [p \in Processes |->
                   IF job'[p].op \notin Listing THEN {}
                   ELSE IF job[p].op \in Listing
                        THEN ever[p] \cup Owned(job[p].who)'
                        ELSE Owned(job'[p].who)]

Next ==
    /\ \/ \E s \in SessionIds : Forget(s) \/ \E i \in Identities : Connect(s, i)
       \/ \E c \in Requests : Request(c)
       \/ \E p \in Processes :
              Run(p) \/ ListKeys(p) \/ ListSouls(p) \/ ReplyListing(p)
       \/ \E c \in Requests \cup Processes : Perform(c) \/ Fail(c)
    /\ Observe

Spec == Init /\ [][Next]_vars

-----------------------------------------------------------------------------
(* Properties *)

\* The row of a subscription of the instance e, and the other instances whose
\* rows those are too.
Entry(e, t)  == [who |-> Path(e), target |-> t[1], scope |-> t[2]]
Namesakes(e) == {d \in Entities \ {e} : Path(d) = Path(e)}

\* Whoever subscribes an instance, the instance itself over MCP or another
\* with a selector on the command line, it is the session of that instance
\* that owns the subscription: a session owns none that nobody wants for an
\* instance of its hierarchy, and no one else's request removes one, unless
\* names with a "/" give two instances one hierarchy.
SubscribedAsAsked ==
    \A e \in Entities, t \in Topics :
        /\ Store!Present(Entry(e, t)) =>
               \E d \in Namesakes(e) \cup {e} : <<d, t>> \in asked
        /\ <<e, t>> \in asked /\ Namesakes(e) = {} => Store!Present(Entry(e, t))

\* Each call in flight is one its caller may make.
CallsAreAllowed ==
    \A c \in Requests \cup Processes :
        LET j == job[c]
        IN  /\ j.op = "write" => <<j.target, j.scope>> \in Store!Cells
            /\ j.op = "read" => j.target \in Agents
            /\ j.op \in {"take"} \cup Listing => j.who \in Paths
            /\ j.op \in {"subscribe", "unsubscribe"} =>
                   /\ j.for \in Entities /\ j.who = Path(j.for)
                   /\ <<j.target, j.scope>> \in Topics
            /\ c \in Requests /\ j.op # "none" =>
                   /\ j.by \in Known /\ j.op \notin Listing
                   /\ IF j.op = "write" THEN j.target = j.by.full
                      ELSE j.who = Path(j.by.self)
            /\ c \in Processes => j.op # "take" /\ (j.op = "read" => j.who = None)

\* What a listing has found, between its two SELECTs.
ListingsAreHalfDone ==
    \A p \in Processes :
        /\ job[p].op \in Listing => /\ steady[p] \subseteq Owned(job[p].who)
                                    /\ Owned(job[p].who) \subseteq ever[p]
        /\ job[p].op = "listSouls" =>
               /\ {r \in steady[p] : r.scope # SoulScope} \subseteq listed[p]
               /\ listed[p] \subseteq ever[p]

\* A listing, though of two moments, shows every subscription its owner had
\* all the time, and none it had at no time.
ListingIsBetween ==
    \A p \in Processes : job[p].op = "reply" =>
        steady[p] \subseteq listed[p] /\ listed[p] \subseteq ever[p]

\* The inductive invariant the proofs rest on.
IInv ==
    /\ TypeOK
    /\ CallsAreAllowed
    /\ SubscribedAsAsked
    /\ ListingsAreHalfDone
    /\ ListingIsBetween

\* A tool changes the soul and the subscriptions of the identity its session
\* had when it was called, whatever the session is recorded as by then; to
\* the rows of others it can only raise notifications.
ToolsActForTheirSession ==
    [][\A c \in Requests : job[c] # NoJob /\ job'[c] = NoJob =>
          /\ \A s \in Store!Cells :
                 souls'[s] # souls[s] => s[1] = job[c].by.full
          /\ \A r \in Rows :
                 subs'[r] # subs[r] /\ r.who # Path(job[c].by.self)
                     => subs[r] = "read" /\ subs'[r] = "unread"]_vars

\* Only a tool of the subscriber itself resolves a notification; inspecting
\* souls from the command line, as anyone, resolves none.
OnlyToolsResolve ==
    [][\A r \in Rows : subs[r] = "unread" /\ subs'[r] = "read" =>
          \E c \in Requests : /\ job[c].op \in {"read", "take"}
                              /\ job[c].by # None
                              /\ r.who = Path(job[c].by.self)]_vars

\* One call resolves no more notifications than it was asked for, none if
\* that was 0, and never more than the cap.
BatchWithinCount ==
    [][\A c \in Requests : job[c].op = "take" /\ job'[c] = NoJob =>
          LET taken == {r \in Rows : subs[r] = "unread" /\ subs'[r] = "read"}
          IN  /\ Cardinality(taken) <= Cap
              /\ job[c].count # None => Cardinality(taken) <= job[c].count]_vars
=============================================================================
