------------------------------ MODULE SoulCalls ------------------------------
(***************************************************************************)
(* What one call of the soul store (src/src/db/mod.rs) promises: between   *)
(* its beginning and its return it happens once, with its own arguments,   *)
(* or it fails and has done nothing.  A write may miss the subscriptions   *)
(* that were added behind its own back, and no others.  There are no       *)
(* statements, locks and transactions in it.  SoulStore implements it, and *)
(* it implements SoulBoard, which does not say whose call does what.       *)
(***************************************************************************)
EXTENDS Integers, FiniteSets

CONSTANTS
    Agents, Keys, Values, Subscribers, Conns, Limits, \* as in SoulStore
    SoulScope, NoReader, Absent

VARIABLES
    souls, \* souls[<<agent, key>>]: the value, or Absent
    subs,  \* subs[row]: "absent", "read" or "unread"
    job,   \* the call each connection is running, or NoJob
    behind \* the subscriptions each write in flight may have missed

vars == <<souls, subs, job, behind>>

Board == INSTANCE SoulBoard WITH young <- UNION {behind[c] : c \in Conns}

Rows    == Board!Rows
Present(r) == Board!Present(r)

Writes == [op : {"write"}, target : Agents, scope : Keys,
           value : Values \cup {Absent}]
Reads  == [op : {"read"}, who : Subscribers \cup {NoReader}, target : Agents,
           scope : Board!Scopes]
Takes  == [op : {"take"}, who : Subscribers, limit : Limits]
Jobs   == Writes \cup Reads \cup Takes
NoJob  == [op |-> "none"]

Init ==
    /\ souls = [s \in Board!Cells |-> Absent]
    /\ subs = [r \in Rows |-> "absent"]
    /\ job = [c \in Conns |-> NoJob]
    /\ behind = [c \in Conns |-> {}]

-----------------------------------------------------------------------------

Invoke(c) ==
    /\ job[c] = NoJob
    /\ \E j \in Jobs : job' = [job EXCEPT ![c] = j]
    /\ UNCHANGED <<souls, subs, behind>>

\* The call is over, whether or not its reply arrives.
Return(c) ==
    /\ job[c] # NoJob
    /\ job' = [job EXCEPT ![c] = NoJob]
    /\ behind' = [behind EXCEPT ![c] = {}]

\* set_key, or delete_key of a key that exists.
Write(c) ==
    LET j == job[c]
        fired == Board!Fired(j.target, j.scope, j.value)
    IN  /\ j.op = "write"
        /\ Return(c)
        /\ j.value = Absent => souls[<<j.target, j.scope>>] # Absent
        /\ souls' = [souls EXCEPT ![<<j.target, j.scope>>] = j.value]
        /\ \E missed \in SUBSET behind[c] :
               subs' = [r \in Rows |-> IF r \in fired \ missed /\ Present(r)
                                       THEN "unread" ELSE subs[r]]

\* delete_key of a key that does not exist.
DeleteNothing(c) ==
    /\ job[c].op = "write" /\ job[c].value = Absent
    /\ souls[<<job[c].target, job[c].scope>>] = Absent
    /\ Return(c)
    /\ UNCHANGED <<souls, subs>>

Resolve(R) ==
    /\ subs' = [r \in Rows |-> IF r \in R THEN "read" ELSE subs[r]]
    /\ UNCHANGED souls

\* get_key and list_keys: the reader's own row for what it has read.
Read(c) ==
    /\ job[c].op = "read"
    /\ Return(c)
    /\ Resolve({r \in Rows : /\ Present(r) /\ r.who = job[c].who
                             /\ r.target = job[c].target
                             /\ r.scope = job[c].scope})

\* take_notifications: some of what its caller has pending, within the limit.
Take(c) ==
    /\ job[c].op = "take"
    /\ Return(c)
    /\ \E batch \in SUBSET Board!Pending(job[c].who) :
           /\ Cardinality(batch) <= job[c].limit
           /\ Resolve(batch)

\* An error, a deadlock, or the end of the process: nothing has happened.
Fail(c) == Return(c) /\ UNCHANGED <<souls, subs>>

\* A subscription starts caught up.  A write of its scope that is in flight
\* may be past the statement that would have found it.
Subscribe(r) ==
    /\ ~ Present(r)
    /\ subs' = [subs EXCEPT ![r] = "read"]
    /\ \E missing \in SUBSET {c \in Conns : /\ job[c].op = "write"
                                            /\ job[c].target = r.target
                                            /\ r.scope \in {job[c].scope, SoulScope}} :
           behind' = [c \in Conns |-> IF c \in missing THEN behind[c] \cup {r}
                                      ELSE behind[c]]
    /\ UNCHANGED <<souls, job>>

Unsubscribe(r) ==
    /\ subs' = [subs EXCEPT ![r] = "absent"]
    /\ behind' = [c \in Conns |-> behind[c] \ {r}]
    /\ UNCHANGED <<souls, job>>

\* A call is seen when it begins and when it is over.
Next ==
    \/ \E c \in Conns :
           /\ job'[c] # job[c]
           /\ \/ Invoke(c) \/ Fail(c)
              \/ Write(c) \/ DeleteNothing(c) \/ Read(c) \/ Take(c)
    \/ \E r \in Rows : Subscribe(r) \/ Unsubscribe(r)

Spec == Init /\ [][Next]_vars

-----------------------------------------------------------------------------

TypeOK ==
    /\ subs \in [Rows -> {"absent", "read", "unread"}]
    /\ job \in [Conns -> Jobs \cup {NoJob}]
    /\ behind \in [Conns -> SUBSET Rows]

\* Without the calls, what is left is the board, where a write may miss what
\* was subscribed behind any write.
ImplementsBoard == Board!Spec
=============================================================================
