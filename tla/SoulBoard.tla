------------------------------ MODULE SoulBoard ------------------------------
(***************************************************************************)
(* What the soul store (src/src/db/mod.rs) promises its callers, whatever  *)
(* statements it is made of: a write, a read's clearing, a claim and a     *)
(* (un)subscription each happen at once.  SoulStore implements it.         *)
(***************************************************************************)
EXTENDS Integers, FiniteSets

CONSTANTS
    Agents, Keys, Values, Subscribers, Limits, \* as in SoulStore
    SoulScope, \* the scope of a subscription to a key set
    Absent     \* no such soul row

Scopes == Keys \cup {SoulScope}
Cells  == Agents \X Keys
Rows   == [who : Subscribers, target : Agents, scope : Scopes]

VARIABLES
    souls, \* souls[<<agent, key>>]: the value, or Absent
    subs,  \* subs[row]: "absent", "read" or "unread"
    young  \* subscriptions a write that was already under way may miss

vars == <<souls, subs, young>>

Init ==
    /\ souls = [s \in Cells |-> Absent]
    /\ subs = [r \in Rows |-> "absent"]
    /\ young = {}

Present(r) == subs[r] # "absent"
Pending(s) == {r \in Rows : r.who = s /\ subs[r] = "unread"}

\* The subscriptions, present or not, that a write of the key's value fires.
Fired(a, k, v) ==
    {r \in Rows : /\ r.target = a
                  /\ \/ r.scope = k
                     \/ r.scope = SoulScope
                        /\ (souls[<<a, k>>] = Absent) # (v = Absent)}

\* set_key, or delete_key of a key that exists: the change and all its
\* notifications appear together.
Write(a, k, v) ==
    /\ v = Absent => souls[<<a, k>>] # Absent
    /\ souls' = [souls EXCEPT ![<<a, k>>] = v]
    /\ \E missed \in SUBSET young :
           subs' = [r \in Rows |-> IF r \in Fired(a, k, v) \ missed /\ Present(r)
                                   THEN "unread" ELSE subs[r]]
    /\ young' \in SUBSET young

\* The rows R are resolved, as a read and a claim do.
Resolve(R) ==
    /\ subs' = [r \in Rows |-> IF r \in R THEN "read" ELSE subs[r]]
    /\ young' \in SUBSET young
    /\ UNCHANGED souls

\* get_key or list_keys by a reader: it clears the reader's own row.
Read(r) == Resolve({q \in {r} : Present(q)})

\* take_notifications: some of what is pending, never more than the limit.
Take(s, n) ==
    \E batch \in SUBSET Pending(s) : /\ Cardinality(batch) <= n
                                     /\ Resolve(batch)

\* A subscription starts caught up, and is one a write under way may miss.
Subscribe(r) ==
    /\ subs' = [subs EXCEPT ![r] = IF Present(r) THEN @ ELSE "read"]
    /\ young' \in SUBSET (young \cup {r})
    /\ UNCHANGED souls

Unsubscribe(r) ==
    /\ subs' = [subs EXCEPT ![r] = "absent"]
    /\ young' \in SUBSET (young \ {r})
    /\ UNCHANGED souls

\* The writes that could have missed a subscription are over.
Age == young' \in SUBSET young /\ UNCHANGED <<souls, subs>>

Next ==
    \/ Age
    \/ \E a \in Agents, k \in Keys, v \in Values \cup {Absent} : Write(a, k, v)
    \/ \E r \in Rows : Read(r) \/ Subscribe(r) \/ Unsubscribe(r)
    \/ \E s \in Subscribers, n \in Limits : Take(s, n)

Spec == Init /\ [][Next]_vars
=============================================================================
