------------------------------ MODULE SoulStore ------------------------------
(***************************************************************************)
(* The Postgres layer of mundus-animarum (src/src/db/mod.rs): the table of *)
(* souls, the two subscription tables, and the calls of `Db` run as the    *)
(* SQL statements they are made of, by any number of connections at once.  *)
(*                                                                         *)
(* Every statement is one step of its connection.  Statements follow       *)
(* Postgres' READ COMMITTED rules, which the code relies on and never      *)
(* changes: a statement sees the rows committed when it starts; an UPDATE  *)
(* or DELETE waits for a row another transaction has written; what a       *)
(* transaction wrote appears, and its row locks go, when it commits; if it *)
(* aborts it leaves nothing.                                               *)
(***************************************************************************)
EXTENDS Integers, FiniteSets

CONSTANTS
    Agents,      \* agent full ids: owners of souls, targets of subscriptions
    Keys,        \* soul keys
    Values,      \* soul values
    Subscribers, \* agent instance hierarchies: owners of subscriptions
    Readers,     \* who reads souls: subscribers, and NoReader
    Conns,       \* connections of the pool, each running one call at a time
    Limits,      \* the limits take_notifications is called with
    Mortal,      \* the connections whose process may be killed at any time
    Watchable,   \* bound: the subscription rows anyone subscribes to
    SoulScope,   \* Scope::Soul, the scope that is not a key
    NoReader,    \* reader = None, the reads of the command line
    Absent       \* no such soul row

Scopes  == Keys \cup {SoulScope}
Cells   == Agents \X Keys
Rows    == [who : Subscribers, target : Agents, scope : Scopes]

(***************************************************************************)
(* Agents and keys stand for strings.  They are numbered in the order that *)
(* ORDER BY gives them, so that "<" is that order.                         *)
(***************************************************************************)
ASSUME NamesAssumption ==
    /\ Agents \subseteq Nat
    /\ Keys \subseteq Nat
    /\ SoulScope \notin Keys
    /\ NoReader \notin Subscribers
    /\ Readers \subseteq Subscribers \cup {NoReader}
    /\ Absent \notin Values
    /\ Limits \subseteq Nat
    /\ Mortal \subseteq Conns
    /\ Watchable \subseteq Rows
    /\ IsFiniteSet(Rows)

VARIABLES
    souls,    \* souls[<<agent, key>>]: the committed value, or Absent
    subs,     \* subs[row]: "absent", "read" (unread = FALSE) or "unread"
    pc,       \* the statement each connection runs next
    call,     \* the arguments of the call each connection is running
    owned,    \* soul rows an open transaction has written
    held,     \* subscription rows an open transaction has written
    todo,     \* rows the running UPDATE has found but not yet written
    keySetChanged, \* set_key's `inserted`; TRUE in delete_key once it deleted
    remaining      \* the count take_notifications will return

(***************************************************************************)
(* History, which no guard reads.  A row's subscriber is informed when a   *)
(* reply has shown it everything committed in the row's scope.             *)
(***************************************************************************)
VARIABLES
    informed, \* rows whose subscriber has been told of the last change
    fresh,    \* rows each connection's reply, if sent now, would inform
    late,     \* rows added too late for an open write to find them
    exposed   \* rows that lost a change in one of the three windows below

tables  == <<souls, subs>>
locals  == <<pc, call, owned, held, todo, keySetChanged, remaining>>
history == <<informed, fresh, late, exposed>>
vars    == <<tables, locals, history>>

-----------------------------------------------------------------------------

NoCall == [who |-> NoReader, target |-> 0, scope |-> SoulScope,
           value |-> Absent, limit |-> 0]

CallRecords == [who : Subscribers \cup {NoReader}, target : Nat,
                scope : Scopes, value : Values \cup {Absent},
                limit : Limits \cup {0}]

Labels == {"idle", "write", "fireKey", "raiseKey", "raiseSoul",
           "select", "clear", "claimKeys", "claimSouls", "count", "settle"}

TypeOK ==
    /\ souls \in [Cells -> Values \cup {Absent}]
    /\ subs \in [Rows -> {"absent", "read", "unread"}]
    /\ pc \in [Conns -> Labels]
    /\ call \in [Conns -> CallRecords]
    /\ owned \in [Conns -> SUBSET Cells]
    /\ held \in [Conns -> SUBSET Rows]
    /\ todo \in [Conns -> SUBSET Rows]
    /\ keySetChanged \in [Conns -> BOOLEAN]
    /\ remaining \in [Conns -> Nat]
    /\ informed \in SUBSET Rows
    /\ fresh \in [Conns -> SUBSET Rows]
    /\ late \in [Conns -> SUBSET Rows]
    /\ exposed \in SUBSET Rows

Init ==
    /\ souls = [s \in Cells |-> Absent]
    /\ subs = [r \in Rows |-> "absent"]
    /\ pc = [c \in Conns |-> "idle"]
    /\ call = [c \in Conns |-> NoCall]
    /\ owned = [c \in Conns |-> {}]
    /\ held = [c \in Conns |-> {}]
    /\ todo = [c \in Conns |-> {}]
    /\ keySetChanged = [c \in Conns |-> FALSE]
    /\ remaining = [c \in Conns |-> 0]
    /\ informed = {}
    /\ fresh = [c \in Conns |-> {}]
    /\ late = [c \in Conns |-> {}]
    /\ exposed = {}

-----------------------------------------------------------------------------
(* What the statements are made of. *)

Present(r) == subs[r] # "absent"
Pending(s) == {r \in Rows : r.who = s /\ subs[r] = "unread"}

\* Mutant of Row: a read of a key resolves the subscription to the soul.
RowOfSoul(c) == [who |-> call[c].who, target |-> call[c].target,
                 scope |-> SoulScope]

\* The soul row a write is about, the subscription row a read resolves.
Cell(c) == <<call[c].target, call[c].scope>>
Row(c)  == [who |-> call[c].who, target |-> call[c].target,
            scope |-> call[c].scope]

\* No other transaction has written this row and is still open.
FreeCell(c, s) == \A d \in Conns \ {c} : s \notin owned[d]
FreeRow(c, r)  == \A d \in Conns \ {c} : r \notin held[d]

\* Mutant of Found: the UPDATE skips the rows that are pending already.
FoundRead(c, scope) ==
    {r \in Rows : subs[r] = "read" /\ r.target = call[c].target
                                   /\ r.scope = scope}

\* The subscriptions that UPDATE ... WHERE target = $1 [AND key = $2] finds.
Found(c, scope) ==
    {r \in Rows : Present(r) /\ r.target = call[c].target /\ r.scope = scope}

\* Does committing the call's write change the key set of the soul?
ChangesKeySet(c) == (souls[Cell(c)] = Absent) # (call[c].value = Absent)

\* The subscription rows, present or not, whose scope the write changes.
Concerned(c) ==
    {r \in Rows : /\ r.target = call[c].target
                  /\ \/ r.scope = call[c].scope
                     \/ r.scope = SoulScope /\ ChangesKeySet(c)}

\* A write that has run the UPDATE on this row's scope but not committed.
PassedBy(c, r) ==
    /\ r.target = call[c].target
    /\ \/ pc[c] \in {"raiseKey", "raiseSoul"} /\ r.scope = call[c].scope
       \/ pc[c] = "raiseSoul" /\ r.scope = SoulScope

\* Lexicographic (target, key) order; target alone for soul subscriptions.
Before(r, q) ==
    \/ r.target < q.target
    \/ r.target = q.target /\ r.scope # SoulScope /\ r.scope < q.scope

\* Mutant of Batches: the subquery without FOR UPDATE SKIP LOCKED.
BatchesUnlocked(c, R, n) ==
    {B \in SUBSET R :
        /\ Cardinality(B) <= n
        /\ B # R => Cardinality(B) = n
        /\ \A r \in B, q \in R \ B : Before(r, q)}

\* The batches ORDER BY ... LIMIT n FOR UPDATE SKIP LOCKED can lock.
Batches(c, R, n) ==
    LET free == {r \in R : FreeRow(c, r)}
    IN  {B \in SUBSET free :
            /\ Cardinality(B) <= n
            /\ B # free => Cardinality(B) = n
            /\ \A r \in B, q \in free \ B : Before(r, q)}

-----------------------------------------------------------------------------
(* A call begins on an idle connection and ends by making it idle again.   *)

Start(c, label, who, target, scope, value, limit) ==
    /\ pc[c] = "idle"
    /\ pc' = [pc EXCEPT ![c] = label]
    /\ call' = [call EXCEPT ![c] = [who |-> who, target |-> target,
                    scope |-> scope, value |-> value, limit |-> limit]]
    /\ UNCHANGED <<tables, owned, held, todo, keySetChanged, remaining,
                   history>>

\* Mutant of Finish: the transaction is left open.
FinishStillOpen(c) ==
    /\ pc' = [pc EXCEPT ![c] = "idle"]
    /\ call' = [call EXCEPT ![c] = NoCall]
    /\ todo' = [todo EXCEPT ![c] = {}]
    /\ keySetChanged' = [keySetChanged EXCEPT ![c] = FALSE]
    /\ remaining' = [remaining EXCEPT ![c] = 0]
    /\ late' = [late EXCEPT ![c] = {}]
    /\ UNCHANGED <<owned, held>>

\* Everything but the tables and what the history says of the reply.
Finish(c) ==
    /\ pc' = [pc EXCEPT ![c] = "idle"]
    /\ call' = [call EXCEPT ![c] = NoCall]
    /\ owned' = [owned EXCEPT ![c] = {}]
    /\ held' = [held EXCEPT ![c] = {}]
    /\ todo' = [todo EXCEPT ![c] = {}]
    /\ keySetChanged' = [keySetChanged EXCEPT ![c] = FALSE]
    /\ remaining' = [remaining EXCEPT ![c] = 0]
    /\ late' = [late EXCEPT ![c] = {}]

\* A reply on the resolved rows R; `replied` is FALSE if it never arrives.
\* A resolved row whose subscriber is not told of its change is exposed.
Reply(c, R, replied) ==
    LET told == IF replied THEN R \cap fresh[c] ELSE {}
        lost == {r \in R \ told : subs[r] = "unread"}
    IN  /\ informed' = informed \cup told
        /\ exposed' = (exposed \ told) \cup lost
        /\ fresh' = [fresh EXCEPT ![c] = {}]

\* Whether the reply to c arrives: it may not, if the process is killed.
Outcomes(c) == {TRUE} \cup {b \in {FALSE} : c \in Mortal}

-----------------------------------------------------------------------------
(* set_key and delete_key: one transaction; value = Absent is delete_key.  *)

StartSet(c) ==
    \E a \in Agents, k \in Keys, v \in Values :
        Start(c, "write", NoReader, a, k, v, 0)

StartDelete(c) ==
    \E a \in Agents, k \in Keys : Start(c, "write", NoReader, a, k, Absent, 0)

\* Mutant of Upsert: a SELECT finds out whether the key is new, and the
\* INSERT comes at the commit.
UpsertAfterSelect(c) ==
    /\ pc[c] = "write" /\ call[c].value # Absent
    /\ keySetChanged' = [keySetChanged EXCEPT ![c] = souls[Cell(c)] = Absent]
    /\ pc' = [pc EXCEPT ![c] = "fireKey"]
    /\ UNCHANGED <<tables, call, owned, held, todo, remaining, history>>

\* INSERT ... ON CONFLICT DO UPDATE ... RETURNING (xmax = 0).  It waits for
\* any open write of the row, a row being inserted included.
Upsert(c) ==
    /\ pc[c] = "write" /\ call[c].value # Absent
    /\ FreeCell(c, Cell(c))
    /\ owned' = [owned EXCEPT ![c] = {Cell(c)}]
    /\ keySetChanged' = [keySetChanged EXCEPT ![c] = souls[Cell(c)] = Absent]
    /\ pc' = [pc EXCEPT ![c] = "fireKey"]
    /\ UNCHANGED <<tables, call, held, todo, remaining, history>>

\* DELETE FROM souls of a committed row: waits for an open write of it.
DeleteRow(c) ==
    /\ pc[c] = "write" /\ call[c].value = Absent
    /\ souls[Cell(c)] # Absent
    /\ FreeCell(c, Cell(c))
    /\ owned' = [owned EXCEPT ![c] = {Cell(c)}]
    /\ keySetChanged' = [keySetChanged EXCEPT ![c] = TRUE]
    /\ pc' = [pc EXCEPT ![c] = "fireKey"]
    /\ UNCHANGED <<tables, call, held, todo, remaining, history>>

\* DELETE finds no committed row, hence nothing to wait for: `existed` is
\* false and the transaction commits empty.
DeleteNothing(c) ==
    /\ pc[c] = "write" /\ call[c].value = Absent
    /\ souls[Cell(c)] = Absent
    /\ Finish(c)
    /\ UNCHANGED <<tables, informed, fresh, exposed>>

\* UPDATE key_subscriptions begins: it finds the rows committed by now.
FireKey(c) ==
    /\ pc[c] = "fireKey"
    /\ todo' = [todo EXCEPT ![c] = Found(c, call[c].scope)]
    /\ pc' = [pc EXCEPT ![c] = "raiseKey"]
    /\ UNCHANGED <<tables, call, owned, held, keySetChanged, remaining,
                   history>>

\* The key UPDATE is over; UPDATE soul_subscriptions begins.
FireSoul(c) ==
    /\ pc[c] = "raiseKey" /\ todo[c] = {}
    /\ keySetChanged[c]
    /\ todo' = [todo EXCEPT ![c] = Found(c, SoulScope)]
    /\ pc' = [pc EXCEPT ![c] = "raiseSoul"]
    /\ UNCHANGED <<tables, call, owned, held, keySetChanged, remaining,
                   history>>

\* Mutant of Raise: the UPDATE runs on the pool, outside the transaction.
RaiseOutside(c, r) ==
    /\ r \in todo[c]
    /\ FreeRow(c, r)
    /\ subs' = [subs EXCEPT ![r] = "unread"]
    /\ todo' = [todo EXCEPT ![c] = @ \ {r}]
    /\ UNCHANGED <<souls, pc, call, owned, held, keySetChanged, remaining,
                   history>>

\* The UPDATE writes one row it found, in the order of the scan, which
\* nothing in the statement fixes; it waits for a row that is locked.
Raise(c, r) ==
    /\ r \in todo[c]
    /\ FreeRow(c, r)
    /\ held' = [held EXCEPT ![c] = @ \cup {r}]
    /\ todo' = [todo EXCEPT ![c] = @ \ {r}]
    /\ UNCHANGED <<tables, pc, call, owned, keySetChanged, remaining, history>>

\* COMMIT: the soul row and the raised subscriptions appear together.
CommitWrite(c) ==
    /\ \/ pc[c] = "raiseKey" /\ ~keySetChanged[c]
       \/ pc[c] = "raiseSoul"
    /\ todo[c] = {}
    /\ souls' = [souls EXCEPT ![Cell(c)] = call[c].value]
    /\ subs' = [r \in Rows |-> IF r \in held[c] THEN "unread" ELSE subs[r]]
    /\ informed' = informed \ Concerned(c)
    /\ fresh' = [d \in Conns |-> fresh[d] \ Concerned(c)]
    /\ exposed' = exposed \cup late[c]
    /\ Finish(c)

-----------------------------------------------------------------------------
(* get_key and list_keys: two statements and no transaction around them.   *)

StartRead(c) ==
    \E s \in Readers, a \in Agents, x \in Scopes :
        Start(c, "select", s, a, x, Absent, 0)

\* SELECT: the value, or the key set, that the call will return.
Select(c) ==
    /\ pc[c] = "select" /\ call[c].who # NoReader
    /\ fresh' = [fresh EXCEPT ![c] = {Row(c)}]
    /\ pc' = [pc EXCEPT ![c] = "clear"]
    /\ UNCHANGED <<tables, call, owned, held, todo, keySetChanged, remaining,
                   informed, late, exposed>>

\* With no reader the SELECT is the whole call.
SelectOnly(c) ==
    /\ pc[c] = "select" /\ call[c].who = NoReader
    /\ Finish(c)
    /\ UNCHANGED <<tables, informed, fresh, exposed>>

\* UPDATE ... SET unread = FALSE, committed by itself, then the reply.
Clear(c) ==
    /\ pc[c] = "clear"
    /\ FreeRow(c, Row(c))
    /\ subs' = [subs EXCEPT ![Row(c)] = IF Present(Row(c)) THEN "read" ELSE @]
    /\ \E replied \in Outcomes(c) :
           Reply(c, {r \in {Row(c)} : Present(r)}, replied)
    /\ Finish(c)
    /\ UNCHANGED souls

-----------------------------------------------------------------------------
(* subscribe_*, unsubscribe_*: a single statement each.                    *)

\* Mutant of Subscribe: ON CONFLICT DO UPDATE SET unread = FALSE.
SubscribeAnew(r) ==
    /\ \A c \in Conns : r \notin held[c]
    /\ subs' = [subs EXCEPT ![r] = "read"]
    /\ informed' = IF Present(r) THEN informed ELSE informed \cup {r}
    /\ late' = [c \in Conns |-> IF PassedBy(c, r) /\ ~Present(r)
                                THEN late[c] \cup {r} ELSE late[c]]
    /\ UNCHANGED <<souls, locals, fresh, exposed>>

\* INSERT ... ON CONFLICT DO NOTHING: a new row starts as read.
Subscribe(r) ==
    /\ subs[r] = "absent"
    /\ subs' = [subs EXCEPT ![r] = "read"]
    /\ informed' = informed \cup {r}
    /\ late' = [c \in Conns |->
                   IF PassedBy(c, r) THEN late[c] \cup {r} ELSE late[c]]
    /\ UNCHANGED <<souls, locals, fresh, exposed>>

\* DELETE: waits for a locked row.  A scan that had found the row and was
\* still to write it finds it gone.
Unsubscribe(r) ==
    /\ Present(r)
    /\ \A c \in Conns : r \notin held[c]
    /\ subs' = [subs EXCEPT ![r] = "absent"]
    /\ todo' = [c \in Conns |-> todo[c] \ {r}]
    /\ informed' = informed \ {r}
    /\ late' = [c \in Conns |-> late[c] \ {r}]
    /\ exposed' = exposed \ {r}
    /\ UNCHANGED <<souls, pc, call, owned, held, keySetChanged, remaining,
                   fresh>>

-----------------------------------------------------------------------------
(* take_notifications: one transaction of three statements.                *)

StartTake(c) ==
    \E s \in Subscribers, n \in Limits :
        Start(c, "claimKeys", s, 0, SoulScope, Absent, n)

ClaimKeys(c) ==
    /\ pc[c] = "claimKeys"
    /\ \E B \in Batches(c, {r \in Pending(call[c].who) : r.scope # SoulScope},
                        call[c].limit) :
           /\ held' = [held EXCEPT ![c] = B]
           /\ fresh' = [fresh EXCEPT ![c] = B]
    /\ pc' = [pc EXCEPT ![c] = "claimSouls"]
    /\ UNCHANGED <<tables, call, owned, todo, keySetChanged, remaining,
                   informed, late, exposed>>

\* Mutant of ClaimSouls: the whole limit is left for souls.
ClaimSoulsAnew(c) ==
    /\ pc[c] = "claimSouls"
    /\ \E B \in Batches(c, {r \in Pending(call[c].who) : r.scope = SoulScope},
                        call[c].limit) :
           /\ held' = [held EXCEPT ![c] = @ \cup B]
           /\ fresh' = [fresh EXCEPT ![c] = @ \cup B]
    /\ pc' = [pc EXCEPT ![c] = "count"]
    /\ UNCHANGED <<tables, call, owned, todo, keySetChanged, remaining,
                   informed, late, exposed>>

\* The budget the keys have left goes to souls; none left, none claimed.
ClaimSouls(c) ==
    /\ pc[c] = "claimSouls"
    /\ \E B \in Batches(c, {r \in Pending(call[c].who) : r.scope = SoulScope},
                        call[c].limit - Cardinality(held[c])) :
           /\ held' = [held EXCEPT ![c] = @ \cup B]
           /\ fresh' = [fresh EXCEPT ![c] = @ \cup B]
    /\ pc' = [pc EXCEPT ![c] = "count"]
    /\ UNCHANGED <<tables, call, owned, todo, keySetChanged, remaining,
                   informed, late, exposed>>

\* Mutant of Count: the claims are taken off a count that left them out.
CountTwice(c) ==
    /\ pc[c] = "count"
    /\ remaining' = [remaining EXCEPT
                        ![c] = Cardinality(Pending(call[c].who) \ held[c])
                                 - Cardinality(held[c])]
    /\ pc' = [pc EXCEPT ![c] = "settle"]
    /\ UNCHANGED <<tables, call, owned, held, todo, keySetChanged, history>>

\* SELECT count(*): the transaction sees its own claims as resolved, and
\* those of other open transactions as still pending.
Count(c) ==
    /\ pc[c] = "count"
    /\ remaining' = [remaining EXCEPT
                        ![c] = Cardinality(Pending(call[c].who) \ held[c])]
    /\ pc' = [pc EXCEPT ![c] = "settle"]
    /\ UNCHANGED <<tables, call, owned, held, todo, keySetChanged, history>>

\* COMMIT, then the batch and `remaining` are returned.
Settle(c) ==
    /\ pc[c] = "settle"
    /\ subs' = [r \in Rows |-> IF r \in held[c] THEN "read" ELSE subs[r]]
    /\ \E replied \in Outcomes(c) : Reply(c, held[c], replied)
    /\ Finish(c)
    /\ UNCHANGED souls

-----------------------------------------------------------------------------
(* Failures: the open transaction is rolled back and nothing is returned.  *)

Rollback(c) ==
    /\ Finish(c)
    /\ fresh' = [fresh EXCEPT ![c] = {}]
    /\ UNCHANGED <<tables, informed, exposed>>

\* The process is killed, or its connection lost, in the middle of a call.
Kill(c) ==
    /\ c \in Mortal /\ pc[c] # "idle"
    /\ Rollback(c)

\* c can only wait for d: each row its UPDATE still has to write is locked.
WaitsFor(c, d) ==
    /\ \/ /\ pc[c] = "write"
          /\ call[c].value = Absent => souls[Cell(c)] # Absent
          /\ Cell(c) \in owned[d]
       \/ /\ \A r \in todo[c] : ~FreeRow(c, r)
          /\ todo[c] \cap held[d] # {}
    /\ c # d

\* A set of transactions each waiting for another of them.
Cycle(S) == \A c \in S : /\ \E d \in S : WaitsFor(c, d)
                         /\ \E d \in S : WaitsFor(d, c)

\* Postgres finds the cycle and makes one of its members fail.
DeadlockAbort(c) ==
    /\ \E S \in SUBSET Conns : c \in S /\ Cycle(S)
    /\ Rollback(c)

-----------------------------------------------------------------------------

StartCall(c) == StartSet(c) \/ StartDelete(c) \/ StartRead(c) \/ StartTake(c)

Step(c) ==
    \/ Upsert(c) \/ DeleteRow(c) \/ DeleteNothing(c)
    \/ FireKey(c) \/ FireSoul(c) \/ (\E r \in Rows : Raise(c, r))
    \/ CommitWrite(c)
    \/ Select(c) \/ SelectOnly(c) \/ Clear(c)
    \/ ClaimKeys(c) \/ ClaimSouls(c) \/ Count(c) \/ Settle(c)

Next ==
    \/ \E c \in Conns : StartCall(c) \/ Step(c) \/ Kill(c) \/ DeadlockAbort(c)
    \/ \E r \in Watchable : Subscribe(r) \/ Unsubscribe(r)

Spec == Init /\ [][Next]_vars

(***************************************************************************)
(* A connection keeps running its call, and Postgres queues the waiters of *)
(* a row, so a lock that is released again and again is granted in the     *)
(* end.  Deadlocks are detected.  Nothing makes a caller begin a call.     *)
(***************************************************************************)
Fairness ==
    /\ \A c \in Conns : SF_vars(Step(c))
    /\ WF_vars(\E c \in Conns : DeadlockAbort(c))

FairSpec == Spec /\ Fairness
-----------------------------------------------------------------------------
(* Properties *)

\* Two open transactions never hold the same row.
LocksAreExclusive ==
    \A c, d \in Conns : c # d => /\ owned[c] \cap owned[d] = {}
                                 /\ held[c] \cap held[d] = {}

\* What a connection holds at each statement of its call.  In particular
\* keySetChanged stays true to the committed table until the commit, since
\* the lock on the soul row keeps every other write of it away.
Writing(c)  == pc[c] \in {"fireKey", "raiseKey", "raiseSoul"}
Raising(c)  == pc[c] \in {"raiseKey", "raiseSoul"}
Claiming(c) == pc[c] \in {"claimSouls", "count", "settle"}

CallsHoldWhatTheyNeed ==
    \A c \in Conns :
        /\ Writing(c) \/ pc[c] = "write" => Cell(c) \in Cells
        /\ Writing(c) => /\ owned[c] = {Cell(c)}
                         /\ keySetChanged[c] = ChangesKeySet(c)
                         /\ call[c].value = Absent => keySetChanged[c]
        /\ ~Writing(c) => owned[c] = {}
        /\ ~Raising(c) => todo[c] = {} /\ late[c] = {}
        /\ ~Raising(c) /\ ~Claiming(c) => held[c] = {}
        /\ \/ pc[c] = "select" /\ call[c].who # NoReader
           \/ pc[c] = "clear"
           => Row(c) \in Rows
        /\ pc[c] = "raiseSoul" => keySetChanged[c]

\* The rows of the key, and in "raiseSoul" of the soul, that exist: an open
\* write has raised each, is about to, or could not have found it.
WritesReachTheirScope ==
    \A c \in Conns : Raising(c) =>
        /\ \A r \in Rows : /\ Present(r) /\ PassedBy(c, r)
                                => r \in held[c] \cup todo[c] \cup late[c]
                           /\ r \in held[c] \cup todo[c]
                                => Present(r) /\ PassedBy(c, r)
        /\ pc[c] = "raiseSoul" => \A r \in todo[c] : r.scope = SoulScope

\* A change is hidden from a subscriber only if it went through one of the
\* three windows of the history: committed between the SELECT and the UPDATE
\* of a read, written before the subscription could be found, or returned in
\* a reply that never arrived.  Claims, re-subscriptions, rollbacks and
\* deadlocks lose nothing.
NoLossOutsideWindows ==
    \A r \in Rows : subs[r] = "read" /\ r \notin exposed => r \in informed

\* A pending notification reports a committed change its subscriber has not
\* been told of: no rolled back write notifies, and no change is told twice.
NoPhantomNotification ==
    \A r \in Rows : subs[r] = "unread" => r \notin informed

\* Parallel callers of take_notifications take disjoint batches, and what one
\* has claimed no read, claim or removal resolves before its commit.
ClaimsAreExclusive ==
    \A c \in Conns : Claiming(c) =>
        \A r \in held[c] :
            /\ subs[r] = "unread" /\ r.who = call[c].who
            /\ \A d \in Conns \ {c} : r \notin held[d]

\* A batch never exceeds the limit, though two statements fill it.
BatchWithinLimit ==
    \A c \in Conns : Claiming(c) => Cardinality(held[c]) <= call[c].limit

\* Transactions deadlock only if they add or delete different keys of one
\* soul: a claim is never part of a cycle, nor are two writes of one key.
DeadlocksNeedTwoKeysOfOneSoul ==
    \A S \in SUBSET Conns : Cycle(S) =>
        \A c, d \in S : /\ pc[c] = "raiseSoul"
                        /\ WaitsFor(c, d) =>
                              /\ call[c].target = call[d].target
                              /\ call[c].scope # call[d].scope

\* The inductive invariant the proofs rest on.
IInv ==
    /\ TypeOK
    /\ LocksAreExclusive
    /\ CallsHoldWhatTheyNeed
    /\ WritesReachTheirScope
    /\ NoLossOutsideWindows
    /\ NoPhantomNotification
    /\ ClaimsAreExclusive
    /\ BatchWithinLimit

\* `remaining` counts at least what no other call is about to resolve.
RemainingNeverUndercounts ==
    [][\A c \in Conns : pc[c] = "count" /\ pc'[c] = "settle" =>
          remaining'[c] >= Cardinality({r \in Pending(call[c].who) :
              ~ \E d \in Conns : r \in held[d] /\ call[d].who = r.who})]_vars

\* A notification is resolved only by telling its subscriber of the change.
ResolvedMeansInformed ==
    [][\A r \in Rows : subs[r] = "unread" /\ subs'[r] = "read"
                          => r \in informed']_vars

\* A change that commits leaves every subscription on it pending.
ChangeRaisesEverySubscription ==
    [][\A r \in Rows : r \in informed \ informed' /\ subs'[r] # "absent"
                          => subs'[r] = "unread"]_vars

\* Callers see each call happen at once, as SoulBoard says, when it commits:
\* the statements of other calls in between show only in a write that misses
\* a subscription added behind its back.
Board == INSTANCE SoulBoard WITH young <- UNION {late[c] : c \in Conns}

ImplementsBoard == Board!Spec

\* The call a connection is running, its statements aside.
Job(c) ==
    CASE pc[c] = "idle" -> [op |-> "none"]
      [] pc[c] \in {"write", "fireKey", "raiseKey", "raiseSoul"} ->
             [op |-> "write", target |-> call[c].target,
              scope |-> call[c].scope, value |-> call[c].value]
      [] pc[c] \in {"select", "clear"} ->
             [op |-> "read", who |-> call[c].who, target |-> call[c].target,
              scope |-> call[c].scope]
      [] OTHER -> [op |-> "take", who |-> call[c].who, limit |-> call[c].limit]

\* Each call happens once, with its own arguments, between its beginning and
\* its return, or fails without a trace: a write neither misses nor raises for
\* another write, and misses only what was subscribed behind its own back.
Calls == INSTANCE SoulCalls WITH job <- [c \in Conns |-> Job(c)], behind <- late

ImplementsCalls == Calls!Spec

\* What a claim has locked stays as current as it was found: what it returns
\* tells of the last change, unless a write was too early to find the row.
ClaimsLoseNothing ==
    \A c \in Conns : Claiming(c) => held[c] \subseteq fresh[c] \cup exposed

\* Every call returns, with its result or an error.
EveryCallReturns == \A c \in Conns : pc[c] # "idle" ~> pc[c] = "idle"
=============================================================================
