-------------------------------- MODULE Daemon --------------------------------
(***************************************************************************)
(* The processes of one state directory and one database: commands, which  *)
(* connect, make one call and end; daemons, which connect, bind, take the  *)
(* "mcp" lock and serve (src/src/mcp/run.rs); launchers, which wait for    *)
(* the URL under that lock and announce it.  They meet in the catalogue of *)
(* the database, which each of them that connects may have to fill, and in *)
(* the lock file.                                                          *)
(*                                                                         *)
(* Postgres, the lock file and the host belong to others; they are         *)
(* modelled from how this code uses them.                                  *)
(***************************************************************************)
EXTENDS Naturals, Sequences

CONSTANTS
    Commands,   \* bound: the processes that run a command on the store,
    Daemons,    \*        `daemon begin`, and
    Launchers,  \*        `mcp mundus-animarum begin`; each of them runs once
    Statements, \* what migrate creates, in order
    Nobody      \* no holder of the lock, no URL

Procs   == Commands \cup Daemons \cup Launchers
Objects == {Statements[i] : i \in DOMAIN Statements}

ASSUME ProcsAssumption ==
    /\ Commands \cap Daemons = {}
    /\ Launchers \cap (Commands \cup Daemons) = {}
    /\ Nobody \notin Procs

ASSUME StatementsAssumption ==
    /\ Statements \in Seq(Objects)
    /\ Len(Statements) > 0

VARIABLES
    schema,   \* the tables and indexes that are committed
    lock,     \* the daemon that holds the "mcp" lock; it stands for its URL
    pc,       \* where each process is
    migrated, \* the statements of migrate it has been through
    outcome,  \* how it ended
    announced \* the URL a launcher has printed

vars == <<schema, lock, pc, migrated, outcome, announced>>

Labels   == {"unborn", "connect", "look", "create", "call", "bind", "acquire",
             "serve", "spawn", "wait", "over"}
Outcomes == {"none", "result", "help", "panic", "killed",
             "error",     \* an argument, the database, the host, the socket
             "held",      \* another daemon holds the lock
             "duplicate"} \* the catalogue refused a CREATE

TypeOK ==
    /\ schema \in SUBSET Objects
    /\ lock \in Daemons \cup {Nobody}
    /\ pc \in [Procs -> Labels]
    /\ migrated \in [Procs -> 0 .. Len(Statements)]
    /\ outcome \in [Procs -> Outcomes]
    /\ announced \in [Launchers -> Daemons \cup {Nobody}]

\* A process that died half way may have left any part of the schema.
Init ==
    /\ schema \in {{Statements[i] : i \in 1 .. n} : n \in 0 .. Len(Statements)}
    /\ lock = Nobody
    /\ pc = [p \in Procs |-> "unborn"]
    /\ migrated = [p \in Procs |-> 0]
    /\ outcome = [p \in Procs |-> "none"]
    /\ announced = [p \in Launchers |-> Nobody]

-----------------------------------------------------------------------------

Running(p) == pc[p] \notin {"unborn", "over"}

Goto(p, label) == pc' = [pc EXCEPT ![p] = label]

\* main prints one line and exits, but for a panic or a kill.
End(p, how) ==
    /\ Goto(p, "over")
    /\ outcome' = [outcome EXCEPT ![p] = how]
    /\ migrated' = [migrated EXCEPT ![p] = 0]

-----------------------------------------------------------------------------
(* Mistakes the properties are there to find, each in the definition it    *)
(* is named after.                                                         *)

\* Every second statement is passed over.
AdvanceByTwo(p) ==
    /\ migrated' = [migrated EXCEPT ![p] = @ + 2]
    /\ Goto(p, IF migrated'[p] < Len(Statements) THEN "look"
               ELSE IF p \in Daemons THEN "bind" ELSE "call")
    /\ UNCHANGED <<lock, outcome, announced>>

\* A table that exists stands for the whole schema.
AdvanceAtOnce(p) ==
    /\ migrated' = [migrated EXCEPT ![p] = @ + 1]
    /\ Goto(p, IF migrated'[p] < Len(Statements) /\ pc[p] = "create"
               THEN "look"
               ELSE IF p \in Daemons THEN "bind" ELSE "call")
    /\ UNCHANGED <<lock, outcome, announced>>

\* The URL is published before the socket is bound.
BindLast(p) ==
    /\ pc[p] = "bind"
    /\ \/ lock = Nobody /\ lock' = p /\ UNCHANGED pc
       \/ lock = p /\ Goto(p, "serve") /\ UNCHANGED lock
    /\ UNCHANGED <<schema, migrated, outcome, announced>>

\* The daemon serves without a published URL.
AcquireNothing(p) ==
    /\ pc[p] = "acquire"
    /\ lock = Nobody
    /\ Goto(p, "serve")
    /\ UNCHANGED <<schema, lock, migrated, outcome, announced>>

\* The result of try_acquire is dropped.
GiveUpNot(p) ==
    /\ pc[p] = "acquire"
    /\ lock # Nobody
    /\ Goto(p, "serve")
    /\ UNCHANGED <<schema, lock, migrated, outcome, announced>>

-----------------------------------------------------------------------------
(* run: arguments first, then the configuration, then the command.         *)

\* clap's help, version or parse error, before the configuration is read.
Inform(p) ==
    /\ pc[p] = "unborn"
    /\ \E how \in {"help", "error"} : End(p, how)
    /\ UNCHANGED <<schema, lock, announced>>

\* A required variable is not set.
Misconfigured(p) ==
    /\ pc[p] = "unborn"
    /\ End(p, "panic")
    /\ UNCHANGED <<schema, lock, announced>>

\* Only commands and daemons use the database.
Dispatch(p) ==
    /\ pc[p] = "unborn"
    /\ Goto(p, IF p \in Launchers THEN "spawn" ELSE "connect")
    /\ UNCHANGED <<schema, lock, migrated, outcome, announced>>

\* A command without a target, AgentFullIdRequired: it does not connect.
Untargeted(p) ==
    /\ p \in Commands
    /\ pc[p] = "connect"
    /\ End(p, "error")
    /\ UNCHANGED <<schema, lock, announced>>

-----------------------------------------------------------------------------
(* Context::db, Db::connect and Db::migrate.                               *)

Connect(p) ==
    /\ pc[p] = "connect"
    /\ Goto(p, "look")
    /\ UNCHANGED <<schema, lock, migrated, outcome, announced>>

\* The server is down, or goes down: connect and every statement can fail.
\* The OnceCell stays empty, and the process ends.
DatabaseFails(p) ==
    /\ pc[p] \in {"connect", "look", "create", "call"}
    /\ End(p, "error")
    /\ UNCHANGED <<schema, lock, announced>>

Statement(p) == Statements[migrated[p] + 1]

\* The next statement, or after the last the use of the connection.
Advance(p) ==
    /\ migrated' = [migrated EXCEPT ![p] = @ + 1]
    /\ Goto(p, IF migrated'[p] < Len(Statements) THEN "look"
               ELSE IF p \in Daemons THEN "bind" ELSE "call")
    /\ UNCHANGED <<lock, outcome, announced>>

\* IF NOT EXISTS looks the name up among what is committed ...
Skip(p) ==
    /\ pc[p] = "look"
    /\ Statement(p) \in schema
    /\ Advance(p)
    /\ UNCHANGED schema

Look(p) ==
    /\ pc[p] = "look"
    /\ Statement(p) \notin schema
    /\ Goto(p, "create")
    /\ UNCHANGED <<schema, lock, migrated, outcome, announced>>

\* ... and CREATE then enters it, after whoever is entering the same name.
Create(p) ==
    /\ pc[p] = "create"
    /\ Statement(p) \notin schema
    /\ schema' = schema \cup {Statement(p)}
    /\ Advance(p)

Duplicate(p) ==
    /\ pc[p] = "create"
    /\ Statement(p) \in schema
    /\ End(p, "duplicate")
    /\ UNCHANGED <<schema, lock, announced>>

\* A command's one call of the store; a failing call is DatabaseFails.
Call(p) ==
    /\ pc[p] = "call"
    /\ End(p, "result")
    /\ UNCHANGED <<schema, lock, announced>>

-----------------------------------------------------------------------------
(* The body of the daemon.  It serves until it is killed.                  *)

Bind(p) ==
    /\ pc[p] = "bind"
    /\ Goto(p, "acquire")
    /\ UNCHANGED <<schema, lock, migrated, outcome, announced>>

BindFails(p) ==
    /\ pc[p] = "bind"
    /\ End(p, "error")
    /\ UNCHANGED <<schema, lock, announced>>

\* try_acquire publishes the URL with the lock.  The socket listens already.
Acquire(p) ==
    /\ pc[p] = "acquire"
    /\ lock = Nobody
    /\ lock' = p
    /\ Goto(p, "serve")
    /\ UNCHANGED <<schema, migrated, outcome, announced>>

GiveUp(p) ==
    /\ pc[p] = "acquire"
    /\ lock # Nobody
    /\ End(p, "held")
    /\ UNCHANGED <<schema, lock, announced>>

-----------------------------------------------------------------------------
(* The launcher.                                                           *)

\* The host's daemon is up, and will have `daemon begin` launched.
Spawn(p) ==
    /\ pc[p] = "spawn"
    /\ Goto(p, "wait")
    /\ UNCHANGED <<schema, lock, migrated, outcome, announced>>

HostFails(p) ==
    /\ pc[p] \in {"spawn", "wait"}
    /\ End(p, "error")
    /\ UNCHANGED <<schema, lock, announced>>

\* wait_read returns what a live holder has published, whenever that is.
Announce(p) ==
    /\ pc[p] = "wait"
    /\ lock # Nobody
    /\ announced' = [announced EXCEPT ![p] = lock]
    /\ End(p, "result")
    /\ UNCHANGED <<schema, lock>>

-----------------------------------------------------------------------------

\* A process is killed.  Its lock goes with it; a CREATE it has sent may
\* still be run by the database.
Kill(p) ==
    /\ Running(p)
    /\ End(p, "killed")
    /\ lock' = IF lock = p THEN Nobody ELSE lock
    /\ \/ schema' = schema
       \/ pc[p] = "create" /\ schema' = schema \cup {Statement(p)}
    /\ UNCHANGED announced

Begin(p) == Inform(p) \/ Misconfigured(p) \/ Dispatch(p)

Proceed(p) ==
    \/ Connect(p) \/ Skip(p) \/ Look(p) \/ Create(p) \/ Duplicate(p) \/ Call(p)
    \/ Bind(p) \/ Acquire(p) \/ GiveUp(p)
    \/ Spawn(p) \/ Announce(p)

Fail(p) == Untargeted(p) \/ DatabaseFails(p) \/ BindFails(p) \/ HostFails(p)

Next == \E p \in Procs : Begin(p) \/ Proceed(p) \/ Fail(p) \/ Kill(p)

\* A running process goes on; nobody has to start, to fail or to be killed.
Spec == Init /\ [][Next]_vars /\ \A p \in Procs : WF_vars(Proceed(p))

-----------------------------------------------------------------------------

Connected(p) == pc[p] \in {"call", "bind", "acquire", "serve"}

\* Who has connected finds every table and index, however many others were
\* creating them and wherever one of those died.
ConnectedFindsTheSchema == \A p \in Procs : Connected(p) => schema = Objects

\* At most one daemon serves, and it is the one that launchers are told of.
OneServer == \A p \in Daemons : pc[p] = "serve" => lock = p

\* An announced URL is one where a daemon listens and serves, until that
\* daemon is killed.
AnnouncedServes ==
    \A p \in Launchers : announced[p] # Nobody =>
        \/ pc[announced[p]] = "serve"
        \/ pc[announced[p]] = "over" /\ outcome[announced[p]] = "killed"

\* What a process has been through is committed, and it uses its connection
\* only after the last statement: no process relies on another's CREATE
\* before it is there.
MigratedIsCommitted ==
    \A p \in Procs :
        /\ \A i \in 1 .. migrated[p] : Statements[i] \in schema
        /\ pc[p] \in {"unborn", "connect"} => migrated[p] = 0
        /\ pc[p] \in {"look", "create"} => migrated[p] < Len(Statements)
        /\ Connected(p) => migrated[p] = Len(Statements)

\* The lock is held by a daemon that serves: nobody keeps it who has failed.
HolderServes == lock # Nobody => pc[lock] = "serve"

\* Only daemons go for the lock, only launchers wait for it, and those do not
\* use the database.
RolesAreKept ==
    \A p \in Procs :
        /\ pc[p] \in {"bind", "acquire", "serve"} => p \in Daemons
        /\ pc[p] \in {"spawn", "wait"} => p \in Launchers
        /\ pc[p] \in {"connect", "look", "create", "call"} => p \notin Launchers

\* The inductive invariant the proofs rest on.
IInv ==
    /\ TypeOK
    /\ RolesAreKept
    /\ MigratedIsCommitted
    /\ OneServer
    /\ HolderServes
    /\ AnnouncedServes

\* As long as some daemon runs, a launcher does not wait for ever: one that
\* fails on the way leaves, and does not keep the lock from the others.
LaunchersAreAnswered ==
    \A p \in Launchers :
        pc[p] = "wait" ~> \/ pc[p] # "wait"
                          \/ \A d \in Daemons : ~ Running(d)

\* To whoever looks for its URL, what counts is the service: one daemon after
\* another serves, never two, none again that has ended, and a launcher prints
\* one URL once, of the daemon that serves at that moment.
Provided == INSTANCE Service WITH
    serving <- {d \in Daemons : pc[d] = "serve"},
    gone    <- {d \in Daemons : pc[d] = "over"},
    told    <- announced

ImplementsService == Provided!Spec

\* Connecting fails only if the database cannot be reached.
ConnectsIfReachable == \A p \in Procs : outcome[p] # "duplicate"
=============================================================================
