----------------------------- MODULE DaemonProofs -----------------------------
(***************************************************************************)
(* What the run of Daemon checks on a small instance, proved for any       *)
(* number of commands, daemons and launchers and any schema.               *)
(***************************************************************************)
EXTENDS Daemon, TLAPS

LEMMA StatementIsAnObject ==
    ASSUME TypeOK, NEW p \in Procs, migrated[p] < Len(Statements)
    PROVE  /\ Statement(p) \in Objects
           /\ migrated[p] + 1 \in 1 .. Len(Statements)
BY StatementsAssumption DEF TypeOK, Statement, Objects

\* A process that is not serving ends without touching the lock.
LEMMA EndKeepsIInv ==
    ASSUME IInv, NEW p \in Procs, NEW how \in Outcomes, End(p, how),
           pc[p] \notin {"serve", "over"}, UNCHANGED <<schema, lock, announced>>
    PROVE  IInv'
<1> USE ProcsAssumption, StatementsAssumption DEF IInv, TypeOK, End, Goto
<1>1. TypeOK'
  BY DEF Labels
<1>2. RolesAreKept'
  BY DEF RolesAreKept
<1>3. MigratedIsCommitted'
  BY DEF MigratedIsCommitted, Connected
<1>4. OneServer' /\ HolderServes'
  BY DEF OneServer, HolderServes, Procs
<1>5. AnnouncedServes'
  BY DEF AnnouncedServes, Procs
<1> QED BY <1>1, <1>2, <1>3, <1>4, <1>5

\* A process that is not serving goes on to a label other than "serve".
LEMMA GotoKeepsIInv ==
    ASSUME IInv, NEW p \in Procs, NEW label \in Labels, Goto(p, label),
           pc[p] \notin {"serve", "over"}, label # "serve",
           label \in {"bind", "acquire"} => p \in Daemons,
           label \in {"spawn", "wait"} => p \in Launchers,
           label \in {"connect", "look", "create", "call"}
                => p \notin Launchers,
           label \in {"unborn", "connect"} => migrated[p] = 0,
           label \in {"look", "create"} => migrated[p] < Len(Statements),
           label \in {"call", "bind", "acquire"}
                => migrated[p] = Len(Statements),
           UNCHANGED <<schema, lock, migrated, outcome, announced>>
    PROVE  IInv'
<1> USE ProcsAssumption, StatementsAssumption DEF IInv, TypeOK, Goto
<1>1. TypeOK'
  OBVIOUS
<1>2. RolesAreKept'
  BY DEF RolesAreKept
<1>3. MigratedIsCommitted'
  BY DEF MigratedIsCommitted, Connected
<1>4. OneServer' /\ HolderServes'
  BY DEF OneServer, HolderServes, Procs
<1>5. AnnouncedServes'
  BY DEF AnnouncedServes, Procs
<1> QED BY <1>1, <1>2, <1>3, <1>4, <1>5

\* A statement of migrate that is through is, from then on, committed.
LEMMA AdvanceKeepsIInv ==
    ASSUME IInv, NEW p \in Procs, Advance(p), pc[p] \in {"look", "create"},
           schema' \in SUBSET Objects, schema \subseteq schema',
           Statement(p) \in schema'
    PROVE  IInv'
<1> USE ProcsAssumption, StatementsAssumption DEF IInv, TypeOK, Advance, Goto
<1>1. migrated[p] < Len(Statements) /\ Len(Statements) \in Nat
  BY DEF MigratedIsCommitted
<1>2. migrated'[p] = migrated[p] + 1 /\ migrated'[p] \in 0 .. Len(Statements)
  BY <1>1
<1>3. TypeOK'
  BY <1>1, <1>2 DEF Labels
<1>4. RolesAreKept'
  BY <1>2 DEF RolesAreKept
<1>5. MigratedIsCommitted'
  <2> SUFFICES ASSUME NEW q \in Procs
               PROVE  /\ \A i \in 1 .. migrated'[q] : Statements[i] \in schema'
                      /\ pc'[q] \in {"unborn", "connect"} => migrated'[q] = 0
                      /\ pc'[q] \in {"look", "create"}
                            => migrated'[q] < Len(Statements)
                      /\ Connected(q)' => migrated'[q] = Len(Statements)
    BY DEF MigratedIsCommitted
  <2>1. CASE q = p
    BY <1>1, <1>2, <2>1 DEF MigratedIsCommitted, Connected, Statement
  <2>2. CASE q # p
    BY <2>2 DEF MigratedIsCommitted, Connected
  <2> QED BY <2>1, <2>2
<1>6. OneServer' /\ HolderServes'
  BY DEF OneServer, HolderServes, Procs
<1>7. AnnouncedServes'
  BY DEF AnnouncedServes, Procs
<1> QED BY <1>3, <1>4, <1>5, <1>6, <1>7

-----------------------------------------------------------------------------

LEMMA InitIInv == Init => IInv
BY ProcsAssumption, StatementsAssumption
   DEF Init, IInv, TypeOK, Labels, Outcomes, RolesAreKept,
       MigratedIsCommitted, Connected, OneServer, HolderServes,
       AnnouncedServes, Objects, Procs

LEMMA BeginKeepsIInv ==
    ASSUME IInv, NEW p \in Procs, Begin(p)
    PROVE  IInv'
<1>1. CASE Inform(p)
  BY <1>1, EndKeepsIInv DEF Inform, Outcomes
<1>2. CASE Misconfigured(p)
  BY <1>2, EndKeepsIInv DEF Misconfigured, Outcomes
<1>3. CASE Dispatch(p)
  BY <1>3, GotoKeepsIInv DEF Dispatch, Labels, IInv, MigratedIsCommitted
<1> QED BY <1>1, <1>2, <1>3 DEF Begin

LEMMA MigrateKeepsIInv ==
    ASSUME IInv, NEW p \in Procs,
           \/ Untargeted(p) \/ Connect(p) \/ DatabaseFails(p)
           \/ Skip(p) \/ Look(p) \/ Create(p) \/ Duplicate(p) \/ Call(p)
    PROVE  IInv'
<1>1. CASE Untargeted(p) \/ DatabaseFails(p) \/ Duplicate(p) \/ Call(p)
  BY <1>1, EndKeepsIInv
     DEF Untargeted, DatabaseFails, Duplicate, Call, Outcomes
<1>2. CASE Connect(p)
  BY <1>2, GotoKeepsIInv, StatementsAssumption
     DEF Connect, Labels, IInv, MigratedIsCommitted, RolesAreKept
<1>3. CASE Look(p)
  BY <1>3, GotoKeepsIInv
     DEF Look, Labels, IInv, MigratedIsCommitted, RolesAreKept
<1>4. CASE Skip(p)
  BY <1>4, AdvanceKeepsIInv DEF Skip, IInv, TypeOK
<1>5. CASE Create(p)
  <2>1. Statement(p) \in Objects
    BY <1>5, StatementIsAnObject DEF Create, IInv, MigratedIsCommitted
  <2> QED BY <1>5, <2>1, AdvanceKeepsIInv DEF Create, IInv, TypeOK
<1> QED BY <1>1, <1>2, <1>3, <1>4, <1>5

LEMMA ServeKeepsIInv ==
    ASSUME IInv, NEW p \in Procs,
           Bind(p) \/ BindFails(p) \/ Acquire(p) \/ GiveUp(p)
    PROVE  IInv'
<1>1. CASE BindFails(p) \/ GiveUp(p)
  BY <1>1, EndKeepsIInv DEF BindFails, GiveUp, Outcomes
<1>2. CASE Bind(p)
  BY <1>2, GotoKeepsIInv
     DEF Bind, Labels, IInv, RolesAreKept, MigratedIsCommitted, Connected
<1>3. CASE Acquire(p)
  <2> USE <1>3, ProcsAssumption, StatementsAssumption
          DEF IInv, TypeOK, Acquire, Goto
  <2>1. p \in Daemons
    BY DEF RolesAreKept
  <2>2. TypeOK'
    BY <2>1 DEF Labels
  <2>3. RolesAreKept'
    BY <2>1 DEF RolesAreKept
  <2>4. MigratedIsCommitted'
    BY DEF MigratedIsCommitted, Connected
  <2>5. OneServer' /\ HolderServes'
    BY <2>1 DEF OneServer, HolderServes, Procs
  <2>6. AnnouncedServes'
    BY DEF AnnouncedServes, Procs
  <2> QED BY <2>2, <2>3, <2>4, <2>5, <2>6
<1> QED BY <1>1, <1>2, <1>3

LEMMA LaunchKeepsIInv ==
    ASSUME IInv, NEW p \in Procs, Spawn(p) \/ HostFails(p) \/ Announce(p)
    PROVE  IInv'
<1>1. CASE Spawn(p)
  BY <1>1, GotoKeepsIInv DEF Spawn, Labels, IInv, RolesAreKept
<1>2. CASE HostFails(p)
  BY <1>2, EndKeepsIInv DEF HostFails, Outcomes
<1>3. CASE Announce(p)
  <2> USE <1>3, ProcsAssumption, StatementsAssumption
          DEF IInv, TypeOK, Announce, End, Goto
  <2>1. p \in Launchers /\ lock \in Daemons /\ lock # p
    BY DEF RolesAreKept
  <2>2. TypeOK'
    BY <2>1 DEF Labels, Outcomes
  <2>3. RolesAreKept'
    BY DEF RolesAreKept
  <2>4. MigratedIsCommitted'
    BY DEF MigratedIsCommitted, Connected
  <2>5. OneServer' /\ HolderServes'
    BY DEF OneServer, HolderServes, Procs
  <2>6. AnnouncedServes'
    BY <2>1 DEF AnnouncedServes, HolderServes, Procs
  <2> QED BY <2>2, <2>3, <2>4, <2>5, <2>6
<1> QED BY <1>1, <1>2, <1>3

LEMMA KillKeepsIInv ==
    ASSUME IInv, NEW p \in Procs, Kill(p)
    PROVE  IInv'
<1> USE ProcsAssumption, StatementsAssumption
        DEF IInv, TypeOK, Kill, Running, End, Goto
<1>1. schema' \in SUBSET Objects /\ schema \subseteq schema'
  <2>1. CASE pc[p] = "create"
    BY <2>1, StatementIsAnObject DEF MigratedIsCommitted
  <2>2. CASE pc[p] # "create"
    BY <2>2
  <2> QED BY <2>1, <2>2
<1>2. TypeOK'
  BY <1>1 DEF Labels, Outcomes
<1>3. RolesAreKept'
  BY DEF RolesAreKept
<1>4. MigratedIsCommitted'
  BY <1>1 DEF MigratedIsCommitted, Connected
<1>5. OneServer' /\ HolderServes'
  BY DEF OneServer, HolderServes, Procs
<1>6. AnnouncedServes'
  BY DEF AnnouncedServes, Procs
<1> QED BY <1>2, <1>3, <1>4, <1>5, <1>6

LEMMA NextKeepsIInv == IInv /\ [Next]_vars => IInv'
<1> SUFFICES ASSUME IInv, [Next]_vars
             PROVE  IInv'
  OBVIOUS
<1>1. ASSUME NEW p \in Procs, Begin(p) \/ Proceed(p) \/ Fail(p) \/ Kill(p)
      PROVE  IInv'
  BY <1>1, BeginKeepsIInv, MigrateKeepsIInv, ServeKeepsIInv,
     LaunchKeepsIInv, KillKeepsIInv DEF Proceed, Fail
<1>2. CASE UNCHANGED vars
  BY <1>2 DEF vars, IInv, TypeOK, RolesAreKept, MigratedIsCommitted,
              Connected, OneServer, HolderServes, AnnouncedServes
<1> QED BY <1>1, <1>2 DEF Next

\* The inductive invariant: what a process has migrated is committed, the
\* holder of the lock serves, and so does what launchers have announced.
THEOREM Invariance == Spec => []IInv
BY InitIInv, NextKeepsIInv, PTL DEF Spec

\* Every variable keeps its type.
THEOREM TypeCorrectness == Spec => []TypeOK
BY Invariance, PTL DEF IInv

\* A process that has connected finds the whole schema (Db::connect), however
\* many were migrating at once and wherever one died.
THEOREM SchemaIsThere == Spec => []ConnectedFindsTheSchema
<1>1. IInv => ConnectedFindsTheSchema
  <2> SUFFICES ASSUME IInv, NEW p \in Procs, Connected(p)
               PROVE  schema = Objects
    BY DEF ConnectedFindsTheSchema
  <2>1. \A i \in 1 .. Len(Statements) : Statements[i] \in schema
    BY DEF IInv, MigratedIsCommitted
  <2> QED BY <2>1, StatementsAssumption DEF Objects, IInv, TypeOK
<1> QED BY Invariance, <1>1, PTL

\* At most one daemon of a state directory serves (mcp::run).
THEOREM SingleInstance == Spec => []OneServer
BY Invariance, PTL DEF IInv

\* What a launcher announces is a daemon that serves until it is killed.
THEOREM AnnouncementsHold == Spec => []AnnouncedServes
BY Invariance, PTL DEF IInv

-----------------------------------------------------------------------------
(* The service *)

Serving == {d \in Daemons : pc[d] = "serve"}
Gone    == {d \in Daemons : pc[d] = "over"}

\* A launcher that has announced has ended with it.
AnnouncersAreOver ==
    \A l \in Launchers : announced[l] # Nobody => pc[l] = "over"

LEMMA DaemonsAreProcs == Daemons \subseteq Procs /\ Launchers \subseteq Procs
BY DEF Procs

\* A process that neither serves nor is about to is nothing to the service;
\* when it ends, it is one that no longer can.
LEMMA EndOnService ==
    ASSUME IInv, NEW p \in Procs, NEW how, End(p, how), pc[p] # "over",
           UNCHANGED announced
    PROVE  Provided!Next \/ UNCHANGED <<Serving, Gone, announced>>
<1> USE DEF IInv, TypeOK, End, Goto
<1>1. CASE p \in Daemons
  <2>1. /\ p \notin Gone
        /\ Serving' = Serving \ {p} /\ Gone' = Gone \cup {p}
    BY <1>1, DaemonsAreProcs DEF Serving, Gone
  <2>2. Provided!Stop(p)
    BY <2>1 DEF Provided!Stop, Serving, Gone
  <2> QED BY <1>1, <2>2 DEF Provided!Next
<1>2. CASE p \notin Daemons
  BY <1>2 DEF Serving, Gone
<1> QED BY <1>1, <1>2

LEMMA GotoOnService ==
    ASSUME IInv, NEW p \in Procs, NEW label, Goto(p, label),
           pc[p] \notin {"serve", "over"}, label \notin {"serve", "over"},
           UNCHANGED announced
    PROVE  UNCHANGED <<Serving, Gone, announced>>
BY DaemonsAreProcs DEF IInv, TypeOK, Goto, Serving, Gone

\* Who gets the lock finds no one serving, for the server holds it.
LEMMA AcquireOnService ==
    ASSUME IInv, NEW p \in Procs, Acquire(p)
    PROVE  Provided!Next
<1> USE DEF IInv, TypeOK, Acquire, Goto
<1>1. p \in Daemons
  BY DEF RolesAreKept
<1>2. Serving = {} /\ p \notin Gone
  BY ProcsAssumption DEF OneServer, Serving, Gone, Procs
<1>3. Serving' = {p} /\ Gone' = Gone
  BY <1>1, <1>2, DaemonsAreProcs DEF Serving, Gone
<1>4. Provided!Start(p)
  BY <1>2, <1>3 DEF Provided!Start, Serving, Gone
<1> QED BY <1>1, <1>4 DEF Provided!Next

\* Who is announced serves at that moment, for the holder does; a launcher
\* that has announced is over.
LEMMA AnnounceOnService ==
    ASSUME IInv, AnnouncersAreOver, NEW p \in Procs, Announce(p)
    PROVE  Provided!Next
<1> USE DEF IInv, TypeOK, Announce, End, Goto
<1>1. p \in Launchers /\ p \notin Daemons
  BY ProcsAssumption DEF RolesAreKept
<1>2. lock \in Serving
  BY DEF HolderServes, Serving
<1>3. Serving' = Serving /\ Gone' = Gone
  BY <1>1, DaemonsAreProcs DEF Serving, Gone
<1>4. announced[p] = Nobody
  BY <1>1 DEF AnnouncersAreOver
<1>5. Provided!Tell(p, lock)
  BY <1>2, <1>3, <1>4 DEF Provided!Tell, Serving, Gone
<1> QED BY <1>1, <1>2, <1>5 DEF Provided!Next, Serving

LEMMA AnnouncersStayOver ==
    ASSUME IInv, AnnouncersAreOver, Next
    PROVE  AnnouncersAreOver'
<1> USE DEF IInv, TypeOK, Goto
<1>1. PICK p \in Procs : Begin(p) \/ Proceed(p) \/ Fail(p) \/ Kill(p)
  BY DEF Next
<1>2. \A q \in Procs : pc[q] = "over" => pc'[q] = "over"
  <2>1. pc[p] # "over"
    BY <1>1 DEF Begin, Proceed, Fail, Inform, Misconfigured, Dispatch,
                Untargeted, Connect, DatabaseFails, Skip, Look, Create,
                Duplicate, Call, Bind, BindFails, Acquire, GiveUp, Spawn,
                HostFails, Announce, Kill, Running
  <2>2. \A q \in Procs \ {p} : pc'[q] = pc[q]
    BY <1>1 DEF Begin, Proceed, Fail, Inform, Misconfigured, Dispatch,
                Untargeted, Connect, DatabaseFails, Skip, Look, Create,
                Duplicate, Call, Bind, BindFails, Acquire, GiveUp, Spawn,
                HostFails, Announce, Kill, End, Advance
  <2> QED BY <2>1, <2>2
<1>3. CASE announced' = announced
  BY <1>2, <1>3, DaemonsAreProcs DEF AnnouncersAreOver
<1>4. CASE Announce(p)
  BY <1>2, <1>4, DaemonsAreProcs DEF Announce, End, AnnouncersAreOver
<1>5. announced' = announced \/ Announce(p)
  BY <1>1 DEF Begin, Proceed, Fail, Inform, Misconfigured, Dispatch,
              Untargeted, Connect, DatabaseFails, Skip, Look, Create,
              Duplicate, Call, Bind, BindFails, Acquire, GiveUp, Spawn,
              HostFails, Kill, Advance
<1> QED BY <1>3, <1>4, <1>5

LEMMA StepOnService ==
    ASSUME IInv, AnnouncersAreOver, NEW p \in Procs,
           Begin(p) \/ Proceed(p) \/ Fail(p) \/ Kill(p)
    PROVE  Provided!Next \/ UNCHANGED <<Serving, Gone, announced>>
<1>1. CASE \/ Inform(p) \/ Misconfigured(p) \/ Untargeted(p) \/ DatabaseFails(p)
           \/ Duplicate(p) \/ Call(p) \/ BindFails(p) \/ GiveUp(p)
           \/ HostFails(p) \/ Kill(p)
  <2>1. /\ pc[p] # "over" /\ UNCHANGED announced
        /\ \E how \in Outcomes : End(p, how)
    BY <1>1 DEF Inform, Misconfigured, Untargeted, DatabaseFails, Duplicate,
                Call, BindFails, GiveUp, HostFails, Kill, Running, Outcomes
  <2> QED BY <2>1, EndOnService
<1>2. CASE \/ Dispatch(p) \/ Connect(p) \/ Skip(p) \/ Look(p) \/ Create(p)
           \/ Bind(p) \/ Spawn(p)
  <2>1. /\ pc[p] \notin {"serve", "over"} /\ UNCHANGED announced
        /\ \E label \in Labels \ {"serve", "over"} : Goto(p, label)
    BY <1>2 DEF Dispatch, Connect, Skip, Look, Create, Advance, Bind, Spawn,
                Labels
  <2> QED BY <2>1, GotoOnService
<1> QED BY <1>1, <1>2, AcquireOnService, AnnounceOnService
        DEF Begin, Proceed, Fail

\* The daemons of a state directory and its lock file implement one service:
\* one daemon after another serves, never two, none again that has ended, and
\* a launcher is told one URL, once, of the daemon that serves at that moment.
THEOREM ServiceRefinement == Spec => ImplementsService
<1>1. Init => AnnouncersAreOver
  BY DEF Init, AnnouncersAreOver
<1>2. IInv /\ AnnouncersAreOver /\ [Next]_vars => AnnouncersAreOver'
  BY AnnouncersStayOver DEF AnnouncersAreOver, vars
<1>3. Init => Provided!Init
  BY DaemonsAreProcs DEF Init, Provided!Init
<1>4. IInv /\ AnnouncersAreOver /\ [Next]_vars
        => [Provided!Next]_(Provided!vars)
  <2> SUFFICES ASSUME IInv, AnnouncersAreOver, [Next]_vars
               PROVE  Provided!Next \/ UNCHANGED Provided!vars
    OBVIOUS
  <2>1. CASE UNCHANGED vars
    BY <2>1 DEF vars, Provided!vars
  <2>2. CASE Next
    BY <2>2, StepOnService DEF Next, Provided!vars, Serving, Gone
  <2> QED BY <2>1, <2>2
<1> QED
  BY Invariance, <1>1, <1>2, <1>3, <1>4, PTL
     DEF Spec, ImplementsService, Provided!Spec

-----------------------------------------------------------------------------
(* When connecting cannot fail for another's sake                          *)

\* Who looks for a table or creates it does so alone, or all of it is there.
OneMigrates ==
    \/ schema = Objects
    \/ \A p, q \in Procs :
           {pc[p], pc[q]} \subseteq {"look", "create"} => p = q

\* What a process is about to create is not there.
NoneIsAhead == \A p \in Procs : pc[p] = "create" => Statement(p) \notin schema

LEMMA AloneNoneIsAhead ==
    ASSUME IInv, OneMigrates, NoneIsAhead, ConnectsIfReachable, Next
    PROVE  NoneIsAhead' /\ ConnectsIfReachable'
<1> USE DEF IInv, TypeOK, Goto
<1>1. PICK p \in Procs : Begin(p) \/ Proceed(p) \/ Fail(p) \/ Kill(p)
  BY DEF Next
<1> USE <1>1 DEF Begin, Proceed, Fail, Inform, Misconfigured, Dispatch,
        Untargeted, Connect, DatabaseFails, Skip, Look, Create, Call, Bind,
        BindFails, Acquire, GiveUp, Spawn, HostFails, Announce, Kill, Advance,
        End
<1>2. ~ Duplicate(p)
  BY DEF Duplicate, NoneIsAhead
<1>3. ConnectsIfReachable'
  BY <1>2 DEF ConnectsIfReachable
<1>4. \A q \in Procs \ {p} : /\ pc'[q] = pc[q] /\ migrated'[q] = migrated[q]
  BY <1>2
<1>5. pc'[p] = "create" => Look(p) /\ migrated' = migrated /\ schema' = schema
  BY <1>2
<1>6. schema' = schema \/ pc[p] = "create"
  BY <1>2
<1>7. ASSUME NEW q \in Procs, pc'[q] = "create"
      PROVE  Statement(q)' \notin schema'
  <2>1. CASE q = p
    BY <1>5, <1>7, <2>1 DEF Statement
  <2>2. CASE q # p
    <3>1. pc[q] = "create" /\ Statement(q)' = Statement(q)
      BY <1>4, <1>7, <2>2 DEF Statement
    <3>2. schema # Objects
      <4>1. migrated[q] < Len(Statements)
        BY <3>1 DEF MigratedIsCommitted
      <4>2. Statement(q) \in Objects
        BY <4>1, StatementIsAnObject
      <4> QED BY <3>1, <4>2 DEF NoneIsAhead
    <3>3. pc[p] # "create"
      BY <2>2, <3>1, <3>2 DEF OneMigrates
    <3> QED BY <1>6, <3>1, <3>3 DEF NoneIsAhead
  <2> QED BY <2>1, <2>2
<1> QED BY <1>3, <1>7 DEF NoneIsAhead

\* Connecting fails only if the database cannot be reached, if no two
\* processes are in Db::migrate at once while the schema is not complete.
THEOREM MigratingAloneConnects ==
    Spec /\ []OneMigrates => []ConnectsIfReachable
<1>1. Init => NoneIsAhead /\ ConnectsIfReachable
  BY DEF Init, NoneIsAhead, ConnectsIfReachable
<1>2. IInv /\ OneMigrates /\ NoneIsAhead /\ ConnectsIfReachable /\ [Next]_vars
        => NoneIsAhead' /\ ConnectsIfReachable'
  <2>1. ASSUME UNCHANGED vars, NoneIsAhead, ConnectsIfReachable
        PROVE  NoneIsAhead' /\ ConnectsIfReachable'
    BY <2>1 DEF vars, NoneIsAhead, ConnectsIfReachable, Statement
  <2> QED BY <2>1, AloneNoneIsAhead
<1> QED BY Invariance, <1>1, <1>2, PTL DEF Spec

\* Once the schema is complete, any number of processes connect at once.
THEOREM MigratedConnects ==
    Spec /\ schema = Objects => []ConnectsIfReachable
<1>1. IInv /\ schema = Objects /\ [Next]_vars => (schema = Objects)'
  <2> SUFFICES ASSUME IInv, schema = Objects, [Next]_vars, IInv'
               PROVE  schema' = Objects
    <3>1. IInv /\ [Next]_vars => IInv'
      BY NextKeepsIInv
    <3> QED BY <3>1
  <2>1. schema \subseteq schema'
    BY DEF Next, vars, Begin, Proceed, Fail, Inform, Misconfigured, Dispatch,
           Untargeted, Connect, DatabaseFails, Skip, Look, Create, Duplicate,
           Call, Bind, BindFails, Acquire, GiveUp, Spawn, HostFails, Announce,
           Kill
  <2> QED BY <2>1 DEF IInv, TypeOK
<1>2. schema = Objects => OneMigrates
  BY DEF OneMigrates
<1>3. Spec /\ schema = Objects => [](schema = Objects)
  BY Invariance, <1>1, PTL DEF Spec
<1> QED BY <1>2, <1>3, MigratingAloneConnects, PTL

\* So does a process that has the database to itself, however many launchers
\* there are.
THEOREM AloneConnects ==
    ASSUME NEW p \in Procs, Commands \cup Daemons = {p}
    PROVE  Spec => []ConnectsIfReachable
<1>1. IInv => OneMigrates
  <2>1. IInv => \A q \in Procs : pc[q] \in {"look", "create"} =>
                    q \in Commands \cup Daemons
    BY DEF IInv, RolesAreKept, Procs
  <2> QED BY <2>1 DEF OneMigrates
<1> QED BY <1>1, Invariance, MigratingAloneConnects, PTL
===============================================================================
