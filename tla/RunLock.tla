------------------------------- MODULE RunLock -------------------------------
(***************************************************************************)
(* run_lock.py and what it is for: adprofiler.py, entra_graph_collector.py *)
(* and adaudit.py processes started at any moment against one database.    *)
(*                                                                         *)
(* A collector works its changes out from what it reads of the previous    *)
(* run and then commits them, adprofiler.py in one transaction,            *)
(* entra_graph_collector.py table by table; adaudit.py runs one plugin     *)
(* after another, each on what is committed when it runs.                  *)
(***************************************************************************)
EXTENDS Naturals

CONSTANTS
  Collectors,  \* processes of adprofiler.py and entra_graph_collector.py
  Audits,      \* processes of adaudit.py
  MaxCommits,  \* bound: commits of one collector process
  MaxPlugins   \* bound: plugins of one adaudit.py process

Processes == Collectors \cup Audits

ASSUME ScriptsAssumption == Collectors \cap Audits = {}
ASSUME BoundsAssumption == MaxCommits \in Nat /\ MaxPlugins \in Nat

VARIABLES
  pc,       \* each process: "new", "connected", "working", "ended"
  session,  \* its lock connection as PostgreSQL sees it: "none", "open",
            \* "holding" the advisory lock
  data,     \* number of the committed state of the collected tables
  base,     \* the state a process has read, its own commits included
  done      \* commits made, or plugins run

lockVars == <<pc, session, data, base, done>>

-----------------------------------------------------------------------------
Holder == {p \in Processes : session[p] = "holding"}

\* Slip: a shared lock.
FreeShared == TRUE

\* pg_try_advisory_lock()
Free == Holder = {}

\* acquire(): the dedicated connection.
Connect(p) ==
  /\ pc[p] = "new"
  /\ pc' = [pc EXCEPT ![p] = "connected"]
  /\ session' = [session EXCEPT ![p] = "open"]
  /\ UNCHANGED <<data, base, done>>

\* The lock is taken; the first thing the process reads afterwards is the
\* database's current state.
Acquire(p) ==
  /\ pc[p] = "connected" /\ session[p] = "open"
  /\ Free
  /\ pc' = [pc EXCEPT ![p] = "working"]
  /\ session' = [session EXCEPT ![p] = "holding"]
  /\ base' = [base EXCEPT ![p] = data]
  /\ UNCHANGED <<data, done>>

\* RunLocked: the connection is closed, the script exits with EXIT_LOCKED.
RefuseLocked(p) ==
  /\ pc[p] = "connected" /\ session[p] = "open"
  /\ ~Free
  /\ pc' = [pc EXCEPT ![p] = "ended"]
  /\ session' = [session EXCEPT ![p] = "none"]
  /\ UNCHANGED <<data, base, done>>

\* A collector commits what it worked out.
CommitData(p) ==
  /\ pc[p] = "working" /\ p \in Collectors
  /\ done[p] < MaxCommits
  /\ done' = [done EXCEPT ![p] = @ + 1]
  /\ data' = data + 1
  /\ base' = [base EXCEPT ![p] = data']
  /\ UNCHANGED <<pc, session>>

\* adaudit.py runs a plugin on what is committed now.
RunPlugin(p) ==
  /\ pc[p] = "working" /\ p \in Audits
  /\ done[p] < MaxPlugins
  /\ done' = [done EXCEPT ![p] = @ + 1]
  /\ UNCHANGED <<pc, session, data, base>>

\* Normal end, error, Ctrl-C or kill: the process is gone.
Exit(p) ==
  /\ pc[p] \in {"connected", "working"}
  /\ pc' = [pc EXCEPT ![p] = "ended"]
  /\ UNCHANGED <<session, data, base, done>>

\* Slip: the connection is garbage-collected, and closed, during the run.
CloseSessionCollected(p) ==
  /\ session[p] # "none"
  /\ session' = [session EXCEPT ![p] = "none"]
  /\ UNCHANGED <<pc, data, base, done>>

\* The connection of a process that is gone is closed: by the operating
\* system, or once its keepalives are not answered any more, or by hand.
CloseSession(p) ==
  /\ pc[p] = "ended" /\ session[p] # "none"
  /\ session' = [session EXCEPT ![p] = "none"]
  /\ UNCHANGED <<pc, data, base, done>>

-----------------------------------------------------------------------------
LockInit ==
  /\ pc = [p \in Processes |-> "new"]
  /\ session = [p \in Processes |-> "none"]
  /\ data = 0
  /\ base = [p \in Processes |-> 0]
  /\ done = [p \in Processes |-> 0]

LockNext ==
  \E p \in Processes :
    \/ Connect(p) \/ Acquire(p) \/ RefuseLocked(p)
    \/ CommitData(p) \/ RunPlugin(p)
    \/ Exit(p) \/ CloseSession(p)

LockSpec == LockInit /\ [][LockNext]_lockVars

-----------------------------------------------------------------------------
(* What must hold.                                                         *)

\* Types; a process that works is the one whose session holds the lock, and
\* one that has not connected has no session.
LockTypeOK ==
  /\ pc \in [Processes -> {"new", "connected", "working", "ended"}]
  /\ session \in [Processes -> {"none", "open", "holding"}]
  /\ data \in Nat
  /\ base \in [Processes -> Nat]
  /\ done \in [Processes -> Nat]
  /\ \A p \in Processes : /\ pc[p] = "working" => session[p] = "holding"
                          /\ pc[p] = "new" => session[p] = "none"

\* adprofiler.py, entra_graph_collector.py and adaudit.py never run at the
\* same time against the same database.
OneAtATime ==
  \A p, q \in Processes : pc[p] = "working" /\ pc[q] = "working" => p = q

\* The collected data changes only by a process' own commits while it works:
\* a collector's changes are worked out from the data they are applied to,
\* and every plugin of an adaudit.py run sees the same data, also after runs
\* that were killed between two commits and whose sessions outlived them.
NothingChangesUnderneath ==
  \A p \in Processes : pc[p] = "working" => base[p] = data

=============================================================================
