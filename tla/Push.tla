--------------------------------- MODULE Push ---------------------------------
(***************************************************************************)
(* adaudit_push.py: evaluation runs are sent to the ingest API, oldest     *)
(* first, each reconstructed from the findings' history: open the run,     *)
(* send its findings in batches, and with the newest the inventory of the  *)
(* directory, complete it.  Any request may fail, or be processed while    *)
(* its reply is lost; the next session starts again with the oldest run    *)
(* not known to be accepted, under the same run_uuid.                      *)
(*                                                                         *)
(* Evaluation runs come from Findings; Evidence implements that.  The API  *)
(* is external: it is modelled from what adaudit_push.py says and relies   *)
(* on.  A run's number stands for its run_uuid and for its place in the    *)
(* API's order.                                                            *)
(***************************************************************************)
EXTENDS Findings, FiniteSetsExt

CONSTANTS
  ObjectTypes,  \* INVENTORY_TYPES
  MaxSyncs      \* bound: collections
ASSUME MaxSyncsAssumption == MaxSyncs \in Nat \ {0}

\* A collection's number stands for the inventory of every type as it was
\* collected, which never comes back.
Syncs == 1..MaxSyncs

VARIABLES
  collected,  \* the last successful collection, and that of each run
  push,       \* control_evidence_run.push_status
  session,    \* the push session of a running adaudit.py
  api         \* what the API holds

vars == <<facts, runs, collected, push, session, api>>

Keys == Plugins \X Objects
KeyOf(f) == <<f.plugin, f.object>>

\* queue: the runs of the session still to do, the first being in progress
\* unless phase is "next".  inventory: the types to be sent with it.
NoSession == [phase |-> "none", queue |-> {}, only |-> FALSE, inventory |-> {}]
Current == Min(session.queue)

-----------------------------------------------------------------------------
(* A run as it is sent.                                                    *)

\* Slip: skipped and expired runs count (before adaudit.py 1.0.3).
PreviousAny(r) ==
  Max({0} \cup {s \in 1..(r - 1) : runs[s].status = "complete" /\ ~runs[s].filtered})

\* previous_run_id(): the run the labels are relative to; 0: there is none.
Previous(r) ==
  Max({0} \cup {s \in 1..(r - 1) : /\ runs[s].status = "complete"
                                   /\ ~runs[s].filtered
                                   /\ push[s] \notin {"skipped", "expired"}})

\* The version of a finding that is open at a run's end.
VersionAt(k, r) == {f \in OpenAt(facts, r) : KeyOf(f) = k}

\* The last closing of a finding after run p, up to run r.
LastClosed(k, p, r) ==
  LET closed == {f \in facts : KeyOf(f) = k /\ f.to # None /\ f.to > p /\ f.to <= r}
  IN {f \in closed : \A g \in closed : g.to <= f.to}

Item(k, content, label) == [key |-> k, content |-> content, label |-> label]

\* Slip: only what the run itself closed is sent as closed.
PayloadOwnClosings(r) ==
  {Item(KeyOf(f), f.content,
        IF VersionAt(KeyOf(f), Previous(r)) = {} THEN "NEW" ELSE "CHANGED")
     : f \in OpenAt(facts, r)}
  \cup
  {Item(KeyOf(f), None, "REMEDIATED") : f \in {g \in facts : /\ g.to = r
                                                           /\ VersionAt(KeyOf(g), r) = {}}}

\* build_findings(): what is open, and what has closed since the previous
\* run.
Payload(r) ==
  {Item(KeyOf(f), f.content,
        CASE VersionAt(KeyOf(f), Previous(r)) = {} -> "NEW"
          [] f \in VersionAt(KeyOf(f), Previous(r)) -> "UNCHANGED"
          [] OTHER -> "CHANGED")
     : f \in OpenAt(facts, r)}
  \cup
  {Item(KeyOf(f), None,
        IF \E g \in LastClosed(KeyOf(f), Previous(r), r) : g.change = "retired"
        THEN "RETIRED" ELSE "REMEDIATED")
     : f \in {g \in OpenAt(facts, Previous(r)) : VersionAt(KeyOf(g), r) = {}}}

\* push_runs(): inventory goes with the newest run, unless something has been
\* collected since.
CarriesInventory(r) == session.queue = {r} /\ collected.of[r] = collected.latest

\* Slip: what could be read of the inventory is sent.
InventoriesGot(r) == IF CarriesInventory(r) THEN SUBSET ObjectTypes ELSE {{}}

\* build_inventories(): every type (without rows, when there are none), or
\* nothing when the query of one failed or its plugin is missing.
Inventories(r) == IF CarriesInventory(r) THEN {{}, ObjectTypes} ELSE {{}}

-----------------------------------------------------------------------------
(* The ingest API.  done: the run_uuids it holds as COMPLETE.  partial: a  *)
(* run of which it has stored something without having completed it.       *)
(* inventory: by type, the collections of which it holds rows.  whole: the *)
(* last of which it took all types.                                        *)

Sent(item) == item.label \notin {"REMEDIATED", "RETIRED"}

\* Findings of a run older than the newest it holds are ignored.
Stored(open, items) ==
  [k \in Keys |-> IF \E i \in items : i.key = k
                  THEN (CHOOSE i \in items : i.key = k).content ELSE open[k]]

\* Findings that were not sent are closed if their plugin's result is clean.
Swept(open, items, roster) ==
  [k \in Keys |-> IF roster[k[1]] = "pass" /\ \A i \in items : i.key # k
                  THEN None ELSE open[k]]

ApiStores(r, items) ==
  api' = IF r < api.newest THEN api
         ELSE [api EXCEPT !.open = Stored(@, items), !.partial = r]

ApiStoresInventory(r, types) ==
  api' = IF r < api.newest THEN api
         ELSE [api EXCEPT !.partial = r,
                 !.inventory = [t \in ObjectTypes |->
                                  IF t \in types THEN @[t] \cup {collected.latest} ELSE @[t]]]

\* With any inventory: it is the complete picture.
InventorySwept(types) ==
  IF types = {} THEN api.inventory
  ELSE [t \in ObjectTypes |-> IF t \in types THEN {collected.latest} ELSE {}]

ApiCompletes(r, items, types) ==
  api' = IF r < api.newest
         THEN [api EXCEPT !.done = @ \cup {r}]
         ELSE [api EXCEPT !.done = @ \cup {r}, !.newest = r, !.partial = 0,
                          !.open = Swept(Stored(@, items), items, runs[r].roster),
                          !.inventory = InventorySwept(types),
                          !.whole = IF types = {} THEN @ ELSE collected.latest]

-----------------------------------------------------------------------------
(* The session.  adaudit.py evaluates, or pushes, or marks a run, and the  *)
(* collectors collect, one at a time: they hold the run lock.              *)

Local == <<facts, runs, collected>>

\* adprofiler.py, successful.
Collect ==
  /\ session.phase = "none"
  /\ collected.latest < MaxSyncs
  /\ collected' = [collected EXCEPT !.latest = @ + 1]
  /\ UNCHANGED <<facts, runs, push, session, api>>

\* An evaluation run; its row is inserted with its push_status, which
\* mark_run_aborted() may change.  A run left 'running' keeps 'pending'.
Run ==
  /\ session.phase = "none"
  /\ Next
  /\ LET new == runs'[Len(runs')] IN
       push' = Append(push, IF new.filtered \/ new.status = "aborted" THEN "skipped"
                            ELSE "pending")
  /\ collected' = [collected EXCEPT !.of = Append(@, collected.latest)]
  /\ UNCHANGED <<session, api>>

\* Slip: a run a crash left 'running' is pending like any other.
PushableUnfinished(r) == runs[r].status # "aborted" /\ ~runs[r].filtered

Pushable(r) == runs[r].status = "complete" /\ ~runs[r].filtered
Queued == {r \in DOMAIN runs : Pushable(r) /\ push[r] \in {"pending", "partial"}}

\* push_runs() of --push and --push-only
StartPush ==
  /\ session.phase = "none"
  /\ Queued # {}
  /\ session' = [NoSession EXCEPT !.phase = "next", !.queue = Queued]
  /\ UNCHANGED <<Local, push, api>>

\* --push-run: any complete run, whatever became of it before.
StartPushRun(r) ==
  /\ session.phase = "none"
  /\ Pushable(r)
  /\ session' = [NoSession EXCEPT !.phase = "next", !.queue = {r}, !.only = TRUE]
  /\ UNCHANGED <<Local, push, api>>

\* Not ahead of a run that is still queued, and not a run withheld before:
\* should the reply be lost, that one stays withheld while the API has it.
StartPushRunInOrder(r) ==
  /\ StartPushRun(r)
  /\ push[r] \notin {"skipped", "expired"}
  /\ \A s \in Queued : r <= s

Done(status) ==
  /\ push' = [push EXCEPT ![Current] = status]
  /\ session' = IF session.queue = {Current} THEN NoSession
                ELSE [session EXCEPT !.phase = "next", !.queue = @ \ {Current}, !.inventory = {}]

\* The run has become older than MAX_RUN_AGE.
Expire ==
  /\ session.phase = "next"
  /\ ~session.only
  /\ Done("expired")
  /\ UNCHANGED <<Local, api>>

\* What the API holds nothing of.
Untouched(r) == r \notin api.done /\ api.partial # r
ExpireUntouched == Expire /\ Untouched(Current)

\* open_run() is answered: already_ingested, or go on.
AlreadyIngested ==
  /\ session.phase = "next"
  /\ Current \in api.done
  /\ Done("pushed")
  /\ UNCHANGED <<Local, api>>

Open ==
  /\ session.phase = "next"
  /\ Current \notin api.done
  /\ \E types \in Inventories(Current) :
       session' = [session EXCEPT !.phase = "opened", !.inventory = types]
  /\ UNCHANGED <<Local, push, api>>

\* A batch of findings is stored, once or (its reply lost, the request
\* retried) several times.
SendBatch ==
  /\ session.phase = "opened"
  /\ \E batch \in SUBSET Payload(Current) : batch # {} /\ ApiStores(Current, batch)
  /\ UNCHANGED <<Local, push, session>>

\* A batch of inventory rows: all of a type's, or some.
SendInventory ==
  /\ session.phase = "opened"
  /\ \E types \in SUBSET session.inventory :
       types # {} /\ ApiStoresInventory(Current, types)
  /\ UNCHANGED <<Local, push, session>>

\* complete is answered COUNT_MISMATCH: the run is PARTIAL, the session ends.
Mismatch ==
  /\ session.phase = "opened"
  /\ push' = [push EXCEPT ![Current] = "partial"]
  /\ session' = NoSession
  /\ UNCHANGED <<Local, api>>

\* complete is accepted; the reply is on its way.
Accept ==
  /\ session.phase = "opened"
  /\ ApiCompletes(Current, Payload(Current), session.inventory)
  /\ session' = [session EXCEPT !.phase = "accepted"]
  /\ UNCHANGED <<Local, push>>

\* The reply arrives, or a retry of the request is answered
\* RUN_ALREADY_COMPLETE.
Acknowledge ==
  /\ session.phase = "accepted"
  /\ Done("pushed")
  /\ UNCHANGED <<Local, api>>

\* Requests keep failing, the API refuses (DOMAIN_PENDING, KEY_NOT_SCOPED),
\* or the process is killed: the run stays as it is.
GiveUp ==
  /\ session.phase # "none"
  /\ session' = NoSession
  /\ UNCHANGED <<Local, push, api>>

\* --push-skip
Skip(r) ==
  /\ session.phase = "none"
  /\ push[r] # "pushed"
  /\ push' = [push EXCEPT ![r] = "skipped"]
  /\ UNCHANGED <<Local, session, api>>

SkipUntouched(r) == Skip(r) /\ Untouched(r)

-----------------------------------------------------------------------------
PushInit ==
  /\ Init
  /\ push = <<>>
  /\ session = NoSession
  /\ collected = [latest |-> 1, of |-> <<>>]
  /\ api = [done |-> {}, newest |-> 0, partial |-> 0, open |-> [k \in Keys |-> None],
            inventory |-> [t \in ObjectTypes |-> {}], whole |-> 0]

Session ==
  \/ StartPush \/ AlreadyIngested \/ Open \/ SendBatch \/ SendInventory
  \/ Mismatch \/ Accept \/ Acknowledge \/ GiveUp

\* Runs are skipped, and expire, only if the API has nothing of them, and
\* --push-run is for runs that are queued first or already sent.
PushNext ==
  \/ Run \/ Collect
  \/ Session
  \/ ExpireUntouched
  \/ \E r \in DOMAIN runs : StartPushRunInOrder(r) \/ SkipUntouched(r)

PushSpec == PushInit /\ [][PushNext]_vars

\* --push-skip as it is, except for runs that are half sent.
SkipWhole(r) == Skip(r) /\ api.partial # r
SpecAnySkip == PushInit /\ [][PushNext \/ \E r \in DOMAIN runs : SkipWhole(r)]_vars

-----------------------------------------------------------------------------
(* What must hold.                                                         *)

SessionVars == [phase : {"none", "next", "opened", "accepted"},
                queue : SUBSET (1..MaxRuns), only : BOOLEAN,
                inventory : SUBSET ObjectTypes]

ApiVars == [done : SUBSET (1..MaxRuns), newest : 0..MaxRuns, partial : 0..MaxRuns,
            open : [Keys -> Contents \cup {None}],
            inventory : [ObjectTypes -> SUBSET Syncs], whole : {0} \cup Syncs]

\* Types, and that a session only handles runs that may be pushed.
TypeOK ==
  /\ facts \subseteq Row
  /\ push \in Seq({"pending", "pushed", "partial", "skipped", "expired"})
  /\ collected.latest \in Syncs /\ collected.of \in Seq(1..collected.latest)
  /\ Len(push) = Len(runs) /\ Len(collected.of) = Len(runs)
  /\ session \in SessionVars
  /\ session.phase = "none" <=> session.queue = {}
  /\ \A r \in session.queue : runs[r].status = "complete" /\ ~runs[r].filtered
  /\ api \in ApiVars

\* What was open when run r ended, by finding; r = 0: nothing.
Truth(r) ==
  [k \in Keys |-> IF VersionAt(k, r) = {} THEN None
                  ELSE (CHOOSE f \in VersionAt(k, r) : TRUE).content]

\* Whatever was lost, retried, skipped, expired, sent late or again: unless
\* a run is half sent, the API shows exactly what was found in the newest
\* run it has taken, and no inventory of a later collection.  A finding fixed
\* since is not left open there, and none is closed because a plugin failed.
ApiMirrorsRun ==
  api.partial = 0 =>
    /\ api.open = Truth(api.newest)
    /\ \A t \in ObjectTypes : \A s \in api.inventory[t] :
         api.newest # 0 /\ s <= collected.of[api.newest]

\* The labels of a run about to be completed are what the API would say
\* itself, comparing with what it holds: NEW is what it does not hold,
\* UNCHANGED is what it holds with the same content, and everything else it
\* holds is sent as closed.
LabelsMatchApi ==
  session.phase = "opened" /\ Current > api.newest /\ api.partial = 0 =>
    LET items == Payload(Current) IN
      /\ \A i \in items : i.label = "NEW" <=> api.open[i.key] = None
      /\ \A i \in items : i.label = "UNCHANGED" => api.open[i.key] = i.content
      /\ \A k \in Keys : api.open[k] # None => \E i \in items : i.key = k

\* What the API has taken it keeps.  A run is marked pushed only when it is
\* held there as complete: an empty queue means that nothing is missing.  And
\* the inventory taken last is there, of every type: no session that dies, no
\* query that fails and no run sent without inventory removes the objects of
\* a type that was sent before.
PushedIsHeld ==
  /\ \A r \in DOMAIN push : push[r] = "pushed" => r \in api.done
  /\ api.whole # 0 => \A t \in ObjectTypes : api.whole \in api.inventory[t]

\* skip_run(): "Later runs are pushed in its place; they still carry
\* complete truth, so the API's state stays correct."
SkippingIsSafe == api.partial = 0 => api.open = Truth(api.newest)
==============================================================================
