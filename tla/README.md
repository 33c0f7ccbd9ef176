# Verification of the AD Security Profiler

The profiler collects Active Directory, Entra and SYSVOL into a versioned
PostgreSQL database (`adprofiler.py`, `entra_graph_collector.py`,
`sysvol_collector.py`), evaluates about 390 SQL plugins over it
(`adaudit.py`), keeps the history of what they found, and pushes it, run by
run, to an ingest API (`adaudit_push.py`). Two things are worth verifying. That
*over many runs*, of which any may fail, be killed, see only part of the
directory or reach another server, the database and the API never say something
that was not so: no account called deleted because a page was lost, no finding
called fixed because a query failed, no permission called new because it could
not be read last week. And that the plugins *together* leave no gap: what one
passes over because another has it is reported by the other, what is worse is
not rated lower, what changed is reported as changed and nothing else is.

This directory holds the TLA+ modules of that logic, the TLC configurations
that check them on small instances, and the TLAPS proofs. `PROJECT.json` maps
every definition to the lines it is translated from.

## 1. The system

| Component (source) | State | Operations | Hard behaviour | What makes it correct |
|---|---|---|---|---|
| Collector: objects and versions (`adprofiler.py`, `schema_init.sql`) | `directory_object`, `*_version`, typed tables, `sync_run` | enumerate, version, reconcile by absence, tombstone search, restore, repair, commit, finalize | directory changes while it is read; several domain controllers with their own USNs; a run ends between two commits; clock set back | rows agree with each other; every object is reported as it was at some moment of the run; no deletion is lost behind the watermark |
| LDAP searches (`adprofiler.py` 2640-2800) | connection, cookie, attempt, DNs seen | page, retry, reconnect, restart | a request fails at any point; objects renamed during a restart | terminates; ends without error only if nothing was missed |
| Collector: edges (`adprofiler.py`) | `acl_edge`, `gpo_link_edge`, `unread_acl_scopes` | read descriptors, resolve links, carry forward, one sync per table | any class or descriptor unreadable | unread is not empty; what was read is mirrored; nothing re-dated |
| Run lock (`run_lock.py`) | PostgreSQL advisory lock, its session | acquire, refuse, release by end of session | processes killed at any point, sessions that outlive them | one works at a time; data does not change under it |
| Evaluation runs (`adaudit.py`) | `control_evidence_fact`, `control_evidence_run`, roster | discover, execute, record, not-assess, retire, remove, complete, abort, filter | about 400 commits per run, any of them the last | rosters are true; unassessed findings are kept; a run is atomic for later readers |
| Push (`adaudit_push.py`) | `push_status`, session, the API's state | open, batches, complete, expire, skip, push-run | lost requests and replies, pushes days later, half-sent runs | the API shows exactly the newest run it has |
| Entra collector (`entra_graph_collector.py`) | `entra_*` snapshots, histories with `first_seen_at`/`last_seen_at`, change histories with baselines | read sources, record each, update histories | a read refused in one run, a run aborted between two commits | what is called new is what two whole reads differ in; a refusal ends nothing |
| Plugins (`plugins/`) | none | one query each over the current rows, or over the last two runs' | each query repeats conditions of others; graphs; change detection across an interrupted run | see section 2, Plugins |
| Memberships and other edges (`adprofiler.py`) | `group_member_edge`, `rodc_prp_edge`; SPN, delegation, site, template edges | as edges, with ends looked up by DN in what the run has seen, or in the database | names, primary groups and members change between the reads they are put together from | nobody is taken for another; membership that lasted is neither lost nor re-dated (SPN and later: not modelled) |
| SYSVOL collector (`sysvol_collector.py`) | settings, preference items and scripts of GPOs, `ad_gpo_sysvol`, `sysvol_collection_status` | read folders and NETLOGON, carry forward, sync behind a savepoint | any file, folder, share, the list of GPOs or the database fails | what was not read is kept and not assessed as current |
| Inventories and catalogue (`adaudit_push.py`) | fingerprint per server | send with the newest run | failed query, missing plugin, collection since, batches lost | no type is removed that a query failed for; no inventory is later than the run it is shown with |
| Capability probe, typed columns, reports, DDL | none over runs | conversions, output | - | not modelled: no state that outlives a run |

How they interact. The three scripts take one advisory lock and so never
overlap (`RunLock`); the collectors hand data to `adaudit.py` only through
committed tables, and `adaudit.py` to the push only through
`control_evidence_*`. Within `adprofiler.py` every enumeration is a paged
search; its "ended without error" is what lets the collector conclude that
what was not in it is gone (`PagedSearch.NothingMissed` is what `Collector`
and `Edges` assume when they treat an enumeration as a visit of each object).
There is no multi-threading: all concurrency is between processes, servers and
the directory that changes meanwhile.

`PROJECT.json` "hazards" lists where each of these bites, by line, and which
property would catch it.

## 2. The modules

### DirectoryMirror, Collector

`DirectoryMirror` is the promise: a report in which each object appears as it
was at some moment of the run that published it, replaced as a whole or not at
all. `Collector` is the code. `db` is what is committed, `tx` the same rows
inside the run's transaction, `runs` is `sync_run` (written in transactions of
its own), `run` the variables of `main()`. One `Entry` stands for an object's
rows in `directory_object`, its open version and its typed row. One action per
step of a run: the start (bind, read the controller's identity and its
highest USN, choose baseline or delta; `Bind`, `OpenRun`), a visit of each object
(`VisitMissing`, `VisitUnchanged`, `VisitChanged`),
`ReconcileAbsent`, `CollectDeleted`, `Commit`, `FinalizeSucceeded`, and the
ways to end (`RollBack`, `LoseFinalizeDelta`). The directory acts between any
two of them (`CreateObject` ... `PurgeTombstone`).

Assumptions, each visible in a guard or a constant:

* tombstones live longer than the time between two successful runs
  (`PurgeTombstone`); the code has no way to notice if they do not;
* controllers replicate at once and differ in how they number changes
  (`UsnBase`) and in whether they hold the partition of `Sites` (`Hosting`);
* the visit of one object, the tombstone search and the reconciliation are
  atomic. Enumeration and reconciliation of all classes are one pass over the
  objects: classes are disjoint, so only their order is lost;
* the enumeration of an optional class (`OptionalClasses`), or the read of its
  container before it is reconciled, may fail after any number of entries
  (`EnumerationFails`): what was written stays, reconciliation is skipped, the
  run goes on and may succeed. KDS root keys, AD FS DKM, PKI stores and DNS
  zones survive every failed search (`OPTIONAL_READ_ERRORS`); OUs, GPOs, trusts,
  sites, subnets, templates and the other `except LDAPException` classes survive
  ldap3's own errors only, and roll the run back like users and groups once the
  retries are used up. Objects of such a class that the run did not get to keep
  their earlier report, gone or changed as they may be, until a later run reads
  the class: `MirrorsDirectory` allows them that, and nobody else;
* the tombstone search ends, or the run does. One of ldap3's own errors there
  (a constant filter and attributes every schema has: none is known to occur)
  would be logged and passed over (`adprofiler.py` 4520) while the watermark
  moves on, and the deletions it missed would not be found;
* the first run's success is recorded in `Spec`; `SpecAnyEnd` drops that and
  is the specification of the run `collector_gap`;
* a run stays on the controller it bound to. A reconnect binds to `--dc-host`
  again and compares no invocation id, so with a name that several controllers
  share the code does not keep this assumption by itself.

### PagedSearch

`ldap_paged_search()`, `_ldap_search_with_retry()` and `_ldap_reconnect()`:
one action per answer a request may get (a page, no such container, a
transient error, a broken connection, a refusal) and per outcome of the
reconnect. A cookie is a place in the server's order on one connection. The
server enumerates in an order that renaming does not change and does not give
an object's number to another one; both are external. LDAP errors outside the
retried kinds abort the search. Attempts are counted per request, as in the
code, so a search may start over as often as the connection can be lost
(`MaxConns`). An object renamed before a restarted search is yielded under both
names: entries are recognised by DN only, and `OncePerName` claims no more.

### EdgeRows, Edges, Memberships, Sysvol, EdgeTables

`EdgeRows` has what all edge tables share: `sync_edges()` compares what a run
wants to be open with all open rows of the client, so a run collects first and
syncs each table once; what it could not read is wanted as it is (`Carried`).
Three modules are the runs that fill them; they share the names of their
variables, and `EdgeTables` composes them, one at a time (`part`), under the
same properties, as they share no row.

`Edges`: `acl_edge` and `gpo_link_edge` of OUs, GPOs and DNS zones. A class is
enumerated or fails (`unread_acl_scopes`), each descriptor is read or refused,
links are resolved. One class holds objects of one kind. An edge of a restored
object is a new one, as in the code. `SpecAnyDc` adds a controller that does not
serve the DNS partition.

`Memberships`: `group_member_edge` and `rodc_prp_edge`. Accounts and foreign
security principals are enumerated, with their names and primary groups; then
the members of one group after another are read, and looked up in `dn_to_guid`
or in `directory_object` (`Resolved`). Between any two reads accounts are
created, deleted, renamed, take over the name of another, change their primary
group (Active Directory moves them between the lists as they do) and are put on
and off lists. Groups and controllers exist throughout. `held` records what was
so during the run, and which accounts an ended enumeration has seen otherwise
(`unsteady`).

`Sysvol`: with `--sysvol` a run reads, file by file, the folder of each GPO that
LDAP lists, then NETLOGON. An unreadable file spoils its GPO, whose earlier
settings are carried forward; of NETLOGON what was read until then is used. A
database error goes back to the savepoint; the run commits the rest. The three
tables of the code are one here, synced alike. `Assessed` is the probe by which
`adaudit.py` decides whether Group Policy plugins are run at all. File formats,
and the budget of script files per folder, are left out.

### RunLock

Any number of collector and audit processes; the advisory lock belongs to a
database session, which may outlive its process (or be ended after it). The
lock connection is not lost while its process lives: keepalives and
`idle_session_timeout = 0` are there to ensure it and the code cannot see it
happen.

### FindingRows, Findings, Evidence

`FindingRows` has the table `control_evidence_fact` as a set of rows and the
statements that change it. `Findings` is the promise: an evaluation run is one
step that does to each plugin's findings what the roster it leaves says.
`Evidence` is `adaudit.py`: `Start` (the run's row, the plugin files, the
filter), one turn per plugin with its own commit (`Record`, `NotAssessed`,
`PluginErrors`), `CloseRetired`, `CloseStale`, `Complete`, and `Abort` at any
moment. Queries and plugin files are external: what they give is chosen when
they are read. The run lock keeps collectors away. The roster of a run that is
filtered or not complete is left out: nothing reads it. Rows with status
`pass` are left out too: no shipped plugin returns any.

### Push

Extends `Findings`, as the push reads only what a run leaves. `push` is
`push_status`, `session` the push in progress, `api` what the API holds. The
API is external, modelled from the module docstring of `adaudit_push.py`: it
stores batches as they arrive, ignores runs older than the newest it has,
closes unsent findings of plugins that are clean when a run completes, and
answers a known `run_uuid` with `already_ingested`. Requests and replies are
lost at any point; the process may die between any two. Run ids are in the
order of completion. `PushSpec` skips and expires only runs the API has nothing
of, and re-sends with `--push-run` only in order and never a withheld run;
`SpecAnySkip` lifts the first restriction (`push_skip`). Rejected items, dry
runs and legacy runs are left out.

Collections go on between sessions (`Collect`), and the newest run takes the
inventory along if it is of the last one (`CarriesInventory`, `Inventories`). A
collection's number stands for its inventory; the API holds, by type, the
collections it has rows of, and takes a run that was completed with inventory
for the complete picture. It is assumed to judge a completed run by what the
session that completes it has sent, as the counts it compares are that
session's.

### Entra

`entra_graph_collector.py` and the two plugins that report from its histories.
`tenant` is Entra ID; `ReadRoles` and `StoreHistory` are the required role read
and `sync_role_assignment_history()`; `ReadGroups` is the groups source with
`record_source()`, `StoreMembers` and `StoreSensitive` the change histories of
its two entity types, each in a transaction of its own; `Abort` ends a run
between any two commits. Graph may refuse the eligibilities, the expansion of a
role-holding group, the group list, the members of one group and the service
principal whose app roles make groups sensitive. `seen` is an observer: what
the last two reads found, and what was then true. A change of the tenant
happens between two reads; one that happens while a source is read is a change
just before or after it.

### Plugins

A plugin is a SQL query over the current rows of a client, without state of its
own. Each is an operator on a record of the facts it reads, with the severities
of the rows it returns as value; `Ratings` has what all share (a comparison
with Null holds never, as in SQL). Wording, detail and the ratings of other
tools are left out. The modules follow the kinds of objects judged:

| Module | Plugins | An object is |
|---|---|---|
| `AccountPlugins` | 1001-1051, 10001, 10009 | a user account with its flags, memberships, rights on the domain root |
| `ComputerPlugins` | 2001-2046, 10008, 10010 | a computer, with links to others |
| `GroupPlugins` | 3001-3031 | a group and one member |
| `DomainPlugins` | 4001-4039, 1040, 1052, 3029, 5020, 5022 | the domain, its policies, schema, DNS and hosts |
| `AclPlugins` | 5001-5019, 4035 | one trustee's entries on one object |
| `ControlPaths` | 5021 | a small directory as a graph |
| `CertPlugins` | 6001-6015 | a template, a store or a service, and one enroller |
| `TrustPlugins` | 7001-7009 | a trust |
| `GpoPlugins`, `SettingPlugins` | 9001-9044 | an OU, a policy, or a computer and the winning values of its settings |
| `GpoApplication` | `v_gpo_dc_application`, `COMPUTER_GPO_SQL` | the links of the domain and two OUs above a computer |
| `TenantPlugins` | 10002, 10003, 10005-10007, 10011, 10012, 10018, 10019, 10040-10046, 10092 | a principal of the tenant with its role assignments |
| `AccessPlugins` | 10004, 10013-10015, 10020-10029, 10036-10038 | a Conditional Access policy beside one more, an account it is for or leaves out, a named location |
| `ChangePlugins`, `TenantChangePlugins` | 11001-11031 | two successive states of a directory or tenant |

`Plugins` puts them to work: `family` says what kind of object, `Reassess` is a
change of one fact with the collection and audit that follow; in the families
of change detection a change (`Edit`) and a collection (`Collect`) are separate
steps, and a collection may end after it has committed its rows and before it
is marked succeeded (`Interrupt`), so that `before`, the last succeeded run,
and `found`, what the tables hold, differ. `PluginProperties` states what they
promise together.

## 3. Runs

| Run | Shows | Bounds and why they are enough |
|---|---|---|
| `collector` | `RowsAgree`, `NoDeletionBehindWatermark`, `MirrorsDirectory`, `HistoryKept`, `ImplementsMirror` | one tombstoned object and one found by absence (they take different paths and share no row), two contents (changed or not), two controllers, the second numbering far lower and without the partition of sites, three runs (a baseline, one that goes on from it or rescans on the other controller with the clock set back, one that goes on from either or cannot tell its controller), the class of sites optional, four directory changes (create, delete, restore, delete again) |
| `collector_gap` | violated: see findings | as above, three changes |
| `paged_search` | `CookieFromThisConnection`, `OncePerName`, `NothingMissed`, `Terminates` | three objects in pages of two (a first, a last and a possible empty page), two lost connections of which the last reaches a controller without the container, all three attempts, two directory changes, one spare name |
| `run_lock` | `OneAtATime`, `NothingChangesUnderneath` | two processes of each kind, two commits, two plugins: the fewest with which one can come between two steps of another |
| `edges` | `UnreadKeepsEdges`, `EdgesMirrorDirectory`, `NothingFalselyNew` | two runs and two changes in every part. Edges: one OU with a link, one GPO and one zone with an ACE, two flag values and rows that predate them, over a new database or one collected before flags were recorded. Memberships: two accounts (one takes over the other's name), one foreign principal, two groups (the primary one and another), two names, one read-only controller. Sysvol: one GPO and NETLOGON with two files each (one read before the other fails), two values |
| `edges_dc` | violated: see findings | as above |
| `evidence` | `UnassessedKept`, `RosterTrue`, `ReplayExact`, `ImplementsFindings` | two plugins (one assessed while the other is not), one object, two contents, three runs (open, change or close, and look back) |
| `push` | `ApiMirrorsRun`, `LabelsMatchApi`, `PushedIsHeld` | one plugin with two objects (one half-sent), two contents, three runs (pushed, withheld, compared with); two types of inventory (one sent while the other is not) and two collections, in behaviours without findings (`Halves`: inventory and findings meet only in the session and in a completed run) |
| `push_skip` | violated: see findings | as above, one collection |
| `entra` | `NewAssignmentsExact`, `NewMembersExact`, `UnreadClosesNothing` | one user, one group whose sensitivity changes and one that stays sensitive, three runs (a baseline, one that is refused or aborts, one that compares), three changes or refusals |
| `entra_refused` | violated: see findings | as above |
| `plugins` | `HandedOver`, `ControlReported`, `EscalatesOnly`, `LastWriterWins`, `PathsMatchClosure`, `QuietWithoutChange`, `NewExposureReported`, `OpenPortalReported` | every family from one to three objects, one with nothing to report and one exposed; any two facts take any of their values (in the families of entries and of the domain any two that some plugin combines, `Areas`), as no condition left to another plugin turns on more facts that differ from both objects; paths over twelve nodes, of up to seven hops and more, with the six hops of the code; two links per container, with two policies; thresholds of 20, 100 and 200 principals scaled to 1, 2 and 3 |

Runs check the `MC` module of their component, `paged_search` and `run_lock` the
module itself, whose constants the configuration can give. Deadlock is not
checked where a model stops at its bounds (all runs). Symmetry is used for
interchangeable model values, in runs without liveness properties.

Fairness is assumed only in `PagedSearch`, weak fairness of the client's steps:
the generator is always run to its end by its caller, and every request returns
(there is a receive timeout). Everything else is safety; nothing obliges an
operator to start another run.

### What the violated runs show

* `collector_gap`: a run that ends between the commit of its data and the
  update of its `sync_run` row is recorded as failed although its versions are
  in the database; the comment on `sync_run` says a failed run writes none. If
  it was the first run, the next one is a baseline again and never sees the
  tombstones in between, which is why `Spec` leaves this case out.
* `edges_dc`: a controller without the DNS partition keeps the zones live and
  closes all their ACL edges.
* `push_skip`: a run the API completed, whose reply was lost, can be skipped;
  what it found new and the next run fixed stays open at the API.
* `entra_refused`: the eligibilities are refused in one run; the rows left out
  are older than the newest `last_seen_at` and get a new `first_seen_at` from
  the next whole read, so 11020 reports assignments held all along.

### What the passing runs leave out, and what was met on the way

`EdgesMirrorDirectory` and `NothingFalselyNew` leave out the accounts that are
`unsteady`: a member renamed after its enumeration, or given another primary
group before the groups are read, is missing for one run, and an account that
takes over a name after the enumeration is taken for the one that had it. They
leave out of a controller's policy the principals the run has not seen: unlike
members they are not looked up in the database, so that a failed enumeration of
foreign security principals closes their policy edges for one run.

A run of `collector` in which an optional class fails (`EnumerationFails`)
succeeds, and objects of that class keep their earlier reports. The docstring of
`reconcile_absent_objects()` ("any LDAP failure aborts the run") and the comment
on the retry policy ("aborts and rolls back the whole run") are older than
`OPTIONAL_READ_ERRORS`.

A filtered run of `evidence` leaves no trace (`UnassessedKept`), also not of
retired plugins. The docstring of `close_retired_plugin_evidence()` says it runs
"on every invocation, filtered or not"; since v0.10.0 its call is guarded by
`is_unfiltered_run`, and the findings of a retired plugin stay open until the
next unfiltered run.

AdminSDHolder and the PKI containers are read by
`collect_well_known_container_acl()`, which on an LDAP error or an empty answer
returns without adding anything to what is unreadable: the edges of these
objects are closed by that run and opened as new by the next. A script file in a
GPO folder beyond `--sysvol-max-script-files` is not read and, unlike an
unreadable one, not carried forward either.

A session that dies between two batches of inventory leaves rows of it at the
API. If a collection follows before the run is sent again, it goes without
inventory and is completed, and the API shows some types as of the run and some
as before until the next run with inventory. `PushedIsHeld` and `ApiMirrorsRun`
allow that; an API that counted the rows of the first attempt would find the
counts wrong, or remove the types that attempt had not reached.

A database restored from a backup (no action of `Push`) gives new runs the ids
of runs that were pushed after the backup. The `run_uuid` is made of client and
run id, so the API answers `already_ingested` and the new run is marked pushed
without having been sent; the docstring of `adaudit_push.py` has the restored
run itself in mind, which is pushed again.

`UnreadClosesNothing` excuses two cases (`got.blind`), as the code ends
histories there: with the eligibilities or a group's expansion refused, a group
counts as holding no role, and with the groups source refused before, an app
role that cannot be read now is not known from the run before. Members of a group
that could not be read when it became sensitive count as new when they are read
first, in the code as in `NewMembersExact`.

The proofs corrected two properties. `NothingFalselyNew` leaves out the edges of
objects the database holds for deleted: an object deleted while its class fails
keeps its edges but is no longer live; if it is restored and its class fails
again, `unread_scope_guids()` and `resolve_dns_from_database()`, which go by
live rows, do not carry its edges, and they are closed now and opened as new by
the next run. (`edges` needs three changes to show it.) `NewMembersExact` used to
leave out members of groups that had been unreadable and holds without that.

`HandedOver` follows the places where a query excludes another one's case. Three
do not fit and are left out of it: 1012 and 1040 pass over accounts described
"Azure AD Connect" or "Synchronization Service", which 10009 takes for a sync
account only if they may replicate; and 5018 leaves unresolved trustees on the
domain root to 5008, whose rows need a directory object; and 9024 leaves domain
controllers to 9015. 9015 says that "Plugin 9024 checks the same rights in GPOs
that apply to other computers", but the lists differ: the two logon rights are
on 9015's only, `SeRelabelPrivilege` on 9024's only, so that a broad group that
a policy gives `SeRelabelPrivilege` on a domain controller is reported by
neither. `SettingPlugins` has three facts for this (`rights`, on both lists,
`logonRights`, `relabel`), and what is handed over is the rights on both.

`EscalatesOnly` names its exceptions. `Heirs` are pairs in which a graver or
more general plugin takes the case over (6002 and 6015 to 6001, 2043 to 2002,
2017 to 2015, 4007 and 4014 to 4003, 7007 to 7008, 10026 to 10024); `Relieved` are plugins that
report the absence of what the change adds, or flaws of a policy that is no
longer in force: markers of a lost privilege (1025, 3005), the default right to
unexpire passwords (5018), a policy's own flaws (10027, 10028, 10036).

`NewExposureReported` asks something of a collection that was not interrupted
before only: 11001 and 11003 to 11006 look for rows that start with the present
run, so a change that an interrupted run has committed is never reported by
them. 11011 passes over an account that was deleted and restored as a domain
controller; 11010 and 11014 compare the rights of a trustee whether or not they
were to be inherited only, as their comments say.

2024, 2025, 2027 and 2028 count Windows 10 LTSB as unsupported where 2003 only
warns.

5021 walks six hops and enters only some of the computers of a container, and
`PathsMatchClosure` says what that costs. Within six hops it finds every broad
group that has a path. A computer that leads only to a broad group is not
entered: a path that starts at one broad group and goes on from another may then
be missing from the text, but not from the verdict. A computer whose only
control is by entries that descendants inherit is not entered either, since
`interesting` is made of `base_edge`, which has none of those; the comment there
("they lead somewhere other than the broad default groups") and the description
("computers only when they lead somewhere") would have it entered. A path from a
broad group over an OU and such a computer to a Tier 0 object below its entry is
missed (`Overlooked`, the one exception of the property; without it TLC finds
such a directory). Of a path longer than six hops nothing is reported but this:
some user, group or computer on its last six hops is counted among the holders
of a path, who are reported when there are 20. The run starts from a directory
with a path of seven hops (`Remote`), which alterations cut short.

`OpenPortalReported` names what nobody reports. 10026 leaves a missing
all-users, all-resources MFA policy to 10004, and 10024 the users left out of a
policy to 10026; but a policy that names its applications satisfies 10004 and
10024 and is none that 10026 looks at, so a user left out of the only policy for
the portals is reported by neither; nor does anyone join a policy that excepts
an application with another that leaves the user out. 10013, 10020, 10023 and 10037 do not look
at whether a policy is narrowed to some locations, platforms or devices; 10021
takes a required compliant device for enough whatever filter excludes devices.

## 4. Proofs

For every value of the constants the provers check every property of the
passing runs but three, named below. Hardly a property is inductive as it
stands; each proof module states the invariant that is, and has one lemma per
action or group of alike actions.

* `Collector_proofs`. `TypeCorrect`; `RowsAlwaysAgree` and
  `HistoryAlwaysKept` from `RowsInv`: in the middle of a run an object that has
  come back is still flagged deleted while its version and typed row are live
  again, so `InTx` says how a row of the open transaction may differ from the
  committed one. `NoDeletionEverBehindWatermark` and `AlwaysMirrorsDirectory`
  from three more. `StartsInv`: a recorded watermark is the USN its controller
  had when that run bound, and the run in progress goes by the latest success.
  `TombstonesInv`: what is still shown of a deleted object was deleted since
  every recorded run started (`ToBeFound`), so that the next search of
  tombstones is sure to find it. `WindowInv`: what the transaction reports of
  an object the run has dealt with is in the object's window, of one it has
  passed by, its absence is, and of one it could not read, the earlier report
  is. `CollectorImplementsMirror` takes the mapping of the run through every
  action: all steps but a change of the directory, `Bind`, `EnumerationFails`,
  `Commit` and `RollBack` change nothing of the mirror. Nothing is
  assumed about the clock.
* `PagedSearch_proofs`. `SearchTypeCorrect`, `CookieAlwaysOwn`,
  `AlwaysOncePerName`, `NothingEverMissed`, from `SearchInv`: a cookie, also one
  of a lost connection, has everything that was not disturbed behind it
  (`BehindCookie`); whenever an object is yielded one more of its names is
  known (`YieldsNamed`); and a name is known only if one of its owners was
  yielded (`SeenYielded`), so an object passed over as a duplicate is either
  yielded or was renamed meanwhile.
* `EdgeTables_proofs`. `EdgeTypesCorrect`, `UnreadAlwaysKeeps`,
  `EdgesAlwaysMirror`, `NeverFalselyNew`, from an invariant for each part
  (`AclInv`, `MemberInv`, `SysvolInv`) with the same structure: how far the run
  is and what it has of each object; that what it has read is among the values
  held since it began; and what its transaction holds of the tables it has
  synced. That `sync_edges()` is right is one lemma for all tables
  (`SyncedKey`, `RowSays`). The argument for `NeverFalselyNew`: the values held
  of a grant only grow, so one that is the same at the end was so all along;
  then its object was there throughout, and was seen, or its class was not
  read and its edges are carried. For memberships `AccountsKnown` has what a
  run knows of an account that has not changed since it was enumerated: the
  one known by its name is that account, and nobody has taken a name under
  which only the database knows somebody.
* `FindingRows_proofs` has what the statements on `control_evidence_fact` do
  to well-formed rows, for the next two modules.
* `Evidence_proofs`. `EvidenceTypeCorrect`, `UnassessedAlwaysKept`,
  `RosterAlwaysTrue`, `ReplayAlwaysExact`, from `EvidenceInv`. Its heart is
  `WrittenSoFar`: while a run goes on, what `plugin_summaries` says of a plugin
  and what the run has written for it agree, so a plugin is never written twice
  by one run, and the roster is true when the run completes. That no earlier
  run is affected is one lemma, `EarlierRunsKept`, from `WrittenBy`: a run opens
  rows from itself on, closes open ones at itself and leaves the rest alone.
  `EvidenceImplementsFindings` needs `JournalInv` besides: in any state of a
  run, the rows of each plugin are what one outcome of `Findings` makes of the
  rows it had when the run began, the outcome the roster lists. The last section
  is about `RunLock`, by which a run is the only one: `LockTypeCorrect`,
  `MutualExclusion`, `DataStable`, from `LockInv`: a working process holds the
  lock, the lock has at most one holder, and what a working process has read is
  what is committed.
* `Push_proofs`. `PushTypeCorrect`, `PushedAlwaysHeld`, `ApiAlwaysMirrorsRun`,
  `LabelsAlwaysMatchApi`, from `PushInv`: runs that wait are newer than what the
  API holds, and one it has in part is the first of them (`InOrder`,
  `WorksInOrder`); between two runs each finding is shown as one of them has it
  (`ApiBetweenRuns`). It follows that under `PushSpec` no run reaches the API
  behind its newest one, and that the run a payload is compared with is the one
  the API shows. The proof shows that the mirror does not depend on the API's
  closing of unsent findings of clean plugins: the payload names all of them.
* `Entra_proofs`. `EntraTypeCorrect`, `NewAssignmentsAlwaysExact`,
  `NewMembersAlwaysExact`, `UnreadNeverCloses`, from `EntraInv`, for every
  tenant. `AssignedInv`: `last_seen_at` is the last read's for what that read
  found and for nothing else, and `first_seen_at` likewise for what it found
  and the one before did not. `MembersInv`, `FinishedInv`: the versions of the
  two histories that begin or end with a collection are those of its
  differences; a run number stands for a collection only because a run updates
  each history at most once. An administrator who holds the role in every read
  (`AdminAssumption`) is what makes the newest `last_seen_at` that of the last
  read: Entra ID does not let the last Global Administrator go.

* `Plugins_proofs`. The run alters a few facts of each starting object; the
  theorems are about every object of a family, as any combination of values
  that `Possible` allows, and every pair of states of a directory. The invariant
  is `ObjectsInv`: `now`, `before` and `found` are objects of the family
  (`ObjectOf`), and outside change detection `findings` is what the plugins make
  of `now`. The rest is about the queries.
  `PluginsTypeCorrect`: every row has one of the five severities; the plugins
  that add and subtract (1001 to 1022, 2013, 10006, 10019, 10092) or take the
  worst of several (2042, 6013) have lemmas of their own, and none of them needs
  to know anything of the facts. `WhatIsHandedOver` goes through the plugins that
  leave cases to others, `ControlIsReported` through targets, rights and
  trustees, case by case. `OpenPortalIsReported`: if a password
  opens a portal and no policy that leaves the account out names applications,
  then either some policy for everyone leaves it out (10026) or no policy covers
  the portal (10024); that 10004 may report it too is not needed.
  `PrecedenceIsLastWriter`: `Precedes` is one-way on the links that apply, and
  each of them belongs to one pass of the computer (`ChoiceIsWriter`); the
  winner is a link of the last pass that writes at all (`LastPassWins`). `Quiet`
  and `NewExposure` have one lemma per plugin of change detection: it reports
  nothing when its two states are equal, and reports what is new whatever else
  changed. `NewExposure` needs `Possible`: only a present account has
  service principal names, or is a domain controller.

They rest on the ASSUMEs of the modules: sets of constants are disjoint where
SQL tells values apart (`None` is no content, name, flag or cookie; objects of
one kind are none of another), bounds are numbers, there is a first collection
(`MaxSyncsAssumption`), a starting object is one of its family
(`BasesAssumption`); TLC evaluates them in the runs. What is external (the
API, the LDAP server, Graph) is in the theorems as it is in the models.

Model-checked only:

* `Terminates`, liveness under fairness, which is out of the provers' reach;
* `PathsMatchClosure`: that a walk forward and one backward of as many hops find
  the same is an induction over the hops, and what holds of longer paths depends
  on how a path can alternate between principals, policies and containers within
  `MaxHops`, which is enough for it at the code's value;
* `EscalatesOnly`: it relates the rows of each of some 330 plugins before and
  after each of some 500 changes of one fact, and some that it excuses are
  excused by what the run's objects are;
* the violated runs, and `UnservedKeepsEdges` with them.

## 5. Not modelled, and the plan

* SPN, delegation, FGPP, gMSA reader, site and template publication edges: they
  are resolved within what one enumeration returned, without further reads, and
  synced like the others. AdminSDHolder and the PKI containers: section 3.
* `Push`: a database restored from a backup (section 3); the catalogue, whose
  fingerprint decides only whether it is sent again; `--push-run` out of order.
* Parsers of the file formats in SYSVOL, monthly partitions, capability probe,
  typed columns, reports: conversions and DDL, no state that outlives a run.
* The budget of script files per folder, a count over a sorted listing.
* Plugins, 73 of 395: those that judge settings of a whole tenant (10016,
  10017, 10030-10035, 10039, 10047-10052, 10055, 10056, 10068-10070, 10072,
  10076, 10077, 10080-10087, 10121, 10122), its applications and groups (10053,
  10054, 10058, 10060-10067, 10073-10075, 10078, 10079, 10089, 10114) and the
  hybrid ones among them (10090, 10091, 10093-10097, 10100, 10101,
  10110-10113), mostly one setting each; the inventories 8001 to 8004, which
  judge nothing; and the retired files 1011, 1014, 1015, 1039 and 4023.
* Proofs: `LastWriterWins` for more than two links of a container; `EscalatesOnly`,
  plugin by plugin.

The abstract specifications are `DirectoryMirror` and `Findings`. One for the
API's view of a sequence of runs, shown to be implemented by `Push`, would say
in one step per run what `ApiMirrorsRun` and `PushInv` say state by state.
