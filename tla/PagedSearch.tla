----------------------------- MODULE PagedSearch -----------------------------
(***************************************************************************)
(* adprofiler.py: ldap_paged_search() and the retries below it.  One       *)
(* enumeration of a container, page by page, over a connection that may    *)
(* fail at any request, of objects that are created, renamed and deleted   *)
(* meanwhile.                                                              *)
(*                                                                         *)
(* The server keeps the objects in an order a rename does not change (that *)
(* of their internal numbers, 1..N); a cookie stands for a place in that   *)
(* order on the connection it was handed out on.                           *)
(***************************************************************************)
EXTENDS Naturals, FiniteSets, FiniteSetsExt

CONSTANTS
  N,            \* objects the container may hold
  Names,        \* distinguished names, compared case-insensitively
  PageSize,
  MaxAttempts,  \* LDAP_MAX_ATTEMPTS
  Holding,      \* which successive connections reach a controller that holds
                \* the container (the others answer noSuchObject or referral)
  None,         \* no name, no cookie
  MaxConns,     \* bound: connections, so one less than this many are lost
  MaxChanges    \* bound: changes to the directory during the search

Objects == 1..N

ASSUME SizesAssumption ==
  /\ N \in Nat
  /\ PageSize \in Nat \ {0}
  /\ MaxAttempts \in Nat \ {0}
  /\ MaxConns \in Nat \ {0}
  /\ MaxChanges \in Nat
ASSUME NoneAssumption == None \notin Names \cup [conn : 1..MaxConns, after : Objects]
ASSUME HoldingAssumption == Holding \subseteq 1..MaxConns

VARIABLES
  name,     \* the container: [Objects -> Names \cup {None}]
  changes,  \* changes made to it so far
  conn,     \* number of the current connection
  up,       \* is it bound?
  cookie,   \* where the next request continues; None: the first page
  attempt,  \* of the current request
  seen,     \* seen_dns
  yielded,  \* history: how often the caller was given each object
  owners,   \* history: the objects that have had each name since the start
  since,    \* history: the objects that were there all the time
  pc        \* "search", "reconnect", "done", "aborted"

dirVars == <<name, changes, owners, since>>
vars == <<name, changes, conn, up, cookie, attempt, seen, yielded, owners, since, pc>>

-----------------------------------------------------------------------------
(* The directory.                                                          *)

SetName(o, n) ==
  /\ changes < MaxChanges
  /\ changes' = changes + 1
  /\ name' = [name EXCEPT ![o] = n]
  /\ owners' = [m \in Names |-> IF m = n THEN owners[m] \cup {o} ELSE owners[m]]
  /\ since' = IF n = None THEN since \ {o} ELSE since
  /\ UNCHANGED <<conn, up, cookie, attempt, seen, yielded, pc>>

NamesOf(o) == {n \in Names : o \in owners[n]}
Free == {n \in Names : \A o \in Objects : name[o] # n}

\* A name may be used again, an object's number may not.
Create(o) == NamesOf(o) = {} /\ \E n \in Free : SetName(o, n)
Rename(o) == name[o] # None /\ \E n \in Free : SetName(o, n)
Delete(o) == name[o] # None /\ SetName(o, None)

-----------------------------------------------------------------------------
(* The server's side of a request.                                         *)

Remaining == {o \in Objects : name[o] # None /\ (cookie # None => o > cookie.after)}

Page == {o \in Remaining : Cardinality({p \in Remaining : p <= o}) <= PageSize}

NextCookie == IF Page = Remaining THEN None
              ELSE [conn |-> conn, after |-> Max(Page)]

\* A cookie means nothing on another connection.
Valid == cookie # None => cookie.conn = conn

-----------------------------------------------------------------------------
(* The client.                                                             *)

\* Slip: nothing is skipped after a restart.
NewAgain == Page

\* Entries whose DN was already yielded are skipped.
New == {o \in Page : name[o] \notin seen}

\* One successful page, and whether the generator goes on.
GetPage ==
  /\ pc = "search" /\ up /\ conn \in Holding /\ Valid
  /\ seen' = seen \cup {name[o] : o \in Page}
  /\ yielded' = [o \in Objects |-> IF o \in New THEN yielded[o] + 1 ELSE yielded[o]]
  /\ cookie' = NextCookie
  /\ pc' = IF NextCookie = None THEN "done" ELSE "search"
  /\ attempt' = 1
  /\ UNCHANGED <<dirVars, conn, up>>

\* noSuchObject, referral: an empty result without a cookie.
GetAbsent ==
  /\ pc = "search" /\ up /\ conn \notin Holding
  /\ pc' = "done"
  /\ cookie' = None
  /\ UNCHANGED <<dirVars, conn, up, attempt, seen, yielded>>

\* Slip: failures are not counted.
RetryForever(next) == attempt' = attempt /\ pc' = next

\* Slip: one attempt too many.
RetryOnceMore(next) ==
  IF attempt > MaxAttempts
  THEN pc' = "aborted" /\ attempt' = attempt
  ELSE pc' = next /\ attempt' = attempt + 1

\* Slip: a failed page ends the search as an empty one (before v0.5.12).
RetryNever(next) == attempt' = attempt /\ pc' = "done"

\* A failure that is retried, unless it was the last attempt.
Retry(next) ==
  IF attempt >= MaxAttempts
  THEN pc' = "aborted" /\ attempt' = attempt
  ELSE pc' = next /\ attempt' = attempt + 1

\* busy, unavailable, timeLimitExceeded
Transient ==
  /\ pc = "search" /\ up
  /\ Retry("search")
  /\ UNCHANGED <<dirVars, conn, up, cookie, seen, yielded>>

\* operationsError, a dropped connection, no answer; a connection that never
\* came up always fails so.
Broken ==
  /\ pc = "search"
  /\ up => conn < MaxConns
  /\ up' = FALSE
  /\ Retry("reconnect")
  /\ UNCHANGED <<dirVars, conn, cookie, seen, yielded>>

\* Any other result, the one an invalid cookie gets included.
Refused ==
  /\ pc = "search" /\ up
  /\ pc' = "aborted"
  /\ UNCHANGED <<dirVars, conn, up, cookie, attempt, seen, yielded>>

\* Slip: the place is kept.
RestartedFrom(c) == c

\* on_reconnect(): the cookie does not survive, the search restarts.
Restarted(c) == None

\* _ldap_reconnect()
Reconnect ==
  /\ pc = "reconnect"
  /\ conn < MaxConns
  /\ conn' = conn + 1
  /\ up' = TRUE
  /\ cookie' = Restarted(cookie)
  /\ pc' = "search"
  /\ UNCHANGED <<dirVars, attempt, seen, yielded>>

\* The rebind failed: on_reconnect() is not called, the next search fails.
ReconnectFails ==
  /\ pc = "reconnect"
  /\ pc' = "search"
  /\ UNCHANGED <<dirVars, conn, up, cookie, attempt, seen, yielded>>

-----------------------------------------------------------------------------
Init ==
  /\ name \in [Objects -> Names \cup {None}]
  /\ \A o, p \in Objects : name[o] = name[p] => o = p \/ name[o] = None
  /\ changes = 0
  /\ conn = 1
  /\ up = TRUE
  /\ cookie = None
  /\ attempt = 1
  /\ seen = {}
  /\ yielded = [o \in Objects |-> 0]
  /\ owners = [n \in Names |-> {o \in Objects : name[o] = n}]
  /\ since = {o \in Objects : name[o] # None}
  /\ pc = "search"

Directory == \E o \in Objects : Create(o) \/ Rename(o) \/ Delete(o)
Client == \/ GetPage \/ GetAbsent \/ Transient \/ Broken \/ Refused
          \/ Reconnect \/ ReconnectFails

Next == Directory \/ Client

\* The generator is run to its end by its caller.
Spec == Init /\ [][Next]_vars /\ WF_vars(Client)

-----------------------------------------------------------------------------
(* What must hold.                                                         *)

\* Types; two objects never have one name, and nothing yielded is unnamed.
TypeOK ==
  /\ name \in [Objects -> Names \cup {None}]
  /\ \A o, p \in Objects : name[o] = name[p] => o = p \/ name[o] = None
  /\ changes \in 0..MaxChanges
  /\ conn \in 1..MaxConns
  /\ up \in BOOLEAN
  /\ cookie \in [conn : 1..MaxConns, after : Objects] \cup {None}
  /\ attempt \in 1..MaxAttempts
  /\ seen \subseteq Names
  /\ yielded \in [Objects -> Nat]
  /\ owners \in [Names -> SUBSET Objects]
  /\ since \subseteq Objects
  /\ pc \in {"search", "reconnect", "done", "aborted"}

\* No request carries a cookie from a connection that is gone: the server
\* would refuse it, and the run with it, on every lost connection.
CookieFromThisConnection == pc = "search" /\ up => Valid

\* However often the search starts over, an object is yielded at most once
\* under each name it had meanwhile: once, if it was not renamed.
OncePerName == \A o \in Objects : yielded[o] <= Cardinality(NamesOf(o))

\* Was there all the time, under names no other object had meanwhile?
Undisturbed(o) == o \in since /\ \A n \in NamesOf(o) : owners[n] = {o}

\* A search that ends without an error, on a controller that holds the
\* container, has yielded every object that was in it throughout, renamed
\* ones included: what is missing from it can be taken for deleted.
NothingMissed ==
  pc = "done" /\ conn \in Holding =>
    \A o \in Objects : Undisturbed(o) => yielded[o] >= 1

\* The search ends, with all its pages or with LDAPCollectionError, as long
\* as the connection is lost only so many times (each request is attempted
\* MaxAttempts times, but a lost connection starts the requests over).
Terminates == <>(pc \in {"done", "aborted"})

=============================================================================
