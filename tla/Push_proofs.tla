------------------------------ MODULE Push_proofs ------------------------------
(***************************************************************************)
(* Theorems about the push to the ingest API, for any number of plugins,   *)
(* findings, runs and collections, and for any payload.                    *)
(***************************************************************************)
EXTENDS Push, FindingRows_proofs, SequenceTheorems, FiniteSetTheorems

-----------------------------------------------------------------------------
(* The smallest and the largest of some numbers.                           *)

Before == {ss \in Nat \X Nat : ss[1] < ss[2]}

LEMMA BeforeWellFounded == IsWellFoundedOn(Before, Nat)
<1>1. Before \cap (Nat \X Nat) \subseteq OpToRel(<, Nat)
  BY DEF Before, OpToRel
<1> QED
  BY <1>1, NatLessThanWellFounded, IsWellFoundedOnSubrelation

LEMMA MinIsLeast ==
  ASSUME NEW S \in SUBSET Nat, S # {}
  PROVE  Min(S) \in S /\ \A x \in S : Min(S) <= x
<1>1. PICK x \in S : \A y \in S : <<y, x>> \notin Before
  BY BeforeWellFounded, WFMin
<1>2. \A y \in S : x <= y
  <2> TAKE y \in S
  <2>1. x \in Nat /\ y \in Nat /\ <<y, x>> \in Nat \X Nat
    OBVIOUS
  <2>2. <<y, x>>[1] = y /\ <<y, x>>[2] = x
    OBVIOUS
  <2>3. ~(y < x)
    BY <1>1, <2>1, <2>2, SMT DEF Before
  <2> QED
    BY <2>1, <2>3
<1> QED
  BY <1>2 DEF Min

LEMMA MaxIsGreatest ==
  ASSUME NEW S \in SUBSET Nat, S # {}, NEW n \in Nat, \A x \in S : x <= n
  PROVE  Max(S) \in S /\ \A x \in S : x <= Max(S)
<1> DEFINE T == {y \in Nat : \E x \in S : y + x = n}
<1>1. \A x \in S : n - x \in T
  <2> TAKE x \in S
  <2>1. n - x \in Nat /\ (n - x) + x = n
    OBVIOUS
  <2> QED
    BY <2>1
<1>2. T \in SUBSET Nat /\ T # {}
  BY <1>1
<1>3. \A y \in T : y \in Nat /\ \E x \in S : y + x = n
  OBVIOUS
<1> HIDE DEF T
<1>4. PICK m \in T : \A y \in T : m <= y
  BY <1>2, MinIsLeast
<1>5. PICK x \in S : m + x = n
  BY <1>3
<1>6. \A y \in S : x >= y
  BY <1>1, <1>3, <1>4, <1>5
<1> QED
  BY <1>6 DEF Max

-----------------------------------------------------------------------------
(* A run as one step: what it does to the table, and what it leaves of     *)
(* what earlier runs saw.                                                  *)

LEMMA PartWellFormed ==
  ASSUME NEW n \in Nat, NEW rows, WellFormed(rows, n), NEW some \in SUBSET rows
  PROVE  WellFormed(some, n)
  BY DEF WellFormed, OneVersion

LEMMA PluginAfterForm ==
  ASSUME NEW r \in Nat \ {0}, NEW rows, WellFormed(rows, r), \A f \in rows : f.from # r,
         NEW p \in Plugins, NEW out \in Outcome,
         NEW old, old = RowsOf(rows, p), NEW new, new = PluginAfter(old, p, out, r)
  PROVE  WellFormed(new, r) /\ WrittenBy(r, old, new) /\ \A f \in new : f.plugin = p
<1>1. WellFormed(old, r) /\ \A f \in old : f.from # r /\ f.plugin = p
  BY PartWellFormed DEF RowsOf
<1>2. \A q \in Plugins : RowsOf(old, q) \subseteq old /\ (q # p => RowsOf(old, q) = {})
  BY <1>1 DEF RowsOf
<1>3. /\ WellFormed(new, r) /\ WrittenBy(r, old, new)
      /\ \A q \in Plugins \ {p} : RowsOf(new, q) = RowsOf(old, q)
  <2>1. CASE out.how = "evaluated"
    <3>1. out.found \in Found /\ new = Synced(old, p, out.found, r)
      BY <2>1 DEF PluginAfter, Outcome
    <3> QED
      BY <1>1, <1>2, <3>1, Recording
  <2>2. CASE out.how = "retired"
    <3>1. new = ClosedFor(old, {p}, r, "retired")
      BY <2>2 DEF PluginAfter
    <3> QED
      BY <1>1, <1>2, <3>1, Closing
  <2>3. CASE out.how = "removed"
    <3>1. new = ClosedFor(old, {p}, r, "remediated")
      BY <2>3 DEF PluginAfter
    <3> QED
      BY <1>1, <1>2, <3>1, Closing
  <2>4. CASE out.how \notin {"evaluated", "retired", "removed"}
    <3>1. new = old
      BY <2>4 DEF PluginAfter
    <3> QED
      BY <1>1, <3>1 DEF WrittenBy
  <2> QED
    BY <2>1, <2>2, <2>3, <2>4
<1>4. \A f \in new : f.plugin \in Plugins
  BY <1>3 DEF WellFormed, Row
<1>5. \A f \in new : f \in RowsOf(new, f.plugin)
  BY DEF RowsOf
<1> QED
  BY <1>2, <1>3, <1>4, <1>5

LEMMA AfterForm ==
  ASSUME NEW r \in Nat \ {0}, NEW rows, WellFormed(rows, r), \A f \in rows : f.from # r,
         NEW outcome \in [Plugins -> Outcome], NEW new, new = After(rows, outcome, r)
  PROVE  WellFormed(new, r) /\ WrittenBy(r, rows, new)
<1> DEFINE N(p) == PluginAfter(RowsOf(rows, p), p, outcome[p], r)
<1>1. \A p \in Plugins : /\ WellFormed(N(p), r) /\ WrittenBy(r, RowsOf(rows, p), N(p))
                         /\ \A f \in N(p) : f.plugin = p
  BY PluginAfterForm
<1>2. \A f : f \in new <=> \E p \in Plugins : f \in N(p)
  BY DEF After
<1> HIDE DEF N
<1>3. \A f \in new : f.plugin \in Plugins /\ f \in N(f.plugin)
  BY <1>1, <1>2
<1>4. \A f \in rows : f.plugin \in Plugins /\ f \in RowsOf(rows, f.plugin)
  BY DEF WellFormed, Row, RowsOf
<1>5. WellFormed(new, r)
  BY <1>1, <1>3 DEF WellFormed, OneVersion
<1>6. WrittenBy(r, rows, new)
  <2>1. \A f \in new : \/ f \in rows
                       \/ f.from = r /\ f.to = None
                       \/ f.to = r /\ \E g \in rows : g.to = None /\ SameVersion(f, g)
    BY <1>1, <1>3 DEF WrittenBy, RowsOf
  <2>2. \A g \in rows : \/ g \in new
                        \/ g.to = None /\ \E f \in new : f.to = r /\ SameVersion(f, g)
    BY <1>1, <1>2, <1>4 DEF WrittenBy
  <2> QED
    BY <2>1, <2>2 DEF WrittenBy
<1> QED
  BY <1>5, <1>6

-----------------------------------------------------------------------------
(* What a run saw, and what is sent of it.                                 *)

\* Truth, of any table.
TruthIn(rows, r) ==
  [k \in Keys |-> IF {f \in OpenAt(rows, r) : KeyOf(f) = k} = {} THEN None
                  ELSE (CHOOSE f \in {g \in OpenAt(rows, r) : KeyOf(g) = k} : TRUE).content]

LEMMA TruthOfFacts == \A r : Truth(r) = TruthIn(facts, r)
  BY DEF Truth, TruthIn, VersionAt

LEMMA OpenRow ==
  ASSUME NEW n \in Nat, NEW rows, WellFormed(rows, n), NEW r \in Nat
  PROVE  /\ TruthIn(rows, r) \in [Keys -> Contents \cup {None}]
         /\ \A f \in OpenAt(rows, r) : /\ KeyOf(f) \in Keys
                                       /\ TruthIn(rows, r)[KeyOf(f)] = f.content
                                       /\ f.content # None
         /\ \A k \in Keys : TruthIn(rows, r)[k] # None =>
                              \E f \in OpenAt(rows, r) : KeyOf(f) = k
<1> DEFINE V(k) == {f \in OpenAt(rows, r) : KeyOf(f) = k}
<1>1. \A f \in OpenAt(rows, r) : /\ f \in rows /\ f \in Row
                                 /\ KeyOf(f) \in Keys
                                 /\ f.content \in Contents /\ f.content # None
  BY RowValuesAssumption DEF OpenAt, WellFormed, Row, Keys, KeyOf
<1>2. \A f, g \in OpenAt(rows, r) : KeyOf(f) = KeyOf(g) => f = g
  <2> SUFFICES ASSUME NEW f \in OpenAt(rows, r), NEW g \in OpenAt(rows, r),
                      KeyOf(f) = KeyOf(g), f # g
               PROVE  FALSE
    OBVIOUS
  <2>1. f.plugin = g.plugin /\ f.object = g.object
    BY DEF KeyOf
  <2>2. \/ f.to # None /\ f.to <= g.from
        \/ g.to # None /\ g.to <= f.from
    BY <1>1, <2>1 DEF WellFormed, OneVersion
  <2>3. /\ f.from \in Nat /\ f.from <= r /\ (f.to # None => f.to \in Nat /\ f.to > r)
        /\ g.from \in Nat /\ g.from <= r /\ (g.to # None => g.to \in Nat /\ g.to > r)
    BY <1>1 DEF OpenAt, Row
  <2> QED
    BY <2>2, <2>3
<1>3. \A k \in Keys : TruthIn(rows, r)[k] =
                        IF V(k) = {} THEN None ELSE (CHOOSE f \in V(k) : TRUE).content
  BY DEF TruthIn
<1>4. \A k : V(k) # {} => (CHOOSE f \in V(k) : TRUE) \in V(k)
  OBVIOUS
<1>5. \A k, f : f \in V(k) <=> f \in OpenAt(rows, r) /\ KeyOf(f) = k
  OBVIOUS
<1>6. TruthIn(rows, r) = [k \in Keys |-> TruthIn(rows, r)[k]]
  BY DEF TruthIn
<1> HIDE DEF V
<1>7. \A f \in OpenAt(rows, r) : TruthIn(rows, r)[KeyOf(f)] = f.content
  BY <1>1, <1>2, <1>3, <1>4, <1>5
<1>8. \A k \in Keys : TruthIn(rows, r)[k] # None =>
                        \E f \in OpenAt(rows, r) : KeyOf(f) = k
  BY <1>3, <1>4, <1>5
<1>9. \A k \in Keys : TruthIn(rows, r)[k] \in Contents \cup {None}
  BY <1>1, <1>7, <1>8
<1>10. TruthIn(rows, r) \in [Keys -> Contents \cup {None}]
  BY <1>6, <1>9
<1> QED
  BY <1>1, <1>7, <1>8, <1>10

LEMMA NothingBefore ==
  ASSUME NEW n \in Nat, NEW rows, WellFormed(rows, n)
  PROVE  \A k \in Keys : TruthIn(rows, 0)[k] = None
<1>1. OpenAt(rows, 0) = {}
  BY DEF OpenAt, WellFormed, Row
<1> QED
  BY <1>1, OpenRow

\* A run does not change what an earlier one saw.
LEMMA TruthKept ==
  ASSUME NEW r \in Nat \ {0}, NEW old, NEW new, WellFormed(old, r), WellFormed(new, r),
         WrittenBy(r, old, new), NEW s \in Nat, s < r, NEW k \in Keys
  PROVE  TruthIn(new, s)[k] = TruthIn(old, s)[k]
<1> DEFINE Id(f) == <<f.plugin, f.object, f.content, f.from>>
<1>1. {Id(f) : f \in OpenAt(new, s)} = {Id(f) : f \in OpenAt(old, s)}
  BY EarlierRunsKept
<1>2. \A f, g : Id(f) = Id(g) => KeyOf(f) = KeyOf(g) /\ f.content = g.content
  BY DEF KeyOf
<1> HIDE DEF Id
<1>3. /\ \A f \in OpenAt(new, s) : \E g \in OpenAt(old, s) : Id(f) = Id(g)
      /\ \A g \in OpenAt(old, s) : \E f \in OpenAt(new, s) : Id(f) = Id(g)
  <2>1. \A f \in OpenAt(new, s) : Id(f) \in {Id(g) : g \in OpenAt(old, s)}
    BY <1>1
  <2>2. \A g \in OpenAt(old, s) : Id(g) \in {Id(f) : f \in OpenAt(new, s)}
    BY <1>1
  <2> QED
    BY <2>1, <2>2
<1>4. CASE TruthIn(new, s)[k] # None
  BY <1>2, <1>3, <1>4, OpenRow
<1>5. CASE TruthIn(old, s)[k] # None
  BY <1>2, <1>3, <1>5, OpenRow
<1> QED
  BY <1>4, <1>5

\* The payload of a run holds one content for each finding it saw or the
\* previous run saw, the one it saw itself; and its labels compare the two.
LEMMA PayloadItems ==
  ASSUME NEW n \in Nat, WellFormed(facts, n), NEW r \in Nat, NEW p \in Nat, p = Previous(r)
  PROVE  /\ \A i \in Payload(r) :
              /\ i.key \in Keys
              /\ i.content = TruthIn(facts, r)[i.key]
              /\ i.label = "NEW" <=> TruthIn(facts, p)[i.key] = None
              /\ i.label = "UNCHANGED" => TruthIn(facts, p)[i.key] = i.content
         /\ \A k \in Keys : TruthIn(facts, r)[k] # None \/ TruthIn(facts, p)[k] # None =>
              \E i \in Payload(r) : i.key = k
<1> DEFINE Label(f) == CASE VersionAt(KeyOf(f), p) = {} -> "NEW"
                         [] f \in VersionAt(KeyOf(f), p) -> "UNCHANGED"
                         [] OTHER -> "CHANGED"
           End(f) == IF \E g \in LastClosed(KeyOf(f), p, r) : g.change = "retired"
                     THEN "RETIRED" ELSE "REMEDIATED"
           gone == {g \in OpenAt(facts, p) : VersionAt(KeyOf(g), r) = {}}
<1>1. Payload(r) = {Item(KeyOf(f), f.content, Label(f)) : f \in OpenAt(facts, r)}
                   \cup {Item(KeyOf(f), None, End(f)) : f \in gone}
  BY DEF Payload
<1>2. \A k \in Keys, s \in {p, r} : VersionAt(k, s) = {} <=> TruthIn(facts, s)[k] = None
  BY OpenRow DEF VersionAt
<1>3. \A k, s, f : f \in VersionAt(k, s) <=> f \in OpenAt(facts, s) /\ KeyOf(f) = k
  BY DEF VersionAt
<1>4. \A f : /\ Label(f) = "NEW" <=> VersionAt(KeyOf(f), p) = {}
             /\ Label(f) = "UNCHANGED" => f \in VersionAt(KeyOf(f), p)
             /\ End(f) \notin {"NEW", "UNCHANGED"}
  OBVIOUS
<1>5. \A k, c, l : /\ Item(k, c, l).key = k /\ Item(k, c, l).content = c
                   /\ Item(k, c, l).label = l
  BY DEF Item
<1> HIDE DEF Label, End, gone
<1>6. ASSUME NEW f \in OpenAt(facts, r)
      PROVE  LET i == Item(KeyOf(f), f.content, Label(f)) IN
             /\ i.key \in Keys
             /\ i.content = TruthIn(facts, r)[i.key]
             /\ i.label = "NEW" <=> TruthIn(facts, p)[i.key] = None
             /\ i.label = "UNCHANGED" => TruthIn(facts, p)[i.key] = i.content
  <2>1. KeyOf(f) \in Keys /\ TruthIn(facts, r)[KeyOf(f)] = f.content
    BY OpenRow
  <2>2. f \in OpenAt(facts, p) => TruthIn(facts, p)[KeyOf(f)] = f.content
    BY OpenRow
  <2> QED
    BY <1>2, <1>3, <1>4, <1>5, <2>1, <2>2
<1>7. ASSUME NEW f \in gone
      PROVE  LET i == Item(KeyOf(f), None, End(f)) IN
             /\ i.key \in Keys
             /\ i.content = TruthIn(facts, r)[i.key]
             /\ i.label = "NEW" <=> TruthIn(facts, p)[i.key] = None
             /\ i.label = "UNCHANGED" => TruthIn(facts, p)[i.key] = i.content
  <2>1. f \in OpenAt(facts, p) /\ VersionAt(KeyOf(f), r) = {}
    BY DEF gone
  <2>2. KeyOf(f) \in Keys /\ TruthIn(facts, p)[KeyOf(f)] # None
    BY <2>1, OpenRow
  <2> QED
    BY <1>2, <1>4, <1>5, <2>1, <2>2
<1>8. ASSUME NEW k \in Keys, TruthIn(facts, r)[k] # None
      PROVE  \E i \in Payload(r) : i.key = k
  <2>1. PICK f \in OpenAt(facts, r) : KeyOf(f) = k
    BY <1>8, OpenRow
  <2>2. Item(KeyOf(f), f.content, Label(f)) \in Payload(r)
    BY <1>1
  <2> QED
    BY <1>5, <2>1, <2>2
<1>9. ASSUME NEW k \in Keys, TruthIn(facts, p)[k] # None, TruthIn(facts, r)[k] = None
      PROVE  \E i \in Payload(r) : i.key = k
  <2>1. PICK f \in OpenAt(facts, p) : KeyOf(f) = k
    BY <1>9, OpenRow
  <2>2. f \in gone
    BY <1>2, <1>9, <2>1 DEF gone
  <2>3. Item(KeyOf(f), None, End(f)) \in Payload(r)
    BY <1>1, <2>2
  <2> QED
    BY <1>5, <2>1, <2>3
<1>10. \A i \in Payload(r) : \/ \E f \in OpenAt(facts, r) : i = Item(KeyOf(f), f.content, Label(f))
                             \/ \E f \in gone : i = Item(KeyOf(f), None, End(f))
  BY <1>1
<1> QED
  BY <1>6, <1>7, <1>8, <1>9, <1>10

-----------------------------------------------------------------------------
(* The inductive invariant.                                                *)

RunRow == [status : {"complete", "aborted", "running"}, filtered : BOOLEAN,
           roster : [Plugins -> Result]]
PushStatus == {"pending", "pushed", "partial", "skipped", "expired"}

\* The two tables, and the histories that grow with them.
TablesForm ==
  /\ runs \in Seq(RunRow) /\ Len(runs) <= MaxRuns
  /\ WellFormed(facts, Len(runs))
  /\ push \in Seq(PushStatus) /\ Len(push) = Len(runs)
  /\ collected.latest \in Syncs
  /\ collected.of \in Seq(1..collected.latest) /\ Len(collected.of) = Len(runs)
  /\ collected = [latest |-> collected.latest, of |-> collected.of]
  /\ \A r, s \in DOMAIN runs : r <= s => collected.of[r] <= collected.of[s]

SessionForm ==
  /\ session \in SessionVars
  /\ api \in ApiVars
  /\ session.phase = "none" <=> session.queue = {}
  /\ session.inventory \in {{}, ObjectTypes}
  /\ session.inventory # {} => /\ session.phase # "none"
                               /\ collected.of[Current] = collected.latest

\* Runs that may be sent and that nobody has withheld.
Offered == {r \in DOMAIN runs : Pushable(r) /\ push[r] \notin {"skipped", "expired"}}
\* Those of them the API has not taken.
Waiting == Offered \ api.done

\* What the API has taken was offered, oldest first: nothing that waits is
\* older than what it holds, and what it has begun waits first.
InOrder ==
  /\ api.done \subseteq Offered
  /\ api.newest \in api.done \cup {0}
  /\ \A r \in api.done : r <= api.newest
  /\ \A r \in Waiting : r > api.newest
  /\ \A r \in DOMAIN runs : push[r] = "pushed" => r \in api.done
  /\ api.partial # 0 => api.partial \in Waiting /\ \A r \in Waiting : api.partial <= r

\* The session never works on a run while an older one waits.
WorksInOrder ==
  /\ session.queue \subseteq Offered
  /\ session.phase # "none" => /\ Current \in session.queue
                               /\ \A r \in session.queue \cup Queued : Current <= r
  /\ session.only => \E r \in Offered : session.queue = {r}
  /\ session.phase # "none" /\ ~session.only => session.queue = Queued
  /\ session.phase = "opened" => Current \notin api.done
  /\ session.phase = "accepted" => Current \in api.done

\* Each finding is shown as the newest run has it, or as the run begun has it.
ApiBetweenRuns ==
  \A k \in Keys : \/ api.open[k] = TruthIn(facts, api.newest)[k]
                  \/ api.partial # 0 /\ api.open[k] = TruthIn(facts, api.partial)[k]

InventoryHeld ==
  /\ \A t \in ObjectTypes : \A s \in api.inventory[t] :
       \/ api.newest # 0 /\ s <= collected.of[api.newest]
       \/ api.partial # 0 /\ s <= collected.of[api.partial]
  /\ api.whole # 0 => \A t \in ObjectTypes : api.whole \in api.inventory[t]

PushInv == TablesForm /\ SessionForm /\ InOrder /\ WorksInOrder /\ ApiBetweenRuns /\ InventoryHeld

\* The numbers of runs, wherever they are kept.
LEMMA RunNumbers ==
  ASSUME PushInv
  PROVE  /\ Len(runs) \in Nat /\ MaxRuns \in Nat
         /\ DOMAIN runs = 1..Len(runs) /\ DOMAIN push = DOMAIN runs
         /\ DOMAIN collected.of = DOMAIN runs
         /\ Offered \subseteq DOMAIN runs /\ Queued \subseteq Offered
         /\ api.done \subseteq DOMAIN runs
         /\ api.newest \in 0..Len(runs) /\ api.partial \in 0..Len(runs)
         /\ \A r \in DOMAIN runs : r \in Nat \ {0} /\ r <= Len(runs)
         /\ \A r \in DOMAIN runs : collected.of[r] \in Nat /\ collected.of[r] <= collected.latest
         /\ collected.latest \in Nat \ {0}
<1>1. /\ runs \in Seq(RunRow) /\ push \in Seq(PushStatus)
      /\ collected.of \in Seq(1..collected.latest)
      /\ Len(push) = Len(runs) /\ Len(collected.of) = Len(runs)
      /\ collected.latest \in 1..MaxSyncs
  BY DEF PushInv, TablesForm, Syncs
<1>2. /\ Len(runs) \in Nat /\ DOMAIN runs = 1..Len(runs)
      /\ DOMAIN push = 1..Len(runs) /\ DOMAIN collected.of = 1..Len(runs)
      /\ \A r \in 1..Len(runs) : collected.of[r] \in 1..collected.latest
  BY <1>1, LenProperties, ElementOfSeq
<1>3. collected.latest \in Nat \ {0}
  BY <1>1, MaxSyncsAssumption
<1>4. Offered \subseteq DOMAIN runs /\ Queued \subseteq Offered
  BY DEF Offered, Queued
<1>5. api.done \subseteq DOMAIN runs /\ api.newest \in 0..Len(runs) /\ api.partial \in 0..Len(runs)
  BY <1>2, <1>4 DEF PushInv, InOrder, Waiting
<1> QED
  BY <1>2, <1>3, <1>4, <1>5, MaxRunsAssumption

LEMMA InitPush == PushInit => PushInv
<1> SUFFICES ASSUME PushInit PROVE PushInv
  OBVIOUS
<1>1. /\ facts = {} /\ runs = <<>> /\ push = <<>> /\ session = NoSession
      /\ collected = [latest |-> 1, of |-> <<>>]
      /\ api = [done |-> {}, newest |-> 0, partial |-> 0, open |-> [k \in Keys |-> None],
                inventory |-> [t \in ObjectTypes |-> {}], whole |-> 0]
  BY DEF PushInit, Init
<1>2. TablesForm
  BY <1>1, MaxRunsAssumption, MaxSyncsAssumption DEF TablesForm, WellFormed, OneVersion, Syncs
<1>3. SessionForm
  BY <1>1, MaxRunsAssumption DEF SessionForm, NoSession, SessionVars, ApiVars
<1>4. Offered = {} /\ Waiting = {}
  BY <1>1 DEF Offered, Waiting
<1>5. InOrder
  BY <1>1, <1>4 DEF InOrder
<1>6. WorksInOrder
  BY <1>1 DEF WorksInOrder, NoSession
<1>7. ApiBetweenRuns
  BY <1>1, <1>2, NothingBefore DEF ApiBetweenRuns, TablesForm
<1>8. InventoryHeld
  BY <1>1 DEF InventoryHeld
<1> QED
  BY <1>2, <1>3, <1>5, <1>6, <1>7, <1>8 DEF PushInv

\* What a step leaves alone stays as it should be.
LEMMA Framed ==
  ASSUME PushInv
  PROVE  /\ UNCHANGED <<facts, runs, collected, push>> => TablesForm'
         /\ UNCHANGED <<runs, push>> => Offered' = Offered /\ Queued' = Queued
         /\ UNCHANGED <<runs, push, api>> => Waiting' = Waiting /\ InOrder'
         /\ UNCHANGED <<facts, api>> => ApiBetweenRuns'
         /\ UNCHANGED <<collected, api>> => InventoryHeld'
<1>1. UNCHANGED <<facts, runs, collected, push>> => TablesForm'
  BY DEF PushInv, TablesForm
<1>2. UNCHANGED <<runs, push>> => Offered' = Offered /\ Queued' = Queued
  BY DEF Offered, Queued, Pushable
<1>3. UNCHANGED <<runs, push, api>> => Waiting' = Waiting
  BY <1>2 DEF Waiting
<1>4. UNCHANGED <<runs, push, api>> => InOrder'
  BY <1>2, <1>3 DEF PushInv, InOrder
<1>5. UNCHANGED <<facts, api>> => ApiBetweenRuns'
  BY DEF PushInv, ApiBetweenRuns
<1>6. UNCHANGED <<collected, api>> => InventoryHeld'
  BY DEF PushInv, InventoryHeld
<1> QED
  BY <1>1, <1>2, <1>3, <1>4, <1>5, <1>6

\* The run of an open session is the first that waits, it is newer than
\* anything the API has taken, and what it is compared with is what the API
\* took last.
LEMMA OpenedRun ==
  ASSUME PushInv, session.phase = "opened"
  PROVE  /\ Current \in Waiting /\ \A r \in Waiting : Current <= r
         /\ api.partial \in {0, Current}
         /\ Current > api.newest
         /\ Previous(Current) = api.newest
<1> USE DEF PushInv
<1>1. /\ Current \in session.queue /\ session.queue \subseteq Offered
      /\ Current \notin api.done
      /\ \A r \in session.queue \cup Queued : Current <= r
  BY DEF WorksInOrder
<1>2. Current \in Waiting
  BY <1>1 DEF Waiting
<1>3. Waiting \subseteq Queued
  <2>1. \A r \in DOMAIN runs : push[r] \in PushStatus
    BY RunNumbers, ElementOfSeq DEF TablesForm
  <2> QED
    BY <2>1 DEF InOrder, Waiting, Offered, Queued, PushStatus
<1>4. \A r \in Waiting : Current <= r
  BY <1>1, <1>3
<1>5. Current \in Nat /\ api.newest \in Nat /\ api.partial \in Nat
  BY <1>2, RunNumbers DEF Waiting
<1>6. Current > api.newest
  BY <1>2 DEF InOrder
<1>7. api.partial # 0 => api.partial \in Waiting /\ api.partial <= Current
  BY <1>2 DEF InOrder
<1>8. api.partial \in {0, Current}
  BY <1>4, <1>5, <1>7
<1>9. Previous(Current) = api.newest
  <2> DEFINE S == {0} \cup {s \in 1..(Current - 1) : /\ runs[s].status = "complete"
                                                     /\ ~runs[s].filtered
                                                     /\ push[s] \notin {"skipped", "expired"}}
  <2>1. Previous(Current) = Max(S)
    BY DEF Previous
  <2>2. S \in SUBSET Nat /\ S # {} /\ \A s \in S : s <= Current
    BY <1>5
  <2>3. \A s \in S : s # 0 => s \in Offered /\ s < Current
    <3> SUFFICES ASSUME NEW s \in S, s # 0 PROVE s \in Offered /\ s < Current
      OBVIOUS
    <3>1. s \in DOMAIN runs /\ s < Current
      BY <1>2, <1>5, RunNumbers DEF Waiting
    <3> QED
      BY <3>1 DEF Offered, Pushable
  <2>4. \A s \in S : s <= api.newest
    <3> SUFFICES ASSUME NEW s \in S, s # 0 PROVE s <= api.newest
      BY <1>5
    <3>1. s \notin Waiting
      BY <1>4, <1>5, <2>2, <2>3
    <3>2. s \in api.done
      BY <2>3, <3>1 DEF Waiting
    <3> QED
      BY <3>2 DEF InOrder
  <2>5. api.newest \in S
    <3> SUFFICES ASSUME api.newest # 0 PROVE api.newest \in S
      OBVIOUS
    <3>1. api.newest \in Offered
      BY DEF InOrder
    <3>2. api.newest \in 1..(Current - 1)
      BY <1>5, <1>6
    <3> QED
      BY <3>1, <3>2 DEF Offered, Pushable
  <2> HIDE DEF S
  <2>6. Max(S) \in S /\ \A s \in S : s <= Max(S)
    BY <1>5, <2>2, MaxIsGreatest
  <2>7. Max(S) \in Nat
    BY <2>2, <2>6
  <2> QED
    BY <1>5, <2>1, <2>4, <2>5, <2>6, <2>7
<1> QED
  BY <1>2, <1>4, <1>6, <1>8, <1>9

-----------------------------------------------------------------------------
(* Steps that start, end or advance a session.                             *)

LEMMA SessionEnds ==
  ASSUME PushInv, session' = NoSession, api' = api
  PROVE  SessionForm' /\ WorksInOrder'
<1>1. NoSession \in SessionVars
  BY DEF NoSession, SessionVars
<1> QED
  BY <1>1 DEF PushInv, SessionForm, WorksInOrder, NoSession

\* The status of a run is changed, and nothing else of the tables.
LEMMA MarkKeeps ==
  ASSUME PushInv, UNCHANGED <<facts, runs, collected, api>>,
         NEW x \in DOMAIN runs, NEW status \in PushStatus,
         push' = [push EXCEPT ![x] = status],
         \/ status \in {"skipped", "expired"} /\ Untouched(x)
         \/ status = "pushed" /\ x \in Offered \cap api.done
         \/ status = "partial" /\ x \in Waiting
  PROVE  /\ TablesForm' /\ InOrder' /\ ApiBetweenRuns' /\ InventoryHeld'
         /\ Offered \ {x} \subseteq Offered'
         /\ status # "partial" => Queued' = Queued \ {x}
<1>1. /\ push \in Seq(PushStatus) /\ Len(push) = Len(runs)
      /\ x \in 1..Len(push) /\ DOMAIN push = DOMAIN runs
      /\ push \in [DOMAIN runs -> PushStatus]
  BY RunNumbers, LenProperties DEF PushInv, TablesForm
<1>2. /\ push' \in Seq(PushStatus) /\ Len(push') = Len(push)
  BY <1>1, ExceptSeq
<1>3. \A r \in DOMAIN runs : push'[r] = IF r = x THEN status ELSE push[r]
  BY <1>1
<1>4. TablesForm'
  BY <1>1, <1>2 DEF PushInv, TablesForm
<1>5. Offered' = IF status \in {"skipped", "expired"} THEN Offered \ {x} ELSE Offered
  BY <1>3 DEF Offered, Pushable, Waiting
<1>6. status # "partial" => Queued' = Queued \ {x}
  BY <1>3 DEF Queued, Pushable
<1>7. Waiting' = IF status \in {"skipped", "expired"} THEN Waiting \ {x} ELSE Waiting
  BY <1>5 DEF Waiting
<1>8. InOrder'
  <2>1. api.done \subseteq Offered'
    BY <1>5 DEF PushInv, InOrder, Untouched
  <2>2. /\ \A r \in Waiting' : r > api.newest
        /\ \A r \in DOMAIN runs : push'[r] = "pushed" => r \in api.done
    BY <1>3, <1>7 DEF PushInv, InOrder
  <2>3. api.partial # 0 => api.partial \in Waiting' /\ \A r \in Waiting' : api.partial <= r
    BY <1>7 DEF PushInv, InOrder, Untouched
  <2> QED
    BY <2>1, <2>2, <2>3 DEF PushInv, InOrder
<1>9. ApiBetweenRuns' /\ InventoryHeld'
  BY Framed
<1> QED
  BY <1>4, <1>5, <1>6, <1>8, <1>9

\* The run in progress is done, one way or the other.
LEMMA DoneKeeps ==
  ASSUME PushInv, UNCHANGED <<facts, runs, collected, api>>, session.phase # "none",
         NEW status \in {"pushed", "expired"}, Done(status),
         \/ status = "expired" /\ Untouched(Current)
         \/ status = "pushed" /\ Current \in api.done
  PROVE  PushInv'
<1>1. /\ Current \in session.queue /\ session.queue \subseteq Offered
      /\ \A r \in session.queue \cup Queued : Current <= r
      /\ session.only => \E r \in Offered : session.queue = {r}
      /\ ~session.only => session.queue = Queued
  BY DEF PushInv, WorksInOrder
<1>2. Current \in DOMAIN runs
  BY <1>1 DEF Offered
<1>3. push' = [push EXCEPT ![Current] = status]
  BY DEF Done
<1>4. /\ TablesForm' /\ InOrder' /\ ApiBetweenRuns' /\ InventoryHeld'
      /\ Offered \ {Current} \subseteq Offered'
      /\ Queued' = Queued \ {Current}
  <2>1. status \in PushStatus
    BY DEF PushStatus
  <2>2. \/ status \in {"skipped", "expired"} /\ Untouched(Current)
        \/ status = "pushed" /\ Current \in Offered \cap api.done
        \/ status = "partial" /\ Current \in Waiting
    BY <1>1
  <2> QED
    BY <1>2, <1>3, <2>1, <2>2, MarkKeeps
<1>5. CASE session.queue = {Current}
  <2>1. session' = NoSession
    BY <1>5 DEF Done
  <2> QED
    BY <1>4, <2>1, SessionEnds DEF PushInv
<1>6. CASE session.queue # {Current}
  <2>1. session' = [session EXCEPT !.phase = "next", !.queue = @ \ {Current}, !.inventory = {}]
    BY <1>6 DEF Done
  <2>2. ~session.only /\ session.queue = Queued
    BY <1>1, <1>6
  <2>3. session \in SessionVars
    BY DEF PushInv, SessionForm
  <2>4. /\ session' \in SessionVars /\ session'.phase = "next" /\ ~session'.only
        /\ session'.queue = Queued' /\ session'.inventory = {}
    BY <1>4, <2>1, <2>2, <2>3 DEF SessionVars
  <2>5. Queued' # {} /\ Queued' \in SUBSET Nat
    BY <1>1, <1>4, <1>6, <2>2, RunNumbers
  <2>6. Current' \in session'.queue /\ \A r \in session'.queue : Current' <= r
    BY <2>4, <2>5, MinIsLeast DEF Current
  <2>7. session'.queue \subseteq Offered'
    BY <1>1, <1>4, <2>2, <2>4
  <2>8. SessionForm'
    BY <2>4, <2>5 DEF PushInv, SessionForm
  <2>9. WorksInOrder'
    BY <2>4, <2>6, <2>7 DEF WorksInOrder
  <2> QED
    BY <1>4, <2>8, <2>9 DEF PushInv
<1> QED
  BY <1>5, <1>6

LEMMA StartPushKeeps == PushInv /\ StartPush => PushInv'
<1> SUFFICES ASSUME PushInv, StartPush PROVE PushInv'
  OBVIOUS
<1>1. /\ UNCHANGED <<facts, runs, collected, push, api>> /\ Queued # {}
      /\ session' = [NoSession EXCEPT !.phase = "next", !.queue = Queued]
  BY DEF StartPush, Local
<1>2. /\ session'.phase = "next" /\ session'.queue = Queued /\ ~session'.only
      /\ session'.inventory = {}
      /\ session' = [phase |-> "next", queue |-> Queued, only |-> FALSE, inventory |-> {}]
  BY <1>1 DEF NoSession
<1>3. Queued \in SUBSET Nat /\ Queued \subseteq Offered /\ Queued \subseteq 1..MaxRuns
  BY RunNumbers DEF PushInv, TablesForm
<1>4. Current' \in Queued /\ \A r \in Queued : Current' <= r
  BY <1>1, <1>2, <1>3, MinIsLeast DEF Current
<1>5. SessionForm'
  <2>1. session' \in SessionVars
    BY <1>2, <1>3 DEF SessionVars
  <2> QED
    BY <1>1, <1>2, <2>1 DEF PushInv, SessionForm
<1>6. Offered' = Offered /\ Queued' = Queued
  BY <1>1, Framed
<1>7. WorksInOrder'
  BY <1>2, <1>3, <1>4, <1>6 DEF WorksInOrder
<1> QED
  BY <1>1, <1>5, <1>7, Framed DEF PushInv

LEMMA StartPushRunKeeps ==
  PushInv => \A r \in DOMAIN runs : StartPushRunInOrder(r) => PushInv'
<1> SUFFICES ASSUME PushInv, NEW r \in DOMAIN runs, StartPushRunInOrder(r) PROVE PushInv'
  OBVIOUS
<1>1. /\ UNCHANGED <<facts, runs, collected, push, api>>
      /\ Pushable(r) /\ push[r] \notin {"skipped", "expired"} /\ \A s \in Queued : r <= s
      /\ session' = [NoSession EXCEPT !.phase = "next", !.queue = {r}, !.only = TRUE]
  BY DEF StartPushRunInOrder, StartPushRun, Local
<1>2. /\ session'.phase = "next" /\ session'.queue = {r} /\ session'.only
      /\ session'.inventory = {}
      /\ session' = [phase |-> "next", queue |-> {r}, only |-> TRUE, inventory |-> {}]
  BY <1>1 DEF NoSession
<1>3. r \in Nat /\ r \in Offered /\ {r} \in SUBSET (1..MaxRuns)
  BY <1>1, RunNumbers DEF PushInv, TablesForm, Offered
<1>4. Current' = r
  <2>1. Min({r}) \in {r}
    BY <1>3, MinIsLeast
  <2> QED
    BY <1>2, <2>1 DEF Current
<1>5. SessionForm'
  BY <1>1, <1>2, <1>3 DEF PushInv, SessionForm, SessionVars
<1>6. Offered' = Offered /\ Queued' = Queued
  BY <1>1, Framed
<1>7. WorksInOrder'
  BY <1>1, <1>2, <1>3, <1>4, <1>6 DEF WorksInOrder
<1> QED
  BY <1>1, <1>5, <1>7, Framed DEF PushInv

LEMMA GiveUpKeeps == PushInv /\ GiveUp => PushInv'
<1> SUFFICES ASSUME PushInv, GiveUp PROVE PushInv'
  OBVIOUS
<1>1. UNCHANGED <<facts, runs, collected, push, api>> /\ session' = NoSession
  BY DEF GiveUp, Local
<1> QED
  BY <1>1, SessionEnds, Framed DEF PushInv

LEMMA OpenKeeps == PushInv /\ Open => PushInv'
<1> SUFFICES ASSUME PushInv, Open PROVE PushInv'
  OBVIOUS
<1>1. PICK types \in Inventories(Current) :
        session' = [session EXCEPT !.phase = "opened", !.inventory = types]
  BY DEF Open
<1>2. UNCHANGED <<facts, runs, collected, push, api>> /\ session.phase = "next"
      /\ Current \notin api.done
  BY DEF Open, Local
<1>3. types \in {{}, ObjectTypes} /\ (types # {} => collected.of[Current] = collected.latest)
  BY DEF Inventories, CarriesInventory
<1>4. session \in SessionVars
  BY DEF PushInv, SessionForm
<1>5. /\ session' \in SessionVars /\ session'.phase = "opened" /\ session'.inventory = types
      /\ session'.queue = session.queue /\ session'.only = session.only
  BY <1>1, <1>3, <1>4 DEF SessionVars
<1>6. Current' = Current
  BY <1>5 DEF Current
<1>7. SessionForm'
  BY <1>2, <1>3, <1>5, <1>6 DEF PushInv, SessionForm
<1>8. Offered' = Offered /\ Queued' = Queued
  BY <1>2, Framed
<1>9. WorksInOrder'
  BY <1>2, <1>5, <1>6, <1>8 DEF PushInv, WorksInOrder
<1> QED
  BY <1>2, <1>7, <1>9, Framed DEF PushInv

LEMMA MismatchKeeps == PushInv /\ Mismatch => PushInv'
<1> SUFFICES ASSUME PushInv, Mismatch PROVE PushInv'
  OBVIOUS
<1>1. /\ UNCHANGED <<facts, runs, collected, api>> /\ session.phase = "opened"
      /\ push' = [push EXCEPT ![Current] = "partial"] /\ session' = NoSession
  BY DEF Mismatch, Local
<1>2. Current \in Waiting /\ Current \in DOMAIN runs
  BY <1>1, OpenedRun DEF Waiting, Offered
<1>3. TablesForm' /\ InOrder' /\ ApiBetweenRuns' /\ InventoryHeld'
  BY <1>1, <1>2, MarkKeeps DEF PushStatus
<1> QED
  BY <1>1, <1>3, SessionEnds DEF PushInv

LEMMA SkipKeeps == PushInv => \A r \in DOMAIN runs : SkipUntouched(r) => PushInv'
<1> SUFFICES ASSUME PushInv, NEW r \in DOMAIN runs, SkipUntouched(r) PROVE PushInv'
  OBVIOUS
<1>1. /\ UNCHANGED <<facts, runs, collected, session, api>> /\ session.phase = "none"
      /\ push' = [push EXCEPT ![r] = "skipped"] /\ Untouched(r)
  BY DEF SkipUntouched, Skip, Local
<1>2. TablesForm' /\ InOrder' /\ ApiBetweenRuns' /\ InventoryHeld'
  BY <1>1, MarkKeeps DEF PushStatus
<1>3. SessionForm'
  BY <1>1 DEF PushInv, SessionForm
<1>4. WorksInOrder'
  BY <1>1, SessionEnds DEF PushInv, SessionForm, WorksInOrder
<1> QED
  BY <1>2, <1>3, <1>4 DEF PushInv

-----------------------------------------------------------------------------
(* Requests the API processes.                                             *)

\* Each finding of the API's is as the newest run or the one begun has it;
\* after a batch of the one begun it still is, and what the batch is about
\* is as that run has it.
LEMMA StoredItems ==
  ASSUME PushInv, session.phase = "opened", NEW items \in SUBSET Payload(Current),
         NEW stored, stored = Stored(api.open, items)
  PROVE  /\ stored \in [Keys -> Contents \cup {None}]
         /\ \A k \in Keys : stored[k] \in {TruthIn(facts, api.newest)[k],
                                           TruthIn(facts, Current)[k]}
         /\ \A k \in Keys : (\E i \in items : i.key = k) => stored[k] = TruthIn(facts, Current)[k]
<1>1. /\ Current \in Nat /\ api.newest \in Nat /\ Len(runs) \in Nat
      /\ Previous(Current) = api.newest /\ api.partial \in {0, Current}
  BY OpenedRun, RunNumbers DEF Waiting
<1>2. WellFormed(facts, Len(runs))
  BY DEF PushInv, TablesForm
<1>3. \A i \in items : i.key \in Keys /\ i.content = TruthIn(facts, Current)[i.key]
  BY <1>1, <1>2, PayloadItems
<1>4. \A k \in Keys : stored[k] = IF \E i \in items : i.key = k
                                  THEN (CHOOSE i \in items : i.key = k).content
                                  ELSE api.open[k]
  BY DEF Stored
<1>5. \A k \in Keys : (\E i \in items : i.key = k) => stored[k] = TruthIn(facts, Current)[k]
  <2> TAKE k \in Keys
  <2> HAVE \E i \in items : i.key = k
  <2> DEFINE j == CHOOSE i \in items : i.key = k
  <2>1. j \in items /\ j.key = k
    OBVIOUS
  <2> QED
    BY <1>3, <1>4, <2>1
<1>6. \A k \in Keys : api.open[k] \in {TruthIn(facts, api.newest)[k], TruthIn(facts, Current)[k]}
  BY <1>1 DEF PushInv, ApiBetweenRuns
<1>7. /\ TruthIn(facts, Current) \in [Keys -> Contents \cup {None}]
      /\ TruthIn(facts, api.newest) \in [Keys -> Contents \cup {None}]
  BY <1>1, <1>2, OpenRow
<1>8. \A k \in Keys : stored[k] \in {TruthIn(facts, api.newest)[k], TruthIn(facts, Current)[k]}
  BY <1>4, <1>5, <1>6
<1>9. stored = [k \in Keys |-> stored[k]]
  BY DEF Stored
<1>10. \A k \in Keys : stored[k] \in Contents \cup {None}
  BY <1>7, <1>8
<1> QED
  BY <1>5, <1>8, <1>9, <1>10

\* The API's state, field by field.
ApiAs(done, newest, partial, open, inventory, whole) ==
  [done |-> done, newest |-> newest, partial |-> partial, open |-> open,
   inventory |-> inventory, whole |-> whole]

LEMMA ApiRecord ==
  ASSUME NEW done \in SUBSET (1..MaxRuns), NEW newest \in 0..MaxRuns, NEW partial \in 0..MaxRuns,
         NEW open \in [Keys -> Contents \cup {None}],
         NEW inventory \in [ObjectTypes -> SUBSET Syncs], NEW whole \in {0} \cup Syncs,
         NEW state, state = ApiAs(done, newest, partial, open, inventory, whole)
  PROVE  /\ state \in ApiVars
         /\ state.done = done /\ state.newest = newest /\ state.partial = partial
         /\ state.open = open /\ state.inventory = inventory /\ state.whole = whole
  BY DEF ApiVars, ApiAs

LEMMA ApiFields ==
  ASSUME api \in ApiVars
  PROVE  /\ api = ApiAs(api.done, api.newest, api.partial, api.open, api.inventory, api.whole)
         /\ api.done \in SUBSET (1..MaxRuns)
         /\ api.newest \in 0..MaxRuns /\ api.partial \in 0..MaxRuns
         /\ api.open \in [Keys -> Contents \cup {None}]
         /\ api.inventory \in [ObjectTypes -> SUBSET Syncs] /\ api.whole \in {0} \cup Syncs
  BY DEF ApiVars, ApiAs

LEMMA ApiPartial ==
  ASSUME api \in ApiVars, NEW open \in [Keys -> Contents \cup {None}],
         NEW inventory \in [ObjectTypes -> SUBSET Syncs], NEW partial \in 0..MaxRuns,
         api' = [api EXCEPT !.partial = partial, !.open = open, !.inventory = inventory]
  PROVE  /\ api' \in ApiVars
         /\ api'.done = api.done /\ api'.newest = api.newest /\ api'.partial = partial
         /\ api'.open = open /\ api'.inventory = inventory /\ api'.whole = api.whole
<1>1. PICK done \in SUBSET (1..MaxRuns), newest \in 0..MaxRuns, p \in 0..MaxRuns,
           o \in [Keys -> Contents \cup {None}],
           i \in [ObjectTypes -> SUBSET Syncs], whole \in {0} \cup Syncs :
        api = ApiAs(done, newest, p, o, i, whole)
  BY DEF ApiVars, ApiAs
<1>2. api' = ApiAs(done, newest, partial, open, inventory, whole)
  BY <1>1 DEF ApiAs
<1>3. api.done = done /\ api.newest = newest /\ api.whole = whole
  BY <1>1 DEF ApiAs
<1> QED
  BY <1>2, <1>3, ApiRecord

LEMMA SendBatchKeeps == PushInv /\ SendBatch => PushInv'
<1> SUFFICES ASSUME PushInv, SendBatch PROVE PushInv'
  OBVIOUS
<1>1. UNCHANGED <<facts, runs, collected, push, session>> /\ session.phase = "opened"
  BY DEF SendBatch, Local
<1>2. PICK batch \in SUBSET Payload(Current) : ApiStores(Current, batch)
  BY DEF SendBatch
<1>3. /\ Current \in Waiting /\ \A r \in Waiting : Current <= r
      /\ api.partial \in {0, Current} /\ Current > api.newest
      /\ Current \in Nat \ {0} /\ Current <= MaxRuns /\ api.newest \in Nat
  BY <1>1, OpenedRun, RunNumbers DEF Waiting, PushInv, TablesForm
<1>4. api' = [api EXCEPT !.open = Stored(@, batch), !.partial = Current]
  BY <1>2, <1>3 DEF ApiStores
<1>5. api \in ApiVars
  BY DEF PushInv, SessionForm
<1>6. /\ Stored(api.open, batch) \in [Keys -> Contents \cup {None}]
      /\ \A k \in Keys : Stored(api.open, batch)[k] \in {TruthIn(facts, api.newest)[k],
                                                         TruthIn(facts, Current)[k]}
  BY <1>1, StoredItems
<1>7. /\ api' \in ApiVars
      /\ api'.done = api.done /\ api'.newest = api.newest /\ api'.partial = Current
      /\ api'.open = Stored(api.open, batch)
      /\ api'.inventory = api.inventory /\ api'.whole = api.whole
  <2> DEFINE stored == Stored(api.open, batch)
  <2>1. stored \in [Keys -> Contents \cup {None}] /\ Current \in 0..MaxRuns
    BY <1>3, <1>6, MaxRunsAssumption
  <2> HIDE DEF stored
  <2>2. api' = [api EXCEPT !.partial = Current, !.open = stored, !.inventory = api.inventory]
    BY <1>4, <1>5 DEF ApiVars, stored
  <2>3. /\ api' \in ApiVars
        /\ api'.done = api.done /\ api'.newest = api.newest /\ api'.partial = Current
        /\ api'.open = stored
        /\ api'.inventory = api.inventory /\ api'.whole = api.whole
    BY <1>5, <2>1, <2>2, ApiFields, ApiPartial
  <2> QED
    BY <2>3 DEF stored
<1>8. Current' = Current /\ Offered' = Offered /\ Queued' = Queued /\ Waiting' = Waiting
  BY <1>1, <1>7, Framed DEF Current, Waiting
<1>9. TablesForm'
  BY <1>1, Framed
<1>10. SessionForm'
  BY <1>1, <1>7, <1>8 DEF PushInv, SessionForm
<1>11. InOrder'
  BY <1>1, <1>3, <1>7, <1>8 DEF PushInv, InOrder
<1>12. WorksInOrder'
  BY <1>1, <1>7, <1>8 DEF PushInv, WorksInOrder
<1>13. ApiBetweenRuns'
  BY <1>1, <1>3, <1>6, <1>7 DEF ApiBetweenRuns
<1>14. InventoryHeld'
  BY <1>1, <1>3, <1>7 DEF PushInv, InventoryHeld
<1> QED
  BY <1>9, <1>10, <1>11, <1>12, <1>13, <1>14 DEF PushInv

LEMMA SendInventoryKeeps == PushInv /\ SendInventory => PushInv'
<1> SUFFICES ASSUME PushInv, SendInventory PROVE PushInv'
  OBVIOUS
<1>1. UNCHANGED <<facts, runs, collected, push, session>> /\ session.phase = "opened"
  BY DEF SendInventory, Local
<1>2. PICK types \in SUBSET session.inventory : types # {} /\ ApiStoresInventory(Current, types)
  BY DEF SendInventory
<1>3. /\ Current \in Waiting /\ \A r \in Waiting : Current <= r
      /\ api.partial \in {0, Current} /\ Current > api.newest
      /\ Current \in Nat \ {0} /\ Current <= MaxRuns /\ api.newest \in Nat
  BY <1>1, OpenedRun, RunNumbers DEF Waiting, PushInv, TablesForm
<1> DEFINE held == [t \in ObjectTypes |-> IF t \in types
                                          THEN api.inventory[t] \cup {collected.latest}
                                          ELSE api.inventory[t]]
<1>4. api' = [api EXCEPT !.partial = Current, !.inventory = held]
  BY <1>2, <1>3 DEF ApiStoresInventory
<1>5. api \in ApiVars /\ collected.latest \in Syncs
  BY DEF PushInv, SessionForm, TablesForm
<1>6. held \in [ObjectTypes -> SUBSET Syncs]
  BY <1>5 DEF ApiVars
<1>7. \A t \in ObjectTypes : api.inventory[t] \subseteq held[t] /\ held[t] \subseteq
                               api.inventory[t] \cup {collected.latest}
  OBVIOUS
<1> HIDE DEF held
<1>8. /\ api' \in ApiVars
      /\ api'.done = api.done /\ api'.newest = api.newest /\ api'.partial = Current
      /\ api'.open = api.open
      /\ api'.inventory = held /\ api'.whole = api.whole
  <2>1. api' = [api EXCEPT !.partial = Current, !.open = api.open, !.inventory = held]
    BY <1>4, <1>5 DEF ApiVars
  <2>2. Current \in 0..MaxRuns
    BY <1>3, MaxRunsAssumption
  <2> QED
    BY <1>5, <1>6, <2>1, <2>2, ApiFields, ApiPartial
<1>9. collected.of[Current] = collected.latest /\ collected.latest \in Nat
  BY <1>2, RunNumbers DEF PushInv, SessionForm
<1>10. Current' = Current /\ Offered' = Offered /\ Queued' = Queued /\ Waiting' = Waiting
  BY <1>1, <1>8, Framed DEF Current, Waiting
<1>11. TablesForm'
  BY <1>1, Framed
<1>12. SessionForm'
  BY <1>1, <1>8, <1>10 DEF PushInv, SessionForm
<1>13. InOrder'
  BY <1>1, <1>3, <1>8, <1>10 DEF PushInv, InOrder
<1>14. WorksInOrder'
  BY <1>1, <1>8, <1>10 DEF PushInv, WorksInOrder
<1>15. ApiBetweenRuns'
  BY <1>1, <1>3, <1>8 DEF PushInv, ApiBetweenRuns
<1>16. InventoryHeld'
  <2>1. \A t \in ObjectTypes : \A s \in held[t] :
          \/ api.newest # 0 /\ s <= collected.of[api.newest]
          \/ s <= collected.of[Current]
    BY <1>3, <1>7, <1>9 DEF PushInv, InventoryHeld
  <2>2. api.whole # 0 => \A t \in ObjectTypes : api.whole \in held[t]
    BY <1>7 DEF PushInv, InventoryHeld
  <2> QED
    BY <1>1, <1>3, <1>8, <2>1, <2>2 DEF InventoryHeld
<1> QED
  BY <1>11, <1>12, <1>13, <1>14, <1>15, <1>16 DEF PushInv

\* Every finding the API may still show of the previous run is in the
\* payload: what it shows when the run is complete is what the run saw.
LEMMA SweptItems ==
  ASSUME PushInv, session.phase = "opened", NEW roster,
         NEW swept, swept = Swept(Stored(api.open, Payload(Current)), Payload(Current), roster)
  PROVE  /\ swept \in [Keys -> Contents \cup {None}]
         /\ \A k \in Keys : swept[k] = TruthIn(facts, Current)[k]
<1> DEFINE stored == Stored(api.open, Payload(Current))
<1>1. /\ Current \in Nat /\ api.newest \in Nat /\ Len(runs) \in Nat
      /\ Previous(Current) = api.newest
  BY OpenedRun, RunNumbers DEF Waiting
<1>2. WellFormed(facts, Len(runs))
  BY DEF PushInv, TablesForm
<1>3. \A k \in Keys : TruthIn(facts, Current)[k] # None \/ TruthIn(facts, api.newest)[k] # None =>
        \E i \in Payload(Current) : i.key = k
  BY <1>1, <1>2, PayloadItems
<1>4. /\ stored \in [Keys -> Contents \cup {None}]
      /\ \A k \in Keys : stored[k] \in {TruthIn(facts, api.newest)[k], TruthIn(facts, Current)[k]}
      /\ \A k \in Keys : (\E i \in Payload(Current) : i.key = k) =>
           stored[k] = TruthIn(facts, Current)[k]
  BY StoredItems
<1>5. swept = [k \in Keys |-> IF roster[k[1]] = "pass" /\ \A i \in Payload(Current) : i.key # k
                              THEN None ELSE stored[k]]
  BY DEF Swept
<1> HIDE DEF stored
<1>6. \A k \in Keys : swept[k] = TruthIn(facts, Current)[k]
  BY <1>3, <1>4, <1>5
<1>7. swept \in [Keys -> Contents \cup {None}]
  BY <1>4, <1>5
<1> QED
  BY <1>6, <1>7

LEMMA AcceptKeeps == PushInv /\ Accept => PushInv'
<1> SUFFICES ASSUME PushInv, Accept PROVE PushInv'
  OBVIOUS
<1> DEFINE types == session.inventory
           swept == Swept(Stored(api.open, Payload(Current)), Payload(Current),
                          runs[Current].roster)
           whole == IF types = {} THEN api.whole ELSE collected.latest
<1>1. UNCHANGED <<facts, runs, collected, push>> /\ session.phase = "opened"
      /\ session' = [session EXCEPT !.phase = "accepted"]
      /\ ApiCompletes(Current, Payload(Current), types)
  BY DEF Accept, Local
<1>2. /\ Current \in Waiting /\ \A r \in Waiting : Current <= r
      /\ api.partial \in {0, Current} /\ Current > api.newest
      /\ Current \in Nat \ {0} /\ Current <= MaxRuns /\ api.newest \in Nat
      /\ Current \in DOMAIN runs
  BY <1>1, OpenedRun, RunNumbers DEF Waiting, PushInv, TablesForm
<1>3. api' = [api EXCEPT !.done = @ \cup {Current}, !.newest = Current, !.partial = 0,
                         !.open = swept, !.inventory = InventorySwept(types), !.whole = whole]
  BY <1>1, <1>2 DEF ApiCompletes
<1>4. /\ api \in ApiVars /\ collected.latest \in Syncs
      /\ types \in {{}, ObjectTypes}
      /\ types # {} => collected.of[Current] = collected.latest
  BY DEF PushInv, SessionForm, TablesForm
<1>5. swept \in [Keys -> Contents \cup {None}] /\ \A k \in Keys : swept[k] = TruthIn(facts, Current)[k]
  BY <1>1, SweptItems
<1>6. InventorySwept(types) = IF types = {} THEN api.inventory
                              ELSE [t \in ObjectTypes |-> {collected.latest}]
  BY <1>4 DEF InventorySwept
<1>7. InventorySwept(types) \in [ObjectTypes -> SUBSET Syncs] /\ whole \in {0} \cup Syncs
  BY <1>4, <1>6 DEF ApiVars
<1>8. \A r \in Waiting : r \in 1..MaxRuns
  BY RunNumbers DEF Waiting, PushInv, TablesForm
<1> HIDE DEF swept, whole
<1>9. /\ api' \in ApiVars
      /\ api'.done = api.done \cup {Current} /\ api'.newest = Current /\ api'.partial = 0
      /\ api'.open = swept /\ api'.inventory = InventorySwept(types) /\ api'.whole = whole
  <2> DEFINE done == api.done \cup {Current}
             inventory == InventorySwept(types)
  <2>1. api' = ApiAs(done, Current, 0, swept, inventory, whole)
    BY <1>3, <1>4, ApiFields DEF ApiAs
  <2>2. done \in SUBSET (1..MaxRuns) /\ Current \in 0..MaxRuns /\ 0 \in 0..MaxRuns
    BY <1>2, <1>4, <1>8, ApiFields, MaxRunsAssumption
  <2>3. /\ swept \in [Keys -> Contents \cup {None}]
        /\ inventory \in [ObjectTypes -> SUBSET Syncs] /\ whole \in {0} \cup Syncs
    BY <1>5, <1>7
  <2> HIDE DEF done, inventory, types
  <2>4. /\ api' \in ApiVars
        /\ api'.done = done /\ api'.newest = Current /\ api'.partial = 0
        /\ api'.open = swept /\ api'.inventory = inventory /\ api'.whole = whole
    BY <2>1, <2>2, <2>3, ApiRecord
  <2> QED
    BY <2>4 DEF done, inventory
<1>10. session \in SessionVars
  BY DEF PushInv, SessionForm
<1>11. /\ session' \in SessionVars /\ session'.phase = "accepted"
       /\ session'.queue = session.queue /\ session'.only = session.only
       /\ session'.inventory = session.inventory
  BY <1>1, <1>10 DEF SessionVars
<1>12. /\ Current' = Current /\ Offered' = Offered /\ Queued' = Queued
       /\ Waiting' = Waiting \ {Current}
  BY <1>1, <1>9, <1>11, Framed DEF Current, Waiting
<1>13. TablesForm'
  BY <1>1, Framed
<1>14. SessionForm'
  BY <1>1, <1>9, <1>11, <1>12 DEF PushInv, SessionForm
<1>15. InOrder'
  <2>1. \A r \in Waiting' : r > Current
    BY <1>2, <1>8, <1>12
  <2>2. \A r \in api'.done : r <= Current
    <3> SUFFICES ASSUME NEW r \in api.done PROVE r <= Current
      BY <1>2, <1>9
    <3>1. r \in Nat /\ r <= api.newest
      BY RunNumbers DEF PushInv, InOrder
    <3> QED
      BY <1>2, <3>1
  <2>3. api'.done \subseteq Offered'
    BY <1>2, <1>9, <1>12 DEF PushInv, InOrder, Waiting
  <2> QED
    BY <1>1, <1>9, <1>12, <2>1, <2>2, <2>3 DEF PushInv, InOrder
<1>16. WorksInOrder'
  BY <1>1, <1>9, <1>11, <1>12 DEF PushInv, WorksInOrder
<1>17. ApiBetweenRuns'
  BY <1>1, <1>5, <1>9 DEF ApiBetweenRuns
<1>18. InventoryHeld'
  <2>1. CASE types = {}
    <3>1. api'.inventory = api.inventory /\ api'.whole = api.whole
      BY <1>6, <1>9, <2>1 DEF whole
    <3>2. \A t \in ObjectTypes : \A s \in api.inventory[t] : s <= collected.of[Current]
      <4> SUFFICES ASSUME NEW t \in ObjectTypes, NEW s \in api.inventory[t]
                   PROVE  s <= collected.of[Current]
        OBVIOUS
      <4>1. s \in Nat
        BY <1>4, MaxSyncsAssumption DEF ApiVars, Syncs
      <4>2. \/ api.newest # 0 /\ s <= collected.of[api.newest]
            \/ s <= collected.of[Current]
        BY <1>2 DEF PushInv, InventoryHeld
      <4>3. api.newest # 0 => /\ collected.of[api.newest] \in Nat
                              /\ collected.of[api.newest] <= collected.of[Current]
        <5> SUFFICES ASSUME api.newest # 0
                     PROVE  /\ collected.of[api.newest] \in Nat
                            /\ collected.of[api.newest] <= collected.of[Current]
          OBVIOUS
        <5>1. api.newest \in DOMAIN runs /\ api.newest <= Current
          BY <1>2, RunNumbers
        <5> QED
          BY <1>2, <5>1, RunNumbers DEF PushInv, TablesForm
      <4> QED
        BY <1>2, <4>1, <4>2, <4>3, RunNumbers
    <3> QED
      BY <1>1, <1>2, <1>9, <3>1, <3>2 DEF PushInv, InventoryHeld
  <2>2. CASE types # {}
    <3>1. api'.inventory = [t \in ObjectTypes |-> {collected.latest}] /\ api'.whole = collected.latest
      BY <1>6, <1>9, <2>2 DEF whole
    <3>2. collected.latest \in Nat /\ collected.latest <= collected.of[Current]
      BY <1>4, <2>2, RunNumbers
    <3> QED
      BY <1>1, <1>2, <1>9, <3>1, <3>2 DEF InventoryHeld
  <2> QED
    BY <2>1, <2>2
<1> QED
  BY <1>13, <1>14, <1>15, <1>16, <1>17, <1>18 DEF PushInv

-----------------------------------------------------------------------------
(* Evaluation runs and collections.                                        *)

LEMMA FindingsStep ==
  ASSUME PushInv, Next
  PROVE  /\ Len(runs) + 1 \in Nat \ {0} /\ Len(runs) + 1 <= MaxRuns
         /\ \E row \in RunRow : runs' = Append(runs, row)
         /\ WellFormed(facts', Len(runs) + 1)
         /\ \A s \in 0..Len(runs), k \in Keys : TruthIn(facts', s)[k] = TruthIn(facts, s)[k]
<1> DEFINE n == Len(runs) + 1
<1>1. /\ WellFormed(facts, Len(runs)) /\ Len(runs) \in Nat
      /\ Len(runs) < MaxRuns /\ (Evaluate \/ Stop \/ Diagnose)
  BY RunNumbers DEF PushInv, TablesForm, Next
<1>2. n \in Nat \ {0} /\ n <= MaxRuns
  BY <1>1, MaxRunsAssumption
<1>3. \A f \in facts : /\ f.from \in Nat /\ f.from < n
                       /\ f.to # None => f.to \in Nat /\ f.to < n
  BY <1>1 DEF WellFormed, Row
<1>4. WellFormed(facts, n) /\ \A f \in facts : f.from # n
  BY <1>1, <1>2, <1>3 DEF WellFormed
<1>5. \E row \in RunRow : runs' = Append(runs, row)
  <2>1. NoRoster \in [Plugins -> Result]
    BY DEF NoRoster, Result
  <2>2. CASE Evaluate
    BY <2>2 DEF Evaluate, Ended, RunRow
  <2>3. CASE Stop
    BY <2>1, <2>3 DEF Stop, Ended, RunRow
  <2>4. CASE Diagnose
    BY <2>1, <2>4 DEF Diagnose, Ended, RunRow
  <2> QED
    BY <1>1, <2>2, <2>3, <2>4
<1>6. WellFormed(facts', n) /\ WrittenBy(n, facts, facts')
  <2>1. CASE Evaluate \/ Stop
    <3>1. PICK outcome \in [Plugins -> Outcome] : facts' = After(facts, outcome, n)
      BY <2>1 DEF Evaluate, Stop
    <3> HIDE DEF n
    <3> QED
      BY <1>2, <1>4, <3>1, AfterForm
  <2>2. CASE Diagnose
    <3>1. facts' = facts
      BY <2>2 DEF Diagnose
    <3> QED
      BY <1>4, <3>1 DEF WrittenBy
  <2> QED
    BY <1>1, <2>1, <2>2
<1>7. \A s \in 0..Len(runs), k \in Keys : TruthIn(facts', s)[k] = TruthIn(facts, s)[k]
  <2> TAKE s \in 0..Len(runs), k \in Keys
  <2>1. s \in Nat /\ s < n
    BY <1>1
  <2> HIDE DEF n
  <2> QED
    BY <1>2, <1>4, <1>6, <2>1, TruthKept
<1> QED
  BY <1>2, <1>5, <1>6, <1>7

LEMMA RunKeeps == PushInv /\ Run => PushInv'
<1> SUFFICES ASSUME PushInv, Run PROVE PushInv'
  OBVIOUS
<1> DEFINE n == Len(runs) + 1
<1>1. /\ session.phase = "none" /\ session' = session /\ api' = api /\ Next
      /\ collected' = [collected EXCEPT !.of = Append(@, collected.latest)]
  BY DEF Run
<1>2. /\ n \in Nat \ {0} /\ n <= MaxRuns /\ WellFormed(facts', n)
      /\ \A s \in 0..Len(runs), k \in Keys : TruthIn(facts', s)[k] = TruthIn(facts, s)[k]
  BY <1>1, FindingsStep
<1>3. PICK row \in RunRow : runs' = Append(runs, row)
  BY <1>1, FindingsStep
<1>4. /\ runs' \in Seq(RunRow) /\ Len(runs') = n /\ DOMAIN runs' = 1..n
      /\ runs'[n] = row /\ \A r \in 1..Len(runs) : runs'[r] = runs[r]
  BY <1>3, AppendProperties, LenProperties DEF PushInv, TablesForm
<1>5. PICK status \in {"pending", "skipped"} : push' = Append(push, status)
  BY DEF Run
<1>6. /\ push' \in Seq(PushStatus) /\ Len(push') = n
      /\ push'[n] = status /\ \A r \in 1..Len(runs) : push'[r] = push[r]
  BY <1>5, AppendProperties, LenProperties DEF PushInv, TablesForm, PushStatus
<1>7. /\ Len(runs) \in Nat /\ DOMAIN runs = 1..Len(runs)
      /\ \A r \in 1..Len(runs) : collected.of[r] \in Nat /\ collected.of[r] <= collected.latest
      /\ collected.latest \in Nat \ {0}
      /\ api.newest \in 0..Len(runs) /\ api.partial \in 0..Len(runs)
      /\ Offered \subseteq 1..Len(runs) /\ api.done \subseteq 1..Len(runs)
  BY RunNumbers
<1>8. /\ collected.of \in Seq(1..collected.latest) /\ Len(collected.of) = Len(runs)
      /\ collected = [latest |-> collected.latest, of |-> collected.of]
      /\ \A r, s \in DOMAIN runs : r <= s => collected.of[r] <= collected.of[s]
      /\ collected.latest \in Syncs
  BY DEF PushInv, TablesForm
<1>9. collected' = [latest |-> collected.latest, of |-> Append(collected.of, collected.latest)]
  BY <1>1, <1>8
<1>10. /\ collected'.latest = collected.latest
       /\ collected'.of \in Seq(1..collected.latest) /\ Len(collected'.of) = n
       /\ collected'.of[n] = collected.latest
       /\ \A r \in 1..Len(runs) : collected'.of[r] = collected.of[r]
  <2>1. collected.latest \in 1..collected.latest
    BY <1>7
  <2>2. collected'.latest = collected.latest
        /\ collected'.of = Append(collected.of, collected.latest)
    BY <1>9
  <2> QED
    BY <1>8, <2>1, <2>2, AppendProperties, LenProperties
<1>11. \A r \in 1..n : r = n \/ r \in 1..Len(runs)
  BY <1>7
<1>12. TablesForm'
  <2>1. \A r, s \in 1..n : r <= s => collected'.of[r] <= collected'.of[s]
    <3> SUFFICES ASSUME NEW r \in 1..n, NEW s \in 1..n, r <= s
                 PROVE  collected'.of[r] <= collected'.of[s]
      OBVIOUS
    <3>1. CASE s = n
      BY <1>7, <1>10, <1>11, <3>1
    <3>2. CASE s # n
      <4>1. s \in 1..Len(runs) /\ r \in 1..Len(runs)
        BY <1>7, <3>2
      <4> QED
        BY <1>7, <1>8, <1>10, <4>1
    <3> QED
      BY <3>1, <3>2
  <2>2. collected' = [latest |-> collected'.latest, of |-> collected'.of]
    BY <1>9
  <2> QED
    BY <1>2, <1>4, <1>6, <1>8, <1>10, <2>1, <2>2 DEF TablesForm
<1>13. session.queue = {} /\ session.inventory = {} /\ ~session.only
  BY <1>1 DEF PushInv, SessionForm, WorksInOrder
<1>14. SessionForm' /\ WorksInOrder'
  BY <1>1, <1>13 DEF PushInv, SessionForm, WorksInOrder
<1>15. \A r \in 1..Len(runs) : r \in Offered' <=> r \in Offered
  BY <1>4, <1>6, <1>7, <1>11 DEF Offered, Pushable
<1>16. Offered \subseteq Offered' /\ Offered' \subseteq Offered \cup {n}
  <2>1. Offered' \subseteq 1..n
    BY <1>4 DEF Offered
  <2> QED
    BY <1>7, <1>11, <1>15, <2>1
<1>18. InOrder'
  <2>1. Waiting' \subseteq Waiting \cup {n} /\ Waiting \subseteq Waiting'
    BY <1>1, <1>16 DEF Waiting
  <2>2. /\ \A r \in Waiting' : r > api.newest
        /\ \A r \in 1..n : push'[r] = "pushed" => r \in api.done
    BY <1>6, <1>7, <1>11, <2>1 DEF PushInv, InOrder
  <2>3. api.partial # 0 => api.partial \in Waiting' /\ \A r \in Waiting' : api.partial <= r
    <3> SUFFICES ASSUME api.partial # 0
                 PROVE  api.partial \in Waiting' /\ \A r \in Waiting' : api.partial <= r
      OBVIOUS
    <3>1. api.partial \in Waiting /\ \A r \in Waiting : api.partial <= r
      BY DEF PushInv, InOrder
    <3> QED
      BY <1>7, <2>1, <3>1
  <2> QED
    BY <1>1, <1>4, <1>16, <2>2, <2>3 DEF PushInv, InOrder
<1>19. ApiBetweenRuns'
  BY <1>1, <1>2, <1>7 DEF PushInv, ApiBetweenRuns
<1>20. InventoryHeld'
  <2>1. /\ api.newest # 0 => collected'.of[api.newest] = collected.of[api.newest]
        /\ api.partial # 0 => collected'.of[api.partial] = collected.of[api.partial]
    BY <1>7, <1>10
  <2> QED
    BY <1>1, <2>1 DEF PushInv, InventoryHeld
<1> QED
  BY <1>12, <1>14, <1>18, <1>19, <1>20 DEF PushInv

LEMMA CollectKeeps == PushInv /\ Collect => PushInv'
<1> SUFFICES ASSUME PushInv, Collect PROVE PushInv'
  OBVIOUS
<1>1. /\ UNCHANGED <<facts, runs, push, session, api>>
      /\ session.phase = "none" /\ collected.latest < MaxSyncs
      /\ collected' = [collected EXCEPT !.latest = @ + 1]
  BY DEF Collect
<1>2. /\ collected.of \in Seq(1..collected.latest) /\ collected.latest \in Nat \ {0}
      /\ collected = [latest |-> collected.latest, of |-> collected.of]
  BY RunNumbers DEF PushInv, TablesForm
<1>3. collected' = [latest |-> collected.latest + 1, of |-> collected.of]
  BY <1>1, <1>2
<1>4. collected'.latest = collected.latest + 1 /\ collected'.of = collected.of
  BY <1>3
<1>5. collected'.of \in Seq(1..collected'.latest)
  <2>1. \A i \in 1..Len(collected.of) : collected.of[i] \in 1..(collected.latest + 1)
    BY <1>2, ElementOfSeq
  <2> QED
    BY <1>2, <1>4, <2>1, SeqMonotonic
<1>6. TablesForm'
  BY <1>1, <1>2, <1>3, <1>4, <1>5, MaxSyncsAssumption DEF PushInv, TablesForm, Syncs
<1>7. session.inventory = {}
  BY <1>1 DEF PushInv, SessionForm
<1>8. SessionForm'
  BY <1>1, <1>7 DEF PushInv, SessionForm
<1>9. Offered' = Offered /\ Queued' = Queued /\ InOrder' /\ ApiBetweenRuns'
  BY <1>1, Framed
<1>10. WorksInOrder'
  BY <1>1, <1>9 DEF PushInv, WorksInOrder, Current
<1>11. InventoryHeld'
  BY <1>1, <1>4 DEF PushInv, InventoryHeld
<1> QED
  BY <1>6, <1>8, <1>9, <1>10, <1>11 DEF PushInv

-----------------------------------------------------------------------------
(* The theorems.                                                           *)

LEMMA PushStep == PushInv /\ [PushNext]_vars => PushInv'
<1> SUFFICES ASSUME PushInv, [PushNext]_vars PROVE PushInv'
  OBVIOUS
<1>1. CASE Run
  BY <1>1, RunKeeps
<1>2. CASE Collect
  BY <1>2, CollectKeeps
<1>3. CASE StartPush
  BY <1>3, StartPushKeeps
<1>4. CASE AlreadyIngested
  <2>1. /\ UNCHANGED <<facts, runs, collected, api>> /\ session.phase # "none"
        /\ Current \in api.done /\ Done("pushed")
    BY <1>4 DEF AlreadyIngested, Local
  <2> QED
    BY <2>1, DoneKeeps
<1>5. CASE Open
  BY <1>5, OpenKeeps
<1>6. CASE SendBatch
  BY <1>6, SendBatchKeeps
<1>7. CASE SendInventory
  BY <1>7, SendInventoryKeeps
<1>8. CASE Mismatch
  BY <1>8, MismatchKeeps
<1>9. CASE Accept
  BY <1>9, AcceptKeeps
<1>10. CASE Acknowledge
  <2>1. /\ UNCHANGED <<facts, runs, collected, api>> /\ session.phase = "accepted"
        /\ Done("pushed")
    BY <1>10 DEF Acknowledge, Local
  <2>2. Current \in api.done
    BY <2>1 DEF PushInv, WorksInOrder
  <2> QED
    BY <2>1, <2>2, DoneKeeps
<1>11. CASE GiveUp
  BY <1>11, GiveUpKeeps
<1>12. CASE ExpireUntouched
  <2>1. /\ UNCHANGED <<facts, runs, collected, api>> /\ session.phase # "none"
        /\ Untouched(Current) /\ Done("expired")
    BY <1>12 DEF ExpireUntouched, Expire, Local
  <2> QED
    BY <2>1, DoneKeeps
<1>13. CASE \E r \in DOMAIN runs : StartPushRunInOrder(r) \/ SkipUntouched(r)
  BY <1>13, StartPushRunKeeps, SkipKeeps
<1>14. CASE UNCHANGED vars
  <2>1. Offered' = Offered /\ Queued' = Queued /\ UNCHANGED <<session, api, collected>>
    BY <1>14, Framed DEF vars
  <2>2. SessionForm' /\ WorksInOrder'
    BY <2>1 DEF PushInv, SessionForm, WorksInOrder, Current
  <2> QED
    BY <1>14, <2>2, Framed DEF vars, PushInv
<1> QED
  BY <1>1, <1>2, <1>3, <1>4, <1>5, <1>6, <1>7, <1>8, <1>9, <1>10, <1>11, <1>12, <1>13, <1>14
     DEF PushNext, Session

LEMMA PushInvHolds == PushSpec => []PushInv
<1>1. PushInit => PushInv
  BY InitPush
<1>2. PushInv /\ [PushNext]_vars => PushInv'
  BY PushStep
<1> QED
  BY <1>1, <1>2, PTL DEF PushSpec

\* Types, and that only complete, unfiltered runs are ever in a session's
\* hands (push_runs(), push_single_run()).
THEOREM PushTypeCorrect == PushSpec => []TypeOK
<1>1. PushInv => TypeOK
  <2> SUFFICES ASSUME PushInv PROVE TypeOK
    OBVIOUS
  <2>1. \A r \in session.queue : runs[r].status = "complete" /\ ~runs[r].filtered
    BY DEF PushInv, WorksInOrder, Offered, Pushable
  <2> QED
    BY <2>1 DEF PushInv, TablesForm, SessionForm, WellFormed, PushStatus, TypeOK
<1> QED
  BY <1>1, PushInvHolds, PTL

\* Whatever is lost, retried, withheld or sent late: a run marked pushed is
\* held by the API, and the inventory taken last is there of every type.
THEOREM PushedAlwaysHeld == PushSpec => []PushedIsHeld
<1>1. PushInv => PushedIsHeld
  <2> SUFFICES ASSUME PushInv PROVE PushedIsHeld
    OBVIOUS
  <2>1. \A r \in DOMAIN push : push[r] = "pushed" => r \in api.done
    BY RunNumbers DEF PushInv, InOrder
  <2> QED
    BY <2>1 DEF PushInv, InventoryHeld, PushedIsHeld
<1> QED
  BY <1>1, PushInvHolds, PTL

\* Unless a run is half sent, the API shows what the newest run it has taken
\* found, and no inventory collected after it, whatever failed before.
THEOREM ApiAlwaysMirrorsRun == PushSpec => []ApiMirrorsRun
<1>1. PushInv => ApiMirrorsRun
  <2> SUFFICES ASSUME PushInv, api.partial = 0
               PROVE  /\ api.open = Truth(api.newest)
                      /\ \A t \in ObjectTypes : \A s \in api.inventory[t] :
                           api.newest # 0 /\ s <= collected.of[api.newest]
    BY DEF ApiMirrorsRun
  <2>1. \A k \in Keys : api.open[k] = TruthIn(facts, api.newest)[k]
    BY DEF PushInv, ApiBetweenRuns
  <2>2. api.open \in [Keys -> Contents \cup {None}]
    BY ApiFields DEF PushInv, SessionForm
  <2>3. TruthIn(facts, api.newest) \in [Keys -> Contents \cup {None}]
    BY RunNumbers, OpenRow DEF PushInv, TablesForm
  <2>4. api.open = TruthIn(facts, api.newest)
    BY <2>1, <2>2, <2>3
  <2> QED
    BY <2>4, TruthOfFacts DEF PushInv, InventoryHeld
<1> QED
  BY <1>1, PushInvHolds, PTL

\* The labels of build_findings(), worked out from the findings' history and
\* the roster of runs, are those the API would give itself.
THEOREM LabelsAlwaysMatchApi == PushSpec => []LabelsMatchApi
<1>1. PushInv => LabelsMatchApi
  <2> SUFFICES ASSUME PushInv, session.phase = "opened", api.partial = 0
               PROVE  LET items == Payload(Current) IN
                      /\ \A i \in items : i.label = "NEW" <=> api.open[i.key] = None
                      /\ \A i \in items : i.label = "UNCHANGED" => api.open[i.key] = i.content
                      /\ \A k \in Keys : api.open[k] # None => \E i \in items : i.key = k
    BY DEF LabelsMatchApi
  <2>1. /\ Current \in Nat /\ api.newest \in Nat /\ Len(runs) \in Nat
        /\ Previous(Current) = api.newest
    BY OpenedRun, RunNumbers DEF Waiting
  <2>2. WellFormed(facts, Len(runs))
    BY DEF PushInv, TablesForm
  <2>3. \A k \in Keys : api.open[k] = TruthIn(facts, api.newest)[k]
    BY DEF PushInv, ApiBetweenRuns
  <2>4. /\ \A i \in Payload(Current) :
             /\ i.key \in Keys
             /\ i.label = "NEW" <=> TruthIn(facts, api.newest)[i.key] = None
             /\ i.label = "UNCHANGED" => TruthIn(facts, api.newest)[i.key] = i.content
        /\ \A k \in Keys : TruthIn(facts, api.newest)[k] # None =>
             \E i \in Payload(Current) : i.key = k
    BY <2>1, <2>2, PayloadItems
  <2> QED
    BY <2>3, <2>4
<1> QED
  BY <1>1, PushInvHolds, PTL
==============================================================================
