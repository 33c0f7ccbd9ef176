-------------------------- MODULE FindingRows_proofs --------------------------
(***************************************************************************)
(* Lemmas about the table of findings: what recording, closing and         *)
(* opening rows in a run keeps of its form, and of what earlier runs saw.  *)
(***************************************************************************)
EXTENDS FindingRows, TLAPS

-----------------------------------------------------------------------------
(* What the statements of one run do to the table.                         *)

\* A well-formed table after n runs.
WellFormed(rows, n) ==
  /\ rows \subseteq Row
  /\ \A f \in rows : /\ f.from <= n
                     /\ f.to = None <=> f.change = None
                     /\ f.to # None => f.from < f.to /\ f.to <= n
  /\ OneVersion(rows)

SameVersion(f, g) ==
  f.plugin = g.plugin /\ f.object = g.object /\ f.content = g.content /\ f.from = g.from

\* Run r opened new rows, closed open ones, and left the others alone.
WrittenBy(r, old, new) ==
  /\ \A f \in new : \/ f \in old
                    \/ f.from = r /\ f.to = None
                    \/ f.to = r /\ \E g \in old : g.to = None /\ SameVersion(f, g)
  /\ \A g \in old : \/ g \in new
                    \/ g.to = None /\ \E f \in new : f.to = r /\ SameVersion(f, g)

LEMMA ClosedRow ==
  ASSUME NEW f \in Row, NEW r \in Nat \ {0}, NEW why \in {"changed", "remediated", "retired"}
  PROVE  /\ ClosedAt(f, r, why) \in Row
         /\ ClosedAt(f, r, why).to = r
         /\ ClosedAt(f, r, why).change = why
         /\ SameVersion(ClosedAt(f, r, why), f)
  BY DEF Row, ClosedAt, SameVersion

LEMMA OpenedRow ==
  ASSUME NEW p \in Plugins, NEW o \in Objects, NEW c \in Contents, NEW r \in Nat \ {0}
  PROVE  /\ Opened(p, o, c, r) \in Row
         /\ Opened(p, o, c, r).plugin = p
         /\ Opened(p, o, c, r).object = o
         /\ Opened(p, o, c, r).content = c
         /\ Opened(p, o, c, r).from = r
         /\ Opened(p, o, c, r).to = None
         /\ Opened(p, o, c, r).change = None
  BY DEF Row, Opened

\* Closing some open rows, none of them opened by the same run.
LEMMA ClosingKeepsForm ==
  ASSUME NEW r \in Nat \ {0}, NEW rows, WellFormed(rows, r),
         NEW mine \in SUBSET OpenRows(rows), \A f \in mine : f.from # r,
         NEW why \in [mine -> {"changed", "remediated", "retired"}],
         NEW new, new = (rows \ mine) \cup {ClosedAt(f, r, why[f]) : f \in mine}
  PROVE  WellFormed(new, r) /\ WrittenBy(r, rows, new)
<1> DEFINE C(f) == ClosedAt(f, r, why[f])
<1>1. \A f \in mine : /\ f \in rows /\ f \in Row /\ f.to = None
                      /\ C(f) \in Row
                      /\ C(f).to = r
                      /\ C(f).change # None
                      /\ SameVersion(C(f), f)
  <2> SUFFICES ASSUME NEW f \in mine
               PROVE  /\ f \in rows /\ f \in Row /\ f.to = None
                      /\ C(f) \in Row
                      /\ C(f).to = r
                      /\ C(f).change # None
                      /\ SameVersion(C(f), f)
    OBVIOUS
  <2>1. f \in rows /\ f \in Row /\ f.to = None
    BY DEF WellFormed, OpenRows
  <2>2. why[f] \in {"changed", "remediated", "retired"} /\ why[f] # None
    BY RowValuesAssumption
  <2> QED
    BY <2>1, <2>2, ClosedRow
<1>2. \A f \in rows : /\ f.from \in Nat \ {0} /\ f.from <= r
                      /\ f.to = None <=> f.change = None
                      /\ f.to # None => f.from < f.to /\ f.to <= r /\ f.to \in Nat
  BY DEF WellFormed, Row
<1> HIDE DEF C
<1>3. new = (rows \ mine) \cup {C(f) : f \in mine}
  BY DEF C
<1>4. \A f \in new : /\ f \in Row /\ f.from <= r
                     /\ f.to = None <=> f.change = None
                     /\ f.to # None => f.from < f.to /\ f.to <= r
  BY <1>1, <1>2, <1>3, RowValuesAssumption DEF SameVersion, WellFormed
<1>5. OneVersion(new)
  <2> SUFFICES ASSUME NEW f \in new, NEW g \in new,
                      f.plugin = g.plugin, f.object = g.object, f # g
               PROVE  \/ f.to # None /\ f.to <= g.from
                      \/ g.to # None /\ g.to <= f.from
    BY DEF OneVersion
  <2>1. PICK x \in rows : (x \notin mine /\ f = x) \/ (x \in mine /\ f = C(x))
    BY <1>1, <1>3
  <2>2. PICK y \in rows : (y \notin mine /\ g = y) \/ (y \in mine /\ g = C(y))
    BY <1>1, <1>3
  <2>3. x # y /\ x.plugin = y.plugin /\ x.object = y.object
    BY <1>1, <2>1, <2>2 DEF SameVersion
  <2>4. \/ x.to # None /\ x.to <= y.from
        \/ y.to # None /\ y.to <= x.from
    BY <2>3 DEF WellFormed, OneVersion
  <2>5. (x.to # None => f = x) /\ (y.to # None => g = y) /\ f.from = x.from /\ g.from = y.from
    BY <1>1, <2>1, <2>2 DEF SameVersion
  <2> QED
    BY <2>4, <2>5
<1>6. WrittenBy(r, rows, new)
  BY <1>1, <1>3 DEF WrittenBy
<1> QED
  BY <1>4, <1>5, <1>6 DEF WellFormed

OpenedFor(p, found, fresh, r) == {Opened(p, o, found[o], r) : o \in fresh}

\* Opening rows for objects of a plugin that have none open.
LEMMA OpeningKeepsForm ==
  ASSUME NEW r \in Nat \ {0}, NEW old, NEW rows, WellFormed(rows, r), WrittenBy(r, old, rows),
         NEW p \in Plugins, NEW found \in Found, NEW fresh \in SUBSET Objects,
         \A o \in fresh : found[o] # None,
         \A f \in OpenRows(RowsOf(rows, p)) : f.object \notin fresh,
         NEW new, new = rows \cup OpenedFor(p, found, fresh, r)
  PROVE  WellFormed(new, r) /\ WrittenBy(r, old, new)
<1> DEFINE O(o) == Opened(p, o, found[o], r)
<1>1. \A o \in fresh : /\ O(o) \in Row
                       /\ O(o).plugin = p /\ O(o).object = o
                       /\ O(o).from = r /\ O(o).to = None /\ O(o).change = None
  <2> SUFFICES ASSUME NEW o \in fresh
               PROVE  /\ O(o) \in Row
                      /\ O(o).plugin = p /\ O(o).object = o
                      /\ O(o).from = r /\ O(o).to = None /\ O(o).change = None
    OBVIOUS
  <2>1. found[o] \in Contents
    BY DEF Found
  <2> QED
    BY <2>1, OpenedRow
<1> HIDE DEF O
<1>2. new = rows \cup {O(o) : o \in fresh}
  BY DEF O, OpenedFor
<1>3. \A f \in rows : /\ f \in Row /\ f.from \in Nat
                      /\ f.to # None => f.to <= r
                      /\ f.plugin = p /\ f.to = None => f.object \notin fresh
  BY DEF WellFormed, Row, OpenRows, RowsOf
<1>4. \A f \in new : /\ f \in Row /\ f.from <= r
                     /\ f.to = None <=> f.change = None
                     /\ f.to # None => f.from < f.to /\ f.to <= r
  BY <1>1, <1>2 DEF WellFormed
<1>5. OneVersion(new)
  <2> SUFFICES ASSUME NEW f \in new, NEW g \in new,
                      f.plugin = g.plugin, f.object = g.object, f # g
               PROVE  \/ f.to # None /\ f.to <= g.from
                      \/ g.to # None /\ g.to <= f.from
    BY DEF OneVersion
  <2>1. CASE f \in rows /\ g \in rows
    BY <2>1 DEF WellFormed, OneVersion
  <2>2. CASE f \in rows /\ g \notin rows
    <3>1. PICK o \in fresh : g = O(o)
      BY <1>2, <2>2
    <3> QED
      BY <1>1, <1>3, <2>2, <3>1
  <2>3. CASE f \notin rows /\ g \in rows
    <3>1. PICK o \in fresh : f = O(o)
      BY <1>2, <2>3
    <3> QED
      BY <1>1, <1>3, <2>3, <3>1
  <2>4. CASE f \notin rows /\ g \notin rows
    <3>1. PICK o \in fresh : f = O(o)
      BY <1>2, <2>4
    <3>2. PICK q \in fresh : g = O(q)
      BY <1>2, <2>4
    <3> QED
      BY <1>1, <3>1, <3>2
  <2> QED
    BY <2>1, <2>2, <2>3, <2>4
<1>6. WrittenBy(r, old, new)
  BY <1>1, <1>2 DEF WrittenBy
<1> QED
  BY <1>4, <1>5, <1>6 DEF WellFormed

\* Recording the findings of a plugin the run has recorded nothing of yet.
LEMMA Recording ==
  ASSUME NEW r \in Nat \ {0}, NEW rows, WellFormed(rows, r),
         NEW p \in Plugins, NEW found \in Found, \A f \in RowsOf(rows, p) : f.from # r
  PROVE  /\ WellFormed(Synced(rows, p, found, r), r)
         /\ WrittenBy(r, rows, Synced(rows, p, found, r))
         /\ \A q \in Plugins \ {p} : RowsOf(Synced(rows, p, found, r), q) = RowsOf(rows, q)
         /\ found = Nothing <=> OpenRows(RowsOf(Synced(rows, p, found, r), p)) = {}
<1> DEFINE open == OpenRows(RowsOf(rows, p))
           same == {f \in open : found[f.object] = f.content}
           fresh == {o \in Objects : found[o] # None /\ \A f \in same : f.object # o}
           why == [f \in open \ same |->
                     IF found[f.object] = None THEN "remediated" ELSE "changed"]
           mid == (rows \ (open \ same)) \cup {ClosedAt(f, r, why[f]) : f \in open \ same}
           new == Synced(rows, p, found, r)
<1>1. new = mid \cup {Opened(p, o, found[o], r) : o \in fresh}
  <2>1. {ClosedAt(f, r, IF found[f.object] = None THEN "remediated" ELSE "changed")
            : f \in open \ same}
          = {ClosedAt(f, r, why[f]) : f \in open \ same}
    OBVIOUS
  <2> QED
    BY <2>1 DEF Synced
<1>2. open \ same \in SUBSET OpenRows(rows) /\ \A f \in open \ same : f.from # r
  BY DEF OpenRows, RowsOf
<1>3. why \in [open \ same -> {"changed", "remediated", "retired"}]
  OBVIOUS
<1>4. \A f \in rows : f \in Row
  BY DEF WellFormed
<1>5. \A f \in open \ same : /\ ClosedAt(f, r, why[f]).plugin = p
                             /\ ClosedAt(f, r, why[f]).to = r
  <2> TAKE f \in open \ same
  <2>1. f \in Row /\ f.plugin = p
    BY <1>4 DEF OpenRows, RowsOf
  <2>2. why[f] \in {"changed", "remediated", "retired"}
    BY <1>3
  <2> QED
    BY <2>1, <2>2, ClosedRow DEF SameVersion
<1>6. \A o \in fresh : /\ Opened(p, o, found[o], r).plugin = p
                       /\ Opened(p, o, found[o], r).to = None
  BY DEF Opened
<1>7. r # None
  BY RowValuesAssumption
<1> HIDE DEF why, new
<1>8. WellFormed(mid, r) /\ WrittenBy(r, rows, mid)
  BY <1>2, <1>3, ClosingKeepsForm
<1>9. OpenRows(RowsOf(mid, p)) = same
  BY <1>5, <1>7 DEF OpenRows, RowsOf
<1>10. WellFormed(new, r) /\ WrittenBy(r, rows, new)
  <2>1. \A f \in OpenRows(RowsOf(mid, p)) : f.object \notin fresh
    BY <1>9
  <2>2. fresh \in SUBSET Objects /\ \A o \in fresh : found[o] # None
    OBVIOUS
  <2>3. new = mid \cup OpenedFor(p, found, fresh, r)
    BY <1>1 DEF OpenedFor
  <2> HIDE DEF mid, fresh
  <2> QED
    BY <1>8, <2>1, <2>2, <2>3, OpeningKeepsForm
<1>11. \A q \in Plugins \ {p} : RowsOf(new, q) = RowsOf(rows, q)
  BY <1>1, <1>5, <1>6 DEF RowsOf, OpenRows
<1>12. OpenRows(RowsOf(new, p)) = same \cup {Opened(p, o, found[o], r) : o \in fresh}
  <2> HIDE DEF mid, same, fresh
  <2> QED
    BY <1>1, <1>6, <1>9 DEF OpenRows, RowsOf
<1>13. found = Nothing <=> \A o \in Objects : found[o] = None
  BY DEF Found, Nothing
<1>14. \A f \in same : f.object \in Objects /\ f.content # None
  BY <1>4, RowValuesAssumption DEF Row, OpenRows, RowsOf
<1>15. found = Nothing <=> same = {} /\ fresh = {}
  <2>1. found = Nothing => same = {} /\ fresh = {}
    BY <1>13, <1>14
  <2>2. found # Nothing => same # {} \/ fresh # {}
    BY <1>13
  <2> QED
    BY <2>1, <2>2
<1> QED
  BY <1>10, <1>11, <1>12, <1>15 DEF new

\* Closing the findings of plugins the run has recorded nothing of.
LEMMA Closing ==
  ASSUME NEW r \in Nat \ {0}, NEW rows, WellFormed(rows, r), NEW ps \in SUBSET Plugins,
         \A p \in ps : \A f \in RowsOf(rows, p) : f.from # r,
         NEW w \in {"changed", "remediated", "retired"}
  PROVE  /\ WellFormed(ClosedFor(rows, ps, r, w), r)
         /\ WrittenBy(r, rows, ClosedFor(rows, ps, r, w))
         /\ \A q \in Plugins \ ps : RowsOf(ClosedFor(rows, ps, r, w), q) = RowsOf(rows, q)
         /\ \A f \in ClosedFor(rows, ps, r, w) : \E g \in rows : SameVersion(f, g)
<1> DEFINE mine == {f \in OpenRows(rows) : f.plugin \in ps}
           why == [f \in mine |-> w]
           new == ClosedFor(rows, ps, r, w)
<1>1. new = (rows \ mine) \cup {ClosedAt(f, r, w) : f \in mine}
  BY DEF ClosedFor
<1>2. new = (rows \ mine) \cup {ClosedAt(f, r, why[f]) : f \in mine}
  BY <1>1
<1>3. mine \in SUBSET OpenRows(rows) /\ \A f \in mine : f.from # r
  BY DEF OpenRows, RowsOf
<1>4. why \in [mine -> {"changed", "remediated", "retired"}]
  OBVIOUS
<1>5. \A f \in mine : ClosedAt(f, r, w).plugin \in ps /\ SameVersion(ClosedAt(f, r, w), f)
  BY ClosedRow DEF SameVersion, WellFormed, OpenRows
<1>6. \A q \in Plugins \ ps : RowsOf(new, q) = RowsOf(rows, q)
  BY <1>1, <1>5 DEF RowsOf
<1>7. \A f \in new : \E g \in rows : SameVersion(f, g)
  BY <1>1, <1>5 DEF SameVersion, OpenRows
<1> HIDE DEF new, mine, why
<1> QED
  BY <1>2, <1>3, <1>4, <1>6, <1>7, ClosingKeepsForm DEF new

\* What a run writes leaves no trace in what earlier runs saw.
LEMMA EarlierRunsKept ==
  ASSUME NEW r \in Nat \ {0}, NEW old, NEW new, WellFormed(old, r), WellFormed(new, r),
         WrittenBy(r, old, new), NEW s \in Nat, s < r
  PROVE  /\ {<<f.plugin, f.object, f.content, f.from>> : f \in OpenAt(new, s)} =
              {<<f.plugin, f.object, f.content, f.from>> : f \in OpenAt(old, s)}
         /\ \A p : RowsOf(OpenAt(new, s), p) = {} <=> RowsOf(OpenAt(old, s), p) = {}
         /\ \A p : {f \in RowsOf(old, p) : s \in {f.from, f.to}} = {} =>
                     {f \in RowsOf(new, p) : s \in {f.from, f.to}} = {}
<1>1. None \notin Nat
  BY RowValuesAssumption
<1>2. \A f \in old \cup new : f.from \in Nat
  BY DEF WellFormed, Row
<1>3. \A f \in OpenAt(new, s) : \E g \in OpenAt(old, s) : SameVersion(f, g)
  BY <1>1, <1>2 DEF WrittenBy, OpenAt, SameVersion
<1>4. \A g \in OpenAt(old, s) : \E f \in OpenAt(new, s) : SameVersion(f, g)
  BY <1>1, <1>2 DEF WrittenBy, OpenAt, SameVersion
<1>5. \A p : RowsOf(OpenAt(new, s), p) = {} <=> RowsOf(OpenAt(old, s), p) = {}
  BY <1>3, <1>4 DEF RowsOf, SameVersion
<1>6. \A p : {f \in RowsOf(old, p) : s \in {f.from, f.to}} = {} =>
               {f \in RowsOf(new, p) : s \in {f.from, f.to}} = {}
  BY <1>1, <1>2 DEF WrittenBy, RowsOf, SameVersion
<1>7. {<<f.plugin, f.object, f.content, f.from>> : f \in OpenAt(new, s)} =
        {<<f.plugin, f.object, f.content, f.from>> : f \in OpenAt(old, s)}
  BY <1>3, <1>4 DEF SameVersion
<1> QED
  BY <1>5, <1>6, <1>7

\* Recording the findings of a plugin is a matter of its rows alone.
LEMMA SyncedByPlugin ==
  ASSUME NEW rows \in SUBSET Row, NEW p \in Plugins, NEW found, NEW r \in Nat \ {0}
  PROVE  RowsOf(Synced(rows, p, found, r), p) = Synced(RowsOf(rows, p), p, found, r)
<1> DEFINE open == OpenRows(RowsOf(rows, p))
           same == {f \in open : found[f.object] = f.content}
           fresh == {o \in Objects : found[o] # None /\ \A f \in same : f.object # o}
           closed == {ClosedAt(f, r, IF found[f.object] = None THEN "remediated" ELSE "changed")
                        : f \in open \ same}
           opened == {Opened(p, o, found[o], r) : o \in fresh}
<1>1. Synced(rows, p, found, r) = (rows \ (open \ same)) \cup closed \cup opened
  BY DEF Synced
<1>2. OpenRows(RowsOf(RowsOf(rows, p), p)) = open
  BY DEF OpenRows, RowsOf
<1>3. Synced(RowsOf(rows, p), p, found, r) = (RowsOf(rows, p) \ (open \ same)) \cup closed \cup opened
  BY <1>2 DEF Synced
<1>4. \A f \in closed : f.plugin = p
  <2> SUFFICES ASSUME NEW f \in open \ same, NEW why \in {"changed", "remediated", "retired"}
               PROVE  ClosedAt(f, r, why).plugin = p
    OBVIOUS
  <2>1. f \in Row /\ f.plugin = p
    BY DEF OpenRows, RowsOf
  <2> QED
    BY <2>1, ClosedRow DEF SameVersion
<1>5. \A f \in opened : f.plugin = p
  BY DEF Opened
<1> HIDE DEF open, same, fresh, closed, opened
<1> QED
  BY <1>1, <1>3, <1>4, <1>5 DEF RowsOf

\* Closing the open rows of one plugin.
ClosedOwn(rows, p, r, why) == ClosedFor(rows, {p}, r, why)

\* And so is closing them.
LEMMA ClosedByPlugin ==
  ASSUME NEW rows \in SUBSET Row, NEW p \in Plugins, NEW ps \in SUBSET Plugins,
         NEW r \in Nat \ {0}, NEW why \in {"changed", "remediated", "retired"}
  PROVE  RowsOf(ClosedFor(rows, ps, r, why), p) =
           IF p \in ps THEN ClosedOwn(RowsOf(rows, p), p, r, why) ELSE RowsOf(rows, p)
<1> DEFINE mine == {f \in OpenRows(rows) : f.plugin \in ps}
           own == {f \in OpenRows(RowsOf(rows, p)) : f.plugin \in {p}}
<1>1. \A f \in mine : ClosedAt(f, r, why).plugin = f.plugin
  BY ClosedRow DEF SameVersion, OpenRows
<1>2. own = {f \in OpenRows(rows) : f.plugin = p}
  BY DEF OpenRows, RowsOf
<1>3. ClosedFor(rows, ps, r, why) = (rows \ mine) \cup {ClosedAt(f, r, why) : f \in mine}
  BY DEF ClosedFor
<1>4. ClosedOwn(RowsOf(rows, p), p, r, why) =
        (RowsOf(rows, p) \ own) \cup {ClosedAt(f, r, why) : f \in own}
  BY DEF ClosedFor, ClosedOwn
<1>5. CASE p \in ps
  <2>1. own = {f \in mine : f.plugin = p}
    BY <1>2, <1>5
  <2> HIDE DEF mine, own
  <2> QED
    BY <1>1, <1>3, <1>4, <1>5, <2>1 DEF RowsOf
<1>6. CASE p \notin ps
  <2>1. \A f \in mine : f.plugin # p
    BY <1>6
  <2> HIDE DEF mine
  <2> QED
    BY <1>1, <1>3, <1>6, <2>1 DEF RowsOf
<1> QED
  BY <1>5, <1>6

\* What is closed stays as it is.
LEMMA ClosedTwice ==
  ASSUME NEW rows \in SUBSET Row, NEW p \in Plugins, NEW r \in Nat \ {0},
         NEW w \in {"changed", "remediated", "retired"}, \A f \in rows : f.plugin = p,
         NEW v \in {"changed", "remediated", "retired"}
  PROVE  ClosedOwn(ClosedOwn(rows, p, r, w), p, r, v) = ClosedOwn(rows, p, r, w)
<1> DEFINE new == ClosedOwn(rows, p, r, w)
<1>1. \A f \in OpenRows(rows) : ClosedAt(f, r, w).to # None
  BY ClosedRow, RowValuesAssumption DEF OpenRows
<1>2. OpenRows(new) = {}
  BY <1>1 DEF ClosedOwn, ClosedFor, OpenRows
<1> HIDE DEF new
<1>3. ClosedOwn(new, p, r, v) = new
  BY <1>2 DEF ClosedOwn, ClosedFor
<1> QED
  BY <1>3 DEF new
==============================================================================
