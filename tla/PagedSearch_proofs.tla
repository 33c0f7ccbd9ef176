-------------------------- MODULE PagedSearch_proofs --------------------------
(***************************************************************************)
(* Theorems about one paged search, for any directory, page size, number   *)
(* of attempts and of lost connections.                                    *)
(***************************************************************************)
EXTENDS PagedSearch, FiniteSetTheorems, TLAPS

-----------------------------------------------------------------------------
(* The smallest and the largest of some numbers.                           *)

Before == {ss \in Nat \X Nat : ss[1] < ss[2]}

LEMMA BeforeWellFounded == IsWellFoundedOn(Before, Nat)
<1>1. Before \cap (Nat \X Nat) \subseteq OpToRel(<, Nat)
  BY DEF Before, OpToRel
<1> QED
  BY <1>1, NatLessThanWellFounded, IsWellFoundedOnSubrelation

LEMMA SomeLeast ==
  ASSUME NEW S \in SUBSET Nat, S # {}
  PROVE  \E x \in S : \A y \in S : x <= y
<1>1. PICK x \in S : \A y \in S : <<y, x>> \notin Before
  BY BeforeWellFounded, WFMin
<1>2. \A y \in S : x <= y
  <2> TAKE y \in S
  <2>1. x \in Nat /\ y \in Nat /\ <<y, x>> \in Nat \X Nat
    OBVIOUS
  <2>2. <<y, x>>[1] = y /\ <<y, x>>[2] = x
    OBVIOUS
  <2>3. ~(y < x)
    BY <1>1, <2>1, <2>2, SMT DEF Before
  <2> QED
    BY <2>1, <2>3
<1> QED
  BY <1>2

LEMMA MaxOfObjects ==
  ASSUME NEW S \in SUBSET Objects, S # {}
  PROVE  Max(S) \in S /\ \A x \in S : x <= Max(S)
<1> DEFINE T == {y \in Nat : \E x \in S : y + x = N}
<1>1. S \subseteq Nat /\ \A x \in S : N - x \in T
  <2>1. \A x \in S : x \in Nat /\ N - x \in Nat /\ (N - x) + x = N
    BY SizesAssumption DEF Objects
  <2> QED
    BY <2>1
<1>2. T \in SUBSET Nat /\ T # {}
  BY <1>1
<1>3. \A y \in T : y \in Nat /\ \E x \in S : y + x = N
  OBVIOUS
<1> HIDE DEF T
<1>4. PICK m \in T : \A y \in T : m <= y
  BY <1>2, SomeLeast
<1>5. PICK x \in S : m + x = N
  BY <1>3
<1>6. \A y \in S : x >= y
  BY <1>1, <1>3, <1>4, <1>5, SizesAssumption
<1> QED
  BY <1>6 DEF Max

-----------------------------------------------------------------------------
(* The server's pages.                                                     *)

\* What remains starts with the page: nothing is passed over.
LEMMA PageLeads ==
  ASSUME NEW o \in Remaining, NEW m \in Page, o <= m
  PROVE  o \in Page
<1> DEFINE UpTo(x) == {p \in Remaining : p <= x}
<1>1. Remaining \subseteq 1..N /\ o \in Nat /\ m \in Nat
  BY SizesAssumption DEF Remaining, Page, Objects
<1>2. IsFiniteSet(UpTo(m))
  <2>1. IsFiniteSet(1..N)
    BY SizesAssumption, FS_Interval
  <2>2. UpTo(m) \in SUBSET (1..N)
    BY <1>1
  <2> HIDE DEF UpTo
  <2> QED
    BY <2>1, <2>2, FS_Subset
<1>3. UpTo(o) \in SUBSET UpTo(m)
  <2>1. \A p \in Remaining : p \in Nat
    BY <1>1, SizesAssumption
  <2>2. \A p \in Remaining : p <= o => p <= m
    BY <1>1, <2>1
  <2> QED
    BY <2>2
<1>4. Cardinality(UpTo(m)) <= PageSize
  BY DEF Page
<1> HIDE DEF UpTo
<1>5. /\ Cardinality(UpTo(o)) <= Cardinality(UpTo(m))
      /\ Cardinality(UpTo(o)) \in Nat /\ Cardinality(UpTo(m)) \in Nat
  BY <1>2, <1>3, FS_Subset, FS_CardinalityType
<1>6. Cardinality(UpTo(o)) <= PageSize
  BY <1>4, <1>5, SizesAssumption
<1> QED
  BY <1>6 DEF Page, UpTo

\* No page is empty while something remains.
LEMMA PageNotEmpty == Remaining # {} => Page # {}
<1> SUFFICES ASSUME Remaining # {} PROVE Page # {}
  OBVIOUS
<1>1. Remaining \in SUBSET Nat
  BY SizesAssumption DEF Remaining, Objects
<1>2. PICK o \in Remaining : \A p \in Remaining : o <= p
  BY <1>1, SomeLeast
<1>3. {p \in Remaining : p <= o} = {o}
  <2>1. \A p \in Remaining : p <= o <=> p = o
    BY <1>1, <1>2
  <2> QED
    BY <2>1
<1>4. Cardinality({p \in Remaining : p <= o}) = 1
  BY <1>3, FS_Singleton
<1>5. Cardinality({p \in Remaining : p <= o}) <= PageSize
  BY <1>4, SizesAssumption
<1> QED
  BY <1>5 DEF Page

\* The cookie stands behind everything the page holds, and nothing that
\* remains lies before it outside the page.
LEMMA CookieAfterPage ==
  ASSUME NextCookie # None
  PROVE  /\ NextCookie = [conn |-> conn, after |-> Max(Page)]
         /\ Max(Page) \in Objects
         /\ \A o \in Remaining : o <= Max(Page) => o \in Page
<1>1. Page # Remaining /\ NextCookie = [conn |-> conn, after |-> Max(Page)]
  BY DEF NextCookie
<1>2. Page \in SUBSET Objects /\ Page # {}
  BY <1>1, PageNotEmpty DEF Page, Remaining
<1>3. Max(Page) \in Page
  BY <1>2, MaxOfObjects
<1> QED
  BY <1>1, <1>2, <1>3, PageLeads

-----------------------------------------------------------------------------
(* The inductive invariant.                                                *)

\* The history of names: who has a name owns it, and who was there all the
\* time is there now.
NamesKnown ==
  /\ \A o \in Objects : name[o] # None => o \in owners[name[o]]
  /\ \A o \in since : name[o] # None
  /\ \A o \in Objects : IsFiniteSet(NamesOf(o))

\* Each time an object is yielded, one of its names becomes known.
YieldsNamed == \A o \in Objects : yielded[o] <= Cardinality(seen \cap NamesOf(o))

\* A known name is that of an object that was yielded.
SeenYielded == \A n \in seen : \E o \in owners[n] : yielded[o] >= 1

\* Whatever connection it comes from, a cookie has everything before it
\* that was not disturbed behind it.
BehindCookie ==
  cookie # None => \A o \in Objects : Undisturbed(o) /\ o <= cookie.after => yielded[o] >= 1

\* The cookie of a connection that is up is its own.
CookieHeld == (up => Valid) /\ (pc = "reconnect" => ~up)

SearchInv ==
  TypeOK /\ NamesKnown /\ YieldsNamed /\ SeenYielded /\ BehindCookie /\ CookieHeld /\ NothingMissed

-----------------------------------------------------------------------------
(* Steps of the directory.                                                 *)

LEMMA InitSearch == Init => SearchInv
<1> SUFFICES ASSUME Init PROVE SearchInv
  OBVIOUS
<1>1. TypeOK
  BY SizesAssumption DEF Init, TypeOK
<1>2. NamesKnown
  <2>1. \A o \in Objects : IsFiniteSet(NamesOf(o))
    <3> TAKE o \in Objects
    <3>1. NamesOf(o) \subseteq {name[o]}
      BY DEF NamesOf, Init
    <3>2. IsFiniteSet({name[o]})
      BY FS_Singleton
    <3> QED
      BY <3>1, <3>2, FS_Subset
  <2>2. \A o \in Objects : name[o] # None => o \in owners[name[o]]
    BY DEF Init
  <2>3. \A o \in since : name[o] # None
    BY DEF Init
  <2> QED
    BY <2>1, <2>2, <2>3 DEF NamesKnown
<1>3. YieldsNamed
  <2>1. \A o \in Objects : seen \cap NamesOf(o) = {} /\ yielded[o] = 0
    BY DEF Init
  <2> QED
    BY <2>1, FS_EmptySet DEF YieldsNamed
<1>4. SeenYielded /\ BehindCookie /\ CookieHeld /\ NothingMissed
  BY DEF Init, SeenYielded, BehindCookie, CookieHeld, Valid, NothingMissed
<1> QED
  BY <1>1, <1>2, <1>3, <1>4 DEF SearchInv

\* Histories only grow, and what is undisturbed later was so before.
LEMMA SetNameKeeps ==
  ASSUME SearchInv, NEW o \in Objects, NEW n \in Names \cup {None}, SetName(o, n),
         n \in Free \/ n = None
  PROVE  SearchInv'
<1> USE DEF SearchInv
<1>1. /\ name' = [name EXCEPT ![o] = n]
      /\ owners' = [m \in Names |-> IF m = n THEN owners[m] \cup {o} ELSE owners[m]]
      /\ since' \subseteq since /\ (n = None => o \notin since')
      /\ changes' = changes + 1 /\ changes < MaxChanges
      /\ UNCHANGED <<conn, up, cookie, attempt, seen, yielded, pc>>
  BY DEF SetName
<1>2. /\ name \in [Objects -> Names \cup {None}] /\ owners \in [Names -> SUBSET Objects]
      /\ seen \subseteq Names /\ since \subseteq Objects /\ yielded \in [Objects -> Nat]
      /\ \A p, q \in Objects : name[p] = name[q] => p = q \/ name[p] = None
  BY DEF TypeOK
<1>3. /\ name' \in [Objects -> Names \cup {None}] /\ owners' \in [Names -> SUBSET Objects]
      /\ \A p \in Objects : name'[p] = IF p = o THEN n ELSE name[p]
      /\ \A m \in Names : owners[m] \subseteq owners'[m]
      /\ n \in Names => o \in owners'[n]
  BY <1>1, <1>2
<1>4. \A p, q \in Objects : name'[p] = name'[q] => p = q \/ name'[p] = None
  BY <1>2, <1>3 DEF Free
<1>5. TypeOK'
  BY <1>1, <1>2, <1>3, <1>4, SizesAssumption DEF TypeOK
<1>6. \A p \in Objects : NamesOf(p) \subseteq NamesOf(p)' /\ NamesOf(p)' \subseteq NamesOf(p) \cup {n}
  BY <1>1, <1>2, <1>3 DEF NamesOf
<1>7. \A p \in Objects : IsFiniteSet(NamesOf(p)')
  <2> TAKE p \in Objects
  <2>1. IsFiniteSet(NamesOf(p) \cup {n})
    BY FS_AddElement DEF NamesKnown
  <2> QED
    BY <1>6, <2>1, FS_Subset
<1>8. NamesKnown'
  <2>1. \A p \in Objects : name'[p] # None => p \in owners'[name'[p]]
    <3> SUFFICES ASSUME NEW p \in Objects, name'[p] # None
                 PROVE  p \in owners'[name'[p]]
      OBVIOUS
    <3>1. name'[p] \in Names
      BY <1>3
    <3> QED
      BY <1>3, <3>1 DEF NamesKnown
  <2>2. \A p \in since' : name'[p] # None
    BY <1>1, <1>2, <1>3, NoneAssumption DEF NamesKnown, Free
  <2> QED
    BY <1>7, <2>1, <2>2 DEF NamesKnown
<1>9. YieldsNamed'
  <2> SUFFICES ASSUME NEW p \in Objects
               PROVE  yielded[p] <= Cardinality(seen \cap NamesOf(p)')
    BY <1>1 DEF YieldsNamed
  <2>1. IsFiniteSet(seen \cap NamesOf(p)')
    BY <1>7, FS_Subset
  <2>2. seen \cap NamesOf(p) \in SUBSET (seen \cap NamesOf(p)')
    BY <1>6
  <2>3. /\ Cardinality(seen \cap NamesOf(p)) <= Cardinality(seen \cap NamesOf(p)')
        /\ IsFiniteSet(seen \cap NamesOf(p))
    BY <2>1, <2>2, FS_Subset
  <2>4. Cardinality(seen \cap NamesOf(p)) \in Nat /\ Cardinality(seen \cap NamesOf(p)') \in Nat
    BY <2>1, <2>3, FS_CardinalityType
  <2> QED
    BY <1>2, <2>3, <2>4 DEF YieldsNamed
<1>10. SeenYielded'
  BY <1>1, <1>2, <1>3 DEF SeenYielded
<1>11. \A p \in Objects : Undisturbed(p)' => Undisturbed(p)
  <2> SUFFICES ASSUME NEW p \in Objects, Undisturbed(p)' PROVE Undisturbed(p)
    OBVIOUS
  <2>1. p \in since' /\ \A m \in NamesOf(p)' : owners'[m] = {p}
    BY DEF Undisturbed
  <2>2. \A m \in NamesOf(p) : m \in Names /\ p \in owners[m]
    BY DEF NamesOf
  <2> QED
    BY <1>1, <1>3, <1>6, <2>1, <2>2 DEF Undisturbed
<1>12. BehindCookie'
  BY <1>1, <1>11 DEF BehindCookie
<1>13. CookieHeld'
  BY <1>1 DEF CookieHeld, Valid
<1>14. NothingMissed'
  BY <1>1, <1>11 DEF NothingMissed
<1> QED
  BY <1>5, <1>8, <1>9, <1>10, <1>12, <1>13, <1>14

LEMMA DirectoryKeeps == SearchInv /\ Directory => SearchInv'
<1> SUFFICES ASSUME SearchInv, NEW o \in Objects, Create(o) \/ Rename(o) \/ Delete(o)
             PROVE  SearchInv'
  BY DEF Directory
<1>1. CASE \E n \in Free : SetName(o, n)
  BY <1>1, SetNameKeeps DEF Free
<1>2. CASE SetName(o, None)
  BY <1>2, SetNameKeeps
<1> QED
  BY <1>1, <1>2 DEF Create, Rename, Delete

-----------------------------------------------------------------------------
(* Steps of the client.                                                    *)

\* Nothing is yielded, and no cookie appears.
LEMMA WaitingKeeps ==
  ASSUME SearchInv, UNCHANGED <<dirVars, seen, yielded>>, TypeOK',
         cookie' = cookie \/ cookie' = None,
         CookieHeld',
         pc' = "done" => conn' \notin Holding
  PROVE  SearchInv'
<1>1. UNCHANGED <<name, changes, owners, since, seen, yielded>>
  BY DEF dirVars
<1>2. \A o : NamesOf(o)' = NamesOf(o) /\ (Undisturbed(o)' <=> Undisturbed(o))
  BY <1>1 DEF NamesOf, Undisturbed
<1>3. NamesKnown' /\ YieldsNamed' /\ SeenYielded'
  BY <1>1, <1>2 DEF SearchInv, NamesKnown, YieldsNamed, SeenYielded
<1>4. BehindCookie'
  BY <1>1, <1>2 DEF SearchInv, BehindCookie
<1>5. NothingMissed'
  BY DEF NothingMissed
<1> QED
  BY <1>3, <1>4, <1>5 DEF SearchInv

LEMMA GetPageKeeps == SearchInv /\ GetPage => SearchInv'
<1> SUFFICES ASSUME SearchInv, GetPage PROVE SearchInv'
  OBVIOUS
<1> USE DEF SearchInv
<1>1. /\ pc = "search" /\ up /\ conn \in Holding /\ Valid
      /\ seen' = seen \cup {name[o] : o \in Page}
      /\ yielded' = [o \in Objects |-> IF o \in New THEN yielded[o] + 1 ELSE yielded[o]]
      /\ cookie' = NextCookie
      /\ pc' = IF NextCookie = None THEN "done" ELSE "search"
      /\ attempt' = 1
      /\ UNCHANGED <<name, changes, owners, since, conn, up>>
  BY DEF GetPage, dirVars
<1>2. /\ name \in [Objects -> Names \cup {None}] /\ owners \in [Names -> SUBSET Objects]
      /\ seen \subseteq Names /\ since \subseteq Objects /\ yielded \in [Objects -> Nat]
      /\ conn \in 1..MaxConns
      /\ \A p, q \in Objects : name[p] = name[q] => p = q \/ name[p] = None
  BY DEF TypeOK
<1>3. \A o \in Page : o \in Objects /\ name[o] \in Names /\ o \in Remaining /\ o \in owners[name[o]]
  BY <1>2 DEF Page, Remaining, NamesKnown
<1>4. TypeOK'
  <2>1. yielded' \in [Objects -> Nat]
    BY <1>1, <1>2
  <2>2. seen' \subseteq Names
    BY <1>1, <1>2, <1>3
  <2>3. cookie' \in [conn : 1..MaxConns, after : Objects] \cup {None}
    BY <1>1, <1>2, CookieAfterPage
  <2> QED
    BY <1>1, <2>1, <2>2, <2>3, SizesAssumption DEF TypeOK
<1>5. \A o : NamesOf(o)' = NamesOf(o) /\ (Undisturbed(o)' <=> Undisturbed(o))
  BY <1>1 DEF NamesOf, Undisturbed
<1>6. NamesKnown'
  BY <1>1, <1>5 DEF NamesKnown
<1>7. \A o \in Objects : yielded'[o] >= yielded[o]
  BY <1>1, <1>2
<1>8. YieldsNamed'
  <2> SUFFICES ASSUME NEW o \in Objects
               PROVE  yielded'[o] <= Cardinality(seen' \cap NamesOf(o))
    BY <1>5 DEF YieldsNamed
  <2> DEFINE A == seen \cap NamesOf(o)
             B == seen' \cap NamesOf(o)
  <2>1. IsFiniteSet(A) /\ IsFiniteSet(B)
    BY FS_Subset DEF NamesKnown
  <2>2. A \subseteq B
    BY <1>1
  <2>3. Cardinality(A) \in Nat /\ Cardinality(B) \in Nat /\ Cardinality(A) <= Cardinality(B)
    BY <2>1, <2>2, FS_Subset, FS_CardinalityType
  <2>4. yielded[o] <= Cardinality(A)
    BY DEF YieldsNamed
  <2>5. CASE o \notin New
    BY <1>1, <1>2, <2>3, <2>4, <2>5
  <2>6. CASE o \in New
    <3>1. name[o] \notin A /\ o \in Page
      BY <2>6 DEF New
    <3>2. name[o] \in B
      BY <1>1, <1>3, <3>1 DEF NamesOf
    <3>3. A \cup {name[o]} \subseteq B
      BY <2>2, <3>2
    <3>4. Cardinality(A \cup {name[o]}) = Cardinality(A) + 1
      BY <2>1, <3>1, FS_AddElement
    <3>5. Cardinality(A \cup {name[o]}) <= Cardinality(B)
      BY <2>1, <3>3, FS_Subset
    <3> QED
      BY <1>1, <1>2, <2>3, <2>4, <2>6, <3>4, <3>5
  <2> QED
    BY <2>5, <2>6
<1>9. SeenYielded'
  <2> SUFFICES ASSUME NEW n \in seen'
               PROVE  \E o \in owners[n] : yielded'[o] >= 1
    BY <1>1 DEF SeenYielded
  <2>1. CASE n \in seen
    <3>1. PICK o \in owners[n] : yielded[o] >= 1
      BY <2>1 DEF SeenYielded
    <3>2. o \in Objects
      BY <1>2, <2>1
    <3> QED
      BY <1>1, <1>2, <3>1, <3>2
  <2>2. CASE n \notin seen
    <3>1. PICK o \in Page : n = name[o]
      BY <1>1, <2>2
    <3>2. o \in New /\ o \in Objects /\ o \in owners[n]
      BY <1>3, <2>2, <3>1 DEF New
    <3> QED
      BY <1>1, <1>2, <3>2
  <2> QED
    BY <2>1, <2>2
\* What was not disturbed and lies in the page is yielded now, or was.
<1>10. \A o \in Page : Undisturbed(o) => yielded'[o] >= 1
  <2> SUFFICES ASSUME NEW o \in Page, Undisturbed(o) PROVE yielded'[o] >= 1
    OBVIOUS
  <2>1. CASE o \in New
    BY <1>1, <1>2, <1>3, <2>1
  <2>2. CASE o \notin New
    <3>1. name[o] \in seen /\ name[o] \in NamesOf(o)
      BY <1>3, <2>2 DEF New, NamesOf
    <3>2. owners[name[o]] = {o}
      BY <3>1 DEF Undisturbed
    <3>3. yielded[o] >= 1
      BY <3>1, <3>2 DEF SeenYielded
    <3> QED
      BY <1>1, <1>2, <1>3, <3>3
  <2> QED
    BY <2>1, <2>2
\* Before the page, by the cookie it was asked for with.
<1>11. \A o \in Objects : Undisturbed(o) /\ o \notin Remaining => yielded'[o] >= 1
  <2> SUFFICES ASSUME NEW o \in Objects, Undisturbed(o), o \notin Remaining
               PROVE  yielded'[o] >= 1
    OBVIOUS
  <2>1. name[o] # None
    BY DEF Undisturbed, NamesKnown
  <2>2. cookie # None /\ ~(o > cookie.after)
    BY <2>1 DEF Remaining
  <2>3. cookie.after \in Nat /\ o \in Nat
    BY <2>2, SizesAssumption DEF TypeOK, Objects
  <2>4. yielded[o] >= 1
    BY <2>2, <2>3 DEF BehindCookie
  <2> QED
    BY <1>1, <1>2, <2>4
<1>12. BehindCookie'
  <2> SUFFICES ASSUME NextCookie # None, NEW o \in Objects, Undisturbed(o),
                      o <= NextCookie.after
               PROVE  yielded'[o] >= 1
    BY <1>1, <1>5 DEF BehindCookie
  <2>1. NextCookie.after = Max(Page) /\ (o \in Remaining => o \in Page)
    BY CookieAfterPage
  <2> QED
    BY <1>10, <1>11, <2>1
<1>13. CookieHeld'
  <2>1. NextCookie # None => NextCookie.conn = conn
    BY CookieAfterPage
  <2> QED
    BY <1>1, <2>1 DEF CookieHeld, Valid
<1>14. NothingMissed'
  <2> SUFFICES ASSUME NextCookie = None, NEW o \in Objects, Undisturbed(o)
               PROVE  yielded'[o] >= 1
    BY <1>1, <1>5 DEF NothingMissed
  <2>1. Page = Remaining
    <3>1. Page # Remaining => NextCookie \in [conn : 1..MaxConns, after : Objects]
      <4>1. Page # Remaining => Page # {} /\ Page \in SUBSET Objects
        BY PageNotEmpty DEF Page, Remaining
      <4>2. Page # Remaining => Max(Page) \in Objects
        BY <4>1, MaxOfObjects
      <4> QED
        BY <1>2, <4>2 DEF NextCookie
    <3> QED
      BY <3>1, NoneAssumption
  <2> QED
    BY <1>10, <1>11, <2>1
<1> QED
  BY <1>4, <1>6, <1>8, <1>9, <1>12, <1>13, <1>14

LEMMA RetryTypes ==
  ASSUME TypeOK, NEW next, Retry(next)
  PROVE  attempt' \in 1..MaxAttempts /\ pc' \in {next, "aborted"}
  BY SizesAssumption DEF Retry, TypeOK

LEMMA ClientKeeps == SearchInv /\ Client => SearchInv'
<1> SUFFICES ASSUME SearchInv, Client PROVE SearchInv'
  OBVIOUS
<1> USE DEF SearchInv
<1>1. CASE GetPage
  BY <1>1, GetPageKeeps
<1>2. CASE GetAbsent
  <2>1. /\ UNCHANGED <<dirVars, conn, up, attempt, seen, yielded>>
        /\ conn \notin Holding /\ pc' = "done" /\ cookie' = None
    BY <1>2 DEF GetAbsent
  <2>2. TypeOK' /\ CookieHeld'
    BY <2>1 DEF TypeOK, CookieHeld, Valid, dirVars
  <2> QED
    BY <2>1, <2>2, WaitingKeeps
<1>3. CASE Transient
  <2>1. /\ UNCHANGED <<dirVars, conn, up, cookie, seen, yielded>> /\ Retry("search") /\ up
    BY <1>3 DEF Transient
  <2>2. attempt' \in 1..MaxAttempts /\ pc' \in {"search", "aborted"}
    BY <2>1, RetryTypes
  <2>3. TypeOK' /\ CookieHeld'
    BY <2>1, <2>2 DEF TypeOK, CookieHeld, Valid, dirVars
  <2> QED
    BY <2>1, <2>2, <2>3, WaitingKeeps
<1>4. CASE Broken
  <2>1. UNCHANGED <<dirVars, conn, cookie, seen, yielded>> /\ Retry("reconnect") /\ up' = FALSE
    BY <1>4 DEF Broken
  <2>2. attempt' \in 1..MaxAttempts /\ pc' \in {"reconnect", "aborted"}
    BY <2>1, RetryTypes
  <2>3. TypeOK' /\ CookieHeld'
    BY <2>1, <2>2 DEF TypeOK, CookieHeld, Valid, dirVars
  <2> QED
    BY <2>1, <2>2, <2>3, WaitingKeeps
<1>5. CASE Refused
  <2>1. /\ UNCHANGED <<dirVars, conn, up, cookie, attempt, seen, yielded>> /\ pc' = "aborted"
    BY <1>5 DEF Refused
  <2>2. TypeOK' /\ CookieHeld'
    BY <2>1 DEF TypeOK, CookieHeld, Valid, dirVars
  <2> QED
    BY <2>1, <2>2, WaitingKeeps
<1>6. CASE Reconnect
  <2>1. /\ UNCHANGED <<dirVars, attempt, seen, yielded>> /\ conn < MaxConns /\ conn' = conn + 1
        /\ up' = TRUE /\ cookie' = None /\ pc' = "search"
    BY <1>6 DEF Reconnect, Restarted
  <2>2. TypeOK' /\ CookieHeld'
    BY <2>1, SizesAssumption DEF TypeOK, CookieHeld, Valid, dirVars
  <2> QED
    BY <2>1, <2>2, WaitingKeeps
<1>7. CASE ReconnectFails
  <2>1. /\ UNCHANGED <<dirVars, conn, up, cookie, attempt, seen, yielded>> /\ pc' = "search"
    BY <1>7 DEF ReconnectFails
  <2>2. TypeOK' /\ CookieHeld'
    BY <2>1 DEF TypeOK, CookieHeld, Valid, dirVars
  <2> QED
    BY <2>1, <2>2, WaitingKeeps
<1> QED
  BY <1>1, <1>2, <1>3, <1>4, <1>5, <1>6, <1>7 DEF Client

-----------------------------------------------------------------------------
(* The theorems.                                                           *)

LEMMA SearchStep == SearchInv /\ [Next]_vars => SearchInv'
<1> SUFFICES ASSUME SearchInv, [Next]_vars PROVE SearchInv'
  OBVIOUS
<1>1. CASE UNCHANGED vars
  <2>1. UNCHANGED <<name, changes, owners, since, conn, up, cookie, attempt, seen, yielded, pc>>
    BY <1>1 DEF vars
  <2>2. \A o : NamesOf(o)' = NamesOf(o) /\ (Undisturbed(o)' <=> Undisturbed(o))
    BY <2>1 DEF NamesOf, Undisturbed
  <2>3. TypeOK' /\ NamesKnown' /\ YieldsNamed' /\ SeenYielded'
    BY <2>1, <2>2 DEF SearchInv, TypeOK, NamesKnown, YieldsNamed, SeenYielded
  <2>4. BehindCookie' /\ CookieHeld' /\ NothingMissed'
    BY <2>1, <2>2 DEF SearchInv, BehindCookie, CookieHeld, Valid, NothingMissed
  <2> QED
    BY <2>3, <2>4 DEF SearchInv
<1> QED
  BY <1>1, DirectoryKeeps, ClientKeeps DEF Next

LEMMA SearchInvHolds == Spec => []SearchInv
  BY InitSearch, SearchStep, PTL DEF Spec

\* Types; no two objects have one name.
THEOREM SearchTypeCorrect == Spec => []TypeOK
<1>1. SearchInv => TypeOK
  BY DEF SearchInv
<1> QED
  BY <1>1, SearchInvHolds, PTL

\* on_reconnect(): no cookie survives the connection it came from.
THEOREM CookieAlwaysOwn == Spec => []CookieFromThisConnection
<1>1. SearchInv => CookieFromThisConnection
  BY DEF SearchInv, CookieHeld, CookieFromThisConnection
<1> QED
  BY <1>1, SearchInvHolds, PTL

\* seen_dns: however often ldap_paged_search() starts over, no object is
\* yielded twice under one name.
THEOREM AlwaysOncePerName == Spec => []OncePerName
<1>1. SearchInv => OncePerName
  <2> SUFFICES ASSUME SearchInv, NEW o \in Objects
               PROVE  yielded[o] <= Cardinality(NamesOf(o))
    BY DEF OncePerName
  <2>1. IsFiniteSet(NamesOf(o)) /\ seen \cap NamesOf(o) \in SUBSET NamesOf(o)
    BY DEF SearchInv, NamesKnown
  <2>2. /\ IsFiniteSet(seen \cap NamesOf(o))
        /\ Cardinality(seen \cap NamesOf(o)) <= Cardinality(NamesOf(o))
    BY <2>1, FS_Subset
  <2>3. Cardinality(seen \cap NamesOf(o)) \in Nat /\ Cardinality(NamesOf(o)) \in Nat
    BY <2>1, <2>2, FS_CardinalityType
  <2>4. yielded[o] \in Nat /\ yielded[o] <= Cardinality(seen \cap NamesOf(o))
    BY DEF SearchInv, TypeOK, YieldsNamed
  <2> QED
    BY <2>2, <2>3, <2>4
<1> QED
  BY <1>1, SearchInvHolds, PTL

\* A search that ends as complete has yielded every object that was there
\* throughout: what it lacks may be taken for deleted.
THEOREM NothingEverMissed == Spec => []NothingMissed
<1>1. SearchInv => NothingMissed
  BY DEF SearchInv
<1> QED
  BY <1>1, SearchInvHolds, PTL
===============================================================================
