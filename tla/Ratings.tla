------------------------------- MODULE Ratings -------------------------------
(***************************************************************************)
(* What the plugin modules share.  A plugin is one SQL query over the      *)
(* current rows of a client; the modules model it, per object it judges,   *)
(* by the severities of the rows it returns for that object: an operator   *)
(* of a record of the facts it reads, with a set of severities as value,   *)
(* empty when it returns none.  The wording of a row and the rating of     *)
(* other tools it quotes are left out.                                     *)
(*                                                                         *)
(* An age is a number of days before the collection.  An absent column is  *)
(* Null: as in SQL, no comparison with Null holds.                         *)
(***************************************************************************)
EXTENDS Integers, FiniteSets

CONSTANT Null   \* the value of a column without one

Info == 0
Low == 1
Medium == 2
High == 3
Critical == 4
Severities == Info .. Critical

\* A row of severity sev when cond holds.
Row(cond, sev) == IF cond THEN {sev} ELSE {}

\* The rows of plugin id, for an object's list of findings.
Report(id, rows) == {id} \X rows

Above(n, bound) == n # Null /\ n > bound
AtLeast(n, bound) == n # Null /\ n >= bound
Below(n, bound) == n # Null /\ n < bound
Older(age, days) == Above(age, days)
Newer(age, days) == Below(age, days)
Or(x, default) == IF x = Null THEN default ELSE x

\* pwdLastSet and the like hold 1601-01-01 when never set.
Since1601 == 155000
RealAge(age) == age # Null /\ age < Since1601

Higher(a, b) == IF a > b THEN a ELSE b
\* Slip: a discounted score is kept when it is below the lowest severity.
SlipClamped(score) == IF score > Critical THEN Critical ELSE score
Clamped(score) == IF score < Info THEN Info ELSE IF score > Critical THEN Critical ELSE score

\* The worst severity of a set of rows, -1 for none.
Worst(rows) == IF rows = {} THEN -1 ELSE CHOOSE s \in rows : \A t \in rows : t <= s

\* What the access control entries of a trustee on the domain root or
\* AdminSDHolder give it: "changes" and "changesAll" are the two replication
\* rights, "extended" all extended rights, "write" any attribute, "rewrite"
\* the ACL or the owner, "all" full control.
Replicates(rights) == {"extended", "all"} \cap rights # {} \/ {"changes", "changesAll"} \subseteq rights
Rewrites(rights) == {"rewrite", "all"} \cap rights # {}
Controls(rights) == Rewrites(rights) \/ "write" \in rights

\* The rows of plugin id among an object's findings, and its worst one.
Rows(findings, id) == {f[2] : f \in {g \in findings : g[1] = id}}
Rating(findings, id) == Worst(Rows(findings, id))
=============================================================================
