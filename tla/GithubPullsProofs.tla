--------------------------- MODULE GithubPullsProofs ---------------------------
(***************************************************************************)
(* Proofs about GithubPulls, for any branches, paths, contents, seeds and  *)
(* bounds.                                                                 *)
(***************************************************************************)
EXTENDS GithubPulls, FiniteSetTheorems, WellFoundedInduction, TLAPS

(***************************************************************************)
(* A commit is never rewritten and no branch points past the last one, so  *)
(* the tree of a commit is the same for good.  That is what makes a diff   *)
(* of two commits a value that can be compared later: the rows of a pull   *)
(* request are the diff of the commits in its `seen`, whatever moved since.*)
(***************************************************************************)
LineIn(ln, sha) == IF sha \in Shas THEN ln[sha] ELSE {}

Folded(ln, fs, sha) ==
  [p \in Paths |->
     LET writes == {c \in LineIn(ln, sha) : fs[c][p] # KEEP}
     IN  IF writes = {} THEN NONE ELSE fs[Max(writes)][p]]

CommitsInOrder ==
  /\ \A s \in Shas : line[s] \subseteq 1 .. s /\ (s <= made => s \in line[s])
  /\ \A s \in Shas : line[s] \subseteq 1 .. made
  /\ \A r \in Refs : head[r] <= made
  /\ \A r \in copied : head[r] \in Shas

SnapshotsKept == \A r \in copied : tree[r] = Folded(line, files, head[r])

RowsOfSeen ==
  \A n \in Pulls :
    LET pr == pulls[n] IN
    /\ pr.seen.base <= made /\ pr.seen.head <= made
    /\ (pr.state # "absent" /\ pr.seen.base \in Shas /\ pr.seen.head \in Shas) =>
         pr.rows = Diff(Folded(line, files, pr.seen.base), Folded(line, files, pr.seen.head))

IInv == TypeOK /\ CommitsInOrder /\ SnapshotsKept /\ RowsOfSeen /\ MergedIntoMain

-----------------------------------------------------------------------------
(* Commits. *)

LEMMA ShasAreNat == Shas \subseteq Int /\ NoSha \in Int /\ Foreign \in Int
                     /\ NoSha \notin Shas /\ Foreign \notin Shas /\ 1 \in Shas /\ 2 \in Shas
  BY BoundsAssumption DEF Shas, NoSha, Foreign

\* A set of commits has a last one.
LEMMA LastCommit ==
  ASSUME NEW m \in Nat, NEW S, S \subseteq 1 .. m, S # {}
  PROVE  Max(S) \in S /\ \A x \in S : x <= Max(S)
<1> DEFINE Bounds == {k \in 0 .. m : \A x \in S : x <= k}
           T == {1 .. k : k \in Bounds}
<1>1. m \in Bounds OBVIOUS
<1>2. T \subseteq FiniteSubsetsOf(Nat) /\ T # {}
  <2>1. \A k \in 0 .. m : IsFiniteSet(1 .. k) BY FS_Interval
  <2>2. \A k \in 0 .. m : 1 .. k \subseteq Nat OBVIOUS
  <2> QED BY <1>1, <2>1, <2>2 DEF FiniteSubsetsOf
<1>3. PICK X \in T : \A Y \in T : ~(<<Y, X>> \in StrictSubsetOrdering(Nat))
  <2> HIDE DEF T
  <2> QED BY <1>2, FS_StrictSubsetOrderingWellFounded, WFMin
<1>4. PICK k \in Bounds : X = 1 .. k OBVIOUS
<1>5. \A j \in Bounds : ~(j < k)
  <2> SUFFICES ASSUME NEW j \in Bounds, j < k PROVE FALSE OBVIOUS
  <2>1. 1 .. j \in T OBVIOUS
  <2>2. 1 .. j \subseteq 1 .. k /\ k \in 1 .. k /\ k \notin 1 .. j BY <1>4
  <2>3. 1 .. j \subseteq 1 .. k /\ 1 .. j # 1 .. k BY <2>2
  <2>4. 1 .. j \in FiniteSubsetsOf(Nat) /\ 1 .. k \in FiniteSubsetsOf(Nat)
    BY <2>1, <1>2, <1>4
  <2>5. <<1 .. j, 1 .. k>> \in StrictSubsetOrdering(Nat)
    BY <2>3, <2>4 DEF StrictSubsetOrdering, FiniteSubsetsOf
  <2> QED BY <2>1, <2>5, <1>3, <1>4
<1>6. k \in S
  <2> SUFFICES ASSUME k \notin S PROVE FALSE OBVIOUS
  <2>1. k \in 0 .. m /\ \A x \in S : x <= k - 1 /\ x \in 1 .. m BY <1>4
  <2>2. k - 1 \in 0 .. m
    <3>1. PICK x \in S : TRUE OBVIOUS
    <3>2. k \in 0 .. m /\ m \in Nat /\ x \in 1 .. m /\ x <= k - 1 BY <2>1, <3>1
    <3> HIDE DEF Bounds, T
    <3> QED BY <3>2
  <2>3. k - 1 \in Bounds BY <2>1, <2>2
  <2> QED BY <2>1, <2>3, <1>5
<1>7. \A x \in S : k >= x BY <1>4
<1>8. Max(S) \in S /\ \A x \in S : Max(S) >= x
  <2> HIDE DEF Bounds, T
  <2> QED BY <1>6, <1>7, Zenon DEF Max
<1> QED BY <1>8

\* What Snapshot computes, with the tables as parameters.
LEMMA SnapshotIsFolded == ASSUME NEW s PROVE Snapshot(s) = Folded(line, files, s)
  BY DEF Snapshot, Folded, Line, LineIn

LEMMA SnapshotIsFoldedNext ==
  /\ \A r \in Refs : Snapshot(head[r]) = Folded(line, files, head[r])
  /\ \A r \in Refs : (Snapshot(head[r]))' = Folded(line', files', head'[r])
  BY DEF Snapshot, Folded, Line, LineIn

\* The tree of a commit whose ancestry and files stay is the same.
LEMMA FoldedFrame ==
  ASSUME NEW ln, NEW fs, NEW ln2, NEW fs2, NEW s, NEW m \in Nat,
         LineIn(ln2, s) = LineIn(ln, s), LineIn(ln, s) \subseteq 1 .. m,
         \A c \in 1 .. m : fs2[c] = fs[c]
  PROVE  Folded(ln2, fs2, s) = Folded(ln, fs, s)
<1>1. \A c \in LineIn(ln, s) : fs2[c] = fs[c] OBVIOUS
<1> SUFFICES ASSUME NEW p \in Paths PROVE Folded(ln2, fs2, s)[p] = Folded(ln, fs, s)[p]
  BY DEF Folded
<1> DEFINE W == {c \in LineIn(ln, s) : fs[c][p] # KEEP}
           W2 == {c \in LineIn(ln2, s) : fs2[c][p] # KEEP}
<1>2. W2 = W BY <1>1
<1>3. W # {} => Max(W) \in 1 .. m
  BY LastCommit
<1>4. IF W2 = {} THEN TRUE ELSE fs2[Max(W2)][p] = fs[Max(W)][p]
  BY <1>2, <1>3
<1> QED BY <1>2, <1>4 DEF Folded

\* A commit on top of s has the tree of s with its own changes.
LEMMA FoldedOnTop ==
  ASSUME NEW ln, NEW fs, NEW s, NEW t \in Shas,
         ln[t] = LineIn(ln, s) \cup {t}, LineIn(ln, s) \subseteq 1 .. t - 1
  PROVE  Folded(ln, fs, t) = Apply(Folded(ln, fs, s), fs[t])
<1> SUFFICES ASSUME NEW p \in Paths
             PROVE  Folded(ln, fs, t)[p] = IF fs[t][p] = KEEP THEN Folded(ln, fs, s)[p]
                                                              ELSE fs[t][p]
  BY DEF Folded, Apply
<1> DEFINE W == {c \in LineIn(ln, s) : fs[c][p] # KEEP}
           W2 == {c \in LineIn(ln, t) : fs[c][p] # KEEP}
<1>1. LineIn(ln, t) = LineIn(ln, s) \cup {t} BY DEF LineIn
<1>2. CASE fs[t][p] = KEEP
  <2>1. W2 = W BY <1>1, <1>2
  <2> QED BY <2>1, <1>2 DEF Folded
<1>3. CASE fs[t][p] # KEEP
  <2>1. t \in W2 /\ W2 \subseteq 1 .. t /\ t \in Nat BY <1>1, <1>3 DEF Shas
  <2>2. Max(W2) \in W2 /\ \A x \in W2 : x <= Max(W2) BY <2>1, LastCommit
  <2>3. Max(W2) = t
    <3> DEFINE k == Max(W2)
    <3>1. k \in W2 /\ t <= k BY <2>1, <2>2
    <3>2. k \in 1 .. t /\ t \in Nat BY <2>1, <3>1
    <3> HIDE DEF k
    <3>3. k = t BY <3>1, <3>2
    <3> QED BY <3>3 DEF k
  <2> QED BY <2>1, <2>3, <1>3 DEF Folded
<1> QED BY <1>2, <1>3

-----------------------------------------------------------------------------
(* Diffs. *)

LEMMA DiffType == ASSUME NEW base, NEW hd PROVE Diff(base, hd) \subseteq Rows
<1> SUFFICES ASSUME NEW p \in Paths PROVE DiffRow(base, hd, p) \in Rows
  BY DEF Diff
<1> DEFINE from == {q \in Paths : MovedFrom(base, hd, p, q)}
<1>1. (IF from = {} THEN NONE ELSE CHOOSE q \in from : TRUE) \in Paths \cup {NONE}
  <2>1. from # {} => (CHOOSE q \in from : TRUE) \in from OBVIOUS
  <2> QED BY <2>1
<1> HIDE DEF from
<1>2. (IF from # {} THEN "renamed" ELSE IF base[p] = NONE THEN "added"
       ELSE IF hd[p] = NONE THEN "removed" ELSE "modified")
        \in {"added", "modified", "removed", "renamed"}
  OBVIOUS
<1> QED BY <1>1, <1>2 DEF DiffRow, Rows, from

\* Paths that share a content are ranked apart, so a path is moved from one path.
LEMMA RanksApart ==
  ASSUME NEW S, S \subseteq Paths, NEW t, NEW p \in S, NEW q \in S,
         t[p] = t[q], Rank(S, t, p) = Rank(S, t, q)
  PROVE  p = q
<1>1. ASSUME NEW a \in S, NEW b \in S, t[a] = t[b], a < b
      PROVE  Rank(S, t, a) < Rank(S, t, b)
  <2> DEFINE A == {x \in S : t[x] = t[a] /\ x < a}
             B == {x \in S : t[x] = t[b] /\ x < b}
  <2>1. S \subseteq Nat BY NamesAssumption
  <2>2. A \subseteq B /\ a \in B /\ a \notin A
    <3>1. a \in Nat /\ b \in Nat BY <2>1
    <3>2. \A x \in S : x < a => x < b BY <2>1, <3>1, <1>1
    <3>3. ~(a < a) BY <3>1
    <3> QED BY <3>2, <3>3, <1>1, Zenon
  <2>3. IsFiniteSet(B)
    <3>1. B \subseteq Paths OBVIOUS
    <3> HIDE DEF B
    <3> QED BY <3>1, NamesAssumption, FS_Subset
  <2>4. Rank(S, t, a) = Cardinality(A) /\ Rank(S, t, b) = Cardinality(B) BY DEF Rank
  <2> HIDE DEF A, B
  <2>5. /\ IsFiniteSet(A) /\ Cardinality(A) <= Cardinality(B)
        /\ Cardinality(A) # Cardinality(B)
    BY <2>2, <2>3, FS_Subset
  <2>6. Cardinality(A) \in Nat /\ Cardinality(B) \in Nat BY <2>3, <2>5, FS_CardinalityType
  <2> QED BY <2>4, <2>5, <2>6
<1>2. p \in Nat /\ q \in Nat /\ S \subseteq Nat BY NamesAssumption
<1>3. ASSUME NEW a \in S PROVE Rank(S, t, a) \in Nat
  <2> DEFINE A == {x \in S : t[x] = t[a] /\ x < a}
  <2>1. A \subseteq Paths OBVIOUS
  <2>2. Rank(S, t, a) = Cardinality(A) BY DEF Rank
  <2> HIDE DEF A
  <2> QED BY <2>1, <2>2, NamesAssumption, FS_Subset, FS_CardinalityType
<1>4. ~(p < q) BY <1>1, <1>3
<1>5. ~(q < p) BY <1>1, <1>3
<1> QED BY <1>2, <1>4, <1>5

\* Where two trees differ there is a row, unless the path is the old path of a move.
LEMMA DiffCovers ==
  ASSUME NEW base \in Trees, NEW hd \in Trees, NEW p \in Paths, base[p] # hd[p],
         p \notin {row.from : row \in Diff(base, hd)}
  PROVE  DiffRow(base, hd, p) \in Diff(base, hd)
<1>1. p \notin Sources(base, hd)
  <2> SUFFICES ASSUME p \in Sources(base, hd) PROVE FALSE OBVIOUS
  <2>1. PICK x \in Paths : MovedFrom(base, hd, x, p) BY DEF Sources
  <2>2. base[x] # hd[x] /\ x \notin Sources(base, hd)
    BY <2>1 DEF MovedFrom, Sources, Gained, Dropped
  <2>3. DiffRow(base, hd, x) \in Diff(base, hd) BY <2>2 DEF Diff
  <2> DEFINE from == {q \in Paths : MovedFrom(base, hd, x, q)}
  <2>4. \A q \in from : q = p
    <3> SUFFICES ASSUME NEW q \in Paths, MovedFrom(base, hd, x, q) PROVE q = p OBVIOUS
    <3>1. /\ q \in Dropped(base, hd) /\ p \in Dropped(base, hd) /\ base[p] = base[q]
          /\ Rank(Dropped(base, hd), base, p) = Rank(Dropped(base, hd), base, q)
      BY <2>1 DEF MovedFrom
    <3>2. Dropped(base, hd) \subseteq Paths BY DEF Dropped
    <3> QED BY <3>1, <3>2, RanksApart
  <2>5. from = {p} BY <2>1, <2>4
  <2>6. DiffRow(base, hd, x).from = p
    <3>1. DiffRow(base, hd, x).from = IF from = {} THEN NONE ELSE CHOOSE q \in from : TRUE
      BY DEF DiffRow
    <3> HIDE DEF from
    <3>2. (CHOOSE q \in {p} : TRUE) = p OBVIOUS
    <3> QED BY <3>1, <3>2, <2>5
  <2> QED BY <2>3, <2>6
<1> QED BY <1>1 DEF Diff

\* What a merge writes for a path that is not the old path of a move.
LEMMA MergedPath ==
  ASSUME NEW base \in Trees, NEW hd \in Trees, NEW p \in Paths,
         p \notin {row.from : row \in Diff(base, hd)}, NEW ch,
         ch = [x \in Paths |->
                 IF ~\E row \in Diff(base, hd) : row.path = x THEN KEEP
                 ELSE IF \E row \in Diff(base, hd) : row.path = x /\ row.status = "removed"
                      THEN NONE ELSE hd[x]]
  PROVE  Apply(base, ch)[p] = hd[p]
<1>0. /\ Apply(base, ch)[p] = IF ch[p] = KEEP THEN base[p] ELSE ch[p]
      /\ hd[p] # KEEP /\ NONE # KEEP
  BY BlobsAssumption DEF Apply, Trees
<1>1. CASE base[p] = hd[p]
  <2>1. ~\E row \in Diff(base, hd) : row.path = p BY <1>1 DEF Diff, DiffRow
  <2> QED BY <2>1, <1>0, <1>1
<1>2. CASE base[p] # hd[p]
  <2>1. DiffRow(base, hd, p) \in Diff(base, hd) BY <1>2, DiffCovers
  <2>2. DiffRow(base, hd, p).path = p BY DEF DiffRow
  <2>3. \A row \in Diff(base, hd) : row.path = p => row = DiffRow(base, hd, p)
    BY DEF Diff, DiffRow
  <2>4. DiffRow(base, hd, p).status = "removed" <=> hd[p] = NONE
    <3> DEFINE from == {q \in Paths : MovedFrom(base, hd, p, q)}
    <3>1. DiffRow(base, hd, p).status
            = IF from # {} THEN "renamed" ELSE IF base[p] = NONE THEN "added"
              ELSE IF hd[p] = NONE THEN "removed" ELSE "modified"
      BY DEF DiffRow
    <3>2. from # {} => hd[p] # NONE BY DEF MovedFrom, Gained
    <3> HIDE DEF from
    <3> QED BY <3>1, <3>2, <1>2
  <2>5. ch[p] = hd[p] BY <2>1, <2>2, <2>3, <2>4
  <2> QED BY <2>5, <1>0
<1> QED BY <1>1, <1>2

-----------------------------------------------------------------------------
(* Commits and branches keep the invariant. *)

GitType ==
  /\ branches \subseteq Refs /\ copied \subseteq branches /\ Main \in branches
  /\ head \in [Refs -> Shas \cup {NoSha, Foreign}]
  /\ tree \in [Refs -> Trees]
  /\ made \in Shas
  /\ line \in [Shas -> SUBSET Shas]
  /\ files \in [Shas -> Changes]

PullsType ==
  /\ status \in [Shas -> [Contexts -> Reports \cup {"none"}]]
  /\ opened \in 0 .. MaxPulls
  /\ pulls \in [Pulls -> PullRow]

GitInv == GitType /\ CommitsInOrder /\ SnapshotsKept

TreesStay == \A s \in Int : s <= made => Folded(line', files', s) = Folded(line, files, s)

LEMMA ApplyType == ASSUME NEW t \in Trees, NEW ch \in Changes PROVE Apply(t, ch) \in Trees
  BY DEF Apply, Trees, Changes

LEMMA CommitStep ==
  ASSUME GitInv, NEW r \in Refs, NEW ch \in Changes, CommitFiles(r, ch)
  PROVE  /\ GitInv' /\ TreesStay
         /\ made' = made + 1 /\ head'[r] = made' /\ made \in Int
         /\ \A q \in Refs : q # r => head'[q] = head[q]
         /\ LineIn(line', made') = LineIn(line, head[r]) \cup {made'}
<1> USE DEF GitInv
<1>1. /\ made \in Nat /\ made \in 1 .. MaxCommits /\ made + 1 \in Shas
      /\ made + 1 \in 1 .. MaxCommits /\ made' = made + 1
  BY BoundsAssumption DEF CommitFiles, GitType, Shas
<1>2. /\ head' = [head EXCEPT ![r] = made + 1]
      /\ tree' = [tree EXCEPT ![r] = Apply(tree[r], ch)]
      /\ files' = [files EXCEPT ![made + 1] = ch]
      /\ line' = [line EXCEPT ![made + 1] = Line(head[r]) \cup {made + 1}]
      /\ UNCHANGED <<branches, copied>>
  BY DEF CommitFiles
<1>3. Line(head[r]) \subseteq 1 .. made /\ Line(head[r]) = LineIn(line, head[r])
  BY DEF Line, LineIn, CommitsInOrder
<1>4. /\ Line(head[r]) \cup {made + 1} \in SUBSET Shas
      /\ \A c \in 1 .. made : c \in Shas /\ c # made + 1
  <2>1. \A c \in 1 .. made : c \in Shas /\ c # made + 1
    BY <1>1, BoundsAssumption DEF Shas
  <2> QED BY <2>1, <1>1, <1>3
<1>5. GitType'
  <2>1. Apply(tree[r], ch) \in Trees BY ApplyType DEF GitType
  <2> QED BY <1>1, <1>2, <1>4, <2>1 DEF GitType
<1>6. /\ line'[made + 1] = Line(head[r]) \cup {made + 1}
      /\ \A s \in Shas : s # made + 1 => line'[s] = line[s] /\ files'[s] = files[s]
      /\ files'[made + 1] = ch
  BY <1>1, <1>2 DEF GitType
<1>7. \A q \in Refs : head'[q] = IF q = r THEN made + 1 ELSE head[q]
  BY <1>2 DEF GitType
<1>8. ASSUME NEW s \in Int, s <= made
      PROVE  LineIn(line', s) = LineIn(line, s) /\ LineIn(line, s) \subseteq 1 .. made
  BY <1>1, <1>6, <1>8 DEF LineIn, CommitsInOrder
<1>9. \A c \in 1 .. made : files'[c] = files[c]
  BY <1>4, <1>6
<1>10. TreesStay
  BY <1>1, <1>8, <1>9, FoldedFrame DEF TreesStay
<1>11. CommitsInOrder'
  <2>1. \A s \in Shas : line'[s] \subseteq 1 .. s /\ (s <= made + 1 => s \in line'[s])
    <3> SUFFICES ASSUME NEW s \in Shas
                 PROVE  line'[s] \subseteq 1 .. s /\ (s <= made + 1 => s \in line'[s])
      OBVIOUS
    <3>1. CASE s = made + 1 BY <3>1, <1>1, <1>3, <1>6
    <3>2. CASE s # made + 1 BY <3>2, <1>1, <1>6 DEF CommitsInOrder, Shas
    <3> QED BY <3>1, <3>2
  <2>2. \A s \in Shas : line'[s] \subseteq 1 .. made + 1
    <3> SUFFICES ASSUME NEW s \in Shas PROVE line'[s] \subseteq 1 .. made + 1 OBVIOUS
    <3>1. CASE s = made + 1 BY <3>1, <1>1, <1>3, <1>6
    <3>2. CASE s # made + 1 BY <3>2, <1>1, <1>6 DEF CommitsInOrder
    <3> QED BY <3>1, <3>2
  <2>3. \A q \in Refs : head'[q] <= made + 1
    <3> SUFFICES ASSUME NEW q \in Refs PROVE head'[q] <= made + 1 OBVIOUS
    <3>1. head[q] \in Int /\ head[q] <= made
      BY ShasAreNat DEF GitType, CommitsInOrder
    <3> QED BY <3>1, <1>1, <1>7
  <2>4. \A q \in copied : head'[q] \in Shas
    BY <1>1, <1>7 DEF CommitsInOrder, GitType
  <2> QED BY <2>1, <2>2, <2>3, <2>4, <1>1, <1>2 DEF CommitsInOrder
<1>12. SnapshotsKept'
  <2> SUFFICES ASSUME NEW q \in copied
               PROVE  tree'[q] = Folded(line', files', head'[q])
    BY <1>2 DEF SnapshotsKept
  <2>0. q \in Refs /\ tree[q] = Folded(line, files, head[q]) /\ head[q] \in Shas
    BY DEF SnapshotsKept, GitType, CommitsInOrder
  <2>1. head[q] \in Int /\ head[q] <= made
    BY <2>0, ShasAreNat DEF CommitsInOrder
  <2>2. Folded(line', files', head[q]) = Folded(line, files, head[q])
    BY <2>1, <1>10 DEF TreesStay
  <2>3. CASE q # r
    BY <2>3, <2>0, <2>2, <1>2, <1>7 DEF GitType
  <2>4. CASE q = r
    <3>1. LineIn(line', head[r]) = LineIn(line, head[r])
      BY <2>1, <2>4, <1>8
    <3>2. /\ line'[made + 1] = LineIn(line', head[r]) \cup {made + 1}
          /\ LineIn(line', head[r]) \subseteq 1 .. (made + 1) - 1
      BY <3>1, <1>1, <1>3, <1>6
    <3>3. Folded(line', files', made + 1) = Apply(Folded(line', files', head[r]), files'[made + 1])
      BY <3>2, <1>1, FoldedOnTop
    <3>4. Folded(line', files', made + 1) = Apply(tree[r], ch)
      BY <3>3, <2>0, <2>2, <2>4, <1>6
    <3>5. tree'[r] = Apply(tree[r], ch) BY <1>2 DEF GitType
    <3> QED BY <3>4, <3>5, <2>4, <1>7
  <2> QED BY <2>3, <2>4
<1>13. LineIn(line', made + 1) = LineIn(line, head[r]) \cup {made + 1}
  BY <1>1, <1>3, <1>6 DEF LineIn
<1> QED BY <1>1, <1>5, <1>7, <1>10, <1>11, <1>12, <1>13

\* A row computed before a step is still the diff of the commits it saw.
LEMMA RowsStay ==
  ASSUME PullsType, GitType, RowsOfSeen, TreesStay, made' >= made, made' \in Int,
         NEW n \in Pulls, pulls'[n].state # "absent" => pulls[n].state # "absent",
         pulls'[n].seen = pulls[n].seen, pulls'[n].rows = pulls[n].rows
  PROVE  LET pr == pulls'[n] IN
         /\ pr.seen.base <= made' /\ pr.seen.head <= made'
         /\ (pr.state # "absent" /\ pr.seen.base \in Shas /\ pr.seen.head \in Shas) =>
              pr.rows = Diff(Folded(line', files', pr.seen.base),
                             Folded(line', files', pr.seen.head))
<1> DEFINE b == pulls[n].seen.base
           h == pulls[n].seen.head
<1>1. b \in Int /\ h \in Int /\ made \in Int
  BY ShasAreNat DEF PullsType, PullRow, GitType
<1>2. b <= made /\ h <= made
  BY DEF RowsOfSeen
<1>3. /\ Folded(line', files', b) = Folded(line, files, b)
      /\ Folded(line', files', h) = Folded(line, files, h)
  BY <1>1, <1>2 DEF TreesStay
<1>4. b <= made' /\ h <= made' BY <1>1, <1>2
<1>5. (pulls'[n].state # "absent" /\ b \in Shas /\ h \in Shas) => pulls[n].rows = Diff(Folded(line, files, b), Folded(line, files, h))
  BY DEF RowsOfSeen
<1> QED BY <1>3, <1>4, <1>5

-----------------------------------------------------------------------------
(* What a seed leaves. *)

GoodRepo(new) ==
  /\ new.branches \subseteq Refs /\ Main \in new.branches
  /\ new.head \in [Refs -> Shas \cup {NoSha, Foreign}]
  /\ new.tree \in [Refs -> Trees] /\ new.made \in Shas
  /\ new.line \in [Shas -> SUBSET Shas] /\ new.files \in [Shas -> Changes]
  /\ \A s \in Shas : new.line[s] \subseteq 1 .. s /\ (s <= new.made => s \in new.line[s])
  /\ \A s \in Shas : new.line[s] \subseteq 1 .. new.made
  /\ \A r \in Refs : new.head[r] <= new.made
  /\ \A r \in new.branches : new.head[r] \in Shas
  /\ \A r \in new.branches : new.tree[r] = Folded(new.line, new.files, new.head[r])

LEMMA NewRepoGood == ASSUME NEW new \in NewRepos PROVE GoodRepo(new)
<1>1. PICK seed \in Seeds, second \in Refs : new = NewRepo(seed, second)
  BY DEF NewRepos
<1> DEFINE forks == seed.branch # NoChange /\ second # Main
           first == [p \in Paths |-> IF seed.main[p] = NONE THEN KEEP ELSE seed.main[p]]
           names == IF forks THEN {Main, second} ELSE {Main}
           commits == IF forks THEN 2 ELSE 1
<1>2. /\ new.branches = names /\ new.made = commits
      /\ new.head = [r \in Refs |-> IF r = Main THEN 1 ELSE IF r \in names THEN 2 ELSE NoSha]
      /\ new.tree = [r \in Refs |-> IF r = Main THEN seed.main
                                ELSE IF r \in names THEN Apply(seed.main, seed.branch)
                                ELSE EmptyTree]
      /\ new.line = [s \in Shas |-> IF s <= commits THEN 1 .. s ELSE {}]
      /\ new.files = [s \in Shas |-> IF s = 1 THEN first
                                 ELSE IF s = 2 /\ forks THEN seed.branch ELSE NoChange]
  BY <1>1 DEF NewRepo
<1>3. seed.main \in Trees /\ seed.branch \in Changes BY SeedsAssumption
<1>4. first \in Changes BY <1>3, BlobsAssumption DEF Trees, Changes
<1>5. /\ 1 \in Shas /\ 2 \in Shas /\ 1 .. 1 = {1} /\ 1 .. 2 = {1, 2}
      /\ commits \in {1, 2} /\ (second \in names /\ second # Main => forks)
  BY BoundsAssumption DEF Shas
<1>6. /\ Apply(seed.main, seed.branch) \in Trees /\ EmptyTree \in Trees /\ NoChange \in Changes
  BY <1>3, ApplyType DEF EmptyTree, NoChange, Trees, Changes
<1>7. Folded(new.line, new.files, 1) = seed.main
  <2>1. new.line[1] = LineIn(new.line, 0) \cup {1} /\ LineIn(new.line, 0) = {} /\ 1 - 1 = 0
    BY <1>2, <1>5 DEF LineIn, Shas
  <2>2. Folded(new.line, new.files, 1) = Apply(Folded(new.line, new.files, 0), new.files[1])
    BY <2>1, <1>5, FoldedOnTop
  <2>3. Folded(new.line, new.files, 0) = EmptyTree BY <2>1 DEF Folded, EmptyTree
  <2>4. new.files[1] = first BY <1>2, <1>5
  <2>5. seed.main = [p \in Paths |-> seed.main[p]]
        /\ \A p \in Paths : seed.main[p] # KEEP
    BY <1>3, BlobsAssumption DEF Trees
  <2> QED BY <2>2, <2>3, <2>4, <2>5 DEF Apply, EmptyTree
<1>8. ASSUME forks PROVE Folded(new.line, new.files, 2) = Apply(seed.main, seed.branch)
  <2>1. new.line[2] = LineIn(new.line, 1) \cup {2} /\ LineIn(new.line, 1) = {1} /\ 2 - 1 = 1
    BY <1>2, <1>5, <1>8 DEF LineIn
  <2>2. Folded(new.line, new.files, 2) = Apply(Folded(new.line, new.files, 1), new.files[2])
    BY <2>1, <1>5, FoldedOnTop
  <2>3. new.files[2] = seed.branch BY <1>2, <1>5, <1>8
  <2> QED BY <2>2, <2>3, <1>7
<1>9. /\ new.branches \subseteq Refs /\ Main \in new.branches
      /\ new.head \in [Refs -> Shas \cup {NoSha, Foreign}]
      /\ new.tree \in [Refs -> Trees] /\ new.made \in Shas
      /\ new.line \in [Shas -> SUBSET Shas] /\ new.files \in [Shas -> Changes]
  <2>1. new.head \in [Refs -> Shas \cup {NoSha, Foreign}] BY <1>2, <1>5
  <2>2. new.tree \in [Refs -> Trees] BY <1>2, <1>3, <1>6
  <2>3. new.line \in [Shas -> SUBSET Shas]
    <3>1. \A s \in Shas : 1 .. s \subseteq Shas BY BoundsAssumption DEF Shas
    <3> QED BY <3>1, <1>2
  <2>4. new.files \in [Shas -> Changes]
    <3> HIDE DEF first
    <3> QED BY <1>2, <1>3, <1>4, <1>6
  <2>5. names \subseteq Refs /\ Main \in names BY NamesAssumption
  <2> QED BY <2>1, <2>2, <2>3, <2>4, <2>5, <1>2, <1>5
<1>10. /\ \A s \in Shas : new.line[s] \subseteq 1 .. s /\ (s <= new.made => s \in new.line[s])
       /\ \A s \in Shas : new.line[s] \subseteq 1 .. new.made
       /\ \A r \in Refs : new.head[r] <= new.made
       /\ \A r \in new.branches : new.head[r] \in Shas
  <2>1. \A s \in Shas : new.line[s] \subseteq 1 .. s /\ (s <= commits => s \in new.line[s])
    BY <1>2 DEF Shas
  <2>2. \A s \in Shas : new.line[s] \subseteq 1 .. commits
    BY <1>2, <1>5 DEF Shas
  <2>3. \A r \in Refs : new.head[r] <= commits
    BY <1>2, <1>5 DEF NoSha
  <2>4. \A r \in names : new.head[r] \in Shas BY <1>2, <1>5, NamesAssumption
  <2>5. new.made = commits /\ new.branches = names BY <1>2
  <2> HIDE DEF commits, names
  <2> QED BY <2>1, <2>2, <2>3, <2>4, <2>5
<1>11. \A r \in new.branches : new.tree[r] = Folded(new.line, new.files, new.head[r])
  <2>1. Main \in Refs /\ new.tree[Main] = Folded(new.line, new.files, new.head[Main])
    BY <1>2, <1>7, NamesAssumption
  <2>2. ASSUME NEW r \in names, r # Main PROVE new.tree[r] = Folded(new.line, new.files, new.head[r])
    <3>1. forks /\ r = second BY <2>2
    <3>2. r \in Refs /\ new.head[r] = 2 /\ new.tree[r] = Apply(seed.main, seed.branch)
      BY <3>1, <2>2, <1>2
    <3> QED BY <3>1, <3>2, <1>8
  <2> QED BY <2>1, <2>2, <1>2
<1> QED BY <1>9, <1>10, <1>11 DEF GoodRepo

LEMMA NewRepoIsGit ==
  ASSUME NEW new \in NewRepos
  PROVE  /\ (/\ branches = new.branches /\ head = new.head /\ tree = new.tree
             /\ made = new.made /\ line = new.line /\ files = new.files
             /\ copied = new.branches) => GitInv
         /\ (/\ branches' = new.branches /\ head' = new.head /\ tree' = new.tree
             /\ made' = new.made /\ line' = new.line /\ files' = new.files
             /\ copied' = new.branches) => GitInv'
BY NewRepoGood DEF GoodRepo, GitInv, GitType, CommitsInOrder, SnapshotsKept

LEMMA NoPullsGood ==
  ASSUME made \in Shas, status = NoStatus, opened = 0, pulls = NoPulls
  PROVE  PullsType /\ RowsOfSeen /\ MergedIntoMain
<1>1. \A n \in Pulls : pulls[n] = Absent BY DEF NoPulls
<1>2. Absent \in PullRow
  BY NamesAssumption, ShasAreNat DEF Absent, PullRow
<1>3. PullsType
  BY <1>2, BoundsAssumption DEF PullsType, NoPulls, NoStatus
<1>4. MergedIntoMain BY <1>1 DEF MergedIntoMain, Absent
<1>5. RowsOfSeen
  BY <1>1, ShasAreNat, BoundsAssumption DEF RowsOfSeen, Absent, Shas, NoSha
<1> QED BY <1>3, <1>4, <1>5

LEMMA NoPullsGoodNext ==
  ASSUME made' \in Shas, status' = NoStatus, opened' = 0, pulls' = NoPulls
  PROVE  PullsType' /\ RowsOfSeen' /\ MergedIntoMain'
<1>1. \A n \in Pulls : pulls'[n] = Absent BY DEF NoPulls
<1>2. Absent \in PullRow
  BY NamesAssumption, ShasAreNat DEF Absent, PullRow
<1>3. PullsType'
  BY <1>2, BoundsAssumption DEF PullsType, NoPulls, NoStatus
<1>4. MergedIntoMain' BY <1>1 DEF MergedIntoMain, Absent
<1>5. RowsOfSeen'
  BY <1>1, ShasAreNat, BoundsAssumption DEF RowsOfSeen, Absent, Shas, NoSha
<1> QED BY <1>3, <1>4, <1>5

LEMMA TypeParts == (TypeOK <=> GitType /\ PullsType) /\ (TypeOK' <=> GitType' /\ PullsType')
  BY DEF TypeOK, GitType, PullsType

LEMMA InvParts ==
  /\ IInv <=> GitInv /\ PullsType /\ RowsOfSeen /\ MergedIntoMain
  /\ IInv' <=> GitInv' /\ PullsType' /\ RowsOfSeen' /\ MergedIntoMain'
  BY TypeParts DEF IInv, GitInv

LEMMA InitGood == Init => IInv
<1> SUFFICES ASSUME Init PROVE IInv OBVIOUS
<1>1. GitInv BY NewRepoIsGit DEF Init
<1>2. PullsType /\ RowsOfSeen /\ MergedIntoMain
  BY <1>1, NoPullsGood DEF Init, GitInv, GitType
<1> QED BY <1>1, <1>2, InvParts

-----------------------------------------------------------------------------
(* Steps. *)

\* A step that leaves the pull requests alone.
PullsUntouched == UNCHANGED <<opened, pulls>> /\ status' \in [Shas -> [Contexts -> Reports \cup {"none"}]]

LEMMA PullsKept ==
  ASSUME IInv, PullsUntouched, TreesStay, made' >= made, made' \in Int
  PROVE  PullsType' /\ RowsOfSeen'
<1>1. GitType /\ PullsType /\ RowsOfSeen BY InvParts DEF GitInv
<1>2. PullsType' BY <1>1 DEF PullsType, PullsUntouched
<1>3. RowsOfSeen'
  <2> SUFFICES ASSUME NEW n \in Pulls
               PROVE  LET pr == pulls'[n] IN
                 /\ pr.seen.base <= made' /\ pr.seen.head <= made'
                 /\ (pr.state # "absent" /\ pr.seen.base \in Shas /\ pr.seen.head \in Shas) =>
                      pr.rows = Diff(Folded(line', files', pr.seen.base),
                                     Folded(line', files', pr.seen.head))
    BY DEF RowsOfSeen
  <2>1. pulls' = pulls BY DEF PullsUntouched
  <2> QED BY <1>1, <2>1, RowsStay
<1> QED BY <1>2, <1>3

\* Main's history only grows by a commit.
LEMMA MainGrows ==
  ASSUME GitInv, NEW r \in Refs, NEW ch \in Changes, CommitFiles(r, ch)
  PROVE  LineIn(line, head[Main]) \subseteq LineIn(line', head'[Main])
<1>1. /\ made' = made + 1 /\ head'[r] = made' /\ made \in Int
      /\ \A q \in Refs : q # r => head'[q] = head[q]
      /\ LineIn(line', made') = LineIn(line, head[r]) \cup {made'}
  BY CommitStep
<1>2. CASE r = Main BY <1>1, <1>2
<1>3. CASE r # Main
  <2>1. head'[Main] = head[Main] /\ head[Main] <= made /\ head[Main] \in Int
    BY <1>1, <1>3, NamesAssumption, ShasAreNat DEF GitInv, GitType, CommitsInOrder
  <2>2. line' = [line EXCEPT ![made + 1] = Line(head[r]) \cup {made + 1}]
    BY DEF CommitFiles
  <2>3. head[Main] # made + 1 BY <2>1, <1>1
  <2> QED BY <2>1, <2>2, <2>3 DEF LineIn, GitInv, GitType
<1> QED BY <1>2, <1>3

LEMMA CommitCallGood ==
  ASSUME IInv, NEW r \in Refs, NEW ch \in Changes, CommitFiles(r, ch),
         UNCHANGED <<status, opened, pulls>>
  PROVE  IInv'
<1>1. GitInv' /\ TreesStay /\ made' = made + 1 /\ made \in Int BY InvParts, CommitStep
<1>2. PullsUntouched BY InvParts DEF PullsUntouched, PullsType
<1>3. PullsType' /\ RowsOfSeen' BY <1>1, <1>2, PullsKept
<1>4. MergedIntoMain'
  BY InvParts, MainGrows DEF MergedIntoMain, Line, LineIn
<1> QED BY <1>1, <1>3, <1>4, InvParts

\* A step of the branches table: no commit, and Main stays where it is.
LEMMA BranchCallGood ==
  ASSUME IInv, UNCHANGED <<made, line, files, status, opened, pulls>>,
         NEW r \in Refs, r # Main,
         NEW sha \in Shas \cup {NoSha, Foreign}, sha <= made,
         NEW t \in Trees, head' = [head EXCEPT ![r] = sha], tree' = [tree EXCEPT ![r] = t],
         branches' \in SUBSET Refs, Main \in branches', copied' \subseteq branches',
         copied' \ {r} \subseteq copied,
         r \in copied' => sha \in Shas /\ t = Folded(line, files, sha)
  PROVE  IInv'
<1>1. GitInv /\ PullsType /\ RowsOfSeen /\ MergedIntoMain BY InvParts
<1>2. \A q \in Refs : /\ head'[q] = IF q = r THEN sha ELSE head[q]
                      /\ tree'[q] = IF q = r THEN t ELSE tree[q]
  BY <1>1 DEF GitInv, GitType
<1>3. GitType' BY <1>1 DEF GitInv, GitType
<1>4. CommitsInOrder'
  <2>1. \A q \in Refs : head'[q] <= made BY <1>1, <1>2 DEF GitInv, CommitsInOrder
  <2>2. \A q \in copied' : head'[q] \in Shas BY <1>1, <1>2 DEF GitInv, CommitsInOrder
  <2> QED BY <1>1, <2>1, <2>2 DEF GitInv, CommitsInOrder
<1>5. SnapshotsKept'
  <2> SUFFICES ASSUME NEW q \in copied' PROVE tree'[q] = Folded(line, files, head'[q])
    BY DEF SnapshotsKept
  <2>1. CASE q = r BY <2>1, <1>2
  <2>2. CASE q # r BY <2>2, <1>1, <1>2 DEF GitInv, GitType, SnapshotsKept
  <2> QED BY <2>1, <2>2
<1>6. PullsType' /\ RowsOfSeen'
  BY <1>1 DEF PullsType, RowsOfSeen
<1>7. MergedIntoMain'
  <2>1. head'[Main] = head[Main] BY <1>2, NamesAssumption
  <2> QED BY <2>1, <1>1 DEF MergedIntoMain, Line
<1> QED BY <1>3, <1>4, <1>5, <1>6, <1>7, InvParts DEF GitInv

LEMMA EmptyTreeType == EmptyTree \in Trees /\ NoChange \in Changes
  BY DEF EmptyTree, Trees, NoChange, Changes

LEMMA CreateBranchGood ==
  ASSUME IInv, NEW r \in Refs, NEW from \in Refs, CreateBranch(r, from) PROVE IInv'
<1>1. GitInv BY InvParts
<1>2. /\ r # Main /\ head[from] \in Shas \cup {NoSha, Foreign} /\ head[from] <= made
      /\ tree[from] \in Trees
  BY <1>1 DEF CreateBranch, NewName, GitInv, GitType, CommitsInOrder
<1>3. /\ copied' \ {r} \subseteq copied /\ copied' \subseteq branches'
      /\ branches' \in SUBSET Refs /\ Main \in branches'
  BY <1>1 DEF CreateBranch, GitInv, GitType
<1>4. r \in copied' => head[from] \in Shas /\ tree[from] = Folded(line, files, head[from])
  BY <1>1 DEF CreateBranch, NewName, GitInv, GitType, CommitsInOrder, SnapshotsKept
<1>5. /\ UNCHANGED <<made, line, files, status, opened, pulls>>
      /\ head' = [head EXCEPT ![r] = head[from]] /\ tree' = [tree EXCEPT ![r] = tree[from]]
  BY DEF CreateBranch
<1> DEFINE sha == head[from]
           t == tree[from]
<1>6. /\ sha \in Shas \cup {NoSha, Foreign} /\ sha <= made /\ t \in Trees
      /\ head' = [head EXCEPT ![r] = sha] /\ tree' = [tree EXCEPT ![r] = t]
      /\ r \in copied' => sha \in Shas /\ t = Folded(line, files, sha)
  BY <1>2, <1>4, <1>5
<1> HIDE DEF sha, t
<1> QED BY <1>2, <1>3, <1>5, <1>6, BranchCallGood

LEMMA CreateBranchAtGood ==
  ASSUME IInv, NEW r \in Refs, NEW sha \in Given, CreateBranchAt(r, sha) PROVE IInv'
<1>1. GitInv BY InvParts
<1>2. r # Main /\ sha \in Shas \cup {NoSha, Foreign} /\ sha <= made
  BY <1>1, GivenAssumption DEF CreateBranchAt, NewName, GitInv, GitType
<1>3. /\ copied' = copied /\ r \notin copied' /\ copied' \subseteq branches'
      /\ branches' \in SUBSET Refs /\ Main \in branches'
  BY <1>1 DEF CreateBranchAt, NewName, GitInv, GitType
<1> QED BY <1>2, <1>3, EmptyTreeType, BranchCallGood DEF CreateBranchAt

LEMMA DeleteBranchGood ==
  ASSUME IInv, NEW r \in Refs, DeleteBranch(r) PROVE IInv'
<1>1. GitInv BY InvParts
<1>2. r # Main /\ NoSha <= made
  BY <1>1, ShasAreNat, BoundsAssumption DEF DeleteBranch, Deletable, GitInv, GitType, NoSha, Shas
<1>3. /\ r \notin copied' /\ copied' \subseteq copied /\ copied' \subseteq branches'
      /\ branches' \in SUBSET Refs /\ Main \in branches'
  BY <1>1, <1>2 DEF DeleteBranch, GitInv, GitType
<1> QED BY <1>2, <1>3, EmptyTreeType, BranchCallGood DEF DeleteBranch

LEMMA ResetGood == ASSUME Reset PROVE IInv'
<1>1. GitInv' BY NewRepoIsGit DEF Reset
<1>2. PullsType' /\ RowsOfSeen' /\ MergedIntoMain'
  BY <1>1, NoPullsGoodNext DEF Reset, GitInv, GitType
<1> QED BY <1>1, <1>2, InvParts

LEMMA OnlyType == ASSUME NEW p \in Paths, NEW b \in Blobs \cup {NONE} PROVE Only(p, b) \in Changes
  BY DEF Only, Changes

LEMMA StatusGood ==
  ASSUME IInv, NEW sha \in Shas, NEW c \in Contexts, NEW report \in Reports,
         CreateCommitStatus(sha, c, report)
  PROVE  IInv'
<1>1. GitInv /\ PullsType /\ RowsOfSeen /\ MergedIntoMain BY InvParts
<1>2. UNCHANGED <<branches, head, tree, made, line, files, copied, opened, pulls>>
  BY DEF CreateCommitStatus
<1>3. status' \in [Shas -> [Contexts -> Reports \cup {"none"}]]
  BY <1>1 DEF CreateCommitStatus, PullsType
<1>4. GitInv' BY <1>1, <1>2 DEF GitInv, GitType, CommitsInOrder, SnapshotsKept
<1>5. PullsType' BY <1>1, <1>2, <1>3 DEF PullsType
<1>6. RowsOfSeen' BY <1>1, <1>2 DEF RowsOfSeen
<1>7. MergedIntoMain' BY <1>1, <1>2 DEF MergedIntoMain, Line
<1> QED BY <1>4, <1>5, <1>6, <1>7, InvParts

-----------------------------------------------------------------------------
(* Steps of pull requests. *)

RowsOf(pr, ln, fs, last) ==
  /\ pr.seen.base <= last /\ pr.seen.head <= last
  /\ (pr.state # "absent" /\ pr.seen.base \in Shas /\ pr.seen.head \in Shas) =>
       pr.rows = Diff(Folded(ln, fs, pr.seen.base), Folded(ln, fs, pr.seen.head))

\* Rows computed now are the diff of what they saw.
LEMMA RowsNow ==
  ASSUME GitInv, NEW base \in Refs, NEW hd \in Refs, NEW pr,
         pr.rows = PullFiles(base, hd), pr.seen = SeenNow(base, hd)
  PROVE  RowsOf(pr, line, files, made) /\ pr.seen \in [base : Int, head : Int]
         /\ pr.rows \in SUBSET Rows
<1>0. pr.rows \in SUBSET Rows BY DiffType DEF PullFiles
<1>1. made \in Nat /\ made \in Shas BY BoundsAssumption DEF GitInv, GitType, Shas
<1>2. CASE {base, hd} \subseteq copied
  <2>1. pr.seen = [base |-> head[base], head |-> head[hd]] BY <1>2 DEF SeenNow
  <2>2. /\ tree[base] = Folded(line, files, head[base]) /\ tree[hd] = Folded(line, files, head[hd])
        /\ head[base] <= made /\ head[hd] <= made
        /\ head[base] \in Shas /\ head[hd] \in Shas
    BY <1>2 DEF GitInv, SnapshotsKept, CommitsInOrder
  <2>3. pr.rows = Diff(tree[base], tree[hd]) BY DEF PullFiles
  <2>4. head[base] \in Int /\ head[hd] \in Int BY <2>2, ShasAreNat
  <2> QED BY <1>0, <2>1, <2>2, <2>3, <2>4 DEF RowsOf
<1>3. CASE ~({base, hd} \subseteq copied)
  <2>1. pr.seen = [base |-> Foreign, head |-> Foreign] BY <1>3 DEF SeenNow
  <2>2. Foreign \notin Shas /\ Foreign <= made /\ Foreign \in Int
    BY <1>1, ShasAreNat DEF Foreign
  <2> QED BY <1>0, <2>1, <2>2 DEF RowsOf
<1> QED BY <1>2, <1>3

\* A pull request's call that commits nothing.
LEMMA PullCallGood ==
  ASSUME IInv, UNCHANGED <<git, status>>, opened' \in 0 .. MaxPulls,
         NEW n \in Pulls, NEW pr \in PullRow, pulls' = [pulls EXCEPT ![n] = pr],
         RowsOf(pr, line, files, made),
         pr.merged => pulls[n].merged /\ pr.baseRef = pulls[n].baseRef
                                      /\ pr.commit = pulls[n].commit
  PROVE  IInv'
<1>1. GitInv /\ PullsType /\ RowsOfSeen /\ MergedIntoMain BY InvParts
<1>2. GitInv' BY <1>1 DEF git, GitInv, GitType, CommitsInOrder, SnapshotsKept
<1>3. PullsType' BY <1>1 DEF PullsType
<1>4. \A m \in Pulls : pulls'[m] = IF m = n THEN pr ELSE pulls[m] BY <1>1 DEF PullsType
<1>5. RowsOfSeen'
  <2>1. \A m \in Pulls : RowsOf(pulls'[m], line, files, made)
    BY <1>1, <1>4 DEF RowsOfSeen, RowsOf
  <2> QED BY <2>1 DEF RowsOfSeen, RowsOf, git
<1>6. MergedIntoMain'
  <2>1. line' = line /\ head' = head BY DEF git
  <2> QED BY <1>1, <1>4, <2>1 DEF MergedIntoMain, Line
<1> QED BY <1>2, <1>3, <1>5, <1>6, InvParts

LEMMA CreatePullGood ==
  ASSUME IInv, NEW hd \in Refs, NEW base \in Refs, CreatePullRequest(hd, base) PROVE IInv'
<1> DEFINE pr == [state |-> "open", merged |-> FALSE, headRef |-> hd, baseRef |-> base,
                  commit |-> NoSha, rows |-> PullFiles(base, hd), seen |-> SeenNow(base, hd)]
           n == opened + 1
<1>1. GitInv /\ PullsType BY InvParts
<1>2. n \in Pulls /\ opened' \in 0 .. MaxPulls
  BY <1>1, BoundsAssumption DEF CreatePullRequest, PullsType, Pulls
<1>3. pr.rows = PullFiles(base, hd) /\ pr.seen = SeenNow(base, hd) OBVIOUS
<1>4. RowsOf(pr, line, files, made) /\ pr.seen \in [base : Int, head : Int] /\ pr.rows \in SUBSET Rows
  <2> HIDE DEF pr
  <2> QED BY <1>1, <1>3, RowsNow
<1>5. pr \in PullRow
  BY <1>4 DEF PullRow
<1>6. pulls' = [pulls EXCEPT ![n] = pr] /\ UNCHANGED <<git, status>> BY DEF CreatePullRequest
<1>7. ~pr.merged OBVIOUS
<1> HIDE DEF pr, n
<1> QED BY <1>2, <1>4, <1>5, <1>6, <1>7, PullCallGood

LEMMA UpdatePullGood ==
  ASSUME IInv, NEW n \in Pulls, NEW state \in {"open", "closed"}, NEW base \in Refs,
         UpdatePullRequest(n, state, base)
  PROVE  IInv'
<1> DEFINE old == pulls[n]
           new == Rebased(old, base)
           pr == [new EXCEPT !.state = state]
<1>1. GitInv /\ PullsType /\ RowsOfSeen BY InvParts
<1>2. old \in PullRow /\ old.state # "absent" BY <1>1 DEF PullsType, UpdatePullRequest
<1>3. old.merged => base = old.baseRef
  BY DEF UpdatePullRequest
<1>4. /\ pulls' = [pulls EXCEPT ![n] = pr] /\ UNCHANGED <<git, status>>
      /\ opened' \in 0 .. MaxPulls
  BY <1>1 DEF UpdatePullRequest, PullsType
<1>5. pr \in PullRow /\ RowsOf(pr, line, files, made)
      /\ (pr.merged => old.merged /\ pr.baseRef = old.baseRef /\ pr.commit = old.commit)
  <2>1. CASE base = old.baseRef
    <3>1. pr = [old EXCEPT !.state = state] BY <2>1 DEF Rebased
    <3>2. pr \in PullRow BY <3>1, <1>2 DEF PullRow
    <3>3. pr.seen = old.seen /\ pr.rows = old.rows /\ pr.merged = old.merged
          /\ pr.baseRef = old.baseRef /\ pr.commit = old.commit
      BY <3>1, <1>2 DEF PullRow
    <3>4. RowsOf(old, line, files, made) BY <1>1 DEF RowsOfSeen, RowsOf
    <3> HIDE DEF pr, old
    <3> QED BY <3>2, <3>3, <3>4, <1>2 DEF RowsOf
  <2>2. CASE base # old.baseRef
    <3>1. pr = [old EXCEPT !.baseRef = base, !.rows = PullFiles(base, old.headRef),
                           !.seen = SeenNow(base, old.headRef), !.state = state]
      BY <2>2 DEF Rebased
    <3>2. /\ pr.rows = PullFiles(base, old.headRef) /\ pr.seen = SeenNow(base, old.headRef)
          /\ pr.merged = old.merged
      BY <3>1, <1>2 DEF PullRow
    <3>3. old.headRef \in Refs BY <1>2 DEF PullRow
    <3>4. RowsOf(pr, line, files, made) /\ pr.seen \in [base : Int, head : Int]
          /\ pr.rows \in SUBSET Rows
      <4> HIDE DEF pr, old
      <4> QED BY <1>1, <3>2, <3>3, RowsNow
    <3>5. pr \in PullRow
      <4>1. /\ PullFiles(base, old.headRef) \in SUBSET Rows
            /\ SeenNow(base, old.headRef) \in [base : Int, head : Int]
        BY <3>2, <3>4
      <4> HIDE DEF pr, old
      <4> QED BY <3>1, <4>1, <1>2 DEF PullRow
    <3> QED BY <3>2, <3>4, <3>5, <1>3, <2>2
  <2> QED BY <2>1, <2>2
<1> HIDE DEF pr, new
<1> QED BY <1>4, <1>5, PullCallGood

\* A pull request's call that commits: a merge, or base merged into the head.
LEMMA PullCommitGood ==
  ASSUME IInv, NEW r \in Refs, NEW ch \in Changes, CommitFiles(r, ch),
         UNCHANGED <<status, opened>>, NEW n \in Pulls, NEW pr \in PullRow,
         pulls' = [pulls EXCEPT ![n] = pr], RowsOf(pr, line', files', made'),
         \/ pr.merged = pulls[n].merged /\ pr.baseRef = pulls[n].baseRef
                                        /\ pr.commit = pulls[n].commit
         \/ r = pr.baseRef /\ pr.commit = made'
  PROVE  IInv'
<1>1. GitInv /\ PullsType /\ RowsOfSeen /\ MergedIntoMain /\ GitType BY InvParts DEF GitInv
<1>2. /\ GitInv' /\ TreesStay /\ made' = made + 1 /\ made \in Int /\ head'[r] = made'
      /\ \A q \in Refs : q # r => head'[q] = head[q]
      /\ LineIn(line', made') = LineIn(line, head[r]) \cup {made'}
  BY <1>1, CommitStep
<1>3. \A m \in Pulls : pulls'[m] = IF m = n THEN pr ELSE pulls[m] BY <1>1 DEF PullsType
<1>4. PullsType' BY <1>1 DEF PullsType
<1>5. RowsOfSeen'
  <2> SUFFICES ASSUME NEW m \in Pulls PROVE RowsOf(pulls'[m], line', files', made')
    BY DEF RowsOfSeen, RowsOf
  <2>1. CASE m = n BY <2>1, <1>3
  <2>2. CASE m # n
    <3>1. pulls'[m] = pulls[m] BY <2>2, <1>3
    <3> QED BY <3>1, <1>1, <1>2, RowsStay DEF RowsOf
  <2> QED BY <2>1, <2>2
<1>7. LineIn(line, head[Main]) \subseteq LineIn(line', head'[Main])
  BY <1>1, MainGrows
<1>8. MergedIntoMain'
  <2> SUFFICES ASSUME NEW m \in Pulls, pulls'[m].merged, pulls'[m].baseRef = Main
               PROVE  pulls'[m].commit \in LineIn(line', head'[Main])
    BY DEF MergedIntoMain, Line, LineIn
  <2>1. CASE pulls'[m].merged = pulls[m].merged /\ pulls'[m].baseRef = pulls[m].baseRef
             /\ pulls'[m].commit = pulls[m].commit
    BY <2>1, <1>1, <1>7 DEF MergedIntoMain, Line, LineIn
  <2>2. CASE m = n /\ r = pr.baseRef /\ pr.commit = made'
    BY <2>2, <1>2, <1>3
  <2> QED BY <2>1, <2>2, <1>3
<1> QED BY <1>2, <1>4, <1>5, <1>8, InvParts

LEMMA MergeGood == ASSUME IInv, NEW n \in Pulls, MergePullRequest(n) PROVE IInv'
<1> DEFINE old == pulls[n]
           pr == [old EXCEPT !.state = "closed", !.merged = TRUE, !.commit = made + 1]
           ch == MergeChanges(old)
<1>1. GitInv /\ PullsType /\ RowsOfSeen /\ GitType BY InvParts DEF GitInv
<1>2. old \in PullRow /\ old.headRef \in Refs /\ old.baseRef \in Refs /\ old.state # "absent"
  BY <1>1 DEF PullsType, PullRow, MergePullRequest
<1>3. ch \in Changes BY <1>1, <1>2 DEF MergeChanges, Changes, GitType, Trees
<1>4. CommitFiles(old.baseRef, ch) /\ UNCHANGED <<status, opened>> BY DEF MergePullRequest
<1>5. GitInv' /\ TreesStay /\ made' = made + 1 /\ made \in Int /\ made' \in Shas
  BY <1>1, <1>2, <1>3, <1>4, CommitStep DEF GitInv, GitType
<1>6. pulls' = [pulls EXCEPT ![n] = pr] BY DEF MergePullRequest
<1>7. /\ pr.rows = old.rows /\ pr.seen = old.seen /\ pr.baseRef = old.baseRef
      /\ pr.commit = made'
  BY <1>2, <1>5 DEF PullRow
<1>8. pr \in PullRow BY <1>2, <1>5 DEF PullRow
<1>9. RowsOf(pr, line', files', made')
  <2>1. pulls'[n] = pr BY <1>1, <1>6 DEF PullsType
  <2>2. pulls'[n].seen = pulls[n].seen /\ pulls'[n].rows = pulls[n].rows BY <2>1, <1>7
  <2>3. made' >= made /\ made' \in Int BY <1>5
  <2> HIDE DEF pr, old
  <2> QED BY <2>1, <2>2, <2>3, <1>1, <1>2, <1>5, RowsStay DEF RowsOf, old
<1> HIDE DEF pr, ch
<1> QED BY <1>2, <1>3, <1>4, <1>6, <1>7, <1>8, <1>9, PullCommitGood

LEMMA UpdateBranchGood ==
  ASSUME IInv, NEW n \in Pulls, NEW expected, UpdatePullRequestBranch(n, expected)
  PROVE  IInv'
<1> DEFINE old == pulls[n]
           base == old.baseRef
           hd == old.headRef
           ch == BaseChanges(old)
           seen == IF {hd, base} \subseteq copied
                   THEN [base |-> head'[base], head |-> head'[hd]]
                   ELSE [base |-> Foreign, head |-> Foreign]
           pr == [old EXCEPT !.rows = Diff(tree'[base], tree'[hd]), !.seen = seen]
<1>1. GitInv /\ PullsType /\ GitType BY InvParts DEF GitInv
<1>2. old \in PullRow /\ hd \in Refs /\ base \in Refs BY <1>1 DEF PullsType, PullRow
<1>3. ch \in Changes
  BY <1>1, <1>2 DEF BaseChanges, ChangesFromBase, Changes, GitType, Trees
<1>4. CommitFiles(hd, ch) /\ UNCHANGED <<status, opened>> BY DEF UpdatePullRequestBranch
<1>5. GitInv' /\ copied' = copied
  BY <1>1, <1>2, <1>3, <1>4, CommitStep DEF CommitFiles
<1>6. pulls' = [pulls EXCEPT ![n] = pr] BY DEF UpdatePullRequestBranch
<1>7. /\ pr.rows = Diff(tree'[base], tree'[hd]) /\ pr.seen = seen
      /\ pr.merged = old.merged /\ pr.baseRef = old.baseRef /\ pr.commit = old.commit
  BY <1>2 DEF PullRow
<1>8. made' \in Shas /\ made' \in Nat BY <1>5, BoundsAssumption DEF GitInv, GitType, Shas
<1>9. RowsOf(pr, line', files', made') /\ seen \in [base : Int, head : Int]
  <2>1. CASE {hd, base} \subseteq copied
    <3>1. /\ tree'[base] = Folded(line', files', head'[base])
          /\ tree'[hd] = Folded(line', files', head'[hd])
          /\ head'[base] <= made' /\ head'[hd] <= made'
          /\ head'[base] \in Shas /\ head'[hd] \in Shas
      BY <2>1, <1>2, <1>5 DEF GitInv, SnapshotsKept, CommitsInOrder
    <3>2. seen = [base |-> head'[base], head |-> head'[hd]] BY <2>1
    <3>3. head'[base] \in Int /\ head'[hd] \in Int BY <3>1, ShasAreNat
    <3> QED BY <1>7, <3>1, <3>2, <3>3 DEF RowsOf
  <2>2. CASE ~({hd, base} \subseteq copied)
    <3>1. seen = [base |-> Foreign, head |-> Foreign] BY <2>2
    <3>2. Foreign \notin Shas /\ Foreign <= made' /\ Foreign \in Int
      BY <1>8, ShasAreNat DEF Foreign
    <3> QED BY <1>7, <3>1, <3>2 DEF RowsOf
  <2> QED BY <2>1, <2>2
<1>10. pr \in PullRow
  <2>1. Diff(tree'[base], tree'[hd]) \in SUBSET Rows BY DiffType
  <2> HIDE DEF seen
  <2> QED BY <2>1, <1>2, <1>9 DEF PullRow
<1> HIDE DEF pr, ch
<1> QED BY <1>2, <1>3, <1>4, <1>6, <1>7, <1>9, <1>10, PullCommitGood

LEMMA StutterGood == ASSUME IInv, UNCHANGED vars PROVE IInv'
<1>1. GitInv /\ PullsType /\ RowsOfSeen /\ MergedIntoMain BY InvParts
<1>2. GitInv' BY <1>1 DEF vars, GitInv, GitType, CommitsInOrder, SnapshotsKept
<1>3. PullsType' BY <1>1 DEF vars, PullsType
<1>4. RowsOfSeen' BY <1>1 DEF vars, RowsOfSeen
<1>5. MergedIntoMain' BY <1>1 DEF vars, MergedIntoMain, Line
<1> QED BY <1>2, <1>3, <1>4, <1>5, InvParts

\* Every action keeps the invariant.
LEMMA NextGood == IInv /\ [Next]_vars => IInv'
<1> SUFFICES ASSUME IInv, [Next]_vars PROVE IInv' OBVIOUS
<1>1. CASE UNCHANGED vars BY <1>1, StutterGood
<1>2. CASE Reset BY <1>2, ResetGood
<1>3. ASSUME NEW r \in Refs, NEW p \in Paths, NEW sha \in Blobs \cup {NONE}, NEW b \in Blobs,
             CreateOrUpdateFile(r, p, b, sha)
      PROVE  IInv'
  <2>1. Only(p, b) \in Changes BY OnlyType
  <2> QED BY <2>1, <1>3, CommitCallGood DEF CreateOrUpdateFile
<1>4. ASSUME NEW r \in Refs, NEW p \in Paths, NEW sha \in Blobs \cup {NONE}, DeleteFile(r, p, sha)
      PROVE  IInv'
  <2>1. Only(p, NONE) \in Changes BY OnlyType
  <2> QED BY <2>1, <1>4, CommitCallGood DEF DeleteFile
<1>5. ASSUME NEW r \in Refs, NEW ch \in [Paths -> Blobs \cup {KEEP}], PushFiles(r, ch)
      PROVE  IInv'
  <2>1. ch \in Changes BY DEF Changes
  <2> QED BY <2>1, <1>5, CommitCallGood DEF PushFiles
<1>6. ASSUME NEW r \in Refs, NEW from \in Refs, CreateBranch(r, from) PROVE IInv'
  BY <1>6, CreateBranchGood
<1>7. ASSUME NEW r \in Refs, NEW sha \in Given, CreateBranchAt(r, sha) PROVE IInv'
  BY <1>7, CreateBranchAtGood
<1>8. ASSUME NEW r \in Refs, DeleteBranch(r) PROVE IInv'
  BY <1>8, DeleteBranchGood
<1>9. ASSUME NEW sha \in Shas, NEW c \in Contexts, NEW report \in Reports,
             CreateCommitStatus(sha, c, report)
      PROVE  IInv'
  BY <1>9, StatusGood
<1>10. ASSUME NEW hd \in Refs, NEW base \in Refs, CreatePullRequest(hd, base) PROVE IInv'
  BY <1>10, CreatePullGood
<1>11. ASSUME NEW n \in Pulls, NEW state \in {"open", "closed"}, NEW base \in Refs,
              UpdatePullRequest(n, state, base)
       PROVE  IInv'
  BY <1>11, UpdatePullGood
<1>12. ASSUME NEW n \in Pulls, NEW expected, UpdatePullRequestBranch(n, expected) PROVE IInv'
  BY <1>12, UpdateBranchGood
<1>13. ASSUME NEW n \in Pulls, MergePullRequest(n) PROVE IInv'
  BY <1>13, MergeGood
<1> QED BY <1>1, <1>2, <1>3, <1>4, <1>5, <1>6, <1>7, <1>8, <1>9, <1>10, <1>11, <1>12, <1>13
        DEF Next

LEMMA IInvAlways == Spec => []IInv
BY InitGood, NextGood, PTL DEF Spec

-----------------------------------------------------------------------------
\* Every table keeps its type, for any bounds.
THEOREM TypeCorrect == Spec => []TypeOK
<1>1. IInv => TypeOK BY DEF IInv
<1> QED BY <1>1, IInvAlways, PTL

\* The files table and the commit history tell the same content of a branch.
THEOREM TreeIsSnapshotAlways == Spec => []TreeIsSnapshot
<1>1. IInv => TreeIsSnapshot
  <2> SUFFICES ASSUME IInv, NEW r \in copied PROVE tree[r] = Snapshot(head[r])
    BY DEF TreeIsSnapshot
  <2>1. tree[r] = Folded(line, files, head[r]) BY DEF IInv, SnapshotsKept
  <2> QED BY <2>1, SnapshotIsFolded
<1> QED BY <1>1, IInvAlways, PTL

\* Stored diffs are sound caches: what the rows say is the diff of the two
\* branches whenever both are where they were when it was computed.
LEMMA RowsAreCacheNow == IInv => RowsAreCache
<1> SUFFICES ASSUME IInv, NEW n \in Pulls, pulls[n].state # "absent",
                    {pulls[n].baseRef, pulls[n].headRef} \subseteq copied,
                    pulls[n].seen = [base |-> head[pulls[n].baseRef],
                                     head |-> head[pulls[n].headRef]]
             PROVE  pulls[n].rows = Diff(tree[pulls[n].baseRef], tree[pulls[n].headRef])
  BY DEF RowsAreCache
<1> DEFINE b == pulls[n].baseRef
           h == pulls[n].headRef
<1>1. /\ tree[b] = Folded(line, files, head[b]) /\ tree[h] = Folded(line, files, head[h])
      /\ head[b] \in Shas /\ head[h] \in Shas
  BY DEF IInv, SnapshotsKept, CommitsInOrder
<1>2. pulls[n].seen.base = head[b] /\ pulls[n].seen.head = head[h] OBVIOUS
<1>3. RowsOfSeen BY DEF IInv
<1>4. pulls[n].rows = Diff(Folded(line, files, head[b]), Folded(line, files, head[h]))
  BY <1>1, <1>2, <1>3 DEF RowsOfSeen
<1> QED BY <1>1, <1>4

THEOREM RowsAreCacheAlways == Spec => []RowsAreCache
BY RowsAreCacheNow, IInvAlways, PTL

\* What was merged into the default branch stays in its history.
THEOREM MergedIntoMainAlways == Spec => []MergedIntoMain
<1>1. IInv => MergedIntoMain BY DEF IInv
<1> QED BY <1>1, IInvAlways, PTL

-----------------------------------------------------------------------------
(* What a merge and an update of the head leave. *)

\* Only a merge marks a pull request as merged.
LEMMA MergesByMerge ==
  ASSUME IInv, [Next]_vars, NEW n \in Pulls, Merges(n)
  PROVE  MergePullRequest(n)
<1>1. pulls \in [Pulls -> PullRow] /\ pulls[n] \in PullRow
  BY InvParts DEF PullsType
<1>2. pulls' # pulls BY DEF Merges
<1>3. ~Reset BY DEF Reset, NoPulls, Absent, Merges
<1>4. ASSUME NEW hd, NEW base, CreatePullRequest(hd, base) PROVE FALSE
  <2>1. pulls'[n] = pulls[n] \/ pulls'[n].merged = FALSE
    BY <1>1, <1>4 DEF CreatePullRequest
  <2> QED BY <2>1 DEF Merges
<1>5. ASSUME NEW m \in Pulls, NEW state, NEW base, UpdatePullRequest(m, state, base) PROVE FALSE
  <2>1. pulls[m] \in PullRow BY <1>1
  <2>2. Rebased(pulls[m], base).merged = pulls[m].merged
    BY <2>1 DEF Rebased, PullRow
  <2>3. Rebased(pulls[m], base) = pulls[m]
          \/ Rebased(pulls[m], base) = [pulls[m] EXCEPT !.baseRef = base,
                !.rows = PullFiles(base, pulls[m].headRef), !.seen = SeenNow(base, pulls[m].headRef)]
    BY DEF Rebased
  <2>4. [Rebased(pulls[m], base) EXCEPT !.state = state].merged = pulls[m].merged
    BY <2>1, <2>3 DEF PullRow
  <2>5. pulls'[n].merged = pulls[n].merged
    BY <1>1, <1>5, <2>4 DEF UpdatePullRequest
  <2> QED BY <2>5 DEF Merges
<1>6. ASSUME NEW m \in Pulls, NEW expected, UpdatePullRequestBranch(m, expected) PROVE FALSE
  <2>1. pulls'[n].merged = pulls[n].merged
    BY <1>1, <1>6 DEF UpdatePullRequestBranch, PullRow
  <2> QED BY <2>1 DEF Merges
<1>7. ASSUME NEW m \in Pulls, MergePullRequest(m) PROVE m = n
  <2>1. m # n => pulls'[n] = pulls[n] BY <1>1, <1>7 DEF MergePullRequest
  <2> QED BY <2>1 DEF Merges
<1>8. UNCHANGED vars => pulls' = pulls BY DEF vars
<1>9. ASSUME NEW r, NEW p, NEW sha, NEW b, CreateOrUpdateFile(r, p, b, sha) PROVE pulls' = pulls
  BY <1>9 DEF CreateOrUpdateFile
<1>10. ASSUME NEW r, NEW p, NEW sha, DeleteFile(r, p, sha) PROVE pulls' = pulls
  BY <1>10 DEF DeleteFile
<1>11. ASSUME NEW r, NEW ch, PushFiles(r, ch) PROVE pulls' = pulls BY <1>11 DEF PushFiles
<1>12. ASSUME NEW r, NEW from, CreateBranch(r, from) PROVE pulls' = pulls BY <1>12 DEF CreateBranch
<1>13. ASSUME NEW r, NEW sha, CreateBranchAt(r, sha) PROVE pulls' = pulls BY <1>13 DEF CreateBranchAt
<1>14. ASSUME NEW r, DeleteBranch(r) PROVE pulls' = pulls BY <1>14 DEF DeleteBranch
<1>15. ASSUME NEW sha, NEW c, NEW report, CreateCommitStatus(sha, c, report) PROVE pulls' = pulls
  BY <1>15 DEF CreateCommitStatus
<1> QED BY <1>2, <1>3, <1>4, <1>5, <1>6, <1>7, <1>8, <1>9, <1>10, <1>11, <1>12, <1>13, <1>14,
           <1>15 DEF Next

\* A merge of fresh rows makes base the head, but for the old paths of moves.
THEOREM FreshMergeConvergesAlways == Spec => FreshMergeConverges
<1>1. ASSUME IInv, [Next]_vars, NEW n \in Pulls, Merges(n),
             {pulls[n].baseRef, pulls[n].headRef} \subseteq copied,
             pulls[n].seen = [base |-> head[pulls[n].baseRef], head |-> head[pulls[n].headRef]],
             NEW p \in Paths \ {row.from : row \in pulls[n].rows}
      PROVE  tree'[pulls[n].baseRef][p] = tree[pulls[n].headRef][p]
  <2> DEFINE pr == pulls[n]
             b == tree[pr.baseRef]
             h == tree[pr.headRef]
             ch == MergeChanges(pr)
  <2>1. MergePullRequest(n) BY <1>1, MergesByMerge
  <2>2. pr.state # "absent" BY <2>1 DEF MergePullRequest
  <2>3. pr.rows = Diff(b, h) BY <1>1, <2>2, RowsAreCacheNow DEF RowsAreCache
  <2>4. pr \in PullRow /\ tree \in [Refs -> Trees]
    BY <1>1, InvParts DEF GitInv, GitType, PullsType
  <2>5. b \in Trees /\ h \in Trees /\ pr.baseRef \in Refs BY <2>4 DEF PullRow
  <2>6. tree'[pr.baseRef] = Apply(b, ch)
    BY <2>1, <2>4, <2>5 DEF MergePullRequest, CommitFiles
  <2>7. ch = [x \in Paths |->
                IF ~\E row \in Diff(b, h) : row.path = x THEN KEEP
                ELSE IF \E row \in Diff(b, h) : row.path = x /\ row.status = "removed"
                     THEN NONE ELSE h[x]]
    BY <2>3 DEF MergeChanges
  <2>8. p \in Paths /\ p \notin {row.from : row \in Diff(b, h)} BY <1>1, <2>3
  <2> HIDE DEF pr, b, h, ch
  <2>9. Apply(b, ch)[p] = h[p] BY <2>5, <2>7, <2>8, MergedPath
  <2> QED BY <2>6, <2>9 DEF pr, h
<1>2. IInv /\ [Next]_vars =>
        \A n \in Pulls :
          LET pr == pulls[n]
              moved == {row.from : row \in pr.rows}
          IN  (/\ Merges(n) /\ {pr.baseRef, pr.headRef} \subseteq copied
               /\ pr.seen = [base |-> head[pr.baseRef], head |-> head[pr.headRef]])
                 => \A p \in Paths \ moved : tree'[pr.baseRef][p] = tree[pr.headRef][p]
  BY <1>1
<1> QED BY <1>2, IInvAlways, PTL DEF Spec, FreshMergeConverges

\* The merge base of two branches is a commit of base, or none.
LEMMA MergeBaseBound ==
  ASSUME NEW lb, NEW lh, NEW m \in Nat, lb \subseteq 1 .. m
  PROVE  (IF lb \cap lh = {} THEN NoSha ELSE Max(lb \cap lh)) \in 0 .. m
<1>1. CASE lb \cap lh = {} BY <1>1 DEF NoSha
<1>2. CASE lb \cap lh # {}
  <2>1. lb \cap lh \subseteq 1 .. m OBVIOUS
  <2>2. Max(lb \cap lh) \in lb \cap lh BY <1>2, <2>1, LastCommit
  <2> QED BY <1>2, <2>1, <2>2
<1> QED BY <1>1, <1>2

\* What base gave the head is not asked for again.
THEOREM UpdateSettlesAlways == Spec => UpdateSettles
<1>1. ASSUME IInv, NEW n \in Pulls, UpdatePullRequestBranch(n, NoSha)
      PROVE  (Touched(BaseChanges(pulls[n])))' = {}
  <2> DEFINE pr == pulls[n]
             b == tree[pr.baseRef]
             h == tree[pr.headRef]
             lb == LineIn(line, head[pr.baseRef])
             lh == LineIn(line, head[pr.headRef])
             base == IF lb \cap lh = {} THEN NoSha ELSE Max(lb \cap lh)
             o == Folded(line, files, base)
             ch == ChangesFromBase(b, h, o)
  <2>1. GitInv /\ GitType /\ CommitsInOrder /\ PullsType BY <1>1, InvParts DEF GitInv
  <2>2. pr \in PullRow /\ pr.headRef \in Refs /\ pr.baseRef \in Refs /\ made \in Nat
        /\ made \in Int
    BY <2>1, BoundsAssumption DEF PullsType, PullRow, GitType, Shas
  <2>3. ch = BaseChanges(pr) /\ o = Snapshot(MergeBase(head[pr.baseRef], head[pr.headRef]))
    BY SnapshotIsFolded DEF BaseChanges, MergeBase, Line, LineIn
  <2>4. b \in Trees /\ h \in Trees BY <2>1, <2>2 DEF GitType
  <2>5. ch \in Changes BY <2>4 DEF ChangesFromBase, Changes, Trees
  <2>6. CommitFiles(pr.headRef, ch) BY <1>1, <2>3 DEF UpdatePullRequestBranch
  <2>7. pr.headRef # pr.baseRef
    <3> SUFFICES ASSUME pr.headRef = pr.baseRef PROVE FALSE OBVIOUS
    <3>1. Touched(ch) # {} BY <1>1, <2>3 DEF UpdatePullRequestBranch
    <3>2. b = h OBVIOUS
    <3>3. \A p \in Paths : ch[p] = KEEP BY <3>2 DEF ChangesFromBase
    <3> HIDE DEF ch
    <3> QED BY <3>1, <3>3 DEF Touched
  <2>8. /\ TreesStay /\ made' = made + 1 /\ head'[pr.headRef] = made'
        /\ head'[pr.baseRef] = head[pr.baseRef]
        /\ LineIn(line', made') = lh \cup {made'}
    <3> HIDE DEF ch, b, h, lb, base, o
    <3> QED BY <2>1, <2>2, <2>5, <2>6, <2>7, CommitStep
  <2>9. tree' = [tree EXCEPT ![pr.headRef] = Apply(h, ch)]
    <3> HIDE DEF ch
    <3> QED BY <2>6 DEF CommitFiles
  <2>10. tree'[pr.headRef] = Apply(h, ch) /\ tree'[pr.baseRef] = b
    <3> HIDE DEF ch
    <3> QED BY <2>1, <2>2, <2>7, <2>9 DEF GitType
  <2>11. lb \subseteq 1 .. made BY <2>1 DEF CommitsInOrder, LineIn
  <2>12. LineIn(line', head[pr.baseRef]) = lb
    <3>1. head[pr.baseRef] \in Int /\ head[pr.baseRef] <= made
      BY <2>1, <2>2, ShasAreNat DEF GitType, CommitsInOrder
    <3>2. line' = [line EXCEPT ![made + 1] = Line(head[pr.headRef]) \cup {made + 1}]
      BY <2>6 DEF CommitFiles
    <3>3. head[pr.baseRef] # made + 1 BY <3>1, <2>2
    <3> QED BY <3>2, <3>3, <2>1 DEF LineIn, GitType
  <2>13. base \in 0 .. made BY <2>2, <2>11, MergeBaseBound
  <2>14. lb \cap (lh \cup {made'}) = lb \cap lh
    <3>1. made' \notin lb BY <2>8, <2>11, <2>2
    <3> QED BY <3>1
  <2>15. pulls'[n].baseRef = pr.baseRef /\ pulls'[n].headRef = pr.headRef
    BY <1>1, <2>1, <2>2 DEF UpdatePullRequestBranch, PullsType, PullRow
  <2>16. (BaseChanges(pulls[n]))' = ChangesFromBase(b, Apply(h, ch), o)
    <3> DEFINE lb2 == LineIn(line', head'[pulls'[n].baseRef])
               lh2 == LineIn(line', head'[pulls'[n].headRef])
               base2 == IF lb2 \cap lh2 = {} THEN NoSha ELSE Max(lb2 \cap lh2)
    <3>1. (BaseChanges(pulls[n]))'
            = ChangesFromBase(tree'[pulls'[n].baseRef], tree'[pulls'[n].headRef],
                              Folded(line', files', base2))
      BY DEF BaseChanges, MergeBase, Snapshot, Line, LineIn, Folded
    <3>2. lb2 = lb /\ lh2 = lh \cup {made'}
      <4> HIDE DEF lb, lh
      <4> QED BY <2>8, <2>12, <2>15
    <3>3. base2 = base
      <4> HIDE DEF lb, lh
      <4> QED BY <3>2, <2>14
    <3>4. Folded(line', files', base) = o
      <4>1. base \in Int /\ base <= made BY <2>13, <2>2
      <4> HIDE DEF base
      <4> QED BY <4>1, <2>8 DEF TreesStay
    <3> HIDE DEF lb2, lh2, base2, b, h, ch, base, o
    <3> QED BY <3>1, <3>3, <3>4, <2>10, <2>15
  <2>17. \A p \in Paths : ChangesFromBase(b, Apply(h, ch), o)[p] = KEEP
    <3> SUFFICES ASSUME NEW p \in Paths
                 PROVE  ~(b[p] # o[p] /\ Apply(h, ch)[p] = o[p])
      BY DEF ChangesFromBase
    <3>1. b[p] # KEEP
      <4> HIDE DEF b
      <4> QED BY <2>4, BlobsAssumption DEF Trees
    <3>2. ch[p] = IF b[p] # o[p] /\ h[p] = o[p] THEN b[p] ELSE KEEP BY DEF ChangesFromBase
    <3>3. Apply(h, ch)[p] = IF ch[p] = KEEP THEN h[p] ELSE ch[p] BY DEF Apply
    <3> HIDE DEF b, h, ch, o
    <3> QED BY <3>1, <3>2, <3>3
  <2> HIDE DEF b, h, ch, o
  <2> QED BY <2>16, <2>17 DEF Touched
<1>2. IInv /\ [Next]_vars =>
        \A n \in Pulls : UpdatePullRequestBranch(n, NoSha)
                           => (Touched(BaseChanges(pulls[n])))' = {}
  BY <1>1
<1> QED BY <1>2, IInvAlways, PTL DEF Spec, UpdateSettles
=============================================================================
