------------------------------ MODULE GithubPulls ------------------------------
(***************************************************************************)
(* Branches, commits and pull requests of one repository of twin-github    *)
(* (domain/git.ts, pulls.ts, checks.ts and the helpers of                  *)
(* github-domain.ts they share).                                           *)
(*                                                                         *)
(* Every mutation is one SQLite transaction, so an action is a whole call. *)
(* The twin keeps a branch's content twice: in `files`, one row per branch *)
(* and path, and in `file_versions`, one row per commit and path it wrote, *)
(* from which a commit's tree is folded along the ancestry.  A pull        *)
(* request keeps a third thing, the rows of its diff, computed when it is  *)
(* opened, when its base changes and when base is merged into its head,    *)
(* and read by the merge.  copied and seen are history variables: they say *)
(* what each of those copies was made from.                                *)
(*                                                                         *)
(* Left out: forks, titles and bodies, reviews, comments, issues, and the  *)
(* head_sha and base_sha columns, which only serializers read.             *)
(***************************************************************************)
EXTENDS Integers, FiniteSets, FiniteSetsExt

CONSTANTS
  Refs,        \* branch names
  Main,        \* the default branch
  Paths,       \* file paths, numbered in the order they sort
  Blobs,       \* contents, which stand for their sha
  Contexts,    \* of commit statuses
  Reports,     \* the states of a status that are reported
  MaxCommits,  \* bound on commits since a reset
  MaxPulls,    \* bound on pull requests since a reset
  MaxReports,  \* bound on statuses that exist at a time
  Given,       \* shas create-branch is given
  Seeds,       \* seeds: the files of Main, and the changes of a second branch
  NONE,        \* no file at a path
  KEEP         \* a commit has no file_versions row for a path

ASSUME NamesAssumption == Main \in Refs /\ Paths \subseteq Nat /\ IsFiniteSet(Paths)
ASSUME BoundsAssumption == MaxCommits \in Nat \ {0, 1} /\ MaxPulls \in Nat /\ MaxReports \in Nat
ASSUME ReportsAssumption == Reports \subseteq {"failure", "error", "pending", "success"}
ASSUME BlobsAssumption == NONE \notin Blobs /\ KEEP \notin Blobs /\ NONE # KEEP

Shas == 1 .. MaxCommits
NoSha == 0
Foreign == -1    \* a sha that names no commit of the repository
Pulls == 1 .. MaxPulls

VARIABLES
  branches,  \* names in the branches table
  head,      \* head_sha of each
  tree,      \* files: content of each path of each branch
  made,      \* commits so far; a sha is the commit's number
  line,      \* commitAncestry of each commit, itself included
  files,     \* file_versions of each commit
  status,    \* latest commit_statuses row per commit and context
  opened,    \* pull requests so far
  pulls,     \* pull_requests with their pull_request_files
  copied     \* history: branches whose files came with their head

vars == <<branches, head, tree, made, line, files, status, opened, pulls, copied>>
git == <<branches, head, tree, made, line, files, copied>>

Trees == [Paths -> Blobs \cup {NONE}]

Changes == [Paths -> Blobs \cup {NONE, KEEP}]

ASSUME SeedsAssumption == Seeds \subseteq [main : Trees, branch : Changes]
ASSUME GivenAssumption == Given \subseteq Shas \cup {Foreign}
Rows == [path : Paths, status : {"added", "modified", "removed", "renamed"},
         from : Paths \cup {NONE}]
\* seen: the heads of base and head the rows were computed at, or Foreign if a
\* branch's files were not those of its head.
PullRow == [state : {"absent", "open", "closed"}, merged : BOOLEAN,
            headRef : Refs, baseRef : Refs, commit : Shas \cup {NoSha},
            rows : SUBSET Rows, seen : [base : Int, head : Int]]

EmptyTree == [p \in Paths |-> NONE]
NoChange == [p \in Paths |-> KEEP]
Absent == [state |-> "absent", merged |-> FALSE, headRef |-> Main, baseRef |-> Main,
           commit |-> NoSha, rows |-> {}, seen |-> [base |-> NoSha, head |-> NoSha]]

-----------------------------------------------------------------------------
(* Trees and their differences. *)

WithoutRemovals(t, ch) == [p \in Paths |-> IF ch[p] \in {KEEP, NONE} THEN t[p] ELSE ch[p]]

Apply(t, ch) == [p \in Paths |-> IF ch[p] = KEEP THEN t[p] ELSE ch[p]]

Line(sha) == IF sha \in Shas THEN line[sha] ELSE {}

\* The tree at a commit: for each path the newest version along the ancestry.
Snapshot(sha) ==
  [p \in Paths |->
     LET writes == {c \in Line(sha) : files[c][p] # KEEP}
     IN  IF writes = {} THEN NONE ELSE files[Max(writes)][p]]

\* The first commit of base's ancestry that head's has too, or none.
MergeBase(base, hd) ==
  LET common == Line(base) \cap Line(hd)
  IN  IF common = {} THEN NoSha ELSE Max(common)

Dropped(base, hd) == {p \in Paths : base[p] # NONE /\ hd[p] = NONE}
Gained(base, hd) == {p \in Paths : base[p] = NONE /\ hd[p] # NONE}

Rank(S, t, p) == Cardinality({q \in S : t[q] = t[p] /\ q < p})

\* q is the path that p moved from: same content, and paired in path order.
MovedFrom(base, hd, p, q) ==
  /\ p \in Gained(base, hd) /\ q \in Dropped(base, hd)
  /\ base[q] = hd[p]
  /\ Rank(Dropped(base, hd), base, q) = Rank(Gained(base, hd), hd, p)

Sources(base, hd) == {q \in Dropped(base, hd) : \E p \in Paths : MovedFrom(base, hd, p, q)}

DiffRow(base, hd, p) ==
  LET from == {q \in Paths : MovedFrom(base, hd, p, q)}
  IN  [path |-> p,
       from |-> IF from = {} THEN NONE ELSE CHOOSE q \in from : TRUE,
       status |-> IF from # {} THEN "renamed"
                  ELSE IF base[p] = NONE THEN "added"
                  ELSE IF hd[p] = NONE THEN "removed" ELSE "modified"]

Diff(base, hd) ==
  {DiffRow(base, hd, p) : p \in {x \in Paths : base[x] # hd[x]} \ Sources(base, hd)}

BaseWins(base, hd, mergeBase) ==
  [p \in Paths |-> IF base[p] # mergeBase[p] THEN base[p] ELSE KEEP]

\* What base changed since the merge base on paths where head still is as it was.
ChangesFromBase(base, hd, mergeBase) ==
  [p \in Paths |->
     IF base[p] # mergeBase[p] /\ hd[p] = mergeBase[p] THEN base[p] ELSE KEEP]

Touched(ch) == {p \in Paths : ch[p] # KEEP}

CombinedFailure(sha) ==
  sha \in Shas /\ \E c \in Contexts : status[sha][c] \in {"failure", "error"}

-----------------------------------------------------------------------------
\* The databases a seed leaves: a first commit with the files of Main, and for a
\* second branch, made from Main, one commit of its own.
NewRepo(seed, second) ==
  LET forks == seed.branch # NoChange /\ second # Main
      first == [p \in Paths |-> IF seed.main[p] = NONE THEN KEEP ELSE seed.main[p]]
      names == IF forks THEN {Main, second} ELSE {Main}
      commits == IF forks THEN 2 ELSE 1
  IN  [branches |-> names,
       head |-> [r \in Refs |-> IF r = Main THEN 1 ELSE IF r \in names THEN 2 ELSE NoSha],
       tree |-> [r \in Refs |-> IF r = Main THEN seed.main
                                ELSE IF r \in names THEN Apply(seed.main, seed.branch)
                                ELSE EmptyTree],
       made |-> commits,
       line |-> [s \in Shas |-> IF s <= commits THEN 1 .. s ELSE {}],
       files |-> [s \in Shas |-> IF s = 1 THEN first
                                 ELSE IF s = 2 /\ forks THEN seed.branch ELSE NoChange]]

NewRepos == {NewRepo(seed, second) : seed \in Seeds, second \in Refs}

NoStatus == [s \in Shas |-> [c \in Contexts |-> "none"]]
NoPulls == [n \in Pulls |-> Absent]

Init ==
  /\ \E new \in NewRepos :
       /\ branches = new.branches /\ head = new.head /\ tree = new.tree
       /\ made = new.made /\ line = new.line /\ files = new.files
       /\ copied = new.branches
  /\ status = NoStatus /\ opened = 0 /\ pulls = NoPulls

\* A reset or a seed over the admin routes.
Reset ==
  /\ \E new \in NewRepos :
       /\ branches' = new.branches /\ head' = new.head /\ tree' = new.tree
       /\ made' = new.made /\ line' = new.line /\ files' = new.files
       /\ copied' = new.branches
  /\ status' = NoStatus /\ opened' = 0 /\ pulls' = NoPulls

-----------------------------------------------------------------------------
(* Commits and branches. *)

\* commitFiles: a commit on r's head, and its files in r's tree.  A removal of a
\* path that r does not have is refused.
CommitFiles(r, ch) ==
  /\ r \in branches /\ made < MaxCommits
  /\ \A p \in Paths : ch[p] = NONE => tree[r][p] # NONE
  /\ made' = made + 1
  /\ line' = [line EXCEPT ![made + 1] = Line(head[r]) \cup {made + 1}]
  /\ files' = [files EXCEPT ![made + 1] = ch]
  /\ tree' = [tree EXCEPT ![r] = Apply(tree[r], ch)]
  /\ head' = [head EXCEPT ![r] = made + 1]
  /\ UNCHANGED <<branches, copied>>

Only(p, b) == [q \in Paths |-> IF q = p THEN b ELSE KEEP]

\* sha is the blob the caller saw, which must be the path's if it has one.
CreateOrUpdateFile(r, p, b, sha) ==
  /\ tree[r][p] # NONE => sha = tree[r][p]
  /\ CommitFiles(r, Only(p, b))
  /\ UNCHANGED <<status, opened, pulls>>

PushFiles(r, ch) ==
  /\ Touched(ch) # {}
  /\ CommitFiles(r, ch)
  /\ UNCHANGED <<status, opened, pulls>>

DeleteFile(r, p, sha) ==
  /\ tree[r][p] # NONE /\ sha = tree[r][p]
  /\ CommitFiles(r, Only(p, NONE))
  /\ UNCHANGED <<status, opened, pulls>>

AnyName(r) == r \in Refs

NewName(r) == r \in Refs /\ r \notin branches

CreateBranch(r, from) ==
  /\ NewName(r) /\ from \in branches
  /\ branches' = branches \cup {r}
  /\ head' = [head EXCEPT ![r] = head[from]]
  /\ tree' = [tree EXCEPT ![r] = tree[from]]
  /\ copied' = IF from \in copied THEN copied \cup {r} ELSE copied
  /\ UNCHANGED <<made, line, files, status, opened, pulls>>

\* With a sha the branch gets the head, whatever it names, and no files.
CreateBranchAt(r, sha) ==
  /\ NewName(r) /\ sha <= made
  /\ branches' = branches \cup {r}
  /\ head' = [head EXCEPT ![r] = sha]
  /\ tree' = [tree EXCEPT ![r] = EmptyTree]
  /\ UNCHANGED <<made, line, files, copied, status, opened, pulls>>

AnyBranch(r) == r \in branches

Deletable(r) == r \in branches /\ r # Main

DeleteBranch(r) ==
  /\ Deletable(r)
  /\ ~\E n \in Pulls : pulls[n].state = "open" /\ pulls[n].headRef = r
  /\ branches' = branches \ {r} /\ copied' = copied \ {r}
  /\ head' = [head EXCEPT ![r] = NoSha]
  /\ tree' = [tree EXCEPT ![r] = EmptyTree]
  /\ UNCHANGED <<made, line, files, status, opened, pulls>>

Reported == {row \in Shas \X Contexts : status[row[1]][row[2]] # "none"}

CreateCommitStatus(sha, c, report) ==
  /\ sha \in 1 .. made
  /\ status[sha][c] # "none" \/ Cardinality(Reported) < MaxReports
  /\ status' = [status EXCEPT ![sha][c] = report]
  /\ UNCHANGED <<branches, head, tree, made, line, files, copied, opened, pulls>>

-----------------------------------------------------------------------------
(* Pull requests. *)

\* calculatePullFiles reads the two branches as they are.
PullFiles(base, hd) == Diff(tree[base], tree[hd])

SeenNow(base, hd) ==
  IF {base, hd} \subseteq copied THEN [base |-> head[base], head |-> head[hd]]
                                 ELSE [base |-> Foreign, head |-> Foreign]

CreatePullRequest(hd, base) ==
  /\ opened < MaxPulls
  /\ hd # base /\ {hd, base} \subseteq branches
  /\ ~\E n \in Pulls : pulls[n].state = "open" /\ pulls[n].headRef = hd
                                               /\ pulls[n].baseRef = base
  /\ PullFiles(base, hd) # {}
  /\ opened' = opened + 1
  /\ pulls' = [pulls EXCEPT ![opened + 1] =
                 [state |-> "open", merged |-> FALSE, headRef |-> hd, baseRef |-> base,
                  commit |-> NoSha, rows |-> PullFiles(base, hd), seen |-> SeenNow(base, hd)]]
  /\ UNCHANGED <<git, status>>

RebasedKeepingRows(pr, base) ==
  [pr EXCEPT !.baseRef = base, !.seen = SeenNow(base, pr.headRef)]

\* Rows are recomputed only if the base changes; the head may be gone by then.
Rebased(pr, base) ==
  IF base = pr.baseRef THEN pr
  ELSE [pr EXCEPT !.baseRef = base, !.rows = PullFiles(base, pr.headRef),
                  !.seen = SeenNow(base, pr.headRef)]

\* state and base are the optional parameters, or what the row has.
UpdatePullRequest(n, state, base) ==
  LET pr == pulls[n] IN
  /\ pr.state # "absent"
  /\ ~(pr.merged /\ (state = "open" \/ base # pr.baseRef))
  /\ base # pr.baseRef => base \in branches
  /\ pulls' = [pulls EXCEPT ![n] = [Rebased(pr, base) EXCEPT !.state = state]]
  /\ UNCHANGED <<git, status, opened>>

AdditionsOnly(pr) ==
  [p \in Paths |-> IF \E row \in pr.rows : row.path = p /\ row.status # "removed"
                     THEN tree[pr.headRef][p] ELSE KEEP]

\* A row that is not a removal takes its content from the head as it is now.
MergeChanges(pr) ==
  [p \in Paths |->
     IF ~\E row \in pr.rows : row.path = p THEN KEEP
     ELSE IF \E row \in pr.rows : row.path = p /\ row.status = "removed" THEN NONE
     ELSE tree[pr.headRef][p]]

MergePullRequest(n) ==
  LET pr == pulls[n] IN
  /\ pr.state = "open" /\ ~pr.merged
  /\ pr.headRef \in branches
  /\ ~CombinedFailure(head[pr.headRef])
  /\ \A row \in pr.rows : row.status # "removed" => tree[pr.headRef][row.path] # NONE
  /\ CommitFiles(pr.baseRef, MergeChanges(pr))
  /\ pulls' = [pulls EXCEPT ![n].state = "closed", ![n].merged = TRUE,
                            ![n].commit = made + 1]
  /\ UNCHANGED <<status, opened>>

BaseChanges(pr) ==
  ChangesFromBase(tree[pr.baseRef], tree[pr.headRef],
                  Snapshot(MergeBase(head[pr.baseRef], head[pr.headRef])))

\* expected is expected_head_sha, or NoSha.
UpdatePullRequestBranch(n, expected) ==
  LET pr == pulls[n] IN
  /\ pr.state = "open"
  /\ {pr.headRef, pr.baseRef} \subseteq branches
  /\ expected # NoSha => expected = head[pr.headRef]
  /\ head[pr.baseRef] # MergeBase(head[pr.baseRef], head[pr.headRef])
  /\ Touched(BaseChanges(pr)) # {}
  /\ CommitFiles(pr.headRef, BaseChanges(pr))
  /\ pulls' = [pulls EXCEPT
       ![n].rows = Diff(tree'[pr.baseRef], tree'[pr.headRef]),
       ![n].seen = IF {pr.headRef, pr.baseRef} \subseteq copied
                   THEN [base |-> head'[pr.baseRef], head |-> head'[pr.headRef]]
                   ELSE [base |-> Foreign, head |-> Foreign]]
  /\ UNCHANGED <<status, opened>>

Next ==
  \/ Reset
  \/ \E r \in Refs :
       \/ \E p \in Paths, sha \in Blobs \cup {NONE} :
            \/ \E b \in Blobs : CreateOrUpdateFile(r, p, b, sha)
            \/ DeleteFile(r, p, sha)
       \/ \E ch \in [Paths -> Blobs \cup {KEEP}] : PushFiles(r, ch)
       \/ \E from \in Refs : CreateBranch(r, from)
       \/ \E sha \in Given : CreateBranchAt(r, sha)
       \/ DeleteBranch(r)
  \/ \E sha \in Shas, c \in Contexts, report \in Reports : CreateCommitStatus(sha, c, report)
  \/ \E hd, base \in Refs : CreatePullRequest(hd, base)
  \/ \E n \in Pulls :
       \/ \E state \in {"open", "closed"}, base \in Refs : UpdatePullRequest(n, state, base)
       \/ \E expected \in Shas \cup {NoSha, Foreign} : UpdatePullRequestBranch(n, expected)
       \/ MergePullRequest(n)

Spec == Init /\ [][Next]_vars

-----------------------------------------------------------------------------
\* Types: the tables hold rows of their kind.
TypeOK ==
  /\ branches \subseteq Refs /\ copied \subseteq branches /\ Main \in branches
  /\ head \in [Refs -> Shas \cup {NoSha, Foreign}]
  /\ tree \in [Refs -> Trees]
  /\ made \in Shas
  /\ line \in [Shas -> SUBSET Shas]
  /\ files \in [Shas -> Changes]
  /\ status \in [Shas -> [Contexts -> Reports \cup {"none"}]]
  /\ opened \in 0 .. MaxPulls
  /\ pulls \in [Pulls -> PullRow]

\* The two ways the twin keeps a branch's content agree: the files table, which
\* the contents routes, pull requests and merges read, holds exactly what the
\* commit history, which compare and update-branch read, adds up to.  (Branches
\* created from a sha have no files; they are not in copied.)
TreeIsSnapshot == \A r \in copied : tree[r] = Snapshot(head[r])

\* The stored diff of a pull request is a cache, and a sound one: as long as both
\* branches are where they were when it was computed, whatever was deleted,
\* recreated, reopened or rebased in between, it is the diff of their files.
RowsAreCache ==
  \A n \in Pulls :
    LET pr == pulls[n] IN
    (/\ pr.state # "absent" /\ {pr.baseRef, pr.headRef} \subseteq copied
     /\ pr.seen = [base |-> head[pr.baseRef], head |-> head[pr.headRef]])
      => pr.rows = Diff(tree[pr.baseRef], tree[pr.headRef])

\* What was merged into the default branch stays in its history.
MergedIntoMain ==
  \A n \in Pulls : (pulls[n].merged /\ pulls[n].baseRef = Main)
                      => pulls[n].commit \in Line(head[Main])

Merges(n) == pulls[n].state = "open" /\ ~pulls[n].merged /\ pulls'[n].merged

\* A merge whose rows are up to date makes base equal to head, but for the old
\* paths of renamed files, which it leaves on base.
FreshMergeConverges ==
  [][\A n \in Pulls :
       LET pr == pulls[n]
           moved == {row.from : row \in pr.rows}
       IN  (/\ Merges(n) /\ {pr.baseRef, pr.headRef} \subseteq copied
            /\ pr.seen = [base |-> head[pr.baseRef], head |-> head[pr.headRef]])
              => \A p \in Paths \ moved : tree'[pr.baseRef][p] = tree[pr.headRef][p]]_vars

\* After base was merged into a head, asking again changes nothing, although the
\* merge commit has one parent and the merge base is still the old one.
UpdateSettles ==
  [][\A n \in Pulls : UpdatePullRequestBranch(n, NoSha)
        => Touched(BaseChanges(pulls[n]))' = {}]_vars

=============================================================================
