------------------------------ MODULE GitlabRepo ------------------------------
(***************************************************************************)
(* A project's GitLab repository, as the calls of GitlabApiService see it:  *)
(* commits, the default branch and one work branch with its merge          *)
(* requests, and what people do to them outside the tool.  External: only  *)
(* what src/ relies on is here (test/utils/fake-gitlab.ts answers alike).  *)
(*                                                                         *)
(* The content of a file is named by the commit that last changed it, so   *)
(* that a property can tell whose content a file holds.                    *)
(***************************************************************************)
EXTENDS Naturals, Sequences, FiniteSets

CONSTANTS
  Paths,        \* files a repository may hold
  Contents,     \* [kind, codes]: what a file may contain and the test cases its tags name
  TestsPaths,   \* the tests folders a project may be linked with, each a set of files
  Tracked,      \* the files of the first commit
  Saves,        \* calls of AutomationService.saveFile (they author commits)
  People,       \* the author of every other commit
  MaxPushes     \* bound on commits that people push

NoFile == 0
Branches == {"main", "work"}

ASSUME GitlabRepoAssumption ==
  /\ Tracked \subseteq Paths /\ TestsPaths \subseteq SUBSET Paths
  /\ Paths # {} /\ IsFiniteSet(Paths)
  /\ People \notin Saves /\ MaxPushes \in Nat

VARIABLES
  commits,      \* commits[c]: the files it shows (by last commit), what it wrote, where and by whom
  heads,        \* heads[b]: the branch's latest commit, 0 when there is no such branch
  mrs,          \* the work branch's merge requests, oldest first
  testsPath     \* Project.testsPath, the tests folder the project is linked with

repoVars == <<commits, heads, mrs>>

Commits == 1 .. Len(commits)
FilesAt(c) == IF c = 0 THEN [p \in Paths |-> NoFile] ELSE commits[c].files
LastCommit(b, p) == FilesAt(heads[b])[p]
Exists(b) == heads[b] # 0
Kind(c) == IF c = NoFile THEN "absent" ELSE commits[c].content.kind
Codes(c) == commits[c].content.codes
AllCodes == UNION {c.codes : c \in Contents}

RepoInit ==
  \E c \in {d \in Contents : d.kind = "text"} :
    /\ commits = <<[files |-> [p \in Paths |-> IF p \in Tracked THEN 1 ELSE NoFile],
                    content |-> c, paths |-> Tracked, by |-> People]>>
    /\ heads = [b \in Branches |-> IF b = "main" THEN 1 ELSE 0]
    /\ mrs = <<>>
    /\ testsPath \in TestsPaths

GitlabCommit == [files : [Paths -> 0 .. Len(commits)], content : Contents,
                 paths : SUBSET Paths, by : Saves \cup {People}]
\* files, codes: what the description names.
GitlabMergeRequest == [state : {"opened", "merged", "closed"},
                       files : SUBSET Paths, codes : SUBSET AllCodes]

RepoTypeOK ==
  /\ testsPath \in TestsPaths
  /\ commits \in Seq(GitlabCommit)
  /\ heads \in [Branches -> 0 .. Len(commits)]
  /\ mrs \in Seq(GitlabMergeRequest)

\* A commit of one file on b, on top of what start shows.
Land(b, start, p, content, author) ==
  LET new == Len(commits) + 1
  IN /\ commits' = Append(commits, [files |-> [FilesAt(heads[start]) EXCEPT ![p] = new],
                                    content |-> content, paths |-> {p}, by |-> author])
     /\ heads' = [heads EXCEPT ![b] = new]

\* The answer to POST /repository/commits with one create (last = NoFile) or update action.
CommitVerdict(fromMain, p, last) ==
  LET there == LastCommit(IF fromMain THEN "main" ELSE "work", p)
  IN IF fromMain = Exists("work")
     THEN IF fromMain THEN "branch already exists" ELSE "no branch"
     ELSE CASE there = last                   -> "ok"
            [] there # last /\ last = NoFile  -> "file already exists"
            [] there # last /\ there = NoFile -> "file doesn't exist"
            [] OTHER                          -> "file has changed since"

OpenMrs == {i \in DOMAIN mrs : mrs[i].state = "opened"}      \* GitLab keeps at most one per branch

-------------------------------------------------------------------------------
PushCount == Cardinality({c \in Commits : commits[c].by = People /\ commits[c].paths # {}}) - 1

Push(b, p, content) ==
  /\ PushCount < MaxPushes
  /\ Exists(b)
  /\ Land(b, b, p, content, People)
  /\ UNCHANGED mrs

\* People settle each difference either way; the source branch is removed (remove_source_branch).
MergeMr ==
  \E i \in OpenMrs, fromWork \in SUBSET Paths :
    LET new == Len(commits) + 1
    IN /\ Exists("work")
       /\ commits' = Append(commits,
            [files |-> [p \in Paths |-> LastCommit(IF p \in fromWork THEN "work" ELSE "main", p)],
             content |-> commits[heads["main"]].content, paths |-> {}, by |-> People])
       /\ heads' = [main |-> new, work |-> 0]
       /\ mrs' = [mrs EXCEPT ![i].state = "merged"]

CloseMr ==
  \E i \in OpenMrs : mrs' = [mrs EXCEPT ![i].state = "closed"] /\ UNCHANGED <<commits, heads>>

RepoNext ==
  \/ \E b \in Branches, p \in Paths, c \in Contents : Push(b, p, c)
  \/ MergeMr
  \/ CloseMr
===============================================================================
