------------------------ MODULE AutomationFilesProofs ------------------------
(***************************************************************************)
(* AutomationFiles, proved for every number of saves, files, pushes and    *)
(* coverage requests: a save replaces nothing its tester has not seen, is  *)
(* refused as a conflict only when others moved its file, and is answered  *)
(* with a merge request that names what it edited.                         *)
(* Between HeadFile, which compares the branch with what the tester        *)
(* loaded, and the commit, the branch may move in any way; SaveFits keeps  *)
(* what the comparison found, and GitLab's last_commit_id does the rest.   *)
(* Everything here rests on a history that only grows (Grown).             *)
(***************************************************************************)
EXTENDS AutomationFiles, TLAPS

CommitRow == [files : [Paths -> Nat], content : Contents, paths : SUBSET Paths, by : Saves \cup {People}]

\* Every branch shows a commit; only the work branch may be missing.
RepoFits ==
  /\ commits \in Seq(CommitRow)
  /\ \A c \in Commits, p \in Paths : commits[c].files[p] <= Len(commits)
  /\ heads \in [Branches -> 0 .. Len(commits)]
  /\ heads["main"] # 0
  /\ mrs \in Seq(GitlabMergeRequest)
  /\ testsPath \in TestsPaths

SaveRow == [pc : SaveSteps, path : Paths, content : Contents, exists : BOOLEAN,
            loaded : Nat, head : Nat, commit : Nat, mr : Nat,
            files : SUBSET Paths, codes : SUBSET AllCodes, alone : BOOLEAN, answer : Answers]

SomeMerged == \E i \in DOMAIN mrs : mrs[i].state = "merged"
OthersMoved(s) ==
  \/ \E c \in Commits : commits[c].by # s /\ FilesAt(c)[save[s].path] # save[s].loaded
  \/ SomeMerged

\* A save has read what the history still says, and has written nothing before its commit.
SaveFits(s) ==
  /\ save[s].loaded <= Len(commits) /\ save[s].head <= Len(commits) /\ save[s].commit <= Len(commits)
  /\ save[s].mr <= Len(mrs)
  /\ save[s].pc \in {"utf8", "commit", "retry"} => save[s].head = save[s].loaded
  /\ save[s].pc # "done" => save[s].answer = "none"
  /\ save[s].pc \in {"new", "loaded", "head", "utf8", "commit", "retry"} =>
       \A c \in Commits : commits[c].by # s
  /\ save[s].pc \in {"head", "utf8", "commit", "retry"} /\ save[s].exists => Exists("work") \/ SomeMerged
  /\ save[s].answer \in {"exists", "stale"} => OthersMoved(s)
  /\ save[s].pc \notin {"update", "done"} => save[s].mr = 0
  /\ save[s].pc = "update" => save[s].mr \in DOMAIN mrs
SavesFit == save \in [Saves -> SaveRow] /\ \A s \in Saves : SaveFits(s)

\* A save alone in the merge request's part is alone there until it leaves it, and one about to write
\* a description has read what every save answered before it put there.
Named(s) == save[s].answer = "ok" /\ save[s].mr # 0 /\ save[s].alone
AloneFits == \A s, t \in Saves :
  s # t /\ save[s].pc \in MrSteps /\ save[s].alone => save[t].pc \notin MrSteps
ReadersFit == \A s, t \in Saves :
  save[s].pc = "update" /\ Named(t) /\ save[t].mr = save[s].mr =>
    save[t].path \in save[s].files /\ save[t].content.codes \subseteq save[s].codes
DescriptionsFit == AloneFits /\ ReadersFit /\ MergeRequestNamesEdits

IInv == RepoFits /\ SavesFit /\ DescriptionsFit

LEMMA InitIInv == Init => IInv
<1> SUFFICES ASSUME Init PROVE IInv
  OBVIOUS
<1>1. PICK c \in Contents :
        /\ commits = <<[files |-> [p \in Paths |-> IF p \in Tracked THEN 1 ELSE NoFile],
                        content |-> c, paths |-> Tracked, by |-> People]>>
        /\ heads = [b \in Branches |-> IF b = "main" THEN 1 ELSE 0]
        /\ mrs = <<>> /\ testsPath \in TestsPaths
  BY DEF Init, RepoInit
<1>2. RepoFits
  BY <1>1, GitlabRepoAssumption DEF RepoFits, CommitRow, Branches, NoFile, Commits
<1>3. save = [s \in Saves |-> Blank] /\ Blank.pc = "new"
  BY DEF Init, SaveInit, Blank
<1>4. Blank \in SaveRow
  BY <1>1, GitlabRepoAssumption DEF Blank, SaveRow, SaveSteps, MrSteps, Answers, NoFile
<1>5. SavesFit
  <2>1. \A k \in Commits : commits[k].by = People
    BY <1>1 DEF Commits
  <2>2. Len(commits) = 1 /\ Len(mrs) = 0
    BY <1>1
  <2>3. save \in [Saves -> SaveRow]
    BY <1>3, <1>4
  <2>4. ASSUME NEW s \in Saves PROVE SaveFits(s)
    <3>1. save[s] = Blank /\ Blank.loaded = 0 /\ Blank.head = 0 /\ Blank.commit = 0 /\ Blank.mr = 0
          /\ Blank.answer = "none"
      BY <1>3 DEF Blank, NoFile
    <3> QED BY <1>3, <2>1, <2>2, <3>1, GitlabRepoAssumption DEF SaveFits
  <2> QED BY <2>3, <2>4 DEF SavesFit
<1>6. AloneFits /\ ReadersFit /\ MergeRequestNamesEdits
  BY <1>3 DEF AloneFits, ReadersFit, MergeRequestNamesEdits, Named, Blank, MrSteps
<1> QED BY <1>2, <1>5, <1>6 DEF IInv, DescriptionsFit

------------------------------------------------------------------------------
(* The repository *)

\* What every step leaves of the history: commits stay, new ones are by this author, a merge request
\* stays merged, and the work branch only goes away with a merge.
Grown(author) ==
  /\ Len(commits) <= Len(commits')
  /\ \A c \in Commits : commits'[c] = commits[c]
  /\ \A c \in Commits' \ Commits : commits'[c].by = author
  /\ Len(mrs) <= Len(mrs')
  /\ SomeMerged => SomeMerged'
  /\ Exists("work") => Exists("work")' \/ SomeMerged'

\* The merge requests keep what they say.
TextsKept ==
  \A i \in DOMAIN mrs : mrs'[i].files = mrs[i].files /\ mrs'[i].codes = mrs[i].codes

LEMMA FilesFit ==
  ASSUME RepoFits, NEW b \in Branches
  PROVE  /\ FilesAt(heads[b]) \in [Paths -> Nat] /\ Len(commits) \in Nat
         /\ \A p \in Paths : LastCommit(b, p) \in Nat /\ LastCommit(b, p) <= Len(commits)
<1>1. heads[b] \in 0 .. Len(commits) /\ Len(commits) \in Nat
  BY DEF RepoFits
<1>2. CASE heads[b] = 0
  BY <1>1, <1>2 DEF FilesAt, NoFile, LastCommit
<1>3. CASE heads[b] # 0
  <2>1. commits[heads[b]] \in CommitRow /\ heads[b] \in Commits
    BY <1>1, <1>3 DEF RepoFits, Commits
  <2> QED BY <1>1, <1>3, <2>1 DEF FilesAt, CommitRow, LastCommit, RepoFits
<1> QED BY <1>1, <1>2, <1>3

LEMMA QuietRepo ==
  ASSUME RepoFits, UNCHANGED repoVars, testsPath' \in TestsPaths
  PROVE  RepoFits' /\ TextsKept /\ \A author : Grown(author)
<1>1. Len(commits) \in Nat /\ Len(mrs) \in Nat
  BY DEF RepoFits
<1> QED BY <1>1 DEF RepoFits, repoVars, TextsKept, Grown, Commits, SomeMerged, Exists

LEMMA AppendFits ==
  ASSUME RepoFits, NEW c \in CommitRow, commits' = Append(commits, c),
         \A p \in Paths : c.files[p] <= Len(commits) + 1,
         heads' \in [Branches -> {heads["main"], heads["work"], Len(commits) + 1, 0}],
         heads'["main"] # 0, Exists("work") => heads'["work"] # 0 \/ SomeMerged',
         mrs' \in Seq(GitlabMergeRequest), Len(mrs') = Len(mrs), SomeMerged => SomeMerged',
         testsPath' = testsPath
  PROVE  RepoFits' /\ Grown(c.by) /\ commits'[Len(commits) + 1] = c
<1>1. /\ Len(commits) \in Nat /\ Len(commits') = Len(commits) + 1
      /\ \A k \in Commits : commits'[k] = commits[k]
      /\ commits'[Len(commits) + 1] = c /\ commits' \in Seq(CommitRow)
  BY DEF RepoFits, Commits
<1>2. heads["main"] \in 0 .. Len(commits) /\ heads["work"] \in 0 .. Len(commits)
  BY DEF RepoFits, Branches
<1>3. heads' \in [Branches -> 0 .. Len(commits')]
  BY <1>1, <1>2
<1>4. Commits' = Commits \cup {Len(commits) + 1}
  BY <1>1 DEF Commits
<1>5. \A k \in Commits', p \in Paths : commits'[k].files[p] <= Len(commits')
  <2>1. ASSUME NEW k \in Commits, NEW p \in Paths PROVE commits[k].files[p] \in Nat
    <3>1. commits[k] \in CommitRow
      BY DEF RepoFits, Commits
    <3> QED BY <3>1 DEF CommitRow
  <2>2. ASSUME NEW k \in Commits, NEW p \in Paths PROVE commits[k].files[p] <= Len(commits) + 1
    <3>1. commits[k].files[p] <= Len(commits)
      BY DEF RepoFits
    <3> QED BY <1>1, <2>1, <3>1
  <2>3. ASSUME NEW p \in Paths PROVE c.files[p] <= Len(commits) + 1
    OBVIOUS
  <2> QED BY <1>1, <1>4, <2>2, <2>3
<1>6. RepoFits'
  <2>1. mrs' \in Seq(GitlabMergeRequest) /\ testsPath' \in TestsPaths
    BY DEF RepoFits
  <2> QED BY <1>1, <1>3, <1>5, <2>1 DEF RepoFits
<1>7. Len(mrs) \in Nat
  BY DEF RepoFits
<1>8. Len(commits) <= Len(commits') /\ Len(mrs) <= Len(mrs')
  BY <1>1, <1>7
<1>9. \A k \in Commits' \ Commits : commits'[k].by = c.by
  BY <1>1, <1>4
<1> QED BY <1>1, <1>6, <1>8, <1>9 DEF Grown, Exists

LEMMA LandFits ==
  ASSUME RepoFits, NEW b \in Branches, NEW start \in Branches, NEW p \in Paths,
         NEW content \in Contents, NEW author \in Saves \cup {People},
         Land(b, start, p, content, author), UNCHANGED <<mrs, testsPath>>
  PROVE  /\ RepoFits' /\ Grown(author) /\ TextsKept /\ Len(commits') = Len(commits) + 1
         /\ \A q \in Paths \ {p} : commits'[heads'[b]].files[q] = LastCommit(start, q)
<1> DEFINE new == Len(commits) + 1
           c == [files |-> [FilesAt(heads[start]) EXCEPT ![p] = new],
                 content |-> content, paths |-> {p}, by |-> author]
<1>1. commits' = Append(commits, c) /\ heads' = [heads EXCEPT ![b] = new]
  BY DEF Land
<1>2. /\ FilesAt(heads[start]) \in [Paths -> Nat] /\ new \in Nat /\ new # 0
      /\ \A q \in Paths : FilesAt(heads[start])[q] <= Len(commits)
  BY FilesFit DEF LastCommit
<1>3. c \in CommitRow /\ c.by = author
  BY <1>2 DEF CommitRow
<1>4. /\ heads' \in [Branches -> {heads["main"], heads["work"], new, 0}] /\ heads'["main"] # 0
      /\ heads'[b] = new
  BY <1>1, <1>2 DEF RepoFits, Branches
<1>5. \A q \in Paths : c.files[q] <= new
  BY <1>2
<1>6. TextsKept /\ SomeMerged' = SomeMerged /\ mrs' \in Seq(GitlabMergeRequest) /\ Len(mrs') = Len(mrs)
  BY DEF TextsKept, SomeMerged, RepoFits
<1>7. Exists("work") => heads'["work"] # 0
  BY <1>1, <1>2 DEF Exists, RepoFits, Branches
<1> HIDE DEF new
<1>8. RepoFits' /\ Grown(author) /\ commits'[new] = c
  BY <1>1, <1>3, <1>4, <1>5, <1>6, <1>7, AppendFits DEF new
<1>9. Len(commits') = Len(commits) + 1
  BY <1>1 DEF RepoFits
<1> QED BY <1>2, <1>4, <1>6, <1>8, <1>9 DEF LastCommit

LEMMA RepoNextFits ==
  ASSUME RepoFits, RepoNext, UNCHANGED testsPath
  PROVE  RepoFits' /\ Grown(People) /\ TextsKept
<1>1. ASSUME NEW b \in Branches, NEW p \in Paths, NEW c \in Contents, Push(b, p, c)
      PROVE  RepoFits' /\ Grown(People) /\ TextsKept
  BY <1>1, LandFits DEF Push
<1>2. CASE MergeMr
  <2> DEFINE new == Len(commits) + 1
  <2>1. PICK i \in OpenMrs, fromWork \in SUBSET Paths :
          /\ commits' = Append(commits,
               [files |-> [p \in Paths |-> LastCommit(IF p \in fromWork THEN "work" ELSE "main", p)],
                content |-> commits[heads["main"]].content, paths |-> {}, by |-> People])
          /\ heads' = [main |-> new, work |-> 0]
          /\ mrs' = [mrs EXCEPT ![i].state = "merged"]
    BY <1>2 DEF MergeMr
  <2> DEFINE merge == [files |-> [p \in Paths |-> LastCommit(IF p \in fromWork THEN "work" ELSE "main", p)],
                       content |-> commits[heads["main"]].content, paths |-> {}, by |-> People]
  <2>2. \A b \in {"work", "main"}, p \in Paths :
          LastCommit(b, p) \in Nat /\ LastCommit(b, p) <= Len(commits) /\ new \in Nat /\ new # 0
    BY FilesFit DEF Branches
  <2>3. commits[heads["main"]].content \in Contents
    <3>1. heads["main"] \in 1 .. Len(commits)
      BY FilesFit DEF RepoFits, Branches
    <3>2. commits[heads["main"]] \in CommitRow
      BY <3>1 DEF RepoFits
    <3> QED BY <3>2 DEF CommitRow
  <2>4. merge \in CommitRow /\ \A p \in Paths : merge.files[p] <= Len(commits) + 1
    BY <2>2, <2>3 DEF CommitRow
  <2>5. /\ heads' \in [Branches -> {heads["main"], heads["work"], new, 0}] /\ heads'["main"] # 0
    BY <2>1, FilesFit DEF Branches
  <2>6. mrs' \in Seq(GitlabMergeRequest) /\ Len(mrs') = Len(mrs) /\ SomeMerged' /\ TextsKept
    <3>1. i \in DOMAIN mrs /\ mrs[i] \in GitlabMergeRequest
      BY DEF OpenMrs, RepoFits
    <3>2. [mrs[i] EXCEPT !.state = "merged"] \in GitlabMergeRequest
      BY <3>1 DEF GitlabMergeRequest
    <3>3. /\ DOMAIN mrs' = DOMAIN mrs /\ mrs'[i].state = "merged"
          /\ mrs'[i].files = mrs[i].files /\ mrs'[i].codes = mrs[i].codes
          /\ \A j \in DOMAIN mrs \ {i} : mrs'[j] = mrs[j]
      BY <2>1, <3>1 DEF GitlabMergeRequest
    <3>4. mrs' \in Seq(GitlabMergeRequest) /\ Len(mrs') = Len(mrs)
      BY <2>1, <3>1, <3>2 DEF RepoFits
    <3> QED BY <3>1, <3>3, <3>4 DEF SomeMerged, TextsKept
  <2> HIDE DEF merge, new
  <2>7. RepoFits' /\ Grown(merge.by)
    BY <2>1, <2>4, <2>5, <2>6, AppendFits DEF merge, new
  <2>8. merge.by = People
    BY DEF merge
  <2> QED BY <2>6, <2>7, <2>8
<1>3. CASE CloseMr
  <2>1. PICK i \in OpenMrs : mrs' = [mrs EXCEPT ![i].state = "closed"] /\ UNCHANGED <<commits, heads>>
    BY <1>3 DEF CloseMr
  <2>2. i \in DOMAIN mrs /\ mrs[i] \in GitlabMergeRequest /\ mrs[i].state = "opened"
    BY DEF OpenMrs, RepoFits
  <2>3. [mrs[i] EXCEPT !.state = "closed"] \in GitlabMergeRequest
    BY <2>2 DEF GitlabMergeRequest
  <2>4. /\ DOMAIN mrs' = DOMAIN mrs
        /\ mrs'[i].files = mrs[i].files /\ mrs'[i].codes = mrs[i].codes
        /\ \A j \in DOMAIN mrs \ {i} : mrs'[j] = mrs[j]
    BY <2>1, <2>2 DEF GitlabMergeRequest
  <2>5. mrs' \in Seq(GitlabMergeRequest) /\ Len(mrs') = Len(mrs)
    BY <2>1, <2>2, <2>3 DEF RepoFits
  <2>6. RepoFits' /\ TextsKept
    BY <2>1, <2>2, <2>4, <2>5 DEF RepoFits, TextsKept, Commits
  <2>7. SomeMerged => SomeMerged'
    BY <2>2, <2>4 DEF SomeMerged
  <2> QED BY <2>1, <2>5, <2>6, <2>7 DEF RepoFits, Grown, Exists, Commits
<1> QED BY <1>1, <1>2, <1>3 DEF RepoNext

------------------------------------------------------------------------------
(* The saves *)

\* What a save has read stays true of a history that grows by others' commits.
LEMMA Survives ==
  ASSUME RepoFits, NEW s \in Saves, save[s] \in SaveRow, SaveFits(s),
         NEW author, author # s, Grown(author), Len(commits') \in Nat, Len(mrs') \in Nat,
         save'[s] \in {save[s], [save[s] EXCEPT !.alone = FALSE]}
  PROVE  save'[s] \in SaveRow /\ SaveFits(s)'
<1> DEFINE old == save[s]
           new == save'[s]
<1>1. /\ new \in SaveRow /\ new.pc = old.pc /\ new.path = old.path /\ new.exists = old.exists
      /\ new.loaded = old.loaded /\ new.head = old.head /\ new.commit = old.commit /\ new.mr = old.mr
      /\ new.answer = old.answer
  BY DEF SaveRow
<1>2. /\ old.loaded \in Nat /\ old.head \in Nat /\ old.commit \in Nat /\ old.mr \in Nat
      /\ Len(commits) \in Nat /\ Len(mrs) \in Nat
  BY DEF SaveRow, RepoFits
<1>3. Commits \subseteq Commits' /\ 0 \notin Commits /\ DOMAIN mrs = 1 .. Len(mrs)
  BY <1>2 DEF Grown, Commits, RepoFits
<1> HIDE DEF old, new
<1>4. (old.pc \in {"new", "loaded", "head", "utf8", "commit", "retry"} =>
         \A c \in Commits : commits[c].by # s)
      => (new.pc \in {"new", "loaded", "head", "utf8", "commit", "retry"} =>
            \A c \in Commits' : commits'[c].by # s)
  BY <1>1, <1>3 DEF Grown
<1>5. OthersMoved(s) => OthersMoved(s)'
  <2>1. ASSUME NEW c \in Commits, commits[c].by # s, FilesAt(c)[save[s].path] # save[s].loaded
        PROVE  c \in Commits' /\ commits'[c].by # s /\ FilesAt(c)'[save'[s].path] # save'[s].loaded
    BY <1>1, <1>3, <2>1 DEF Grown, FilesAt, old, new
  <2> QED BY <2>1 DEF OthersMoved, Grown
<1>6. Exists("work") \/ SomeMerged => Exists("work")' \/ SomeMerged'
  BY DEF Grown
<1>7. Len(commits) <= Len(commits') /\ Len(mrs) <= Len(mrs')
  BY DEF Grown
<1>8. new.loaded <= Len(commits') /\ new.head <= Len(commits') /\ new.commit <= Len(commits')
      /\ new.mr <= Len(mrs')
  BY <1>1, <1>2, <1>7 DEF SaveFits, old
<1>9. old.mr \in DOMAIN mrs => old.mr \in 1 .. Len(mrs')
  BY <1>2, <1>3, <1>7
<1>10. new.pc = "update" => new.mr \in DOMAIN mrs'
  <2>1. CASE new.pc = "update"
    BY <1>1, <1>2, <1>7, <1>9, <2>1 DEF SaveFits, old
  <2> QED BY <2>1
<1> QED BY <1>1, <1>4, <1>5, <1>6, <1>8, <1>10 DEF SaveFits, old, new

\* A step of save s, and one that commits nothing.
Step(s) ==
  /\ RepoFits' /\ SavesFit' /\ DescriptionsFit' /\ Grown(s)
  /\ \A t \in Saves \ {s} : save'[t].commit = save[t].commit
Quiet(s) == Step(s) /\ save'[s].commit = save[s].commit

LEMMA OneSave ==
  ASSUME RepoFits, SavesFit, NEW s \in Saves, NEW row \in SaveRow, save' = [save EXCEPT ![s] = row],
         SaveFits(s)', RepoFits', Grown(s)
  PROVE  SavesFit' /\ save'[s] = row /\ \A t \in Saves \ {s} : save'[t] = save[t]
<1>1. save'[s] = row /\ save' \in [Saves -> SaveRow] /\ \A t \in Saves \ {s} : save'[t] = save[t]
  BY DEF SavesFit
<1>2. ASSUME NEW t \in Saves \ {s} PROVE SaveFits(t)'
  <2>1. Len(commits') \in Nat /\ Len(mrs') \in Nat
    BY DEF RepoFits
  <2> QED BY <1>1, <2>1, Survives DEF SavesFit
<1> QED BY <1>1, <1>2 DEF SavesFit

\* Outside the merge request's part nothing of what is answered or read there changes.
LEMMA OutsideDescriptions ==
  ASSUME RepoFits, SavesFit, DescriptionsFit, NEW s \in Saves, NEW row \in SaveRow,
         save' = [save EXCEPT ![s] = row], row.pc \notin MrSteps, row.answer = "ok" => row.mr = 0,
         TextsKept
  PROVE  DescriptionsFit'
<1>1. save'[s] = row /\ \A t \in Saves \ {s} : save'[t] = save[t]
  BY DEF SavesFit
<1>2. ASSUME NEW t \in Saves, Named(t)' PROVE t # s /\ Named(t) /\ save[t].mr \in DOMAIN mrs
  <2>1. t # s /\ Named(t)
    BY <1>1, <1>2 DEF Named
  <2>2. save[t].mr \in Nat /\ save[t].mr # 0 /\ save[t].mr <= Len(mrs) /\ Len(mrs) \in Nat
    BY <2>1 DEF SavesFit, SaveFits, SaveRow, Named, RepoFits
  <2> QED BY <2>1, <2>2 DEF RepoFits
<1>3. AloneFits'
  BY <1>1 DEF DescriptionsFit, AloneFits
<1>4. ReadersFit'
  BY <1>1, <1>2 DEF DescriptionsFit, ReadersFit, MrSteps
<1>5. MergeRequestNamesEdits'
  BY <1>1, <1>2 DEF DescriptionsFit, MergeRequestNamesEdits, Named, TextsKept
<1> QED BY <1>3, <1>4, <1>5 DEF DescriptionsFit

LEMMA OutsideMove ==
  ASSUME IInv, NEW s \in Saves, NEW row \in SaveRow, save' = [save EXCEPT ![s] = row],
         UNCHANGED <<repoVars, testsPath>>, row.commit = save[s].commit,
         row.pc \notin MrSteps, row.answer = "ok" => row.mr = 0, SaveFits(s)'
  PROVE  Quiet(s)
<1>1. RepoFits' /\ TextsKept /\ Grown(s)
  BY QuietRepo DEF IInv, RepoFits
<1>2. SavesFit' /\ save'[s] = row /\ \A t \in Saves \ {s} : save'[t] = save[t]
  BY <1>1, OneSave DEF IInv
<1>3. DescriptionsFit'
  BY <1>1, OutsideDescriptions DEF IInv
<1> QED BY <1>1, <1>2, <1>3 DEF Quiet, Step
\* A request that ends: refused, failed, or answered without a merge request.
LEMMA EndIsQuiet ==
  ASSUME IInv, NEW s \in Saves, NEW answer \in Answers, save[s].pc # "new", End(s, answer),
         UNCHANGED <<repoVars, testsPath>>, answer = "ok" => save[s].mr = 0,
         answer \in {"exists", "stale"} => OthersMoved(s)
  PROVE  Quiet(s)
<1> DEFINE row == [save[s] EXCEPT !.pc = "done", !.answer = answer]
<1>1. save[s] \in SaveRow /\ SaveFits(s)
  BY DEF IInv, SavesFit
<1>2. row \in SaveRow /\ save' = [save EXCEPT ![s] = row] /\ save'[s] = row
      /\ row.pc = "done" /\ row.answer = answer /\ row.commit = save[s].commit /\ row.mr = save[s].mr
      /\ row.loaded = save[s].loaded /\ row.head = save[s].head /\ row.path = save[s].path
  BY <1>1 DEF SaveRow, SaveSteps, End, IInv, SavesFit
<1> HIDE DEF row
<1>3. OthersMoved(s) => OthersMoved(s)'
  BY <1>2 DEF OthersMoved, repoVars, FilesAt, Commits, SomeMerged
<1>4. SaveFits(s)'
  BY <1>1, <1>2, <1>3 DEF SaveFits, repoVars
<1> QED BY <1>2, <1>4, OutsideMove DEF MrSteps

LEMMA ReadFileIsQuiet ==
  ASSUME IInv, NEW s \in Saves, NEW p \in Paths, NEW b \in Branches, ReadFile(s, p, b)
  PROVE  Quiet(s)
<1>1. PICK c \in Contents :
        save' = [save EXCEPT ![s].pc = "loaded", ![s].path = p, ![s].content = c,
                             ![s].loaded = LastCommit(b, p)]
  BY DEF ReadFile
<1> DEFINE row == [save[s] EXCEPT !.pc = "loaded", !.path = p, !.content = c, !.loaded = LastCommit(b, p)]
<1>2. save[s] \in SaveRow /\ SaveFits(s) /\ save[s].pc = "new"
  BY DEF IInv, SavesFit, ReadFile, At
<1>3. LastCommit(b, p) \in Nat /\ LastCommit(b, p) <= Len(commits)
  BY FilesFit DEF IInv
<1>4. row \in SaveRow /\ save' = [save EXCEPT ![s] = row] /\ save'[s] = row
      /\ row.pc = "loaded" /\ row.loaded = LastCommit(b, p) /\ row.answer = save[s].answer
      /\ row.commit = save[s].commit /\ row.mr = save[s].mr /\ row.head = save[s].head
  BY <1>1, <1>2, <1>3 DEF SaveRow, SaveSteps, IInv, SavesFit
<1> HIDE DEF row
<1>5. UNCHANGED <<repoVars, testsPath>>
  BY DEF ReadFile
<1>6. SaveFits(s)'
  BY <1>2, <1>3, <1>4, <1>5 DEF SaveFits, repoVars, Commits
<1> QED BY <1>2, <1>4, <1>5, <1>6, OutsideMove DEF MrSteps, SaveFits

LEMMA GetBranchIsQuiet ==
  ASSUME IInv, NEW s \in Saves, GetBranch(s)
  PROVE  Quiet(s)
<1>1. save[s] \in SaveRow /\ SaveFits(s) /\ save[s].pc = "loaded" /\ UNCHANGED <<repoVars, testsPath>>
  BY DEF IInv, SavesFit, GetBranch, At
<1>2. CASE End(s, "refused")
  BY <1>1, <1>2, EndIsQuiet DEF Answers
<1>3. CASE save' = [save EXCEPT ![s].pc = "head", ![s].exists = Exists("work")]
  <2> DEFINE row == [save[s] EXCEPT !.pc = "head", !.exists = Exists("work")]
  <2>1. Exists("work") \in BOOLEAN
    BY DEF Exists
  <2>2. row \in SaveRow /\ save' = [save EXCEPT ![s] = row] /\ save'[s] = row
        /\ row.pc = "head" /\ row.exists = Exists("work") /\ row.loaded = save[s].loaded
        /\ row.answer = save[s].answer /\ row.commit = save[s].commit /\ row.mr = save[s].mr
        /\ row.head = save[s].head
    BY <1>1, <1>3, <2>1 DEF SaveRow, SaveSteps, IInv, SavesFit
  <2> HIDE DEF row
  <2>3. SaveFits(s)'
    BY <1>1, <2>2 DEF SaveFits, repoVars, Commits, Exists
  <2> QED BY <1>1, <2>2, <2>3, OutsideMove DEF MrSteps, SaveFits
<1> QED BY <1>2, <1>3 DEF GetBranch

\* A branch that shows the file otherwise than it was loaded has a commit of somebody else's.
LEMMA MovedByOthers ==
  ASSUME IInv, NEW s \in Saves, NEW b \in Branches,
         save[s].pc \in {"head", "commit", "retry"}, heads[b] # 0,
         LastCommit(b, save[s].path) # save[s].loaded
  PROVE  OthersMoved(s)
<1>1. heads[b] \in Commits
  BY DEF IInv, RepoFits, Commits
<1>2. commits[heads[b]].by # s
  BY <1>1 DEF IInv, SavesFit, SaveFits
<1> QED BY <1>1, <1>2 DEF OthersMoved, LastCommit

\* The comparison that everything rests on.
LEMMA HeadFileIsQuiet ==
  ASSUME IInv, NEW s \in Saves, HeadFile(s)
  PROVE  Quiet(s)
<1> DEFINE head == LastCommit(Base(s), save[s].path)
           step == IF head = NoFile THEN "commit" ELSE "utf8"
           row == [save[s] EXCEPT !.head = head, !.pc = step]
<1>1. save[s] \in SaveRow /\ SaveFits(s) /\ save[s].pc = "head" /\ UNCHANGED <<repoVars, testsPath>>
  BY DEF IInv, SavesFit, HeadFile, At
<1>2. Base(s) \in Branches /\ save[s].path \in Paths
  BY <1>1 DEF Base, Branches, SaveRow
<1>3. head \in Nat /\ head <= Len(commits)
  BY <1>2, FilesFit DEF IInv
<1>4. head # save[s].loaded => OthersMoved(s)
  <2>1. heads["main"] # 0
    BY DEF IInv, RepoFits
  <2>2. CASE heads[Base(s)] = 0
    BY <1>1, <2>1, <2>2 DEF SaveFits, Base, Exists, OthersMoved
  <2>3. CASE heads[Base(s)] # 0
    BY <1>1, <1>2, <2>3, MovedByOthers
  <2> QED BY <2>2, <2>3
<1>5. CASE End(s, "refused")
  BY <1>1, <1>5, EndIsQuiet DEF Answers
<1>6. CASE head # NoFile /\ save[s].loaded = NoFile /\ End(s, "exists")
  BY <1>1, <1>4, <1>6, EndIsQuiet DEF Answers
<1>7. CASE head # save[s].loaded /\ End(s, "stale")
  BY <1>1, <1>4, <1>7, EndIsQuiet DEF Answers
<1>8. CASE head = save[s].loaded /\ save' = [save EXCEPT ![s].head = head, ![s].pc = step]
  <2>1. step \in {"commit", "utf8"} /\ step \in SaveSteps
    BY DEF SaveSteps
  <2> HIDE DEF head, step
  <2>2. row \in SaveRow /\ save' = [save EXCEPT ![s] = row] /\ save'[s] = row
        /\ row.pc = step /\ row.head = head /\ row.loaded = save[s].loaded
        /\ row.answer = save[s].answer /\ row.commit = save[s].commit /\ row.mr = save[s].mr
        /\ row.exists = save[s].exists
    BY <1>1, <1>3, <1>8, <2>1 DEF SaveRow, IInv, SavesFit
  <2> HIDE DEF row
  <2>3. SaveFits(s)'
    <3>1. \A c \in Commits' : commits'[c].by # s
      BY <1>1 DEF SaveFits, repoVars, Commits
    <3>2. save[s].exists => Exists("work")' \/ SomeMerged'
      BY <1>1 DEF SaveFits, repoVars, Exists, SomeMerged
    <3> QED BY <1>1, <1>3, <1>8, <2>1, <2>2, <3>1, <3>2 DEF SaveFits, repoVars
  <2> QED BY <1>1, <2>1, <2>2, <2>3, OutsideMove DEF MrSteps, SaveFits
<1> QED BY <1>5, <1>6, <1>7, <1>8 DEF HeadFile

\* From one check to the next: the file is still to be what was loaded.
LEMMA GotoIsQuiet ==
  ASSUME IInv, NEW s \in Saves, UNCHANGED <<repoVars, testsPath>>,
         \/ At(s, "utf8") /\ Goto(s, "commit")
         \/ At(s, "commit") /\ Goto(s, "retry")
  PROVE  Quiet(s)
<1>1. PICK step \in {"commit", "retry"} : Goto(s, step) /\ save[s].pc \in {"utf8", "commit"}
  BY DEF At
<1> DEFINE row == [save[s] EXCEPT !.pc = step]
<1>2. save[s] \in SaveRow /\ SaveFits(s)
  BY DEF IInv, SavesFit
<1>3. row \in SaveRow /\ save' = [save EXCEPT ![s] = row] /\ save'[s] = row
      /\ row.pc = step /\ row.head = save[s].head /\ row.loaded = save[s].loaded
      /\ row.answer = save[s].answer /\ row.commit = save[s].commit /\ row.mr = save[s].mr
      /\ row.exists = save[s].exists
  BY <1>1, <1>2 DEF SaveRow, SaveSteps, Goto, IInv, SavesFit
<1> HIDE DEF row
<1>4. SaveFits(s)'
  BY <1>1, <1>2, <1>3 DEF SaveFits, repoVars, Commits, Exists, SomeMerged
<1> QED BY <1>1, <1>2, <1>3, <1>4, OutsideMove DEF MrSteps, SaveFits

\* The commit of a save: what was there is what its tester loaded, and only his file changes.
Lands(s) ==
  LET start == IF heads["work"] # 0 THEN "work" ELSE "main"
  IN /\ Step(s)
     /\ LastCommit(start, save[s].path) = save[s].loaded
     /\ \A p \in Paths \ {save[s].path} : commits'[heads'["work"]].files[p] = LastCommit(start, p)

\* Entering the merge request's part, where everybody there is no longer alone.
LEMMA LandedFits ==
  ASSUME IInv, NEW s \in Saves, At(s, "commit") \/ At(s, "retry"), Landed(s),
         RepoFits', Grown(s), TextsKept, Len(commits') = Len(commits) + 1
  PROVE  Step(s)
<1> DEFINE others == {t \in Saves \ {s} : save[t].pc \in MrSteps}
           new == Len(commits) + 1
           row == [save[s] EXCEPT !.pc = "list", !.commit = new, !.alone = others = {}]
<1>1. save[s] \in SaveRow /\ SaveFits(s) /\ save[s].pc \in {"commit", "retry"} /\ Len(commits) \in Nat
  BY DEF IInv, SavesFit, At, RepoFits
<1>2. save' = [t \in Saves |->
         IF t = s THEN row ELSE IF t \in others THEN [save[t] EXCEPT !.alone = FALSE] ELSE save[t]]
  BY DEF Landed
<1>3. (others = {}) \in BOOLEAN
  OBVIOUS
<1>15. new \in Nat /\ new = Len(commits) + 1
  BY <1>1
<1> HIDE DEF new
<1>4. row \in SaveRow /\ row.pc = "list" /\ row.commit = new /\ row.alone = (others = {})
      /\ row.head = save[s].head /\ row.loaded = save[s].loaded
      /\ row.answer = save[s].answer /\ row.mr = save[s].mr
  BY <1>1, <1>3, <1>15 DEF SaveRow, SaveSteps, MrSteps
<1>5. \A t \in Saves \ {s} : t \in others <=> save[t].pc \in MrSteps
  OBVIOUS
<1> HIDE DEF row, others
<1>6. save'[s] = row
  BY <1>2
<1>7. ASSUME NEW t \in Saves \ {s}
      PROVE  /\ save'[t] \in {save[t], [save[t] EXCEPT !.alone = FALSE]}
             /\ t \in others => save'[t] = [save[t] EXCEPT !.alone = FALSE]
  BY <1>2
<1>8. SaveFits(s)'
  <2>1. Len(commits') \in Nat /\ Len(mrs') \in Nat /\ Len(mrs) <= Len(mrs')
    BY DEF RepoFits, Grown
  <2>2. save[s].mr = 0 /\ save[s].head \in Nat /\ save[s].loaded \in Nat
        /\ save[s].head <= Len(commits) /\ save[s].loaded <= Len(commits)
    BY <1>1 DEF SaveFits, SaveRow
  <2> QED BY <1>1, <1>4, <1>6, <1>15, <2>1, <2>2 DEF SaveFits
<1>9. SavesFit'
  <2>1. ASSUME NEW t \in Saves PROVE save'[t] \in SaveRow /\ SaveFits(t)'
    <3>1. Len(commits') \in Nat /\ Len(mrs') \in Nat
      BY DEF RepoFits
    <3>2. CASE t # s
      BY <1>7, <3>1, <3>2, Survives DEF IInv, SavesFit
    <3> QED BY <1>4, <1>6, <1>8, <3>2
  <2> QED BY <1>2, <2>1 DEF SavesFit
<1>10. ASSUME NEW t \in Saves \ {s}
       PROVE  /\ save'[t].pc = save[t].pc /\ save'[t].path = save[t].path
              /\ save'[t].content = save[t].content /\ save'[t].answer = save[t].answer
              /\ save'[t].mr = save[t].mr /\ save'[t].files = save[t].files
              /\ save'[t].codes = save[t].codes /\ save'[t].commit = save[t].commit
              /\ save'[t].alone => save[t].alone /\ t \notin others
  <2>1. save[t] \in SaveRow
    BY DEF IInv, SavesFit
  <2>2. save'[t].alone => t \notin others
    BY <1>7, <2>1 DEF SaveRow
  <2> QED BY <1>7, <2>1, <2>2 DEF SaveRow
<1>11. AloneFits'
  <2>1. \A t \in Saves \ {s} : save[t].pc \in MrSteps => ~save'[t].alone /\ ~row.alone
    BY <1>4, <1>5, <1>10
  <2> QED BY <1>6, <1>10, <2>1 DEF IInv, DescriptionsFit, AloneFits
<1>12. ASSUME NEW t \in Saves, Named(t)' PROVE t # s /\ Named(t) /\ save[t].mr \in DOMAIN mrs
  <2>1. t # s
    BY <1>1, <1>4, <1>6, <1>12 DEF Named, SaveFits
  <2>2. Named(t)
    BY <1>10, <1>12, <2>1 DEF Named
  <2>3. save[t].mr \in Nat /\ save[t].mr # 0 /\ save[t].mr <= Len(mrs) /\ Len(mrs) \in Nat
    BY <2>2 DEF IInv, SavesFit, SaveFits, SaveRow, Named, RepoFits
  <2> QED BY <2>1, <2>2, <2>3 DEF IInv, RepoFits
<1>13. ReadersFit'
  BY <1>4, <1>6, <1>10, <1>12 DEF IInv, DescriptionsFit, ReadersFit
<1>14. MergeRequestNamesEdits'
  BY <1>10, <1>12 DEF IInv, DescriptionsFit, MergeRequestNamesEdits, Named, TextsKept
<1> QED BY <1>9, <1>10, <1>11, <1>13, <1>14 DEF Step, DescriptionsFit

LEMMA CommitOnceLands ==
  ASSUME IInv, NEW s \in Saves, NEW fromMain \in BOOLEAN, CommitOnce(s, fromMain), UNCHANGED testsPath,
         At(s, "commit") \/ At(s, "retry")
  PROVE  Lands(s)
<1> DEFINE from == IF fromMain THEN "main" ELSE "work"
           start == IF heads["work"] # 0 THEN "work" ELSE "main"
<1>1. /\ save[s] \in SaveRow /\ SaveFits(s) /\ save[s].pc \in {"commit", "retry"}
      /\ save[s].path \in Paths /\ save[s].content \in Contents
      /\ save[s].head = save[s].loaded
  BY DEF IInv, SavesFit, SaveFits, SaveRow, At
<1>2. /\ CommitVerdict(fromMain, save[s].path, save[s].head) = "ok"
      /\ Land("work", from, save[s].path, save[s].content, s)
      /\ UNCHANGED mrs
  BY DEF CommitOnce, Verdict
<1>3. /\ ~(fromMain /\ Exists("work")) /\ ~(~fromMain /\ ~Exists("work"))
      /\ LastCommit(from, save[s].path) = save[s].head
  <2>1. fromMain = Exists("work") => FALSE
    BY <1>2 DEF CommitVerdict, Exists
  <2>2. LastCommit(from, save[s].path) = save[s].head
    BY <1>2 DEF CommitVerdict, Exists
  <2> QED BY <2>1, <2>2 DEF Exists
<1>4. from = start
  BY <1>3 DEF Exists
<1>5. /\ RepoFits' /\ Grown(s) /\ TextsKept /\ Len(commits') = Len(commits) + 1
      /\ \A q \in Paths \ {save[s].path} : commits'[heads'["work"]].files[q] = LastCommit(from, q)
  BY <1>1, <1>2, LandFits DEF IInv, Branches
<1>6. CASE Landed(s)
  BY <1>1, <1>3, <1>4, <1>5, <1>6, LandedFits DEF Lands
<1>7. CASE save' = [save EXCEPT ![s].pc = "done", ![s].answer = "error", ![s].commit = Len(commits) + 1]
  <2> DEFINE new == Len(commits) + 1
             row == [save[s] EXCEPT !.pc = "done", !.answer = "error", !.commit = new]
  <2>1. Len(commits) \in Nat /\ Len(mrs) \in Nat /\ new \in Nat /\ new = Len(commits) + 1
    BY DEF IInv, RepoFits
  <2> HIDE DEF new
  <2>2. /\ row \in SaveRow
        /\ row.pc = "done" /\ row.answer = "error" /\ row.commit = new
        /\ row.head = save[s].head /\ row.loaded = save[s].loaded /\ row.mr = save[s].mr
    BY <1>1, <2>1 DEF SaveRow, SaveSteps, Answers
  <2>6. save' = [save EXCEPT ![s] = row] /\ save'[s] = row
    BY <1>7, <2>1 DEF IInv, SavesFit
  <2> HIDE DEF row
  <2>3. SaveFits(s)'
    <3>1. save[s].mr = 0 /\ save[s].head \in Nat /\ save[s].loaded \in Nat
          /\ save[s].head <= Len(commits) /\ save[s].loaded <= Len(commits)
      BY <1>1 DEF SaveFits, SaveRow
    <3> QED BY <1>2, <1>5, <2>1, <2>2, <2>6, <3>1 DEF SaveFits
  <2>4. SavesFit' /\ \A t \in Saves \ {s} : save'[t] = save[t]
    BY <1>5, <2>2, <2>6, <2>3, OneSave DEF IInv
  <2>5. DescriptionsFit'
    BY <1>5, <2>2, <2>6, OutsideDescriptions DEF IInv, MrSteps
  <2> QED BY <1>1, <1>3, <1>4, <1>5, <2>4, <2>5 DEF Lands, Step
<1> QED BY <1>6, <1>7 DEF CommitOnce

LEMMA CommitSteps ==
  ASSUME IInv, NEW s \in Saves, Commit(s) \/ Retry(s)
  PROVE  Lands(s) \/ Quiet(s)
<1>1. (At(s, "commit") \/ At(s, "retry")) /\ UNCHANGED testsPath /\ save[s] \in SaveRow /\ SaveFits(s)
  BY DEF Commit, Retry, IInv, SavesFit
<1>2. CASE \E fromMain \in BOOLEAN : CommitOnce(s, fromMain)
  BY <1>1, <1>2, CommitOnceLands
<1>3. CASE At(s, "commit") /\ Goto(s, "retry") /\ UNCHANGED repoVars
  BY <1>1, <1>3, GotoIsQuiet
<1>4. ASSUME NEW fromMain \in BOOLEAN, Verdict(s, fromMain) # "ok", UNCHANGED repoVars,
             ~(fromMain /\ Verdict(s, fromMain) = "branch already exists"),
             End(s, ToSaveConflict(Verdict(s, fromMain), IsUpdate(s)))
      PROVE  Quiet(s)
  <2> DEFINE from == IF fromMain THEN "main" ELSE "work"
             verdict == Verdict(s, fromMain)
             answer == ToSaveConflict(verdict, IsUpdate(s))
  <2>1. answer \in {"exists", "stale", "error"}
    BY DEF ToSaveConflict
  <2>2. answer \in {"exists", "stale"} => heads[from] # 0 /\ LastCommit(from, save[s].path) # save[s].loaded
    <3>1. save[s].head = save[s].loaded /\ heads["main"] # 0 /\ save[s].path \in Paths
      BY <1>1 DEF IInv, RepoFits, SaveFits, SaveRow, At
    <3>2. answer \in {"exists", "stale"} =>
            verdict \in {"file already exists", "file has changed since", "file doesn't exist"}
      BY <1>4 DEF ToSaveConflict, Verdict, CommitVerdict
    <3>3. verdict = CommitVerdict(fromMain, save[s].path, save[s].head)
      BY DEF Verdict
    <3> HIDE DEF verdict, answer
    <3>4. ~fromMain /\ ~Exists("work") => verdict = "no branch"
      BY <3>3 DEF CommitVerdict, Exists
    <3>5. LastCommit(from, save[s].path) = save[s].head =>
            verdict \in {"branch already exists", "no branch", "ok"}
      BY <3>3 DEF CommitVerdict
    <3> QED BY <3>1, <3>2, <3>4, <3>5 DEF Exists
  <2>3. answer \in {"exists", "stale"} => OthersMoved(s)
    BY <1>1, <2>2, MovedByOthers DEF At, Branches
  <2> QED BY <1>1, <1>4, <2>1, <2>3, EndIsQuiet DEF At, Answers
<1> QED BY <1>2, <1>3, <1>4 DEF Commit, Retry

(* The merge request *)

\* A merge request that a save is answered with exists.
LEMMA NamedExist ==
  ASSUME IInv, NEW t \in Saves, Named(t)
  PROVE  save[t].mr \in DOMAIN mrs /\ save[t].pc = "done"
<1>1. save[t].mr \in Nat /\ save[t].mr # 0 /\ save[t].mr <= Len(mrs) /\ Len(mrs) \in Nat
  BY DEF IInv, SavesFit, SaveFits, SaveRow, Named, RepoFits
<1> QED BY <1>1 DEF IInv, SavesFit, SaveFits, RepoFits, Named

LEMMA OpenFits ==
  ASSUME IInv, NEW i \in OpenMrs
  PROVE  i \in DOMAIN mrs /\ i \in Nat /\ i # 0 /\ i <= Len(mrs) /\ mrs[i] \in GitlabMergeRequest
BY DEF IInv, RepoFits, OpenMrs

\* Looking a merge request up reads what it says of every save answered with it.
LEMMA LookIsQuiet ==
  ASSUME IInv, NEW s \in Saves, save[s].pc \in {"list", "create", "relist"}, UNCHANGED <<repoVars, testsPath>>,
         \/ \E i \in OpenMrs : SeeOpen(s, i)
         \/ \E step \in {"create", "relist"} : Goto(s, step)
  PROVE  Quiet(s)
<1>1. save[s] \in SaveRow /\ SaveFits(s) /\ save[s].answer = "none" /\ save[s].mr = 0
  BY DEF IInv, SavesFit, SaveFits
<1>2. PICK row \in SaveRow :
        /\ save' = [save EXCEPT ![s] = row]
        /\ row.pc \in {"update", "create", "relist"} /\ row.loaded = save[s].loaded
        /\ row.head = save[s].head /\ row.commit = save[s].commit /\ row.answer = "none"
        /\ row.alone = save[s].alone
        /\ IF row.pc = "update"
             THEN row.mr \in DOMAIN mrs /\ row.mr <= Len(mrs)
                  /\ row.files = mrs[row.mr].files /\ row.codes = mrs[row.mr].codes
             ELSE row.mr = 0
  <2>1. ASSUME NEW step \in {"create", "relist"}, Goto(s, step)
        PROVE  LET row == [save[s] EXCEPT !.pc = step]
               IN row \in SaveRow /\ save' = [save EXCEPT ![s] = row] /\ row.pc = step
    BY <1>1, <2>1 DEF SaveRow, SaveSteps, MrSteps, Goto, IInv, SavesFit
  <2>2. ASSUME NEW i \in OpenMrs, SeeOpen(s, i)
        PROVE  LET row == [save[s] EXCEPT !.pc = "update", !.mr = i, !.files = mrs[i].files,
                                          !.codes = mrs[i].codes]
               IN row \in SaveRow /\ save' = [save EXCEPT ![s] = row]
    <3>1. i \in Nat /\ mrs[i].files \in SUBSET Paths /\ mrs[i].codes \in SUBSET AllCodes
      BY OpenFits DEF GitlabMergeRequest
    <3> QED BY <1>1, <2>2, <3>1 DEF SaveRow, SaveSteps, MrSteps, SeeOpen, IInv, SavesFit
  <2>3. CASE \E i \in OpenMrs : SeeOpen(s, i)
    <3>1. PICK i \in OpenMrs : SeeOpen(s, i)
      BY <2>3
    <3> DEFINE row == [save[s] EXCEPT !.pc = "update", !.mr = i, !.files = mrs[i].files,
                                      !.codes = mrs[i].codes]
    <3>2. row \in SaveRow /\ save' = [save EXCEPT ![s] = row]
      BY <2>2, <3>1
    <3>3. /\ row.pc = "update" /\ row.loaded = save[s].loaded
          /\ row.head = save[s].head /\ row.commit = save[s].commit /\ row.answer = "none"
          /\ row.alone = save[s].alone /\ row.mr = i
          /\ row.files = mrs[i].files /\ row.codes = mrs[i].codes
      BY <1>1 DEF SaveRow
    <3> HIDE DEF row
    <3> QED BY <3>2, <3>3, OpenFits
  <2>4. CASE \E step \in {"create", "relist"} : Goto(s, step)
    <3>1. PICK step \in {"create", "relist"} : Goto(s, step)
      BY <2>4
    <3> DEFINE row == [save[s] EXCEPT !.pc = step]
    <3>2. row \in SaveRow /\ save' = [save EXCEPT ![s] = row] /\ row.pc = step
      BY <2>1, <3>1
    <3>3. /\ row.loaded = save[s].loaded
          /\ row.head = save[s].head /\ row.commit = save[s].commit /\ row.answer = "none"
          /\ row.alone = save[s].alone /\ row.mr = 0
      BY <1>1 DEF SaveRow
    <3> HIDE DEF row
    <3> QED BY <3>2, <3>3
  <2> QED BY <2>3, <2>4
<1>3. RepoFits' /\ TextsKept /\ Grown(s)
  BY QuietRepo DEF IInv, RepoFits
<1>4. save'[s] = row /\ SaveFits(s)'
  <2>1. save'[s] = row
    BY <1>2 DEF IInv, SavesFit
  <2>2. Len(mrs) \in Nat
    BY DEF IInv, RepoFits
  <2> QED BY <1>1, <1>2, <2>1, <2>2 DEF SaveFits, repoVars
<1>5. SavesFit' /\ \A t \in Saves \ {s} : save'[t] = save[t]
  BY <1>2, <1>3, <1>4, OneSave DEF IInv
<1>6. AloneFits'
  <2>1. row.pc \in MrSteps /\ save[s].pc \in MrSteps
    BY <1>2 DEF MrSteps
  <2> QED BY <1>2, <1>4, <1>5, <2>1 DEF IInv, DescriptionsFit, AloneFits
<1>7. ASSUME NEW t \in Saves, Named(t)'
      PROVE  t # s /\ Named(t) /\ save[t].mr \in DOMAIN mrs
  <2>1. t # s /\ Named(t)
    BY <1>2, <1>4, <1>5, <1>7 DEF Named
  <2> QED BY <2>1, NamedExist
<1>8. ReadersFit'
  <2>1. ASSUME NEW t \in Saves, Named(t)', row.pc = "update", save[t].mr = row.mr
        PROVE  save[t].path \in row.files /\ save[t].content.codes \subseteq row.codes
    BY <1>2, <1>7, <2>1 DEF IInv, DescriptionsFit, MergeRequestNamesEdits, Named
  <2> QED BY <1>4, <1>5, <1>7, <2>1 DEF IInv, DescriptionsFit, ReadersFit
<1>9. MergeRequestNamesEdits'
  BY <1>4, <1>5, <1>7 DEF IInv, DescriptionsFit, MergeRequestNamesEdits, Named, repoVars
<1> QED BY <1>2, <1>3, <1>4, <1>5, <1>6, <1>8, <1>9 DEF Quiet, Step, DescriptionsFit

\* A save answered with merge request i, which names it and goes on naming the others: whoever is
\* about to write to i now is not alone with it.
LEMMA AnsweredFits ==
  ASSUME IInv, NEW s \in Saves, save[s].pc \in {"update", "create"},
         NEW i \in Nat \ {0}, NEW row \in SaveRow, row = [save[s] EXCEPT !.pc = "done", !.answer = "ok", !.mr = i],
         save' = [save EXCEPT ![s] = row],
         UNCHANGED <<commits, heads, testsPath>>, mrs' \in Seq(GitlabMergeRequest),
         i <= Len(mrs'), Len(mrs) <= Len(mrs'), SomeMerged => SomeMerged',
         save[s].path \in mrs'[i].files, save[s].content.codes \subseteq mrs'[i].codes,
         \A t \in Saves : Named(t) =>
           save[t].path \in mrs'[save[t].mr].files /\ save[t].content.codes \subseteq mrs'[save[t].mr].codes
  PROVE  Quiet(s)
<1>1. save[s] \in SaveRow /\ SaveFits(s) /\ save[s].pc \in MrSteps
  BY DEF IInv, SavesFit, MrSteps
<1>2. /\ row.pc = "done" /\ row.answer = "ok" /\ row.mr = i /\ row.alone = save[s].alone
      /\ row.path = save[s].path /\ row.content = save[s].content /\ row.loaded = save[s].loaded
      /\ row.head = save[s].head /\ row.commit = save[s].commit
  BY <1>1 DEF SaveRow
<1>3. RepoFits' /\ Grown(s)
  BY DEF IInv, RepoFits, Grown, Commits, Exists
<1>4. save'[s] = row
  BY DEF IInv, SavesFit
<1>5. SaveFits(s)'
  BY <1>1, <1>2, <1>4 DEF SaveFits
<1>6. SavesFit' /\ \A t \in Saves \ {s} : save'[t] = save[t]
  BY <1>3, <1>5, OneSave DEF IInv
<1>7. AloneFits'
  BY <1>2, <1>4, <1>6 DEF IInv, DescriptionsFit, AloneFits, MrSteps
<1>8. ReadersFit'
  <2> SUFFICES ASSUME NEW u \in Saves, NEW t \in Saves, save'[u].pc = "update", Named(t)',
                      save'[t].mr = save'[u].mr
               PROVE  save'[t].path \in save'[u].files /\ save'[t].content.codes \subseteq save'[u].codes
    BY DEF ReadersFit
  <2>1. u # s /\ save'[u] = save[u]
    BY <1>2, <1>4, <1>6
  <2>2. t # s
    BY <1>1, <1>2, <1>4, <2>1 DEF Named, IInv, DescriptionsFit, AloneFits, MrSteps
  <2>3. save'[t] = save[t]
    BY <1>6, <2>2
  <2> QED BY <2>1, <2>3 DEF IInv, DescriptionsFit, ReadersFit, Named
<1>9. MergeRequestNamesEdits'
  <2> SUFFICES ASSUME NEW t \in Saves, Named(t)'
               PROVE  save'[t].path \in mrs'[save'[t].mr].files
                      /\ save'[t].content.codes \subseteq mrs'[save'[t].mr].codes
    BY DEF MergeRequestNamesEdits, Named
  <2>1. CASE t = s
    <3>1. save'[s].path = save[s].path /\ save'[s].content = save[s].content /\ save'[s].mr = i
      BY <1>2, <1>4
    <3> QED BY <2>1, <3>1
  <2>2. CASE t # s
    <3>1. save'[t] = save[t]
      BY <1>6, <2>2
    <3>2. Named(t)
      BY <3>1 DEF Named
    <3> QED BY <3>1, <3>2
  <2> QED BY <2>1, <2>2
<1> QED BY <1>2, <1>3, <1>4, <1>6, <1>7, <1>8, <1>9 DEF Quiet, Step, DescriptionsFit

LEMMA UpdateMrIsQuiet ==
  ASSUME IInv, NEW s \in Saves, UpdateMr(s)
  PROVE  Quiet(s)
<1> DEFINE i == save[s].mr
           text == Description(s, save[s].files, save[s].codes)
           row == [save[s] EXCEPT !.pc = "done", !.answer = "ok", !.mr = i]
<1>1. /\ save[s] \in SaveRow /\ SaveFits(s) /\ save[s].pc = "update"
      /\ mrs' = [mrs EXCEPT ![i].files = text.files, ![i].codes = text.codes]
      /\ End(s, "ok") /\ UNCHANGED <<commits, heads, testsPath>>
  BY DEF IInv, SavesFit, UpdateMr, At
<1>2. i \in DOMAIN mrs /\ i \in Nat \ {0} /\ i <= Len(mrs) /\ mrs[i] \in GitlabMergeRequest
  BY <1>1 DEF IInv, RepoFits, SaveFits
<1>3. /\ save[s].path \in Paths /\ save[s].content \in Contents
      /\ save[s].files \in SUBSET Paths /\ save[s].codes \in SUBSET AllCodes
  BY <1>1 DEF SaveRow
<1>4. /\ text.files = save[s].files \cup {save[s].path} /\ text.codes = save[s].codes \cup save[s].content.codes
      /\ text.files \in SUBSET Paths /\ text.codes \in SUBSET AllCodes
  BY <1>3 DEF Description, AllCodes
<1>5. row \in SaveRow /\ save' = [save EXCEPT ![s] = row]
  BY <1>1, <1>2 DEF SaveRow, SaveSteps, Answers, End, IInv, SavesFit
<1> HIDE DEF i, text
<1>6. /\ mrs' \in Seq(GitlabMergeRequest) /\ Len(mrs') = Len(mrs)
      /\ mrs'[i].files = text.files /\ mrs'[i].codes = text.codes /\ mrs'[i].state = mrs[i].state
      /\ \A j \in DOMAIN mrs \ {i} : mrs'[j] = mrs[j]
  <2>1. [mrs[i] EXCEPT !.files = text.files, !.codes = text.codes] \in GitlabMergeRequest
    BY <1>2, <1>4 DEF GitlabMergeRequest
  <2>2. mrs' = [mrs EXCEPT ![i] = [mrs[i] EXCEPT !.files = text.files, !.codes = text.codes]]
    BY <1>1, <1>2 DEF IInv, RepoFits
  <2>3. mrs \in Seq(GitlabMergeRequest)
    BY DEF IInv, RepoFits
  <2> DEFINE m == [mrs[i] EXCEPT !.files = text.files, !.codes = text.codes]
  <2>4. m.files = text.files /\ m.codes = text.codes /\ m.state = mrs[i].state
    BY <1>2 DEF GitlabMergeRequest
  <2>5. m \in GitlabMergeRequest /\ mrs' = [mrs EXCEPT ![i] = m]
    BY <2>1, <2>2
  <2> HIDE DEF m
  <2>6. mrs' \in Seq(GitlabMergeRequest) /\ Len(mrs') = Len(mrs)
    BY <1>2, <2>3, <2>5
  <2>7. mrs'[i] = m /\ \A j \in DOMAIN mrs \ {i} : mrs'[j] = mrs[j]
    BY <1>2, <2>3, <2>5
  <2> QED BY <2>4, <2>6, <2>7
<1>7. SomeMerged => SomeMerged'
  <2>1. DOMAIN mrs' = DOMAIN mrs
    BY <1>6 DEF IInv, RepoFits
  <2> QED BY <1>2, <1>6, <2>1 DEF SomeMerged
<1>8. ASSUME NEW t \in Saves, Named(t)
      PROVE  save[t].path \in mrs'[save[t].mr].files /\ save[t].content.codes \subseteq mrs'[save[t].mr].codes
  <2>1. save[t].mr \in DOMAIN mrs
    BY <1>8, NamedExist
  <2>2. CASE save[t].mr = i
    BY <1>1, <1>4, <1>6, <1>8, <2>2 DEF IInv, DescriptionsFit, ReadersFit, i
  <2>3. CASE save[t].mr # i
    BY <1>6, <1>8, <2>1, <2>3 DEF IInv, DescriptionsFit, MergeRequestNamesEdits, Named
  <2> QED BY <2>2, <2>3
<1>9. Len(mrs) \in Nat
  BY DEF IInv, RepoFits
<1>10. i <= Len(mrs') /\ Len(mrs) <= Len(mrs') /\ save[s].path \in mrs'[i].files
       /\ save[s].content.codes \subseteq mrs'[i].codes
  BY <1>2, <1>4, <1>6, <1>9
<1>11. row = [save[s] EXCEPT !.pc = "done", !.answer = "ok", !.mr = i]
  OBVIOUS
<1> HIDE DEF row
<1> QED BY <1>1, <1>2, <1>5, <1>6, <1>7, <1>8, <1>10, <1>11, AnsweredFits

LEMMA CreateMrIsQuiet ==
  ASSUME IInv, NEW s \in Saves, CreateMr(s)
  PROVE  Quiet(s)
<1> DEFINE i == Len(mrs) + 1
           text == Description(s, {}, {})
           row == [save[s] EXCEPT !.pc = "done", !.answer = "ok", !.mr = i]
<1>1. /\ save[s] \in SaveRow /\ SaveFits(s) /\ save[s].pc = "create"
      /\ UNCHANGED <<commits, heads, testsPath>>
  BY DEF IInv, SavesFit, CreateMr, At
<1>2. CASE Goto(s, "relist") /\ UNCHANGED mrs
  BY <1>1, <1>2, LookIsQuiet DEF repoVars
<1>3. CASE End(s, "ok") /\ UNCHANGED mrs
  BY <1>1, <1>3, EndIsQuiet DEF SaveFits, repoVars, Answers
<1>4. CASE /\ CreateMergeRequest(text)
           /\ save' = [save EXCEPT ![s].pc = "done", ![s].answer = "ok", ![s].mr = i]
  <2> DEFINE mr == [state |-> "opened", files |-> text.files, codes |-> text.codes]
  <2>1. save[s].path \in Paths /\ save[s].content \in Contents
    BY <1>1 DEF SaveRow
  <2>2. /\ text.files = {save[s].path} /\ text.codes = save[s].content.codes
        /\ text.files \in SUBSET Paths /\ text.codes \in SUBSET AllCodes
    BY <2>1 DEF Description, AllCodes
  <2>3. i \in Nat \ {0} /\ Len(mrs) \in Nat /\ i = Len(mrs) + 1
    BY DEF IInv, RepoFits
  <2> HIDE DEF i
  <2>4. row \in SaveRow /\ save' = [save EXCEPT ![s] = row]
    BY <1>1, <1>4, <2>3 DEF SaveRow, SaveSteps, Answers, IInv, SavesFit
  <2> HIDE DEF text
  <2>5. mr \in GitlabMergeRequest /\ mr.files = text.files /\ mr.codes = text.codes
    BY <2>2 DEF GitlabMergeRequest
  <2>6. mrs' = Append(mrs, mr)
    BY <1>4 DEF CreateMergeRequest
  <2> HIDE DEF mr
  <2>7. /\ mrs' \in Seq(GitlabMergeRequest) /\ Len(mrs') = i /\ mrs'[i] = mr
        /\ \A j \in DOMAIN mrs : j \in DOMAIN mrs' /\ mrs'[j] = mrs[j]
    BY <2>3, <2>5, <2>6 DEF IInv, RepoFits
  <2>8. SomeMerged => SomeMerged'
    BY <2>7 DEF SomeMerged
  <2>9. ASSUME NEW t \in Saves, Named(t)
        PROVE  save[t].path \in mrs'[save[t].mr].files /\ save[t].content.codes \subseteq mrs'[save[t].mr].codes
    BY <2>7, <2>9, NamedExist DEF IInv, DescriptionsFit, MergeRequestNamesEdits, Named
  <2>10. i <= Len(mrs') /\ Len(mrs) <= Len(mrs') /\ save[s].path \in mrs'[i].files
         /\ save[s].content.codes \subseteq mrs'[i].codes
    BY <2>2, <2>3, <2>5, <2>7
  <2>11. row = [save[s] EXCEPT !.pc = "done", !.answer = "ok", !.mr = i]
    OBVIOUS
  <2> HIDE DEF row
  <2> QED BY <1>1, <2>3, <2>4, <2>7, <2>8, <2>9, <2>10, <2>11, AnsweredFits
<1> QED BY <1>2, <1>3, <1>4 DEF CreateMr

LEMMA MrStepIsQuiet ==
  ASSUME IInv, NEW s \in Saves, ListOpen(s) \/ Relist(s) \/ CallFails(s)
  PROVE  Quiet(s)
<1>1. save[s] \in SaveRow /\ SaveFits(s) /\ UNCHANGED <<repoVars, testsPath>>
  BY DEF IInv, SavesFit, ListOpen, Relist, CallFails
<1>2. CASE save[s].pc \in {"list", "relist"} /\ \E i \in OpenMrs : SeeOpen(s, i)
  BY <1>1, <1>2, LookIsQuiet
<1>3. CASE save[s].pc = "list" /\ Goto(s, "create")
  BY <1>1, <1>3, LookIsQuiet
<1>4. CASE save[s].pc = "relist" /\ End(s, "ok")
  BY <1>1, <1>4, EndIsQuiet DEF SaveFits, Answers
<1>5. CASE save[s].pc \in {"loaded", "head", "utf8", "commit", "retry"} /\ End(s, "error")
  BY <1>1, <1>5, EndIsQuiet DEF Answers
<1>6. CASE /\ save[s].pc \in MrSteps
           /\ save' = [save EXCEPT ![s].pc = "done", ![s].answer = "ok", ![s].mr = 0]
  <2> DEFINE row == [save[s] EXCEPT !.pc = "done", !.answer = "ok", !.mr = 0]
  <2>1. row \in SaveRow /\ save' = [save EXCEPT ![s] = row] /\ save'[s] = row
        /\ row.pc = "done" /\ row.answer = "ok" /\ row.mr = 0 /\ row.loaded = save[s].loaded
        /\ row.head = save[s].head /\ row.commit = save[s].commit
    BY <1>1, <1>6 DEF SaveRow, SaveSteps, Answers, IInv, SavesFit
  <2> HIDE DEF row
  <2>2. Len(mrs) \in Nat
    BY DEF IInv, RepoFits
  <2>3. SaveFits(s)'
    BY <1>1, <2>1, <2>2 DEF SaveFits, repoVars
  <2> QED BY <1>1, <2>1, <2>3, OutsideMove DEF MrSteps
<1> QED BY <1>2, <1>3, <1>4, <1>5, <1>6 DEF ListOpen, Relist, CallFails, At

------------------------------------------------------------------------------
\* What the repository and the scans do leaves every save as it is.
LEMMA OthersStep ==
  ASSUME IInv, UNCHANGED save, RepoFits', Grown(People), TextsKept
  PROVE  SavesFit' /\ DescriptionsFit'
<1>1. ASSUME NEW t \in Saves PROVE SaveFits(t)'
  <2>1. Len(commits') \in Nat /\ Len(mrs') \in Nat
    BY DEF RepoFits
  <2>2. t # People
    BY GitlabRepoAssumption
  <2> QED BY <2>1, <2>2, Survives DEF IInv, SavesFit
<1>2. SavesFit'
  BY <1>1 DEF IInv, SavesFit
<1>3. ASSUME NEW t \in Saves, Named(t)' PROVE Named(t) /\ save[t].mr \in DOMAIN mrs
  BY <1>3, NamedExist DEF Named
<1>4. MergeRequestNamesEdits'
  BY <1>3 DEF IInv, DescriptionsFit, MergeRequestNamesEdits, Named, TextsKept
<1>5. AloneFits' /\ ReadersFit'
  BY DEF IInv, DescriptionsFit, AloneFits, ReadersFit, Named
<1> QED BY <1>2, <1>4, <1>5 DEF DescriptionsFit

\* Every step lands one commit of one save, or none, on a history that only grows.
LEMMA StepsLandSafely ==
  ASSUME IInv, [Next]_vars
  PROVE  /\ IInv' /\ \E author : Grown(author)
         /\ \/ \E s \in Saves : Lands(s)
            \/ \A t \in Saves : save'[t].commit = save[t].commit
<1>1. ASSUME NEW s \in Saves, StartSave(s) \/ SaveStep(s) \/ CallFails(s)
      PROVE  Lands(s) \/ Quiet(s)
  <2>1. CASE StartSave(s)
    BY <2>1, ReadFileIsQuiet DEF StartSave
  <2>2. CASE GetFile(s)
    <3>1. save[s].pc = "utf8" /\ UNCHANGED <<repoVars, testsPath>>
      BY <2>2 DEF GetFile, At
    <3>2. CASE End(s, "refused")
      BY <3>1, <3>2, EndIsQuiet DEF Answers
    <3>3. CASE Goto(s, "commit")
      BY <3>1, <3>3, GotoIsQuiet DEF At
    <3> QED BY <2>2, <3>2, <3>3 DEF GetFile
  <2> QED BY <1>1, <2>1, <2>2, GetBranchIsQuiet, HeadFileIsQuiet, CommitSteps, UpdateMrIsQuiet,
             CreateMrIsQuiet, MrStepIsQuiet DEF SaveStep
<1>2. CASE /\ UNCHANGED save
           /\ (RepoNext /\ UNCHANGED testsPath) \/ (UNCHANGED repoVars /\ testsPath' \in TestsPaths)
  <2>1. RepoFits' /\ Grown(People) /\ TextsKept
    BY <1>2, RepoNextFits, QuietRepo DEF IInv
  <2> QED BY <1>2, <2>1, OthersStep DEF IInv
<1>3. testsPath \in TestsPaths
  BY DEF IInv, RepoFits
<1>4. UNCHANGED vars \/ Relink \/ (\E c \in Cases \ approved : Approve(c)) =>
        UNCHANGED save /\ UNCHANGED repoVars /\ testsPath' \in TestsPaths
  BY <1>3 DEF vars, saveVars, Relink, Approve
<1>5. ASSUME NEW r \in Scans, StartScan(r) \/ ScanStep(r) \/ ScanFails(r)
      PROVE  UNCHANGED repoVars /\ UNCHANGED testsPath
  BY <1>5 DEF StartScan, ScanStep, ScanFails, Start, ListTree, Cover, ScanHead, ScanGet
<1>6. CASE \E s \in Saves : StartSave(s) \/ SaveStep(s) \/ CallFails(s)
  BY <1>1, <1>6 DEF Lands, Quiet, Step, IInv
<1> QED BY <1>2, <1>3, <1>4, <1>5, <1>6 DEF Next, saveVars

LEMMA Invariance == Spec => []IInv
<1>1. IInv /\ [Next]_vars => IInv'
  BY StepsLandSafely
<1> QED BY <1>1, InitIInv, PTL DEF Spec

\* A save replaces nothing its tester has not seen, for any number of saves, pushes and merges in any
\* order, also when it lost the race to create the branch and commits a second time (saveFile).
THEOREM NoUnseenOverwrite == Spec => NothingOverwrittenUnseen
<1>1. ASSUME IInv, [Next]_vars, NEW s \in Saves, save'[s].commit # save[s].commit
      PROVE  Lands(s)
  BY <1>1, StepsLandSafely DEF Lands, Step
<1>2. IInv /\ [Next]_vars =>
        [\A s \in Saves : save'[s].commit # save[s].commit =>
           LET start == IF heads["work"] # 0 THEN "work" ELSE "main"
           IN /\ LastCommit(start, save[s].path) = save[s].loaded
              /\ \A p \in Paths \ {save[s].path} :
                   commits'[heads'["work"]].files[p] = LastCommit(start, p)]_<<repoVars, save>>
  BY <1>1 DEF Lands
<1> QED BY <1>2, Invariance, PTL DEF Spec, NothingOverwrittenUnseen

\* A refusal as a conflict is never caused by the save itself or by a lost race to create the branch:
\* somebody else's commit shows the file otherwise, or a merge removed the branch (toSaveConflict).
THEOREM ConflictsAreOthers == Spec => []ConflictOnlyWithOthers
<1>1. IInv => ConflictOnlyWithOthers
  BY DEF IInv, SavesFit, SaveFits, ConflictOnlyWithOthers, OthersMoved, SomeMerged
<1> QED BY <1>1, Invariance, PTL

\* The merge request a save is answered with names what it edited, and goes on doing so through every
\* later update of the description, unless two saves were there at once (openOrUpdateMergeRequest).
THEOREM AnswersStayNamed == Spec => []MergeRequestNamesEdits
<1>1. IInv => MergeRequestNamesEdits
  BY DEF IInv, DescriptionsFit
<1> QED BY <1>1, Invariance, PTL
==============================================================================
