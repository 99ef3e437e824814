------------------------------- MODULE FileSaves -------------------------------
(***************************************************************************)
(* AutomationService.readFile and saveFile: a tester opens a test file,    *)
(* edits it and saves it to a work branch, one GitLab call per step.  All  *)
(* saves use the same work branch (same user and work name, several tabs). *)
(***************************************************************************)
EXTENDS GitlabRepo

VARIABLES save      \* save[s]: where the request is and what it has read

saveVars == <<save>>

MrSteps == {"list", "update", "create", "relist"}
SaveSteps == {"new", "loaded", "head", "utf8", "commit", "retry", "done"} \cup MrSteps
Answers == {"none", "ok", "exists", "stale", "refused", "error"}

Blank == [pc |-> "new", path |-> CHOOSE p \in Paths : TRUE, content |-> CHOOSE c \in Contents : TRUE,
          loaded |-> NoFile, exists |-> FALSE, head |-> NoFile, commit |-> 0, mr |-> 0,
          files |-> {}, codes |-> {}, alone |-> TRUE, answer |-> "none"]

SaveInit == save = [s \in Saves |-> Blank]

SaveTypeOK ==
  save \in [Saves -> [pc : SaveSteps, path : Paths, content : Contents, exists : BOOLEAN,
                     loaded : 0 .. Len(commits), head : 0 .. Len(commits),
                     commit : 0 .. Len(commits), mr : 0 .. Len(mrs),
                     files : SUBSET Paths, codes : SUBSET AllCodes,
                     alone : BOOLEAN, answer : Answers]]

At(s, step) == save[s].pc = step
Goto(s, step) == save' = [save EXCEPT ![s].pc = step]
End(s, answer) == save' = [save EXCEPT ![s].pc = "done", ![s].answer = answer]

Base(s) == IF save[s].exists THEN "work" ELSE "main"
IsUpdate(s) == save[s].head # NoFile

\* The tester opens a file on some branch (or names a new one) and edits it: the editor keeps the
\* lastCommitId that came with the content, which the HEAD before it only had to allow.
ReadFile(s, p, b) ==
  /\ At(s, "new")
  /\ p \in testsPath
  /\ \E c \in {d \in Contents : d.kind = "text"} :
       save' = [save EXCEPT ![s].pc = "loaded", ![s].path = p, ![s].content = c,
                            ![s].loaded = LastCommit(b, p)]
  /\ UNCHANGED <<repoVars, testsPath>>

GetBranch(s) ==
  /\ At(s, "loaded")
  /\ IF save[s].path \in testsPath
       THEN save' = [save EXCEPT ![s].pc = "head", ![s].exists = Exists("work")]
       ELSE End(s, "refused")
  /\ UNCHANGED <<repoVars, testsPath>>

HeadFile(s) ==
  LET head == LastCommit(Base(s), save[s].path)
      loaded == save[s].loaded
  IN /\ At(s, "head")
     /\ IF Kind(head) = "large" THEN End(s, "refused")
        ELSE IF head # NoFile /\ loaded = NoFile THEN End(s, "exists")
        ELSE IF head # loaded THEN End(s, "stale")
        ELSE save' = [save EXCEPT ![s].head = head,
                                  ![s].pc = IF head = NoFile THEN "commit" ELSE "utf8"]
     /\ UNCHANGED <<repoVars, testsPath>>

\* The bytes are read again only for their encoding; a file gone by now is left to the commit.
GetFile(s) ==
  LET current == LastCommit(Base(s), save[s].path)
  IN /\ At(s, "utf8")
     /\ IF Kind(current) = "binary" THEN End(s, "refused") ELSE Goto(s, "commit")
     /\ UNCHANGED <<repoVars, testsPath>>

ToSaveConflict(verdict, isUpdate) ==
  IF ~isUpdate /\ verdict \in {"branch already exists", "file already exists"} THEN "exists"
  ELSE IF isUpdate /\ verdict \in {"file has changed since", "file doesn't exist"} THEN "stale"
  ELSE "error"

\* Mutant of Verdict: the commit is sent without last_commit_id.
VerdictUnguarded(s, fromMain) ==
  CommitVerdict(fromMain, save[s].path,
                IF IsUpdate(s) THEN LastCommit(IF fromMain THEN "main" ELSE "work", save[s].path) ELSE NoFile)
Verdict(s, fromMain) == CommitVerdict(fromMain, save[s].path, save[s].head)

\* Entering the merge request's part; alone: no other save is in it at the same time.
Landed(s) ==
  LET others == {t \in Saves \ {s} : save[t].pc \in MrSteps}
  IN save' = [t \in Saves |->
       IF t = s THEN [save[s] EXCEPT !.pc = "list", !.commit = Len(commits) + 1, !.alone = others = {}]
       ELSE IF t \in others THEN [save[t] EXCEPT !.alone = FALSE] ELSE save[t]]

CommitOnce(s, fromMain) ==
  /\ Verdict(s, fromMain) = "ok"
  /\ Land("work", IF fromMain THEN "main" ELSE "work", save[s].path, save[s].content, s)
  /\ \/ Landed(s)
     \/ save' = [save EXCEPT ![s].pc = "done", ![s].answer = "error",     \* the answer is lost
                             ![s].commit = Len(commits) + 1]
  /\ UNCHANGED mrs

\* Mutant of Commit: a lost race to create the branch is not tried again.
CommitWithoutRetry(s) ==
  LET fromMain == ~save[s].exists
      verdict == Verdict(s, fromMain)
  IN /\ At(s, "commit")
     /\ \/ CommitOnce(s, fromMain)
        \/ verdict # "ok" /\ End(s, ToSaveConflict(verdict, IsUpdate(s))) /\ UNCHANGED repoVars
     /\ UNCHANGED testsPath

Commit(s) ==
  LET fromMain == ~save[s].exists
      verdict == Verdict(s, fromMain)
  IN /\ At(s, "commit")
     /\ \/ CommitOnce(s, fromMain)
        \/ fromMain /\ verdict = "branch already exists" /\ Goto(s, "retry") /\ UNCHANGED repoVars
        \/ /\ verdict # "ok" /\ ~(fromMain /\ verdict = "branch already exists")
           /\ End(s, ToSaveConflict(verdict, IsUpdate(s))) /\ UNCHANGED repoVars
     /\ UNCHANGED testsPath

\* Another first save created the branch: the same commit again, without start_branch.
Retry(s) ==
  /\ At(s, "retry")
  /\ \/ CommitOnce(s, FALSE)
     \/ /\ Verdict(s, FALSE) # "ok"
        /\ End(s, ToSaveConflict(Verdict(s, FALSE), IsUpdate(s))) /\ UNCHANGED repoVars
  /\ UNCHANGED testsPath

-------------------------------------------------------------------------------
\* openOrUpdateMergeRequest: the commit has landed, so whatever fails from here on, the save succeeds.
\* Mutant of Description: it names this save's file and cases only.
DescriptionOfThisSave(s, files, codes) == [files |-> {save[s].path}, codes |-> save[s].content.codes]
Description(s, files, codes) ==
  [files |-> files \cup {save[s].path}, codes |-> codes \cup save[s].content.codes]

SeeOpen(s, i) ==
  save' = [save EXCEPT ![s].pc = "update", ![s].mr = i,
                       ![s].files = mrs[i].files, ![s].codes = mrs[i].codes]

ListOpen(s) ==
  /\ At(s, "list")
  /\ \/ \E i \in OpenMrs : SeeOpen(s, i)
     \/ OpenMrs = {} /\ Goto(s, "create")
  /\ UNCHANGED <<repoVars, testsPath>>

UpdateMr(s) ==
  LET i == save[s].mr
      text == Description(s, save[s].files, save[s].codes)
  IN /\ At(s, "update")
     /\ mrs' = [mrs EXCEPT ![i].files = text.files, ![i].codes = text.codes]
     /\ End(s, "ok")
     /\ UNCHANGED <<commits, heads, testsPath>>

\* POST /merge_requests, whose source branch goes away when it is merged.
CreateMergeRequest(text) ==
  mrs' = Append(mrs, [state |-> "opened", files |-> text.files, codes |-> text.codes])

CreateMr(s) ==
  LET text == Description(s, {}, {})
  IN /\ At(s, "create")
     /\ \/ OpenMrs # {} /\ Goto(s, "relist") /\ UNCHANGED mrs          \* 409
        \/ OpenMrs = {} /\ ~Exists("work") /\ End(s, "ok") /\ UNCHANGED mrs
        \/ /\ OpenMrs = {} /\ Exists("work")
           /\ CreateMergeRequest(text)
           /\ save' = [save EXCEPT ![s].pc = "done", ![s].answer = "ok", ![s].mr = Len(mrs) + 1]
     /\ UNCHANGED <<commits, heads, testsPath>>

\* Somebody opened one between the list and the create: reuse theirs.
Relist(s) ==
  /\ At(s, "relist")
  /\ \/ \E i \in OpenMrs : SeeOpen(s, i)
     \/ OpenMrs = {} /\ End(s, "ok")
  /\ UNCHANGED <<repoVars, testsPath>>

\* A GitLab call fails: before the commit the save fails with it, afterwards it only has no merge
\* request to name.
CallFails(s) ==
  /\ \/ save[s].pc \in {"loaded", "head", "utf8", "commit", "retry"} /\ End(s, "error")
     \/ /\ save[s].pc \in MrSteps
        /\ save' = [save EXCEPT ![s].pc = "done", ![s].answer = "ok", ![s].mr = 0]
  /\ UNCHANGED <<repoVars, testsPath>>

SaveStep(s) ==
  \/ GetBranch(s) \/ HeadFile(s) \/ GetFile(s) \/ Commit(s) \/ Retry(s)
  \/ ListOpen(s) \/ UpdateMr(s) \/ CreateMr(s) \/ Relist(s)

-------------------------------------------------------------------------------
\* A save replaces nothing its tester has not seen: when its commit lands on the work branch, the
\* file there was last changed by the very commit the tester loaded (or is new, as he believed),
\* whatever was pushed, merged or saved since, and also when the branch was created meanwhile and
\* the commit is sent a second time.
NothingOverwrittenUnseen ==
  [][\A s \in Saves : save'[s].commit # save[s].commit =>
       LET start == IF heads["work"] # 0 THEN "work" ELSE "main"
       IN /\ LastCommit(start, save[s].path) = save[s].loaded
          /\ \A p \in Paths \ {save[s].path} : commits'[heads'["work"]].files[p] = LastCommit(start, p)]_
    <<repoVars, save>>

\* A save is refused as a conflict only when a commit of somebody else shows its file otherwise than
\* the tester loaded it, or when the work branch went away with a merge: losing the race to create the
\* branch, to a save of another file, is not a conflict, although GitLab words its refusal like that
\* of an existing file (toSaveConflict).
ConflictOnlyWithOthers ==
  \A s \in Saves : save[s].answer \in {"exists", "stale"} =>
    \/ \E c \in Commits : commits[c].by # s /\ FilesAt(c)[save[s].path] # save[s].loaded
    \/ \E i \in DOMAIN mrs : mrs[i].state = "merged"

\* The merge request a save is answered with names the file it edited and the cases it tags, and
\* goes on naming them through later saves, unless two saves were in this part at the same time.
MergeRequestNamesEdits ==
  \A s \in Saves : save[s].answer = "ok" /\ save[s].mr # 0 /\ save[s].alone =>
    save[s].path \in mrs[save[s].mr].files /\ save[s].content.codes \subseteq mrs[save[s].mr].codes
===============================================================================
