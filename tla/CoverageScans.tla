----------------------------- MODULE CoverageScans -----------------------------
(***************************************************************************)
(* CoverageService.coverage: which test files tag which cases, scanned     *)
(* commit by commit by a small pool of workers (mapWithConcurrency) and    *)
(* kept in CoverageCache, which all requests share.                        *)
(***************************************************************************)
EXTENDS GitlabRepo, SequencesExt

CONSTANTS
  Scans,         \* coverage requests
  Workers,       \* 1 .. MAX_CONCURRENT_SCANS
  MaxEntries,    \* CoverageCache.maxEntries
  Cases          \* case codes the project may have

VARIABLES
  approved,      \* the codes of the approved cases
  cache,         \* CoverageCache.entries in insertion order: sequence of [key, scan]
  scan           \* scan[r]: the request

scanVars == <<cache, scan>>

ASSUME CoverageScansAssumption ==
  /\ MaxEntries \in Nat \ {0}
  /\ IsFiniteSet(Workers) /\ Workers # {} /\ Workers = 1 .. Cardinality(Workers)

NoScan == [found |-> {}, skipped |-> {}]
Idle == [index |-> 0, step |-> "idle"]
Unanswered == [covered |-> {}, notAutomated |-> {}, skipped |-> {}]

ScanInit ==
  /\ approved = {}
  /\ cache = <<>>
  /\ scan = [r \in Scans |-> [pc |-> "new", commit |-> 0, tests |-> {}, files |-> <<>>, next |-> 1,
                              slots |-> [w \in Workers |-> Idle], result |-> NoScan,
                              answer |-> Unanswered]]

ScanResults == [found : SUBSET (Paths \X Commits), skipped : SUBSET Paths]
ScanTypeOK ==
  /\ approved \subseteq Cases
  /\ \A i \in DOMAIN cache : cache[i].key \in Commits \X TestsPaths /\ cache[i].scan \in ScanResults
  /\ \A r \in Scans :
       /\ scan[r].pc \in {"new", "tree", "scan", "cases", "answered", "failed"}
       /\ scan[r].result \in ScanResults /\ scan[r].next \in 1 .. Len(scan[r].files) + 1
       /\ \A w \in Workers : scan[r].slots[w].index \in 0 .. Len(scan[r].files)

Key(commit, tests) == <<commit, tests>>

\* CoverageCache: a Map keeps its insertion order; get moves an entry to the end, set appends a new
\* key, and beyond maxEntries the first entry goes.
Cached(key) == {i \in DOMAIN cache : cache[i].key = key}
Touched(i) == Append(RemoveAt(cache, i), cache[i])
Stored(key, result) ==
  IF Cached(key) # {}
  THEN [i \in DOMAIN cache |-> IF i \in Cached(key) THEN [key |-> key, scan |-> result] ELSE cache[i]]
  ELSE LET longer == Append(cache, [key |-> key, scan |-> result])
       IN IF Len(longer) > MaxEntries THEN Tail(longer) ELSE longer

\* requireLinked, getBranch and the cache's answer for the commit the branch is at.
Start(r, b) ==
  LET key == Key(heads[b], testsPath)
      asked == [scan[r] EXCEPT !.commit = heads[b], !.tests = testsPath]
  IN /\ scan[r].pc = "new"
     /\ \/ /\ ~Exists(b)
           /\ scan' = [scan EXCEPT ![r].pc = "failed"]
           /\ UNCHANGED cache
        \/ /\ Exists(b)
           /\ \E i \in Cached(key) :
                /\ cache' = Touched(i)
                /\ scan' = [scan EXCEPT ![r] = [asked EXCEPT !.pc = "cases", !.result = cache[i].scan]]
        \/ /\ Exists(b) /\ Cached(key) = {}
           /\ scan' = [scan EXCEPT ![r] = [asked EXCEPT !.pc = "tree"]]
           /\ UNCHANGED cache
     /\ UNCHANGED <<repoVars, testsPath, approved>>

\* The pool is done when every worker has returned; then, in the same turn, the scan is cached.
Settle(r, state) ==
  IF \A w \in Workers : state.slots[w] = Idle
  THEN /\ scan' = [scan EXCEPT ![r] = [state EXCEPT !.pc = "cases"]]
       /\ cache' = Stored(Key(state.commit, state.tests), state.result)
  ELSE scan' = [scan EXCEPT ![r] = state] /\ UNCHANGED cache

ListTree(r) ==
  LET tree == FilesAt(scan[r].commit)
      files == SetToSeq({p \in scan[r].tests : tree[p] # NoFile})
  IN /\ scan[r].pc = "tree"
     /\ Settle(r, [scan[r] EXCEPT !.pc = "scan", !.files = files,
          !.slots = [w \in Workers |-> IF w <= Len(files) THEN [index |-> w, step |-> "head"] ELSE Idle],
          !.next = IF Len(files) < Cardinality(Workers) THEN Len(files) + 1 ELSE Cardinality(Workers) + 1])
     /\ UNCHANGED <<repoVars, testsPath, approved>>

\* Mutant of Claim: the worker claims one file too many.
ClaimPastEnd(r, w, result) ==
  LET next == scan[r].next
      more == next <= Len(scan[r].files) + 1
  IN Settle(r, [scan[r] EXCEPT !.result = result,
                  !.slots[w] = IF more THEN [index |-> next, step |-> "head"] ELSE Idle,
                  !.next = IF more THEN next + 1 ELSE next])

\* A worker has its file's result and claims the next file, all in one turn of the event loop.
Claim(r, w, result) ==
  LET next == scan[r].next
      more == next <= Len(scan[r].files)
  IN Settle(r, [scan[r] EXCEPT !.result = result,
                  !.slots[w] = IF more THEN [index |-> next, step |-> "head"] ELSE Idle,
                  !.next = IF more THEN next + 1 ELSE next])

FileOf(r, w) == scan[r].files[scan[r].slots[w].index]
\* Mutant of ContentAt: the files are read from the branch, not from the commit that was listed.
ContentAtBranch(r, p) == FilesAt(heads["main"])[p]
ContentAt(r, p) == FilesAt(scan[r].commit)[p]

ScanHead(r, w) ==
  LET p == FileOf(r, w)
  IN /\ scan[r].pc = "scan" /\ scan[r].slots[w].step = "head"
     /\ IF Kind(ContentAt(r, p)) = "large"
          THEN Claim(r, w, [scan[r].result EXCEPT !.skipped = @ \cup {p}])
          ELSE scan' = [scan EXCEPT ![r].slots[w].step = "get"] /\ UNCHANGED cache
     /\ UNCHANGED <<repoVars, testsPath, approved>>

ScanGet(r, w) ==
  LET p == FileOf(r, w)
  IN /\ scan[r].pc = "scan" /\ scan[r].slots[w].step = "get"
     /\ Claim(r, w, [scan[r].result EXCEPT !.found = @ \cup {<<p, ContentAt(r, p)>>}])
     /\ UNCHANGED <<repoVars, testsPath, approved>>

\* The first failing call rejects the pool; the calls in flight end unobserved and nothing is cached.
ScanFails(r) ==
  /\ scan[r].pc \in {"tree", "scan"}
  /\ scan' = [scan EXCEPT ![r].pc = "failed", ![r].slots = [w \in Workers |-> Idle]]
  /\ UNCHANGED <<repoVars, testsPath, approved, cache>>

\* computeCoverage over the cases that are approved by now.
Cover(r) ==
  LET tagged == UNION {Codes(file[2]) : file \in scan[r].result.found}
  IN /\ scan[r].pc = "cases"
     /\ scan' = [scan EXCEPT ![r].pc = "answered",
          ![r].answer = [covered |-> approved \cap tagged, notAutomated |-> approved \ tagged,
                         skipped |-> scan[r].result.skipped]]
     /\ UNCHANGED <<repoVars, testsPath, approved, cache>>

ScanStep(r) ==
  ListTree(r) \/ Cover(r) \/ \E w \in Workers : ScanHead(r, w) \/ ScanGet(r, w)

-------------------------------------------------------------------------------
ScanOf(key) ==
  LET files == {p \in key[2] : FilesAt(key[1])[p] # NoFile}
      large == {p \in files : Kind(FilesAt(key[1])[p]) = "large"}
  IN [found |-> {<<p, FilesAt(key[1])[p]>> : p \in files \ large}, skipped |-> large]

\* Coverage belongs to the commit and the tests folder it is answered for, however the branch, the
\* project and the cache moved on while it was scanned: every cached scan is the whole scan of its
\* own key, each key is cached once and within the limit, and an answer splits the approved cases
\* by the tags of exactly that scan.
CoverageIsOfItsCommit ==
  /\ \A i \in DOMAIN cache : cache[i].scan = ScanOf(cache[i].key)
  /\ \A i, j \in DOMAIN cache : cache[i].key = cache[j].key => i = j
  /\ Len(cache) <= MaxEntries
  /\ \A r \in Scans : scan[r].pc = "answered" =>
       LET of == ScanOf(<<scan[r].commit, scan[r].tests>>)
           tags == UNION {Codes(file[2]) : file \in of.found}
       IN /\ scan[r].answer.skipped = of.skipped
          /\ scan[r].answer.covered \subseteq tags
          /\ scan[r].answer.notAutomated \cap tags = {}
===============================================================================
