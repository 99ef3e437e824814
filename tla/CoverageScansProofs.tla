-------------------------- MODULE CoverageScansProofs --------------------------
(***************************************************************************)
(* CoverageScans within AutomationFiles, proved for every number of        *)
(* requests, workers, files and cache entries: what is answered and what   *)
(* is cached is the whole scan of its own commit and tests folder.         *)
(* The branch, the folder and the cache move on while a pool of workers    *)
(* goes through the files it listed; PoolFits says what the pool has done  *)
(* and what it still owes.  A commit never changes (Grown), so neither     *)
(* does the scan that belongs to it (ScanKept).                            *)
(***************************************************************************)
EXTENDS AutomationFilesProofs, FiniteSetTheorems

Slot == [index : Nat, step : {"idle", "head", "get"}]
ScanResult == [found : SUBSET (Paths \X Nat), skipped : SUBSET Paths]
ScanRow == [pc : {"new", "tree", "scan", "cases", "answered", "failed"}, commit : Nat, tests : SUBSET Paths,
            files : Seq(Paths), next : Nat \ {0}, slots : [Workers -> Slot], result : ScanResult,
            answer : [covered : SUBSET Cases, notAutomated : SUBSET Cases, skipped : SUBSET Paths]]

KeyOf(q) == <<q.commit, q.tests>>
Listed(q) == {p \in q.tests : FilesAt(q.commit)[p] # NoFile}
Large(q, p) == Kind(FilesAt(q.commit)[p]) = "large"
\* The request q has the result of its i-th file.
Has(q, i) ==
  LET p == q.files[i]
  IN IF Large(q, p) THEN p \in q.result.skipped ELSE <<p, FilesAt(q.commit)[p]>> \in q.result.found

\* The pool of a request: every file before next is a worker's or has its result, no worker rests
\* while there is a file to claim, and nothing but the commit's own files is in the result.
PoolFits(q) ==
  /\ {q.files[i] : i \in DOMAIN q.files} = Listed(q)
  /\ \A w \in Workers : \/ q.slots[w] = Idle
                        \/ /\ q.slots[w].index \in 1 .. q.next - 1
                           /\ q.slots[w].step = "get" => ~Large(q, q.files[q.slots[w].index])
  /\ q.next <= Len(q.files) => \A w \in Workers : q.slots[w] # Idle
  /\ \A i \in 1 .. q.next - 1 : Has(q, i) \/ \E w \in Workers : q.slots[w].index = i
  /\ q.result.found \subseteq ScanOf(KeyOf(q)).found /\ q.result.skipped \subseteq ScanOf(KeyOf(q)).skipped

TagsOf(q) == UNION {Codes(file[2]) : file \in ScanOf(KeyOf(q)).found}

RowFits(q) ==
  /\ q \in ScanRow
  /\ q.next <= Len(q.files) + 1
  /\ \A w \in Workers : q.slots[w].index <= Len(q.files)
  /\ q.result.found \subseteq Paths \X Commits
  /\ q.pc \in {"tree", "scan", "cases", "answered"} => KeyOf(q) \in Commits \X TestsPaths
  /\ q.pc \in {"new", "tree"} => q.result = NoScan
  /\ q.pc = "scan" => PoolFits(q)
  /\ q.pc = "cases" => q.result = ScanOf(KeyOf(q))
  /\ q.pc = "answered" => /\ q.answer.skipped = ScanOf(KeyOf(q)).skipped
                          /\ q.answer.covered \subseteq TagsOf(q)
                          /\ q.answer.notAutomated \cap TagsOf(q) = {}

Entry == [key : Nat \X SUBSET Paths, scan : ScanResult]
\* A cache of whole scans, each key once and within the limit.
CacheFits(c) ==
  /\ c \in Seq(Entry) /\ Len(c) <= MaxEntries
  /\ \A i \in 1 .. Len(c) : c[i].key \in Commits \X TestsPaths /\ c[i].scan = ScanOf(c[i].key)
  /\ \A i, j \in 1 .. Len(c) : c[i].key = c[j].key => i = j

ScansFit ==
  /\ approved \subseteq Cases
  /\ CacheFits(cache)
  /\ DOMAIN scan = Scans /\ \A r \in Scans : RowFits(scan[r])

LEMMA InitScansFit == Init => ScansFit
<1> SUFFICES ASSUME Init PROVE ScansFit
  OBVIOUS
<1>1. MaxEntries \in Nat \ {0}
  BY CoverageScansAssumption
<1>2. CacheFits(cache)
  BY <1>1 DEF Init, ScanInit, CacheFits
<1> DEFINE q == [pc |-> "new", commit |-> 0, tests |-> {}, files |-> <<>>, next |-> 1,
                 slots |-> [w \in Workers |-> Idle], result |-> NoScan, answer |-> Unanswered]
<1>3. q \in ScanRow
  BY DEF ScanRow, ScanResult, Slot, Idle, NoScan, Unanswered
<1>4. RowFits(q)
  BY <1>3 DEF RowFits, Idle, NoScan
<1> HIDE DEF q
<1>5. scan = [r \in Scans |-> q]
  BY DEF Init, ScanInit, q
<1> QED BY <1>2, <1>4, <1>5 DEF ScansFit, Init, ScanInit

------------------------------------------------------------------------------
(* A commit's scan *)

LEMMA CommitFits ==
  ASSUME RepoFits, NEW c \in Commits
  PROVE  /\ FilesAt(c) = commits[c].files /\ FilesAt(c) \in [Paths -> Nat]
         /\ \A p \in Paths : FilesAt(c)[p] = NoFile \/ FilesAt(c)[p] \in Commits
<1>1. commits[c] \in CommitRow /\ c \in Nat /\ c # 0 /\ Len(commits) \in Nat
  BY DEF RepoFits, Commits
<1>2. FilesAt(c) = commits[c].files /\ FilesAt(c) \in [Paths -> Nat]
  BY <1>1 DEF FilesAt, CommitRow
<1>3. \A p \in Paths : FilesAt(c)[p] <= Len(commits)
  BY <1>2 DEF RepoFits
<1> QED BY <1>1, <1>2, <1>3 DEF NoFile, Commits

\* What a scan finds are files of its folder and commits that wrote them.
LEMMA ScanOfFits ==
  ASSUME RepoFits, NEW key \in Commits \X TestsPaths
  PROVE  /\ ScanOf(key) \in ScanResult
         /\ ScanOf(key).found \subseteq Paths \X Commits
         /\ ScanOf(key).skipped \subseteq Paths
         /\ key \in Nat \X SUBSET Paths
<1>1. /\ key[1] \in Commits /\ key[1] \in Nat /\ key[2] \subseteq Paths
      /\ key = <<key[1], key[2]>>
  BY GitlabRepoAssumption DEF Commits
<1>2. \A p \in Paths : FilesAt(key[1])[p] = NoFile \/ FilesAt(key[1])[p] \in Commits
  BY <1>1, CommitFits
<1>3. Commits \subseteq Nat
  BY DEF Commits
<1>4. ScanOf(key).found \subseteq Paths \X Commits /\ ScanOf(key).skipped \subseteq Paths
  BY <1>1, <1>2 DEF ScanOf
<1>5. ScanOf(key).found \subseteq Paths \X Nat
  BY <1>3, <1>4
<1>6. ScanOf(key) = [found |-> ScanOf(key).found, skipped |-> ScanOf(key).skipped]
  BY DEF ScanOf
<1> QED BY <1>1, <1>3, <1>4, <1>5, <1>6 DEF ScanResult

\* A history that grows shows every commit as it was.
LEMMA FilesKept ==
  ASSUME RepoFits, NEW author, Grown(author), Len(commits') \in Nat
  PROVE  /\ Commits \subseteq Commits'
         /\ \A c \in Commits : FilesAt(c)' = FilesAt(c) /\ Codes(c)' = Codes(c)
         /\ \A c \in Commits \cup {NoFile} : Kind(c)' = Kind(c)
<1>1. Commits \subseteq Commits' /\ 0 \notin Commits
  BY DEF RepoFits, Grown, Commits
<1>2. \A c \in Commits : commits'[c] = commits[c]
  BY DEF Grown
<1> QED BY <1>1, <1>2 DEF FilesAt, Codes, Kind, NoFile

LEMMA ScanKept ==
  ASSUME RepoFits, NEW author, Grown(author), Len(commits') \in Nat,
         NEW key \in Commits \X TestsPaths
  PROVE  ScanOf(key)' = ScanOf(key) /\ key \in Commits' \X TestsPaths
<1>1. key[1] \in Commits /\ key[2] \subseteq Paths /\ key \in Commits' \X TestsPaths
  BY FilesKept, GitlabRepoAssumption
<1>2. FilesAt(key[1])' = FilesAt(key[1])
  BY <1>1, FilesKept
<1>3. \A p \in key[2] : Kind(FilesAt(key[1])[p])' = Kind(FilesAt(key[1])[p])
  <2> SUFFICES ASSUME NEW p \in key[2] PROVE Kind(FilesAt(key[1])[p])' = Kind(FilesAt(key[1])[p])
    OBVIOUS
  <2> DEFINE c == FilesAt(key[1])[p]
  <2>1. c \in Commits \cup {NoFile}
    BY <1>1, CommitFits
  <2>2. Kind(c)' = Kind(c) /\ c' = c
    BY <1>2, <2>1, FilesKept
  <2> QED BY <2>2
<1> QED BY <1>1, <1>2, <1>3 DEF ScanOf

\* A request and a cache fit a history that has grown since.
LEMMA RowSurvives ==
  ASSUME RepoFits, RepoFits', NEW author, Grown(author), NEW q, RowFits(q)
  PROVE  RowFits(q)'
<1>1. Commits \subseteq Commits' /\ Len(commits') \in Nat
  BY FilesKept DEF RepoFits
<1>2. q \in ScanRow
  BY DEF RowFits
<1>3. CASE KeyOf(q) \notin Commits \X TestsPaths
  <2>1. q.pc \in {"new", "failed"}
    BY <1>2, <1>3 DEF RowFits, ScanRow
  <2>2. q.pc = "new" => q.result = NoScan
    BY DEF RowFits
  <2>3. q.result.found \subseteq Paths \X Commits'
    BY <1>1 DEF RowFits
  <2> QED BY <1>2, <2>1, <2>2, <2>3 DEF RowFits
<1>4. CASE KeyOf(q) \in Commits \X TestsPaths
  <2>1. ScanOf(KeyOf(q))' = ScanOf(KeyOf(q)) /\ KeyOf(q) \in Commits' \X TestsPaths
    BY <1>1, <1>4, ScanKept
  <2>2. q.commit \in Commits /\ q.tests \in TestsPaths
    BY <1>4 DEF KeyOf
  <2>3. FilesAt(q.commit)' = FilesAt(q.commit)
    BY <1>1, <2>2, FilesKept
  <2>4. \A p \in Paths : Large(q, p)' = Large(q, p)
    <3> SUFFICES ASSUME NEW p \in Paths PROVE Large(q, p)' = Large(q, p)
      OBVIOUS
    <3> DEFINE c == FilesAt(q.commit)[p]
    <3>1. c \in Commits \cup {NoFile}
      BY <2>2, CommitFits
    <3>2. Kind(c)' = Kind(c)
      BY <1>1, <2>3, <3>1, FilesKept
    <3> QED BY <3>2 DEF Large
  <2>5. TagsOf(q)' = TagsOf(q)
    <3>1. \A file \in ScanOf(KeyOf(q)).found : file[2] \in Commits
      BY <1>4, ScanOfFits
    <3>2. \A file \in ScanOf(KeyOf(q)).found : Codes(file[2])' = Codes(file[2])
      BY <1>1, <3>1, FilesKept
    <3> QED BY <2>1, <3>2 DEF TagsOf
  <2>6. q.pc = "scan" => PoolFits(q)'
    <3> SUFFICES ASSUME PoolFits(q) PROVE PoolFits(q)'
      BY DEF RowFits
    <3>1. q.files \in Seq(Paths) /\ q.next \in Nat /\ q.next <= Len(q.files) + 1
      BY <1>2 DEF ScanRow, RowFits
    <3>2. \A i \in 1 .. q.next - 1 : q.files[i] \in Paths
      BY <3>1
    <3>3. \A i \in 1 .. q.next - 1 : Has(q, i)' <=> Has(q, i)
      BY <2>3, <2>4, <3>2 DEF Has
    <3>4. Listed(q)' = Listed(q)
      BY <2>3 DEF Listed
    <3>5. \A w \in Workers : q.slots[w].index \in 1 .. q.next - 1 =>
            Large(q, q.files[q.slots[w].index])' = Large(q, q.files[q.slots[w].index])
      BY <2>4, <3>2
    <3> QED BY <2>1, <3>3, <3>4, <3>5 DEF PoolFits
  <2>7. q.result.found \subseteq Paths \X Commits'
    BY <1>1 DEF RowFits
  <2> QED BY <2>1, <2>5, <2>6, <2>7 DEF RowFits
<1> QED BY <1>3, <1>4

LEMMA CacheSurvives ==
  ASSUME RepoFits, RepoFits', NEW author, Grown(author), NEW c, CacheFits(c)
  PROVE  CacheFits(c)'
<1>1. Len(commits') \in Nat
  BY DEF RepoFits
<1>2. ASSUME NEW i \in 1 .. Len(c)
      PROVE  c[i].key \in Commits' \X TestsPaths /\ c[i].scan = ScanOf(c[i].key)'
  <2>1. c[i].key \in Commits \X TestsPaths /\ c[i].scan = ScanOf(c[i].key)
    BY DEF CacheFits
  <2> QED BY <1>1, <2>1, ScanKept
<1> QED BY <1>2 DEF CacheFits

------------------------------------------------------------------------------
(* The cache *)

LEMMA TouchedFits ==
  ASSUME CacheFits(cache), NEW i \in 1 .. Len(cache)
  PROVE  CacheFits(Touched(i))
<1> DEFINE n == Len(cache)
           new == Touched(i)
           Back(j) == IF j < i THEN j ELSE IF j < n THEN j + 1 ELSE i
<1>1. cache \in Seq(Entry) /\ n \in Nat /\ i \in Nat /\ n <= MaxEntries /\ i \in 1 .. n
  BY DEF CacheFits
<1>2. new \in Seq(Entry) /\ Len(new) = n /\ \A j \in 1 .. n : new[j] = cache[Back(j)]
  <2> DEFINE low == SubSeq(cache, 1, i - 1)
             high == SubSeq(cache, i + 1, n)
  <2>1. low \in Seq(Entry) /\ Len(low) = i - 1 /\ \A j \in 1 .. i - 1 : low[j] = cache[j]
    BY <1>1
  <2>2. high \in Seq(Entry) /\ Len(high) = n - i /\ \A j \in 1 .. n - i : high[j] = cache[j + i]
    BY <1>1
  <2>3. new = Append(low \o high, cache[i])
    BY DEF Touched, RemoveAt
  <2> HIDE DEF low, high, new, n
  <2>4. low \o high \in Seq(Entry) /\ Len(low \o high) = n - 1
    <3>1. low \in Seq(Entry) /\ high \in Seq(Entry)
      BY <2>1, <2>2
    <3>3. low \o high \in Seq(Entry) /\ Len(low \o high) = Len(low) + Len(high)
      BY <3>1
    <3>2. Len(low) + Len(high) = n - 1
      BY <1>1, <2>1, <2>2
    <3> QED BY <3>2, <3>3
  <2>5. \A j \in 1 .. n - 1 : (low \o high)[j] = IF j < i THEN cache[j] ELSE cache[j + 1]
    <3> SUFFICES ASSUME NEW j \in 1 .. n - 1
                 PROVE  (low \o high)[j] = IF j < i THEN cache[j] ELSE cache[j + 1]
      OBVIOUS
    <3>1. CASE j < i
      BY <1>1, <2>1, <2>2, <3>1
    <3>2. CASE ~(j < i)
      <4>1. j - Len(low) \in 1 .. n - i /\ j - Len(low) + i = j + 1
        BY <1>1, <2>1, <3>2
      <4>2. (low \o high)[j] = high[j - Len(low)]
        BY <1>1, <2>1, <2>2, <3>2
      <4> QED BY <2>2, <3>2, <4>1, <4>2
    <3> QED BY <3>1, <3>2
  <2>6. cache[i] \in Entry
    BY <1>1
  <2> HIDE DEF Back
  <2>7. new \in Seq(Entry) /\ Len(new) = n /\ new[n] = cache[i]
        /\ \A j \in 1 .. n - 1 : new[j] = (low \o high)[j]
    BY <1>1, <2>3, <2>4, <2>6
  <2>8. \A j \in 1 .. n : new[j] = cache[Back(j)]
    <3> SUFFICES ASSUME NEW j \in 1 .. n PROVE new[j] = cache[Back(j)]
      OBVIOUS
    <3>1. CASE j = n
      <4>1. Back(j) = i
        BY <1>1, <3>1 DEF Back
      <4> QED BY <2>7, <3>1, <4>1
    <3>2. CASE j # n
      <4>1. j \in 1 .. n - 1
        BY <1>1, <3>2
      <4>2. Back(j) = IF j < i THEN j ELSE j + 1
        BY <1>1, <4>1 DEF Back
      <4> QED BY <2>5, <2>7, <4>1, <4>2
    <3> QED BY <3>1, <3>2
  <2> QED BY <2>7, <2>8
<1>3. \A j \in 1 .. n : Back(j) \in 1 .. n
  BY <1>1
<1>4. \A j, k \in 1 .. n : Back(j) = Back(k) => j = k
  BY <1>1
<1> HIDE DEF new, Back
<1>5. \A j \in 1 .. n : new[j].key \in Commits \X TestsPaths /\ new[j].scan = ScanOf(new[j].key)
  BY <1>2, <1>3 DEF CacheFits
<1>6. \A j, k \in 1 .. n : new[j].key = new[k].key => j = k
  <2> SUFFICES ASSUME NEW j \in 1 .. n, NEW k \in 1 .. n, new[j].key = new[k].key PROVE j = k
    OBVIOUS
  <2>1. cache[Back(j)].key = cache[Back(k)].key /\ Back(j) \in 1 .. n /\ Back(k) \in 1 .. n
    BY <1>2, <1>3
  <2>2. \A a, b \in 1 .. n : cache[a].key = cache[b].key => a = b
    BY DEF CacheFits
  <2>3. Back(j) = Back(k)
    BY <2>1, <2>2
  <2> QED BY <1>4, <2>3
<1>7. CacheFits(new)
  BY <1>1, <1>2, <1>5, <1>6 DEF CacheFits
<1> QED BY <1>7 DEF new

\* Storing the whole scan of a key: in its place, or at the end, and then the oldest goes.
LEMMA StoredFits ==
  ASSUME RepoFits, CacheFits(cache), NEW key \in Commits \X TestsPaths
  PROVE  CacheFits(Stored(key, ScanOf(key)))
<1> DEFINE n == Len(cache)
           e == [key |-> key, scan |-> ScanOf(key)]
<1>1. cache \in Seq(Entry) /\ n \in Nat /\ n <= MaxEntries /\ MaxEntries \in Nat \ {0}
      /\ DOMAIN cache = 1 .. n
  BY CoverageScansAssumption DEF CacheFits
<1>2. e \in Entry /\ e.key = key /\ e.scan = ScanOf(key)
  BY ScanOfFits DEF Entry
<1> HIDE DEF e
<1>3. CASE Cached(key) # {}
  <2> DEFINE new == [i \in DOMAIN cache |-> IF i \in Cached(key) THEN e ELSE cache[i]]
  <2>1. Stored(key, ScanOf(key)) = new
    BY <1>3 DEF Stored, e
  <2>2. new \in [1 .. n -> Entry]
    BY <1>1, <1>2
  <2>3. new \in Seq(Entry) /\ Len(new) = n
    BY <1>1, <2>2
  <2>4. \A i \in 1 .. n : new[i].key = cache[i].key /\ new[i].scan = ScanOf(cache[i].key)
    BY <1>1, <1>2 DEF Cached, CacheFits
  <2> HIDE DEF new
  <2> QED BY <1>1, <2>1, <2>3, <2>4 DEF CacheFits
<1>4. CASE Cached(key) = {}
  <2> DEFINE longer == Append(cache, e)
  <2>1. /\ longer \in Seq(Entry) /\ Len(longer) = n + 1 /\ longer[n + 1] = e
        /\ \A i \in 1 .. n : longer[i] = cache[i]
    BY <1>1, <1>2
  <2>2. Stored(key, ScanOf(key)) = IF Len(longer) > MaxEntries THEN Tail(longer) ELSE longer
    BY <1>4 DEF Stored, e
  <2> HIDE DEF longer
  <2>3. \A i \in 1 .. n + 1 : longer[i].key \in Commits \X TestsPaths /\ longer[i].scan = ScanOf(longer[i].key)
    BY <1>1, <1>2, <2>1 DEF CacheFits
  <2>4. \A i \in 1 .. n : longer[i].key # key
    BY <1>1, <1>4, <2>1 DEF Cached
  <2>5. \A i, j \in 1 .. n + 1 : longer[i].key = longer[j].key => i = j
    BY <1>1, <1>2, <2>1, <2>4 DEF CacheFits
  <2>6. CASE Len(longer) > MaxEntries
    <3> DEFINE new == Tail(longer)
    <3>1. new \in Seq(Entry) /\ Len(new) = n /\ \A i \in 1 .. n : new[i] = longer[i + 1]
      BY <1>1, <2>1
    <3> HIDE DEF new
    <3>2. \A i \in 1 .. n : i + 1 \in 1 .. n + 1
      BY <1>1
    <3>3. \A i \in 1 .. n : new[i].key \in Commits \X TestsPaths /\ new[i].scan = ScanOf(new[i].key)
      BY <2>3, <3>1, <3>2
    <3>4. \A i, j \in 1 .. n : new[i].key = new[j].key => i = j
      <4> SUFFICES ASSUME NEW i \in 1 .. n, NEW j \in 1 .. n, new[i].key = new[j].key PROVE i = j
        OBVIOUS
      <4>1. /\ i + 1 \in 1 .. n + 1 /\ j + 1 \in 1 .. n + 1
            /\ longer[i + 1].key = longer[j + 1].key
        BY <3>1, <3>2
      <4>2. i + 1 = j + 1
        BY <2>5, <4>1
      <4> QED BY <1>1, <4>2
    <3>5. CacheFits(new)
      BY <1>1, <3>1, <3>3, <3>4 DEF CacheFits
    <3> QED BY <2>2, <2>6, <3>5 DEF new
  <2>7. CASE ~(Len(longer) > MaxEntries)
    <3>1. CacheFits(longer)
      BY <1>1, <2>1, <2>3, <2>5, <2>7 DEF CacheFits
    <3> QED BY <2>2, <2>7, <3>1
  <2> QED BY <2>6, <2>7
<1> QED BY <1>3, <1>4

------------------------------------------------------------------------------
(* The requests *)

\* A request's row is what it is, however it is named in the next state.
LEMMA SameRow ==
  ASSUME NEW r, NEW q, scan'[r] = q, RowFits(q)'
  PROVE  RowFits(scan[r])'
<1>1. KeyOf(scan[r])' = KeyOf(q) /\ ScanOf(KeyOf(scan[r]))' = ScanOf(KeyOf(q))'
  BY DEF KeyOf, ScanOf
<1>2. Listed(scan[r])' = Listed(q)' /\ \A p : Large(scan[r], p)' = Large(q, p)'
  BY DEF Listed, Large
<1>3. \A i : Has(scan[r], i)' = Has(q, i)'
  BY <1>2 DEF Has
<1>4. TagsOf(scan[r])' = TagsOf(q)'
  BY <1>1 DEF TagsOf
<1>5. PoolFits(scan[r])' <=> PoolFits(q)'
  BY <1>1, <1>2, <1>3 DEF PoolFits
<1> QED BY <1>1, <1>4, <1>5 DEF RowFits

\* A step of one request, which leaves the repository alone.
LEMMA ScanMove ==
  ASSUME RepoFits, RepoFits', ScansFit, UNCHANGED <<repoVars, approved>>, NEW r \in Scans,
         NEW q, RowFits(q), scan' = [scan EXCEPT ![r] = q], NEW c, CacheFits(c), cache' = c
  PROVE  ScansFit'
<1>1. Grown(People)
  BY QuietRepo DEF RepoFits
<1>2. CacheFits(cache)'
  <2>1. CacheFits(c)'
    BY <1>1, CacheSurvives
  <2> QED BY <2>1 DEF CacheFits
<1>3. ASSUME NEW t \in Scans PROVE RowFits(scan[t])'
  <2>1. PICK s : s = scan'[t]
    OBVIOUS
  <2>2. RowFits(s)
    BY <2>1 DEF ScansFit
  <2>3. RowFits(s)'
    BY <1>1, <2>2, RowSurvives
  <2> QED BY <2>1, <2>3, SameRow
<1> QED BY <1>2, <1>3 DEF ScansFit

\* A pool whose workers have all returned has the whole scan.
LEMMA PoolDone ==
  ASSUME RepoFits, NEW q, RowFits(q), q.pc = "scan", \A w \in Workers : q.slots[w] = Idle
  PROVE  q.result = ScanOf(KeyOf(q))
<1> DEFINE key == KeyOf(q)
           tree == FilesAt(q.commit)
<1>1. q \in ScanRow /\ PoolFits(q) /\ q.next <= Len(q.files) + 1
  BY DEF RowFits
<1>2. q.files \in Seq(Paths) /\ q.next \in Nat /\ q.next # 0 /\ Len(q.files) \in Nat
      /\ DOMAIN q.files = 1 .. Len(q.files)
  BY <1>1 DEF ScanRow
<1>3. PICK w \in Workers : TRUE
  BY CoverageScansAssumption
<1>4. q.next = Len(q.files) + 1
  BY <1>1, <1>2, <1>3 DEF PoolFits
<1>5. ASSUME NEW p \in Listed(q)
      PROVE  IF Large(q, p) THEN p \in q.result.skipped ELSE <<p, tree[p]>> \in q.result.found
  <2>1. PICK i \in 1 .. Len(q.files) : q.files[i] = p
    BY <1>1, <1>2 DEF PoolFits
  <2>2. i \in 1 .. q.next - 1 /\ i # 0
    BY <1>2, <1>4
  <2>3. \A v \in Workers : q.slots[v].index # i
    BY <2>2 DEF Idle
  <2>4. Has(q, i)
    BY <1>1, <2>2, <2>3 DEF PoolFits
  <2> QED BY <2>1, <2>4 DEF Has
<1>6. /\ ScanOf(key).found = {<<p, tree[p]>> : p \in {p \in Listed(q) : ~Large(q, p)}}
      /\ ScanOf(key).skipped = {p \in Listed(q) : Large(q, p)}
  BY DEF ScanOf, KeyOf, Listed, Large
<1>7. ScanOf(key).found \subseteq q.result.found /\ ScanOf(key).skipped \subseteq q.result.skipped
  BY <1>5, <1>6
<1>8. q.result.found = ScanOf(key).found /\ q.result.skipped = ScanOf(key).skipped
  BY <1>1, <1>7 DEF PoolFits
<1>9. q.result = [found |-> q.result.found, skipped |-> q.result.skipped]
  BY <1>1 DEF ScanRow, ScanResult
<1>10. ScanOf(key) = [found |-> ScanOf(key).found, skipped |-> ScanOf(key).skipped]
  BY DEF ScanOf
<1> QED BY <1>8, <1>9, <1>10

LEMMA SettleFits ==
  ASSUME RepoFits, RepoFits', ScansFit, UNCHANGED <<repoVars, approved>>, NEW r \in Scans,
         NEW q, RowFits(q), q.pc = "scan", Settle(r, q)
  PROVE  ScansFit'
<1>1. CacheFits(cache) /\ q \in ScanRow /\ KeyOf(q) \in Commits \X TestsPaths
  BY DEF ScansFit, RowFits
<1>2. CASE ~\A w \in Workers : q.slots[w] = Idle
  <2>1. scan' = [scan EXCEPT ![r] = q] /\ cache' = cache
    BY <1>2 DEF Settle
  <2>2. PICK c : c = cache
    OBVIOUS
  <2> QED BY <1>1, <2>1, <2>2, ScanMove
<1>3. CASE \A w \in Workers : q.slots[w] = Idle
  <2> DEFINE done == [q EXCEPT !.pc = "cases"]
  <2>1. q.result = ScanOf(KeyOf(q))
    BY <1>3, PoolDone
  <2>2. scan' = [scan EXCEPT ![r] = done] /\ cache' = Stored(KeyOf(q), ScanOf(KeyOf(q)))
    BY <1>3, <2>1 DEF Settle, KeyOf, Key
  <2>3. PICK c : c = Stored(KeyOf(q), ScanOf(KeyOf(q)))
    OBVIOUS
  <2>4. CacheFits(c)
    BY <1>1, <2>3, StoredFits
  <2>5. RowFits(done)
    <3>1. /\ done \in ScanRow /\ done.pc = "cases" /\ done.commit = q.commit /\ done.tests = q.tests
          /\ done.files = q.files /\ done.next = q.next /\ done.slots = q.slots
          /\ done.result = q.result
      BY <1>1 DEF ScanRow
    <3> HIDE DEF done
    <3>2. KeyOf(done) = KeyOf(q)
      BY <3>1 DEF KeyOf
    <3> QED BY <1>1, <2>1, <3>1, <3>2 DEF RowFits
  <2> HIDE DEF done
  <2> QED BY <2>2, <2>3, <2>4, <2>5, ScanMove
<1> QED BY <1>2, <1>3

\* A request starts: the branch is gone, its scan is cached, or it is still to be made.
LEMMA StartFits ==
  ASSUME RepoFits, RepoFits', ScansFit, NEW r \in Scans, NEW b \in Branches, Start(r, b)
  PROVE  ScansFit'
<1> DEFINE old == scan[r]
           key == Key(heads[b], testsPath)
<1>1. UNCHANGED <<repoVars, approved>> /\ RowFits(old) /\ old \in ScanRow /\ old.pc = "new"
      /\ CacheFits(cache)
  BY DEF Start, ScansFit, RowFits
<1>2. CASE scan' = [scan EXCEPT ![r].pc = "failed"] /\ UNCHANGED cache
  <2> DEFINE q == [old EXCEPT !.pc = "failed"]
  <2>1. /\ q \in ScanRow /\ q.pc = "failed" /\ q.files = old.files /\ q.next = old.next
        /\ q.slots = old.slots /\ q.result = old.result
    BY <1>1 DEF ScanRow
  <2>2. scan' = [scan EXCEPT ![r] = q]
    BY <1>2 DEF ScansFit
  <2> HIDE DEF q
  <2>3. RowFits(q)
    BY <1>1, <2>1 DEF RowFits
  <2>4. PICK c, z : c = cache /\ z = q
    OBVIOUS
  <2>5. RowFits(z) /\ CacheFits(c) /\ scan' = [scan EXCEPT ![r] = z] /\ cache' = c
    BY <1>1, <1>2, <2>2, <2>3, <2>4
  <2> QED BY <1>1, <2>5, ScanMove
<1>3. CASE Exists(b)
  <2>1. key \in Commits \X TestsPaths /\ heads[b] \in Nat /\ testsPath \in SUBSET Paths
    BY <1>3, GitlabRepoAssumption DEF RepoFits, Exists, Commits, Key
  <2>2. CASE \E i \in Cached(key) :
               /\ cache' = Touched(i)
               /\ scan' = [scan EXCEPT ![r] = [[old EXCEPT !.commit = heads[b], !.tests = testsPath]
                                                 EXCEPT !.pc = "cases", !.result = cache[i].scan]]
    <3>1. PICK i \in Cached(key) :
               /\ cache' = Touched(i)
               /\ scan' = [scan EXCEPT ![r] = [[old EXCEPT !.commit = heads[b], !.tests = testsPath]
                                                 EXCEPT !.pc = "cases", !.result = cache[i].scan]]
      BY <2>2
    <3>2. i \in 1 .. Len(cache) /\ cache[i].scan = ScanOf(key)
      BY <1>1 DEF Cached, CacheFits
    <3> DEFINE q == [[old EXCEPT !.commit = heads[b], !.tests = testsPath]
                       EXCEPT !.pc = "cases", !.result = cache[i].scan]
    <3>3. ScanOf(key) \in ScanResult /\ ScanOf(key).found \subseteq Paths \X Commits
      BY <2>1, ScanOfFits
    <3>4. /\ q \in ScanRow /\ q.pc = "cases" /\ q.files = old.files /\ q.next = old.next
          /\ q.slots = old.slots /\ q.result = ScanOf(key) /\ KeyOf(q) = key
      BY <1>1, <2>1, <3>2, <3>3 DEF ScanRow, KeyOf, Key
    <3> HIDE DEF q
    <3>5. RowFits(q)
      BY <1>1, <2>1, <3>3, <3>4 DEF RowFits
    <3>6. CacheFits(Touched(i))
      BY <1>1, <3>2, TouchedFits
    <3>7. PICK c, z : c = Touched(i) /\ z = q
      OBVIOUS
    <3>8. RowFits(z) /\ CacheFits(c) /\ scan' = [scan EXCEPT ![r] = z] /\ cache' = c
      BY <3>1, <3>5, <3>6, <3>7 DEF q
    <3> QED BY <1>1, <3>8, ScanMove
  <2>3. CASE /\ scan' = [scan EXCEPT ![r] = [[old EXCEPT !.commit = heads[b], !.tests = testsPath]
                                               EXCEPT !.pc = "tree"]]
             /\ UNCHANGED cache
    <3> DEFINE q == [[old EXCEPT !.commit = heads[b], !.tests = testsPath] EXCEPT !.pc = "tree"]
    <3>1. /\ q \in ScanRow /\ q.pc = "tree" /\ q.files = old.files /\ q.next = old.next
          /\ q.slots = old.slots /\ q.result = old.result /\ KeyOf(q) = key
      BY <1>1, <2>1 DEF ScanRow, KeyOf, Key
    <3> HIDE DEF q
    <3>2. RowFits(q)
      BY <1>1, <2>1, <3>1 DEF RowFits
    <3>3. PICK c, z : c = cache /\ z = q
      OBVIOUS
    <3>4. RowFits(z) /\ CacheFits(c) /\ scan' = [scan EXCEPT ![r] = z] /\ cache' = c
      BY <1>1, <2>3, <3>2, <3>3 DEF q
    <3> QED BY <1>1, <3>4, ScanMove
  <2> QED BY <1>3, <2>2, <2>3, Zenon DEF Start
<1> QED BY <1>2, <1>3 DEF Start

\* The files of a tests folder at a commit, in some order.
LEMMA SetToSeqFits ==
  ASSUME NEW S \in SUBSET Paths
  PROVE  SetToSeq(S) \in Seq(Paths) /\ {SetToSeq(S)[i] : i \in DOMAIN SetToSeq(S)} = S
<1> DEFINE n == Cardinality(S)
           f == SetToSeq(S)
<1>1. IsFiniteSet(S)
  BY GitlabRepoAssumption, FS_Subset
<1>2. n \in Nat /\ ExistsBijection(1 .. n, S)
  BY <1>1, FS_CardinalityType
<1>3. \E g \in [1 .. n -> S] : IsInjective(g)
  BY <1>2 DEF ExistsBijection, Bijection, Injection
<1>4. f \in [1 .. n -> S] /\ IsInjective(f)
  BY <1>3 DEF SetToSeq
<1> HIDE DEF f
<1>5. f \in Injection(1 .. n, S)
  BY <1>4 DEF Injection
<1>6. Cardinality(1 .. n) = n
  BY <1>2, FS_Interval
<1>7. f \in Surjection(1 .. n, S)
  BY <1>1, <1>5, <1>6, FS_Injection
<1>8. \A x \in S : \E i \in 1 .. n : f[i] = x
  BY <1>7 DEF Surjection
<1> HIDE DEF n
<1>9. f \in Seq(Paths) /\ DOMAIN f = 1 .. n
  BY <1>2, <1>4
<1> QED BY <1>4, <1>8, <1>9 DEF f

LEMMA ListTreeFits ==
  ASSUME RepoFits, RepoFits', ScansFit, NEW r \in Scans, ListTree(r)
  PROVE  ScansFit'
<1> DEFINE old == scan[r]
           files == SetToSeq(Listed(old))
           size == Len(files)
           n == Cardinality(Workers)
           slots == [w \in Workers |-> IF w <= size THEN [index |-> w, step |-> "head"] ELSE Idle]
           next == IF size < n THEN size + 1 ELSE n + 1
           q == [old EXCEPT !.pc = "scan", !.files = files, !.slots = slots, !.next = next]
<1>1. UNCHANGED <<repoVars, approved>> /\ RowFits(old) /\ old \in ScanRow /\ old.pc = "tree"
  BY DEF ListTree, ScansFit, RowFits
<1>2. /\ KeyOf(old) \in Commits \X TestsPaths /\ old.result = NoScan
      /\ old.tests \in TestsPaths /\ Listed(old) \in SUBSET Paths
  BY <1>1, GitlabRepoAssumption DEF RowFits, Listed, KeyOf
<1>3. Settle(r, q)
  <2>1. files = SetToSeq({p \in old.tests : FilesAt(old.commit)[p] # NoFile})
    BY DEF Listed
  <2> QED BY <2>1 DEF ListTree
<1>4. files \in Seq(Paths) /\ {files[i] : i \in DOMAIN files} = Listed(old)
  BY <1>2, SetToSeqFits
<1> HIDE DEF files
<1>5. size \in Nat /\ n \in Nat /\ n # 0 /\ Workers = 1 .. n
  <2>1. n \in Nat
    BY CoverageScansAssumption, FS_CardinalityType
  <2> QED BY <1>4, <2>1, CoverageScansAssumption
<1> HIDE DEF size, n
<1>6. next \in Nat \ {0} /\ next <= size + 1 /\ next <= n + 1 /\ (next = size + 1 \/ next = n + 1)
  BY <1>5
<1>7. slots \in [Workers -> Slot] /\ \A w \in Workers : slots[w].index <= size
  BY <1>5 DEF Slot, Idle
<1>8. \A w \in Workers : slots[w] = Idle \/ (slots[w] = [index |-> w, step |-> "head"] /\ w \in 1 .. next - 1)
  BY <1>5, <1>6
<1>9. next <= size => \A w \in Workers : slots[w] # Idle
  BY <1>5, <1>6 DEF Idle
<1>10. \A i \in 1 .. next - 1 : i \in Workers /\ slots[i].index = i
  BY <1>5, <1>6
<1> HIDE DEF slots, next
<1>11. /\ q \in ScanRow /\ q.pc = "scan" /\ q.files = files /\ q.next = next /\ q.slots = slots
       /\ q.result = NoScan /\ q.commit = old.commit /\ q.tests = old.tests
  BY <1>1, <1>2, <1>4, <1>6, <1>7 DEF ScanRow
<1> HIDE DEF q
<1>12. KeyOf(q) = KeyOf(old) /\ Listed(q) = Listed(old)
  BY <1>11 DEF KeyOf, Listed
<1>13. PoolFits(q)
  <2>1. \A w \in Workers : \/ q.slots[w] = Idle
                           \/ q.slots[w].index \in 1 .. q.next - 1 /\ q.slots[w].step # "get"
    <3>1. \A w \in Workers : slots[w] = [index |-> w, step |-> "head"] =>
            slots[w].index = w /\ slots[w].step # "get"
      OBVIOUS
    <3> QED BY <1>8, <1>11, <3>1
  <2>2. q.result.found = {} /\ q.result.skipped = {}
    BY <1>11 DEF NoScan
  <2>3. {q.files[i] : i \in DOMAIN q.files} = Listed(q)
    BY <1>4, <1>11, <1>12
  <2>4. q.next <= Len(q.files) => \A w \in Workers : q.slots[w] # Idle
    BY <1>9, <1>11 DEF size
  <2>5. \A i \in 1 .. q.next - 1 : \E w \in Workers : q.slots[w].index = i
    BY <1>10, <1>11
  <2> QED BY <2>1, <2>2, <2>3, <2>4, <2>5 DEF PoolFits
<1>14. RowFits(q)
  <2>1. q.next <= Len(q.files) + 1 /\ \A w \in Workers : q.slots[w].index <= Len(q.files)
    BY <1>6, <1>7, <1>11 DEF size
  <2> QED BY <1>2, <1>11, <1>12, <1>13, <2>1 DEF RowFits, NoScan
<1>15. PICK z : z = q
  OBVIOUS
<1>16. RowFits(z) /\ z.pc = "scan" /\ Settle(r, z)
  BY <1>3, <1>11, <1>14, <1>15
<1> QED BY <1>1, <1>16, SettleFits

\* A worker has its file's result and claims the next one.
LEMMA ClaimFits ==
  ASSUME RepoFits, RepoFits', ScansFit, UNCHANGED <<repoVars, approved>>,
         NEW r \in Scans, NEW w \in Workers, scan[r].pc = "scan", scan[r].slots[w] # Idle,
         NEW result \in ScanResult,
         scan[r].result.found \subseteq result.found, scan[r].result.skipped \subseteq result.skipped,
         result.found \subseteq ScanOf(KeyOf(scan[r])).found,
         result.skipped \subseteq ScanOf(KeyOf(scan[r])).skipped,
         LET p == FileOf(r, w)
         IN IF Large(scan[r], p) THEN p \in result.skipped ELSE <<p, ContentAt(r, p)>> \in result.found,
         Claim(r, w, result)
  PROVE  ScansFit'
<1> DEFINE old == scan[r]
           more == old.next <= Len(old.files)
           slot == IF more THEN [index |-> old.next, step |-> "head"] ELSE Idle
           next == IF more THEN old.next + 1 ELSE old.next
           q == [old EXCEPT !.result = result, !.slots[w] = slot, !.next = next]
<1>1. RowFits(old) /\ old \in ScanRow /\ PoolFits(old) /\ KeyOf(old) \in Commits \X TestsPaths
  BY DEF ScansFit, RowFits
<1>2. Settle(r, q)
  BY DEF Claim
<1>3. old.next \in Nat \ {0} /\ Len(old.files) \in Nat /\ old.next <= Len(old.files) + 1
      /\ old.slots \in [Workers -> Slot] /\ old.files \in Seq(Paths)
  BY <1>1 DEF ScanRow, RowFits
<1>4. slot \in Slot /\ next \in Nat \ {0} /\ next <= Len(old.files) + 1 /\ slot.index <= Len(old.files)
      /\ old.next <= next /\ slot.step # "get"
  BY <1>3 DEF Slot, Idle
<1>5. slot = Idle \/ slot.index \in 1 .. next - 1
  BY <1>3
<1>6. next <= Len(old.files) => more /\ slot # Idle
  BY <1>3 DEF Idle
<1>7. \A i \in 1 .. next - 1 : i \in 1 .. old.next - 1 \/ slot.index = i
  BY <1>3
<1> HIDE DEF slot, next
<1>8. /\ q \in ScanRow /\ q.pc = "scan" /\ q.files = old.files /\ q.next = next
      /\ q.slots = [old.slots EXCEPT ![w] = slot]
      /\ q.result = result /\ q.commit = old.commit /\ q.tests = old.tests
  BY <1>1, <1>4 DEF ScanRow
<1> HIDE DEF q
<1>9. KeyOf(q) = KeyOf(old) /\ Listed(q) = Listed(old) /\ \A p : Large(q, p) = Large(old, p)
  BY <1>8 DEF KeyOf, Listed, Large
<1>10. q.slots[w] = slot /\ \A v \in Workers \ {w} : q.slots[v] = old.slots[v]
  BY <1>3, <1>8
<1>11. old.slots[w].index \in 1 .. old.next - 1
  BY <1>1 DEF PoolFits
<1>12. ASSUME NEW i \in 1 .. q.next - 1
       PROVE  Has(q, i) \/ \E v \in Workers : q.slots[v].index = i
  <2>1. CASE slot.index = i
    BY <1>10, <2>1
  <2>2. CASE i \in 1 .. old.next - 1
    <3>1. CASE Has(old, i)
      BY <1>8, <1>9, <3>1 DEF Has
    <3>2. CASE \E v \in Workers : old.slots[v].index = i
      <4>1. PICK v \in Workers : old.slots[v].index = i
        BY <3>2
      <4>2. CASE v = w
        BY <1>8, <1>9, <4>1, <4>2 DEF Has, FileOf, ContentAt
      <4>3. CASE v # w
        BY <1>10, <4>1, <4>3
      <4> QED BY <4>2, <4>3
    <3> QED BY <1>1, <2>2, <3>1, <3>2 DEF PoolFits
  <2> QED BY <1>7, <1>8, <2>1, <2>2
<1>13. PoolFits(q)
  <2>1. ASSUME NEW v \in Workers
        PROVE  \/ q.slots[v] = Idle
               \/ /\ q.slots[v].index \in 1 .. q.next - 1
                  /\ q.slots[v].step = "get" => ~Large(q, q.files[q.slots[v].index])
    <3>1. CASE v = w
      BY <1>4, <1>5, <1>8, <1>10, <3>1
    <3>2. CASE v # w
      <4>1. q.slots[v] = old.slots[v]
        BY <1>10, <3>2
      <4>2. \A i \in 1 .. old.next - 1 : i \in 1 .. q.next - 1
        BY <1>3, <1>4, <1>8
      <4> QED BY <1>1, <1>8, <1>9, <4>1, <4>2 DEF PoolFits
    <3> QED BY <3>1, <3>2
  <2>2. q.next <= Len(q.files) => \A v \in Workers : q.slots[v] # Idle
    BY <1>1, <1>6, <1>8, <1>10 DEF PoolFits
  <2>3. {q.files[i] : i \in DOMAIN q.files} = Listed(q)
    BY <1>1, <1>8, <1>9 DEF PoolFits
  <2>4. q.result.found \subseteq ScanOf(KeyOf(q)).found /\ q.result.skipped \subseteq ScanOf(KeyOf(q)).skipped
    BY <1>8, <1>9
  <2> QED BY <1>12, <2>1, <2>2, <2>3, <2>4 DEF PoolFits
<1>14. RowFits(q)
  <2>1. q.next <= Len(q.files) + 1 /\ \A v \in Workers : q.slots[v].index <= Len(q.files)
    BY <1>1, <1>4, <1>8, <1>10 DEF RowFits
  <2>2. q.result.found \subseteq Paths \X Commits
    BY <1>1, <1>8, ScanOfFits
  <2> QED BY <1>1, <1>8, <1>9, <1>13, <2>1, <2>2 DEF RowFits
<1>15. PICK z : z = q
  OBVIOUS
<1>16. RowFits(z) /\ z.pc = "scan" /\ Settle(r, z)
  BY <1>2, <1>8, <1>14, <1>15
<1> QED BY <1>16, SettleFits

LEMMA ScanHeadFits ==
  ASSUME RepoFits, RepoFits', ScansFit, NEW r \in Scans, NEW w \in Workers, ScanHead(r, w)
  PROVE  ScansFit'
<1> DEFINE old == scan[r]
           p == FileOf(r, w)
<1>1. /\ UNCHANGED <<repoVars, approved>> /\ RowFits(old) /\ old \in ScanRow /\ old.pc = "scan"
      /\ old.slots[w].step = "head" /\ PoolFits(old) /\ KeyOf(old) \in Commits \X TestsPaths
      /\ CacheFits(cache)
  BY DEF ScanHead, ScansFit, RowFits
<1>2. old.slots[w] # Idle /\ old.slots[w].index \in 1 .. old.next - 1
  BY <1>1 DEF PoolFits, Idle
<1>3. p = old.files[old.slots[w].index] /\ p \in Listed(old) /\ p \in Paths
      /\ old.files \in Seq(Paths) /\ old.next \in Nat /\ old.slots \in [Workers -> Slot]
  <2>1. /\ old.files \in Seq(Paths) /\ old.next \in Nat /\ old.next <= Len(old.files) + 1
        /\ old.slots \in [Workers -> Slot]
    BY <1>1 DEF RowFits, ScanRow
  <2>2. old.slots[w].index \in DOMAIN old.files
    BY <1>2, <2>1
  <2>3. p = old.files[old.slots[w].index]
    BY DEF FileOf
  <2> QED BY <1>1, <2>1, <2>2, <2>3 DEF PoolFits
<1>4. CASE Kind(ContentAt(r, p)) = "large"
  <2> DEFINE result == [old.result EXCEPT !.skipped = @ \cup {p}]
  <2>1. Claim(r, w, result)
    BY <1>4 DEF ScanHead
  <2>2. /\ result \in ScanResult /\ result.found = old.result.found
        /\ result.skipped = old.result.skipped \cup {p}
    BY <1>1, <1>3 DEF ScanRow, ScanResult
  <2>3. Large(old, p)
    BY <1>4 DEF Large, ContentAt
  <2>4. p \in ScanOf(KeyOf(old)).skipped
    BY <1>3, <2>3 DEF ScanOf, KeyOf, Listed, Large
  <2>5. result.found \subseteq ScanOf(KeyOf(old)).found /\ result.skipped \subseteq ScanOf(KeyOf(old)).skipped
    BY <1>1, <2>2, <2>4 DEF PoolFits
  <2> HIDE DEF result
  <2> QED BY <1>1, <1>2, <2>1, <2>2, <2>3, <2>5, ClaimFits
<1>5. CASE ~(Kind(ContentAt(r, p)) = "large")
  <2> DEFINE q == [old EXCEPT !.slots[w].step = "get"]
  <2>1. scan' = [scan EXCEPT ![r] = q] /\ cache' = cache
    BY <1>5 DEF ScanHead, ScansFit
  <2>2. ~Large(old, p)
    BY <1>5 DEF Large, ContentAt
  <2>3. [old.slots EXCEPT ![w].step = "get"] \in [Workers -> Slot]
    BY <1>3 DEF Slot
  <2>4. /\ q \in ScanRow /\ q.pc = "scan" /\ q.files = old.files /\ q.next = old.next
        /\ q.slots = [old.slots EXCEPT ![w].step = "get"]
        /\ q.result = old.result /\ q.commit = old.commit /\ q.tests = old.tests
    BY <1>1, <2>3 DEF ScanRow
  <2> HIDE DEF q
  <2>5. /\ q.slots[w].index = old.slots[w].index /\ q.slots[w].step = "get"
        /\ \A v \in Workers \ {w} : q.slots[v] = old.slots[v]
    BY <1>3, <2>4 DEF Slot
  <2>6. KeyOf(q) = KeyOf(old) /\ Listed(q) = Listed(old) /\ \A f : Large(q, f) = Large(old, f)
    BY <2>4 DEF KeyOf, Listed, Large
  <2>7. \A i \in 1 .. q.next - 1 : Has(q, i) <=> Has(old, i)
    BY <2>4, <2>6 DEF Has
  <2>8. q.slots[w] # Idle
    BY <2>5 DEF Idle
  <2>9. \A v \in Workers : q.slots[v].index = old.slots[v].index
    BY <2>5
  <2>10. PoolFits(q)
    <3>1. ASSUME NEW v \in Workers
          PROVE  \/ q.slots[v] = Idle
                 \/ /\ q.slots[v].index \in 1 .. q.next - 1
                    /\ q.slots[v].step = "get" => ~Large(q, q.files[q.slots[v].index])
      <4>1. CASE v = w
        BY <1>2, <1>3, <2>2, <2>4, <2>5, <2>6, <4>1
      <4>2. CASE v # w
        BY <1>1, <2>4, <2>5, <2>6, <4>2 DEF PoolFits
      <4> QED BY <4>1, <4>2
    <3>2. q.next <= Len(q.files) => \A v \in Workers : q.slots[v] # Idle
      BY <1>1, <2>4, <2>5, <2>8 DEF PoolFits
    <3>3. \A i \in 1 .. q.next - 1 : Has(q, i) \/ \E v \in Workers : q.slots[v].index = i
      BY <1>1, <2>4, <2>7, <2>9 DEF PoolFits
    <3>4. {q.files[i] : i \in DOMAIN q.files} = Listed(q)
      BY <1>1, <2>4, <2>6 DEF PoolFits
    <3> QED BY <1>1, <2>4, <2>6, <3>1, <3>2, <3>3, <3>4 DEF PoolFits
  <2>11. RowFits(q)
    BY <1>1, <2>4, <2>6, <2>9, <2>10 DEF RowFits
  <2>12. PICK c, z : c = cache /\ z = q
    OBVIOUS
  <2>13. RowFits(z) /\ CacheFits(c) /\ scan' = [scan EXCEPT ![r] = z] /\ cache' = c
    BY <1>1, <2>1, <2>11, <2>12
  <2> QED BY <1>1, <2>13, ScanMove
<1> QED BY <1>4, <1>5

LEMMA ScanGetFits ==
  ASSUME RepoFits, RepoFits', ScansFit, NEW r \in Scans, NEW w \in Workers, ScanGet(r, w)
  PROVE  ScansFit'
<1> DEFINE old == scan[r]
           p == FileOf(r, w)
           result == [old.result EXCEPT !.found = @ \cup {<<p, ContentAt(r, p)>>}]
<1>1. /\ UNCHANGED <<repoVars, approved>> /\ RowFits(old) /\ old \in ScanRow /\ old.pc = "scan"
      /\ old.slots[w].step = "get" /\ PoolFits(old) /\ KeyOf(old) \in Commits \X TestsPaths
      /\ Claim(r, w, result)
  BY DEF ScanGet, ScansFit, RowFits
<1>2. old.slots[w] # Idle /\ old.slots[w].index \in 1 .. old.next - 1 /\ ~Large(old, p)
  BY <1>1 DEF PoolFits, Idle, FileOf
<1>3. p \in Listed(old) /\ p \in Paths
  <2>1. /\ old.files \in Seq(Paths) /\ old.next \in Nat /\ old.next <= Len(old.files) + 1
    BY <1>1 DEF RowFits, ScanRow
  <2>2. old.slots[w].index \in DOMAIN old.files
    BY <1>2, <2>1
  <2>3. p = old.files[old.slots[w].index]
    BY DEF FileOf
  <2>4. p \in {old.files[i] : i \in DOMAIN old.files}
    BY <2>2, <2>3
  <2>5. p \in Paths
    BY <2>1, <2>2, <2>3
  <2> QED BY <1>1, <2>4, <2>5 DEF PoolFits
<1>4. <<p, ContentAt(r, p)>> \in ScanOf(KeyOf(old)).found
  BY <1>2, <1>3 DEF ScanOf, KeyOf, Listed, Large, ContentAt
<1>5. <<p, ContentAt(r, p)>> \in Paths \X Nat
  <2>1. ScanOf(KeyOf(old)).found \subseteq Paths \X Nat
    BY <1>1, ScanOfFits DEF ScanResult
  <2> QED BY <1>4, <2>1
<1> DEFINE file == <<p, ContentAt(r, p)>>
<1> HIDE DEF p, file
<1>6. /\ result \in ScanResult /\ result.skipped = old.result.skipped
      /\ result.found = old.result.found \cup {file}
  BY <1>1, <1>5 DEF ScanRow, ScanResult, file
<1>7. result.found \subseteq ScanOf(KeyOf(old)).found /\ result.skipped \subseteq ScanOf(KeyOf(old)).skipped
  BY <1>1, <1>4, <1>6 DEF PoolFits, file
<1> HIDE DEF result
<1> QED BY <1>1, <1>2, <1>6, <1>7, ClaimFits DEF p, file

LEMMA CoverFits ==
  ASSUME RepoFits, RepoFits', ScansFit, NEW r \in Scans, Cover(r)
  PROVE  ScansFit'
<1> DEFINE old == scan[r]
           tagged == UNION {Codes(file[2]) : file \in old.result.found}
           answer == [covered |-> approved \cap tagged, notAutomated |-> approved \ tagged,
                      skipped |-> old.result.skipped]
           q == [old EXCEPT !.pc = "answered", !.answer = answer]
<1>1. /\ UNCHANGED <<repoVars, approved, cache>> /\ RowFits(old) /\ old \in ScanRow /\ old.pc = "cases"
      /\ old.result = ScanOf(KeyOf(old)) /\ CacheFits(cache) /\ approved \subseteq Cases
      /\ KeyOf(old) \in Commits \X TestsPaths
  BY DEF Cover, ScansFit, RowFits
<1>2. scan' = [scan EXCEPT ![r] = q]
  BY DEF Cover, ScansFit
<1>3. tagged = TagsOf(old) /\ old.result.skipped = ScanOf(KeyOf(old)).skipped /\ old.result.skipped \subseteq Paths
  BY <1>1, ScanOfFits DEF TagsOf
<1> HIDE DEF tagged
<1>4. /\ answer \in [covered : SUBSET Cases, notAutomated : SUBSET Cases, skipped : SUBSET Paths]
      /\ answer.covered = approved \cap tagged /\ answer.notAutomated = approved \ tagged
      /\ answer.skipped = old.result.skipped
  BY <1>1, <1>3
<1> HIDE DEF answer
<1>5. /\ q \in ScanRow /\ q.pc = "answered" /\ q.files = old.files /\ q.next = old.next
      /\ q.slots = old.slots /\ q.result = old.result /\ q.answer = answer
      /\ q.commit = old.commit /\ q.tests = old.tests
  BY <1>1, <1>4 DEF ScanRow
<1> HIDE DEF q
<1>6. KeyOf(q) = KeyOf(old) /\ TagsOf(q) = TagsOf(old)
  BY <1>5 DEF KeyOf, TagsOf
<1>7. RowFits(q)
  BY <1>1, <1>3, <1>4, <1>5, <1>6 DEF RowFits
<1>8. PICK c, z : c = cache /\ z = q
  OBVIOUS
<1>9. RowFits(z) /\ CacheFits(c) /\ scan' = [scan EXCEPT ![r] = z] /\ cache' = c
  BY <1>1, <1>2, <1>7, <1>8
<1> QED BY <1>1, <1>9, ScanMove

\* The first call to fail ends the request, and nothing it found is kept.
LEMMA ScanFailsFits ==
  ASSUME RepoFits, RepoFits', ScansFit, NEW r \in Scans, ScanFails(r)
  PROVE  ScansFit'
<1> DEFINE old == scan[r]
           idle == [w \in Workers |-> Idle]
           q == [old EXCEPT !.pc = "failed", !.slots = idle]
<1>1. /\ UNCHANGED <<repoVars, approved, cache>> /\ RowFits(old) /\ old \in ScanRow /\ CacheFits(cache)
  BY DEF ScanFails, ScansFit, RowFits
<1>2. scan' = [scan EXCEPT ![r] = q]
  BY DEF ScanFails, ScansFit
<1>3. idle \in [Workers -> Slot] /\ \A w \in Workers : idle[w].index = 0
  BY DEF Slot, Idle
<1> HIDE DEF idle
<1>4. /\ q \in ScanRow /\ q.pc = "failed" /\ q.files = old.files /\ q.next = old.next
      /\ q.slots = idle /\ q.result = old.result
  BY <1>1, <1>3 DEF ScanRow
<1> HIDE DEF q
<1>5. Len(q.files) \in Nat
  BY <1>4 DEF ScanRow
<1>6. RowFits(q)
  BY <1>1, <1>3, <1>4, <1>5 DEF RowFits
<1>7. PICK c, z : c = cache /\ z = q
  OBVIOUS
<1>8. RowFits(z) /\ CacheFits(c) /\ scan' = [scan EXCEPT ![r] = z] /\ cache' = c
  BY <1>1, <1>2, <1>6, <1>7
<1> QED BY <1>1, <1>8, ScanMove

\* What does not touch the scans: the history grows, a case is approved, the folder moves.
LEMMA OthersKeepScans ==
  ASSUME RepoFits, RepoFits', ScansFit, NEW author, Grown(author), UNCHANGED scanVars, approved' \subseteq Cases
  PROVE  ScansFit'
<1>1. CacheFits(cache)'
  <2>1. PICK c : c = cache
    OBVIOUS
  <2>2. CacheFits(c)'
    BY <2>1, CacheSurvives DEF ScansFit
  <2> QED BY <2>1, <2>2 DEF CacheFits, scanVars
<1>2. ASSUME NEW t \in Scans PROVE RowFits(scan[t])'
  <2>1. PICK s : s = scan[t]
    OBVIOUS
  <2>2. RowFits(s)'
    BY <2>1, RowSurvives DEF ScansFit
  <2>3. scan'[t] = s
    BY <2>1 DEF scanVars
  <2> QED BY <2>2, <2>3, SameRow
<1> QED BY <1>1, <1>2 DEF ScansFit, scanVars

------------------------------------------------------------------------------
LEMMA ScansStayFit == IInv /\ ScansFit /\ [Next]_vars => ScansFit'
<1> SUFFICES ASSUME IInv, ScansFit, [Next]_vars PROVE ScansFit'
  OBVIOUS
<1>1. RepoFits /\ RepoFits' /\ \E author : Grown(author)
  BY StepsLandSafely DEF IInv
<1>2. approved \subseteq Cases
  BY DEF ScansFit
<1>3. CASE UNCHANGED scanVars /\ approved' \subseteq Cases
  BY <1>1, <1>3, OthersKeepScans
<1>4. ASSUME NEW r \in Scans, StartScan(r) \/ ScanStep(r) \/ ScanFails(r)
      PROVE  ScansFit'
  <2>1. CASE StartScan(r)
    BY <1>1, <2>1, StartFits DEF StartScan
  <2> QED BY <1>1, <1>4, <2>1, ListTreeFits, CoverFits, ScanHeadFits, ScanGetFits, ScanFailsFits DEF ScanStep
<1>5. CASE UNCHANGED vars
  BY <1>2, <1>3, <1>5 DEF vars, scanVars
<1>6. CASE Next
  BY <1>2, <1>3, <1>4, <1>6 DEF Next, Relink, Approve
<1> QED BY <1>5, <1>6

LEMMA ScansInvariance == Spec => [](IInv /\ ScansFit)
BY Invariance, InitScansFit, ScansStayFit, PTL DEF Spec

\* Every cached and every answered scan is the whole scan of its own commit and tests folder, each
\* key is cached once and within the limit, for any number of requests, workers, files and entries
\* (CoverageService.coverage, mapWithConcurrency, CoverageCache).
THEOREM CoverageStaysWithItsCommit == Spec => []CoverageIsOfItsCommit
<1>1. ScansFit => CoverageIsOfItsCommit
  <2> SUFFICES ASSUME ScansFit PROVE CoverageIsOfItsCommit
    OBVIOUS
  <2>1. cache \in Seq(Entry) /\ DOMAIN cache = 1 .. Len(cache)
    BY DEF ScansFit, CacheFits
  <2>2. \A r \in Scans : scan[r].pc = "answered" =>
          /\ scan[r].answer.skipped = ScanOf(KeyOf(scan[r])).skipped
          /\ scan[r].answer.covered \subseteq TagsOf(scan[r])
          /\ scan[r].answer.notAutomated \cap TagsOf(scan[r]) = {}
    BY DEF ScansFit, RowFits
  <2> QED BY <2>1, <2>2 DEF ScansFit, CacheFits, CoverageIsOfItsCommit, KeyOf, TagsOf
<1> QED BY <1>1, ScansInvariance, PTL

\* Every variable holds values of its kind, for every value of the constants.
THEOREM TypeCorrect == Spec => []TypeOK
<1>1. RepoFits => RepoTypeOK
  <2> SUFFICES ASSUME RepoFits PROVE RepoTypeOK
    OBVIOUS
  <2>1. ASSUME NEW c \in 1 .. Len(commits) PROVE commits[c] \in GitlabCommit
    <3>1. commits[c] \in CommitRow /\ Len(commits) \in Nat
      BY DEF RepoFits
    <3>2. \A p \in Paths : commits[c].files[p] \in Nat /\ commits[c].files[p] <= Len(commits)
      BY <3>1 DEF RepoFits, Commits, CommitRow
    <3>3. commits[c].files \in [Paths -> 0 .. Len(commits)]
      BY <3>1, <3>2 DEF CommitRow
    <3> QED BY <3>1, <3>3 DEF CommitRow, GitlabCommit
  <2>2. commits \in Seq(GitlabCommit)
    <3>1. Len(commits) \in Nat /\ commits \in [1 .. Len(commits) -> CommitRow]
      BY DEF RepoFits
    <3>2. commits \in [1 .. Len(commits) -> GitlabCommit]
      BY <2>1, <3>1
    <3> QED BY <3>1, <3>2
  <2> QED BY <2>2 DEF RepoFits, RepoTypeOK
<1>2. RepoFits /\ SavesFit => SaveTypeOK
  <2> SUFFICES ASSUME RepoFits, SavesFit,
                      NEW s \in Saves
               PROVE  save[s] \in [pc : SaveSteps, path : Paths, content : Contents, exists : BOOLEAN,
                                   loaded : 0 .. Len(commits), head : 0 .. Len(commits),
                                   commit : 0 .. Len(commits), mr : 0 .. Len(mrs),
                                   files : SUBSET Paths, codes : SUBSET AllCodes,
                                   alone : BOOLEAN, answer : Answers]
    BY DEF SaveTypeOK, SavesFit
  <2>1. save[s] \in SaveRow /\ Len(commits) \in Nat /\ Len(mrs) \in Nat
    BY DEF SavesFit, RepoFits
  <2>2. /\ save[s].loaded \in 0 .. Len(commits) /\ save[s].head \in 0 .. Len(commits)
        /\ save[s].commit \in 0 .. Len(commits) /\ save[s].mr \in 0 .. Len(mrs)
    BY <2>1 DEF SavesFit, SaveFits, SaveRow
  <2> QED BY <2>1, <2>2 DEF SaveRow
<1>3. RepoFits /\ ScansFit => ScanTypeOK
  <2> SUFFICES ASSUME RepoFits, ScansFit PROVE ScanTypeOK
    OBVIOUS
  <2>1. ASSUME NEW i \in DOMAIN cache
        PROVE  cache[i].key \in Commits \X TestsPaths /\ cache[i].scan \in ScanResults
    <3>1. i \in 1 .. Len(cache) /\ cache[i].scan = ScanOf(cache[i].key) /\ cache[i].key \in Commits \X TestsPaths
      BY DEF ScansFit, CacheFits
    <3>2. ScanOf(cache[i].key) = [found |-> ScanOf(cache[i].key).found, skipped |-> ScanOf(cache[i].key).skipped]
      BY DEF ScanOf
    <3>3. /\ ScanOf(cache[i].key).found \subseteq Paths \X Commits
          /\ ScanOf(cache[i].key).skipped \subseteq Paths
      BY <3>1, ScanOfFits
    <3> QED BY <3>1, <3>2, <3>3 DEF ScanResults
  <2>2. ASSUME NEW r \in Scans
        PROVE  /\ scan[r].pc \in {"new", "tree", "scan", "cases", "answered", "failed"}
               /\ scan[r].result \in ScanResults /\ scan[r].next \in 1 .. Len(scan[r].files) + 1
               /\ \A w \in Workers : scan[r].slots[w].index \in 0 .. Len(scan[r].files)
    <3>1. RowFits(scan[r]) /\ scan[r] \in ScanRow
      BY DEF ScansFit, RowFits
    <3>2. /\ scan[r].pc \in {"new", "tree", "scan", "cases", "answered", "failed"}
          /\ scan[r].next \in Nat \ {0} /\ scan[r].slots \in [Workers -> Slot]
          /\ scan[r].result \in ScanResult /\ Len(scan[r].files) \in Nat
      BY <3>1 DEF ScanRow
    <3>3. scan[r].result \in ScanResults
      BY <3>1, <3>2 DEF RowFits, ScanResult, ScanResults
    <3>4. \A w \in Workers : scan[r].slots[w].index \in Nat
      BY <3>2 DEF Slot
    <3> QED BY <3>1, <3>2, <3>3, <3>4 DEF RowFits
  <2> QED BY <2>1, <2>2 DEF ScansFit, ScanTypeOK
<1>4. IInv /\ ScansFit => TypeOK
  BY <1>1, <1>2, <1>3 DEF IInv, TypeOK
<1> QED BY <1>4, ScansInvariance, PTL
==============================================================================
