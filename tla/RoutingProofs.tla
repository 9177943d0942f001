--------------------------- MODULE RoutingProofs ---------------------------
(***************************************************************************)
(* What TLAPS proves of the routing of candidates in Contracts, for any    *)
(* policy, any queue and any candidates.  A run of the router is a loop    *)
(* over the candidates, and in it loops over the files and the tasks of    *)
(* each; what they keep true is proved by the induction of FoldFacts, and  *)
(* that of two runs over the same candidates by a loop over both at once.  *)
(***************************************************************************)
EXTENDS ContractsProofs

-----------------------------------------------------------------------------
(* Routing: what a run has done, and what it keeps while it goes on.       *)

\* What Starting has of a run.
RunFields == {"policy", "snapshot", "counted", "verifies", "seen", "results", "routed",
              "raised", "routedHere", "deferredHere", "broke"}

\* The verifications among the tasks of a run.
Checks(done) == {t \in ToSet(done.routed) : t.type = "verify_claim"}

IsRun(done) ==
    /\ DOMAIN done = RunFields
    /\ done.policy.max_verify \in Nat /\ done.policy.max_scans \in Nat
    /\ done.verifies \in Nat
    /\ IsList(done.routed)
    /\ IsFiniteSet(Checks(done))

\* A run keeps its tasks, and counts each verification, up to the limit.
Continues(from, done) ==
    /\ IsRun(done)
    /\ done.policy = from.policy /\ done.snapshot = from.snapshot
    /\ ToSet(from.routed) \subseteq ToSet(done.routed)
    /\ from.verifies + Cardinality(Checks(done)) <= done.verifies + Cardinality(Checks(from))
    /\ done.verifies <= Larger(from.policy.max_verify, from.verifies)

\* What has become of the tasks of one candidate.
TasksDone(from, done, tasks) ==
    /\ Continues(from, done)
    /\ done.seen = from.seen /\ done.results = from.results
    /\ done.broke => done.deferredHere # {}
    /\ done.deferredHere = {} => ToSet(tasks) \subseteq ToSet(done.routed)

\* The files found are those listed that were not seen before.
FilesFound(from, found, list) ==
    /\ DOMAIN found = {"seen", "files"}
    /\ IsList(found.files)
    /\ found.seen = from.seen \cup ToSet(found.files)
    /\ ToSet(list) \subseteq found.seen
    /\ Len(found.files) <= Len(list)

Tasks == INSTANCE FoldFacts WITH Op <- Router!RouteTask, P <- TasksDone
Files == INSTANCE FoldFacts WITH Op <- Router!AddFile, P <- FilesFound

\* The module of the router counts and lists by the same definitions.
LEMMA SameRouterOperators ==
  ASSUME NEW S
  PROVE  Router!Cardinality(S) = Cardinality(S) /\ Router!ToSet(S) = ToSet(S)
BY DEF Router!Cardinality, Cardinality, Router!ToSet, ToSet

\* A list of one.
LEMMA ListOfOne ==
  ASSUME NEW x
  PROVE  IsList(<<x>>) /\ ToSet(<<x>>) = {x} /\ Len(<<x>>) = 1
<1>1. <<x>> = Append(<<>>, x)
  OBVIOUS
<1>2. IsList(Append(<<>>, x)) /\ ToSet(Append(<<>>, x)) = ToSet(<<>>) \cup {x}
  BY EmptyList, ListsGrow
<1> QED
  BY <1>1, <1>2, EmptyList DEF IsList

\* What continues a run that continues another continues that one.
LEMMA ContinuingGoesOn ==
  ASSUME NEW a, NEW b, NEW c, IsRun(a), Continues(a, b), Continues(b, c)
  PROVE  Continues(a, c)
<1>1. /\ a.verifies \in Nat /\ b.verifies \in Nat /\ c.verifies \in Nat
      /\ a.policy.max_verify \in Nat /\ b.policy = a.policy
      /\ Cardinality(Checks(a)) \in Nat /\ Cardinality(Checks(b)) \in Nat
      /\ Cardinality(Checks(c)) \in Nat
  BY FS_CardinalityType DEF Continues, IsRun
<1>2. a.verifies + Cardinality(Checks(c)) <= c.verifies + Cardinality(Checks(a))
  <2>1. /\ a.verifies + Cardinality(Checks(b)) <= b.verifies + Cardinality(Checks(a))
        /\ b.verifies + Cardinality(Checks(c)) <= c.verifies + Cardinality(Checks(b))
    BY DEF Continues
  <2> QED
    BY <1>1, <2>1
<1>3. c.verifies <= Larger(a.policy.max_verify, a.verifies)
  BY <1>1 DEF Continues, Larger
<1> QED
  BY <1>1, <1>2, <1>3 DEF Continues

\* Two sums stay in order when the part of each that grows grows alike.
LEMMA TogetherNoMore ==
  ASSUME NEW a \in Nat, NEW b \in Nat, NEW c \in Nat, NEW d \in Nat, NEW e \in Nat,
         NEW g \in Nat, NEW k \in Nat, a + b <= c + d, e = c + k, g <= b + k
  PROVE  a + g <= e + d
OBVIOUS

\* One more task of a candidate.
LEMMA TaskIsDone ==
  ASSUME NEW from, IsRun(from), NEW X, NEW done, NEW tasks \in Seq(X), NEW task \in X,
         TasksDone(from, done, tasks)
  PROVE  TasksDone(from, Router!RouteTask(done, task), Append(tasks, task))
<1> DEFINE next == Router!RouteTask(done, task)
           budget == done.routedHere >= done.policy.max_per_candidate
           check == task.type = "verify_claim"
           full == done.verifies >= done.policy.max_verify
<1>0. ToSet(Append(tasks, task)) = ToSet(tasks) \cup {task}
  BY ElementsAppended
<1>1. /\ DOMAIN done = RunFields /\ IsRun(done) /\ Continues(from, done)
      /\ done.policy = from.policy /\ done.snapshot = from.snapshot
      /\ done.verifies \in Nat /\ from.verifies \in Nat
      /\ from.policy.max_verify \in Nat
      /\ IsList(done.routed) /\ IsFiniteSet(Checks(done))
      /\ Cardinality(Checks(done)) \in Nat /\ Cardinality(Checks(from)) \in Nat
  BY FS_CardinalityType DEF TasksDone, Continues, IsRun
<1>2. CASE done.broke
  <2>1. next = done
    BY <1>2 DEF Router!RouteTask
  <2> QED
    BY <1>2, <2>1 DEF TasksDone
<1>3. CASE ~done.broke /\ (budget \/ (check /\ full))
  <2>1. /\ DOMAIN next = DOMAIN done
        /\ next.policy = done.policy /\ next.seen = done.seen /\ next.results = done.results
        /\ next.verifies = done.verifies /\ next.routed = done.routed
        /\ next.deferredHere # {} /\ next.snapshot = done.snapshot
    BY <1>1, <1>3 DEF Router!RouteTask, RunFields
  <2>2. Checks(next) = Checks(done)
    BY <2>1 DEF Checks
  <2> HIDE DEF next
  <2>3. Continues(from, next)
    BY <1>1, <2>1, <2>2 DEF Continues, IsRun
  <2>4. TasksDone(from, next, Append(tasks, task))
    BY <2>1, <2>3 DEF TasksDone
  <2> QED
    BY <2>4 DEF next
<1>4. CASE ~done.broke /\ ~budget /\ ~(check /\ full)
  <2>1. /\ DOMAIN next = DOMAIN done
        /\ next.policy = done.policy /\ next.seen = done.seen /\ next.results = done.results
        /\ next.routed = Append(done.routed, task)
        /\ next.verifies = IF check THEN done.verifies + 1 ELSE done.verifies
        /\ next.deferredHere = done.deferredHere /\ next.broke = done.broke
        /\ next.snapshot = done.snapshot
    BY <1>1, <1>4 DEF Router!RouteTask, RunFields
  <2>2. IsList(next.routed) /\ ToSet(next.routed) = ToSet(done.routed) \cup {task}
    BY <1>1, <2>1, ListsGrow
  <2>3. Checks(next) = IF check THEN Checks(done) \cup {task} ELSE Checks(done)
    BY <2>2 DEF Checks
  <2>4. /\ IsFiniteSet(Checks(next))
        /\ Cardinality(Checks(next)) <= Cardinality(Checks(done)) + IF check THEN 1 ELSE 0
        /\ Cardinality(Checks(next)) \in Nat
    <3>1. CASE check /\ task \notin Checks(done)
      <4>1. Checks(next) = Checks(done) \cup {task}
        BY <2>3, <3>1
      <4>2. /\ IsFiniteSet(Checks(next))
            /\ Cardinality(Checks(next)) = Cardinality(Checks(done)) + 1
        BY <1>1, <3>1, <4>1, FS_AddElement
      <4> QED
        BY <1>1, <3>1, <4>2
    <3>2. CASE check /\ task \in Checks(done)
      <4>1. Checks(next) = Checks(done)
        BY <2>3, <3>2
      <4> QED
        BY <1>1, <3>2, <4>1
    <3>3. CASE ~check
      BY <1>1, <2>3, <3>3
    <3> QED
      BY <3>1, <3>2, <3>3
  <2> HIDE DEF next
  <2>5. next.verifies \in Nat /\ next.verifies <= Larger(from.policy.max_verify, from.verifies)
    <3>1. done.verifies <= Larger(from.policy.max_verify, from.verifies)
      BY DEF TasksDone, Continues
    <3>2. CASE check
      <4>1. done.verifies + 1 <= from.policy.max_verify
        BY <1>1, <1>4, <3>2
      <4> QED
        BY <1>1, <2>1, <3>2, <4>1 DEF Larger
    <3>3. CASE ~check
      BY <1>1, <2>1, <3>1, <3>3
    <3> QED
      BY <3>2, <3>3
  <2>6. from.verifies + Cardinality(Checks(next)) <= next.verifies + Cardinality(Checks(from))
    <3>1. from.verifies + Cardinality(Checks(done)) <= done.verifies + Cardinality(Checks(from))
      BY DEF TasksDone, Continues
    <3>2. /\ next.verifies = done.verifies + IF check THEN 1 ELSE 0
          /\ Cardinality(Checks(next)) <= Cardinality(Checks(done)) + IF check THEN 1 ELSE 0
      BY <1>1, <2>1, <2>4
    <3>3. next.verifies \in Nat /\ (IF check THEN 1 ELSE 0) \in Nat
      BY <2>5
    <3> HIDE DEF check
    <3> QED
      BY <1>1, <2>4, <3>1, <3>2, <3>3, TogetherNoMore
  <2>7. Continues(from, next)
    <3>1. IsRun(next)
      BY <1>1, <2>1, <2>2, <2>4, <2>5 DEF IsRun
    <3> QED
      BY <1>1, <2>1, <2>2, <2>5, <2>6, <3>1 DEF Continues
  <2>8. TasksDone(from, next, Append(tasks, task))
    BY <1>0, <1>4, <2>1, <2>2, <2>7 DEF TasksDone
  <2> QED
    BY <2>8 DEF next
<1> HIDE DEF budget, check, full, next
<1>5. done.broke \/ (~done.broke /\ (budget \/ (check /\ full)))
      \/ (~done.broke /\ ~budget /\ ~(check /\ full))
  OBVIOUS
<1> QED
  BY <1>2, <1>3, <1>4, <1>5

\* The length of a list.
LEMMA ListLength == ASSUME NEW s, IsList(s) PROVE Len(s) \in Nat /\ DOMAIN s = 1..Len(s)
BY LenProperties DEF IsList

\* One more file of a candidate.
LEMMA FileIsFound ==
  ASSUME NEW from, NEW X, NEW found, NEW list \in Seq(X), NEW f \in X,
         FilesFound(from, found, list)
  PROVE  FilesFound(from, Router!AddFile(found, f), Append(list, f))
<1>0. ToSet(Append(list, f)) = ToSet(list) \cup {f}
  BY ElementsAppended
<1>a. /\ Len(Append(list, f)) = Len(list) + 1 /\ Len(list) \in Nat
      /\ Len(found.files) \in Nat /\ Len(found.files) <= Len(list)
  BY ListLength, LenProperties, AppendProperties DEF FilesFound
<1>1. CASE f \in found.seen
  <2>1. Router!AddFile(found, f) = found
    BY <1>1 DEF Router!AddFile
  <2> QED
    BY <1>0, <1>a, <1>1, <2>1 DEF FilesFound
<1>2. CASE f \notin found.seen
  <2> DEFINE next == Router!AddFile(found, f)
  <2>1. /\ DOMAIN next = {"seen", "files"}
        /\ next.seen = found.seen \cup {f} /\ next.files = Append(found.files, f)
    BY <1>2 DEF Router!AddFile
  <2>2. /\ IsList(next.files) /\ ToSet(next.files) = ToSet(found.files) \cup {f}
        /\ Len(next.files) = Len(found.files) + 1
    BY <2>1, ListsGrow DEF FilesFound
  <2> HIDE DEF next
  <2>3. FilesFound(from, next, Append(list, f))
    BY <1>0, <1>a, <2>1, <2>2 DEF FilesFound
  <2> QED
    BY <2>3 DEF next
<1> QED
  BY <1>1, <1>2

\* A candidate comes with its files in a list.
IsCandidate(candidate) ==
    candidate.type = "cross_file_correlation" => IsList(candidate.files)

\* The files of a candidate are seen, or new.
LEMMA FilesAreSeenOrNew ==
  ASSUME NEW done, done.policy.max_scans \in Nat, NEW candidate, IsCandidate(candidate)
  PROVE  LET files == Router!FilesOf(done.policy, candidate)
             new == Router!NewFiles(done, candidate)
         IN  /\ IsList(new) /\ ToSet(files) \subseteq done.seen \cup ToSet(new)
             /\ candidate.type # "cross_file_correlation" => Len(new) <= 1
<1> DEFINE files == Router!FilesOf(done.policy, candidate)
           new == Router!NewFiles(done, candidate)
           base == [seen |-> done.seen, files |-> <<>>]
<1>1. IsList(files) /\ (candidate.type # "cross_file_correlation" => Len(files) <= 1)
  <2>1. CASE candidate.type \in {"risk_candidate", "policy_candidate"}
    <3>1. files = <<candidate.file>>
      BY <2>1 DEF Router!FilesOf
    <3> HIDE DEF files
    <3> QED
      BY <3>1, ListOfOne
  <2>2. CASE candidate.type = "cross_file_correlation"
    <3> DEFINE all == candidate.files
               m == IF done.policy.max_scans < Len(all) THEN done.policy.max_scans
                    ELSE Len(all)
    <3>1. files = SubSeq(all, 1, m)
      BY <2>2 DEF Router!FilesOf
    <3>2. all \in Seq(ToSet(all)) /\ Len(all) \in Nat /\ DOMAIN all = 1..Len(all)
      BY <2>2, LenProperties DEF IsCandidate, IsList
    <3>3. m \in Nat /\ m <= Len(all)
      BY <3>2
    <3> HIDE DEF m, files
    <3>4. /\ files \in Seq(ToSet(all)) /\ Len(files) = m
          /\ DOMAIN files = 1..m
          /\ \A i \in 1..m : files[i] = all[i]
      BY <3>1, <3>2, <3>3
    <3>5. \A i \in 1..Len(files) : files[i] \in ToSet(files)
      BY <3>4 DEF ToSet
    <3>6. files \in [1..Len(files) -> ToSet(files)] /\ Len(files) \in Nat
      BY <3>3, <3>4, <3>5, LenProperties
    <3> QED
      BY <2>2, <3>6, SeqDef DEF IsList
  <2>3. CASE candidate.type \notin {"risk_candidate", "policy_candidate",
                                    "cross_file_correlation"}
    <3>1. files = <<>>
      BY <2>3 DEF Router!FilesOf
    <3> HIDE DEF files
    <3> QED
      BY <3>1, EmptyList, EmptySeq
  <2> QED
    BY <2>1, <2>2, <2>3
<1>2. CASE ~done.policy.suppress
  <2>1. new = files
    BY <1>2 DEF Router!NewFiles
  <2> QED
    BY <1>1, <2>1
<1>3. CASE done.policy.suppress
  <2>1. new = Router!FoldLeft(Router!AddFile, base, files).files
    BY <1>3 DEF Router!NewFiles
  <2>2. Router!FoldLeft(Router!AddFile, base, files) =
            Files!FoldLeft(Router!AddFile, base, files)
    BY DEF Files!FoldLeft, Files!MapThenFoldSet, Files!Max,
           Router!FoldLeft, Router!MapThenFoldSet, Router!Max
  <2>3. FilesFound(base, base, <<>>)
    BY EmptyList DEF FilesFound
  <2>4. base.seen = done.seen
    OBVIOUS
  <2> HIDE DEF base, files, new
  <2>5. \A found, list, f :
            FilesFound(base, found, list) /\ list \in Seq(ToSet(files)) /\ f \in ToSet(files) =>
                FilesFound(base, Router!AddFile(found, f), Append(list, f))
    BY FileIsFound
  <2>6. files \in Seq(ToSet(files))
    BY <1>1 DEF IsList
  <2>7. FilesFound(base, Files!FoldLeft(Router!AddFile, base, files), files)
    BY <2>3, <2>5, <2>6, Files!FoldInduction
  <2>8. /\ IsList(new) /\ ToSet(files) \subseteq done.seen \cup ToSet(new)
        /\ Len(new) <= Len(files)
    BY <2>1, <2>2, <2>4, <2>7 DEF FilesFound
  <2>9. Len(new) \in Nat /\ Len(files) \in Nat
    BY <1>1, <2>8, ListLength
  <2>10. candidate.type # "cross_file_correlation" => Len(new) <= 1
    BY <1>1, <2>8, <2>9 DEF files
  <2> QED
    BY <2>8, <2>10 DEF files, new
<1> QED
  BY <1>2, <1>3

\* A task among these has this value as its target.
Asks(tasks, value) == \E t \in tasks : t.value = value

\* No candidate asks for more than one verification.
OneCheck(tasks) ==
    Len(tasks) <= 1 \/ \A t \in ToSet(tasks) : t.type # "verify_claim"

\* The tasks of a candidate ask for what it is about, but for files that were seen.
LEMMA TasksAskForCandidate ==
  ASSUME NEW done, done.policy.max_scans \in Nat, NEW candidate, IsCandidate(candidate)
  PROVE  LET tasks == Router!TasksFor(done, candidate)
         IN  /\ IsList(tasks) /\ OneCheck(tasks)
             /\ candidate.type = "verification_target" /\ candidate.target = "observation" =>
                    Asks(ToSet(tasks), candidate.target_id)
             /\ \A f \in ToSet(Router!FilesOf(done.policy, candidate)) :
                    f \in done.seen \/ Asks(ToSet(tasks), f)
<1> DEFINE tasks == Router!TasksFor(done, candidate)
           files == Router!FilesOf(done.policy, candidate)
           new == Router!NewFiles(done, candidate)
           snapshot == Router!SnapshotOf(candidate, done.snapshot)
           type == IF candidate.type = "cross_file_correlation"
                   THEN "module_scan" ELSE "verify_claim"
<1>1. /\ IsList(new) /\ ToSet(files) \subseteq done.seen \cup ToSet(new)
      /\ candidate.type # "cross_file_correlation" => Len(new) <= 1
  BY FilesAreSeenOrNew
<1>2. CASE candidate.type # "verification_target"
  <2>1. tasks = [i \in DOMAIN new |-> Router!Task(type, "path", new[i], snapshot)]
    BY <1>2 DEF Router!TasksFor
  <2>2. new \in Seq(ToSet(new)) /\ Len(new) \in Nat /\ DOMAIN new = 1..Len(new)
    BY <1>1, LenProperties DEF IsList
  <2>a. type = "verify_claim" => candidate.type # "cross_file_correlation"
    OBVIOUS
  <2> HIDE DEF tasks, new, files, type, snapshot
  <2>b. /\ \A i \in 1..Len(new) : tasks[i].type = type
        /\ tasks = [i \in 1..Len(new) |-> tasks[i]]
    BY <2>1, <2>2 DEF Router!Task
  <2>3. /\ DOMAIN tasks = 1..Len(new)
        /\ \A i \in 1..Len(new) : tasks[i] \in ToSet(tasks) /\ tasks[i].value = new[i]
    BY <2>1, <2>2 DEF ToSet, Router!Task
  <2>4. tasks \in [1..Len(new) -> ToSet(tasks)]
    BY <2>1, <2>2, <2>3
  <2>5. IsList(tasks)
    BY <2>2, <2>4, SeqDef DEF IsList
  <2>6. \A f \in ToSet(new) : Asks(ToSet(tasks), f)
    <3> SUFFICES ASSUME NEW f \in ToSet(new) PROVE Asks(ToSet(tasks), f)
      OBVIOUS
    <3>1. PICK i \in 1..Len(new) : f = new[i]
      BY <2>2 DEF ToSet
    <3> QED
      BY <2>3, <3>1 DEF Asks
  <2>7. \A f \in ToSet(files) : f \in done.seen \/ Asks(ToSet(tasks), f)
    BY <1>1, <2>6
  <2>8. OneCheck(tasks)
    <3>1. CASE type = "verify_claim"
      <4>1. Len(tasks) = Len(new)
        BY <2>2, <2>3, <2>5, ListLength
      <4> QED
        BY <1>1, <2>a, <3>1, <4>1 DEF OneCheck
    <3>2. CASE type # "verify_claim"
      BY <2>3, <2>b, <3>2 DEF OneCheck, ToSet
    <3> QED
      BY <3>1, <3>2
  <2> QED
    BY <1>2, <2>5, <2>7, <2>8 DEF tasks, files
<1>3. CASE candidate.type = "verification_target"
  <2>1. files = <<>>
    BY <1>3 DEF Router!FilesOf
  <2>2. CASE candidate.target = "observation"
    <3> DEFINE task == Router!Task("verify_claim", "observation", candidate.target_id, snapshot)
    <3>1. tasks = <<task>>
      BY <1>3, <2>2 DEF Router!TasksFor
    <3>2. task.value = candidate.target_id
      BY DEF Router!Task
    <3> HIDE DEF task, tasks, files
    <3>3. IsList(tasks) /\ ToSet(tasks) = {task} /\ OneCheck(tasks)
      BY <3>1, ListOfOne DEF OneCheck
    <3> QED
      BY <2>1, <3>2, <3>3, EmptyList DEF Asks, tasks, files
  <2>3. CASE candidate.target # "observation"
    <3>1. tasks = <<>>
      BY <1>3, <2>3 DEF Router!TasksFor
    <3> HIDE DEF tasks, files
    <3>2. OneCheck(tasks)
      BY <3>1, EmptyList DEF OneCheck
    <3> QED
      BY <2>1, <2>3, <3>1, <3>2, EmptyList DEF tasks, files
  <2> QED
    BY <2>2, <2>3
<1> QED
  BY <1>2, <1>3

\* A run goes through the tasks of a candidate.
LEMMA TasksAreDone ==
  ASSUME NEW from, IsRun(from), from.deferredHere = {}, ~from.broke,
         NEW tasks, IsList(tasks)
  PROVE  TasksDone(from, Router!FoldLeft(Router!RouteTask, from, tasks), tasks)
<1>1. TasksDone(from, from, <<>>)
  BY EmptyList, FS_CardinalityType DEF TasksDone, Continues, IsRun, Larger
<1>2. \A done, list, task :
          TasksDone(from, done, list) /\ list \in Seq(ToSet(tasks)) /\ task \in ToSet(tasks) =>
              TasksDone(from, Router!RouteTask(done, task), Append(list, task))
  BY TaskIsDone
<1>3. tasks \in Seq(ToSet(tasks))
  BY DEF IsList
<1>4. TasksDone(from, Tasks!FoldLeft(Router!RouteTask, from, tasks), tasks)
  BY <1>1, <1>2, <1>3, Tasks!FoldInduction
<1>5. Tasks!FoldLeft(Router!RouteTask, from, tasks) =
          Router!FoldLeft(Router!RouteTask, from, tasks)
  BY DEF Tasks!FoldLeft, Tasks!MapThenFoldSet, Tasks!Max,
         Router!FoldLeft, Router!MapThenFoldSet, Router!Max
<1> QED
  BY <1>4, <1>5

-----------------------------------------------------------------------------
(* Routing: the candidates of a run.                                       *)

\* The files a candidate names, as far as the policy looks.
FilesNamed(done, candidate) == ToSet(Router!FilesOf(done.policy, candidate))

\* The candidates an outcome was reported for.
Reported(done) == {r.candidate : r \in done.results}

\* One of the first n candidates names the file, and its deferral was reported.
Excused(done, candidates, f, n) ==
    \E j \in 1..n : /\ f \in FilesNamed(done, candidates[j])
                    /\ candidates[j].id \in Reported(done)

\* A candidate was reported, or each thing it asks for was, or was excused.
AccountedFor(done, candidates, i) ==
    \/ candidates[i].id \in Reported(done)
    \/ /\ /\ candidates[i].type = "verification_target"
          /\ candidates[i].target = "observation"
          => Asks(ToSet(done.routed), candidates[i].target_id)
       /\ \A f \in FilesNamed(done, candidates[i]) :
              Asks(ToSet(done.routed), f) \/ Excused(done, candidates, f, i - 1)

\* What has become of the candidates, and of the files that were seen with them.
CandidatesDone(from, done, candidates) ==
    /\ Continues(from, done)
    /\ \/ done.raised
       \/ /\ \A i \in 1..Len(candidates) : AccountedFor(done, candidates, i)
          /\ \A f \in done.seen :
                 Asks(ToSet(done.routed), f) \/ Excused(done, candidates, f, Len(candidates))

Candidates == INSTANCE FoldFacts WITH Op <- Router!RouteCandidate, P <- CandidatesDone

\* Another candidate changes nothing for those that came before it.
LEMMA AccountsStay ==
  ASSUME NEW X, NEW list \in Seq(X), NEW candidate \in X, NEW done, NEW next,
         next.policy = done.policy, ToSet(done.routed) \subseteq ToSet(next.routed),
         Reported(done) \subseteq Reported(next)
  PROVE  /\ \A f, n : n \in 0..Len(list) /\ Excused(done, list, f, n) =>
                Excused(next, Append(list, candidate), f, n)
         /\ \A i \in 1..Len(list) : AccountedFor(done, list, i) =>
                AccountedFor(next, Append(list, candidate), i)
<1> DEFINE more == Append(list, candidate)
<1>1. Len(list) \in Nat /\ \A i \in 1..Len(list) : more[i] = list[i]
  BY LenProperties, AppendProperties
<1>2. \A c : FilesNamed(next, c) = FilesNamed(done, c)
  BY DEF FilesNamed
<1>3. \A v : Asks(ToSet(done.routed), v) => Asks(ToSet(next.routed), v)
  BY DEF Asks
<1> HIDE DEF more
<1>4. ASSUME NEW f, NEW n \in 0..Len(list), Excused(done, list, f, n)
      PROVE  Excused(next, more, f, n)
  <2>1. PICK j \in 1..n : f \in FilesNamed(done, list[j]) /\ list[j].id \in Reported(done)
    BY <1>4 DEF Excused
  <2>2. j \in 1..Len(list)
    BY <1>1
  <2>3. more[j] = list[j]
    BY <1>1, <2>2
  <2> QED
    BY <1>2, <2>1, <2>3 DEF Excused
<1>5. ASSUME NEW i \in 1..Len(list), AccountedFor(done, list, i)
      PROVE  AccountedFor(next, more, i)
  <2>1. more[i] = list[i] /\ i - 1 \in 0..Len(list)
    BY <1>1
  <2> QED
    BY <1>2, <1>3, <1>4, <1>5, <2>1 DEF AccountedFor
<1> QED
  BY <1>4, <1>5 DEF more

\* What RouteTasks does with the tasks of a candidate.
LEMMA TasksOfCandidate ==
  ASSUME NEW done, IsRun(done), NEW candidate, IsCandidate(candidate)
  PROVE  LET next == Router!RouteTasks(done, candidate)
             tasks == Router!TasksFor(done, candidate)
         IN  /\ Continues(done, next) /\ IsList(tasks) /\ OneCheck(tasks)
             /\ next.seen = done.seen \cup FilesNamed(done, candidate)
             /\ \E deferred :
                    /\ next.results = done.results \cup {Router!Result(o, candidate) :
                                                            o \in deferred}
                    /\ deferred = {} => ToSet(tasks) \subseteq ToSet(next.routed)
<1> DEFINE files == Router!FilesOf(done.policy, candidate)
           tasks == Router!TasksFor(done, candidate)
           started == [done EXCEPT !.routedHere = 0, !.deferredHere = {}, !.broke = FALSE,
                                   !.seen = @ \cup Router!ToSet(files)]
           routed == Router!FoldLeft(Router!RouteTask, started, tasks)
           next == Router!RouteTasks(done, candidate)
<1>1. DOMAIN done = RunFields /\ done.policy.max_scans \in Nat
  BY DEF IsRun
<1>2. /\ DOMAIN started = RunFields
      /\ started.policy = done.policy /\ started.snapshot = done.snapshot
      /\ started.seen = done.seen \cup FilesNamed(done, candidate)
      /\ started.routed = done.routed
      /\ started.results = done.results /\ started.verifies = done.verifies
      /\ started.deferredHere = {} /\ ~started.broke
  <2>1. Router!ToSet(files) = FilesNamed(done, candidate)
    BY SameRouterOperators DEF FilesNamed
  <2> HIDE DEF files
  <2> QED
    BY <1>1, <2>1 DEF RunFields
<1> HIDE DEF started
<1>3. IsRun(started) /\ Checks(started) = Checks(done)
  BY <1>2 DEF IsRun, Checks
<1>4. IsList(tasks) /\ OneCheck(tasks)
  BY <1>1, TasksAskForCandidate
<1> HIDE DEF tasks
<1>5. TasksDone(started, routed, tasks)
  BY <1>2, <1>3, <1>4, TasksAreDone
<1>6. next = [routed EXCEPT !.results = @ \cup {Router!Result(o, candidate) :
                                                   o \in routed.deferredHere}]
  BY DEF Router!RouteTasks, started, tasks
<1> HIDE DEF routed, next, files
<1>7. /\ DOMAIN routed = RunFields
      /\ routed.policy = done.policy /\ routed.snapshot = done.snapshot
      /\ routed.seen = started.seen /\ routed.results = done.results
      /\ routed.deferredHere = {} => ToSet(tasks) \subseteq ToSet(routed.routed)
      /\ IsRun(routed)
  BY <1>2, <1>5 DEF TasksDone, Continues, IsRun
<1>8. /\ DOMAIN next = RunFields
      /\ next.policy = done.policy /\ next.snapshot = done.snapshot
      /\ next.seen = started.seen /\ next.routed = routed.routed
      /\ next.verifies = routed.verifies
      /\ next.results = done.results \cup {Router!Result(o, candidate) :
                                              o \in routed.deferredHere}
  BY <1>6, <1>7 DEF RunFields
<1>9. Continues(done, next)
  <2>1. Continues(started, routed)
    BY <1>5 DEF TasksDone
  <2>2. Checks(next) = Checks(routed)
    BY <1>8 DEF Checks
  <2> QED
    BY <1>2, <1>3, <1>7, <1>8, <2>1, <2>2 DEF Continues, IsRun
<1> QED
  BY <1>2, <1>4, <1>7, <1>8, <1>9 DEF next, tasks

\* The tasks of a candidate that is not refused.
LEMMA CandidateIsRouted ==
  ASSUME NEW from, IsRun(from), NEW X, NEW done, NEW list \in Seq(X), NEW candidate \in X,
         NEW before, IsCandidate(candidate), CandidatesDone(from, before, list), ~before.raised,
         done = [before EXCEPT !.counted = @ + 1]
  PROVE  CandidatesDone(from, Router!RouteTasks(done, candidate), Append(list, candidate))
<1> DEFINE files == FilesNamed(before, candidate)
           tasks == Router!TasksFor(done, candidate)
           next == Router!RouteTasks(done, candidate)
           more == Append(list, candidate)
<1>1. /\ DOMAIN before = RunFields
      /\ before.policy.max_scans \in Nat /\ before.policy = from.policy
      /\ IsRun(before) /\ Continues(from, before)
  BY DEF CandidatesDone, Continues, IsRun
<1>2. /\ DOMAIN done = RunFields
      /\ done.policy = before.policy /\ done.snapshot = before.snapshot
      /\ done.seen = before.seen /\ done.routed = before.routed
      /\ done.results = before.results /\ done.verifies = before.verifies
  BY <1>1 DEF RunFields
<1>3. IsRun(done) /\ Continues(from, done) /\ FilesNamed(done, candidate) = files
  BY <1>1, <1>2 DEF IsRun, Continues, Checks, FilesNamed
<1>4. /\ IsList(tasks)
      /\ candidate.type = "verification_target" /\ candidate.target = "observation" =>
             Asks(ToSet(tasks), candidate.target_id)
      /\ \A f \in files : f \in before.seen \/ Asks(ToSet(tasks), f)
  BY <1>1, <1>2, TasksAskForCandidate DEF FilesNamed
<1> HIDE DEF tasks
<1>5. PICK deferred :
          /\ Continues(done, next)
          /\ next.seen = before.seen \cup files
          /\ next.results = before.results \cup {Router!Result(o, candidate) : o \in deferred}
          /\ deferred = {} => ToSet(tasks) \subseteq ToSet(next.routed)
  <2>1. /\ Continues(done, next)
        /\ next.seen = done.seen \cup FilesNamed(done, candidate)
        /\ \E deferred :
               /\ next.results = done.results \cup {Router!Result(o, candidate) : o \in deferred}
               /\ deferred = {} => ToSet(Router!TasksFor(done, candidate)) \subseteq
                                     ToSet(next.routed)
    BY <1>3, TasksOfCandidate
  <2> HIDE DEF next, files
  <2> QED
    BY <1>2, <1>3, <2>1 DEF tasks
<1> HIDE DEF next
<1>6. Continues(from, next)
  BY <1>3, <1>5, ContinuingGoesOn
<1>7. /\ Reported(before) \subseteq Reported(next)
      /\ deferred # {} => candidate.id \in Reported(next)
  <2>1. \A o : Router!Result(o, candidate).candidate = candidate.id
    BY DEF Router!Result
  <2> QED
    BY <1>5, <2>1 DEF Reported
<1>8. /\ Len(list) \in Nat /\ Len(more) = Len(list) + 1
      /\ more[Len(list) + 1] = candidate
      /\ FilesNamed(next, candidate) = files
      /\ next.policy = before.policy
  BY <1>2, <1>5, LenProperties, AppendProperties DEF FilesNamed, Continues
<1> HIDE DEF more, files
<1>9. ToSet(before.routed) \subseteq ToSet(next.routed)
  BY <1>2, <1>5 DEF Continues
<1>10. /\ \A f, n : n \in 0..Len(list) /\ Excused(before, list, f, n) =>
              Excused(next, more, f, n)
       /\ \A i \in 1..Len(list) : AccountedFor(before, list, i) =>
              AccountedFor(next, more, i)
  BY <1>7, <1>8, <1>9, AccountsStay DEF more
<1>11. \A v : Asks(ToSet(before.routed), v) => Asks(ToSet(next.routed), v)
  BY <1>9 DEF Asks
<1>12. \A f \in before.seen :
           Asks(ToSet(next.routed), f) \/ Excused(next, more, f, Len(list))
  <2>1. \A f \in before.seen :
            Asks(ToSet(before.routed), f) \/ Excused(before, list, f, Len(list))
    BY DEF CandidatesDone
  <2>2. Len(list) \in 0..Len(list)
    BY <1>8
  <2> QED
    BY <1>10, <1>11, <2>1, <2>2
<1>13. CASE deferred # {}
  <2>1. AccountedFor(next, more, Len(list) + 1)
    BY <1>7, <1>8, <1>13 DEF AccountedFor
  <2>2. \A f \in files : Excused(next, more, f, Len(list) + 1)
    <3>1. Len(list) + 1 \in 1..(Len(list) + 1)
      BY <1>8
    <3> QED
      BY <1>7, <1>8, <1>13, <3>1 DEF Excused
  <2>3. \A f : Excused(next, more, f, Len(list)) => Excused(next, more, f, Len(list) + 1)
    BY <1>8 DEF Excused
  <2>4. \A f \in next.seen : Asks(ToSet(next.routed), f) \/ Excused(next, more, f, Len(more))
    BY <1>5, <1>8, <1>12, <2>2, <2>3
  <2>5. \A i \in 1..Len(more) : AccountedFor(next, more, i)
    <3>1. \A i \in 1..Len(more) : i \in 1..Len(list) \/ i = Len(list) + 1
      BY <1>8
    <3>2. \A i \in 1..Len(list) : AccountedFor(before, list, i)
      BY DEF CandidatesDone
    <3> QED
      BY <1>10, <2>1, <3>1, <3>2
  <2>6. CandidatesDone(from, next, more)
    BY <1>6, <2>4, <2>5 DEF CandidatesDone
  <2> QED
    BY <2>6 DEF next, more
<1>14. CASE deferred = {}
  <2>1. \A v : Asks(ToSet(tasks), v) => Asks(ToSet(next.routed), v)
    BY <1>5, <1>14 DEF Asks
  <2>2. \A f \in files :
            Asks(ToSet(next.routed), f) \/ Excused(next, more, f, Len(list))
    BY <1>4, <1>12, <2>1
  <2>3. AccountedFor(next, more, Len(list) + 1)
    <3>1. (Len(list) + 1) - 1 = Len(list)
      BY <1>8
    <3> QED
      BY <1>4, <1>8, <2>1, <2>2, <3>1 DEF AccountedFor
  <2>4. \A f : Excused(next, more, f, Len(list)) => Excused(next, more, f, Len(list) + 1)
    BY <1>8 DEF Excused
  <2>5. \A f \in next.seen : Asks(ToSet(next.routed), f) \/ Excused(next, more, f, Len(more))
    BY <1>5, <1>8, <1>12, <2>2, <2>4
  <2>6. \A i \in 1..Len(more) : AccountedFor(next, more, i)
    <3>1. \A i \in 1..Len(more) : i \in 1..Len(list) \/ i = Len(list) + 1
      BY <1>8
    <3>2. \A i \in 1..Len(list) : AccountedFor(before, list, i)
      BY DEF CandidatesDone
    <3> QED
      BY <1>10, <2>3, <3>1, <3>2
  <2>7. CandidatesDone(from, next, more)
    BY <1>6, <2>5, <2>6 DEF CandidatesDone
  <2> QED
    BY <2>7 DEF next, more
<1> QED
  BY <1>13, <1>14

\* One more candidate of a run.
LEMMA CandidateIsDone ==
  ASSUME NEW from, IsRun(from), NEW X, NEW done, NEW list \in Seq(X), NEW candidate \in X,
         IsCandidate(candidate), CandidatesDone(from, done, list)
  PROVE  CandidatesDone(from, Router!RouteCandidate(done, candidate), Append(list, candidate))
<1> DEFINE refusal == Router!Refusal(done, candidate)
           counted == [done EXCEPT !.counted = @ + 1]
           next == Router!RouteCandidate(done, candidate)
           more == Append(list, candidate)
<1>1. DOMAIN done = RunFields /\ IsRun(done) /\ Continues(from, done)
  BY DEF CandidatesDone, Continues, IsRun
<1> HIDE DEF refusal, more
<1>2. CASE done.raised
  <2>1. next = done
    BY <1>2 DEF Router!RouteCandidate
  <2>2. CandidatesDone(from, done, more)
    BY <1>1, <1>2 DEF CandidatesDone
  <2> QED
    BY <2>1, <2>2 DEF more
<1>3. CASE ~done.raised /\ refusal = "none"
  <2>1. next = Router!RouteTasks(counted, candidate)
    BY <1>3 DEF Router!RouteCandidate, refusal
  <2>2. CandidatesDone(from, Router!RouteTasks(counted, candidate), more)
    BY <1>3, CandidateIsRouted DEF more
  <2> QED
    BY <2>1, <2>2 DEF more
<1>4. CASE ~done.raised /\ refusal # "none"
  <2>1. next = IF done.snapshot = NoSnapshot THEN [counted EXCEPT !.raised = TRUE]
               ELSE [counted EXCEPT !.results = @ \cup {Router!Result(refusal, candidate)}]
    BY <1>4 DEF Router!RouteCandidate, refusal
  <2>2. /\ DOMAIN next = RunFields /\ next.policy = done.policy /\ next.seen = done.seen
        /\ next.snapshot = done.snapshot
        /\ next.routed = done.routed /\ next.verifies = done.verifies
        /\ next.raised \/ next.results = done.results \cup {Router!Result(refusal, candidate)}
    BY <1>1, <2>1 DEF RunFields
  <2> HIDE DEF next
  <2>3. Continues(from, next)
    BY <1>1, <2>2 DEF Continues, IsRun, Checks
  <2>4. CASE next.raised
    <3>1. CandidatesDone(from, next, more)
      BY <2>3, <2>4 DEF CandidatesDone
    <3> QED
      BY <3>1 DEF next, more
  <2>5. CASE next.results = done.results \cup {Router!Result(refusal, candidate)}
    <3>1. Reported(done) \subseteq Reported(next) /\ candidate.id \in Reported(next)
      <4>1. Router!Result(refusal, candidate).candidate = candidate.id
        BY DEF Router!Result
      <4> QED
        BY <2>5, <4>1 DEF Reported
    <3>2. /\ Len(list) \in Nat /\ Len(more) = Len(list) + 1
          /\ more[Len(list) + 1] = candidate
      BY LenProperties, AppendProperties DEF more
    <3>3. /\ \A f, n : n \in 0..Len(list) /\ Excused(done, list, f, n) =>
                 Excused(next, more, f, n)
          /\ \A i \in 1..Len(list) : AccountedFor(done, list, i) =>
                 AccountedFor(next, more, i)
      BY <2>2, <3>1, AccountsStay DEF more
    <3>4. \A i \in 1..Len(more) : AccountedFor(next, more, i)
      <4>1. \A i \in 1..Len(more) : i \in 1..Len(list) \/ i = Len(list) + 1
        BY <3>2
      <4>2. \A i \in 1..Len(list) : AccountedFor(done, list, i)
        BY <1>4 DEF CandidatesDone
      <4>3. AccountedFor(next, more, Len(list) + 1)
        BY <3>1, <3>2 DEF AccountedFor
      <4> QED
        BY <3>3, <4>1, <4>2, <4>3
    <3>5. \A f \in next.seen : Asks(ToSet(next.routed), f) \/ Excused(next, more, f, Len(more))
      <4>1. \A f \in done.seen :
                Asks(ToSet(done.routed), f) \/ Excused(done, list, f, Len(list))
        BY <1>4 DEF CandidatesDone
      <4>2. Len(list) \in 0..Len(list)
        BY <3>2
      <4>3. \A f : Excused(next, more, f, Len(list)) => Excused(next, more, f, Len(list) + 1)
        BY <3>2 DEF Excused
      <4> QED
        BY <2>2, <3>2, <3>3, <4>1, <4>2, <4>3
    <3>6. CandidatesDone(from, next, more)
      BY <2>3, <3>4, <3>5 DEF CandidatesDone
    <3> QED
      BY <3>6 DEF next, more
  <2> QED
    BY <2>2, <2>4, <2>5
<1> QED
  BY <1>2, <1>3, <1>4

\* A run over all candidates, by what it begins with.
LEMMA RunsAccount ==
  ASSUME NEW policy, policy.max_verify \in Nat, policy.max_scans \in Nat, NEW snapshot,
         NEW queue, IsFiniteSet(DOMAIN queue),
         NEW candidates, IsList(candidates), \A c \in ToSet(candidates) : IsCandidate(c)
  PROVE  LET begun == Router!Starting(policy, snapshot, queue)
             done == Router!Routed(policy, snapshot, queue, candidates)
         IN  /\ IsRun(begun) /\ Checks(begun) = {} /\ begun.policy = policy
             /\ begun.verifies = Cardinality(Router!PendingVerifications(queue))
             /\ CandidatesDone(begun, done, candidates)
<1> DEFINE begun == Router!Starting(policy, snapshot, queue)
           done == Router!Routed(policy, snapshot, queue, candidates)
           waiting == Router!PendingVerifications(queue)
<1>1. /\ DOMAIN begun = RunFields /\ begun.policy = policy
      /\ begun.routed = <<>> /\ begun.seen = {} /\ begun.results = {}
      /\ begun.verifies = Router!Cardinality(waiting)
  BY DEF Router!Starting, RunFields
<1>2. Router!Cardinality(waiting) = Cardinality(waiting)
  BY SameRouterOperators
<1>3. IsFiniteSet(waiting) /\ Cardinality(waiting) \in Nat
  <2>1. waiting \in SUBSET DOMAIN queue
    BY DEF Router!PendingVerifications
  <2> QED
    BY <2>1, FS_Subset, FS_CardinalityType
<1> HIDE DEF begun, waiting
<1>4. Checks(begun) = {} /\ IsFiniteSet(Checks(begun)) /\ Cardinality(Checks(begun)) = 0
  BY <1>1, EmptyList, FS_EmptySet DEF Checks
<1>5. IsRun(begun)
  BY <1>1, <1>2, <1>3, <1>4, EmptyList DEF IsRun
<1>6. CandidatesDone(begun, begun, <<>>)
  <2>1. Continues(begun, begun)
    BY <1>4, <1>5 DEF Continues, Larger, IsRun
  <2>2. Len(<<>>) = 0
    BY EmptySeq
  <2> QED
    BY <1>1, <2>1, <2>2 DEF CandidatesDone
<1>7. \A d, list, c :
          CandidatesDone(begun, d, list) /\ list \in Seq(ToSet(candidates))
              /\ c \in ToSet(candidates) =>
              CandidatesDone(begun, Router!RouteCandidate(d, c), Append(list, c))
  BY <1>5, CandidateIsDone
<1>8. candidates \in Seq(ToSet(candidates))
  BY DEF IsList
<1>9. CandidatesDone(begun, Candidates!FoldLeft(Router!RouteCandidate, begun, candidates),
                     candidates)
  BY <1>6, <1>7, <1>8, Candidates!FoldInduction
<1>10. Candidates!FoldLeft(Router!RouteCandidate, begun, candidates) =
           Router!FoldLeft(Router!RouteCandidate, begun, candidates)
  BY DEF Candidates!FoldLeft, Candidates!MapThenFoldSet, Candidates!Max,
         Router!FoldLeft, Router!MapThenFoldSet, Router!Max
<1>11. done = Router!FoldLeft(Router!RouteCandidate, begun, candidates)
  BY DEF Router!Routed, begun
<1> HIDE DEF done
<1>12. CandidatesDone(begun, done, candidates)
  BY <1>9, <1>10, <1>11
<1> QED
  BY <1>1, <1>2, <1>4, <1>5, <1>12 DEF begun, waiting, done

-----------------------------------------------------------------------------
(* Routing: one run after the other, and the work done in between.         *)

\* The verifications that wait in a queue.
Waiting(queue) == Router!PendingVerifications(queue)

(***************************************************************************)
(* What is known of the queue between runs: it is finite, no more wait in  *)
(* it than may, and it has the tasks of the last run, which accounts for   *)
(* the candidates.                                                         *)
(***************************************************************************)
RoutingInv ==
    Begun("routing") =>
        /\ DOMAIN outcome = {"rounds", "done", "worked", "queue"}
        /\ outcome.rounds \in Nat
        /\ IsFiniteSet(DOMAIN outcome.queue)
        /\ Cardinality(Waiting(outcome.queue)) <=
               Larger(input.policy.max_verify, Cardinality(Waiting(input.queue)))
        /\ outcome.done.policy = input.policy
        /\ \/ outcome.done.raised
           \/ /\ ToSet(outcome.done.routed) \subseteq DOMAIN outcome.queue
              /\ \A i \in 1..Len(input.candidates) :
                     AccountedFor(outcome.done, input.candidates, i)

\* The inputs of routing, in the terms of the lemmas above.
LEMMA RoutingInputsAreLists ==
  ASSUME InputInv, input.subject = "routing"
  PROVE  /\ input.policy.max_verify \in Nat /\ input.policy.max_scans \in Nat
         /\ IsFiniteSet(DOMAIN input.queue)
         /\ IsList(input.candidates)
         /\ \A c \in ToSet(input.candidates) : IsCandidate(c)
BY ContractsAssumption DEF InputInv, RoutingInput, IsList, IsCandidate

\* A queue that is finite has finitely many verifications that wait.
LEMMA WaitingIsFinite ==
  ASSUME NEW queue, IsFiniteSet(DOMAIN queue)
  PROVE  IsFiniteSet(Waiting(queue)) /\ Cardinality(Waiting(queue)) \in Nat
<1>1. Waiting(queue) \in SUBSET DOMAIN queue
  BY DEF Waiting, Router!PendingVerifications
<1> QED
  BY <1>1, FS_Subset, FS_CardinalityType

\* What a run adds to the queue is within its limit, and what was there stays.
LEMMA RunsKeepTheLimit ==
  ASSUME NEW policy, policy.max_verify \in Nat, NEW queue, IsFiniteSet(DOMAIN queue),
         NEW begun, NEW done, IsRun(begun), Continues(begun, done),
         Checks(begun) = {}, begun.policy = policy,
         begun.verifies = Cardinality(Waiting(queue))
  PROVE  LET after == Router!QueueAfter(queue, done)
         IN  /\ IsFiniteSet(DOMAIN after)
             /\ Cardinality(Waiting(after)) <=
                    Larger(policy.max_verify, Cardinality(Waiting(queue)))
             /\ done.raised \/ ToSet(done.routed) \subseteq DOMAIN after
<1> DEFINE after == Router!QueueAfter(queue, done)
<1>1. /\ IsFiniteSet(Waiting(queue)) /\ Cardinality(Waiting(queue)) \in Nat
      /\ IsFiniteSet(Checks(done)) /\ Cardinality(Checks(done)) \in Nat
      /\ Cardinality(Checks(begun)) = 0
      /\ done.verifies \in Nat
  BY WaitingIsFinite, FS_CardinalityType, FS_EmptySet DEF Continues, IsRun
<1>2. Cardinality(Waiting(queue)) + Cardinality(Checks(done)) <=
          Larger(policy.max_verify, Cardinality(Waiting(queue)))
  BY <1>1 DEF Continues, Larger
<1>3. CASE done.raised
  <2>1. after = queue
    BY <1>3 DEF Router!QueueAfter
  <2> QED
    BY <1>1, <1>3, <2>1 DEF Larger
<1>4. CASE ~done.raised
  <2>1. Router!ToSet(done.routed) = ToSet(done.routed)
    BY SameRouterOperators
  <2>2. after = [t \in DOMAIN queue \cup ToSet(done.routed) |->
                    IF t \in DOMAIN queue THEN queue[t] ELSE "pending"]
    BY <1>4, <2>1 DEF Router!QueueAfter
  <2> HIDE DEF after
  <2>3. IsFiniteSet(ToSet(done.routed))
    <3>1. /\ Len(done.routed) \in Nat /\ DOMAIN done.routed = 1..Len(done.routed)
          /\ done.routed = [k \in 1..Len(done.routed) |-> done.routed[k]]
      BY LenProperties DEF Continues, IsRun, IsList
    <3>2. IsFiniteSet(1..Len(done.routed))
      BY <3>1, FS_Interval
    <3>3. IsFiniteSet({done.routed[k] : k \in 1..Len(done.routed)})
      BY <3>1, <3>2, RangeIsFinite
    <3> QED
      BY <3>1, <3>3 DEF ToSet
  <2>4. IsFiniteSet(DOMAIN after)
    BY <2>2, <2>3, FS_Union
  <2>5. Waiting(after) \in SUBSET (Waiting(queue) \cup Checks(done))
    BY <2>2 DEF Waiting, Router!PendingVerifications, Checks
  <2>6. /\ IsFiniteSet(Waiting(queue) \cup Checks(done))
        /\ Cardinality(Waiting(queue) \cup Checks(done)) <=
               Cardinality(Waiting(queue)) + Cardinality(Checks(done))
        /\ Cardinality(Waiting(queue) \cup Checks(done)) \in Nat
    <3>1. /\ IsFiniteSet(Waiting(queue) \cup Checks(done))
          /\ Cardinality(Waiting(queue) \cup Checks(done)) =
                 Cardinality(Waiting(queue)) + Cardinality(Checks(done))
                     - Cardinality(Waiting(queue) \cap Checks(done))
      BY <1>1, FS_Union
    <3>2. Cardinality(Waiting(queue) \cap Checks(done)) \in Nat
      BY <1>1, FS_Intersection, FS_CardinalityType
    <3>3. Cardinality(Waiting(queue) \cup Checks(done)) \in Nat
      BY <3>1, FS_CardinalityType
    <3> QED
      BY <1>1, <3>1, <3>2, <3>3
  <2>7. /\ Cardinality(Waiting(after)) <= Cardinality(Waiting(queue) \cup Checks(done))
        /\ Cardinality(Waiting(after)) \in Nat
    BY <2>5, <2>6, FS_Subset, FS_CardinalityType
  <2>8. Larger(policy.max_verify, Cardinality(Waiting(queue))) \in Nat
    BY <1>1 DEF Larger
  <2>9. Cardinality(Waiting(after)) <= Larger(policy.max_verify, Cardinality(Waiting(queue)))
    BY <1>1, <1>2, <2>6, <2>7, <2>8
  <2>10. ToSet(done.routed) \subseteq DOMAIN after
    BY <2>2
  <2> QED
    BY <2>4, <2>9, <2>10 DEF after
<1> QED
  BY <1>3, <1>4

\* However candidates are routed and worked on, the queue is as RoutingInv says.
LEMMA RoutingInvHolds == Spec => []RoutingInv
<1>1. Init => RoutingInv
  BY DEF Init, RoutingInv, Begun
<1>2. ASSUME InputInv, RoutingInv, RouteCandidates
      PROVE  RoutingInv'
  <2> DEFINE now == QueueNow
             limit == Larger(input.policy.max_verify, Cardinality(Waiting(input.queue)))
             begun == Router!Starting(input.policy, input.snapshot, now)
             done == Router!Routed(input.policy, input.snapshot, now, input.candidates)
             after == Router!QueueAfter(now, done)
  <2>1. /\ input.subject = "routing" /\ input' = input
        /\ DOMAIN outcome' = {"rounds", "done", "worked", "queue"}
        /\ outcome'.done = done /\ outcome'.queue = after
        /\ outcome'.rounds = IF outcome = Pending THEN 1 ELSE outcome.rounds + 1
    BY <1>2 DEF RouteCandidates, About
  <2>a. outcome'.rounds \in Nat
    BY <1>2, <2>1 DEF RoutingInv, Begun
  <2>2. /\ input.policy.max_verify \in Nat /\ input.policy.max_scans \in Nat
        /\ IsFiniteSet(DOMAIN input.queue)
        /\ IsList(input.candidates)
        /\ \A c \in ToSet(input.candidates) : IsCandidate(c)
    BY <1>2, <2>1, RoutingInputsAreLists
  <2>3. Cardinality(Waiting(input.queue)) \in Nat
    BY <2>2, WaitingIsFinite
  <2>4. /\ IsFiniteSet(DOMAIN now)
        /\ Cardinality(Waiting(now)) <= limit
    BY <1>2, <2>1, <2>2, <2>3 DEF QueueNow, RoutingInv, Begun, Larger
  <2>5. Cardinality(Waiting(now)) \in Nat
    BY <2>4, WaitingIsFinite
  <2> HIDE DEF now, done, begun
  <2>6. /\ IsRun(begun) /\ Checks(begun) = {} /\ begun.policy = input.policy
        /\ begun.verifies = Cardinality(Waiting(now))
        /\ CandidatesDone(begun, done, input.candidates)
    BY <2>2, <2>4, RunsAccount DEF begun, done, Waiting
  <2>7. /\ IsFiniteSet(DOMAIN after)
        /\ Cardinality(Waiting(after)) <=
               Larger(input.policy.max_verify, Cardinality(Waiting(now)))
        /\ done.raised \/ ToSet(done.routed) \subseteq DOMAIN after
    BY <2>2, <2>4, <2>6, RunsKeepTheLimit DEF CandidatesDone
  <2> HIDE DEF after
  <2>8. Cardinality(Waiting(after)) <= limit
    <3>1. Cardinality(Waiting(after)) \in Nat
      BY <2>7, WaitingIsFinite
    <3> QED
      BY <2>2, <2>3, <2>4, <2>5, <2>7, <3>1 DEF Larger
  <2>9. /\ done.policy = input.policy
        /\ done.raised \/ \A i \in 1..Len(input.candidates) :
                              AccountedFor(done, input.candidates, i)
    BY <2>6 DEF CandidatesDone, Continues
  <2> QED
    BY <2>1, <2>a, <2>7, <2>8, <2>9 DEF RoutingInv
<1>3. ASSUME RoutingInv, NEW t, FinishTask(t), InputInv
      PROVE  RoutingInv'
  <2>1. /\ Begun("routing") /\ input' = input
        /\ outcome' = [outcome EXCEPT !.queue[t] = "done", !.worked = TRUE]
        /\ DOMAIN outcome = {"rounds", "done", "worked", "queue"}
        /\ IsFiniteSet(DOMAIN outcome.queue)
    BY <1>3 DEF FinishTask, About, Begun, RoutingInv
  <2>2. /\ DOMAIN outcome' = DOMAIN outcome /\ outcome'.done = outcome.done
        /\ outcome'.rounds = outcome.rounds
        /\ outcome'.queue = [outcome.queue EXCEPT ![t] = "done"]
    BY <2>1
  <2>3. DOMAIN outcome'.queue = DOMAIN outcome.queue
    BY <2>2
  <2>4. Waiting(outcome'.queue) \in SUBSET Waiting(outcome.queue)
    BY <2>2, <2>3 DEF Waiting, Router!PendingVerifications
  <2>5. /\ IsFiniteSet(Waiting(outcome.queue)) /\ Cardinality(Waiting(outcome.queue)) \in Nat
        /\ IsFiniteSet(Waiting(input.queue)) /\ Cardinality(Waiting(input.queue)) \in Nat
        /\ input.policy.max_verify \in Nat
    BY <1>3, <2>1, WaitingIsFinite, RoutingInputsAreLists DEF Begun
  <2>6. /\ Cardinality(Waiting(outcome'.queue)) <= Cardinality(Waiting(outcome.queue))
        /\ Cardinality(Waiting(outcome'.queue)) \in Nat
    BY <2>4, <2>5, FS_Subset, FS_CardinalityType
  <2>7. Cardinality(Waiting(outcome'.queue)) <=
            Larger(input.policy.max_verify, Cardinality(Waiting(input.queue)))
    <3>1. Cardinality(Waiting(outcome.queue)) <=
              Larger(input.policy.max_verify, Cardinality(Waiting(input.queue)))
      BY <1>3, <2>1 DEF RoutingInv
    <3> QED
      BY <2>5, <2>6, <3>1 DEF Larger
  <2> QED
    BY <1>3, <2>1, <2>2, <2>3, <2>7 DEF RoutingInv, Begun
<1>4. RoutingInv /\ [Next]_vars /\ input.subject # "routing" => RoutingInv'
  BY StepsAreAbout DEF RoutingInv, Begun, vars, About
<1>5. [Next]_vars /\ input.subject = "routing" =>
          UNCHANGED vars \/ RouteCandidates \/ \E t \in DOMAIN QueueNow : FinishTask(t)
  BY StepsAreAbout DEF About
<1>6. RoutingInv /\ UNCHANGED vars => RoutingInv'
  BY DEF RoutingInv, Begun, vars
<1>7. InputInv /\ RoutingInv /\ [Next]_vars => RoutingInv'
  BY <1>2, <1>3, <1>4, <1>5, <1>6
<1> QED
  BY <1>1, <1>7, InputStays, PTL DEF Spec

(***************************************************************************)
(* However often candidates are routed, and whatever is done in between,   *)
(* no more verifications wait than the policy allows, or than waited       *)
(* before: for any policy, any queue and any candidates.                   *)
(***************************************************************************)
THEOREM RoutingStaysBounded == Spec => []RoutingIsBounded
<1>1. RoutingInv => RoutingIsBounded
  BY DEF RoutingInv, RoutingIsBounded, Waiting
<1> QED
  BY <1>1, RoutingInvHolds, PTL

(***************************************************************************)
(* A candidate that was routed without a word has its work in the queue,   *)
(* or shares a file with an earlier candidate that was deferred aloud: for *)
(* any policy, any queue and any candidates.                               *)
(***************************************************************************)
THEOREM CandidatesAreAccountedFor == Spec => []RoutingLosesNoCandidate
<1>1. InputInv /\ RoutingInv => RoutingLosesNoCandidate
  <2> SUFFICES ASSUME InputInv, RoutingInv, Begun("routing"), ~outcome.done.raised
               PROVE  RoutingLosesNoCandidate
    BY DEF RoutingLosesNoCandidate
  <2> DEFINE candidates == input.candidates
             done == outcome.done
             queue == outcome.queue
  <2>1. /\ ToSet(done.routed) \subseteq DOMAIN queue
        /\ \A i \in 1..Len(candidates) : AccountedFor(done, candidates, i)
        /\ done.policy = input.policy
    BY DEF RoutingInv
  <2>2. DOMAIN candidates = 1..Len(candidates)
    BY RoutingInputsAreLists, LenProperties DEF IsList, Begun
  <2>3. \A c : FilesNamed(done, c) = ToSet(Router!FilesOf(input.policy, c))
    BY <2>1 DEF FilesNamed
  <2>4. \A v : Asks(ToSet(done.routed), v) => \E t \in DOMAIN queue : t.value = v
    BY <2>1 DEF Asks
  <2> DEFINE reported == {r.candidate : r \in done.results}
             queued(v) == \E t \in DOMAIN queue : t.value = v
             kept(i) == /\ /\ candidates[i].type = "verification_target"
                           /\ candidates[i].target = "observation"
                           => queued(candidates[i].target_id)
                        /\ \A f \in FilesNamed(done, candidates[i]) :
                               \/ queued(f)
                               \/ \E j \in 1..(i - 1) : /\ f \in FilesNamed(done, candidates[j])
                                                        /\ candidates[j].id \in reported
  <2>5. ASSUME NEW i \in 1..Len(candidates)
        PROVE  candidates[i].id \in reported \/ kept(i)
    <3>1. Reported(done) = reported
      BY DEF Reported
    <3>2. AccountedFor(done, candidates, i)
      BY <2>1
    <3> HIDE DEF candidates, done, queue, reported
    <3> QED
      BY <2>4, <3>1, <3>2 DEF AccountedFor, Excused
  <2>6. \A i \in DOMAIN candidates : candidates[i].id \in reported \/ kept(i)
    BY <2>2, <2>5
  <2> QED
    BY <2>3, <2>6 DEF RoutingLosesNoCandidate
<1> QED
  BY <1>1, InputStays, RoutingInvHolds, PTL

-----------------------------------------------------------------------------
(* Routing again: two runs in step, the second with more that waits.       *)

\* Two runs that have done the same so far, but for what the second counts more.
InStep(first, second) ==
    /\ DOMAIN first = RunFields /\ DOMAIN second = RunFields
    /\ first.policy = second.policy /\ first.snapshot = second.snapshot
    /\ first.counted = second.counted /\ first.seen = second.seen
    /\ first.routed = second.routed /\ first.raised = second.raised
    /\ first.verifies \in Nat /\ second.verifies \in Nat
    /\ first.verifies <= second.verifies

\* They are at the same task of the same candidate as well.
SameTask(first, second) ==
    /\ InStep(first, second)
    /\ first.routedHere = second.routedHere /\ first.broke = second.broke

\* Two runs as one value.
Both(first, second) == [first |-> first, second |-> second]

RouteTaskTwice(runs, task) ==
    Both(Router!RouteTask(runs.first, task), Router!RouteTask(runs.second, task))

RunTasks(from, tasks) == Tasks!FoldLeft(Router!RouteTask, from, tasks)

\* Two runs go through the same tasks.
TasksInStep(from, runs, tasks) ==
    /\ runs = Both(RunTasks(from.first, tasks), RunTasks(from.second, tasks))
    /\ DOMAIN runs.second = RunFields /\ runs.second.policy = from.second.policy
    /\ OneCheck(tasks) => SameTask(runs.first, runs.second)

TwiceTasks == INSTANCE FoldFacts WITH Op <- RouteTaskTwice, P <- TasksInStep

\* The same task does the same in both, unless the limit comes between them.
LEMMA TaskInStep ==
  ASSUME NEW first, NEW second, SameTask(first, second), NEW task,
         task.type = "verify_claim" => second.verifies < second.policy.max_verify,
         second.policy.max_verify \in Nat
  PROVE  SameTask(Router!RouteTask(first, task), Router!RouteTask(second, task))
<1> DEFINE check == task.type = "verify_claim"
           budget == first.routedHere >= first.policy.max_per_candidate
           next == Router!RouteTask(first, task)
           other == Router!RouteTask(second, task)
<1>1. /\ DOMAIN first = RunFields /\ DOMAIN second = RunFields
      /\ first.policy = second.policy
      /\ first.routedHere = second.routedHere /\ first.broke = second.broke
      /\ first.verifies \in Nat /\ second.verifies \in Nat
      /\ first.verifies <= second.verifies
  BY DEF SameTask, InStep
<1>2. /\ ~(check /\ first.verifies >= first.policy.max_verify)
      /\ ~(check /\ second.verifies >= second.policy.max_verify)
  BY <1>1
<1>3. CASE first.broke
  <2>1. next = first /\ other = second
    BY <1>1, <1>3 DEF Router!RouteTask
  <2> QED
    BY <2>1
<1>4. CASE ~first.broke /\ budget
  <2>1. /\ next = [first EXCEPT !.broke = TRUE,
                                !.deferredHere = @ \cup {"deferred_budget"}]
        /\ other = [second EXCEPT !.broke = TRUE,
                                  !.deferredHere = @ \cup {"deferred_budget"}]
    BY <1>1, <1>4 DEF Router!RouteTask
  <2> HIDE DEF next, other
  <2>2. SameTask(next, other)
    BY <1>1, <2>1 DEF SameTask, InStep, RunFields
  <2> QED
    BY <2>2 DEF next, other
<1>5. CASE ~first.broke /\ ~budget
  <2>1. /\ next = [first EXCEPT !.routed = Append(@, task), !.routedHere = @ + 1,
                                !.verifies = IF check THEN @ + 1 ELSE @]
        /\ other = [second EXCEPT !.routed = Append(@, task), !.routedHere = @ + 1,
                                  !.verifies = IF check THEN @ + 1 ELSE @]
    BY <1>1, <1>2, <1>5 DEF Router!RouteTask
  <2> HIDE DEF next, other, check
  <2>2. /\ DOMAIN next = RunFields /\ DOMAIN other = RunFields
        /\ next.verifies = IF check THEN first.verifies + 1 ELSE first.verifies
        /\ other.verifies = IF check THEN second.verifies + 1 ELSE second.verifies
        /\ next.policy = first.policy /\ other.policy = second.policy
        /\ next.snapshot = first.snapshot /\ other.snapshot = second.snapshot
        /\ next.counted = first.counted /\ other.counted = second.counted
        /\ next.seen = first.seen /\ other.seen = second.seen
        /\ next.raised = first.raised /\ other.raised = second.raised
        /\ next.broke = first.broke /\ other.broke = second.broke
        /\ next.routed = Append(first.routed, task)
        /\ other.routed = Append(second.routed, task)
        /\ next.routedHere = first.routedHere + 1
        /\ other.routedHere = second.routedHere + 1
    BY <1>1, <2>1 DEF RunFields
  <2>3. next.verifies \in Nat /\ other.verifies \in Nat /\ next.verifies <= other.verifies
    BY <1>1, <2>2
  <2>4. SameTask(next, other)
    BY <2>2, <2>3 DEF SameTask, InStep
  <2> QED
    BY <2>4 DEF next, other
<1> HIDE DEF next, other
<1> QED
  BY <1>3, <1>4, <1>5

\* Two runs that are in step stay so over the tasks of a candidate.
LEMMA TasksStayInStep ==
  ASSUME NEW first, NEW second, SameTask(first, second),
         second.policy.max_verify \in Nat, second.verifies < second.policy.max_verify,
         NEW tasks, IsList(tasks), OneCheck(tasks)
  PROVE  SameTask(RunTasks(first, tasks), RunTasks(second, tasks))
<1> DEFINE base == Both(first, second)
<1>0. base.first = first /\ base.second = second
  BY DEF Both
<1> HIDE DEF base
<1>1. TasksInStep(base, base, <<>>)
  <2>1. RunTasks(first, <<>>) = first /\ RunTasks(second, <<>>) = second
    BY Tasks!FoldOfNothing DEF RunTasks
  <2> QED
    BY <1>0, <2>1 DEF TasksInStep, base, SameTask, InStep
<1>2. ASSUME NEW runs, NEW list \in Seq(ToSet(tasks)), NEW task \in ToSet(tasks),
             TasksInStep(base, runs, list)
      PROVE  TasksInStep(base, RouteTaskTwice(runs, task), Append(list, task))
  <2> DEFINE more == Append(list, task)
             next == RouteTaskTwice(runs, task)
  <2>1. /\ next.first = Router!RouteTask(runs.first, task)
        /\ next.second = Router!RouteTask(runs.second, task)
        /\ runs.first = RunTasks(first, list) /\ runs.second = RunTasks(second, list)
        /\ next = Both(next.first, next.second)
    BY <1>0, <1>2 DEF RouteTaskTwice, Both, TasksInStep
  <2>2. /\ RunTasks(first, more) = Router!RouteTask(RunTasks(first, list), task)
        /\ RunTasks(second, more) = Router!RouteTask(RunTasks(second, list), task)
    BY Tasks!FoldAppends DEF RunTasks
  <2>3. /\ Len(more) = Len(list) + 1 /\ Len(list) \in Nat
        /\ ToSet(more) = ToSet(list) \cup {task}
    BY LenProperties, AppendProperties, ElementsAppended
  <2> HIDE DEF more, next
  <2>4. ASSUME OneCheck(more)
        PROVE  SameTask(next.first, next.second)
    <3>1. OneCheck(list) /\ (task.type = "verify_claim" => Len(list) = 0)
      BY <2>3, <2>4 DEF OneCheck
    <3>2. SameTask(runs.first, runs.second)
      BY <1>2, <3>1 DEF TasksInStep
    <3>3. task.type = "verify_claim" => runs.second = second
      <4>1. Len(list) = 0 => list = <<>>
        BY EmptySeq
      <4>2. RunTasks(second, <<>>) = second
        BY Tasks!FoldOfNothing DEF RunTasks
      <4> QED
        BY <2>1, <3>1, <4>1, <4>2
    <3>4. runs.second.policy.max_verify \in Nat
      BY <1>0, <1>2 DEF TasksInStep
    <3> QED
      BY <2>1, <3>2, <3>3, <3>4, TaskInStep
  <2>5. DOMAIN next.second = RunFields /\ next.second.policy = second.policy
    <3>1. DOMAIN runs.second = RunFields /\ runs.second.policy = second.policy
      BY <1>0, <1>2 DEF TasksInStep
    <3> QED
      BY <2>1, <3>1 DEF Router!RouteTask, RunFields
  <2>6. TasksInStep(base, next, more)
    BY <1>0, <2>1, <2>2, <2>4, <2>5 DEF TasksInStep
  <2> QED
    BY <2>6 DEF next, more
<1>3. \A runs, list, task :
          TasksInStep(base, runs, list) /\ list \in Seq(ToSet(tasks)) /\ task \in ToSet(tasks) =>
              TasksInStep(base, RouteTaskTwice(runs, task), Append(list, task))
  BY <1>2
<1>4. tasks \in Seq(ToSet(tasks))
  BY DEF IsList
<1>5. TasksInStep(base, TwiceTasks!FoldLeft(RouteTaskTwice, base, tasks), tasks)
  BY <1>1, <1>3, <1>4, TwiceTasks!FoldInduction
<1> QED
  BY <1>0, <1>5 DEF TasksInStep, Both

\* A guardrail says that the candidate is refused.
Stopped(done, candidate) == \E i \in 1..8 : Router!Guardrails(done, candidate)[i][2]

\* A candidate is refused when a guardrail says so.
LEMMA RefusalsHaveReasons ==
  ASSUME NEW done, NEW candidate
  PROVE  Router!Refusal(done, candidate) = "none" <=> ~Stopped(done, candidate)
<1> DEFINE guards == Router!Guardrails(done, candidate)
           stopping == {i \in DOMAIN guards : guards[i][2]}
<1>1. DOMAIN guards = 1..8 /\ \A i \in 1..8 : guards[i][1] # "none"
  BY DEF Router!Guardrails
<1> HIDE DEF guards
<1>2. CASE stopping = {}
  BY <1>1, <1>2 DEF Router!Refusal, Stopped, guards
<1>3. CASE stopping # {}
  <2>1. PICK least \in stopping : \A j \in stopping : least <= j
    <3>1. stopping \in SUBSET Nat
      BY <1>1
    <3> HIDE DEF stopping
    <3> QED
      BY <1>3, <3>1, Tasks!LeastNumber
  <2> DEFINE chosen == CHOOSE i \in stopping : \A j \in stopping : i <= j
  <2>2. chosen \in stopping
    <3> HIDE DEF stopping
    <3> QED
      BY <2>1
  <2>3. Router!Refusal(done, candidate) = guards[chosen][1]
    BY <1>3 DEF Router!Refusal, guards
  <2>4. chosen \in 1..8 /\ guards[chosen][2]
    <3> HIDE DEF chosen
    <3> QED
      BY <1>1, <2>2
  <2> HIDE DEF chosen
  <2>5. Router!Refusal(done, candidate) # "none"
    BY <1>1, <2>3, <2>4
  <2>6. Stopped(done, candidate)
    BY <2>4 DEF Stopped, guards
  <2> QED
    BY <2>5, <2>6
<1> QED
  BY <1>2, <1>3

\* Who counts more is stopped where the other is, and else only by the limit.
LEMMA GuardrailsInStep ==
  ASSUME NEW first, NEW second, NEW candidate, InStep(first, second),
         second.policy.max_verify \in Nat
  PROVE  /\ Stopped(first, candidate) => Stopped(second, candidate)
         /\ Stopped(second, candidate) =>
                Stopped(first, candidate) \/ second.verifies >= second.policy.max_verify
<1> DEFINE mine == Router!Guardrails(first, candidate)
           yours == Router!Guardrails(second, candidate)
<1>1. /\ first.policy = second.policy /\ first.snapshot = second.snapshot
      /\ first.counted = second.counted
      /\ first.verifies \in Nat /\ second.verifies \in Nat /\ first.verifies <= second.verifies
  BY DEF InStep
<1>2. /\ mine[1] = yours[1] /\ mine[2] = yours[2] /\ mine[3] = yours[3] /\ mine[4] = yours[4]
      /\ mine[5] = yours[5] /\ mine[6] = yours[6] /\ mine[8] = yours[8]
      /\ mine[7][2] <=> first.verifies >= first.policy.max_verify
      /\ yours[7][2] <=> second.verifies >= second.policy.max_verify
  BY <1>1 DEF Router!Guardrails, Router!SnapshotOf
<1> HIDE DEF mine, yours
<1>3. \A i \in 1..8 : i # 7 => mine[i] = yours[i]
  BY <1>2
<1>4. mine[7][2] => yours[7][2]
  <2>1. first.verifies >= first.policy.max_verify => second.verifies >= second.policy.max_verify
    BY <1>1
  <2> QED
    BY <1>2, <2>1
<1>5. (\E i \in 1..8 : mine[i][2]) => \E i \in 1..8 : yours[i][2]
  BY <1>3, <1>4
<1>6. (\E i \in 1..8 : yours[i][2]) => (\E i \in 1..8 : mine[i][2]) \/ yours[7][2]
  BY <1>3
<1> QED
  BY <1>2, <1>5, <1>6 DEF Stopped, mine, yours

\* At the limit every candidate is refused.
LEMMA StoppedAtTheLimit ==
  ASSUME NEW done, NEW candidate, done.verifies >= done.policy.max_verify
  PROVE  Stopped(done, candidate)
<1>1. Router!Guardrails(done, candidate)[7][2]
  BY DEF Router!Guardrails
<1> QED
  BY <1>1 DEF Stopped

\* What a run does with a candidate it refuses.
LEMMA RefusedCandidates ==
  ASSUME NEW done, IsRun(done), NEW candidate, ~done.raised, Stopped(done, candidate)
  PROVE  LET next == Router!RouteCandidate(done, candidate)
         IN  /\ DOMAIN next = RunFields
             /\ next.policy = done.policy /\ next.snapshot = done.snapshot
             /\ next.counted = done.counted + 1 /\ next.seen = done.seen
             /\ next.routed = done.routed /\ next.verifies = done.verifies
             /\ IF done.snapshot = NoSnapshot THEN next.raised
                ELSE next.raised = done.raised
<1> DEFINE refusal == Router!Refusal(done, candidate)
           counted == [done EXCEPT !.counted = @ + 1]
           next == Router!RouteCandidate(done, candidate)
<1>1. DOMAIN done = RunFields /\ refusal # "none"
  BY RefusalsHaveReasons DEF IsRun
<1>2. next = IF done.snapshot = NoSnapshot THEN [counted EXCEPT !.raised = TRUE]
             ELSE [counted EXCEPT !.results = @ \cup {Router!Result(refusal, candidate)}]
  BY <1>1 DEF Router!RouteCandidate
<1> HIDE DEF refusal
<1> QED
  BY <1>1, <1>2 DEF RunFields

\* What a run does with a candidate it does not refuse.
LEMMA RoutedCandidates ==
  ASSUME NEW done, NEW candidate, ~done.raised, ~Stopped(done, candidate)
  PROVE  Router!RouteCandidate(done, candidate) =
             Router!RouteTasks([done EXCEPT !.counted = @ + 1], candidate)
BY RefusalsHaveReasons DEF Router!RouteCandidate

\* A run goes on with each candidate.
LEMMA CandidateContinues ==
  ASSUME NEW done, IsRun(done), NEW candidate, IsCandidate(candidate)
  PROVE  Continues(done, Router!RouteCandidate(done, candidate))
<1> DEFINE next == Router!RouteCandidate(done, candidate)
           counted == [done EXCEPT !.counted = @ + 1]
<1>1. /\ DOMAIN done = RunFields /\ done.verifies \in Nat /\ done.policy.max_verify \in Nat
      /\ Cardinality(Checks(done)) \in Nat
  BY FS_CardinalityType DEF IsRun
<1>2. CASE done.raised
  <2>1. next = done
    BY <1>2 DEF Router!RouteCandidate
  <2> QED
    BY <1>1, <2>1 DEF Continues, Larger
<1>3. CASE ~done.raised /\ Stopped(done, candidate)
  <2>1. /\ DOMAIN next = RunFields
        /\ next.policy = done.policy /\ next.snapshot = done.snapshot
        /\ next.routed = done.routed /\ next.verifies = done.verifies
    BY <1>3, RefusedCandidates
  <2> HIDE DEF next
  <2>2. Continues(done, next)
    BY <1>1, <2>1 DEF Continues, IsRun, Checks, Larger
  <2> QED
    BY <2>2 DEF next
<1>4. CASE ~done.raised /\ ~Stopped(done, candidate)
  <2>1. next = Router!RouteTasks(counted, candidate)
    BY <1>4, RoutedCandidates
  <2>2. /\ DOMAIN counted = RunFields
        /\ counted.policy = done.policy /\ counted.snapshot = done.snapshot
        /\ counted.routed = done.routed /\ counted.verifies = done.verifies
    BY <1>1 DEF RunFields
  <2> HIDE DEF counted
  <2>3. IsRun(counted) /\ Checks(counted) = Checks(done)
    BY <1>1, <2>2 DEF IsRun, Checks
  <2>4. Continues(counted, Router!RouteTasks(counted, candidate))
    BY <2>3, TasksOfCandidate
  <2>5. Continues(done, Router!RouteTasks(counted, candidate))
    BY <2>2, <2>3, <2>4 DEF Continues
  <2> QED
    BY <2>1, <2>5
<1> QED
  BY <1>2, <1>3, <1>4

\* The tasks of a candidate that neither run refuses.
LEMMA RoutedInStep ==
  ASSUME NEW first, NEW second, IsRun(first), IsRun(second), InStep(first, second),
         second.verifies < second.policy.max_verify,
         NEW candidate, IsCandidate(candidate)
  PROVE  InStep(Router!RouteTasks(first, candidate), Router!RouteTasks(second, candidate))
<1> DEFINE started(done) ==
               [done EXCEPT !.routedHere = 0, !.deferredHere = {}, !.broke = FALSE,
                            !.seen = @ \cup Router!ToSet(Router!FilesOf(done.policy, candidate))]
           tasks == Router!TasksFor(first, candidate)
           reported(done, of) ==
               [done EXCEPT !.results = @ \cup {Router!Result(o, candidate) :
                                                   o \in of.deferredHere}]
           mine == RunTasks(started(first), tasks)
           yours == RunTasks(started(second), tasks)
<1>1. /\ DOMAIN first = RunFields /\ DOMAIN second = RunFields
      /\ first.policy = second.policy /\ first.snapshot = second.snapshot
      /\ first.counted = second.counted /\ first.seen = second.seen
      /\ first.routed = second.routed /\ first.raised = second.raised
      /\ first.verifies \in Nat /\ second.verifies \in Nat
      /\ first.verifies <= second.verifies
      /\ second.policy.max_verify \in Nat
  BY DEF InStep, IsRun
<1>2. tasks = Router!TasksFor(second, candidate)
  BY <1>1 DEF Router!TasksFor, Router!NewFiles, Router!SnapshotOf
<1>3. \A done, list : RunTasks(done, list) = Router!FoldLeft(Router!RouteTask, done, list)
  BY DEF RunTasks, Tasks!FoldLeft, Tasks!MapThenFoldSet, Tasks!Max,
         Router!FoldLeft, Router!MapThenFoldSet, Router!Max
<1>4. /\ Router!RouteTasks(first, candidate) = reported(mine, mine)
      /\ Router!RouteTasks(second, candidate) = reported(yours, yours)
  <2> HIDE DEF RunTasks
  <2> QED
    BY <1>2, <1>3 DEF Router!RouteTasks
<1>5. IsList(tasks) /\ OneCheck(tasks)
  BY TasksOfCandidate
<1> HIDE DEF tasks
<1>6. SameTask(started(first), started(second)) /\ started(second).policy = second.policy
      /\ started(second).verifies = second.verifies
  BY <1>1 DEF SameTask, InStep, RunFields
<1> HIDE DEF started
<1>7. SameTask(mine, yours)
  BY <1>1, <1>5, <1>6, TasksStayInStep
<1> HIDE DEF mine, yours
<1>8. InStep(reported(mine, mine), reported(yours, yours))
  BY <1>7 DEF SameTask, InStep, RunFields
<1> HIDE DEF reported
<1> QED
  BY <1>4, <1>8

\* What the second run adds, the first has added, unless it could not go on.
Repeats(first, second) ==
    /\ IsRun(first) /\ IsRun(second)
    /\ first.policy = second.policy /\ first.snapshot = second.snapshot
    /\ \/ first.raised
       \/ /\ ToSet(second.routed) \subseteq ToSet(first.routed)
          /\ \/ second.raised
             \/ second.verifies >= second.policy.max_verify
             \/ InStep(first, second)

RouteCandidateTwice(runs, candidate) ==
    Both(Router!RouteCandidate(runs.first, candidate),
         Router!RouteCandidate(runs.second, candidate))

RunCandidates(from, candidates) ==
    Candidates!FoldLeft(Router!RouteCandidate, from, candidates)

\* Two runs go through the same candidates.
CandidatesInStep(from, runs, candidates) ==
    /\ runs = Both(RunCandidates(from.first, candidates),
                   RunCandidates(from.second, candidates))
    /\ Repeats(runs.first, runs.second)

TwiceCandidates ==
    INSTANCE FoldFacts WITH Op <- RouteCandidateTwice, P <- CandidatesInStep

\* One more candidate for both runs.
LEMMA CandidateRepeats ==
  ASSUME NEW first, NEW second, Repeats(first, second),
         NEW candidate, IsCandidate(candidate)
  PROVE  Repeats(Router!RouteCandidate(first, candidate),
                 Router!RouteCandidate(second, candidate))
<1> DEFINE mine == Router!RouteCandidate(first, candidate)
           yours == Router!RouteCandidate(second, candidate)
<1>1. /\ IsRun(first) /\ IsRun(second) /\ first.policy = second.policy
      /\ first.snapshot = second.snapshot
      /\ second.verifies \in Nat /\ second.policy.max_verify \in Nat
  BY DEF Repeats, IsRun
<1>2. Continues(first, mine) /\ Continues(second, yours)
  BY <1>1, CandidateContinues
<1> DEFINE Goal == Repeats(mine, yours)
<1> SUFFICES Goal
  OBVIOUS
<1>3. CASE first.raised
  <2>1. mine = first
    BY <1>3 DEF Router!RouteCandidate
  <2> HIDE DEF yours, mine
  <2> QED
    BY <1>1, <1>2, <1>3, <2>1 DEF Repeats, Continues
<1>4. CASE ~first.raised /\ second.raised
  <2>1. yours = second
    BY <1>4 DEF Router!RouteCandidate
  <2> HIDE DEF yours, mine
  <2>2. ToSet(yours.routed) \subseteq ToSet(mine.routed)
    BY <1>2, <1>4, <2>1 DEF Repeats, Continues
  <2> QED
    BY <1>1, <1>2, <1>4, <2>1, <2>2 DEF Repeats, Continues
<1>5. ASSUME ~first.raised, ~second.raised, Stopped(second, candidate),
             second.verifies >= second.policy.max_verify
      PROVE  Goal
  <2>1. yours.routed = second.routed /\ yours.verifies = second.verifies
    BY <1>1, <1>5, RefusedCandidates
  <2> HIDE DEF yours, mine
  <2>2. ToSet(yours.routed) \subseteq ToSet(mine.routed)
    BY <1>2, <1>5, <2>1 DEF Repeats, Continues
  <2> QED
    BY <1>1, <1>2, <1>5, <2>1, <2>2 DEF Repeats, Continues
<1>6. ASSUME ~first.raised, ~second.raised, InStep(first, second),
             Stopped(first, candidate), Stopped(second, candidate)
      PROVE  Goal
  <2>1. /\ DOMAIN mine = RunFields /\ DOMAIN yours = RunFields
        /\ mine.policy = first.policy /\ mine.snapshot = first.snapshot
        /\ mine.counted = first.counted + 1 /\ mine.seen = first.seen
        /\ mine.routed = first.routed /\ mine.verifies = first.verifies
        /\ yours.policy = second.policy /\ yours.snapshot = second.snapshot
        /\ yours.counted = second.counted + 1 /\ yours.seen = second.seen
        /\ yours.routed = second.routed /\ yours.verifies = second.verifies
        /\ IF first.snapshot = NoSnapshot THEN mine.raised
           ELSE mine.raised = first.raised /\ yours.raised = second.raised
    BY <1>1, <1>6, RefusedCandidates
  <2> HIDE DEF yours, mine
  <2>2. mine.raised \/ InStep(mine, yours)
    BY <1>6, <2>1 DEF InStep
  <2>3. ToSet(yours.routed) \subseteq ToSet(mine.routed)
    BY <1>6, <2>1 DEF InStep
  <2> QED
    BY <1>1, <1>2, <2>1, <2>2, <2>3 DEF Repeats, Continues
<1>7. ASSUME ~first.raised, ~second.raised, InStep(first, second),
             ~Stopped(first, candidate), ~Stopped(second, candidate)
      PROVE  Goal
  <2> DEFINE counted(done) == [done EXCEPT !.counted = @ + 1]
  <2>1. /\ mine = Router!RouteTasks(counted(first), candidate)
        /\ yours = Router!RouteTasks(counted(second), candidate)
    BY <1>7, RoutedCandidates
  <2>2. ~(second.verifies >= second.policy.max_verify)
    BY <1>7, StoppedAtTheLimit
  <2>3. /\ InStep(counted(first), counted(second))
        /\ counted(second).verifies = second.verifies
        /\ counted(second).policy = second.policy
        /\ counted(first).routed = first.routed /\ counted(second).routed = second.routed
        /\ counted(first).verifies = first.verifies /\ counted(first).policy = first.policy
        /\ DOMAIN counted(first) = RunFields /\ DOMAIN counted(second) = RunFields
    BY <1>7 DEF InStep, RunFields
  <2> HIDE DEF counted
  <2>4. IsRun(counted(first)) /\ IsRun(counted(second))
    BY <1>1, <2>3 DEF IsRun, Checks
  <2>5. counted(second).verifies < counted(second).policy.max_verify
    BY <1>1, <2>2, <2>3
  <2>6. InStep(mine, yours)
    BY <2>1, <2>3, <2>4, <2>5, RoutedInStep
  <2> HIDE DEF yours, mine
  <2>7. ToSet(yours.routed) \subseteq ToSet(mine.routed)
    BY <2>6 DEF InStep
  <2> QED
    BY <1>1, <1>2, <2>6, <2>7 DEF Repeats, Continues
<1>8. ~first.raised /\ ~second.raised =>
          second.verifies >= second.policy.max_verify \/ InStep(first, second)
  BY DEF Repeats
<1>9. InStep(first, second) =>
          /\ Stopped(first, candidate) => Stopped(second, candidate)
          /\ Stopped(second, candidate) =>
                 Stopped(first, candidate) \/ second.verifies >= second.policy.max_verify
  BY <1>1, GuardrailsInStep
<1>10. second.verifies >= second.policy.max_verify => Stopped(second, candidate)
  BY StoppedAtTheLimit
<1> HIDE DEF Goal, mine, yours
<1> QED
  BY <1>3, <1>4, <1>5, <1>6, <1>7, <1>8, <1>9, <1>10

\* A run that begins with at least as much waiting adds nothing the other has not added.
LEMMA RunsRepeat ==
  ASSUME NEW policy, policy.max_verify \in Nat, policy.max_scans \in Nat, NEW snapshot,
         NEW before, NEW after, IsFiniteSet(DOMAIN before), IsFiniteSet(DOMAIN after),
         Cardinality(Waiting(before)) <= Cardinality(Waiting(after)),
         NEW candidates, IsList(candidates), \A c \in ToSet(candidates) : IsCandidate(c)
  PROVE  Repeats(Router!Routed(policy, snapshot, before, candidates),
                 Router!Routed(policy, snapshot, after, candidates))
<1> DEFINE first == Router!Starting(policy, snapshot, before)
           second == Router!Starting(policy, snapshot, after)
           base == Both(first, second)
<1>1. /\ IsRun(first) /\ IsRun(second)
      /\ first.verifies = Cardinality(Waiting(before))
      /\ second.verifies = Cardinality(Waiting(after))
  BY RunsAccount DEF Waiting
<1>2. /\ first.policy = policy /\ second.policy = policy
      /\ first.snapshot = snapshot /\ second.snapshot = snapshot
      /\ first.counted = 0 /\ second.counted = 0 /\ first.seen = {} /\ second.seen = {}
      /\ first.routed = <<>> /\ second.routed = <<>>
      /\ first.raised = FALSE /\ second.raised = FALSE
  BY DEF Router!Starting
<1> HIDE DEF first, second
<1>3. Repeats(first, second)
  BY <1>1, <1>2 DEF Repeats, InStep, IsRun
<1>4. base.first = first /\ base.second = second
  BY DEF Both
<1>5. CandidatesInStep(base, base, <<>>)
  <2>1. RunCandidates(first, <<>>) = first /\ RunCandidates(second, <<>>) = second
    BY Candidates!FoldOfNothing DEF RunCandidates
  <2> QED
    BY <1>3, <1>4, <2>1 DEF CandidatesInStep
<1> HIDE DEF base
<1>6. ASSUME NEW runs, NEW list \in Seq(ToSet(candidates)), NEW c \in ToSet(candidates),
             CandidatesInStep(base, runs, list)
      PROVE  CandidatesInStep(base, RouteCandidateTwice(runs, c), Append(list, c))
  <2> DEFINE next == RouteCandidateTwice(runs, c)
  <2>1. /\ next.first = Router!RouteCandidate(runs.first, c)
        /\ next.second = Router!RouteCandidate(runs.second, c)
        /\ runs.first = RunCandidates(first, list)
        /\ runs.second = RunCandidates(second, list)
        /\ next = Both(next.first, next.second)
    BY <1>4, <1>6 DEF RouteCandidateTwice, Both, CandidatesInStep
  <2>2. /\ RunCandidates(first, Append(list, c)) =
               Router!RouteCandidate(RunCandidates(first, list), c)
        /\ RunCandidates(second, Append(list, c)) =
               Router!RouteCandidate(RunCandidates(second, list), c)
    BY Candidates!FoldAppends DEF RunCandidates
  <2> HIDE DEF next
  <2>3. Repeats(next.first, next.second)
    BY <1>6, <2>1, CandidateRepeats DEF CandidatesInStep
  <2>4. CandidatesInStep(base, next, Append(list, c))
    BY <1>4, <2>1, <2>2, <2>3 DEF CandidatesInStep
  <2> QED
    BY <2>4 DEF next
<1>7. \A runs, list, c :
          CandidatesInStep(base, runs, list) /\ list \in Seq(ToSet(candidates))
              /\ c \in ToSet(candidates) =>
              CandidatesInStep(base, RouteCandidateTwice(runs, c), Append(list, c))
  BY <1>6
<1>8. candidates \in Seq(ToSet(candidates))
  BY DEF IsList
<1>9. CandidatesInStep(base, TwiceCandidates!FoldLeft(RouteCandidateTwice, base, candidates),
                       candidates)
  BY <1>5, <1>7, <1>8, TwiceCandidates!FoldInduction
<1>10. Repeats(RunCandidates(first, candidates), RunCandidates(second, candidates))
  BY <1>4, <1>9 DEF CandidatesInStep, Both
<1>11. \A from : RunCandidates(from, candidates) =
                     Router!FoldLeft(Router!RouteCandidate, from, candidates)
  BY DEF RunCandidates, Candidates!FoldLeft, Candidates!MapThenFoldSet, Candidates!Max,
         Router!FoldLeft, Router!MapThenFoldSet, Router!Max
<1> QED
  BY <1>10, <1>11 DEF Router!Routed, first, second

(***************************************************************************)
(* As long as nothing was worked on, the queue is what the last run made   *)
(* of the queue it found.                                                  *)
(***************************************************************************)
RepeatInv ==
    Begun("routing") /\ ~outcome.worked =>
        \E queue :
            /\ IsFiniteSet(DOMAIN queue)
            /\ outcome.done = Router!Routed(input.policy, input.snapshot, queue, input.candidates)
            /\ outcome.queue = Router!QueueAfter(queue, outcome.done)

\* The queue since the last run.
LEMMA RepeatInvHolds == Spec => []RepeatInv
<1>1. Init => RepeatInv
  BY DEF Init, RepeatInv, Begun
<1>2. ASSUME InputInv, RoutingInv, RouteCandidates
      PROVE  RepeatInv'
  <2>1. /\ input.subject = "routing" /\ input' = input
        /\ outcome'.done = Router!Routed(input.policy, input.snapshot, QueueNow,
                                         input.candidates)
        /\ outcome'.queue = Router!QueueAfter(QueueNow, outcome'.done)
    BY <1>2 DEF RouteCandidates, About
  <2>2. IsFiniteSet(DOMAIN QueueNow)
    BY <1>2, <2>1, RoutingInputsAreLists DEF QueueNow, RoutingInv, Begun
  <2> QED
    BY <2>1, <2>2 DEF RepeatInv
<1>3. ASSUME RoutingInv, NEW t, FinishTask(t)
      PROVE  RepeatInv'
  <2>1. Begun("routing") /\ outcome' = [outcome EXCEPT !.queue[t] = "done", !.worked = TRUE]
        /\ "worked" \in DOMAIN outcome
    BY <1>3 DEF FinishTask, About, Begun, RoutingInv
  <2>2. outcome'.worked
    BY <2>1
  <2> QED
    BY <2>2 DEF RepeatInv
<1>4. RepeatInv /\ [Next]_vars /\ input.subject # "routing" => RepeatInv'
  BY StepsAreAbout DEF RepeatInv, Begun, vars, About
<1>5. [Next]_vars /\ input.subject = "routing" =>
          UNCHANGED vars \/ RouteCandidates \/ \E t \in DOMAIN QueueNow : FinishTask(t)
  BY StepsAreAbout DEF About
<1>6. RepeatInv /\ UNCHANGED vars => RepeatInv'
  BY DEF RepeatInv, Begun, vars
<1>7. InputInv /\ RoutingInv /\ RepeatInv /\ [Next]_vars => RepeatInv'
  BY <1>2, <1>3, <1>4, <1>5, <1>6
<1> QED
  BY <1>1, <1>7, InputStays, RoutingInvHolds, PTL DEF Spec

(***************************************************************************)
(* Routing again takes nothing up that is known to the queue, and adds     *)
(* nothing to it unless something was worked on in between: for any        *)
(* policy, any queue and any candidates.                                   *)
(***************************************************************************)
THEOREM RoutingAgainAddsNothing == Spec => RoutingIsRepeatable
<1> DEFINE Again ==
        Begun("routing") /\ outcome'.rounds > outcome.rounds =>
            /\ \A t \in DOMAIN outcome.queue : outcome'.queue[t] = outcome.queue[t]
            /\ ~outcome.worked => outcome'.queue = outcome.queue
<1>1. ASSUME InputInv, RoutingInv, RepeatInv, Begun("routing"), RouteCandidates
      PROVE  Again
  <2> DEFINE queue == outcome.queue
             done == outcome.done
             again == Router!Routed(input.policy, input.snapshot, queue, input.candidates)
  <2>1. outcome'.queue = Router!QueueAfter(queue, again)
    BY <1>1 DEF RouteCandidates, Begun, QueueNow
  <2> HIDE DEF again
  <2>2. \A t \in DOMAIN queue : outcome'.queue[t] = queue[t]
    BY <2>1 DEF Router!QueueAfter
  <2>3. ASSUME ~outcome.worked
        PROVE  outcome'.queue = queue
    <3>1. PICK before :
              /\ IsFiniteSet(DOMAIN before)
              /\ done = Router!Routed(input.policy, input.snapshot, before, input.candidates)
              /\ queue = Router!QueueAfter(before, done)
      BY <1>1, <2>3 DEF RepeatInv
    <3>2. /\ input.policy.max_verify \in Nat /\ input.policy.max_scans \in Nat
          /\ IsList(input.candidates)
          /\ \A c \in ToSet(input.candidates) : IsCandidate(c)
          /\ IsFiniteSet(DOMAIN queue)
      BY <1>1, RoutingInputsAreLists DEF Begun, RoutingInv
    <3>3. done.raised \/ ToSet(done.routed) \subseteq DOMAIN queue
      BY <1>1 DEF RoutingInv
    <3>4. CASE done.raised
      <4>1. queue = before
        BY <3>1, <3>4 DEF Router!QueueAfter
      <4>2. again = done
        BY <3>1, <4>1 DEF again
      <4> QED
        BY <2>1, <3>4, <4>2 DEF Router!QueueAfter
    <3>5. CASE ~done.raised
      <4>1. queue = [t \in DOMAIN before \cup Router!ToSet(done.routed) |->
                        IF t \in DOMAIN before THEN before[t] ELSE "pending"]
        BY <3>1, <3>5 DEF Router!QueueAfter
      <4> HIDE DEF queue, done
      <4>2. Waiting(before) \in SUBSET Waiting(queue)
        BY <4>1 DEF Waiting, Router!PendingVerifications
      <4>3. Cardinality(Waiting(before)) <= Cardinality(Waiting(queue))
        BY <3>2, <4>2, WaitingIsFinite, FS_Subset
      <4>4. Repeats(done, again)
        BY <3>1, <3>2, <4>3, RunsRepeat DEF again
      <4>5. CASE again.raised
        BY <2>1, <4>5 DEF Router!QueueAfter
      <4>6. CASE ~again.raised
        <5>1. ToSet(again.routed) \subseteq DOMAIN queue
          BY <3>3, <3>5, <4>4 DEF Repeats
        <5>2. Router!ToSet(again.routed) = ToSet(again.routed)
          BY SameRouterOperators
        <5>3. outcome'.queue =
                  [t \in DOMAIN queue \cup Router!ToSet(again.routed) |->
                      IF t \in DOMAIN queue THEN queue[t] ELSE "pending"]
          BY <2>1, <4>6 DEF Router!QueueAfter
        <5>4. DOMAIN queue \cup Router!ToSet(again.routed) = DOMAIN queue
          BY <5>1, <5>2
        <5>5. outcome'.queue = [t \in DOMAIN queue |-> queue[t]]
          BY <5>3, <5>4
        <5>6. queue = [t \in DOMAIN queue |-> queue[t]]
          BY <4>1
        <5> QED
          BY <5>5, <5>6
      <4> QED
        BY <4>5, <4>6
    <3> QED
      BY <3>4, <3>5
  <2> QED
    BY <2>2, <2>3
<1>2. ASSUME RoutingInv, Begun("routing"), NEW t, FinishTask(t)
      PROVE  Again
  <2>1. outcome' = [outcome EXCEPT !.queue[t] = "done", !.worked = TRUE]
        /\ "rounds" \in DOMAIN outcome /\ outcome.rounds \in Nat
    BY <1>2 DEF FinishTask, RoutingInv
  <2>2. outcome'.rounds = outcome.rounds
    BY <2>1
  <2> QED
    BY <2>1, <2>2
<1>3. [Next]_vars /\ Begun("routing") =>
          UNCHANGED vars \/ RouteCandidates \/ \E t \in DOMAIN QueueNow : FinishTask(t)
  BY StepsAreAbout DEF About, Begun
<1>4. InputInv /\ RoutingInv /\ RepeatInv /\ [Next]_vars => [Again]_vars
  <2>1. ~Begun("routing") => Again
    OBVIOUS
  <2> HIDE DEF Again
  <2> QED
    BY <1>1, <1>2, <1>3, <2>1
<1> QED
  BY <1>4, InputStays, RoutingInvHolds, RepeatInvHolds, PTL DEF Spec, RoutingIsRepeatable
=============================================================================
