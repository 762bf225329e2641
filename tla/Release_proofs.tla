----------------------------- MODULE Release_proofs ----------------------------
(***************************************************************************)
(* Proofs about what puts a version into service and takes it out again:   *)
(* the merge queue, for any pull requests, jobs and bounds, and the        *)
(* rollback engine, for any models, runs, versions, changes and failed     *)
(* requests.                                                               *)
(***************************************************************************)
EXTENDS MergeQueue, Rollback, TLAPS, FiniteSetTheorems, SequenceTheorems

-----------------------------------------------------------------------------
(* The merge queue: jobs that know nothing of each other do not merge a    *)
(* head that none of them has seen in order.                               *)

(* Where a job can be: it has something to do unless it is idle, and has   *)
(* not updated the branch yet when it is about to.                         *)
WellFormed(b) ==
    /\ b \in JobState
    /\ b.at = "idle" <=> b.todo = <<>>
    /\ b.at = "update" => b.behind_updates = 0

TInv ==
    /\ pr \in [PRs -> PullRequest] /\ asked \in [PRs -> BOOLEAN]
    /\ DOMAIN job = Jobs /\ job = [j \in Jobs |-> job[j]]
    /\ \A j \in Jobs : WellFormed(job[j])
    /\ events \in 0..MaxEvents /\ aborts \in 0..MaxAborts

Clear(q) == q.clear # "no"

(* A job that was sure of it has merged the pull request.                  *)
Vouched(q) == q.state = "MERGED" /\ q.vetted

(* What the history variables say of a pull request is so.                 *)
Honest(q) ==
    /\ q.checks = "green" => Clear(q)
    /\ q.checks = "none" /\ q.age = quiet_age => Clear(q)
    /\ Vouched(q) => Clear(q)

(* What a job knows that has counted the workflows and is on its way to a  *)
(* merge: the head it has seen was clear then, and is so still unless      *)
(* another one has taken its place.                                        *)
Seen(b, q) ==
    b.at \in {"hold", "merge"} =>
        b.head <= q.head /\ (b.ci /\ b.head = q.head => Clear(q))

(* And when it is about to merge and is sure of it, it is no major update. *)
Minor(b) == b.at = "merge" /\ b.sure => Head(b.todo) \notin Major

Knows(b) == Seen(b, pr[Head(b.todo)]) /\ Minor(b)

IInv ==
    /\ TInv
    /\ \A p \in PRs : Honest(pr[p])
    /\ \A p \in Major : ~Vouched(pr[p])
    /\ \A j \in Jobs : job[j].at # "idle" => Knows(job[j])

(* A pull request moves on.                                                *)
Grown(q, r) == r.head > q.head \/ (r.head = q.head /\ (Clear(q) => Clear(r)))

-----------------------------------------------------------------------------

LEMMA Numbers ==
    /\ startup_wait \in Nat /\ pending_wait \in Nat /\ MaxEvents \in Nat /\ MaxAborts \in Nat
    /\ quiet_age \in Nat \ {0} /\ MaxHeads \in Nat \ {0}
BY QueueAssumption DEF QueueAssumption

LEMMA FreshAge == 0 \in 0..quiet_age /\ 0 # quiet_age
BY Numbers

LEMMA PullRequestFields ==
    ASSUME NEW q \in PullRequest
    PROVE  /\ q.head \in 1..MaxHeads /\ q.head \in 0..MaxHeads /\ q.head \in Int
           /\ q.age \in 0..quiet_age /\ q.age \in Int
           /\ q.checks \in Checks
<1>1. q.head \in 1..MaxHeads /\ q.age \in 0..quiet_age /\ q.checks \in Checks
  BY DEF PullRequest
<1> QED BY <1>1, Numbers

(* What a job does next is something a job can do.                         *)
LEMMA IdleWellFormed == WellFormed(Idle)
BY Numbers DEF WellFormed, Idle, JobState

LEMMA RestTodo ==
    ASSUME NEW s \in Seq(PRs), s # <<>>, Len(s) # 1
    PROVE  Tail(s) \in Seq(PRs) /\ Tail(s) # <<>>
<1>1. Len(s) \in Nat \ {0}
  BY EmptySeq
<1>2. Tail(s) \in Seq(PRs) /\ Len(Tail(s)) = Len(s) - 1
  BY HeadTailProperties
<1>3. Len(Tail(s)) # 0
  BY <1>1, <1>2
<1> QED BY <1>2, <1>3, EmptySeq

LEMMA JobMoves ==
    ASSUME NEW b \in JobState, NEW t \in Seq(PRs), NEW h \in 0..MaxHeads, NEW u \in 0..1,
           NEW w \in 0..pending_wait + 1,
           NEW at \in {"idle", "view", "update", "rebase", "hold", "merge"}, NEW e \in BOOLEAN
    PROVE  /\ [b EXCEPT !.at = at, !.head = h] \in JobState
           /\ [b EXCEPT !.at = at, !.head = h, !.waited = w] \in JobState
           /\ [b EXCEPT !.at = at, !.todo = t, !.head = h, !.behind_updates = u,
                        !.waited = w, !.sure = e] \in JobState
<1>1. [b EXCEPT !.at = at, !.head = h] \in JobState
  BY DEF JobState
<1>2. [b EXCEPT !.at = at, !.head = h, !.waited = w] \in JobState
  BY DEF JobState
<1>3. [b EXCEPT !.at = at, !.todo = t, !.head = h, !.behind_updates = u, !.waited = w,
                !.sure = e] \in JobState
  BY DEF JobState
<1> QED BY <1>1, <1>2, <1>3

LEMMA JobStarts ==
    ASSUME NEW b \in JobState, NEW t \in Seq(PRs), NEW ci \in BOOLEAN, NEW pin \in SUBSET BOOLEAN,
           NEW m \in {"once", "watch"}
    PROVE  [b EXCEPT !.at = "view", !.ci = ci, !.pin = pin, !.todo = t, !.mode = m]
                \in JobState
BY DEF JobState

LEMMA JobMerges ==
    ASSUME NEW b \in JobState, NEW e \in BOOLEAN
    PROVE  [b EXCEPT !.at = "merge", !.sure = e] \in JobState
BY DEF JobState

LEMMA UpdateCounted ==
    ASSUME NEW b \in JobState
    PROVE  [b EXCEPT !.behind_updates = 1] \in JobState
<1>1. 1 \in 0..1
  OBVIOUS
<1> QED BY <1>1 DEF JobState

LEMMA ReturnedWellFormed ==
    ASSUME NEW b, WellFormed(b), b.todo # <<>>
    PROVE  /\ WellFormed(Returned(b))
           /\ Returned(b).at \in {"idle", "view"}
<1>1. CASE Len(b.todo) = 1
  BY <1>1, IdleWellFormed DEF Returned, Idle
<1>2. CASE Len(b.todo) # 1
  <2>1. b \in JobState /\ b.todo \in Seq(PRs)
    BY DEF WellFormed, JobState
  <2>2. Tail(b.todo) \in Seq(PRs) /\ Tail(b.todo) # <<>>
    BY <1>2, <2>1, RestTodo
  <2> DEFINE c == [b EXCEPT !.at = "view", !.todo = Tail(b.todo), !.head = 0,
                            !.behind_updates = 0, !.waited = 0, !.sure = TRUE]
  <2>3. Returned(b) = c
    BY <1>2 DEF Returned
  <2>4. 0 \in 0..MaxHeads /\ 0 \in 0..1 /\ 0 \in 0..pending_wait + 1
    BY ONLY Numbers
  <2>5. c \in JobState
    BY <2>1, <2>2, <2>4, JobMoves, ZenonT(40)
  <2>6. c.at = "view" /\ c.todo = Tail(b.todo)
    BY <2>1 DEF JobState
  <2> HIDE DEF c
  <2> QED BY <2>2, <2>3, <2>5, <2>6 DEF WellFormed
<1> QED BY <1>1, <1>2

LEMMA SleptWellFormed ==
    ASSUME NEW b \in JobState, b.todo # <<>>
    PROVE  WellFormed(Slept(b)) /\ Slept(b).at = "view"
<1> DEFINE w == IF b.waited > pending_wait THEN b.waited ELSE b.waited + 1
           c == [b EXCEPT !.at = "view", !.head = 0, !.waited = w]
<1>1. Slept(b) = c
  BY DEF Slept
<1>2. w \in 0..pending_wait + 1 /\ 0 \in 0..MaxHeads
  BY Numbers, SMTT(30) DEF JobState
<1>3. c \in JobState
  <2> HIDE DEF w
  <2>1. b.todo \in Seq(PRs) /\ b.behind_updates \in 0..1
    BY DEF JobState
  <2> QED BY <1>2, <2>1, JobMoves
<1>4. c.at = "view" /\ c.todo = b.todo
  BY DEF JobState
<1> HIDE DEF c
<1> QED BY <1>1, <1>3, <1>4 DEF WellFormed

(* main: what is listed can be gone through.                               *)
LEMMA ListedTodo ==
    ASSUME TInv, Open # {}, NEW todo \in Listed
    PROVE  todo \in Seq(PRs) /\ todo # <<>>
<1>1. IsFiniteSet(Open) /\ Open \subseteq PRs
  BY QueueAssumption, FS_Subset DEF QueueAssumption, Open
<1>2. Cardinality(Open) \in Nat /\ Cardinality(Open) # 0
  BY <1>1, FS_CardinalityType, FS_EmptySet
<1>3. todo \in [1..Cardinality(Open) -> Open]
  BY DEF Listed
<1> QED BY <1>1, <1>2, <1>3

LEMMA StartTodo ==
    ASSUME TInv, NEW j \in Jobs, Start(j)
    PROVE  \E b : job' = [job EXCEPT ![j] = b] /\ WellFormed(b) /\ b.at = "view"
<1>1. PICK ci \in Counted,
           todo \in IF j \in Crons THEN Listed
                    ELSE {<<p>> : p \in {n \in Open : Author[n] # "fork"}} :
        job' = [job EXCEPT ![j] =
                [Idle EXCEPT !.at = "view", !.ci = ci, !.pin = Pinned, !.todo = todo,
                             !.mode = IF j \in Crons THEN "once" ELSE "watch"]]
  BY DEF Start
<1>2. todo \in Seq(PRs) /\ todo # <<>>
  <2>1. CASE j \in Crons
    BY <1>1, <2>1, ListedTodo DEF Start
  <2>2. CASE j \notin Crons
    <3>1. PICK p \in Open : todo = <<p>>
      BY <1>1, <2>2
    <3> QED BY <3>1 DEF Open
  <2> QED BY <2>1, <2>2
<1>3. ci \in BOOLEAN /\ Pinned \in SUBSET BOOLEAN
  BY QueueAssumption DEF QueueAssumption, Counted, Pinned
<1> DEFINE b == [Idle EXCEPT !.at = "view", !.ci = ci, !.pin = Pinned, !.todo = todo,
                             !.mode = IF j \in Crons THEN "once" ELSE "watch"]
<1>4. b \in JobState
  <2> DEFINE m == IF j \in Crons THEN "once" ELSE "watch"
  <2>1. b = [Idle EXCEPT !.at = "view", !.ci = ci, !.pin = Pinned, !.todo = todo, !.mode = m]
    OBVIOUS
  <2>2. m \in {"once", "watch"}
    OBVIOUS
  <2> HIDE DEF b, m
  <2> QED BY <1>2, <1>3, <2>1, <2>2, IdleWellFormed, JobStarts DEF WellFormed
<1>5. b.at = "view" /\ b.todo = todo
  BY DEF Idle
<1>6. job' = [job EXCEPT ![j] = b]
  BY <1>1
<1> HIDE DEF b
<1> QED BY <1>2, <1>4, <1>5, <1>6 DEF WellFormed

(* process_pr: a job that goes on to a request has looked at what is       *)
(* there, and it goes on to a merge with what is clear only, at once only  *)
(* when it is none of Dependabot's.                                        *)
LEMMA LookDecides ==
    ASSUME TInv, NEW j \in Jobs, Look(j)
    PROVE  \E b : /\ job' = [job EXCEPT ![j] = b] /\ WellFormed(b)
                  /\ b.at = "merge" => ~Dependabot(Head(b.todo))
                  /\ b.at \in {"hold", "merge"} =>
                        LET q == pr[Head(b.todo)]
                        IN  /\ b.head = q.head
                            /\ b.ci => \/ q.checks = "green"
                                       \/ q.checks = "none" /\ q.age = quiet_age
<1> DEFINE a == job[j]
           p == Head(a.todo)
<1>1. PICK i \in 1..Len(Rules(p, a)) :
        /\ First(Rules(p, a), i)
        /\ job' = [job EXCEPT ![j] =
                CASE Rules(p, a)[i].then = "skip" -> Returned(a)
                  [] Rules(p, a)[i].then = "wait" -> Slept(a)
                  [] OTHER -> [a EXCEPT !.at = Rules(p, a)[i].then, !.head = pr[p].head]]
  BY DEF Look
<1>2. WellFormed(a) /\ a \in JobState /\ a.at = "view" /\ a.todo # <<>> /\ p \in PRs
  BY DEF TInv, Look, WellFormed, JobState
<1>3. pr[p] \in PullRequest
  BY <1>2, SMTT(30) DEF TInv
<1> DEFINE then == Rules(p, a)[i].then
           b == CASE then = "skip" -> Returned(a)
                  [] then = "wait" -> Slept(a)
                  [] OTHER -> [a EXCEPT !.at = then, !.head = pr[p].head]
<1>4. Len(Rules(p, a)) = 8 /\ i \in 1..8
  BY <1>1, ZenonT(40) DEF Rules
<1>5. /\ then \in {"skip", "wait", "rebase", "update", "hold", "merge"}
      /\ then = "update" => a.behind_updates = 0
      /\ then \in {"hold", "merge"} => i = 8
      /\ then = "merge" => ~Dependabot(p)
  BY <1>2, <1>4, SMTT(30) DEF Rules, Refresh, JobState
<1>6. CASE then = "skip"
  <2>1. b = Returned(a)
    BY <1>6
  <2> QED BY <1>1, <1>2, <2>1, ReturnedWellFormed
<1>7. CASE then = "wait"
  <2>1. b = Slept(a)
    BY <1>7
  <2> QED BY <1>1, <1>2, <2>1, SleptWellFormed
<1>8. CASE then \in {"rebase", "update", "hold", "merge"}
  <2>1. b = [a EXCEPT !.at = then, !.head = pr[p].head]
    BY <1>8
  <2>2. b.at = then /\ b.ci = a.ci /\ b.todo = a.todo /\ b.head = pr[p].head
        /\ b.behind_updates = a.behind_updates
    BY <1>2, <2>1 DEF JobState
  <2>6. b \in JobState
    <3>1. a.todo \in Seq(PRs) /\ a.behind_updates \in 0..1 /\ a.waited \in 0..pending_wait + 1
      BY <1>2 DEF JobState
    <3>2. pr[p].head \in 0..MaxHeads
      BY <1>3, PullRequestFields
    <3>3. then \in {"idle", "view", "update", "rebase", "hold", "merge"}
      BY <1>8
    <3> HIDE DEF a, p, then
    <3> QED BY <1>2, <2>1, <3>1, <3>2, <3>3, JobMoves
  <2>7. WellFormed(b)
    <3> HIDE DEF b, then
    <3> QED BY <1>2, <1>5, <1>8, <2>2, <2>6 DEF WellFormed
  <2>3. ASSUME then \in {"hold", "merge"}, a.ci
        PROVE  \/ pr[p].checks = "green"
               \/ pr[p].checks = "none" /\ pr[p].age = quiet_age
    <3>1. \A k \in 1..7 : ~Rules(p, a)[k].if
      BY <1>1, <1>5, <2>3 DEF First
    <3>2. /\ ~Rules(p, a)[1].if /\ ~Rules(p, a)[3].if /\ ~Rules(p, a)[4].if
          /\ ~Rules(p, a)[5].if /\ ~Rules(p, a)[6].if
      BY <3>1
    <3>5. ~Running(pr[p])
      BY <3>2 DEF Rules
    <3>6. pr[p].checks \notin {"failed", "stale"}
      BY <3>2 DEF Rules
    <3>7. ~(pr[p].checks = "none" /\ pr[p].age < quiet_age)
      BY <2>3, <3>2 DEF Rules
    <3>3. /\ pr[p].checks \notin {"failed", "stale", "pending"}
          /\ ~(pr[p].checks = "none" /\ pr[p].age < quiet_age)
      BY <3>5, <3>6, <3>7 DEF Running
    <3>4. pr[p].checks \in Checks /\ pr[p].age \in 0..quiet_age
      BY <1>3 DEF PullRequest
    <3> QED BY <3>3, <3>4, Numbers DEF Checks
  <2>4. job' = [job EXCEPT ![j] = b]
    BY <1>1
  <2> HIDE DEF b, then
  <2> QED BY <1>5, <2>2, <2>3, <2>4, <2>7
<1> QED BY <1>5, <1>6, <1>7, <1>8

-----------------------------------------------------------------------------

(* What happens to a pull request, but for its merge: it moves on, and     *)
(* what its history says stays so.                                         *)
Moved(q, r) ==
    /\ r \in PullRequest /\ Grown(q, r)
    /\ Honest(q) => Honest(r)
    /\ Vouched(r) => Vouched(q)

AllMoved == pr' \in [PRs -> PullRequest] /\ \A p \in PRs : Moved(pr[p], pr'[p])

LEMMA NewHeadMoved ==
    ASSUME NEW q \in PullRequest, q.head < MaxHeads, q.state = "OPEN"
    PROVE  Moved(q, NewHead(q, q.head + 1))
<1> DEFINE r == NewHead(q, q.head + 1)
<1>1. q.head + 1 \in 1..MaxHeads /\ q.head + 1 > q.head
  BY PullRequestFields, Numbers
<1>2. /\ r.head = q.head + 1 /\ r.checks = "none" /\ r.age = 0 /\ r.state = "OPEN"
  BY DEF NewHead, PullRequest
<1>3. 0 \in 0..quiet_age /\ 0 # quiet_age
  BY FreshAge
<1>4. r \in PullRequest
  BY <1>1, <1>3 DEF NewHead, PullRequest, Checks
<1> SUFFICES Moved(q, r)
  OBVIOUS
<1> HIDE DEF r
<1> QED BY <1>1, <1>2, <1>3, <1>4 DEF Moved, Grown, Honest, Clear, Vouched

LEMMA RecomputedMoved ==
    ASSUME NEW q \in PullRequest, NEW m \in {"UNKNOWN", "CLEAN", "BEHIND", "CONFLICTING"}
    PROVE  Moved(q, [q EXCEPT !.merge = m])
<1> DEFINE r == [q EXCEPT !.merge = m]
<1>1. r \in PullRequest
  BY DEF PullRequest
<1>2. /\ r.head = q.head /\ r.checks = q.checks /\ r.age = q.age /\ r.state = q.state
      /\ r.clear = q.clear /\ r.vetted = q.vetted
  BY DEF PullRequest
<1> SUFFICES Moved(q, r)
  OBVIOUS
<1> HIDE DEF r
<1> QED BY <1>1, <1>2 DEF Moved, Grown, Honest, Clear, Vouched

LEMMA ReportedMoved ==
    ASSUME NEW q \in PullRequest, NEW c \in Checks \ {"none"}
    PROVE  Moved(q, [q EXCEPT !.checks = c, !.clear = IF c = "green" THEN c ELSE q.clear])
<1> DEFINE g == IF c = "green" THEN c ELSE q.clear
           r == [q EXCEPT !.checks = c, !.clear = g]
<1>1. g \in {"no", "quiet", "green"} /\ (c = "green" => g # "no") /\ (g = "no" => q.clear = "no")
  BY DEF PullRequest
<1>2. /\ r.head = q.head /\ r.checks = c /\ r.age = q.age /\ r.state = q.state
      /\ r.clear = g /\ r.vetted = q.vetted
  <2> HIDE DEF g
  <2> QED BY DEF PullRequest
<1>3. r \in PullRequest
  <2> HIDE DEF g
  <2> QED BY <1>1 DEF PullRequest
<1> SUFFICES Moved(q, r)
  OBVIOUS
<1> HIDE DEF r, g
<1> QED BY <1>1, <1>2, <1>3 DEF Moved, Grown, Honest, Clear, Vouched

LEMMA ReviewedMoved ==
    ASSUME NEW q \in PullRequest, NEW h \in {"none", "draft", "changes"}
    PROVE  Moved(q, [q EXCEPT !.hold = h, !.age = 0])
<1> DEFINE r == [q EXCEPT !.hold = h, !.age = 0]
<1>1. 0 \in 0..quiet_age /\ 0 # quiet_age
  BY FreshAge
<1>2. r \in PullRequest
  BY <1>1 DEF PullRequest
<1>3. /\ r.head = q.head /\ r.checks = q.checks /\ r.age = 0 /\ r.state = q.state
      /\ r.clear = q.clear /\ r.vetted = q.vetted
  BY DEF PullRequest
<1> SUFFICES Moved(q, r)
  OBVIOUS
<1> HIDE DEF r
<1> QED BY <1>1, <1>2, <1>3 DEF Moved, Grown, Honest, Clear, Vouched

LEMMA TouchedMoved ==
    ASSUME NEW q \in PullRequest
    PROVE  Moved(q, [q EXCEPT !.age = 0])
<1> DEFINE r == [q EXCEPT !.age = 0]
<1>1. 0 \in 0..quiet_age /\ 0 # quiet_age
  BY FreshAge
<1>2. r \in PullRequest
  BY <1>1 DEF PullRequest
<1>3. /\ r.head = q.head /\ r.checks = q.checks /\ r.age = 0 /\ r.state = q.state
      /\ r.clear = q.clear /\ r.vetted = q.vetted
  BY DEF PullRequest
<1> SUFFICES Moved(q, r)
  OBVIOUS
<1> HIDE DEF r
<1> QED BY <1>1, <1>2, <1>3 DEF Moved, Grown, Honest, Clear, Vouched

LEMMA ClosedMoved ==
    ASSUME NEW q \in PullRequest
    PROVE  Moved(q, [q EXCEPT !.state = "CLOSED"])
<1> DEFINE r == [q EXCEPT !.state = "CLOSED"]
<1>1. r \in PullRequest
  BY DEF PullRequest
<1>2. /\ r.head = q.head /\ r.checks = q.checks /\ r.age = q.age /\ r.state = "CLOSED"
      /\ r.clear = q.clear /\ r.vetted = q.vetted
  BY DEF PullRequest
<1> SUFFICES Moved(q, r)
  OBVIOUS
<1> HIDE DEF r
<1> QED BY <1>1, <1>2 DEF Moved, Grown, Honest, Clear, Vouched

LEMMA AgedMoved ==
    ASSUME NEW q \in PullRequest, q.age < quiet_age
    PROVE  Moved(q, [q EXCEPT !.age = q.age + 1,
                              !.clear = IF q.checks = "none" /\ q.age + 1 = quiet_age
                                          THEN "quiet" ELSE q.clear])
<1> DEFINE g == IF q.checks = "none" /\ q.age + 1 = quiet_age THEN "quiet" ELSE q.clear
           r == [q EXCEPT !.age = q.age + 1, !.clear = g]
<1>1. /\ g \in {"no", "quiet", "green"} /\ (g = "no" => q.clear = "no")
      /\ q.checks = "none" /\ q.age + 1 = quiet_age => g # "no"
  BY DEF PullRequest
<1>2. q.age + 1 \in 0..quiet_age
  BY PullRequestFields, Numbers
<1>3. /\ r.head = q.head /\ r.checks = q.checks /\ r.age = q.age + 1 /\ r.state = q.state
      /\ r.clear = g /\ r.vetted = q.vetted
  <2> HIDE DEF g
  <2> QED BY DEF PullRequest
<1>4. r \in PullRequest
  <2> HIDE DEF g
  <2> QED BY <1>1, <1>2 DEF PullRequest
<1> SUFFICES Moved(q, r)
  OBVIOUS
<1> HIDE DEF r, g
<1> QED BY <1>1, <1>3, <1>4 DEF Moved, Grown, Honest, Clear, Vouched

LEMMA OneMoved ==
    ASSUME TInv, NEW p \in PRs, NEW r, Moved(pr[p], r), pr' = [pr EXCEPT ![p] = r]
    PROVE  AllMoved
<1>1. pr' \in [PRs -> PullRequest]
  BY DEF TInv, Moved
<1>2. ASSUME NEW q \in PRs
      PROVE  Moved(pr[q], pr'[q])
  <2>1. CASE q = p
    BY <2>1 DEF TInv
  <2>2. CASE q # p
    <3>1. pr'[q] = pr[q] /\ pr[q] \in PullRequest
      BY <2>2 DEF TInv
    <3> QED BY <3>1 DEF Moved, Grown
  <2> QED BY <2>1, <2>2
<1> QED BY <1>1, <1>2 DEF AllMoved

LEMMA NoneMoved ==
    ASSUME TInv, UNCHANGED pr
    PROVE  AllMoved
BY DEF TInv, AllMoved, Moved, Grown

LEMMA OutsideMoves ==
    ASSUME TInv, NEW p \in PRs, Outside(p) \/ Age(p)
    PROVE  AllMoved
<1> DEFINE q == pr[p]
<1>1. q \in PullRequest /\ q.state = "OPEN"
  BY DEF TInv, Outside, Age, Open
<1>2. CASE Push(p)
  BY <1>1, <1>2, NewHeadMoved, OneMoved DEF Push
<1>3. CASE Recompute(p)
  <2>1. PICK m \in {"UNKNOWN", "CLEAN", "BEHIND", "CONFLICTING"} :
            pr' = [pr EXCEPT ![p].merge = m]
    BY <1>3 DEF Recompute
  <2> QED BY <1>1, <2>1, RecomputedMoved, OneMoved
<1>4. CASE CheckReports(p)
  <2>1. PICK c \in Checks \ {"none"} :
            pr' = [pr EXCEPT ![p].checks = c, ![p].clear = IF c = "green" THEN c ELSE @]
    BY <1>4 DEF CheckReports, Checks
  <2>2. pr' = [pr EXCEPT ![p] =
                [q EXCEPT !.checks = c, !.clear = IF c = "green" THEN c ELSE q.clear]]
    BY <2>1
  <2> QED BY <1>1, <2>2, ReportedMoved, OneMoved
<1>5. CASE Review(p)
  <2>1. PICK h \in {"none", "draft", "changes"} :
            pr' = [pr EXCEPT ![p].hold = h, ![p].age = 0]
    BY <1>5 DEF Review
  <2>2. pr' = [pr EXCEPT ![p] = [q EXCEPT !.hold = h, !.age = 0]]
    BY <2>1
  <2> QED BY <1>1, <2>2, ReviewedMoved, OneMoved
<1>6. CASE Close(p)
  BY <1>1, <1>6, ClosedMoved, OneMoved DEF Close
<1>7. CASE pr' = [pr EXCEPT ![p].age = 0]
  BY <1>1, <1>7, TouchedMoved, OneMoved
<1>8. CASE Age(p)
  <2>1. q.age < quiet_age
    BY <1>8 DEF Age
  <2>2. pr' = [pr EXCEPT ![p] =
                [q EXCEPT !.age = q.age + 1,
                          !.clear = IF q.checks = "none" /\ q.age + 1 = quiet_age
                                      THEN "quiet" ELSE q.clear]]
    BY <1>8 DEF Age
  <2> QED BY <1>1, <2>1, <2>2, AgedMoved, OneMoved
<1> QED BY <1>2, <1>3, <1>4, <1>5, <1>6, <1>7, <1>8 DEF Outside

(* GitHub merges one pull request: the others move on, and it does, too,   *)
(* if its head was clear or the job was not sure.                          *)
LEMMA MergedMoves ==
    ASSUME TInv, NEW p \in Open, NEW b \in JobState, NEW pin \in BOOLEAN, Merged(p, b, pin)
    PROVE  /\ pr' \in [PRs -> PullRequest]
           /\ \A q \in PRs : Grown(pr[q], pr'[q])
           /\ \A q \in PRs \ {p} : Moved(pr[q], pr'[q])
           /\ Honest(pr[p]) /\ (b.ci /\ pin /\ b.sure => Clear(pr[p])) => Honest(pr'[p])
           /\ Vouched(pr'[p]) => b.sure
<1> DEFINE v == b.ci /\ pin /\ b.sure
<1>1. p \in PRs /\ pr[p] \in PullRequest /\ v \in BOOLEAN
  BY DEF TInv, Open, JobState
<1>2. /\ pr'[p] = [pr[p] EXCEPT !.state = "MERGED", !.vetted = v]
      /\ \A q \in PRs \ {p} : pr'[q] = [pr[q] EXCEPT !.merge = "UNKNOWN"] \/ pr'[q] = pr[q]
      /\ pr' = [q \in PRs |-> pr'[q]]
  BY <1>1 DEF Merged
<1> HIDE DEF v
<1>3. /\ pr'[p] \in PullRequest
      /\ pr'[p].head = pr[p].head /\ pr'[p].checks = pr[p].checks /\ pr'[p].age = pr[p].age
      /\ pr'[p].clear = pr[p].clear /\ pr'[p].vetted = v
  BY <1>1, <1>2 DEF PullRequest
<1>4. ASSUME NEW q \in PRs \ {p}
      PROVE  Moved(pr[q], pr'[q])
  <2>1. pr[q] \in PullRequest
    BY DEF TInv
  <2>2. CASE pr'[q] = pr[q]
    BY <2>1, <2>2 DEF Moved, Grown
  <2>3. CASE pr'[q] = [pr[q] EXCEPT !.merge = "UNKNOWN"]
    BY <2>1, <2>3, RecomputedMoved
  <2> QED BY <1>2, <2>2, <2>3
<1>5. \A q \in PRs : pr'[q] \in PullRequest
  BY <1>3, <1>4 DEF Moved
<1>6. pr' \in [PRs -> PullRequest]
  BY <1>2, <1>5
<1>7. Grown(pr[p], pr'[p])
  BY <1>3 DEF Grown, Clear
<1>8. Honest(pr[p]) /\ (v => Clear(pr[p])) => Honest(pr'[p])
  BY <1>3 DEF Honest, Clear, Vouched
<1>9. Vouched(pr'[p]) => b.sure
  BY <1>3 DEF Vouched, v
<1> QED BY <1>4, <1>6, <1>7, <1>8, <1>9 DEF Moved, v

-----------------------------------------------------------------------------

(* A job has just read the pull request it is at.                          *)
Fresh(b) ==
    LET q == pr[Head(b.todo)]
    IN  /\ b.head = q.head
        /\ b.ci => q.checks = "green" \/ (q.checks = "none" /\ q.age = quiet_age)

(* It has asked for the commits since.                                     *)
Held(a, b) == a.at = "hold" /\ b.todo = a.todo /\ b.head = a.head /\ b.ci = a.ci

(* What a step leaves a job with.                                          *)
Goes(j, b) ==
    /\ job' = [job EXCEPT ![j] = b] /\ WellFormed(b)
    /\ b.at \in {"hold", "merge"} => UNCHANGED pr /\ (Fresh(b) \/ Held(job[j], b))
    /\ Minor(b)

(* To go through the list, to look again or to stop asks nothing of a job. *)
LEMMA GoesOn ==
    ASSUME NEW j \in Jobs, NEW b, WellFormed(b), job' = [job EXCEPT ![j] = b],
           b.at \in {"idle", "view"}
    PROVE  Goes(j, b)
BY DEF Goes, Minor

LEMMA UpdateGoes ==
    ASSUME TInv, NEW j \in Jobs, Update(j)
    PROVE  AllMoved /\ \E b : Goes(j, b)
<1> DEFINE a == job[j]
           p == Head(a.todo)
<1>1. /\ WellFormed(a) /\ a \in JobState /\ a.at = "update" /\ a.behind_updates = 0
      /\ a.todo # <<>> /\ p \in PRs
  BY DEF TInv, Update, WellFormed, JobState
<1>2. CASE /\ p \in Open /\ pr[p].head < MaxHeads
           /\ pr' = [pr EXCEPT ![p] = NewHead(@, @.head + 1)]
           /\ job' = [job EXCEPT ![j] = Updated(@)]
  <2> DEFINE c == [a EXCEPT !.behind_updates = 1]
             b == Slept(c)
  <2>1. pr[p] \in PullRequest /\ pr[p].state = "OPEN"
    BY <1>1, <1>2 DEF TInv, Open
  <2>2. AllMoved
    BY <1>1, <1>2, <2>1, NewHeadMoved, OneMoved
  <2>3. c \in JobState
    BY <1>1, UpdateCounted
  <2>4. c.todo = a.todo
    BY <1>1 DEF JobState
  <2>5. job' = [job EXCEPT ![j] = b]
    <3>1. job' = [job EXCEPT ![j] = Updated(a)]
      BY <1>2
    <3>2. Updated(a) = b
      BY <1>1 DEF Updated
    <3> QED BY <3>1, <3>2
  <2>6. WellFormed(b) /\ b.at = "view"
    <3> HIDE DEF c
    <3> QED BY <1>1, <2>3, <2>4, SleptWellFormed
  <2> HIDE DEF b
  <2>7. Goes(j, b)
    BY <2>5, <2>6, GoesOn
  <2> QED BY <2>2, <2>7
<1>3. CASE job' = [job EXCEPT ![j] = Returned(@)] /\ UNCHANGED pr
  <2>1. Goes(j, Returned(a))
    <3>1. job' = [job EXCEPT ![j] = Returned(a)]
      BY <1>3
    <3> QED BY <1>1, <3>1, ReturnedWellFormed, GoesOn
  <2> QED BY <1>3, <2>1, NoneMoved
<1> QED BY <1>2, <1>3 DEF Update

LEMMA RebaseGoes ==
    ASSUME TInv, NEW j \in Jobs, Rebase(j)
    PROVE  AllMoved /\ \E b : Goes(j, b)
<1> DEFINE a == job[j]
           p == Head(a.todo)
<1>1. WellFormed(a) /\ a.at = "rebase" /\ a.todo # <<>> /\ p \in PRs
  BY DEF TInv, Rebase, WellFormed, JobState
<1>2. Goes(j, Returned(a))
  <2>1. job' = [job EXCEPT ![j] = Returned(a)]
    BY DEF Rebase
  <2> QED BY <1>1, <2>1, ReturnedWellFormed, GoesOn
<1>3. AllMoved
  <2>1. CASE pr' = [pr EXCEPT ![p].age = 0]
    <3>1. pr[p] \in PullRequest
      BY <1>1 DEF TInv
    <3> QED BY <1>1, <2>1, <3>1, TouchedMoved, OneMoved
  <2>2. CASE UNCHANGED pr
    BY <2>2, NoneMoved
  <2> QED BY <2>1, <2>2 DEF Rebase
<1> QED BY <1>2, <1>3

LEMMA HoldGoes ==
    ASSUME TInv, NEW j \in Jobs, Hold(j)
    PROVE  AllMoved /\ \E b : Goes(j, b)
<1> DEFINE a == job[j]
           p == Head(a.todo)
<1> SUFFICES \E b : Goes(j, b)
  BY NoneMoved DEF Hold
<1>1. WellFormed(a) /\ a \in JobState /\ a.at = "hold" /\ a.todo # <<>> /\ UNCHANGED pr
  BY DEF TInv, Hold, WellFormed
<1>2. PICK answered \in BOOLEAN :
        job' = [job EXCEPT ![j] =
                    IF answered /\ p \in Major THEN Returned(a)
                    ELSE [a EXCEPT !.at = "merge", !.sure = answered]]
  BY DEF Hold
<1> DEFINE go == [a EXCEPT !.at = "merge", !.sure = answered]
<1>3. CASE answered /\ p \in Major
  <2>1. job' = [job EXCEPT ![j] = Returned(a)]
    BY <1>2, <1>3
  <2> QED BY <1>1, <2>1, ReturnedWellFormed, GoesOn
<1>4. CASE ~(answered /\ p \in Major)
  <2>1. /\ go \in JobState /\ go.at = "merge" /\ go.todo = a.todo
        /\ go.head = a.head /\ go.ci = a.ci /\ go.sure = answered
    BY <1>1, JobMerges DEF JobState
  <2>2. job' = [job EXCEPT ![j] = go]
    BY <1>2, <1>4
  <2>3. WellFormed(go) /\ Held(a, go)
    BY <1>1, <2>1 DEF WellFormed, Held
  <2>4. Minor(go)
    BY <1>4, <2>1 DEF Minor
  <2> HIDE DEF go
  <2> QED BY <1>1, <2>2, <2>3, <2>4 DEF Goes
<1> QED BY <1>3, <1>4

(* GitHub merges the pull request a job is at.                             *)
MergesNow(j, pin) ==
    LET p == Head(job[j].todo)
    IN  /\ job[j].at = "merge" /\ p \in Open
        /\ Matches(p, job[j], pin) /\ Merged(p, job[j], pin)

LEMMA MergeGoes ==
    ASSUME TInv, NEW j \in Jobs, Merge(j)
    PROVE  /\ \E b : Goes(j, b)
           /\ \/ AllMoved
              \/ \E pin \in BOOLEAN : MergesNow(j, pin)
<1> DEFINE a == job[j]
           p == Head(a.todo)
<1>1. WellFormed(a) /\ a.at = "merge" /\ a.todo # <<>> /\ p \in PRs
  BY DEF TInv, Merge, WellFormed, JobState
<1>2. PICK pin \in a.pin :
        /\ \/ Mergeable(p) /\ Matches(p, a, pin) /\ Merged(p, a, pin)
           \/ UNCHANGED pr
        /\ job' = [job EXCEPT ![j] = Returned([a EXCEPT !.pin = {pin}])]
  BY DEF Merge
<1>3. pin \in BOOLEAN
  BY <1>1, <1>2 DEF WellFormed, JobState
<1>4. \E b : Goes(j, b)
  <2> DEFINE c == [a EXCEPT !.pin = {pin}]
  <2>1. WellFormed(c) /\ c.todo # <<>>
    BY <1>1, <1>3 DEF WellFormed, JobState
  <2> HIDE DEF c
  <2>2. Goes(j, Returned(c))
    BY <1>2, <2>1, ReturnedWellFormed, GoesOn DEF c
  <2> QED BY <2>2
<1>5. AllMoved \/ MergesNow(j, pin)
  BY <1>1, <1>2, NoneMoved DEF Mergeable, MergesNow
<1> QED BY <1>3, <1>4, <1>5

LEMMA JobGoes ==
    ASSUME TInv, NEW j \in Jobs, Start(j) \/ Look(j) \/ Abort(j)
    PROVE  AllMoved /\ \E b : Goes(j, b)
<1> SUFFICES \E b : Goes(j, b)
  BY NoneMoved DEF Start, Look, Abort
<1>1. CASE Start(j)
  BY <1>1, StartTodo, GoesOn
<1>2. CASE Look(j)
  <2>1. UNCHANGED pr
    BY <1>2 DEF Look
  <2>2. PICK b :
            /\ job' = [job EXCEPT ![j] = b] /\ WellFormed(b)
            /\ b.at = "merge" => ~Dependabot(Head(b.todo))
            /\ b.at \in {"hold", "merge"} =>
                 LET q == pr[Head(b.todo)]
                 IN  /\ b.head = q.head
                     /\ b.ci => \/ q.checks = "green"
                                \/ q.checks = "none" /\ q.age = quiet_age
    BY <1>2, LookDecides
  <2>3. b.at \in {"hold", "merge"} => Fresh(b)
    BY <2>2 DEF Fresh
  <2>4. Minor(b)
    BY <2>2, QueueAssumption DEF QueueAssumption, Minor, Dependabot
  <2>5. Goes(j, b)
    BY <2>1, <2>2, <2>3, <2>4 DEF Goes
  <2> QED BY <2>5, ZenonT(40)
<1>3. CASE Abort(j)
  <2>1. job' = [job EXCEPT ![j] = Idle] /\ Idle.at = "idle"
    BY <1>3 DEF Abort, Idle
  <2>2. Goes(j, Idle)
    BY <2>1, IdleWellFormed, GoesOn
  <2> QED BY <2>2
<1> QED BY <1>1, <1>2, <1>3

-----------------------------------------------------------------------------

LEMMA TInvInit == Init => TInv
<1> SUFFICES ASSUME Init PROVE TInv
  OBVIOUS
<1>1. Opened \in PullRequest
  <2>1. 1 \in 1..MaxHeads /\ 0 \in 0..quiet_age
    BY Numbers
  <2> QED BY <2>1 DEF Opened, PullRequest, Checks
<1>2. events \in 0..MaxEvents /\ aborts \in 0..MaxAborts
  BY Numbers DEF Init
<1>3. \A j \in Jobs : WellFormed(job[j])
  BY IdleWellFormed DEF Init
<1>4. DOMAIN job = Jobs /\ job = [j \in Jobs |-> job[j]]
  BY DEF Init
<1>5. pr \in [PRs -> PullRequest] /\ asked \in [PRs -> BOOLEAN]
  BY <1>1 DEF Init
<1> QED BY <1>2, <1>3, <1>4, <1>5 DEF TInv

LEMMA JobsAfter ==
    ASSUME TInv, NEW j \in Jobs, NEW b, Goes(j, b)
    PROVE  /\ DOMAIN job' = Jobs /\ job' = [k \in Jobs |-> job'[k]]
           /\ job'[j] = b /\ \A k \in Jobs \ {j} : job'[k] = job[k]
           /\ \A k \in Jobs : WellFormed(job'[k])
<1>1. job' = [job EXCEPT ![j] = b] /\ WellFormed(b)
  BY DEF Goes
<1>2. /\ DOMAIN job' = Jobs /\ job' = [k \in Jobs |-> job'[k]]
      /\ job'[j] = b /\ \A k \in Jobs \ {j} : job'[k] = job[k]
  BY <1>1 DEF TInv
<1> QED BY <1>1, <1>2 DEF TInv

(* A step is one of a job or one of the world around it.                   *)
LEMMA Steps ==
    ASSUME TInv, Next
    PROVE  \/ \E j \in Jobs : \E b :
                /\ Goes(j, b)
                /\ AllMoved \/ \E pin \in BOOLEAN : MergesNow(j, pin)
           \/ AllMoved /\ UNCHANGED job
<1>1. CASE \E j \in Jobs : Start(j) \/ JobStep(j) \/ Abort(j)
  <2>1. PICK j \in Jobs : Start(j) \/ JobStep(j) \/ Abort(j)
    BY <1>1
  <2>2. CASE Merge(j)
    BY <2>2, MergeGoes
  <2>3. CASE Start(j) \/ Look(j) \/ Abort(j)
    BY <2>3, JobGoes
  <2>4. CASE Update(j)
    BY <2>4, UpdateGoes
  <2>5. CASE Rebase(j)
    BY <2>5, RebaseGoes
  <2>6. CASE Hold(j)
    BY <2>6, HoldGoes
  <2> QED BY <2>1, <2>2, <2>3, <2>4, <2>5, <2>6 DEF JobStep
<1>2. CASE \E p \in PRs : Outside(p) \/ Age(p)
  BY <1>2, OutsideMoves DEF Outside, Age
<1> QED BY <1>1, <1>2 DEF Next

LEMMA CountsNext ==
    ASSUME TInv, Next
    PROVE  /\ asked' \in [PRs -> BOOLEAN]
           /\ events' \in 0..MaxEvents /\ aborts' \in 0..MaxAborts
<1>1. /\ asked \in [PRs -> BOOLEAN] /\ events \in 0..MaxEvents /\ aborts \in 0..MaxAborts
  BY ZenonT(40) DEF TInv
<1>2. ASSUME NEW j \in Jobs, Start(j) \/ Look(j) \/ Update(j) \/ Hold(j) \/ Merge(j)
      PROVE  UNCHANGED <<asked, events, aborts>>
  BY <1>2 DEF Start, Look, Update, Hold, Merge
<1>3. ASSUME NEW j \in Jobs, Rebase(j)
      PROVE  asked' \in [PRs -> BOOLEAN] /\ UNCHANGED <<events, aborts>>
  BY <1>1, <1>3 DEF Rebase
<1>4. ASSUME NEW j \in Jobs, Abort(j)
      PROVE  UNCHANGED <<asked, events>> /\ aborts' \in 0..MaxAborts
  BY <1>1, <1>4, Numbers DEF Abort
<1>5. ASSUME NEW p \in PRs, Outside(p)
      PROVE  asked' \in [PRs -> BOOLEAN] /\ events' \in 0..MaxEvents /\ UNCHANGED aborts
  <2>1. asked' = asked \/ asked' = [asked EXCEPT ![p] = FALSE]
    BY <1>5 DEF Outside
  <2>2. events < MaxEvents /\ events' = events + 1 /\ UNCHANGED aborts
    BY <1>5 DEF Outside
  <2>3. events' \in 0..MaxEvents
    BY <1>1, <2>2, Numbers
  <2>4. asked' \in [PRs -> BOOLEAN]
    BY <1>1, <2>1
  <2> QED BY <2>2, <2>3, <2>4
<1>6. ASSUME NEW p \in PRs, Age(p)
      PROVE  UNCHANGED <<asked, events, aborts>>
  BY <1>6 DEF Age
<1>7. CASE \E j \in Jobs : Start(j) \/ JobStep(j) \/ Abort(j)
  <2>1. PICK j \in Jobs : Start(j) \/ JobStep(j) \/ Abort(j)
    BY <1>7
  <2>2. CASE Start(j) \/ Look(j) \/ Update(j) \/ Hold(j) \/ Merge(j)
    BY <1>1, <1>2, <2>2
  <2>3. CASE Rebase(j)
    BY <1>1, <1>3, <2>3
  <2>4. CASE Abort(j)
    BY <1>1, <1>4, <2>4
  <2> QED BY <2>1, <2>2, <2>3, <2>4 DEF JobStep
<1>8. CASE \E p \in PRs : Outside(p) \/ Age(p)
  <2>1. PICK p \in PRs : Outside(p) \/ Age(p)
    BY <1>8
  <2> QED BY <1>1, <1>5, <1>6, <2>1
<1> QED BY <1>7, <1>8 DEF Next

LEMMA TInvNext == TInv /\ [Next]_vars => TInv'
<1> SUFFICES ASSUME TInv, [Next]_vars PROVE TInv'
  OBVIOUS
<1>1. CASE Next
  <2>1. pr' \in [PRs -> PullRequest]
    <3>1. ASSUME NEW j \in Jobs, NEW pin \in BOOLEAN, MergesNow(j, pin)
          PROVE  pr' \in [PRs -> PullRequest]
      BY <3>1, MergedMoves DEF TInv, WellFormed, MergesNow
    <3> QED BY <1>1, <3>1, Steps DEF AllMoved
  <2>2. DOMAIN job' = Jobs /\ job' = [j \in Jobs |-> job'[j]]
        /\ \A j \in Jobs : WellFormed(job'[j])
    <3>1. CASE UNCHANGED job
      BY <3>1 DEF TInv
    <3>2. CASE \E j \in Jobs : \E b : Goes(j, b)
      BY <3>2, JobsAfter
    <3> QED BY <1>1, <3>1, <3>2, Steps
  <2> QED BY <1>1, <2>1, <2>2, CountsNext DEF TInv
<1>2. CASE UNCHANGED vars
  BY <1>2 DEF TInv, vars
<1> QED BY <1>1, <1>2

(* Types, for any jobs at any pull requests: a job updates the branch of a *)
(* pull request at most once.                                              *)
THEOREM TypeCorrect == Spec => []TypeOK
<1>1. TInv => TypeOK
  BY DEF TInv, TypeOK, WellFormed
<1> QED BY <1>1, TInvInit, TInvNext, PTL DEF Spec

(* The strengthening of MergedWasClear: what a job has read before it      *)
(* merges is so still unless the head is another one.                      *)
LEMMA SeenStays ==
    ASSUME NEW b \in JobState, NEW q \in PullRequest, NEW r \in PullRequest,
           Seen(b, q), Grown(q, r)
    PROVE  Seen(b, r)
<1>1. b.head \in Int
  BY Numbers DEF JobState
<1> QED BY <1>1, PullRequestFields DEF Seen, Grown

LEMMA IInvNext == IInv /\ [Next]_vars => IInv'
<1> SUFFICES ASSUME IInv, [Next]_vars PROVE IInv'
  OBVIOUS
<1>1. TInv /\ TInv'
  BY TInvNext DEF IInv
<1>2. CASE Next
  <2>1. ASSUME NEW j \in Jobs, NEW pin \in BOOLEAN, MergesNow(j, pin)
        PROVE  \A p \in PRs : /\ Grown(pr[p], pr'[p])
                              /\ Honest(pr'[p])
                              /\ p \in Major => ~Vouched(pr'[p])
    <3> DEFINE n == Head(job[j].todo)
    <3>0. /\ job[j].at = "merge" /\ n \in Open /\ Merged(n, job[j], pin)
          /\ pin => pr[n].head = job[j].head
      BY <2>1 DEF MergesNow, Matches
    <3>1. job[j] \in JobState /\ n \in PRs /\ Knows(job[j]) /\ Honest(pr[n])
      BY <1>1, <3>0 DEF IInv, TInv, WellFormed, Open
    <3>2. /\ job[j].ci /\ pin /\ job[j].sure => Clear(pr[n])
          /\ job[j].sure => n \notin Major
      BY <3>0, <3>1 DEF Knows, Seen, Minor
    <3>3. /\ \A p \in PRs : Grown(pr[p], pr'[p])
          /\ \A p \in PRs \ {n} : Moved(pr[p], pr'[p])
          /\ Honest(pr'[n]) /\ (Vouched(pr'[n]) => job[j].sure)
      BY <1>1, <3>0, <3>1, <3>2, MergedMoves
    <3>4. \A p \in PRs \ {n} : Honest(pr'[p]) /\ (p \in Major => ~Vouched(pr'[p]))
      BY <3>3 DEF Moved, IInv
    <3> HIDE DEF n
    <3> QED BY <3>2, <3>3, <3>4
  <2>2. ASSUME AllMoved
        PROVE  \A p \in PRs : /\ Grown(pr[p], pr'[p])
                              /\ Honest(pr'[p])
                              /\ p \in Major => ~Vouched(pr'[p])
    BY <2>2 DEF AllMoved, Moved, IInv
  <2>3. \A p \in PRs : /\ Grown(pr[p], pr'[p])
                       /\ Honest(pr'[p])
                       /\ p \in Major => ~Vouched(pr'[p])
    BY <1>1, <1>2, <2>1, <2>2, Steps
  <2>4. \A p \in Major : ~Vouched(pr'[p])
    BY <2>3, QueueAssumption DEF QueueAssumption
  <2>5. ASSUME NEW b \in JobState, b.todo # <<>>, Knows(b)
        PROVE  Seen(b, pr'[Head(b.todo)]) /\ Minor(b)
    <3>1. Head(b.todo) \in PRs
      BY <2>5 DEF JobState
    <3>2. pr[Head(b.todo)] \in PullRequest /\ pr'[Head(b.todo)] \in PullRequest
      BY <1>1, <3>1 DEF TInv
    <3> QED BY <2>3, <2>5, <3>1, <3>2, SeenStays DEF Knows
  <2>6. ASSUME NEW j \in Jobs, NEW b, Goes(j, b), b.at # "idle"
        PROVE  Seen(b, pr'[Head(b.todo)]) /\ Minor(b)
    <3>1. b \in JobState /\ Head(b.todo) \in PRs /\ Minor(b)
      BY <2>6 DEF Goes, WellFormed, JobState
    <3>2. CASE b.at \notin {"hold", "merge"}
      BY <3>1, <3>2 DEF Seen
    <3>3. CASE b.at \in {"hold", "merge"} /\ Fresh(b)
      <4>1. Honest(pr[Head(b.todo)]) /\ pr[Head(b.todo)].head \in Int /\ UNCHANGED pr
        BY <1>1, <2>6, <3>1, <3>3, PullRequestFields DEF IInv, TInv, Goes
      <4> QED BY <3>1, <3>3, <4>1 DEF Fresh, Seen, Honest
    <3>4. CASE b.at \in {"hold", "merge"} /\ Held(job[j], b)
      <4>1. Knows(job[j]) /\ UNCHANGED pr
        BY <2>6, <3>4 DEF IInv, Held, Goes
      <4> QED BY <3>1, <3>4, <4>1 DEF Knows, Seen, Held
    <3> QED BY <2>6, <3>2, <3>3, <3>4 DEF Goes
  <2>7. ASSUME NEW k \in Jobs, job'[k] = job[k], job[k].at # "idle"
        PROVE  Seen(job'[k], pr'[Head(job'[k].todo)]) /\ Minor(job'[k])
    <3>1. job[k] \in JobState /\ job[k].todo # <<>> /\ Knows(job[k])
      BY <1>1, <2>7 DEF IInv, TInv, WellFormed
    <3> QED BY <2>5, <2>7, <3>1
  <2>8. \A k \in Jobs : job'[k].at # "idle" =>
            Seen(job'[k], pr'[Head(job'[k].todo)]) /\ Minor(job'[k])
    <3>1. CASE UNCHANGED job
      BY <2>7, <3>1
    <3>2. ASSUME NEW j \in Jobs, NEW b, Goes(j, b)
          PROVE  \A k \in Jobs : job'[k].at # "idle" =>
                    Seen(job'[k], pr'[Head(job'[k].todo)]) /\ Minor(job'[k])
      <4>1. job'[j] = b /\ \A k \in Jobs \ {j} : job'[k] = job[k]
        BY <1>1, <3>2, JobsAfter
      <4> QED BY <2>6, <2>7, <3>2, <4>1
    <3> QED BY <1>1, <1>2, <3>1, <3>2, Steps
  <2>9. \A k \in Jobs : job'[k].at # "idle" => Knows(job[k])'
    BY <2>8 DEF Knows, Minor, Seen
  <2> QED BY <1>1, <2>3, <2>4, <2>9 DEF IInv
<1>3. CASE UNCHANGED vars
  BY <1>3, <1>1 DEF IInv, Knows, vars
<1> QED BY <1>2, <1>3

(* What a job merges that is sure of it is no major update, and its head   *)
(* is one whose own checks were green or which was left alone for          *)
(* quiet_age: for any pull requests, jobs, events and waits, although jobs *)
(* overlap and branches move between a look and a merge.                   *)
THEOREM MergedHeadsWereClear == Spec => []MergedWasClear
<1>1. Init => IInv
  <2> SUFFICES ASSUME Init PROVE IInv
    OBVIOUS
  <2>1. \A p \in PRs : Honest(pr[p]) /\ ~Vouched(pr[p])
    BY FreshAge DEF Init, Opened, Honest, Vouched
  <2>2. \A j \in Jobs : job[j].at = "idle"
    BY DEF Init, Idle
  <2> QED BY <2>1, <2>2, TInvInit, QueueAssumption DEF IInv, QueueAssumption
<1>2. IInv => MergedWasClear
  BY DEF IInv, Honest, Vouched, Clear, MergedWasClear
<1> QED BY <1>1, <1>2, IInvNext, PTL DEF Spec

-----------------------------------------------------------------------------
(* The rollback engine: what it submits was true when it read it.          *)

AnyRun == UNION {Runs[m] : m \in Models}

(* The registry is one: each version has a stage and a run.                *)
Registry ==
    /\ stage \in [Models -> Seq(Stages)]
    /\ metrics \in [Models -> Seq(AnyRun)]
    /\ alias \in [Models -> 0..MaxVersion]
    /\ \A m \in Models :
        /\ Len(stage[m]) \in Versions
        /\ Len(metrics[m]) = Len(stage[m])
        /\ alias[m] <= Len(stage[m])

(* The history variables hold what is the case now.                        *)
SeenRuns ==
    /\ served \in [Models -> SUBSET Versions]
    /\ condemned \in [Models -> SUBSET Versions]
    /\ mislogged \in [Models -> SUBSET Versions]
    /\ held \in [Models -> SUBSET (Versions \X Stages)]
    /\ \A m \in Models :
        /\ served[m] \cup condemned[m] \cup mislogged[m] \subseteq 1..Len(stage[m])
        /\ held[m] \subseteq (1..Len(stage[m])) \X Stages
        /\ Misnumbered(m) \subseteq mislogged[m]
        /\ Stated(m) \subseteq held[m]
        /\ Champion(m) \subseteq served[m]
        /\ \A v \in 1..Len(metrics[m]) :
                Degraded(m, metrics[m][v]) => v \in condemned[m]

LoopState ==
    [at : {"idle", "alias", "version", "run", "search", "post"}, model : DOMAIN Order,
     version : 0..MaxVersion, current : Nat, target : 0..MaxVersion]

HadStage(m, v) == \E s \in Stages \ {"None"} : <<v, s>> \in held[m]

(* What the loop has read about its model was so once; the number it has   *)
(* for the champion is right, or its run has held a wrong one.             *)
Loop ==
    /\ engine \in LoopState
    /\ engine.at \in {"version", "run", "search", "post"} => engine.version \in served[Model]
    /\ engine.at \in {"search", "post"} =>
            /\ engine.version \in condemned[Model]
            /\ engine.version \notin mislogged[Model] => engine.current \in {0, engine.version}
    /\ engine.at = "post" =>
            /\ engine.target \in Versions /\ engine.target < engine.current
            /\ HadStage(Model, engine.target)

Sent == submitted \subseteq Requests /\ SubmittedIsJustified

EngineCounts == changes \in 0..MaxChanges /\ failures \in 0..MaxFailures

EngineInv == Registry /\ SeenRuns /\ Loop /\ Sent /\ EngineCounts

-----------------------------------------------------------------------------

LEMMA OrderedModels ==
    /\ 1 \in DOMAIN Order
    /\ \A i \in DOMAIN Order : i \in Nat /\ Order[i] \in Models
    /\ \A i \in DOMAIN Order : i # Len(Order) => i + 1 \in DOMAIN Order
BY RollbackAssumption DEF RollbackAssumption, Models

LEMMA Champions ==
    ASSUME Registry, NEW m \in Models
    PROVE  Champion(m) \subseteq 1..Len(stage[m])
<1>1. /\ stage[m] \in Seq(Stages) /\ DOMAIN stage[m] = 1..Len(stage[m]) /\ Len(stage[m]) \in Nat
      /\ alias[m] \in 0..MaxVersion /\ alias[m] <= Len(stage[m])
  BY DEF Registry
<1> QED
  BY <1>1, RollbackAssumption DEF Champion, Latest, RollbackAssumption

(* The loop goes on to the next model and keeps nothing of this one.       *)
LEMMA NextModelLoops ==
    ASSUME Loop, engine' = NextModel \/ engine' = Waiting
    PROVE  /\ engine' \in LoopState
           /\ engine'.at \in {"idle", "alias"}
<1>1. engine.model \in DOMAIN Order
  BY DEF Loop, LoopState
<1>2. 0 \in 0..MaxVersion
  BY RollbackAssumption DEF RollbackAssumption
<1>3. CASE engine' = Waiting
  BY <1>2, <1>3, OrderedModels DEF Waiting, LoopState
<1>4. CASE engine' = NextModel
  BY <1>1, <1>2, <1>4, OrderedModels DEF NextModel, Waiting, LoopState
<1> QED
  BY <1>3, <1>4

LEMMA NextModelKeepsLoop ==
    ASSUME Loop, engine' = NextModel \/ engine' = Waiting
    PROVE  Loop'
BY NextModelLoops DEF Loop

-----------------------------------------------------------------------------

(* A change of the registry that is recorded: nothing of what was seen is  *)
(* forgotten, and the new champion and the newly degraded run are seen.    *)
LEMMA ChangedKeepsInv ==
    ASSUME EngineInv, Changed, Registry',
           \A m \in Models : Len(stage[m]) <= Len(stage'[m])
    PROVE  EngineInv'
<1>1. \A m \in Models : Champion(m)' \subseteq 1..Len(stage'[m])
  <2> TAKE m \in Models
  <2>1. /\ stage'[m] \in Seq(Stages) /\ DOMAIN stage'[m] = 1..Len(stage'[m]) /\ Len(stage'[m]) \in Nat
        /\ alias'[m] \in 0..MaxVersion /\ alias'[m] <= Len(stage'[m])
    BY DEF Registry
  <2> QED
    BY <2>1, RollbackAssumption DEF Champion, Latest,
       RollbackAssumption
<1>2. \A m \in Models : /\ Len(stage[m]) \in Nat /\ Len(stage'[m]) \in Versions
                        /\ Len(metrics'[m]) = Len(stage'[m])
                        /\ DOMAIN metrics'[m] = 1..Len(metrics'[m])
                        /\ 1..Len(stage'[m]) \subseteq Versions
  BY RollbackAssumption DEF EngineInv, Registry, RollbackAssumption, Versions
<1>3. /\ served' = [m \in Models |-> served[m] \cup Champion(m)']
      /\ condemned' = [m \in Models |->
            condemned[m] \cup {v \in DOMAIN metrics'[m] : Degraded(m, metrics'[m][v])}]
      /\ held' = [m \in Models |-> held[m] \cup Stated(m)']
      /\ mislogged' = [m \in Models |-> mislogged[m] \cup Misnumbered(m)']
  BY DEF Changed
<1>4. \A m \in Models : served[m] \cup condemned[m] \subseteq 1..Len(stage'[m])
  BY <1>2 DEF EngineInv, SeenRuns
<1>10. \A m \in Models : /\ Misnumbered(m)' \subseteq 1..Len(stage'[m])
                         /\ mislogged[m] \subseteq 1..Len(stage'[m])
  BY <1>2 DEF EngineInv, SeenRuns, Misnumbered
<1>11. \A m \in Models : /\ mislogged'[m] \subseteq 1..Len(stage'[m])
                         /\ mislogged[m] \subseteq mislogged'[m]
                         /\ Misnumbered(m)' \subseteq mislogged'[m]
  <2> TAKE m \in Models
  <2>1. mislogged'[m] = mislogged[m] \cup Misnumbered(m)'
    BY <1>3
  <2> QED
    BY <1>10, <2>1
<1>12. \A m \in Models : /\ Stated(m)' \subseteq (1..Len(stage'[m])) \X Stages
                         /\ held[m] \subseteq (1..Len(stage'[m])) \X Stages
  <2> TAKE m \in Models
  <2>1. stage'[m] \in Seq(Stages) /\ DOMAIN stage'[m] = 1..Len(stage'[m])
    BY DEF Registry
  <2>2. Stated(m)' = {<<v, stage'[m][v]>> : v \in DOMAIN stage'[m]}
    BY DEF Stated
  <2>3. \A v \in 1..Len(stage'[m]) : stage'[m][v] \in Stages
    BY <2>1
  <2>4. held[m] \subseteq (1..Len(stage[m])) \X Stages /\ 1..Len(stage[m]) \subseteq 1..Len(stage'[m])
    BY <1>2 DEF EngineInv, SeenRuns
  <2>5. held[m] \subseteq (1..Len(stage'[m])) \X Stages
    BY <2>4
  <2>6. Stated(m)' \subseteq (1..Len(stage'[m])) \X Stages
    BY <2>1, <2>2, <2>3
  <2> QED
    BY <2>5, <2>6
<1>13. \A m \in Models : /\ held'[m] \subseteq (1..Len(stage'[m])) \X Stages
                         /\ held[m] \subseteq held'[m]
                         /\ Stated(m)' \subseteq held'[m]
  <2> TAKE m \in Models
  <2>1. held'[m] = held[m] \cup Stated(m)'
    BY <1>3
  <2> QED
    BY <1>12, <2>1
<1>5. \A m \in Models : /\ served'[m] \cup condemned'[m] \subseteq 1..Len(stage'[m])
                        /\ served[m] \subseteq served'[m] /\ condemned[m] \subseteq condemned'[m]
                        /\ Champion(m)' \subseteq served'[m]
                        /\ \A v \in 1..Len(metrics'[m]) :
                                Degraded(m, metrics'[m][v]) => v \in condemned'[m]
  BY <1>1, <1>2, <1>3, <1>4
<1>6. SeenRuns'
  <2>1. served' \in [Models -> SUBSET Versions] /\ condemned' \in [Models -> SUBSET Versions]
    BY <1>2, <1>3, <1>5
  <2>2. \A m \in Models : \A v \in 1..Len(metrics'[m]) :
            Degraded(m, metrics[m][v])' => v \in condemned'[m]
    BY <1>5 DEF Degraded, Raises, Reasons, Compared
  <2>3. mislogged' \in [Models -> SUBSET Versions]
    <3>1. \A m \in Models : mislogged'[m] \in SUBSET Versions
      BY <1>2, <1>11
    <3> QED
      BY <1>3, <3>1
  <2>4. held' \in [Models -> SUBSET (Versions \X Stages)]
    <3>1. \A m \in Models : held'[m] \in SUBSET (Versions \X Stages)
      <4> TAKE m \in Models
      <4>1. 1..Len(stage'[m]) \subseteq Versions
        BY <1>2
      <4>2. held'[m] \subseteq (1..Len(stage'[m])) \X Stages
        BY <1>13
      <4> QED
        BY <4>1, <4>2
    <3> QED
      BY <1>3, <3>1
  <2>5. \A m \in Models : served'[m] \cup condemned'[m] \cup mislogged'[m] \subseteq 1..Len(stage'[m])
    BY <1>5, <1>11
  <2> QED
    BY <1>5, <1>11, <1>13, <2>1, <2>2, <2>3, <2>4, <2>5 DEF SeenRuns
<1>7. Loop'
  <2>1. engine' = engine /\ Model' = Model
    BY DEF Changed, Model
  <2>2. Model \in Models
    BY OrderedModels DEF EngineInv, Loop, LoopState, Model
  <2>3. /\ served[Model] \subseteq served'[Model] /\ condemned[Model] \subseteq condemned'[Model]
        /\ held[Model] \subseteq held'[Model] /\ mislogged[Model] \subseteq mislogged'[Model]
    BY <1>5, <1>11, <1>13, <2>2
  <2>4. HadStage(Model, engine.target) => HadStage(Model, engine.target)'
    BY <2>1, <2>3 DEF HadStage
  <2> QED
    BY <2>1, <2>3, <2>4 DEF EngineInv, Loop
<1>8. Sent'
  <2>1. submitted' = submitted
    BY DEF Changed
  <2>2. \A q \in submitted : q.model \in Models
    BY DEF EngineInv, Sent, Requests
  <2> QED
    BY <1>5, <1>11, <1>13, <2>1, <2>2 DEF EngineInv, Sent, SubmittedIsJustified
<1>9. EngineCounts'
  BY RollbackAssumption DEF EngineInv, EngineCounts, Changed,
     RollbackAssumption
<1> QED
  BY <1>6, <1>7, <1>8, <1>9 DEF EngineInv
-----------------------------------------------------------------------------

LEMMA OneVersion ==
    ASSUME NEW S, NEW x \in S
    PROVE  <<x>> \in Seq(S) /\ Len(<<x>>) = 1 /\ <<x>>[1] = x
OBVIOUS

LEMMA EngineStarts ==
    EngineInit => EngineInv
<1> SUFFICES ASSUME EngineInit PROVE EngineInv
  OBVIOUS
<1>1. PICK first \in [Models -> AnyRun] :
        /\ \A m \in Models : first[m] \in Runs[m]
        /\ metrics = [m \in Models |-> <<first[m]>>]
  BY DEF EngineInit, AnyRun
<1>2. 1 \in Versions /\ 0 \in 0..MaxVersion
  BY RollbackAssumption DEF RollbackAssumption, Versions
<1>3. \A m \in Models : /\ stage[m] = <<"Production">> /\ alias[m] = 0
                        /\ metrics[m] = <<first[m]>>
  BY <1>1 DEF EngineInit
<1>4. Registry
  <2>0. "Production" \in Stages
    BY DEF Stages
  <2>1. \A m \in Models : stage[m] \in Seq(Stages) /\ Len(stage[m]) = 1
    BY <1>3, <2>0, OneVersion
  <2>2. \A m \in Models : metrics[m] \in Seq(AnyRun) /\ Len(metrics[m]) = 1 /\ metrics[m][1] = first[m]
    BY <1>1, <1>3
  <2>3. /\ stage = [m \in Models |-> stage[m]] /\ metrics = [m \in Models |-> metrics[m]]
        /\ alias \in [Models -> 0..MaxVersion]
    BY <1>1, <1>2, <1>3 DEF EngineInit
  <2>5. stage \in [Models -> Seq(Stages)] /\ metrics \in [Models -> Seq(AnyRun)]
    BY <2>1, <2>2, <2>3
  <2>6. \A m \in Models : /\ Len(stage[m]) \in Versions /\ Len(metrics[m]) = Len(stage[m])
                          /\ alias[m] <= Len(stage[m])
    <3> TAKE m \in Models
    <3>1. Len(stage[m]) = 1 /\ Len(metrics[m]) = 1 /\ alias[m] = 0
      BY <1>3, <2>1, <2>2
    <3>2. 1 \in Versions
      BY <1>2
    <3> QED
      BY ONLY <3>1, <3>2
  <2>7. alias \in [Models -> 0..MaxVersion]
    BY <1>2 DEF EngineInit
  <2> QED
    BY <2>5, <2>6, <2>7 DEF Registry
<1>5. SeenRuns
  <2>1. \A m \in Models : Champion(m) \subseteq 1..1
    BY <1>3, <1>4, Champions
  <2>2. \A m \in Models : Len(stage[m]) = 1 /\ Len(metrics[m]) = 1 /\ served[m] = {1}
                          /\ condemned[m] = {v \in {1} : Degraded(m, metrics[m][v])}
    BY <1>3 DEF EngineInit
  <2>3. served \in [Models -> SUBSET Versions] /\ condemned \in [Models -> SUBSET Versions]
    BY <1>2 DEF EngineInit
  <2>4. held = [m \in Models |-> Stated(m)] /\ mislogged = [m \in Models |-> Misnumbered(m)]
    BY DEF EngineInit
  <2>5. \A m \in Models : Misnumbered(m) \subseteq 1..1
    BY <1>3, <2>2 DEF Misnumbered
  <2>6. \A m \in Models : Stated(m) \subseteq (1..1) \X Stages
    BY <1>3 DEF Stated, Stages
  <2>7. mislogged \in [Models -> SUBSET Versions]
    BY <1>2, <2>4, <2>5
  <2>8. held \in [Models -> SUBSET (Versions \X Stages)]
    BY <1>2, <2>4, <2>6
  <2>9. \A m \in Models : held[m] = Stated(m) /\ mislogged[m] = Misnumbered(m)
    BY <2>4
  <2> QED
    BY <2>1, <2>2, <2>3, <2>5, <2>6, <2>7, <2>8, <2>9, SMTT(30) DEF SeenRuns
<1>6. Loop
  BY <1>2, OrderedModels DEF EngineInit, Waiting, Loop, LoopState
<1>7. Sent /\ EngineCounts
  BY RollbackAssumption DEF EngineInit, Sent, EngineCounts,
     SubmittedIsJustified, RollbackAssumption
<1> QED
  BY <1>4, <1>5, <1>6, <1>7 DEF EngineInv

-----------------------------------------------------------------------------

(* The steps of the loop leave the registry and what was seen of it alone. *)
LEMMA RegistryStays ==
    ASSUME EngineInv, UNCHANGED registry
    PROVE  Registry' /\ SeenRuns' /\ changes' = changes
<1>1. Registry' /\ changes' = changes
  BY DEF EngineInv, registry, Registry
<1>2. /\ stage' = stage /\ alias' = alias /\ metrics' = metrics /\ served' = served
      /\ condemned' = condemned /\ held' = held /\ mislogged' = mislogged
  BY DEF registry, history
<1>3. \A m \in Models : /\ Champion(m)' = Champion(m) /\ Stated(m)' = Stated(m)
                        /\ Misnumbered(m)' = Misnumbered(m)
  BY <1>2 DEF Champion, Latest, Stated, Misnumbered, CurrentVersion
<1>4. \A m \in Models : \A v \in 1..Len(metrics[m]) :
            Degraded(m, metrics[m][v])' <=> Degraded(m, metrics[m][v])
  BY <1>2 DEF Degraded, Raises, Reasons, Compared
<1> QED
  BY <1>1, <1>2, <1>3, <1>4 DEF EngineInv, SeenRuns

LEMMA LoopKeepsInv ==
    ASSUME EngineInv, UNCHANGED <<registry, submitted>>,
           Loop', EngineCounts'
    PROVE  EngineInv'
<1>1. Registry' /\ SeenRuns'
  BY RegistryStays
<1>2. Sent'
  BY DEF EngineInv, Sent, SubmittedIsJustified, registry, history
<1> QED
  BY <1>1, <1>2 DEF EngineInv

LEMMA StartLoopKeepsInv ==
    EngineInv /\ StartLoop => EngineInv'
<1> SUFFICES ASSUME EngineInv, StartLoop PROVE EngineInv'
  OBVIOUS
<1>1. 0 \in 0..MaxVersion
  BY RollbackAssumption DEF RollbackAssumption
<1>2. engine' = [at |-> "alias", model |-> 1, version |-> 0, current |-> 0, target |-> 0]
  BY DEF StartLoop, Waiting
<1>3. Loop'
  BY <1>1, <1>2, OrderedModels DEF Loop, LoopState
<1>4. EngineCounts'
  BY DEF EngineInv, EngineCounts, StartLoop, registry
<1> QED
  BY <1>3, <1>4, LoopKeepsInv DEF StartLoop

LEMMA ReadChampionKeepsInv ==
    EngineInv /\ ReadChampion => EngineInv'
<1> SUFFICES ASSUME EngineInv, ReadChampion PROVE EngineInv'
  OBVIOUS
<1>1. EngineCounts'
  BY DEF EngineInv, EngineCounts, ReadChampion, registry
<1>2. CASE engine' = NextModel
  BY <1>1, <1>2, NextModelKeepsLoop, LoopKeepsInv DEF EngineInv, ReadChampion
<1>3. CASE \E v \in Champion(Model) :
            engine' = [engine EXCEPT !.at = "version", !.version = v]
  <2>1. PICK v \in Champion(Model) : engine' = [engine EXCEPT !.at = "version", !.version = v]
    BY <1>3
  <2>2. Model \in Models
    BY OrderedModels DEF EngineInv, Loop, LoopState, Model
  <2>3. v \in served[Model] /\ v \in Versions
    BY <2>2 DEF EngineInv, SeenRuns
  <2>4. /\ engine' \in LoopState
        /\ engine'.at = "version" /\ engine'.version = v /\ engine'.model = engine.model
    <3>1. engine \in LoopState
      BY DEF EngineInv, Loop
    <3>2. v \in 0..MaxVersion
      BY <2>3, RollbackAssumption DEF Versions, RollbackAssumption
    <3> QED
      BY <2>1, <3>1, <3>2 DEF LoopState
  <2>5. Model' = Model /\ served' = served
    BY <2>4 DEF Model, ReadChampion, registry, history
  <2>6. Loop'
    BY <2>3, <2>4, <2>5 DEF Loop
  <2> QED
    BY <1>1, <2>6, LoopKeepsInv DEF ReadChampion
<1> QED
  BY <1>2, <1>3 DEF ReadChampion

LEMMA ReadVersionKeepsInv ==
    EngineInv /\ ReadVersion => EngineInv'
<1> SUFFICES ASSUME EngineInv, ReadVersion PROVE EngineInv'
  OBVIOUS
<1>1. EngineCounts'
  BY DEF EngineInv, EngineCounts, ReadVersion, registry
<1>2. /\ engine \in LoopState /\ engine.at = "version" /\ engine' = [engine EXCEPT !.at = "run"]
      /\ engine.version \in served[Model]
  BY DEF EngineInv, Loop, ReadVersion
<1>3. /\ engine' \in LoopState /\ engine'.at = "run"
      /\ engine'.version = engine.version /\ engine'.model = engine.model
  BY <1>2 DEF LoopState
<1>4. Model' = Model /\ served' = served
  BY <1>3 DEF Model, ReadVersion, registry, history
<1>5. Loop'
  BY <1>2, <1>3, <1>4 DEF Loop
<1> QED
  BY <1>1, <1>5, LoopKeepsInv DEF ReadVersion

(* The number that is taken for the version is a natural number, if it is  *)
(* a number at all.                                                        *)
LEMMA CurrentIsNat ==
    ASSUME NEW run \in AnyRun
    PROVE  CurrentVersion(run) \in Nat
BY RollbackAssumption DEF RollbackAssumption, AnyRun, CurrentVersion

LEMMA ReadMetricsKeepsInv ==
    EngineInv /\ ReadMetrics => EngineInv'
<1> SUFFICES ASSUME EngineInv, ReadMetrics PROVE EngineInv'
  OBVIOUS
<1> DEFINE run == metrics[Model][engine.version]
<1>1. EngineCounts'
  BY DEF EngineInv, EngineCounts, ReadMetrics, registry
<1>2. CASE Raises(Model, run)
  BY <1>1, <1>2, NextModelKeepsLoop, LoopKeepsInv DEF EngineInv, ReadMetrics
<1>3. CASE ~Raises(Model, run) /\ Reasons(Model, run) = {}
  BY <1>1, <1>3, NextModelKeepsLoop, LoopKeepsInv DEF EngineInv, ReadMetrics
<1>4. CASE ~Raises(Model, run) /\ Reasons(Model, run) # {}
  <2>1. engine' = [engine EXCEPT !.at = "search", !.current = CurrentVersion(run)]
    BY <1>4 DEF ReadMetrics
  <2>2. Model \in Models /\ engine.version \in served[Model]
    BY OrderedModels DEF EngineInv, Loop, LoopState, Model, ReadMetrics
  <2>3. engine.version \in 1..Len(metrics[Model]) /\ engine.version \in Versions
    BY <2>2 DEF EngineInv, SeenRuns, Registry
  <2>4. engine.version \in condemned[Model]
    BY <1>4, <2>2, <2>3 DEF EngineInv, SeenRuns, Degraded
  <2>5. engine.version \notin mislogged[Model] => CurrentVersion(run) \in {0, engine.version}
    <3>1. Misnumbered(Model) \subseteq mislogged[Model]
      BY <2>2 DEF EngineInv, SeenRuns
    <3>2. DOMAIN metrics[Model] = 1..Len(metrics[Model])
      BY <2>2 DEF EngineInv, Registry
    <3> QED
      BY <2>3, <3>1, <3>2 DEF Misnumbered
  <2>9. CurrentVersion(run) \in Nat
    <3>1. run \in AnyRun
      BY <2>2, <2>3 DEF EngineInv, Registry
    <3> QED
      BY <3>1, CurrentIsNat
  <2>6. /\ engine' \in LoopState
        /\ engine'.at = "search" /\ engine'.version = engine.version
        /\ engine'.current = CurrentVersion(run) /\ engine'.model = engine.model
    <3>1. engine \in LoopState
      BY DEF EngineInv, Loop
    <3> HIDE DEF run
    <3> QED
      BY <2>1, <2>9, <3>1 DEF LoopState
  <2>7. /\ Model' = Model /\ served' = served /\ condemned' = condemned
        /\ mislogged' = mislogged
    BY <2>6 DEF Model, ReadMetrics, registry, history
  <2>8. Loop'
    BY <2>2, <2>4, <2>5, <2>6, <2>7 DEF Loop
  <2> QED
    BY <1>1, <2>8, LoopKeepsInv DEF ReadMetrics
<1> QED
  BY <1>2, <1>3, <1>4

LEMMA FindPreviousKeepsInv ==
    EngineInv /\ FindPrevious => EngineInv'
<1> SUFFICES ASSUME EngineInv, FindPrevious PROVE EngineInv'
  OBVIOUS
<1>1. EngineCounts'
  BY DEF EngineInv, EngineCounts, FindPrevious, registry
<1>2. CASE engine' = NextModel
  BY <1>1, <1>2, NextModelKeepsLoop, LoopKeepsInv DEF EngineInv, FindPrevious
<1>3. CASE \E v \in Latest(Candidates(Model, engine.current)) :
            engine' = [engine EXCEPT !.at = "post", !.target = v]
  <2>1. PICK v \in Latest(Candidates(Model, engine.current)) :
            engine' = [engine EXCEPT !.at = "post", !.target = v]
    BY <1>3
  <2>2. Model \in Models
    BY OrderedModels DEF EngineInv, Loop, LoopState, Model
  <2>3. v \in DOMAIN stage[Model] /\ v < engine.current /\ stage[Model][v] # "None"
    BY <2>1 DEF Latest, Candidates
  <2>4. v \in Versions
    BY <2>2, <2>3, RollbackAssumption DEF EngineInv, Registry, Versions,
       RollbackAssumption
  <2>5. /\ engine' \in LoopState
        /\ engine'.at = "post" /\ engine'.version = engine.version /\ engine'.target = v
        /\ engine'.current = engine.current /\ engine'.model = engine.model
    <3>1. engine \in LoopState
      BY DEF EngineInv, Loop
    <3>2. v \in 0..MaxVersion
      BY <2>4, RollbackAssumption DEF Versions, RollbackAssumption
    <3> QED
      BY <2>1, <3>1, <3>2 DEF LoopState
  <2>6. /\ Model' = Model /\ served' = served /\ condemned' = condemned
        /\ held' = held /\ mislogged' = mislogged
    BY <2>5 DEF Model, FindPrevious, registry, history
  <2>7. engine.at = "search"
    BY DEF FindPrevious
  <2>9. HadStage(Model, v)
    <3>1. stage[Model] \in Seq(Stages) /\ Stated(Model) \subseteq held[Model]
      BY <2>2 DEF EngineInv, Registry, SeenRuns
    <3>2. stage[Model][v] \in Stages /\ <<v, stage[Model][v]>> \in Stated(Model)
      BY <2>3, <3>1 DEF Stated
    <3> QED
      BY <2>3, <3>1, <3>2 DEF HadStage
  <2>10. HadStage(Model, engine.target)'
    BY <2>5, <2>6, <2>9 DEF HadStage
  <2>8. Loop'
    BY <2>3, <2>4, <2>5, <2>6, <2>7, <2>10 DEF EngineInv, Loop
  <2> QED
    BY <1>1, <2>8, LoopKeepsInv DEF FindPrevious
<1> QED
  BY <1>2, <1>3 DEF FindPrevious

(* A request that is sent when the loop comes to it is justified.          *)
LEMMA SubmitIsJustified ==
    ASSUME EngineInv, engine.at = "post", UNCHANGED registry,
           submitted' \in {submitted, Submit}
    PROVE  Sent'
<1> DEFINE sent == [model |-> Model, blamed |-> engine.version, target |-> engine.target]
<1>1. Model \in Models
  BY OrderedModels DEF EngineInv, Loop, LoopState, Model
<1>2. /\ engine.version \in served[Model] \cap condemned[Model]
      /\ engine.version \notin mislogged[Model] => engine.current \in {0, engine.version}
      /\ engine.target \in Versions /\ engine.target < engine.current
      /\ HadStage(Model, engine.target)
  BY DEF EngineInv, Loop
<1>3. /\ engine.version \in Versions
      /\ engine.version \notin mislogged[Model] => engine.target < engine.version
  BY <1>1, <1>2, RollbackAssumption DEF EngineInv, SeenRuns, Versions,
     RollbackAssumption
<1>4. sent \in Requests
  BY <1>1, <1>2, <1>3 DEF Requests
<1>5. /\ sent.blamed \in served[sent.model] \cap condemned[sent.model]
      /\ \E s \in Stages \ {"None"} : <<sent.target, s>> \in held[sent.model]
      /\ sent.blamed \notin mislogged[sent.model] => sent.target < sent.blamed
  BY <1>2, <1>3 DEF HadStage
<1>6. \A q \in submitted' : q \in submitted \/ q = sent
  BY DEF Submit
<1>7. served' = served /\ condemned' = condemned /\ held' = held /\ mislogged' = mislogged
  BY DEF registry, history
<1> HIDE DEF sent
<1> QED
  BY <1>4, <1>5, <1>6, <1>7 DEF EngineInv, Sent, SubmittedIsJustified

LEMMA PostKeepsInv ==
    EngineInv /\ (Post \/ PostFails) => EngineInv'
<1> SUFFICES ASSUME EngineInv, Post \/ PostFails PROVE EngineInv'
  OBVIOUS
<1>1. /\ engine.at = "post" /\ UNCHANGED registry /\ submitted' \in {submitted, Submit}
      /\ engine' = NextModel
  BY DEF Post, PostFails
<1>2. Registry' /\ SeenRuns' /\ changes' = changes
  BY <1>1, RegistryStays
<1>3. Loop'
  BY <1>1, NextModelKeepsLoop DEF EngineInv
<1>4. Sent'
  BY <1>1, SubmitIsJustified
<1>5. EngineCounts'
  BY <1>2, RollbackAssumption DEF EngineInv, EngineCounts, Post,
     PostFails, RollbackAssumption
<1> QED
  BY <1>2, <1>3, <1>4, <1>5 DEF EngineInv

LEMMA MlflowFailsKeepsInv ==
    EngineInv /\ MlflowFails => EngineInv'
<1> SUFFICES ASSUME EngineInv, MlflowFails PROVE EngineInv'
  OBVIOUS
<1>1. Loop'
  BY NextModelKeepsLoop DEF EngineInv, MlflowFails
<1>2. EngineCounts'
  BY RollbackAssumption DEF EngineInv, EngineCounts, MlflowFails,
     registry, RollbackAssumption
<1> QED
  BY <1>1, <1>2, LoopKeepsInv DEF MlflowFails

-----------------------------------------------------------------------------

LEMMA RegisterKeepsInv ==
    ASSUME EngineInv, NEW m \in Models, Register(m)
    PROVE  EngineInv'
<1> DEFINE v == Len(stage[m]) + 1
<1>1. /\ v \in Versions
      /\ stage' = [stage EXCEPT ![m] = Append(@, "None")]
      /\ alias' = alias /\ Changed
  BY DEF Register
<1>2. PICK run \in Runs[m] : metrics' = [metrics EXCEPT ![m] = Append(@, run)]
  BY DEF Register
<1>3. run \in AnyRun /\ "None" \in Stages
  BY DEF AnyRun, Stages
<1>4. /\ stage \in [Models -> Seq(Stages)] /\ metrics \in [Models -> Seq(AnyRun)]
      /\ alias \in [Models -> 0..MaxVersion]
      /\ \A n \in Models : /\ Len(stage[n]) \in Versions /\ Len(metrics[n]) = Len(stage[n])
                           /\ alias[n] <= Len(stage[n])
  BY DEF EngineInv, Registry
<1>5. /\ Append(stage[m], "None") \in Seq(Stages) /\ Len(Append(stage[m], "None")) = v
      /\ Append(metrics[m], run) \in Seq(AnyRun) /\ Len(Append(metrics[m], run)) = v
  BY <1>3, <1>4
<1> HIDE DEF v
<1>7. /\ stage' \in [Models -> Seq(Stages)] /\ metrics' \in [Models -> Seq(AnyRun)]
      /\ \A n \in Models : n # m => stage'[n] = stage[n] /\ metrics'[n] = metrics[n]
      /\ stage'[m] = Append(stage[m], "None") /\ metrics'[m] = Append(metrics[m], run)
  BY <1>1, <1>2, <1>4, <1>5
<1>8. v = Len(stage[m]) + 1
  BY DEF v
<1>9. \A n \in Models :
        /\ Len(stage'[n]) \in Versions /\ Len(metrics'[n]) = Len(stage'[n])
        /\ Len(stage[n]) <= Len(stage'[n])
  <2> TAKE n \in Models
  <2>1. CASE n = m
    BY <1>1, <1>4, <1>5, <1>7, <1>8, <2>1 DEF Versions
  <2>2. CASE n # m
    BY <1>4, <1>7, <2>2 DEF Versions
  <2> QED
    BY <2>1, <2>2
<1>11. \A n \in Models : alias'[n] <= Len(stage'[n])
  BY <1>1, <1>4, <1>9 DEF Versions
<1>13. Registry'
  BY <1>1, <1>4, <1>7, <1>9, <1>11 DEF Registry
<1> QED
  BY <1>1, <1>9, <1>13, ChangedKeepsInv

LEMMA LogKeepsInv ==
    ASSUME EngineInv, NEW m \in Models,
           NEW v \in DOMAIN stage[m], Log(m, v)
    PROVE  EngineInv'
<1>1. stage' = stage /\ alias' = alias /\ Changed
  BY DEF Log
<1>2. PICK run \in Runs[m] : metrics' = [metrics EXCEPT ![m][v] = run]
  BY DEF Log
<1>3. run \in AnyRun
  BY DEF AnyRun
<1>4. /\ stage \in [Models -> Seq(Stages)] /\ metrics \in [Models -> Seq(AnyRun)]
      /\ \A n \in Models : Len(stage[n]) \in Nat /\ Len(metrics[n]) = Len(stage[n])
  BY DEF EngineInv, Registry
<1>5. v \in 1..Len(metrics[m])
  BY <1>4
<1> DEFINE new == [metrics[m] EXCEPT ![v] = run]
<1>6. new \in Seq(AnyRun) /\ Len(new) = Len(metrics[m])
  BY <1>3, <1>4, <1>5, ExceptSeq
<1>7. metrics' = [metrics EXCEPT ![m] = new]
  BY <1>2
<1> HIDE DEF new
<1>8. /\ metrics' \in [Models -> Seq(AnyRun)]
      /\ metrics'[m] = new /\ \A n \in Models : n # m => metrics'[n] = metrics[n]
  BY <1>4, <1>6, <1>7
<1>9. \A n \in Models : Len(metrics'[n]) = Len(stage[n])
  BY <1>4, <1>6, <1>8
<1>12. Registry'
  BY <1>1, <1>8, <1>9 DEF EngineInv, Registry
<1> QED
  BY <1>1, <1>4, <1>12, ChangedKeepsInv

LEMMA TransitionKeepsInv ==
    ASSUME EngineInv, NEW m \in Models,
           NEW v \in DOMAIN stage[m], Transition(m, v)
    PROVE  EngineInv'
<1>1. alias' = alias /\ metrics' = metrics /\ Changed
  BY DEF Transition
<1>2. PICK s \in Stages : stage' = [stage EXCEPT ![m][v] = s]
  BY DEF Transition
<1>3. stage \in [Models -> Seq(Stages)] /\ v \in 1..Len(stage[m])
  BY DEF EngineInv, Registry
<1> DEFINE new == [stage[m] EXCEPT ![v] = s]
<1>4. new \in Seq(Stages) /\ Len(new) = Len(stage[m])
  BY <1>3, ExceptSeq
<1>5. stage' = [stage EXCEPT ![m] = new]
  BY <1>2
<1> HIDE DEF new
<1>6. stage' \in [Models -> Seq(Stages)] /\ \A n \in Models : Len(stage'[n]) = Len(stage[n])
  BY <1>3, <1>4, <1>5
<1>7. Registry'
  BY <1>1, <1>6 DEF EngineInv, Registry
<1>8. \A n \in Models : Len(stage[n]) <= Len(stage'[n])
  BY <1>3, <1>6
<1> QED
  BY <1>1, <1>7, <1>8, ChangedKeepsInv

LEMMA SetAliasKeepsInv ==
    ASSUME EngineInv, NEW m \in Models,
           NEW v \in {0} \cup DOMAIN stage[m], SetAlias(m, v)
    PROVE  EngineInv'
<1>1. /\ stage' = stage /\ metrics' = metrics /\ Changed
      /\ alias' = [alias EXCEPT ![m] = v]
  BY DEF SetAlias
<1>2. /\ stage \in [Models -> Seq(Stages)] /\ alias \in [Models -> 0..MaxVersion]
      /\ \A n \in Models : Len(stage[n]) \in Versions /\ alias[n] <= Len(stage[n])
  BY DEF EngineInv, Registry
<1>3. v \in 0..MaxVersion /\ v <= Len(stage[m])
  BY <1>2, RollbackAssumption DEF Versions, RollbackAssumption
<1>4. alias' \in [Models -> 0..MaxVersion] /\ \A n \in Models : alias'[n] <= Len(stage[n])
  BY <1>1, <1>2, <1>3
<1>5. Registry'
  BY <1>1, <1>4 DEF EngineInv, Registry
<1>6. \A n \in Models : Len(stage[n]) <= Len(stage'[n])
  BY <1>1, <1>2 DEF Versions
<1> QED
  BY <1>1, <1>5, <1>6, ChangedKeepsInv

LEMMA EnvironmentKeepsInv ==
    EngineInv /\ Environment => EngineInv'
BY RegisterKeepsInv, LogKeepsInv, TransitionKeepsInv, SetAliasKeepsInv DEF Environment

-----------------------------------------------------------------------------

LEMMA StutterKeepsInv ==
    EngineInv /\ UNCHANGED engineVars => EngineInv'
<1> SUFFICES ASSUME EngineInv, UNCHANGED engineVars PROVE EngineInv'
  OBVIOUS
<1>1. Loop' /\ EngineCounts'
  <2>1. /\ engine' = engine /\ served' = served /\ condemned' = condemned /\ held' = held
        /\ mislogged' = mislogged /\ changes' = changes /\ failures' = failures
    BY DEF engineVars, registry, history
  <2> QED
    BY <2>1 DEF EngineInv, Loop, EngineCounts, Model, HadStage
<1> QED
  BY <1>1, LoopKeepsInv DEF engineVars

LEMMA EngineInvariance ==
    EngineSpec => []EngineInv
<1>1. EngineInv /\ [EngineNext]_(engineVars) => EngineInv'
  BY StartLoopKeepsInv, ReadChampionKeepsInv, ReadVersionKeepsInv, ReadMetricsKeepsInv, FindPreviousKeepsInv,
     PostKeepsInv, MlflowFailsKeepsInv, EnvironmentKeepsInv, StutterKeepsInv DEF EngineNext, Step
<1> QED
  BY EngineStarts, <1>1, PTL DEF EngineSpec

(* The engine keeps its types for any registry, also when the champion     *)
(* that it reads has been replaced, or its run been written to, since.     *)
THEOREM EngineTypeCorrect ==
    EngineSpec => []EngineTypeOK
<1>1. EngineInv => EngineTypeOK
  <2> SUFFICES ASSUME EngineInv PROVE EngineTypeOK
    OBVIOUS
  <2>1. \A m \in Models :
            /\ stage[m] \in Seq(Stages) /\ Len(stage[m]) \in Versions
            /\ Len(metrics[m]) = Len(stage[m])
            /\ alias[m] \in 0..Len(stage[m])
            /\ served[m] \cup condemned[m] \cup mislogged[m] \subseteq DOMAIN stage[m]
            /\ held[m] \subseteq (DOMAIN stage[m]) \X Stages
    BY DEF EngineInv, Registry, SeenRuns, Versions
  <2> QED
    BY <2>1 DEF EngineInv, Loop, LoopState, Sent, EngineCounts, EngineTypeOK
<1> QED
  BY EngineInvariance, <1>1, PTL

(* A rollback that is submitted blames a version that was champion and     *)
(* degraded, and goes to one that was given a stage, which is one before   *)
(* it unless the blamed run ever held the number of another version.       *)
THEOREM RollbacksAreJustified ==
    EngineSpec => []SubmittedIsJustified
<1>1. EngineInv => SubmittedIsJustified
  BY DEF EngineInv, Sent
<1> QED
  BY EngineInvariance, <1>1, PTL
=============================================================================
