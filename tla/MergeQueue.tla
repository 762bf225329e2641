------------------------------ MODULE MergeQueue ------------------------------
(***************************************************************************)
(* .github/workflows/auto-merge.yml: jobs that look at open pull requests  *)
(* and merge those whose checks are green.  A job of the schedule goes     *)
(* through all of them once; a job of a pull request event watches one.    *)
(* Nothing keeps jobs apart, and between the look of a job at a pull       *)
(* request and what it does about it people push, checks run, and other    *)
(* pull requests are merged.                                               *)
(*                                                                         *)
(* The rollup of the checks of a head counts by its worst part: a failed   *)
(* one, else one that is pending, else one that is stale.  Time passes for *)
(* a watching job with each sleep, and for a pull request with each tick   *)
(* since its last update.                                                  *)
(*                                                                         *)
(* A job is sure of a merge when it has counted the other workflows, its   *)
(* gh can merge one head and no other, and it knows whether a Dependabot   *)
(* update is a major one; it merges without any of these, too.             *)
(***************************************************************************)
EXTENDS Integers, Sequences, FiniteSets

CONSTANTS
    PRs,            \* the numbers of the pull requests
    Author,         \* who opened each: "owner", "fork", "renovate", "dependabot"
    Major,          \* updates of Dependabot to a major version, no security fix
    Refused,        \* those GitHub does not let this token merge
    Crons,          \* jobs of the schedule
    Watchers,       \* jobs of pull request events
    HasCI,          \* the repository has other workflows
    CountMayFail,   \* the request that counts them may fail
    NoMatchHead,    \* the gh of a runner may lack --match-head-commit
    startup_wait, quiet_age, pending_wait,
    MaxHeads,       \* bound: heads of a pull request
    MaxEvents,      \* bound: what people, GitHub and CI do
    MaxAborts       \* bound: jobs that stop in the middle

Jobs == Crons \cup Watchers

ASSUME QueueAssumption ==
    /\ PRs \subseteq Nat /\ IsFiniteSet(PRs)
    /\ Author \in [PRs -> {"owner", "fork", "renovate", "dependabot"}]
    /\ Major \subseteq {p \in PRs : Author[p] = "dependabot"} /\ Refused \subseteq PRs
    /\ Crons \cap Watchers = {}
    /\ {HasCI, CountMayFail, NoMatchHead} \subseteq BOOLEAN
    /\ {startup_wait, pending_wait, MaxEvents, MaxAborts} \subseteq Nat
    /\ {quiet_age, MaxHeads} \subseteq Nat \ {0}

VARIABLES
    pr,             \* pr[p]: the pull request as GitHub has it
    asked,          \* asked[p]: its last comment asks Dependabot to rebase
    job,            \* job[j]: where a job is
    events,         \* steps of people, GitHub and CI
    aborts          \* jobs that have stopped in the middle

vars == <<pr, asked, job, events, aborts>>

(* count_checks: the worst of the checks.                                  *)
Checks == {"none", "pending", "green", "failed", "stale"}

(* clear, of the head: "green" when its checks have been green, else       *)
(* "quiet" when CI has left it alone for quiet_age.                        *)
NewHead(q, n) ==
    [q EXCEPT !.head = n, !.checks = "none", !.merge = "UNKNOWN", !.age = 0,
              !.clear = "no"]

Opened == [state |-> "OPEN", head |-> 1, checks |-> "none", merge |-> "UNKNOWN",
           hold |-> "none", age |-> 0, clear |-> "no", vetted |-> FALSE]

Idle == [at |-> "idle", mode |-> "once", todo |-> <<>>, ci |-> FALSE, pin |-> {},
         head |-> 0, behind_updates |-> 0, waited |-> 0, sure |-> TRUE]

Init ==
    /\ pr = [p \in PRs |-> Opened]
    /\ asked = [p \in PRs |-> FALSE]
    /\ job = [j \in Jobs |-> Idle]
    /\ events = 0 /\ aborts = 0

Open == {p \in PRs : pr[p].state = "OPEN"}

-----------------------------------------------------------------------------

(* workflow_count: 0 when the request that counts fails.                   *)
Counted == {HasCI} \cup (IF CountMayFail THEN {FALSE} ELSE {})

(* have_match: whether the help of the runner's gh lists the option.  A    *)
(* job reads it when it starts; here it is settled by the first merge, the *)
(* first that depends on it.                                               *)
Pinned == {TRUE} \cup (IF NoMatchHead THEN {FALSE} ELSE {})

(* gh pr list: the latest first.                                           *)
Listed ==
    {s \in [1..Cardinality(Open) -> Open] : \A i, k \in DOMAIN s : i < k => s[i] > s[k]}

(* main: all open pull requests, or the one of the event; those of other   *)
(* people's forks start no job.                                            *)
Start(j) ==
    /\ job[j].at = "idle" /\ Open # {}
    /\ \E ci \in Counted,
          todo \in IF j \in Crons THEN Listed
                   ELSE {<<p>> : p \in {n \in Open : Author[n] # "fork"}} :
        job' = [job EXCEPT ![j] =
                [Idle EXCEPT !.at = "view", !.ci = ci, !.pin = Pinned, !.todo = todo,
                             !.mode = IF j \in Crons THEN "once" ELSE "watch"]]
    /\ UNCHANGED <<pr, asked, events, aborts>>

(* Mutant: the loop of main ends with the first pull request it skips.     *)
StopsAtFirst(b) == Idle

(* process_pr returns, and main goes on to the next one.                   *)
Returned(b) ==
    IF Len(b.todo) = 1 THEN Idle
    ELSE [b EXCEPT !.at = "view", !.todo = Tail(@), !.head = 0, !.behind_updates = 0,
                   !.waited = 0, !.sure = TRUE]

(* Mutant: the clock of process_pr starts anew with each look.             *)
SleptAnew(b) == [b EXCEPT !.at = "view", !.head = 0, !.waited = 0]

(* A sleep, and the next look.  Beyond the longest wait all times are one. *)
Slept(b) ==
    [b EXCEPT !.at = "view", !.head = 0,
              !.waited = IF @ > pending_wait THEN @ ELSE @ + 1]

Dependabot(p) == Author[p] = "dependabot"

(* Checks that are stale, or a branch that is behind: the branch is        *)
(* updated once, by Dependabot if it is its own.                           *)
Refresh(p, b) ==
    IF Dependabot(p) THEN "rebase" ELSE IF b.behind_updates >= 1 THEN "skip" ELSE "update"

(* Mutant: count_checks counts no check run as pending.                    *)
RunningStatusOnly(q) == FALSE

Running(q) == q.checks = "pending"

(* process_pr decides by the first rule that fits what it has read.        *)
Rules(p, b) ==
    LET q == pr[p]
        WatchFor(limit) == IF b.mode = "watch" /\ b.waited <= limit THEN "wait" ELSE "skip"
    IN  <<
    [if |-> \/ q.state # "OPEN" \/ q.hold # "none" \/ Author[p] = "fork"
            \/ q.merge = "CONFLICTING" \/ q.checks = "failed", then |-> "skip"],
    [if |-> q.merge = "UNKNOWN", then |-> WatchFor(pending_wait)],
    [if |-> q.checks = "stale", then |-> Refresh(p, b)],
    [if |-> Running(q), then |-> WatchFor(pending_wait)],
    [if |-> q.checks = "none" /\ b.ci /\ b.mode = "watch", then |-> WatchFor(startup_wait - 1)],
    [if |-> q.checks = "none" /\ b.ci /\ q.age < quiet_age, then |-> "skip"],
    [if |-> q.merge = "BEHIND", then |-> Refresh(p, b)],
    [if |-> TRUE, then |-> IF Dependabot(p) THEN "hold" ELSE "merge"] >>

(* An if that returns or continues: the rules before it did not fit.       *)
First(rules, i) == rules[i].if /\ \A k \in 1..i - 1 : ~rules[k].if

(* gh pr view, one answer for everything that is decided.                  *)
Look(j) ==
    LET b == job[j]
        p == Head(b.todo)
    IN  /\ b.at = "view"
        /\ \E rules \in {Rules(p, b)} : \E i \in 1..Len(rules) :
            /\ First(rules, i)
            /\ job' = [job EXCEPT ![j] =
                    CASE rules[i].then = "skip" -> Returned(b)
                      [] rules[i].then = "wait" -> Slept(b)
                      [] OTHER -> [b EXCEPT !.at = rules[i].then, !.head = pr[p].head]]
        /\ UNCHANGED <<pr, asked, events, aborts>>

Updated(b) == Slept([b EXCEPT !.behind_updates = @ + 1])

(* PUT update-branch: a new head, of whatever head there is by now.        *)
Update(j) ==
    LET p == Head(job[j].todo)
    IN  /\ job[j].at = "update"
        /\ \/ /\ p \in Open /\ pr[p].merge # "CONFLICTING" /\ pr[p].head < MaxHeads
              /\ pr' = [pr EXCEPT ![p] = NewHead(@, @.head + 1)]
              /\ job' = [job EXCEPT ![j] = Updated(@)]
           \/ job' = [job EXCEPT ![j] = Returned(@)] /\ UNCHANGED pr
        /\ UNCHANGED <<asked, events, aborts>>

(* request_dependabot_rebase, unless the last comment is such a request.   *)
Rebase(j) ==
    LET p == Head(job[j].todo)
    IN  /\ job[j].at = "rebase"
        /\ \/ /\ ~asked[p] /\ asked' = [asked EXCEPT ![p] = TRUE]
              /\ pr' = [pr EXCEPT ![p].age = 0]
           \/ UNCHANGED <<asked, pr>>
        /\ job' = [job EXCEPT ![j] = Returned(@)]
        /\ UNCHANGED <<events, aborts>>

(* hold_nonsecurity_major asks for the commits of the pull request.  It is *)
(* called where set -e does not count: without an answer, it holds nothing *)
(* back.                                                                   *)
Hold(j) ==
    LET p == Head(job[j].todo)
    IN  /\ job[j].at = "hold"
        /\ \E answered \in BOOLEAN :
            job' = [job EXCEPT ![j] =
                IF answered /\ p \in Major THEN Returned(@)
                ELSE [@ EXCEPT !.at = "merge", !.sure = answered]]
        /\ UNCHANGED <<pr, asked, events, aborts>>

(* What the workflow is there to merge.                                    *)
Eligible(p) ==
    /\ p \in Open \ Refused
    /\ Author[p] # "fork" /\ p \notin Major
    /\ pr[p].hold = "none" /\ pr[p].merge = "CLEAN" /\ pr[p].checks = "green"

(* GitHub merges a pull request and looks again at the others; vetted is   *)
(* whether the job that asked for it was sure.                             *)
Merged(p, b, pin) ==
    pr' = [q \in PRs |->
            CASE q = p -> [pr[q] EXCEPT !.state = "MERGED", !.vetted = b.ci /\ pin /\ b.sure]
              [] q \in Open \ {p} -> [pr[q] EXCEPT !.merge = "UNKNOWN"]
              [] OTHER -> pr[q]]

Mergeable(p) ==
    p \in Open \ Refused /\ pr[p].hold # "draft" /\ pr[p].merge # "CONFLICTING"

Matches(p, b, pin) == pin => pr[p].head = b.head

(* merge_pr: GitHub refuses when the head is not the one that was seen, if *)
(* gh could name it; without --match-head-commit it takes any.             *)
Merge(j) ==
    LET b == job[j]
        p == Head(b.todo)
    IN  /\ b.at = "merge"
        /\ \E pin \in b.pin :
            /\ \/ Mergeable(p) /\ Matches(p, b, pin) /\ Merged(p, b, pin)
               \/ ~(Eligible(p) /\ Matches(p, b, pin)) /\ UNCHANGED pr
            /\ job' = [job EXCEPT ![j] = Returned([b EXCEPT !.pin = {pin}])]
        /\ UNCHANGED <<asked, events, aborts>>

(* A request fails under set -e, or the job is over its 30 minutes: the    *)
(* pull requests after this one are not looked at either.                  *)
Abort(j) ==
    /\ job[j].at # "idle"
    /\ aborts < MaxAborts /\ aborts' = aborts + 1
    /\ job' = [job EXCEPT ![j] = Idle]
    /\ UNCHANGED <<pr, asked, events>>

JobStep(j) == Look(j) \/ Update(j) \/ Rebase(j) \/ Hold(j) \/ Merge(j)

-----------------------------------------------------------------------------

(* What happens to an open pull request meanwhile.                         *)
Push(p) == pr[p].head < MaxHeads /\ pr' = [pr EXCEPT ![p] = NewHead(@, @.head + 1)]

Recompute(p) ==
    \E m \in IF pr[p].merge = "UNKNOWN" THEN {"CLEAN", "BEHIND", "CONFLICTING"} ELSE {"UNKNOWN"} :
        pr' = [pr EXCEPT ![p].merge = m]

CheckReports(p) ==
    /\ HasCI
    /\ \E c \in Checks \ {"none", pr[p].checks} :
        /\ pr[p].checks = "none" => c # "stale"
        /\ pr' = [pr EXCEPT ![p].checks = c, ![p].clear = IF c = "green" THEN c ELSE @]

Review(p) ==
    \E h \in {"none", "draft", "changes"} \ {pr[p].hold} :
        pr' = [pr EXCEPT ![p].hold = h, ![p].age = 0]

Close(p) == pr' = [pr EXCEPT ![p].state = "CLOSED"]

Outside(p) ==
    /\ p \in Open
    /\ events < MaxEvents /\ events' = events + 1
    /\ \/ /\ Push(p) \/ Recompute(p) \/ CheckReports(p) \/ Review(p) \/ Close(p)
          /\ UNCHANGED asked
       \/ /\ asked[p] /\ asked' = [asked EXCEPT ![p] = FALSE]
          /\ pr' = [pr EXCEPT ![p].age = 0]
    /\ UNCHANGED <<job, aborts>>

(* Time passes without an update.                                          *)
Age(p) ==
    /\ p \in Open /\ pr[p].age < quiet_age
    /\ pr' = [pr EXCEPT ![p].age = @ + 1,
                        ![p].clear = IF pr[p].checks = "none" /\ pr[p].age + 1 = quiet_age
                                       THEN "quiet" ELSE @]
    /\ UNCHANGED <<asked, job, events, aborts>>

Next ==
    \/ \E j \in Jobs : Start(j) \/ JobStep(j) \/ Abort(j)
    \/ \E p \in PRs : Outside(p) \/ Age(p)

(* The schedule starts its job again and again, and a job goes on.         *)
Fairness ==
    /\ \A j \in Jobs : WF_vars(JobStep(j))
    /\ \A j \in Crons : WF_vars(Start(j))

Spec == Init /\ [][Next]_vars /\ Fairness

-----------------------------------------------------------------------------

PullRequest ==
    [state : {"OPEN", "MERGED", "CLOSED"}, head : 1..MaxHeads, checks : Checks,
     merge : {"UNKNOWN", "CLEAN", "BEHIND", "CONFLICTING"},
     hold : {"none", "draft", "changes"}, age : 0..quiet_age,
     clear : {"no", "quiet", "green"}, vetted : BOOLEAN]

JobState ==
    [at : {"idle", "view", "update", "rebase", "hold", "merge"}, mode : {"once", "watch"},
     todo : Seq(PRs), ci : BOOLEAN, pin : SUBSET BOOLEAN, head : 0..MaxHeads,
     behind_updates : 0..1, waited : 0..pending_wait + 1, sure : BOOLEAN]

(* Types; a job updates the branch of a pull request at most once.         *)
TypeOK ==
    /\ pr \in [PRs -> PullRequest] /\ asked \in [PRs -> BOOLEAN]
    /\ job \in [Jobs -> JobState]
    /\ \A j \in Jobs : job[j].at = "idle" <=> job[j].todo = <<>>
    /\ events \in 0..MaxEvents /\ aborts \in 0..MaxAborts

(* What a job merges that is sure of it is no major update, and its head   *)
(* is one whose own checks were green, or one that CI had left alone for   *)
(* quiet_age: never a head that was pushed, or made by an update of its    *)
(* branch, after the job looked.                                           *)
MergedWasClear ==
    \A p \in PRs : pr[p].state = "MERGED" /\ pr[p].vetted =>
        pr[p].clear # "no" /\ p \notin Major

(* A job comes to an end, whatever the checks and the branch do.           *)
JobsEnd == \A j \in Jobs : job[j].at # "idle" ~> job[j].at = "idle"

(* A pull request does not stay as the workflow wants it: it is merged,    *)
(* by this job or the next, whatever the other pull requests are like.     *)
EligibleMerged == \A p \in PRs : []<>~Eligible(p)
=============================================================================
