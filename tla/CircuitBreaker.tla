--------------------------- MODULE CircuitBreaker ---------------------------
(***************************************************************************)
(* The circuit breaker of services/self-healing/src/resilience.py as the   *)
(* threads of one process share it.  The class holds no lock, so a step    *)
(* here is the code between two points at which CPython may hand the       *)
(* interpreter to another thread: the entry of a Python function and the   *)
(* return of a call.  The reads and writes of one step are not             *)
(* interleaved with another thread; the calls of time.monotonic() in       *)
(* `state` and in `record_failure` are such points, and what was read      *)
(* before them may be stale after them.                                    *)
(***************************************************************************)
EXTENDS Integers, FiniteSets

CONSTANTS
    Threads,            \* request threads that share the breaker object
    FailureThreshold,   \* failure_threshold
    ResetTimeout,       \* reset_timeout, in clock ticks
    NoTime,             \* None, as a value of _opened_at
    MaxTime,            \* bound: the last value of the clock
    MaxFailures         \* bound: the largest value of _failures

ASSUME BreakerAssumption ==
    /\ FailureThreshold \in Nat \ {0}
    /\ ResetTimeout \in Nat
    /\ MaxTime \in Nat
    /\ MaxFailures \in Nat
    /\ NoTime \notin Nat

VARIABLES
    now,        \* time.monotonic()
    failures,   \* self._failures
    openedAt,   \* self._opened_at
    call,       \* call[t]: where thread t is in CircuitBreaker.call
    seen,       \* seen[t]: the clock value t read and still holds, else 0
    overtaken   \* history: the last success found a failure still opening

vars == <<now, failures, openedAt, call, seen, overtaken>>

CallState == {"idle", "checking", "calling", "trial", "opening"}

-----------------------------------------------------------------------------

Init ==
    /\ now = 0
    /\ failures = 0
    /\ openedAt = NoTime
    /\ call = [t \in Threads |-> "idle"]
    /\ seen = [t \in Threads |-> 0]
    /\ overtaken = FALSE

(* The clock moves on while threads run. *)
Tick ==
    /\ now < MaxTime
    /\ now' = now + 1
    /\ UNCHANGED <<failures, openedAt, call, seen, overtaken>>

(* `state` finds _opened_at None: "closed", and call() runs its function.  *)
ReadClosed(t) ==
    /\ call[t] = "idle"
    /\ openedAt = NoTime
    /\ call' = [call EXCEPT ![t] = "calling"]
    /\ UNCHANGED <<now, failures, openedAt, seen, overtaken>>

(* `state` finds _opened_at set and reads the clock; the second read of    *)
(* _opened_at comes after that call.                                       *)
ReadOpened(t) ==
    /\ call[t] = "idle"
    /\ openedAt # NoTime
    /\ call' = [call EXCEPT ![t] = "checking"]
    /\ seen' = [seen EXCEPT ![t] = now]
    /\ UNCHANGED <<now, failures, openedAt, overtaken>>

(* Mutant: the window is closed one tick early. *)
ResetElapsedEarly(t) == seen[t] - openedAt >= ResetTimeout - 1

ResetElapsed(t) == seen[t] - openedAt >= ResetTimeout

(* "half-open": the call is let through as a trial.  Nothing marks the     *)
(* trial as taken.                                                         *)
AdmitTrial(t) ==
    /\ call[t] = "checking"
    /\ openedAt # NoTime
    /\ ResetElapsed(t)
    /\ call' = [call EXCEPT ![t] = "trial"]
    /\ seen' = [seen EXCEPT ![t] = 0]
    /\ UNCHANGED <<now, failures, openedAt, overtaken>>

(* "open": CircuitBreakerOpenError.                                        *)
FastFail(t) ==
    /\ call[t] = "checking"
    /\ openedAt # NoTime
    /\ ~ResetElapsed(t)
    /\ call' = [call EXCEPT ![t] = "idle"]
    /\ seen' = [seen EXCEPT ![t] = 0]
    /\ UNCHANGED <<now, failures, openedAt, overtaken>>

(* Mutant: the None test is repeated until the field is set again. *)
StateSpins(t) ==
    /\ call[t] = "checking"
    /\ openedAt = NoTime
    /\ UNCHANGED vars

(* Another thread closed the breaker after the None test: the subtraction  *)
(* raises TypeError, outside call()'s try.                                 *)
StateRaises(t) ==
    /\ call[t] = "checking"
    /\ openedAt = NoTime
    /\ call' = [call EXCEPT ![t] = "idle"]
    /\ seen' = [seen EXCEPT ![t] = 0]
    /\ UNCHANGED <<now, failures, openedAt, overtaken>>

Calling(t) == call[t] \in {"calling", "trial"}

(* Mutant: a success clears the count and leaves _opened_at set. *)
SucceedLeavesOpen(t) ==
    /\ Calling(t)
    /\ failures' = 0
    /\ overtaken' = (\E u \in Threads : call[u] = "opening")
    /\ call' = [call EXCEPT ![t] = "idle"]
    /\ UNCHANGED <<now, openedAt, seen>>

(* The function returned: record_success.                                  *)
Succeed(t) ==
    /\ Calling(t)
    /\ failures' = 0
    /\ openedAt' = NoTime
    /\ overtaken' = (\E u \in Threads : call[u] = "opening")
    /\ call' = [call EXCEPT ![t] = "idle"]
    /\ UNCHANGED <<now, seen>>

(* Mutant: the breaker opens one failure late. *)
ThresholdExceeded(n) == n > FailureThreshold

ThresholdReached(n) == n >= FailureThreshold

(* The function raised: record_failure counts it and, at the threshold,    *)
(* reads the clock it will store.                                          *)
Fail(t) ==
    /\ Calling(t)
    /\ failures < MaxFailures
    /\ failures' = failures + 1
    /\ IF ThresholdReached(failures')
         THEN /\ call' = [call EXCEPT ![t] = "opening"]
              /\ seen' = [seen EXCEPT ![t] = now]
         ELSE /\ call' = [call EXCEPT ![t] = "idle"]
              /\ UNCHANGED seen
    /\ UNCHANGED <<now, openedAt, overtaken>>

(* record_failure stores the clock value it read; the exception goes on.   *)
Open(t) ==
    /\ call[t] = "opening"
    /\ openedAt' = seen[t]
    /\ call' = [call EXCEPT ![t] = "idle"]
    /\ seen' = [seen EXCEPT ![t] = 0]
    /\ UNCHANGED <<now, failures, overtaken>>

(* The process restarts: a new breaker object, and no call in progress.    *)
Restart ==
    /\ failures' = 0
    /\ openedAt' = NoTime
    /\ call' = [t \in Threads |-> "idle"]
    /\ seen' = [t \in Threads |-> 0]
    /\ overtaken' = FALSE
    /\ UNCHANGED now

Step(t) ==
    \/ ReadClosed(t)
    \/ ReadOpened(t)
    \/ AdmitTrial(t)
    \/ FastFail(t)
    \/ StateRaises(t)
    \/ Succeed(t)
    \/ Fail(t)
    \/ Open(t)

Next ==
    \/ \E t \in Threads : Step(t)
    \/ Tick
    \/ Restart

Spec == Init /\ [][Next]_vars

(* A thread that runs reaches the end of call(): the HTTP call inside has  *)
(* a 5 s timeout, and nothing else waits.                                  *)
Fairness == \A t \in Threads : WF_vars(Step(t))

FairSpec == Spec /\ Fairness

-----------------------------------------------------------------------------

(* Types, and that no time a thread or the breaker holds is in the future: *)
(* _opened_at is a reading of the clock, not a deadline.                   *)
TypeOK ==
    /\ now \in 0..MaxTime
    /\ failures \in 0..MaxFailures
    /\ openedAt \in (0..now) \cup {NoTime}
    /\ call \in [Threads -> CallState]
    /\ seen \in [Threads -> 0..now]
    /\ overtaken \in BOOLEAN

(* No lost opening: once the count has reached failure_threshold, the      *)
(* breaker is open or a thread is on its way to open it, whatever the      *)
(* other threads did between the count and the store.                      *)
ThresholdOpens ==
    failures >= FailureThreshold =>
        \/ openedAt # NoTime
        \/ \E t \in Threads : call[t] = "opening"

(* A breaker is open (or about to be) without failure_threshold counted    *)
(* failures only when a success was recorded between the count and the     *)
(* store of _opened_at by another thread: the one way the two fields,      *)
(* written without a lock, come apart.                                     *)
OpenWasCounted ==
    failures < FailureThreshold =>
        \/ overtaken
        \/ /\ openedAt = NoTime
           /\ \A t \in Threads : call[t] # "opening"

(* No call is let through to the service while the breaker is open and the *)
(* reset timeout has not elapsed, although `state` reads the clock and     *)
(* _opened_at at different moments.                                        *)
WithinWindow == openedAt # NoTime /\ now - openedAt < ResetTimeout

Starts(t) == ~Calling(t) /\ Calling(t)'

OpenWindowHonoured ==
    [][\A t \in Threads : Starts(t) => ~WithinWindow]_vars

(* Every call() comes to an end, by a result or by an exception.           *)
CallsReturn == \A t \in Threads : call[t] # "idle" ~> call[t] = "idle"
=============================================================================
