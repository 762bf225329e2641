----------------------------- MODULE SelfHealing -----------------------------
(***************************************************************************)
(* The self-healing service (services/self-healing/src/main.py): the       *)
(* handler of POST /api/v1/remediate as it runs in the threads of one      *)
(* process, with its idempotency cache, its retries and the circuit        *)
(* breaker in front of OPA, and the restart of the process.                *)
(***************************************************************************)
EXTENDS Integers, FiniteSets, SelfHealingPolicy

CONSTANTS
    Threads,            \* threads of the server's pool
    Requests,           \* RemediationRequest values clients send
    Attempts,           \* OPA_MAX_RETRIES
    TTL,                \* IDEMPOTENCY_TTL_SECONDS, in clock ticks
    FailureThreshold,   \* OPA_CB_FAILURE_THRESHOLD
    ResetTimeout,       \* OPA_CB_RESET_SECONDS, in clock ticks
    NoKey,              \* the idempotency_key of a request that gives none
    NoRequest,
    NoTime,
    MaxTime,            \* bound: the last value of the clock
    MaxFailures,        \* bound: the largest failure count of the breaker
    MaxReceived         \* bound: the number of requests received

ASSUME ServiceAssumption ==
    /\ Requests \subseteq
         [action : STRING, namespace : STRING, replicas : Nat, alert : STRING,
          severity : STRING, dry_run : BOOLEAN, idempotency_key : STRING \cup {NoKey}]
    /\ Attempts \in Nat \ {0}
    /\ TTL \in Nat
    /\ FailureThreshold \in Nat \ {0}
    /\ ResetTimeout \in Nat
    /\ MaxTime \in Nat
    /\ MaxFailures \in Nat
    /\ MaxReceived \in Nat
    /\ NoTime \notin Nat
    /\ NoRequest \notin Requests

VARIABLES
    now, failures, openedAt, call, seen, overtaken,   \* the breaker's
    stage,      \* stage[t]: where thread t is in remediate()
    req,        \* req[t]: the request thread t handles
    attempt,    \* attempt[t]: the attempt of retry_call
    transient,  \* transient[t]: the last failure is one retry_call retries
    clock,      \* clock[t]: what time.monotonic() told thread t for the cache
    arrived,    \* history: arrived[t]: when thread t missed the cache
    reply,      \* reply[t]: what thread t answers
    cache,      \* _idempotency_cache: its live and expired entries
    executed,   \* history: the requests that have been carried out
    completed,  \* history: the results this process has finished caching
    received    \* the number of requests received

Breaker == INSTANCE CircuitBreaker

breakerVars == <<now, failures, openedAt, call, seen, overtaken>>
threadVars == <<stage, req, attempt, transient, clock, arrived, reply>>
vars == <<breakerVars, threadVars, cache, executed, completed, received>>

ALLOWED_ACTIONS ==
    {"restart_pod", "scale_deployment", "rollback_deployment", "drain_node"}

HARDCODED_PROTECTED_NAMESPACES ==
    {"kube-system", "cert-manager", "kyverno", "keda", "monitoring", "istio-system"}

Stage == {"idle", "lookup", "query", "failed", "allowed", "denied", "executed", "replying"}

(* The explicit key wins; the hash stands for the content it is made of,   *)
(* which does not include dry_run.                                         *)
Key(r) ==
    IF r.idempotency_key # NoKey
      THEN <<"key", r.idempotency_key>>
      ELSE <<"hash", r.action, r.namespace, r.replicas, r.alert, r.severity>>

Keys == {Key(r) : r \in Requests}

(* An answer: its HTTP status and, for 200, the RemediationResult.         *)
Result(r, a, e) == [code |-> 200, of |-> r, allowed |-> a, executed |-> e]
Error(c) == [code |-> c, of |-> NoRequest, allowed |-> FALSE, executed |-> FALSE]
NoReply == Error(0)

Reply ==
    [code : {0, 200, 400, 503}, of : Requests \cup {NoRequest},
     allowed : BOOLEAN, executed : BOOLEAN]

CacheEntry == [key : Keys, expires : Nat, result : Reply]

-----------------------------------------------------------------------------

Init ==
    /\ Breaker!Init
    /\ stage = [t \in Threads |-> "idle"]
    /\ req = [t \in Threads |-> NoRequest]
    /\ attempt = [t \in Threads |-> 0]
    /\ transient = [t \in Threads |-> FALSE]
    /\ clock = [t \in Threads |-> 0]
    /\ arrived = [t \in Threads |-> 0]
    /\ reply = [t \in Threads |-> NoReply]
    /\ cache = {}
    /\ executed = {}
    /\ completed = {}
    /\ received = 0

Goto(t, s) == stage' = [stage EXCEPT ![t] = s]

(* The handler returns or raises: its locals are gone.                     *)
Answer(t, a) ==
    /\ Goto(t, "replying")
    /\ reply' = [reply EXCEPT ![t] = a]
    /\ attempt' = [attempt EXCEPT ![t] = 0]
    /\ transient' = [transient EXCEPT ![t] = FALSE]
    /\ clock' = [clock EXCEPT ![t] = 0]
    /\ arrived' = [arrived EXCEPT ![t] = 0]

(* A request reaches the handler: an unknown action is a 400.  The lookup  *)
(* of the others reads the clock before it takes the lock of the cache.    *)
Receive(t, r) ==
    /\ stage[t] = "idle"
    /\ received < MaxReceived
    /\ received' = received + 1
    /\ req' = [req EXCEPT ![t] = r]
    /\ IF r.action \in ALLOWED_ACTIONS
         THEN /\ Goto(t, "lookup")
              /\ clock' = [clock EXCEPT ![t] = now]
              /\ UNCHANGED <<attempt, transient, arrived, reply>>
         ELSE Answer(t, Error(400))
    /\ UNCHANGED <<breakerVars, cache, executed, completed>>

Expired(e, at) == at >= e.expires

Hit(t, e) == e \in cache /\ e.key = Key(req[t]) /\ ~Expired(e, clock[t])

(* _idempotency_get finds a live entry: the earlier result is the answer.  *)
ServeCached(t) ==
    /\ stage[t] = "lookup"
    /\ \E e \in cache :
        /\ Hit(t, e)
        /\ Answer(t, e.result)
    /\ UNCHANGED <<breakerVars, req, cache, executed, completed, received>>

(* _idempotency_get finds none, dropping an expired entry of the key; the  *)
(* hard-coded namespaces are then refused before OPA is asked.             *)
Miss(t) ==
    /\ stage[t] = "lookup"
    /\ ~\E e \in cache : Hit(t, e)
    /\ cache' = {e \in cache : e.key # Key(req[t])}
    /\ IF req[t].namespace \in HARDCODED_PROTECTED_NAMESPACES
         THEN Answer(t, Result(req[t], FALSE, FALSE))
         ELSE /\ Goto(t, "query")
              /\ attempt' = [attempt EXCEPT ![t] = 1]
              /\ clock' = [clock EXCEPT ![t] = 0]
              /\ arrived' = [arrived EXCEPT ![t] = now]
              /\ UNCHANGED <<transient, reply>>
    /\ UNCHANGED <<breakerVars, req, executed, completed, received>>

(* The breaker's state is evaluated and the call let through.              *)
EnterBreaker(t) ==
    /\ stage[t] = "query"
    /\ \/ Breaker!ReadClosed(t)
       \/ Breaker!ReadOpened(t)
       \/ Breaker!AdmitTrial(t)
    /\ UNCHANGED <<threadVars, cache, executed, completed, received>>

(* CircuitBreakerOpenError, or the TypeError of `state`: neither is in     *)
(* retry_on, and the request fails closed.                                 *)
Refused(t) ==
    /\ stage[t] = "query"
    /\ Breaker!FastFail(t) \/ Breaker!StateRaises(t)
    /\ Answer(t, Error(503))
    /\ UNCHANGED <<req, cache, executed, completed, received>>

(* OPA answers.  An OPA that has not loaded the policy answers with an     *)
(* empty result, which counts as a denial.                                 *)
OpaAnswers(t) ==
    /\ stage[t] = "query"
    /\ Breaker!Succeed(t)
    /\ \E loaded \in BOOLEAN :
        Goto(t, IF loaded /\ Allow(req[t]) THEN "allowed" ELSE "denied")
    /\ UNCHANGED <<req, attempt, transient, clock, arrived, reply, cache, executed, completed,
                   received>>

(* The call to OPA fails: a timeout or a transport error is transient, an  *)
(* HTTP error status or an unreadable answer is not.                       *)
OpaFails(t) ==
    /\ stage[t] = "query"
    /\ Breaker!Fail(t)
    /\ \E b \in BOOLEAN : transient' = [transient EXCEPT ![t] = b]
    /\ Goto(t, "failed")
    /\ UNCHANGED <<req, attempt, clock, arrived, reply, cache, executed, completed, received>>

(* record_failure opens the breaker before the exception goes on.          *)
OpenBreaker(t) ==
    /\ stage[t] = "failed"
    /\ Breaker!Open(t)
    /\ UNCHANGED <<threadVars, cache, executed, completed, received>>

Retries(t) == transient[t] /\ attempt[t] < Attempts

(* retry_call sleeps and calls the breaker again.                          *)
Retry(t) ==
    /\ stage[t] = "failed"
    /\ call[t] = "idle"
    /\ Retries(t)
    /\ attempt' = [attempt EXCEPT ![t] = @ + 1]
    /\ transient' = [transient EXCEPT ![t] = FALSE]
    /\ Goto(t, "query")
    /\ UNCHANGED <<breakerVars, req, clock, arrived, reply, cache, executed, completed, received>>

(* Mutant: the failure of the policy engine is taken for a permission.     *)
GiveUpOpen(t) ==
    /\ stage[t] = "failed"
    /\ call[t] = "idle"
    /\ ~Retries(t)
    /\ Goto(t, "allowed")
    /\ UNCHANGED <<breakerVars, req, attempt, transient, clock, arrived, reply, cache, executed,
                   completed, received>>

(* Mutant: only exhausted attempts are re-raised, not a permanent failure. *)
GiveUpWhenExhausted(t) ==
    /\ stage[t] = "failed"
    /\ call[t] = "idle"
    /\ attempt[t] >= Attempts
    /\ Answer(t, Error(503))
    /\ UNCHANGED <<breakerVars, req, cache, executed, completed, received>>

(* The last attempt failed, or the failure is not retried: 503.            *)
GiveUp(t) ==
    /\ stage[t] = "failed"
    /\ call[t] = "idle"
    /\ ~Retries(t)
    /\ Answer(t, Error(503))
    /\ UNCHANGED <<breakerVars, req, cache, executed, completed, received>>

Deny(t) ==
    /\ stage[t] = "denied"
    /\ Answer(t, Result(req[t], FALSE, FALSE))
    /\ UNCHANGED <<breakerVars, req, cache, executed, completed, received>>

(* Mutant: the answer of a dry run says what a live run would say.         *)
DryRunClaimsExecution(t) ==
    /\ stage[t] = "allowed"
    /\ req[t].dry_run
    /\ Answer(t, Result(req[t], TRUE, TRUE))
    /\ UNCHANGED <<breakerVars, req, cache, executed, completed, received>>

DryRun(t) ==
    /\ stage[t] = "allowed"
    /\ req[t].dry_run
    /\ Answer(t, Result(req[t], TRUE, FALSE))
    /\ UNCHANGED <<breakerVars, req, cache, executed, completed, received>>

(* Mutant: the dry_run flag is not consulted.                              *)
ExecuteAnyway(t) ==
    /\ stage[t] = "allowed"
    /\ executed' = executed \cup {req[t]}
    /\ clock' = [clock EXCEPT ![t] = now]
    /\ Goto(t, "executed")
    /\ UNCHANGED <<breakerVars, req, attempt, transient, arrived, reply, cache,
                   completed, received>>

(* It is carried out, and the clock is read for the entry of the cache.    *)
Execute(t) ==
    /\ stage[t] = "allowed"
    /\ ~req[t].dry_run
    /\ executed' = executed \cup {req[t]}
    /\ clock' = [clock EXCEPT ![t] = now]
    /\ Goto(t, "executed")
    /\ UNCHANGED <<breakerVars, req, attempt, transient, arrived, reply, cache,
                   completed, received>>

(* Mutant: the entry holds when it was stored, not when it expires.        *)
PutStoresNow(key, result, at) ==
    LET stored == {e \in cache : e.key # key}
                    \cup {[key |-> key, expires |-> at, result |-> result]}
    IN  cache' = {e \in stored : ~Expired(e, at)}

(* Mutant: the new entry is added beside the old one.                      *)
PutBeside(key, result, at) ==
    LET stored == cache \cup {[key |-> key, expires |-> at + TTL, result |-> result]}
    IN  cache' = {e \in stored : ~Expired(e, at)}

(* _idempotency_put: the entry of the key is replaced, then every expired  *)
(* entry is dropped, in one hold of the lock.                              *)
Put(key, result, at) ==
    LET stored == {e \in cache : e.key # key}
                    \cup {[key |-> key, expires |-> at + TTL, result |-> result]}
    IN  cache' = {e \in stored : ~Expired(e, at)}

CacheResult(t) ==
    /\ stage[t] = "executed"
    /\ Put(Key(req[t]), Result(req[t], TRUE, TRUE), clock[t])
    /\ completed' = completed \cup
            {[key |-> Key(req[t]), done |-> now, until |-> clock[t] + TTL]}
    /\ Answer(t, Result(req[t], TRUE, TRUE))
    /\ UNCHANGED <<breakerVars, req, executed, received>>

(* The answer leaves; the thread is free for another request.              *)
Respond(t) ==
    /\ stage[t] = "replying"
    /\ Goto(t, "idle")
    /\ req' = [req EXCEPT ![t] = NoRequest]
    /\ reply' = [reply EXCEPT ![t] = NoReply]
    /\ UNCHANGED <<breakerVars, attempt, transient, clock, arrived, cache, executed, completed,
                   received>>

Tick ==
    /\ Breaker!Tick
    /\ UNCHANGED <<threadVars, cache, executed, completed, received>>

(* The process is killed and started again: the cache and the breaker are  *)
(* those of a new process, and what its threads were doing is lost.        *)
Restart ==
    /\ Breaker!Restart
    /\ stage' = [t \in Threads |-> "idle"]
    /\ req' = [t \in Threads |-> NoRequest]
    /\ attempt' = [t \in Threads |-> 0]
    /\ transient' = [t \in Threads |-> FALSE]
    /\ clock' = [t \in Threads |-> 0]
    /\ arrived' = [t \in Threads |-> 0]
    /\ reply' = [t \in Threads |-> NoReply]
    /\ cache' = {}
    /\ completed' = {}
    /\ UNCHANGED <<executed, received>>

Step(t) ==
    \/ ServeCached(t)
    \/ Miss(t)
    \/ EnterBreaker(t)
    \/ Refused(t)
    \/ OpaAnswers(t)
    \/ OpaFails(t)
    \/ OpenBreaker(t)
    \/ Retry(t)
    \/ GiveUp(t)
    \/ Deny(t)
    \/ DryRun(t)
    \/ Execute(t)
    \/ CacheResult(t)
    \/ Respond(t)

(* All requests of the bound are answered: the clients are done.           *)
Quiet ==
    /\ received = MaxReceived
    /\ \A t \in Threads : stage[t] = "idle"
    /\ UNCHANGED vars

Next ==
    \/ \E t \in Threads :
        \/ \E r \in Requests : Receive(t, r)
        \/ Step(t)
    \/ Tick
    \/ Restart
    \/ Quiet

Spec == Init /\ [][Next]_vars

(* A thread that handles a request keeps running: uvicorn's worker threads *)
(* are never parked, and the HTTP call to OPA has a 5 s timeout.  Nothing  *)
(* is assumed of the clients, of the clock or of OPA.                      *)
Fairness == \A t \in Threads : WF_vars(Step(t))

FairSpec == Spec /\ Fairness

-----------------------------------------------------------------------------

(* Types, and that the cache is a map: one entry for a key.                *)
TypeOK ==
    /\ Breaker!TypeOK
    /\ stage \in [Threads -> Stage]
    /\ req \in [Threads -> Requests \cup {NoRequest}]
    /\ attempt \in [Threads -> 0..Attempts]
    /\ transient \in [Threads -> BOOLEAN]
    /\ clock \in [Threads -> 0..now]
    /\ arrived \in [Threads -> 0..now]
    /\ reply \in [Threads -> Reply]
    /\ cache \subseteq CacheEntry
    /\ \A e, f \in cache : e.key = f.key => e = f
    /\ executed \subseteq Requests
    /\ completed \subseteq [key : Keys, done : 0..now, until : Nat]
    /\ received \in 0..MaxReceived

(* Fail-closed: what has been carried out was allowed by the policy, live, *)
(* an action the service knows and outside both lists of protected         *)
(* namespaces, through every order of timeouts, retries, breaker states,   *)
(* cache hits and restarts.                                                *)
MayExecute(r) ==
    /\ r.action \in ALLOWED_ACTIONS
    /\ r.namespace \notin HARDCODED_PROTECTED_NAMESPACES
    /\ Allow(r)

ExecutedOnlyWhenAllowed ==
    \A r \in executed : MayExecute(r) /\ ~r.dry_run

(* De-duplication of a retrying caller: a request that asks the cache      *)
(* after an earlier execution of its key was cached, and within the TTL of *)
(* it, is not carried out again by the same process - whichever entries    *)
(* other requests added, replaced or swept in between.  Where executions   *)
(* of one key overlapped, the one that was cached last counts, whose clock *)
(* may be the older one.                                                   *)
InFlight(t) == stage[t] \in {"query", "failed", "allowed", "denied", "executed"}

SequentialDuplicateSuppressed ==
    \A t \in Threads : InFlight(t) =>
        \A c \in completed :
            c.key = Key(req[t]) /\ c.done < arrived[t] =>
                \E d \in completed :
                    d.key = c.key /\ d.done >= c.done /\ d.until <= arrived[t]

(* An answer that says "executed" names a request that was carried out and *)
(* shares the key of the request it answers, be it computed or cached.     *)
ExecutedRepliesAreTrue ==
    \A t \in Threads : reply[t].executed =>
        reply[t].of \in executed /\ Key(reply[t].of) = Key(req[t])

(* Every request a live process has accepted is answered.                  *)
EveryRequestAnswered ==
    \A t \in Threads : stage[t] # "idle" ~> stage[t] = "idle"

(* The handler implements the abstract gate: it acts on live requests that *)
(* were permitted, and on nothing else.                                    *)
GateOf(t) ==
    IF stage[t] \in {"idle", "replying"} THEN "free"
    ELSE IF stage[t] = "allowed" THEN "permitted"
    ELSE IF stage[t] = "executed" THEN "acted"
    ELSE "undecided"

Gate == INSTANCE RemediationGate WITH
    Permitted <- {r \in Requests : MayExecute(r)},
    gate <- [t \in Threads |-> GateOf(t)],
    asked <- [t \in Threads |-> IF GateOf(t) = "free" THEN NoRequest ELSE req[t]],
    acted <- executed

ImplementsGate == Gate!Spec

(* What the service says of its idempotency cache (main.py:79, README.md:  *)
(* 440): a caller that repeats a request cannot have it executed twice.    *)
(* Two threads that both executed a key would both be about to cache it.   *)
NoDoubleExecution ==
    \A t, u \in Threads :
        /\ stage[t] = "executed" /\ stage[u] = "executed"
        /\ Key(req[t]) = Key(req[u])
        => t = u
=============================================================================
