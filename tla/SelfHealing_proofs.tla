-------------------------- MODULE SelfHealing_proofs --------------------------
(***************************************************************************)
(* Proofs about the self-healing service for any number of threads,        *)
(* requests, attempts, time-to-live and breaker setting.                   *)
(***************************************************************************)
EXTENDS SelfHealing, TLAPS

BreakerProofs == INSTANCE CircuitBreaker_proofs

-----------------------------------------------------------------------------

(* A step of the service is a step of the breaker or leaves it alone.      *)
LEMMA BreakerStep == [Next]_vars => [Breaker!Next]_(Breaker!vars)
<1> SUFFICES ASSUME [Next]_vars
             PROVE  [Breaker!Next]_(Breaker!vars)
  OBVIOUS
<1> USE DEF Breaker!vars, breakerVars, vars
<1>1. ASSUME NEW t \in Threads, NEW r \in Requests, Receive(t, r)
      PROVE  UNCHANGED Breaker!vars
  BY <1>1 DEF Receive
<1>2. ASSUME NEW t \in Threads, Step(t)
      PROVE  Breaker!Step(t) \/ UNCHANGED Breaker!vars
  <2>1. CASE EnterBreaker(t)
    BY <2>1 DEF EnterBreaker, Breaker!Step
  <2>2. CASE Refused(t)
    BY <2>2 DEF Refused, Breaker!Step
  <2>3. CASE OpaAnswers(t)
    BY <2>3 DEF OpaAnswers, Breaker!Step
  <2>4. CASE OpaFails(t)
    BY <2>4 DEF OpaFails, Breaker!Step
  <2>5. CASE OpenBreaker(t)
    BY <2>5 DEF OpenBreaker, Breaker!Step
  <2>6. CASE ServeCached(t) \/ Miss(t) \/ Respond(t)
    BY <2>6 DEF ServeCached, Miss, Respond
  <2>7. CASE Retry(t) \/ GiveUp(t)
    BY <2>7 DEF Retry, GiveUp
  <2>8. CASE Deny(t) \/ DryRun(t) \/ Execute(t) \/ CacheResult(t)
    BY <2>8 DEF Deny, DryRun, Execute, CacheResult
  <2>9. QED
    BY <1>2, <2>1, <2>2, <2>3, <2>4, <2>5, <2>6, <2>7, <2>8 DEF Step
<1>3. CASE Tick
  BY <1>3 DEF Tick, Breaker!Next
<1>4. CASE Restart
  BY <1>4 DEF Restart, Breaker!Next
<1>5. CASE Quiet \/ UNCHANGED vars
  BY <1>5 DEF Quiet
<1>6. QED
  BY <1>1, <1>2, <1>3, <1>4, <1>5 DEF Next, Breaker!Next

(* The service uses its breaker only through the steps of call(), so what  *)
(* is proved of the breaker holds of it inside the service.                *)
LEMMA ServiceDrivesBreaker == Spec => Breaker!Spec
<1>1. Init => Breaker!Init
  BY DEF Init
<1>2. QED
  BY <1>1, BreakerStep, PTL DEF Spec, Breaker!Spec

(* The breaker of the service is the one the breaker's theorems are about. *)
LEMMA SameBreaker == Breaker!Spec => BreakerProofs!Spec
<1>1. Breaker!Init => BreakerProofs!Init
  BY DEF Breaker!Init, BreakerProofs!Init
<1>2. [Breaker!Next]_(Breaker!vars) => [BreakerProofs!Next]_(BreakerProofs!vars)
  BY DEF Breaker!Next, BreakerProofs!Next, Breaker!Step, BreakerProofs!Step,
         Breaker!ReadClosed, BreakerProofs!ReadClosed, Breaker!ReadOpened,
         BreakerProofs!ReadOpened, Breaker!AdmitTrial,
         BreakerProofs!AdmitTrial, Breaker!FastFail, BreakerProofs!FastFail,
         Breaker!StateRaises, BreakerProofs!StateRaises, Breaker!Succeed,
         BreakerProofs!Succeed, Breaker!Fail, BreakerProofs!Fail,
         Breaker!Open, BreakerProofs!Open, Breaker!Tick, BreakerProofs!Tick,
         Breaker!Restart, BreakerProofs!Restart, Breaker!Calling,
         BreakerProofs!Calling, Breaker!ResetElapsed,
         BreakerProofs!ResetElapsed, Breaker!ThresholdReached,
         BreakerProofs!ThresholdReached, Breaker!vars, BreakerProofs!vars
<1>3. QED
  BY <1>1, <1>2, PTL DEF Breaker!Spec, BreakerProofs!Spec

(* The breaker inside the service is well typed.                           *)
LEMMA BreakerTyped == Spec => []Breaker!TypeOK
<1>1. BreakerProofs!Spec => []BreakerProofs!TypeOK
  BY ServiceAssumption, BreakerProofs!TypeCorrect
     DEF ServiceAssumption, BreakerProofs!BreakerAssumption
<1>2. BreakerProofs!TypeOK => Breaker!TypeOK
  BY DEF BreakerProofs!TypeOK, Breaker!TypeOK, BreakerProofs!CallState, Breaker!CallState
<1>3. QED
  BY <1>1, <1>2, SameBreaker, ServiceDrivesBreaker, PTL

-----------------------------------------------------------------------------

LEMMA KeyTyped == \A r \in Requests : Key(r) \in Keys
  BY DEF Keys

LEMMA ErrorTyped == \A c \in {0, 400, 503} : Error(c) \in Reply
  BY DEF Error, Reply

LEMMA ResultTyped ==
    \A r \in Requests, a \in BOOLEAN, e \in BOOLEAN : Result(r, a, e) \in Reply
  BY DEF Result, Reply

(* A thread that is not idle handles a request.                            *)
HasRequest == \A t \in Threads : stage[t] # "idle" => req[t] \in Requests

(* The part of the state that belongs to the threads.                      *)
ThreadTypes ==
    /\ stage \in [Threads -> Stage]
    /\ req \in [Threads -> Requests \cup {NoRequest}]
    /\ attempt \in [Threads -> 0..Attempts]
    /\ transient \in [Threads -> BOOLEAN]
    /\ clock \in [Threads -> 0..now]
    /\ arrived \in [Threads -> 0..now]
    /\ reply \in [Threads -> Reply]

(* The part the threads share.                                             *)
SharedTypes ==
    /\ cache \subseteq CacheEntry
    /\ \A e, f \in cache : e.key = f.key => e = f
    /\ executed \subseteq Requests
    /\ completed \subseteq [key : Keys, done : 0..now, until : Nat]
    /\ received \in 0..MaxReceived

TypeInv == ThreadTypes /\ SharedTypes /\ HasRequest

(* The breaker's types are known of both states of a step.                 *)
LEMMA ClockStep ==
    ASSUME Breaker!TypeOK, Breaker!TypeOK', [Next]_vars
    PROVE  /\ now \in Nat /\ now' \in Nat
           /\ now <= now'
           /\ 0..now \subseteq 0..now'
<1>1. now \in Nat /\ now' \in Nat
  BY ServiceAssumption DEF ServiceAssumption, Breaker!TypeOK
<1>2. now' = now \/ now' = now + 1
  <2>1. ASSUME NEW t \in Threads, Breaker!Step(t)
        PROVE  now' = now
    BY <2>1 DEF Breaker!Step, Breaker!ReadClosed, Breaker!ReadOpened,
       Breaker!AdmitTrial, Breaker!FastFail, Breaker!StateRaises, Breaker!Succeed,
       Breaker!Fail, Breaker!Open
  <2>2. CASE Breaker!Tick
    BY <2>2 DEF Breaker!Tick
  <2>3. CASE Breaker!Restart
    BY <2>3 DEF Breaker!Restart
  <2>4. CASE UNCHANGED Breaker!vars
    BY <2>4 DEF Breaker!vars
  <2>5. QED
    BY <2>1, <2>2, <2>3, <2>4, BreakerStep DEF Breaker!Next
<1>3. QED
  BY <1>1, <1>2

LEMMA AnswerTyped ==
    ASSUME TypeInv, 0..now \subseteq 0..now', now' \in Nat,
           NEW t \in Threads, NEW a \in Reply,
           Answer(t, a)
    PROVE  /\ stage' \in [Threads -> Stage]
           /\ attempt' \in [Threads -> 0..Attempts]
           /\ transient' \in [Threads -> BOOLEAN]
           /\ clock' \in [Threads -> 0..now']
           /\ arrived' \in [Threads -> 0..now']
           /\ reply' \in [Threads -> Reply]
  BY ServiceAssumption
     DEF ServiceAssumption, TypeInv, ThreadTypes, Answer, Goto, Stage

(* A step keeps the state of the threads typed.                            *)
LEMMA ThreadStep ==
    ASSUME TypeInv, Breaker!TypeOK, Breaker!TypeOK', [Next]_vars
    PROVE  ThreadTypes' /\ HasRequest'
<1>1. 0..now \subseteq 0..now' /\ now' \in Nat /\ now \in 0..now'
  BY ClockStep
<1> USE ServiceAssumption DEF ServiceAssumption, TypeInv, ThreadTypes, HasRequest, Stage
<1>2. ASSUME NEW t \in Threads, NEW r \in Requests, Receive(t, r)
      PROVE  ThreadTypes' /\ HasRequest'
  <2>1. req' \in [Threads -> Requests \cup {NoRequest}]
    BY <1>2 DEF Receive
  <2>2. CASE Answer(t, Error(400))
    <3>1. Error(400) \in Reply
      BY ErrorTyped
    <3>2. HasRequest'
      BY <1>2, <2>2 DEF Receive, Answer, Goto
    <3>3. QED
      BY <1>1, <2>1, <2>2, <3>1, <3>2, AnswerTyped
  <2>3. CASE /\ Goto(t, "lookup")
             /\ clock' = [clock EXCEPT ![t] = now]
             /\ UNCHANGED <<attempt, transient, arrived, reply>>
    <3>1. HasRequest'
      BY <1>2, <2>3 DEF Receive, Goto
    <3>2. clock' \in [Threads -> 0..now'] /\ arrived' \in [Threads -> 0..now']
      BY <1>1, <2>3
    <3>3. QED
      BY <2>1, <2>3, <3>1, <3>2 DEF Goto
  <2>4. QED
    BY <1>2, <2>2, <2>3 DEF Receive
<1>3. ASSUME NEW t \in Threads, NEW a \in Reply, Answer(t, a), UNCHANGED req,
             stage[t] # "idle"
      PROVE  ThreadTypes' /\ HasRequest'
  <2>1. HasRequest'
    BY <1>3 DEF Answer, Goto
  <2>2. QED
    BY <1>1, <1>3, <2>1, AnswerTyped
<1>4. ASSUME NEW t \in Threads, ServeCached(t)
      PROVE  ThreadTypes' /\ HasRequest'
  <2>1. PICK e \in cache : Answer(t, e.result)
    BY <1>4 DEF ServeCached
  <2>2. e.result \in Reply
    BY DEF SharedTypes, CacheEntry
  <2>3. QED
    BY <1>3, <1>4, <2>1, <2>2 DEF ServeCached
<1>5. ASSUME NEW t \in Threads, Miss(t)
      PROVE  ThreadTypes' /\ HasRequest'
  <2>1. CASE Answer(t, Result(req[t], FALSE, FALSE))
    <3>1. Result(req[t], FALSE, FALSE) \in Reply
      BY <1>5, ResultTyped DEF Miss
    <3>2. QED
      BY <1>3, <1>5, <2>1, <3>1 DEF Miss
  <2>2. CASE /\ Goto(t, "query")
             /\ attempt' = [attempt EXCEPT ![t] = 1]
             /\ clock' = [clock EXCEPT ![t] = 0]
             /\ arrived' = [arrived EXCEPT ![t] = now]
             /\ UNCHANGED <<transient, reply>>
    <3>1. clock' \in [Threads -> 0..now'] /\ arrived' \in [Threads -> 0..now']
      BY <1>1, <2>2
    <3>2. HasRequest'
      BY <1>5, <2>2 DEF Miss, Goto
    <3>3. QED
      BY <1>5, <2>2, <3>1, <3>2 DEF Miss, Goto
  <2>3. QED
    BY <1>5, <2>1, <2>2 DEF Miss
<1>6. ASSUME NEW t \in Threads, Refused(t) \/ GiveUp(t)
      PROVE  ThreadTypes' /\ HasRequest'
  <2>1. Error(503) \in Reply
    BY ErrorTyped
  <2>2. QED
    BY <1>3, <1>6, <2>1 DEF Refused, GiveUp
<1>7. ASSUME NEW t \in Threads, OpaAnswers(t)
      PROVE  ThreadTypes' /\ HasRequest'
  <2>1. stage' \in [Threads -> Stage] /\ HasRequest'
    BY <1>7 DEF OpaAnswers, Goto
  <2>2. clock' \in [Threads -> 0..now'] /\ arrived' \in [Threads -> 0..now']
    BY <1>1, <1>7 DEF OpaAnswers
  <2>3. QED
    BY <1>7, <2>1, <2>2 DEF OpaAnswers
<1>8. ASSUME NEW t \in Threads, OpaFails(t)
      PROVE  ThreadTypes' /\ HasRequest'
  <2>1. stage' \in [Threads -> Stage] /\ HasRequest'
    BY <1>8 DEF OpaFails, Goto
  <2>2. clock' \in [Threads -> 0..now'] /\ arrived' \in [Threads -> 0..now']
    BY <1>1, <1>8 DEF OpaFails
  <2>3. transient' \in [Threads -> BOOLEAN]
    BY <1>8 DEF OpaFails
  <2>4. QED
    BY <1>8, <2>1, <2>2, <2>3 DEF OpaFails
<1>9. ASSUME UNCHANGED threadVars
      PROVE  ThreadTypes' /\ HasRequest'
  <2>1. clock' \in [Threads -> 0..now'] /\ arrived' \in [Threads -> 0..now']
    BY <1>1, <1>9 DEF threadVars
  <2>2. QED
    BY <1>9, <2>1 DEF threadVars
<1>10. ASSUME NEW t \in Threads, Retry(t)
       PROVE  ThreadTypes' /\ HasRequest'
  <2>1. attempt' \in [Threads -> 0..Attempts]
    BY <1>10 DEF Retry, Retries
  <2>2. clock' \in [Threads -> 0..now'] /\ arrived' \in [Threads -> 0..now']
    BY <1>1, <1>10 DEF Retry
  <2>3. transient' \in [Threads -> BOOLEAN]
    BY <1>10 DEF Retry
  <2>4. QED
    BY <1>10, <2>1, <2>2, <2>3 DEF Retry, Goto
<1>11. ASSUME NEW t \in Threads, Deny(t) \/ DryRun(t) \/ CacheResult(t)
       PROVE  ThreadTypes' /\ HasRequest'
  <2>1. \A a \in BOOLEAN, e \in BOOLEAN : Result(req[t], a, e) \in Reply
    BY <1>11, ResultTyped DEF Deny, DryRun, CacheResult
  <2>2. QED
    BY <1>3, <1>11, <2>1 DEF Deny, DryRun, CacheResult
<1>12. ASSUME NEW t \in Threads, Execute(t)
       PROVE  ThreadTypes' /\ HasRequest'
  <2>1. clock' \in [Threads -> 0..now'] /\ arrived' \in [Threads -> 0..now']
    BY <1>1, <1>12 DEF Execute
  <2>2. QED
    BY <1>12, <2>1 DEF Execute, Goto
<1>13. ASSUME NEW t \in Threads, Respond(t)
       PROVE  ThreadTypes' /\ HasRequest'
  <2>1. NoReply \in Reply
    BY ErrorTyped DEF NoReply
  <2>2. clock' \in [Threads -> 0..now'] /\ arrived' \in [Threads -> 0..now']
    BY <1>1, <1>13 DEF Respond
  <2>3. QED
    BY <1>13, <2>1, <2>2 DEF Respond, Goto
<1>14. CASE Restart
  <2>1. NoReply \in Reply
    BY ErrorTyped DEF NoReply
  <2>2. transient' \in [Threads -> BOOLEAN]
    BY <1>14 DEF Restart
  <2>3. clock' \in [Threads -> 0..now'] /\ arrived' \in [Threads -> 0..now']
    BY <1>1, <1>14 DEF Restart
  <2>4. QED
    BY <1>14, <2>1, <2>2, <2>3 DEF Restart
<1>15. ASSUME NEW t \in Threads, Step(t)
       PROVE  ThreadTypes' /\ HasRequest'
  BY <1>15, <1>4, <1>5, <1>6, <1>7, <1>8, <1>9, <1>10, <1>11, <1>12, <1>13
     DEF Step, EnterBreaker, OpenBreaker
<1>16. CASE Tick \/ Quiet \/ UNCHANGED vars
  BY <1>9, <1>16 DEF Tick, Quiet, vars
<1>17. QED
  BY <1>2, <1>14, <1>15, <1>16 DEF Next

(* A step keeps the state the threads share typed.                         *)
LEMMA SharedStep ==
    ASSUME TypeInv, Breaker!TypeOK, Breaker!TypeOK', [Next]_vars
    PROVE  SharedTypes'
<1>1. 0..now \subseteq 0..now' /\ now' \in Nat /\ now \in 0..now' /\ now \in Nat
  BY ClockStep
<1> USE ServiceAssumption DEF ServiceAssumption, TypeInv, SharedTypes
<1>2. completed \subseteq [key : Keys, done : 0..now', until : Nat]
  BY <1>1
<1>3. ASSUME UNCHANGED <<cache, executed, completed>>, received' = received
      PROVE  SharedTypes'
  BY <1>2, <1>3
<1>4. ASSUME NEW t \in Threads, NEW r \in Requests, Receive(t, r)
      PROVE  SharedTypes'
  BY <1>2, <1>4 DEF Receive
<1>5. ASSUME NEW t \in Threads, Miss(t)
      PROVE  SharedTypes'
  BY <1>2, <1>5 DEF Miss
<1>6. ASSUME NEW t \in Threads, Execute(t)
      PROVE  SharedTypes'
  <2>1. req[t] \in Requests
    BY <1>6 DEF Execute, HasRequest
  <2>2. QED
    BY <1>2, <1>6, <2>1 DEF Execute
<1>7. ASSUME NEW t \in Threads, CacheResult(t)
      PROVE  SharedTypes'
  <2>1. req[t] \in Requests
    BY <1>7 DEF CacheResult, HasRequest
  <2> DEFINE key == Key(req[t])
             new == [key |-> key, expires |-> clock[t] + TTL,
                     result |-> Result(req[t], TRUE, TRUE)]
  <2>2. key \in Keys
    BY <2>1, KeyTyped
  <2>3. new \in CacheEntry
    <3>1. Result(req[t], TRUE, TRUE) \in Reply
      BY <2>1, ResultTyped
    <3>2. clock[t] + TTL \in Nat
      BY <1>1 DEF ThreadTypes
    <3>3. QED
      BY <2>2, <3>1, <3>2 DEF CacheEntry
  <2>4. cache' \subseteq {e \in cache : e.key # key} \cup {new}
    BY <1>7 DEF CacheResult, Put
  <2>5. cache' \subseteq CacheEntry
    BY <2>3, <2>4
  <2>6. new.key = key
    OBVIOUS
  <2>7. \A e, f \in cache' : e.key = f.key => e = f
    <3> HIDE DEF new, key
    <3> QED
      BY <2>4, <2>6
  <2>8. [key |-> key, done |-> now, until |-> clock[t] + TTL]
            \in [key : Keys, done : 0..now', until : Nat]
    BY <1>1, <2>2 DEF ThreadTypes
  <2>9. completed' \subseteq [key : Keys, done : 0..now', until : Nat]
    <3>1. completed' = completed \cup
                {[key |-> key, done |-> now, until |-> clock[t] + TTL]}
      BY <1>7 DEF CacheResult
    <3>2. QED
      BY <1>2, <2>8, <3>1
  <2>10. QED
    BY <1>7, <2>5, <2>7, <2>9 DEF CacheResult
<1>8. CASE Restart
  BY <1>8 DEF Restart
<1>9. ASSUME NEW t \in Threads, Step(t)
      PROVE  SharedTypes'
  BY <1>9, <1>3, <1>5, <1>6, <1>7
     DEF Step, ServeCached, EnterBreaker, Refused, OpaAnswers, OpaFails, OpenBreaker,
         Retry, GiveUp, Deny, DryRun, Respond
<1>10. CASE Tick \/ Quiet \/ UNCHANGED vars
  BY <1>3, <1>10 DEF Tick, Quiet, vars
<1>11. QED
  BY <1>4, <1>8, <1>9, <1>10 DEF Next

LEMMA TypeInvCorrect == Spec => [](TypeInv /\ Breaker!TypeOK)
<1>1. Init => TypeInv
  <2> SUFFICES ASSUME Init PROVE TypeInv
    OBVIOUS
  <2>1. NoReply \in Reply
    BY ErrorTyped DEF NoReply
  <2>2. ThreadTypes
    <3>1. now \in Nat
      BY ServiceAssumption DEF ServiceAssumption, Init, Breaker!Init
    <3>2. QED
      BY ServiceAssumption, <2>1, <3>1 DEF ServiceAssumption, Init, ThreadTypes, Stage
  <2>3. SharedTypes
    BY ServiceAssumption DEF ServiceAssumption, Init, SharedTypes
  <2>4. HasRequest
    BY DEF Init, HasRequest
  <2>5. QED
    BY <2>2, <2>3, <2>4 DEF TypeInv
<1>2. TypeInv /\ Breaker!TypeOK /\ Breaker!TypeOK' /\ [Next]_vars => TypeInv'
  BY ThreadStep, SharedStep DEF TypeInv
<1>3. QED
  BY <1>1, <1>2, BreakerTyped, PTL DEF Spec

(* Type correctness, and that the cache stays a map, for every number of   *)
(* threads and requests and whatever the breaker and OPA do.               *)
THEOREM TypeCorrect == Spec => []TypeOK
<1>1. TypeInv /\ Breaker!TypeOK => TypeOK
  BY DEF TypeInv, ThreadTypes, SharedTypes, TypeOK
<1>2. QED
  BY <1>1, TypeInvCorrect, PTL

-----------------------------------------------------------------------------

(* What a thread has established when it has come to a stage: the request  *)
(* passed the tests of the handler that lie before it.                     *)
Passed(t) ==
    /\ stage[t] \notin {"idle", "replying"} => req[t].action \in ALLOWED_ACTIONS
    /\ InFlight(t) => req[t].namespace \notin HARDCODED_PROTECTED_NAMESPACES
    /\ stage[t] \in {"allowed", "executed"} => Allow(req[t])
    /\ stage[t] = "executed" => req[t] \in executed

AllPassed == \A t \in Threads : Passed(t)

(* A thread that leaves for "replying", or that does not move, has nothing *)
(* more to show.                                                           *)
LEMMA PassedFrame ==
    ASSUME AllPassed, ThreadTypes, NEW t \in Threads,
           \A u \in Threads \ {t} : stage'[u] = stage[u] /\ req'[u] = req[u],
           executed \subseteq executed', Passed(t)'
    PROVE  AllPassed'
<1> SUFFICES ASSUME NEW u \in Threads, u # t
             PROVE  Passed(u)'
  BY DEF AllPassed
<1>1. Passed(u)
  BY DEF AllPassed
<1>2. stage'[u] = stage[u] /\ req'[u] = req[u]
  OBVIOUS
<1>3. QED
  BY <1>1, <1>2 DEF Passed, InFlight

LEMMA AnswerPassed ==
    ASSUME AllPassed, ThreadTypes, NEW t \in Threads, NEW a, Answer(t, a),
           \A u \in Threads \ {t} : req'[u] = req[u],
           executed \subseteq executed'
    PROVE  AllPassed'
<1>1. stage'[t] = "replying"
  BY DEF Answer, Goto, ThreadTypes
<1>2. Passed(t)'
  BY <1>1 DEF Passed, InFlight
<1>3. \A u \in Threads \ {t} : stage'[u] = stage[u]
  BY DEF Answer, Goto, ThreadTypes
<1>4. QED
  BY <1>2, <1>3, PassedFrame

LEMMA GotoMoves ==
    ASSUME ThreadTypes, NEW t \in Threads, NEW s, Goto(t, s)
    PROVE  /\ stage'[t] = s
           /\ \A u \in Threads \ {t} : stage'[u] = stage[u]
  BY DEF Goto, ThreadTypes

LEMMA PassedStep ==
    ASSUME TypeInv, AllPassed, [Next]_vars
    PROVE  AllPassed'
<1> USE DEF TypeInv
<1>1. ASSUME NEW t \in Threads, NEW r \in Requests, Receive(t, r)
      PROVE  AllPassed'
  <2>1. req'[t] = r /\ \A u \in Threads \ {t} : req'[u] = req[u]
    BY <1>1 DEF Receive, ThreadTypes
  <2>2. executed' = executed
    BY <1>1 DEF Receive
  <2>3. CASE r.action \in ALLOWED_ACTIONS
    <3>1. Goto(t, "lookup")
      BY <1>1, <2>3 DEF Receive
    <3>2. Passed(t)'
      BY <2>1, <2>3, <3>1, GotoMoves DEF Passed, InFlight
    <3>3. QED
      BY <2>1, <2>2, <3>1, <3>2, GotoMoves, PassedFrame
  <2>4. CASE r.action \notin ALLOWED_ACTIONS
    <3>1. Answer(t, Error(400))
      BY <1>1, <2>4 DEF Receive
    <3>2. QED
      BY <2>1, <2>2, <3>1, AnswerPassed
  <2>5. QED
    BY <2>3, <2>4
<1>2. ASSUME NEW t \in Threads, ServeCached(t) \/ Refused(t) \/ GiveUp(t)
      PROVE  AllPassed'
  <2>1. PICK a : Answer(t, a)
    BY <1>2 DEF ServeCached, Refused, GiveUp
  <2>2. req' = req /\ executed' = executed
    BY <1>2 DEF ServeCached, Refused, GiveUp
  <2>3. QED
    BY <2>1, <2>2, AnswerPassed
<1>3. ASSUME NEW t \in Threads, Deny(t) \/ DryRun(t) \/ CacheResult(t)
      PROVE  AllPassed'
  <2>1. PICK a : Answer(t, a)
    BY <1>3 DEF Deny, DryRun, CacheResult
  <2>2. req' = req /\ executed' = executed
    BY <1>3 DEF Deny, DryRun, CacheResult
  <2>3. QED
    BY <2>1, <2>2, AnswerPassed
<1>4. ASSUME NEW t \in Threads, Miss(t)
      PROVE  AllPassed'
  <2>1. req' = req /\ executed' = executed /\ stage[t] = "lookup" /\ Passed(t)
    BY <1>4 DEF Miss, AllPassed
  <2>2. CASE req[t].namespace \in HARDCODED_PROTECTED_NAMESPACES
    <3>1. Answer(t, Result(req[t], FALSE, FALSE))
      BY <1>4, <2>2 DEF Miss
    <3>2. QED
      BY <2>1, <3>1, AnswerPassed
  <2>3. CASE req[t].namespace \notin HARDCODED_PROTECTED_NAMESPACES
    <3>1. Goto(t, "query")
      BY <1>4, <2>3 DEF Miss
    <3>2. Passed(t)'
      BY <2>1, <2>3, <3>1, GotoMoves DEF Passed
    <3>3. QED
      BY <2>1, <3>1, <3>2, GotoMoves, PassedFrame
  <2>4. QED
    BY <2>2, <2>3
<1>5. ASSUME NEW t \in Threads, EnterBreaker(t) \/ OpenBreaker(t)
      PROVE  AllPassed'
  BY <1>5 DEF EnterBreaker, OpenBreaker, threadVars, AllPassed, Passed, InFlight
<1>6. ASSUME NEW t \in Threads, OpaAnswers(t)
      PROVE  AllPassed'
  <2>1. req' = req /\ executed' = executed /\ stage[t] = "query" /\ Passed(t)
    BY <1>6 DEF OpaAnswers, AllPassed
  <2>2. PICK loaded \in BOOLEAN :
          Goto(t, IF loaded /\ Allow(req[t]) THEN "allowed" ELSE "denied")
    BY <1>6 DEF OpaAnswers
  <2>3. CASE loaded /\ Allow(req[t])
    <3>1. Goto(t, "allowed")
      BY <2>2, <2>3
    <3>2. stage'[t] = "allowed" /\ \A u \in Threads \ {t} : stage'[u] = stage[u]
      BY <3>1, GotoMoves
    <3>3. Allow(req[t])'
      BY <2>1, <2>3 DEF Allow, DenyReasons, DenyRule, ActionRule, NotCritical
    <3>4. Passed(t)'
      BY <2>1, <3>2, <3>3 DEF Passed, InFlight
    <3>5. QED
      BY <2>1, <3>2, <3>4, PassedFrame
  <2>4. CASE ~(loaded /\ Allow(req[t]))
    <3>1. Goto(t, "denied")
      BY <2>2, <2>4
    <3>2. stage'[t] = "denied" /\ \A u \in Threads \ {t} : stage'[u] = stage[u]
      BY <3>1, GotoMoves
    <3>3. Passed(t)'
      BY <2>1, <3>2 DEF Passed, InFlight
    <3>4. QED
      BY <2>1, <3>2, <3>3, PassedFrame
  <2>5. QED
    BY <2>3, <2>4
<1>7. ASSUME NEW t \in Threads, OpaFails(t) \/ Retry(t)
      PROVE  AllPassed'
  <2>1. req' = req /\ executed' = executed /\ Passed(t) /\ InFlight(t)
    BY <1>7 DEF OpaFails, Retry, AllPassed, InFlight
  <2>2. PICK s \in {"query", "failed"} : Goto(t, s)
    BY <1>7 DEF OpaFails, Retry
  <2>3. Passed(t)'
    BY <2>1, <2>2, GotoMoves DEF Passed, InFlight
  <2>4. QED
    BY <2>1, <2>2, <2>3, GotoMoves, PassedFrame
<1>8. ASSUME NEW t \in Threads, Execute(t)
      PROVE  AllPassed'
  <2>1. /\ req' = req /\ executed' = executed \cup {req[t]}
        /\ stage[t] = "allowed" /\ Passed(t) /\ Goto(t, "executed")
    BY <1>8 DEF Execute, AllPassed
  <2>2. Allow(req[t])'
    BY <2>1 DEF Passed, Allow, DenyReasons, DenyRule, ActionRule, NotCritical
  <2>3. Passed(t)'
    BY <2>1, <2>2, GotoMoves DEF Passed, InFlight
  <2>4. QED
    BY <2>1, <2>3, GotoMoves, PassedFrame
<1>9. ASSUME NEW t \in Threads, Respond(t)
      PROVE  AllPassed'
  <2>1. /\ executed' = executed /\ Goto(t, "idle")
        /\ \A u \in Threads \ {t} : req'[u] = req[u]
    BY <1>9 DEF Respond, ThreadTypes
  <2>2. Passed(t)'
    BY <2>1, GotoMoves DEF Passed, InFlight
  <2>3. QED
    BY <2>1, <2>2, GotoMoves, PassedFrame
<1>10. CASE Restart
  BY <1>10 DEF Restart, AllPassed, Passed, InFlight
<1>11. CASE Tick \/ Quiet \/ UNCHANGED vars
  BY <1>11 DEF Tick, Quiet, vars, threadVars, AllPassed, Passed, InFlight
<1>12. ASSUME NEW t \in Threads, Step(t)
       PROVE  AllPassed'
  BY <1>12, <1>2, <1>3, <1>4, <1>5, <1>6, <1>7, <1>8, <1>9 DEF Step
<1>13. QED
  BY <1>1, <1>10, <1>11, <1>12 DEF Next

LEMMA AllPassedCorrect == Spec => []AllPassed
<1>1. Init => AllPassed
  BY DEF Init, AllPassed, Passed, InFlight
<1>2. QED
  BY <1>1, PassedStep, TypeInvCorrect, PTL DEF Spec

(* Fail-closed, for every number of threads, requests and attempts: what   *)
(* has been carried out passed the three layers of checks and was sent     *)
(* live.                                                                   *)
THEOREM FailClosed == Spec => []ExecutedOnlyWhenAllowed
<1>1. Init => ExecutedOnlyWhenAllowed
  BY DEF Init, ExecutedOnlyWhenAllowed
<1>2. ASSUME AllPassed, ExecutedOnlyWhenAllowed, [Next]_vars
      PROVE  ExecutedOnlyWhenAllowed'
  <2>1. CASE executed' = executed
    BY <1>2, <2>1 DEF ExecutedOnlyWhenAllowed
  <2>2. ASSUME NEW t \in Threads, Execute(t)
        PROVE  ExecutedOnlyWhenAllowed'
    <3>1. MayExecute(req[t]) /\ ~req[t].dry_run
      BY <1>2, <2>2 DEF Execute, AllPassed, Passed, InFlight, MayExecute
    <3>2. executed' = executed \cup {req[t]}
      BY <2>2 DEF Execute
    <3>3. QED
      BY <1>2, <3>1, <3>2 DEF ExecutedOnlyWhenAllowed
  <2>3. ASSUME NEW t \in Threads, Step(t), ~Execute(t)
        PROVE  executed' = executed
    BY <2>3 DEF Step, ServeCached, Miss, EnterBreaker, Refused, OpaAnswers, OpaFails,
       OpenBreaker, Retry, GiveUp, Deny, DryRun, CacheResult, Respond
  <2>4. QED
    BY <1>2, <2>1, <2>2, <2>3 DEF Next, Receive, Tick, Restart, Quiet, vars
<1>3. QED
  BY <1>1, <1>2, AllPassedCorrect, PTL DEF Spec

-----------------------------------------------------------------------------

(* A result that says "executed" is the report of an execution of its key. *)
TrueReport(key, result) ==
    result.executed => result.of \in executed /\ Key(result.of) = key

CacheIsTrue == \A e \in cache : TrueReport(e.key, e.result)

ReplyIsTrue(t) ==
    /\ reply[t].executed => stage[t] = "replying"
    /\ TrueReport(Key(req[t]), reply[t])

RepliesAreTrue == \A t \in Threads : ReplyIsTrue(t)

LEMMA CacheFrame ==
    ASSUME CacheIsTrue, executed \subseteq executed', cache' \subseteq cache
    PROVE  CacheIsTrue'
  BY DEF CacheIsTrue, TrueReport, Key

LEMMA ReplyFrame ==
    ASSUME RepliesAreTrue, executed \subseteq executed', NEW t \in Threads,
           \A u \in Threads \ {t} :
              stage'[u] = stage[u] /\ req'[u] = req[u] /\ reply'[u] = reply[u],
           ReplyIsTrue(t)'
    PROVE  RepliesAreTrue'
<1> SUFFICES ASSUME NEW u \in Threads, u # t
             PROVE  ReplyIsTrue(u)'
  BY DEF RepliesAreTrue
<1>1. ReplyIsTrue(u)
  BY DEF RepliesAreTrue
<1>2. stage'[u] = stage[u] /\ req'[u] = req[u] /\ reply'[u] = reply[u]
  OBVIOUS
<1>3. QED
  BY <1>1, <1>2 DEF ReplyIsTrue, TrueReport, Key

LEMMA AnswerTrue ==
    ASSUME ThreadTypes, RepliesAreTrue, executed \subseteq executed',
           NEW t \in Threads, NEW a, Answer(t, a),
           \A u \in Threads \ {t} : req'[u] = req[u],
           a.executed => req' = req /\ TrueReport(Key(req[t]), a)
    PROVE  RepliesAreTrue'
<1>1. reply'[t] = a /\ \A u \in Threads \ {t} : reply'[u] = reply[u]
  BY DEF Answer, ThreadTypes
<1>2. stage'[t] = "replying" /\ \A u \in Threads \ {t} : stage'[u] = stage[u]
  BY GotoMoves DEF Answer
<1>3. ReplyIsTrue(t)'
  BY <1>1, <1>2 DEF ReplyIsTrue, TrueReport, Key
<1>4. QED
  BY <1>1, <1>2, <1>3, ReplyFrame

(* A thread that moves on without an answer.                               *)
LEMMA NoAnswerTrue ==
    ASSUME ThreadTypes, RepliesAreTrue, executed \subseteq executed',
           NEW t \in Threads, stage[t] # "replying", NEW s, Goto(t, s),
           \A u \in Threads \ {t} : req'[u] = req[u], reply' = reply
    PROVE  RepliesAreTrue'
<1>1. ~reply[t].executed
  BY DEF RepliesAreTrue, ReplyIsTrue
<1>2. ReplyIsTrue(t)'
  BY <1>1 DEF ReplyIsTrue, TrueReport
<1>3. QED
  BY <1>2, GotoMoves, ReplyFrame

LEMMA TrueStep ==
    ASSUME TypeInv, AllPassed, CacheIsTrue, RepliesAreTrue, [Next]_vars
    PROVE  CacheIsTrue' /\ RepliesAreTrue'
<1> USE DEF TypeInv
<1>1. ASSUME NEW t \in Threads, NEW r \in Requests, Receive(t, r)
      PROVE  CacheIsTrue' /\ RepliesAreTrue'
  <2>1. /\ cache' = cache /\ executed' = executed /\ stage[t] = "idle"
        /\ \A u \in Threads \ {t} : req'[u] = req[u]
    BY <1>1 DEF Receive, ThreadTypes
  <2>2. CASE Answer(t, Error(400))
    <3>1. ~Error(400).executed
      BY DEF Error
    <3>2. QED
      BY <2>1, <2>2, <3>1, AnswerTrue, CacheFrame
  <2>3. CASE Goto(t, "lookup") /\ reply' = reply
    BY <2>1, <2>3, NoAnswerTrue, CacheFrame
  <2>4. QED
    BY <1>1, <2>2, <2>3 DEF Receive
<1>2. ASSUME NEW t \in Threads, ServeCached(t)
      PROVE  CacheIsTrue' /\ RepliesAreTrue'
  <2>1. PICK e \in cache : Hit(t, e) /\ Answer(t, e.result)
    BY <1>2 DEF ServeCached
  <2>2. TrueReport(Key(req[t]), e.result)
    BY <2>1 DEF CacheIsTrue, Hit
  <2>3. req' = req /\ cache' = cache /\ executed' = executed
    BY <1>2 DEF ServeCached
  <2>4. QED
    BY <2>1, <2>2, <2>3, AnswerTrue, CacheFrame
<1>3. ASSUME NEW t \in Threads, Miss(t)
      PROVE  CacheIsTrue' /\ RepliesAreTrue'
  <2>1. /\ cache' \subseteq cache /\ executed' = executed /\ stage[t] = "lookup"
        /\ req' = req
    BY <1>3 DEF Miss
  <2>2. CASE Answer(t, Result(req[t], FALSE, FALSE))
    <3>1. ~Result(req[t], FALSE, FALSE).executed
      BY DEF Result
    <3>2. QED
      BY <2>1, <2>2, <3>1, AnswerTrue, CacheFrame
  <2>3. CASE Goto(t, "query") /\ reply' = reply
    BY <2>1, <2>3, NoAnswerTrue, CacheFrame
  <2>4. QED
    BY <1>3, <2>2, <2>3 DEF Miss
<1>4. ASSUME NEW t \in Threads, EnterBreaker(t) \/ OpenBreaker(t)
      PROVE  CacheIsTrue' /\ RepliesAreTrue'
  BY <1>4 DEF EnterBreaker, OpenBreaker, threadVars, CacheIsTrue, RepliesAreTrue,
     ReplyIsTrue, TrueReport, Key
<1>5. ASSUME NEW t \in Threads, Refused(t) \/ GiveUp(t)
      PROVE  CacheIsTrue' /\ RepliesAreTrue'
  <2>1. req' = req /\ cache' = cache /\ executed' = executed /\ Answer(t, Error(503))
    BY <1>5 DEF Refused, GiveUp
  <2>2. ~Error(503).executed
    BY DEF Error
  <2>3. QED
    BY <2>1, <2>2, AnswerTrue, CacheFrame
<1>6. ASSUME NEW t \in Threads, OpaAnswers(t) \/ OpaFails(t) \/ Retry(t) \/ Execute(t)
      PROVE  CacheIsTrue' /\ RepliesAreTrue'
  <2>1. /\ req' = req /\ cache' = cache /\ executed \subseteq executed'
        /\ reply' = reply /\ stage[t] # "replying"
    BY <1>6 DEF OpaAnswers, OpaFails, Retry, Execute
  <2>2. PICK s : Goto(t, s)
    BY <1>6 DEF OpaAnswers, OpaFails, Retry, Execute
  <2>3. QED
    BY <2>1, <2>2, NoAnswerTrue, CacheFrame
<1>7. ASSUME NEW t \in Threads, Deny(t) \/ DryRun(t)
      PROVE  CacheIsTrue' /\ RepliesAreTrue'
  <2>1. req' = req /\ cache' = cache /\ executed' = executed
    BY <1>7 DEF Deny, DryRun
  <2>2. PICK a \in BOOLEAN : Answer(t, Result(req[t], a, FALSE))
    BY <1>7 DEF Deny, DryRun
  <2>3. ~Result(req[t], a, FALSE).executed
    BY DEF Result
  <2>4. QED
    BY <2>1, <2>2, <2>3, AnswerTrue, CacheFrame
<1>8. ASSUME NEW t \in Threads, CacheResult(t)
      PROVE  CacheIsTrue' /\ RepliesAreTrue'
  <2> DEFINE new == [key |-> Key(req[t]), expires |-> clock[t] + TTL,
                     result |-> Result(req[t], TRUE, TRUE)]
  <2>1. req' = req /\ executed' = executed /\ Answer(t, Result(req[t], TRUE, TRUE))
    BY <1>8 DEF CacheResult
  <2>2. TrueReport(Key(req[t]), Result(req[t], TRUE, TRUE))
    BY <1>8 DEF CacheResult, AllPassed, Passed, TrueReport, Result
  <2>3. cache' \subseteq cache \cup {new}
    BY <1>8 DEF CacheResult, Put
  <2>4. TrueReport(new.key, new.result)
    BY <2>2
  <2>5. CacheIsTrue'
    <3> HIDE DEF new
    <3> QED
      BY <2>1, <2>3, <2>4 DEF CacheIsTrue, TrueReport, Key
  <2>6. QED
    BY <2>1, <2>2, <2>5, AnswerTrue
<1>9. ASSUME NEW t \in Threads, Respond(t)
      PROVE  CacheIsTrue' /\ RepliesAreTrue'
  <2>1. /\ cache' = cache /\ executed' = executed /\ Goto(t, "idle")
        /\ reply'[t] = NoReply
        /\ \A u \in Threads \ {t} : req'[u] = req[u] /\ reply'[u] = reply[u]
    BY <1>9 DEF Respond, ThreadTypes
  <2>2. ReplyIsTrue(t)'
    BY <2>1 DEF ReplyIsTrue, TrueReport, NoReply, Error
  <2>3. QED
    BY <2>1, <2>2, GotoMoves, ReplyFrame, CacheFrame
<1>10. CASE Restart
  BY <1>10 DEF Restart, CacheIsTrue, RepliesAreTrue, ReplyIsTrue, TrueReport, NoReply, Error
<1>11. CASE Tick \/ Quiet \/ UNCHANGED vars
  BY <1>11 DEF Tick, Quiet, vars, threadVars, CacheIsTrue, RepliesAreTrue, ReplyIsTrue,
     TrueReport, Key
<1>12. ASSUME NEW t \in Threads, Step(t)
       PROVE  CacheIsTrue' /\ RepliesAreTrue'
  BY <1>12, <1>2, <1>3, <1>4, <1>5, <1>6, <1>7, <1>8, <1>9 DEF Step
<1>13. QED
  BY <1>1, <1>10, <1>11, <1>12 DEF Next

(* A caller that is told "executed" was told of a real execution of its    *)
(* key, whether the answer was computed or came from the cache.            *)
THEOREM RepliesTrue == Spec => []ExecutedRepliesAreTrue
<1>1. Init => CacheIsTrue /\ RepliesAreTrue
  BY DEF Init, CacheIsTrue, RepliesAreTrue, ReplyIsTrue, TrueReport, NoReply, Error
<1>2. RepliesAreTrue => ExecutedRepliesAreTrue
  BY DEF RepliesAreTrue, ReplyIsTrue, TrueReport, ExecutedRepliesAreTrue
<1>3. QED
  BY <1>1, <1>2, TrueStep, TypeInvCorrect, AllPassedCorrect, PTL DEF Spec

-----------------------------------------------------------------------------

(* The first state of the service is one of the gate, and each of its      *)
(* steps is a step of the gate or none.                                    *)
LEMMA GateInit == Init => Gate!Init
  BY DEF Init, Gate!Init, GateOf

GateHolds(t) ==
    /\ GateOf(t)' = GateOf(t)
    /\ GateOf(t) # "free" => req'[t] = req[t]

LEMMA GateStutters ==
    ASSUME \A t \in Threads : GateHolds(t), executed' = executed
    PROVE  UNCHANGED Gate!vars
  BY DEF GateHolds, Gate!vars

LEMMA GateReleases ==
    ASSUME NEW t \in Threads, GateOf(t)' = "free", executed' = executed,
           \A u \in Threads \ {t} : GateHolds(u)
    PROVE  Gate!Release
<1>1. {t} \in SUBSET Threads
  OBVIOUS
<1>2. \A u \in Threads : GateOf(u)' = IF u \in {t} THEN "free" ELSE GateOf(u)
  BY DEF GateHolds
<1>3. \A u \in Threads :
        (IF GateOf(u)' = "free" THEN NoRequest ELSE req'[u])
          = IF u \in {t} THEN NoRequest
                         ELSE IF GateOf(u) = "free" THEN NoRequest ELSE req[u]
  BY DEF GateHolds
<1>4. QED
  BY <1>1, <1>2, <1>3 DEF Gate!Release

LEMMA AnswerReleases ==
    ASSUME ThreadTypes, NEW t \in Threads, NEW a, Answer(t, a), executed' = executed,
           \A u \in Threads \ {t} : req'[u] = req[u]
    PROVE  Gate!Release
<1>1. stage'[t] = "replying" /\ \A u \in Threads \ {t} : stage'[u] = stage[u]
  BY GotoMoves DEF Answer
<1>2. GateOf(t)' = "free"
  BY <1>1 DEF GateOf
<1>3. \A u \in Threads \ {t} : GateHolds(u)
  BY <1>1 DEF GateHolds, GateOf
<1>4. QED
  BY <1>2, <1>3, GateReleases

(* A move between two stages the gate does not tell apart.                 *)
LEMMA MoveStutters ==
    ASSUME ThreadTypes, NEW t \in Threads, NEW s, Goto(t, s), req' = req,
           executed' = executed, stage[t] \notin {"idle", "replying"},
           s \notin {"idle", "replying", "allowed", "executed"},
           stage[t] \notin {"allowed", "executed"}
    PROVE  UNCHANGED Gate!vars
<1>1. stage'[t] = s /\ \A u \in Threads \ {t} : stage'[u] = stage[u]
  BY GotoMoves
<1>2. \A u \in Threads : GateHolds(u)
  BY <1>1 DEF GateHolds, GateOf
<1>3. QED
  BY <1>2, GateStutters

LEMMA GateStep ==
    ASSUME TypeInv, AllPassed, [Next]_vars
    PROVE  [Gate!Next]_(Gate!vars)
<1> USE DEF TypeInv
<1>1. ASSUME NEW t \in Threads, NEW r \in Requests, Receive(t, r)
      PROVE  [Gate!Next]_(Gate!vars)
  <2>1. /\ executed' = executed /\ stage[t] = "idle" /\ req'[t] = r
        /\ \A u \in Threads \ {t} : req'[u] = req[u]
    BY <1>1 DEF Receive, ThreadTypes
  <2>2. CASE Answer(t, Error(400))
    BY <2>1, <2>2, AnswerReleases DEF Gate!Next
  <2>3. CASE Goto(t, "lookup")
    <3>1. stage'[t] = "lookup" /\ \A u \in Threads \ {t} : stage'[u] = stage[u]
      BY <2>3, GotoMoves
    <3>2. \A u \in Threads : GateOf(u)' = IF u = t THEN "undecided" ELSE GateOf(u)
      BY <3>1 DEF GateOf
    <3>3. GateOf(t) = "free"
      BY <2>1 DEF GateOf
    <3>4. Gate!Ask(t, r)
      BY <2>1, <3>2, <3>3 DEF Gate!Ask
    <3>5. QED
      BY <3>4 DEF Gate!Next
  <2>4. QED
    BY <1>1, <2>2, <2>3 DEF Receive
<1>2. ASSUME NEW t \in Threads, ServeCached(t) \/ Refused(t) \/ GiveUp(t)
      PROVE  Gate!Next
  <2>1. PICK a : Answer(t, a)
    BY <1>2 DEF ServeCached, Refused, GiveUp
  <2>2. req' = req /\ executed' = executed
    BY <1>2 DEF ServeCached, Refused, GiveUp
  <2>3. QED
    BY <2>1, <2>2, AnswerReleases DEF Gate!Next
<1>3. ASSUME NEW t \in Threads, Deny(t) \/ DryRun(t) \/ CacheResult(t)
      PROVE  Gate!Next
  <2>1. PICK a : Answer(t, a)
    BY <1>3 DEF Deny, DryRun, CacheResult
  <2>2. req' = req /\ executed' = executed
    BY <1>3 DEF Deny, DryRun, CacheResult
  <2>3. QED
    BY <2>1, <2>2, AnswerReleases DEF Gate!Next
<1>4. ASSUME NEW t \in Threads, Miss(t)
      PROVE  [Gate!Next]_(Gate!vars)
  <2>1. req' = req /\ executed' = executed /\ stage[t] = "lookup"
    BY <1>4 DEF Miss
  <2>2. CASE Answer(t, Result(req[t], FALSE, FALSE))
    BY <2>1, <2>2, AnswerReleases DEF Gate!Next
  <2>3. CASE Goto(t, "query")
    BY <2>1, <2>3, MoveStutters
  <2>4. QED
    BY <1>4, <2>2, <2>3 DEF Miss
<1>5. ASSUME NEW t \in Threads, EnterBreaker(t) \/ OpenBreaker(t)
      PROVE  UNCHANGED Gate!vars
  <2>1. \A u \in Threads : GateHolds(u)
    BY <1>5 DEF EnterBreaker, OpenBreaker, threadVars, GateHolds, GateOf
  <2>2. QED
    BY <1>5, <2>1, GateStutters DEF EnterBreaker, OpenBreaker
<1>6. ASSUME NEW t \in Threads, OpaFails(t) \/ Retry(t)
      PROVE  UNCHANGED Gate!vars
  <2>1. req' = req /\ executed' = executed /\ stage[t] \in {"query", "failed"}
    BY <1>6 DEF OpaFails, Retry
  <2>2. PICK s \in {"query", "failed"} : Goto(t, s)
    BY <1>6 DEF OpaFails, Retry
  <2>3. QED
    BY <2>1, <2>2, MoveStutters
<1>7. ASSUME NEW t \in Threads, OpaAnswers(t)
      PROVE  [Gate!Next]_(Gate!vars)
  <2>1. req' = req /\ executed' = executed /\ stage[t] = "query" /\ Passed(t)
    BY <1>7 DEF OpaAnswers, AllPassed
  <2>2. CASE Goto(t, "denied")
    BY <2>1, <2>2, MoveStutters
  <2>3. CASE Goto(t, "allowed") /\ Allow(req[t])
    <3>1. stage'[t] = "allowed" /\ \A u \in Threads \ {t} : stage'[u] = stage[u]
      BY <2>3, GotoMoves
    <3>2. \A u \in Threads : GateOf(u)' = IF u = t THEN "permitted" ELSE GateOf(u)
      BY <3>1 DEF GateOf
    <3>3. GateOf(t) = "undecided"
      BY <2>1 DEF GateOf
    <3>4. req[t] \in {r \in Requests : MayExecute(r)}
      BY <2>1, <2>3 DEF HasRequest, MayExecute, Passed, InFlight
    <3>5. Gate!Permit(t)
      BY <2>1, <3>2, <3>3, <3>4 DEF Gate!Permit
    <3>6. QED
      BY <3>5 DEF Gate!Next
  <2>4. QED
    BY <1>7, <2>2, <2>3 DEF OpaAnswers
<1>8. ASSUME NEW t \in Threads, Execute(t)
      PROVE  Gate!Next
  <2>1. /\ req' = req /\ executed' = executed \cup {req[t]}
        /\ stage[t] = "allowed" /\ ~req[t].dry_run /\ Goto(t, "executed")
    BY <1>8 DEF Execute
  <2>2. stage'[t] = "executed" /\ \A u \in Threads \ {t} : stage'[u] = stage[u]
    BY <2>1, GotoMoves
  <2>3. \A u \in Threads : GateOf(u)' = IF u = t THEN "acted" ELSE GateOf(u)
    BY <2>2 DEF GateOf
  <2>4. GateOf(t) = "permitted"
    BY <2>1 DEF GateOf
  <2>5. Gate!Act(t)
    BY <2>1, <2>3, <2>4 DEF Gate!Act
  <2>6. QED
    BY <2>5 DEF Gate!Next
<1>9. ASSUME NEW t \in Threads, Respond(t)
      PROVE  Gate!Next
  <2>1. /\ executed' = executed /\ Goto(t, "idle")
        /\ \A u \in Threads \ {t} : req'[u] = req[u]
    BY <1>9 DEF Respond, ThreadTypes
  <2>2. GateOf(t)' = "free" /\ \A u \in Threads \ {t} : GateHolds(u)
    BY <2>1, GotoMoves DEF GateOf, GateHolds
  <2>3. QED
    BY <2>1, <2>2, GateReleases DEF Gate!Next
<1>10. CASE Restart
  <2>1. \A t \in Threads : GateOf(t)' = "free"
    BY <1>10 DEF Restart, GateOf
  <2>2. executed' = executed
    BY <1>10 DEF Restart
  <2>3. Threads \in SUBSET Threads
    OBVIOUS
  <2>4. Gate!Release
    BY <2>1, <2>2, <2>3 DEF Gate!Release
  <2>5. QED
    BY <2>4 DEF Gate!Next
<1>11. CASE Tick \/ Quiet \/ UNCHANGED vars
  <2>1. \A u \in Threads : GateHolds(u)
    BY <1>11 DEF Tick, Quiet, vars, threadVars, GateHolds, GateOf
  <2>2. QED
    BY <1>11, <2>1, GateStutters DEF Tick, Quiet, vars
<1>12. ASSUME NEW t \in Threads, Step(t)
       PROVE  [Gate!Next]_(Gate!vars)
  BY <1>12, <1>2, <1>3, <1>4, <1>5, <1>6, <1>7, <1>8, <1>9 DEF Step
<1>13. QED
  BY <1>1, <1>10, <1>11, <1>12 DEF Next

(* The handler, with its cache, retries, breaker and restarts, implements  *)
(* the gate that acts on permitted live requests only.                     *)
THEOREM GateImplemented == Spec => ImplementsGate
<1>1. QED
  BY GateInit, GateStep, TypeInvCorrect, AllPassedCorrect, PTL
     DEF Spec, ImplementsGate, Gate!Spec

-----------------------------------------------------------------------------

(* Of an execution that was cached, or of one of its key that was cached   *)
(* after it, the cache holds the entry until its time to live has passed.  *)
KnownBy(c, d) ==
    /\ d.key = c.key /\ d.done >= c.done
    /\ d.until <= now \/ \E e \in cache : e.key = d.key /\ e.expires = d.until

Remembered(c) == \E d \in completed : KnownBy(c, d)

AllRemembered == \A c \in completed : Remembered(c)

Suppressed(t) ==
    InFlight(t) =>
        \A c \in completed :
            c.key = Key(req[t]) /\ c.done < arrived[t] =>
                \E d \in completed :
                    d.key = c.key /\ d.done >= c.done /\ d.until <= arrived[t]

LEMMA RememberedStep ==
    ASSUME TypeInv, Breaker!TypeOK, Breaker!TypeOK', AllRemembered, [Next]_vars
    PROVE  AllRemembered'
<1>1. /\ now \in Nat /\ now' \in Nat /\ now <= now'
      /\ \A c \in completed : c.done \in Nat /\ c.done <= now /\ c.until \in Nat
      /\ \A e \in cache : e.expires \in Nat
      /\ \A t \in Threads : clock[t] \in Nat /\ clock[t] <= now
      /\ TTL \in Nat
  BY ClockStep, ServiceAssumption
     DEF ServiceAssumption, TypeInv, SharedTypes, ThreadTypes, CacheEntry
<1>2. ASSUME completed' = completed,
             \A e \in cache : e \in cache' \/ e.expires <= now
      PROVE  AllRemembered'
  <2> SUFFICES ASSUME NEW c \in completed
               PROVE  Remembered(c)'
    BY <1>2 DEF AllRemembered
  <2>1. PICK d \in completed : KnownBy(c, d)
    BY DEF AllRemembered, Remembered
  <2>2. CASE d.until <= now
    BY <1>1, <1>2, <2>1, <2>2 DEF KnownBy, Remembered
  <2>3. ASSUME NEW e \in cache, e.key = d.key, e.expires = d.until
        PROVE  Remembered(c)'
    <3>1. CASE e \in cache'
      BY <1>2, <2>1, <2>3, <3>1 DEF KnownBy, Remembered
    <3>2. CASE e.expires <= now
      BY <2>2, <2>3, <3>2
    <3>3. QED
      BY <1>2, <3>1, <3>2
  <2>4. QED
    BY <2>1, <2>2, <2>3 DEF KnownBy
<1>3. ASSUME NEW t \in Threads, Miss(t)
      PROVE  AllRemembered'
  <2>1. completed' = completed /\ cache' = {e \in cache : e.key # Key(req[t])}
    BY <1>3 DEF Miss
  <2>2. ASSUME NEW e \in cache
        PROVE  e \in cache' \/ e.expires <= now
    <3>1. CASE e.key = Key(req[t])
      <4>1. clock[t] >= e.expires
        BY <1>3, <3>1 DEF Miss, Hit, Expired
      <4>2. QED
        BY <1>1, <4>1
    <3>2. CASE e.key # Key(req[t])
      BY <2>1, <3>2
    <3>3. QED
      BY <3>1, <3>2
  <2>3. QED
    BY <1>2, <2>1, <2>2
<1>4. ASSUME NEW t \in Threads, CacheResult(t)
      PROVE  AllRemembered'
  <2> DEFINE key == Key(req[t])
             new == [key |-> key, expires |-> clock[t] + TTL,
                     result |-> Result(req[t], TRUE, TRUE)]
             done == [key |-> key, done |-> now, until |-> clock[t] + TTL]
  <2>1. cache' = {e \in {f \in cache : f.key # key} \cup {new} : ~(clock[t] >= e.expires)}
    BY <1>4 DEF CacheResult, Put, Expired
  <2>2. completed' = completed \cup {done} /\ now' = now
    BY <1>4 DEF CacheResult, breakerVars
  <2>3. /\ new.key = key /\ new.expires = clock[t] + TTL
        /\ done.key = key /\ done.done = now /\ done.until = clock[t] + TTL
    OBVIOUS
  <2>4. clock[t] \in Nat /\ clock[t] <= now
    BY <1>1
  <2> HIDE DEF new, done, key
  <2>5. done.until <= now' \/ \E e \in cache' : e.key = done.key /\ e.expires = done.until
    <3>1. CASE clock[t] >= clock[t] + TTL
      BY <1>1, <2>2, <2>3, <2>4, <3>1
    <3>2. CASE ~(clock[t] >= clock[t] + TTL)
      <4>1. new \in cache'
        BY <2>1, <2>3, <3>2
      <4>2. QED
        BY <2>3, <4>1
    <3>3. QED
      BY <3>1, <3>2
  <2>6. ASSUME NEW c \in completed', c.key = key, c.done <= now
        PROVE  Remembered(c)'
    BY <2>2, <2>3, <2>5, <2>6 DEF Remembered, KnownBy
  <2>7. ASSUME NEW c \in completed, c.key # key
        PROVE  Remembered(c)'
    <3>1. PICK d \in completed : KnownBy(c, d)
      BY DEF AllRemembered, Remembered
    <3>2. d \in completed' /\ d.until \in Nat
      BY <1>1, <2>2
    <3>3. CASE d.until <= now
      BY <2>2, <3>1, <3>2, <3>3 DEF Remembered, KnownBy
    <3>4. ASSUME NEW e \in cache, e.key = d.key, e.expires = d.until
          PROVE  Remembered(c)'
      <4>1. CASE clock[t] >= e.expires
        BY <1>1, <2>4, <3>2, <3>3, <3>4, <4>1
      <4>2. CASE ~(clock[t] >= e.expires)
        <5>1. e.key # key
          BY <2>7, <3>1, <3>4 DEF KnownBy
        <5>2. e \in cache'
          BY <2>1, <4>2, <5>1
        <5>3. QED
          BY <3>1, <3>2, <3>4, <5>2 DEF Remembered, KnownBy
      <4>3. QED
        BY <4>1, <4>2
    <3>5. QED
      BY <3>1, <3>3, <3>4 DEF KnownBy
  <2>8. \A c \in completed' : c = done \/ c \in completed
    BY <2>2
  <2>9. QED
    BY <1>1, <2>3, <2>6, <2>7, <2>8 DEF AllRemembered
<1>5. CASE Restart
  BY <1>5 DEF Restart, AllRemembered
<1>6. ASSUME NEW t \in Threads, Step(t)
      PROVE  AllRemembered'
  BY <1>6, <1>2, <1>3, <1>4
     DEF Step, ServeCached, EnterBreaker, Refused, OpaAnswers, OpaFails, OpenBreaker,
         Retry, GiveUp, Deny, DryRun, Execute, Respond
<1>7. QED
  BY <1>2, <1>5, <1>6 DEF Next, Receive, Tick, Quiet, vars

(* A thread that was not yet past the cache, or has left, claims nothing.  *)
LEMMA SuppressedFrame ==
    ASSUME NEW t \in Threads, Suppressed(t), completed' = completed,
           InFlight(t)' =>
             InFlight(t) /\ req'[t] = req[t] /\ arrived'[t] = arrived[t]
    PROVE  Suppressed(t)'
  BY DEF Suppressed, Key

LEMMA SuppressedStep ==
    ASSUME TypeInv, Breaker!TypeOK, Breaker!TypeOK', AllRemembered,
           \A t \in Threads : Suppressed(t), [Next]_vars
    PROVE  \A t \in Threads : Suppressed(t)'
<1> USE DEF TypeInv
<1>1. /\ now \in Nat /\ \A u \in Threads : arrived[u] \in Nat /\ arrived[u] <= now
      /\ \A u \in Threads : clock[u] \in Nat /\ clock[u] <= now
  BY ClockStep DEF ThreadTypes
<1> SUFFICES ASSUME NEW u \in Threads
             PROVE  Suppressed(u)'
  OBVIOUS
<1>2. ASSUME completed' = completed, stage'[u] = stage[u], req'[u] = req[u],
             arrived'[u] = arrived[u]
      PROVE  Suppressed(u)'
  BY <1>2, SuppressedFrame DEF InFlight
<1>3. ASSUME NEW t \in Threads, NEW a, Answer(t, a), completed' = completed,
             \A v \in Threads \ {t} : req'[v] = req[v]
      PROVE  Suppressed(u)'
  <2>1. CASE u = t
    <3>1. ~InFlight(t)'
      BY <1>3, GotoMoves DEF Answer, InFlight
    <3>2. QED
      BY <1>3, <2>1, <3>1, SuppressedFrame
  <2>2. CASE u # t
    <3>1. stage'[u] = stage[u] /\ arrived'[u] = arrived[u]
      BY <1>3, <2>2, GotoMoves DEF Answer, ThreadTypes
    <3>2. QED
      BY <1>2, <1>3, <2>2, <3>1
  <2>3. QED
    BY <2>1, <2>2
<1>4. ASSUME NEW t \in Threads, NEW s, Goto(t, s), completed' = completed,
             req' = req, arrived' = arrived, InFlight(t)
      PROVE  Suppressed(u)'
  <2>1. InFlight(u)' => InFlight(u)
    BY <1>4, GotoMoves DEF InFlight
  <2>2. QED
    BY <1>4, <2>1, SuppressedFrame
<1>5. ASSUME NEW t \in Threads, NEW r \in Requests, Receive(t, r)
      PROVE  Suppressed(u)'
  <2>1. /\ completed' = completed
        /\ \A v \in Threads \ {t} : req'[v] = req[v]
    BY <1>5 DEF Receive, ThreadTypes
  <2>2. CASE Answer(t, Error(400))
    BY <1>3, <2>1, <2>2
  <2>3. CASE Goto(t, "lookup") /\ arrived' = arrived
    <3>1. ~InFlight(t)'
      BY <2>3, GotoMoves DEF InFlight
    <3>2. CASE u = t
      BY <2>1, <3>1, <3>2, SuppressedFrame
    <3>3. CASE u # t
      BY <1>2, <2>1, <2>3, <3>3, GotoMoves
    <3>4. QED
      BY <3>2, <3>3
  <2>4. QED
    BY <1>5, <2>2, <2>3 DEF Receive
<1>6. ASSUME NEW t \in Threads, ServeCached(t) \/ Refused(t) \/ GiveUp(t)
      PROVE  Suppressed(u)'
  <2>1. PICK a : Answer(t, a)
    BY <1>6 DEF ServeCached, Refused, GiveUp
  <2>2. req' = req /\ completed' = completed
    BY <1>6 DEF ServeCached, Refused, GiveUp
  <2>3. QED
    BY <1>3, <2>1, <2>2
<1>7. ASSUME NEW t \in Threads, Deny(t) \/ DryRun(t)
      PROVE  Suppressed(u)'
  <2>1. PICK a : Answer(t, a)
    BY <1>7 DEF Deny, DryRun
  <2>2. req' = req /\ completed' = completed
    BY <1>7 DEF Deny, DryRun
  <2>3. QED
    BY <1>3, <2>1, <2>2
<1>8. ASSUME NEW t \in Threads, Miss(t)
      PROVE  Suppressed(u)'
  <2>1. req' = req /\ completed' = completed
    BY <1>8 DEF Miss
  <2>2. CASE Answer(t, Result(req[t], FALSE, FALSE))
    BY <1>3, <2>1, <2>2
  <2>3. CASE Goto(t, "query") /\ arrived' = [arrived EXCEPT ![t] = now]
    <3>1. CASE u # t
      BY <1>2, <2>1, <2>3, <3>1, GotoMoves DEF ThreadTypes
    <3>2. CASE u = t
      <4>1. arrived'[t] = now
        BY <2>3 DEF ThreadTypes
      <4>2. ASSUME NEW c \in completed, c.key = Key(req[t])
            PROVE  \E d \in completed :
                       d.key = c.key /\ d.done >= c.done /\ d.until <= now
        <5>1. PICK d \in completed : KnownBy(c, d)
          BY DEF AllRemembered, Remembered
        <5>2. ASSUME NEW e \in cache, e.key = d.key, e.expires = d.until
              PROVE  d.until <= now
          <6>1. clock[t] >= e.expires
            BY <1>8, <4>2, <5>1, <5>2 DEF Miss, Hit, Expired, KnownBy
          <6>2. e.expires \in Nat /\ clock[t] \in Nat /\ clock[t] <= now
            BY <1>1 DEF SharedTypes, CacheEntry
          <6>3. QED
            BY <1>1, <5>2, <6>1, <6>2
        <5>3. QED
          BY <5>1, <5>2 DEF KnownBy
      <4>3. QED
        BY <2>1, <3>2, <4>1, <4>2 DEF Suppressed, Key
    <3>3. QED
      BY <3>1, <3>2
  <2>4. QED
    BY <1>8, <2>2, <2>3 DEF Miss
<1>9. ASSUME NEW t \in Threads, EnterBreaker(t) \/ OpenBreaker(t)
      PROVE  Suppressed(u)'
  BY <1>2, <1>9 DEF EnterBreaker, OpenBreaker, threadVars
<1>10. ASSUME NEW t \in Threads, OpaAnswers(t) \/ OpaFails(t) \/ Retry(t) \/ Execute(t)
       PROVE  Suppressed(u)'
  <2>1. /\ req' = req /\ completed' = completed /\ arrived' = arrived
        /\ InFlight(t)
    BY <1>10 DEF OpaAnswers, OpaFails, Retry, Execute, InFlight
  <2>2. PICK s : Goto(t, s)
    BY <1>10 DEF OpaAnswers, OpaFails, Retry, Execute
  <2>3. QED
    BY <1>4, <2>1, <2>2
<1>11. ASSUME NEW t \in Threads, CacheResult(t)
       PROVE  Suppressed(u)'
  <2>1. /\ req' = req /\ Answer(t, Result(req[t], TRUE, TRUE))
        /\ completed' = completed \cup
                {[key |-> Key(req[t]), done |-> now, until |-> clock[t] + TTL]}
    BY <1>11 DEF CacheResult
  <2>2. CASE u = t
    <3>1. ~InFlight(t)'
      BY <2>1, GotoMoves DEF Answer, InFlight
    <3>2. QED
      BY <2>2, <3>1 DEF Suppressed
  <2>3. CASE u # t
    <3>1. stage'[u] = stage[u] /\ arrived'[u] = arrived[u]
      BY <2>1, <2>3, GotoMoves DEF Answer, ThreadTypes
    <3>2. ~(now < arrived[u])
      BY <1>1
    <3>3. QED
      BY <2>1, <3>1, <3>2 DEF Suppressed, InFlight, Key
  <2>4. QED
    BY <2>2, <2>3
<1>12. ASSUME NEW t \in Threads, Respond(t)
       PROVE  Suppressed(u)'
  <2>1. /\ completed' = completed /\ arrived' = arrived /\ Goto(t, "idle")
        /\ \A v \in Threads \ {t} : req'[v] = req[v]
    BY <1>12 DEF Respond, ThreadTypes
  <2>2. InFlight(u)' => InFlight(u) /\ u # t
    BY <2>1, GotoMoves DEF InFlight
  <2>3. QED
    BY <2>1, <2>2, SuppressedFrame
<1>13. CASE Restart
  BY <1>13 DEF Restart, Suppressed
<1>14. CASE Tick \/ Quiet \/ UNCHANGED vars
  BY <1>2, <1>14 DEF Tick, Quiet, vars, threadVars
<1>15. ASSUME NEW t \in Threads, Step(t)
       PROVE  Suppressed(u)'
  BY <1>15, <1>6, <1>7, <1>8, <1>9, <1>10, <1>11, <1>12 DEF Step
<1>16. QED
  BY <1>5, <1>13, <1>14, <1>15 DEF Next

(* A caller that retries after its first call was cached is not served     *)
(* twice within the time to live, whatever other requests add, replace or  *)
(* sweep in the cache meanwhile.                                           *)
THEOREM DuplicatesSuppressed == Spec => []SequentialDuplicateSuppressed
<1> DEFINE Inv == AllRemembered /\ \A t \in Threads : Suppressed(t)
<1>1. Init => Inv
  BY DEF Init, AllRemembered, Suppressed
<1>2. TypeInv /\ Breaker!TypeOK /\ Breaker!TypeOK' /\ Inv /\ [Next]_vars => Inv'
  BY RememberedStep, SuppressedStep
<1>3. Inv => SequentialDuplicateSuppressed
  BY DEF Suppressed, SequentialDuplicateSuppressed
<1> HIDE DEF Inv
<1>4. QED
  BY <1>1, <1>2, <1>3, TypeInvCorrect, PTL DEF Spec
=============================================================================
