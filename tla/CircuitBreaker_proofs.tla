----------------------- MODULE CircuitBreaker_proofs -----------------------
(***************************************************************************)
(* Proofs about the circuit breaker for any number of threads, any         *)
(* threshold, window and bounds.                                           *)
(***************************************************************************)
EXTENDS CircuitBreaker, TLAPS

(* The breaker's state is well typed, and no stored or held time lies in   *)
(* the future, for every number of threads.                                *)
THEOREM TypeCorrect == Spec => []TypeOK
<1> USE BreakerAssumption DEF BreakerAssumption, TypeOK, CallState
<1>1. Init => TypeOK
  <2> SUFFICES ASSUME Init
               PROVE  TypeOK
    OBVIOUS
  <2>1. overtaken \in BOOLEAN
    BY DEF Init
  <2>2. now \in 0..MaxTime /\ failures \in 0..MaxFailures
    BY DEF Init
  <2>3. openedAt \in (0..now) \cup {NoTime}
    BY DEF Init
  <2>4. call \in [Threads -> CallState] /\ seen \in [Threads -> 0..now]
    BY DEF Init
  <2>5. QED
    BY <2>1, <2>2, <2>3, <2>4
<1>2. TypeOK /\ [Next]_vars => TypeOK'
  <2> SUFFICES ASSUME TypeOK, [Next]_vars
               PROVE  TypeOK'
    OBVIOUS
  <2>1. ASSUME NEW t \in Threads, ReadClosed(t)
        PROVE  TypeOK'
    BY <2>1 DEF ReadClosed
  <2>2. ASSUME NEW t \in Threads, ReadOpened(t)
        PROVE  TypeOK'
    BY <2>2 DEF ReadOpened
  <2>3. ASSUME NEW t \in Threads, AdmitTrial(t)
        PROVE  TypeOK'
    BY <2>3 DEF AdmitTrial
  <2>4. ASSUME NEW t \in Threads, FastFail(t)
        PROVE  TypeOK'
    BY <2>4 DEF FastFail
  <2>5. ASSUME NEW t \in Threads, StateRaises(t)
        PROVE  TypeOK'
    BY <2>5 DEF StateRaises
  <2>6. ASSUME NEW t \in Threads, Succeed(t)
        PROVE  TypeOK'
    BY <2>6 DEF Succeed
  <2>7. ASSUME NEW t \in Threads, Fail(t)
        PROVE  TypeOK'
    <3>1. failures' \in 0..MaxFailures
      BY <2>7 DEF Fail
    <3>2. now' = now /\ openedAt' = openedAt /\ overtaken' = overtaken
      BY <2>7 DEF Fail
    <3>3. call' \in [Threads -> CallState] /\ seen' \in [Threads -> 0..now]
      BY <2>7 DEF Fail
    <3>4. QED
      BY <3>1, <3>2, <3>3
  <2>8. ASSUME NEW t \in Threads, Open(t)
        PROVE  TypeOK'
    BY <2>8 DEF Open
  <2>9. CASE Tick
    <3>1. now' \in 0..MaxTime /\ 0..now \subseteq 0..now'
      BY <2>9 DEF Tick
    <3>2. QED
      BY <2>9, <3>1 DEF Tick
  <2>10. CASE Restart
    <3>1. overtaken' \in BOOLEAN
      BY <2>10 DEF Restart
    <3>2. failures' \in 0..MaxFailures /\ call' \in [Threads -> CallState]
      BY <2>10 DEF Restart
    <3>3. QED
      BY <2>10, <3>1, <3>2 DEF Restart
  <2>11. CASE UNCHANGED vars
    BY <2>11 DEF vars
  <2>12. QED
    BY <2>1, <2>2, <2>3, <2>4, <2>5, <2>6, <2>7, <2>8, <2>9, <2>10, <2>11
       DEF Next, Step
<1>3. QED
  BY <1>1, <1>2, PTL DEF Spec

(* Once failure_threshold failures are counted, the breaker is open or a   *)
(* thread is opening it.                                                   *)
THEOREM NoLostOpening == Spec => []ThresholdOpens
<1> USE BreakerAssumption DEF BreakerAssumption, ThresholdOpens
<1>1. Init => ThresholdOpens
  BY DEF Init
<1>2. TypeOK /\ ThresholdOpens /\ [Next]_vars => ThresholdOpens'
  <2> SUFFICES ASSUME TypeOK, ThresholdOpens, [Next]_vars
               PROVE  ThresholdOpens'
    OBVIOUS
  <2> USE DEF TypeOK
  <2>1. ASSUME NEW t \in Threads, ReadClosed(t)
        PROVE  ThresholdOpens'
    BY <2>1 DEF ReadClosed
  <2>2. ASSUME NEW t \in Threads, ReadOpened(t)
        PROVE  ThresholdOpens'
    BY <2>2 DEF ReadOpened
  <2>3. ASSUME NEW t \in Threads, AdmitTrial(t)
        PROVE  ThresholdOpens'
    BY <2>3 DEF AdmitTrial
  <2>4. ASSUME NEW t \in Threads, FastFail(t)
        PROVE  ThresholdOpens'
    BY <2>4 DEF FastFail
  <2>5. ASSUME NEW t \in Threads, StateRaises(t)
        PROVE  ThresholdOpens'
    BY <2>5 DEF StateRaises
  <2>6. ASSUME NEW t \in Threads, Succeed(t)
        PROVE  ThresholdOpens'
    BY <2>6 DEF Succeed
  <2>7. ASSUME NEW t \in Threads, Fail(t)
        PROVE  ThresholdOpens'
    <3>1. CASE ThresholdReached(failures')
      <4>1. call'[t] = "opening"
        BY <2>7, <3>1 DEF Fail
      <4>2. QED
        BY <4>1
    <3>2. CASE ~ThresholdReached(failures')
      BY <3>2 DEF ThresholdReached
    <3>3. QED
      BY <3>1, <3>2
  <2>8. ASSUME NEW t \in Threads, Open(t)
        PROVE  ThresholdOpens'
    BY <2>8 DEF Open
  <2>9. CASE Tick
    BY <2>9 DEF Tick
  <2>10. CASE Restart
    BY <2>10 DEF Restart
  <2>11. CASE UNCHANGED vars
    BY <2>11 DEF vars
  <2>12. QED
    BY <2>1, <2>2, <2>3, <2>4, <2>5, <2>6, <2>7, <2>8, <2>9, <2>10, <2>11
       DEF Next, Step
<1>3. QED
  BY <1>1, <1>2, TypeCorrect, PTL DEF Spec

(* The only way to an open breaker with fewer than failure_threshold       *)
(* counted failures is a success that overtakes an opening.                *)
THEOREM OpenIsCountedOrOvertaken == Spec => []OpenWasCounted
<1> USE BreakerAssumption DEF BreakerAssumption, OpenWasCounted
<1>1. Init => OpenWasCounted
  BY DEF Init
<1>2. TypeOK /\ OpenWasCounted /\ [Next]_vars => OpenWasCounted'
  <2> SUFFICES ASSUME TypeOK, OpenWasCounted, [Next]_vars
               PROVE  OpenWasCounted'
    OBVIOUS
  <2> USE DEF TypeOK
  <2>1. ASSUME NEW t \in Threads, ReadClosed(t)
        PROVE  OpenWasCounted'
    BY <2>1 DEF ReadClosed
  <2>2. ASSUME NEW t \in Threads, ReadOpened(t)
        PROVE  OpenWasCounted'
    BY <2>2 DEF ReadOpened
  <2>3. ASSUME NEW t \in Threads, AdmitTrial(t)
        PROVE  OpenWasCounted'
    BY <2>3 DEF AdmitTrial
  <2>4. ASSUME NEW t \in Threads, FastFail(t)
        PROVE  OpenWasCounted'
    BY <2>4 DEF FastFail
  <2>5. ASSUME NEW t \in Threads, StateRaises(t)
        PROVE  OpenWasCounted'
    BY <2>5 DEF StateRaises
  <2>6. ASSUME NEW t \in Threads, Succeed(t)
        PROVE  OpenWasCounted'
    BY <2>6 DEF Succeed
  <2>7. ASSUME NEW t \in Threads, Fail(t)
        PROVE  OpenWasCounted'
    <3>1. CASE ThresholdReached(failures')
      BY <2>7, <3>1 DEF Fail, ThresholdReached
    <3>2. CASE ~ThresholdReached(failures')
      <4>1. failures < FailureThreshold
        BY <2>7, <3>2 DEF Fail, ThresholdReached
      <4>2. \A u \in Threads : call'[u] = "opening" => call[u] = "opening"
        BY <2>7, <3>2 DEF Fail
      <4>3. QED
        BY <2>7, <4>1, <4>2 DEF Fail
    <3>3. QED
      BY <3>1, <3>2
  <2>8. ASSUME NEW t \in Threads, Open(t)
        PROVE  OpenWasCounted'
    BY <2>8 DEF Open
  <2>9. CASE Tick
    BY <2>9 DEF Tick
  <2>10. CASE Restart
    BY <2>10 DEF Restart
  <2>11. CASE UNCHANGED vars
    BY <2>11 DEF vars
  <2>12. QED
    BY <2>1, <2>2, <2>3, <2>4, <2>5, <2>6, <2>7, <2>8, <2>9, <2>10, <2>11
       DEF Next, Step
<1>3. QED
  BY <1>1, <1>2, TypeCorrect, PTL DEF Spec

(* No call starts while the breaker is open within its window.             *)
THEOREM WindowHonoured == Spec => OpenWindowHonoured
<1> DEFINE Honoured == \A t \in Threads : Starts(t) => ~WithinWindow
<1>1. TypeOK /\ [Next]_vars => [Honoured]_vars
  <2> SUFFICES ASSUME TypeOK, Next, NEW t \in Threads, Starts(t)
               PROVE  ~WithinWindow
    OBVIOUS
  <2> USE BreakerAssumption DEF BreakerAssumption, TypeOK, Starts, Calling, WithinWindow
  <2>1. ASSUME NEW u \in Threads, Step(u)
        PROVE  ReadClosed(u) \/ AdmitTrial(u)
    <3>1. CASE ReadOpened(u)
      BY <3>1 DEF ReadOpened
    <3>2. CASE FastFail(u)
      BY <3>2 DEF FastFail
    <3>3. CASE StateRaises(u)
      BY <3>3 DEF StateRaises
    <3>4. CASE Succeed(u)
      BY <3>4 DEF Succeed
    <3>5. CASE Fail(u)
      BY <3>5 DEF Fail
    <3>6. CASE Open(u)
      BY <3>6 DEF Open
    <3>7. QED
      BY <2>1, <3>1, <3>2, <3>3, <3>4, <3>5, <3>6 DEF Step
  <2>2. ASSUME NEW u \in Threads, ReadClosed(u)
        PROVE  ~WithinWindow
    BY <2>2 DEF ReadClosed
  <2>3. ASSUME NEW u \in Threads, AdmitTrial(u)
        PROVE  ~WithinWindow
    <3>1. openedAt \in 0..now /\ seen[u] \in 0..now
      BY <2>3 DEF AdmitTrial
    <3>2. seen[u] - openedAt >= ResetTimeout
      BY <2>3 DEF AdmitTrial, ResetElapsed
    <3>3. QED
      BY <3>1, <3>2
  <2>4. CASE Tick
    BY <2>4 DEF Tick
  <2>5. CASE Restart
    BY <2>5 DEF Restart
  <2>6. QED
    BY <2>1, <2>2, <2>3, <2>4, <2>5 DEF Next
<1>2. QED
  BY <1>1, TypeCorrect, PTL DEF Spec, OpenWindowHonoured
=============================================================================
