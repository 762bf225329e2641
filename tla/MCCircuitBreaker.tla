------------------------- MODULE MCCircuitBreaker -------------------------
(* Three threads, a threshold of two failures and a window of two ticks:   *)
(* one thread can be between the count and the store of _opened_at while   *)
(* a second records a success and a third evaluates `state`.               *)
EXTENDS CircuitBreaker

CONSTANTS t1, t2, t3

MCThreads == {t1, t2, t3}
=============================================================================
