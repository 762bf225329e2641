---------------------------- MODULE MCSelfHealing ----------------------------
(* Two threads and six requests: one remediation sent live and as a dry    *)
(* run (the same content key) and under an explicit key; a request that    *)
(* reuses the explicit key for a namespace only the policy protects, one   *)
(* for a namespace the code protects, and an action the service does not   *)
(* know.  OPA may have no policy loaded and answer any of them with {}.    *)
EXTENDS SelfHealing

CONSTANTS t1, t2

MCThreads == {t1, t2}

Restart_(ns, dry, key) ==
    [action |-> "restart_pod", namespace |-> ns, replicas |-> 0,
     alert |-> "PodCrashLoopBackOff", severity |-> Undefined,
     dry_run |-> dry, idempotency_key |-> key]

Unknown ==
    [action |-> "delete_namespace", namespace |-> "default", replicas |-> 0,
     alert |-> Undefined, severity |-> Undefined,
     dry_run |-> FALSE, idempotency_key |-> NoKey]

MCRequests ==
    {Restart_("default", FALSE, NoKey),
     Restart_("default", TRUE, NoKey),
     Restart_("default", FALSE, "k1"),
     Restart_("gatekeeper-system", FALSE, "k1"),
     Restart_("kube-system", FALSE, NoKey),
     Unknown}
=============================================================================
