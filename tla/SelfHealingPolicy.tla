-------------------------- MODULE SelfHealingPolicy --------------------------
(***************************************************************************)
(* The Rego policy package platform.self_healing                           *)
(* (aiops/policies/opa/self_healing.rego) as operators on a remediation    *)
(* request.  A field the input lacks has the value Undefined (0 replicas   *)
(* for target.replicas): in Rego a comparison with it is undefined, so     *)
(* neither an allow rule nor a deny rule that uses it fires.               *)
(***************************************************************************)
EXTENDS Integers

Undefined == "undefined"

ProtectedNamespaces ==
    {"kube-system", "cert-manager", "kyverno", "keda", "monitoring",
     "istio-system", "gatekeeper-system"}

PolicyActions ==
    {"restart_pod", "scale_deployment", "rollback_deployment", "drain_node"}

MaxScaleReplicas == 50

NotCritical(r) == r.severity \notin {"critical", Undefined}

(* The body of each deny_reasons rule, under a name for its reason.        *)
DenyRule(r) ==
    [namespace  |-> r.namespace \in ProtectedNamespaces,
     drain      |-> r.action = "drain_node" /\ NotCritical(r),
     rollback   |-> r.action = "rollback_deployment" /\ NotCritical(r),
     action     |-> r.action \notin PolicyActions,
     blast      |-> r.action = "scale_deployment" /\ r.replicas > MaxScaleReplicas]

DenyReasons(r) == {reason \in DOMAIN DenyRule(r) : DenyRule(r)[reason]}

(* The action rules: what makes an allow rule match besides the absence of *)
(* deny reasons and the namespace test they all repeat.                    *)
ActionRule(r) ==
    \/ /\ r.action = "restart_pod"
       /\ r.alert \in {"PodCrashLoopBackOff", "PodOOMKilled"}
    \/ /\ r.action = "scale_deployment"
       /\ r.alert \in {"HighCPUPreScale", "KafkaLag"}
    \/ /\ r.action = "rollback_deployment"
       /\ r.severity = "critical"
    \/ /\ r.action = "drain_node"
       /\ r.severity = "critical"
       /\ r.alert = "NodeNotReady"

Allow(r) ==
    /\ DenyReasons(r) = {}
    /\ ActionRule(r)
    /\ r.namespace \notin ProtectedNamespaces
=============================================================================
