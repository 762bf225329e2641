---------------------------- MODULE MCTrustService ----------------------------
(* Two threads: a model whose scores are far apart and one point across a  *)
(* band, a second model, a score that is not recorded, a scrape and the    *)
(* three answers about the ledger.                                         *)
EXTENDS TrustService, TLC

CONSTANTS t1, t2

MCThreads == {t1, t2}
MCSymmetry == Permutations(MCThreads)

Score(model, score, record) ==
    [kind |-> "score", model |-> model, version |-> "1", score |-> score, record |-> record]

Get(kind) ==
    [kind |-> kind, model |-> "a", version |-> "1", score |-> 700, record |-> FALSE]

MCRequests ==
    {Score("a", 700, TRUE), Score("a", 599, TRUE), Score("b", 1000, TRUE),
     Score("a", 599, FALSE), Get("metrics"), Get("verify"), Get("health"), Get("attestation")}
=============================================================================
