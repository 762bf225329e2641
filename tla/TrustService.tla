----------------------------- MODULE TrustService -----------------------------
(***************************************************************************)
(* The Model Trust Score service (services/model-trust/src/main.py): the   *)
(* threads that serve POST /api/v1/score, GET /metrics, GET /health and    *)
(* GET /api/v1/ledger/verify and /attestation over one ledger, the gauges  *)
(* and the counter they publish, and the two tags they write back to       *)
(* MLflow.  Each call of the ledger and of MLflow is a step of its own:    *)
(* nothing is held between two of them.                                    *)
(***************************************************************************)
EXTENDS Integers, Sequences, FiniteSets

CONSTANTS
    Threads,
    Requests,       \* requests clients send
    MaxReceived,    \* bound: the number of requests received
    Genesis, Torn, Altered, DamageKinds, MaxEntries,    \* the ledger's
    NoRequest,
    NoEntry         \* the absence of an entry

ASSUME TrustAssumption ==
    /\ \A r \in Requests :
        /\ r.kind \in {"score", "metrics", "verify", "health", "attestation"}
        /\ r.score \in 300..1000
        /\ r.record \in BOOLEAN
    /\ MaxReceived \in Nat /\ MaxEntries \in Nat
    /\ DamageKinds \subseteq {"edit", "delete", "reorder"}

(* What a report puts in its entry; band follows from the score.           *)
Body(r) == [model |-> r.model, version |-> r.version, score |-> r.score]
Bodies == {Body(r) : r \in Requests}

VARIABLES
    file, ended, written, damaged,      \* the ledger's
    stage,      \* stage[t]: where thread t is in its handler
    req,        \* req[t]: its request
    previous,   \* previous[t]: history[-1], the entry its score is compared with
    recorded,   \* recorded[t]: the entry append() returned, if any
    checked,    \* checked[t]: the result of verify() thread t holds
    attested,   \* attested[t]: what thread t will say of the ledger
    ledgerOk,   \* gauge model_trust_ledger_integrity_ok
    series,     \* gauge model_trust_score: the series it exports
    flagged,    \* counter model_trust_regressions_total, as the entries counted
    tags,       \* MLflow: the trust_score tag of a model version
    bandTags,   \* MLflow: its trust_band tag
    mixed,      \* history: versions whose two tags may be of two write-backs
    received

ledgerVars == <<file, ended, written, damaged>>
threadVars == <<stage, req, previous, recorded, checked, attested>>
mlflow == <<tags, bandTags, mixed>>
published == <<ledgerOk, series, flagged, mlflow>>
vars == <<ledgerVars, threadVars, published, received>>

Ledger == INSTANCE TrustLedger

REGRESSION_POINTS == 50

BANDS == <<[from |-> 300, band |-> "SUBPRIME"], [from |-> 600, band |-> "FAIR"],
           [from |-> 700, band |-> "GOOD"], [from |-> 850, band |-> "PRIME"]>>

(* _BAND_RANK of band_for(score).                                          *)
BandRank(score) == Cardinality({i \in DOMAIN BANDS : score >= BANDS[i].from})

Stage == {"idle", "history", "append", "publish", "verify", "gauge", "tag", "band",
          "attest", "latest", "done", "failed"}

Version(b) == <<b.model, b.version>>

-----------------------------------------------------------------------------

Init ==
    /\ Ledger!Init
    /\ stage = [t \in Threads |-> "idle"]
    /\ req = [t \in Threads |-> NoRequest]
    /\ previous = [t \in Threads |-> NoEntry]
    /\ recorded = [t \in Threads |-> NoEntry]
    /\ checked = [t \in Threads |-> FALSE]
    /\ attested = [t \in Threads |-> [ok |-> FALSE, entries |-> 0, covered |-> {}]]
    /\ ledgerOk = 0
    /\ series = {}
    /\ flagged = {}
    /\ tags = {}
    /\ bandTags = {}
    /\ mixed = {}
    /\ received = 0

Goto(t, s) == stage' = [stage EXCEPT ![t] = s]

(* score() starts from a report; the others go to the ledger at once.      *)
Receive(t, r) ==
    /\ stage[t] = "idle"
    /\ received < MaxReceived
    /\ received' = received + 1
    /\ req' = [req EXCEPT ![t] = r]
    /\ Goto(t, CASE r.kind = "score" -> "history"
                 [] r.kind = "metrics" -> "verify"
                 [] r.kind \in {"verify", "health", "attestation"} -> "attest")
    /\ UNCHANGED <<ledgerVars, previous, recorded, checked, attested, published>>

(* The ledger could not be read: the exception becomes a 500.              *)
ReadFails(t) ==
    /\ stage[t] \in {"history", "append", "verify", "attest", "latest"}
    /\ stage[t] = "append" => req[t].record
    /\ ~Ledger!Readable
    /\ Goto(t, "failed")
    /\ UNCHANGED <<ledgerVars, req, previous, recorded, checked, attested, published,
                   received>>

(* Mutant: the history is that of the ledger, of whichever model.          *)
OfAnyModel(m) == DOMAIN file

OfModel(m) == {i \in DOMAIN file : file[i].body.model = m}

(* Mutant: history[0] of the model.                                        *)
FirstOf(m) ==
    IF OfModel(m) = {} THEN NoEntry
    ELSE file[CHOOSE i \in OfModel(m) : \A j \in OfModel(m) : i <= j]

(* history[-1] of the model.                                               *)
LastOf(m) ==
    IF OfModel(m) = {} THEN NoEntry
    ELSE file[CHOOSE i \in OfModel(m) : \A j \in OfModel(m) : j <= i]

ReadHistory(t) ==
    /\ stage[t] = "history"
    /\ Ledger!Readable
    /\ previous' = [previous EXCEPT ![t] = LastOf(req[t].model)]
    /\ Goto(t, "append")
    /\ UNCHANGED <<ledgerVars, req, recorded, checked, attested, published, received>>

(* ledger.append(), when the score is to be recorded.                      *)
Record(t) ==
    /\ stage[t] = "append"
    /\ req[t].record
    /\ Ledger!AppendEntry(Body(req[t]))
    /\ recorded' = [recorded EXCEPT ![t] = Ledger!NextEntry(Body(req[t]))]
    /\ Goto(t, "publish")
    /\ UNCHANGED <<req, previous, checked, attested, published, received>>

(* The write of the entry is cut short and append() raises: a 500.         *)
RecordFails(t) ==
    /\ stage[t] = "append"
    /\ req[t].record
    /\ \/ Ledger!AppendCutShort(Body(req[t]))
       \/ Ledger!Readable /\ UNCHANGED ledgerVars
    /\ Goto(t, "failed")
    /\ UNCHANGED <<req, previous, recorded, checked, attested, published, received>>

DryScore(t) ==
    /\ stage[t] = "append"
    /\ ~req[t].record
    /\ Goto(t, "publish")
    /\ UNCHANGED <<ledgerVars, req, previous, recorded, checked, attested, published,
                   received>>

(* _regression of a score after an earlier one.                            *)
Regression(score, before) ==
    \/ score - before <= -REGRESSION_POINTS
    \/ BandRank(score) < BandRank(before)

(* The counter and the score gauge, whose labels include the band.         *)
Publish(t) ==
    /\ stage[t] = "publish"
    /\ LET r == req[t]
           b == BandRank(r.score)
           version == Version(r)
       IN  /\ flagged' =
                IF /\ r.record /\ previous[t] # NoEntry
                   /\ Regression(r.score, previous[t].body.score)
                  THEN flagged \cup {recorded[t]} ELSE flagged
           /\ series' = {s \in series : ~(s.of = version /\ s.band = b)}
                          \cup {[of |-> version, band |-> b, score |-> r.score]}
    /\ Goto(t, "verify")
    /\ UNCHANGED <<ledgerVars, req, previous, recorded, checked, attested, ledgerOk,
                   mlflow, received>>

(* Mutant: a line that cannot be read is a failed check like any other.    *)
VerifyTolerant(t) ==
    /\ stage[t] = "verify"
    /\ checked' = [checked EXCEPT ![t] = Ledger!Verified]
    /\ Goto(t, "gauge")
    /\ UNCHANGED <<ledgerVars, req, previous, recorded, attested, published, received>>

(* Mutant: a ledger without entries does not count as verified.            *)
VerifyNonEmpty(t) ==
    /\ stage[t] = "verify"
    /\ Ledger!Readable
    /\ checked' = [checked EXCEPT ![t] = Ledger!Verified /\ file # <<>>]
    /\ Goto(t, "gauge")
    /\ UNCHANGED <<ledgerVars, req, previous, recorded, attested, published, received>>

(* _refresh_ledger_metrics: verify(), then the gauge.                      *)
Verify(t) ==
    /\ stage[t] = "verify"
    /\ Ledger!Readable
    /\ checked' = [checked EXCEPT ![t] = Ledger!Verified]
    /\ Goto(t, "gauge")
    /\ UNCHANGED <<ledgerVars, req, previous, recorded, attested, published, received>>

(* Mutant: the score is written back whether or not it was recorded.       *)
SetGaugeAlwaysTag(t) ==
    /\ stage[t] = "gauge"
    /\ ledgerOk' = IF checked[t] THEN 1 ELSE 0
    /\ Goto(t, IF req[t].kind = "score" THEN "tag" ELSE "done")
    /\ UNCHANGED <<ledgerVars, req, previous, recorded, checked, attested, series, flagged,
                   mlflow, received>>

SetGauge(t) ==
    /\ stage[t] = "gauge"
    /\ ledgerOk' = IF checked[t] THEN 1 ELSE 0
    /\ Goto(t, IF req[t].kind = "score" /\ req[t].record THEN "tag" ELSE "done")
    /\ UNCHANGED <<ledgerVars, req, previous, recorded, checked, attested, series, flagged,
                   mlflow, received>>

(* The versions that another thread has half written back.                 *)
HalfTagged(t) == {Version(req[u]) : u \in {u \in Threads \ {t} : stage[u] = "band"}}

ScoreTag(r) == [of |-> Version(r), score |-> r.score]
BandTag(r) == [of |-> Version(r), band |-> BandRank(r.score)]

Retagged(old, new) == {g \in old : g.of # new.of} \cup {new}

(* _writeback_to_mlflow: off unless it is configured.  The first call sets *)
(* trust_score; one that raises may have reached the server, and the       *)
(* second is then not made.                                                *)
TagScore(t) ==
    /\ stage[t] = "tag"
    /\ \/ /\ tags' = Retagged(tags, ScoreTag(req[t]))
          /\ mixed' = IF Version(req[t]) \in HalfTagged(t)
                        THEN mixed \cup {Version(req[t])} ELSE mixed \ {Version(req[t])}
          /\ Goto(t, "band")
       \/ /\ tags' = Retagged(tags, ScoreTag(req[t]))
          /\ mixed' = mixed \cup {Version(req[t])}
          /\ Goto(t, "done")
       \/ UNCHANGED <<tags, mixed>> /\ Goto(t, "done")
    /\ UNCHANGED <<ledgerVars, req, previous, recorded, checked, attested, ledgerOk,
                   series, flagged, bandTags, received>>

(* Mutant: the lowest band, whose rank is 0 in the code, is taken for none. *)
TagBandUnlessZero(t) ==
    /\ stage[t] = "band"
    /\ bandTags' = IF BandRank(req[t].score) = 1 THEN bandTags
                   ELSE Retagged(bandTags, BandTag(req[t]))
    /\ Goto(t, "done")
    /\ UNCHANGED <<ledgerVars, req, previous, recorded, checked, attested, ledgerOk,
                   series, flagged, tags, mixed, received>>

(* The second call sets trust_band, or raises: best effort either way.     *)
TagBand(t) ==
    /\ stage[t] = "band"
    /\ \/ bandTags' = Retagged(bandTags, BandTag(req[t])) /\ UNCHANGED mixed
       \/ UNCHANGED bandTags /\ mixed' = mixed \cup {Version(req[t])}
    /\ Goto(t, "done")
    /\ UNCHANGED <<ledgerVars, req, previous, recorded, checked, attested, ledgerOk,
                   series, flagged, tags, received>>

(* verify() under the lock, for the answer: all that health() does; the    *)
(* route /verify then refreshes the gauge, attestation() reads again.      *)
Look(t) ==
    /\ stage[t] = "attest"
    /\ Ledger!Readable
    /\ attested' = [attested EXCEPT
                      ![t] = [ok |-> Ledger!Verified, entries |-> Len(file), covered |-> {}]]
    /\ Goto(t, IF req[t].kind = "attestation" THEN "latest"
               ELSE IF req[t].kind = "verify" THEN "verify" ELSE "done")
    /\ UNCHANGED <<ledgerVars, req, previous, recorded, checked, published, received>>

(* attestation() reads the entries under the lock a second time.           *)
AttestEntries(t) ==
    /\ stage[t] = "latest"
    /\ Ledger!Readable
    /\ attested' = [attested EXCEPT
                      ![t].covered = {LastOf(m) : m \in {file[i].body.model : i \in DOMAIN file}}]
    /\ Goto(t, "done")
    /\ UNCHANGED <<ledgerVars, req, previous, recorded, checked, published, received>>

(* The answer leaves.                                                      *)
Respond(t) ==
    /\ stage[t] \in {"done", "failed"}
    /\ Goto(t, "idle")
    /\ req' = [req EXCEPT ![t] = NoRequest]
    /\ previous' = [previous EXCEPT ![t] = NoEntry]
    /\ recorded' = [recorded EXCEPT ![t] = NoEntry]
    /\ checked' = [checked EXCEPT ![t] = FALSE]
    /\ attested' = [attested EXCEPT ![t] = [ok |-> FALSE, entries |-> 0, covered |-> {}]]
    /\ UNCHANGED <<ledgerVars, published, received>>

(* The process is started again: the ledger and MLflow outlive it, its     *)
(* metrics do not.                                                         *)
Restart ==
    /\ stage' = [t \in Threads |-> "idle"]
    /\ req' = [t \in Threads |-> NoRequest]
    /\ previous' = [t \in Threads |-> NoEntry]
    /\ recorded' = [t \in Threads |-> NoEntry]
    /\ checked' = [t \in Threads |-> FALSE]
    /\ attested' = [t \in Threads |-> [ok |-> FALSE, entries |-> 0, covered |-> {}]]
    /\ ledgerOk' = 0
    /\ series' = {}
    /\ flagged' = {}
    /\ mixed' = mixed \cup {Version(req[t]) : t \in {t \in Threads : stage[t] = "band"}}
    /\ UNCHANGED <<ledgerVars, tags, bandTags, received>>

(* The file is edited from outside.                                        *)
Tamper ==
    /\ Ledger!Tamper
    /\ UNCHANGED <<threadVars, published, received>>

Step(t) ==
    \/ ReadFails(t)
    \/ ReadHistory(t)
    \/ Record(t)
    \/ RecordFails(t)
    \/ DryScore(t)
    \/ Publish(t)
    \/ Verify(t)
    \/ SetGauge(t)
    \/ TagScore(t)
    \/ TagBand(t)
    \/ Look(t)
    \/ AttestEntries(t)
    \/ Respond(t)

(* The requests of the bound are answered.                                 *)
Quiet ==
    /\ received = MaxReceived
    /\ \A t \in Threads : stage[t] = "idle"
    /\ UNCHANGED vars

Next ==
    \/ \E t \in Threads :
        \/ \E r \in Requests : Receive(t, r)
        \/ Step(t)
    \/ Restart
    \/ Tamper
    \/ Quiet

Spec == Init /\ [][Next]_vars

-----------------------------------------------------------------------------

(* Types, and that a gauge has one series for a version and a band and     *)
(* MLflow one tag of each kind for a version.                              *)
TypeOK ==
    /\ Ledger!TypeOK
    /\ stage \in [Threads -> Stage]
    /\ req \in [Threads -> Requests \cup {NoRequest}]
    /\ \A t \in Threads : previous[t] = NoEntry \/ Ledger!IsEntry(previous[t])
    /\ \A t \in Threads : recorded[t] = NoEntry \/ recorded[t] \in written
    /\ checked \in [Threads -> BOOLEAN]
    /\ ledgerOk \in {0, 1}
    /\ \A s, u \in series : s.of = u.of /\ s.band = u.band => s = u
    /\ \A g, h \in tags : g.of = h.of => g = h
    /\ \A g, h \in bandTags : g.of = h.of => g = h
    /\ received \in 0..MaxReceived

(* The ledger verifies inside the service as it does alone: no false alarm. *)
UndamagedVerifies == Ledger!UndamagedVerifies

(* The entry of an answer that is on its way is in the file, at its        *)
(* sequence number: a line that merged with an unterminated one is found   *)
(* out by the verification before the answer.                              *)
AcknowledgedIsRecorded ==
    \A t \in Threads :
        stage[t] \in {"gauge", "tag", "band", "done"} /\ recorded[t] # NoEntry /\ damaged = 0 =>
            /\ Len(file) >= recorded[t].seq
            /\ file[recorded[t].seq] = recorded[t]

(* A counted regression is one: an earlier entry of the same model stands  *)
(* a band or REGRESSION_POINTS above it, even when other scores of the     *)
(* model were recorded while it was being computed.                        *)
CountedRegressionsAreReal ==
    damaged = 0 =>
        \A e \in flagged : \E d \in written :
            /\ d.body.model = e.body.model
            /\ d.seq < e.seq
            /\ Regression(e.body.score, d.body.score)

(* A tag in MLflow says of a version what an entry of that very version    *)
(* says: the trust_score its score, the trust_band its band.               *)
TagsAreRecorded ==
    /\ \A g \in tags : \E e \in written : Version(e.body) = g.of /\ e.body.score = g.score
    /\ \A g \in bandTags : \E e \in written :
          Version(e.body) = g.of /\ BandRank(e.body.score) = g.band

(* The two tags of a version are those of one score, but for versions of   *)
(* which two write-backs overlapped, or one failed or was killed half-way, *)
(* and were not written back undisturbed since.                            *)
BeingTagged(v) == \E t \in Threads : stage[t] = "band" /\ Version(req[t]) = v

TagsAgree ==
    \A g \in tags :
        g.of \notin mixed /\ ~BeingTagged(g.of) =>
            [of |-> g.of, band |-> BandRank(g.score)] \in bandTags

(* Nobody is told of an integrity failure of a ledger nobody damaged: not  *)
(* by a scrape, whichever refresh of the gauge came last, and not by the   *)
(* answers of /verify, /health and /attestation.                           *)
NoFalseIntegrityAlarm ==
    \A t \in Threads : stage[t] = "done" /\ damaged = 0 =>
        /\ req[t].kind = "metrics" => ledgerOk = 1
        /\ req[t].kind \in {"verify", "health", "attestation"} => attested[t].ok

(* An attestation of an intact ledger covers the entry whose hash it gives *)
(* as the head, although its two reads see different ledgers.              *)
AttestationCoversHead ==
    \A t \in Threads :
        /\ stage[t] = "done" /\ req[t].kind = "attestation"
        /\ attested[t].entries > 0 /\ damaged = 0
        => \E e \in attested[t].covered : e.seq >= attested[t].entries
=============================================================================
