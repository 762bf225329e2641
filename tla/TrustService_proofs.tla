-------------------------- MODULE TrustService_proofs --------------------------
(***************************************************************************)
(* Proofs about the Model Trust Score service: what is proved of the       *)
(* ledger holds inside it, for any number of threads and requests, and     *)
(* what the service answers, counts, tags and exports agrees with it.      *)
(***************************************************************************)
EXTENDS TrustService, TLAPS, WellFoundedInduction

LedgerProofs == INSTANCE TrustLedger_proofs

(* The constants of the service are such as the ledger's.                  *)
LEMMA LedgerConstants == LedgerProofs!LedgerAssumption
BY TrustAssumption DEF TrustAssumption, LedgerProofs!LedgerAssumption

-----------------------------------------------------------------------------

(* The requests of the threads are requests.                               *)
HasRequest == \A t \in Threads : stage[t] # "idle" => req[t] \in Requests

ReqType ==
    /\ stage \in [Threads -> Stage]
    /\ req \in [Threads -> Requests \cup {NoRequest}]
    /\ HasRequest

LEMMA ReqStep == ASSUME ReqType, [Next]_vars PROVE ReqType'
<1> USE DEF ReqType, HasRequest, Stage
<1>1. ASSUME NEW t \in Threads, NEW r \in Requests, Receive(t, r)
      PROVE  ReqType'
  <2>1. r.kind \in {"score", "metrics", "verify", "health", "attestation"}
    BY TrustAssumption DEF TrustAssumption
  <2>2. PICK s \in {"history", "verify", "attest"} : stage' = [stage EXCEPT ![t] = s]
    BY <1>1, <2>1 DEF Receive, Goto
  <2>3. QED
    BY <1>1, <2>2 DEF Receive
<1>2. ASSUME NEW t \in Threads, Step(t), ~Respond(t)
      PROVE  ReqType'
  <2>1. req' = req /\ stage[t] # "idle"
    BY <1>2 DEF Step, ReadFails, ReadHistory, Record, RecordFails, DryScore, Publish,
       Verify, SetGauge, TagScore, TagBand, Look, AttestEntries
  <2>2. PICK s \in Stage \ {"idle"} : stage' = [stage EXCEPT ![t] = s]
    BY <1>2 DEF Step, Goto, ReadFails, ReadHistory, Record, RecordFails, DryScore,
       Publish, Verify, SetGauge, TagScore, TagBand, Look, AttestEntries
  <2>3. QED
    BY <2>1, <2>2
<1>3. ASSUME NEW t \in Threads, Respond(t)
      PROVE  ReqType'
  BY <1>3 DEF Respond, Goto
<1>4. CASE Restart
  BY <1>4 DEF Restart
<1>5. CASE Tamper \/ Quiet \/ UNCHANGED vars
  BY <1>5 DEF Tamper, Quiet, vars, threadVars
<1>6. QED
  BY <1>1, <1>2, <1>3, <1>4, <1>5 DEF Next

(* Each step of the service is one of the ledger or leaves it alone.       *)
LEMMA LedgerUse ==
    ASSUME ReqType, [Next]_vars
    PROVE  [Ledger!Next]_(Ledger!vars)
<1> USE DEF ledgerVars, Ledger!vars
<1>1. ASSUME NEW t \in Threads, NEW r \in Requests, Receive(t, r)
      PROVE  UNCHANGED Ledger!vars
  BY <1>1 DEF Receive
<1>2. ASSUME NEW t \in Threads, Record(t) \/ RecordFails(t)
      PROVE  [Ledger!Next]_(Ledger!vars)
  <2>1. Body(req[t]) \in Bodies
    BY <1>2 DEF ReqType, HasRequest, Record, RecordFails, Bodies
  <2>2. QED
    BY <1>2, <2>1 DEF Record, RecordFails, Ledger!Next
<1>3. ASSUME NEW t \in Threads, Step(t), ~Record(t), ~RecordFails(t)
      PROVE  UNCHANGED Ledger!vars
  BY <1>3 DEF Step, ReadFails, ReadHistory, DryScore, Publish, Verify, SetGauge,
     TagScore, TagBand, Look, AttestEntries, Respond
<1>4. CASE Restart \/ Quiet \/ UNCHANGED vars
  BY <1>4 DEF Restart, Quiet, vars
<1>5. CASE Tamper
  BY <1>5 DEF Tamper, Ledger!Next
<1>6. QED
  BY <1>1, <1>2, <1>3, <1>4, <1>5 DEF Next

(* So the service behaves towards the file as the ledger does.             *)
LEMMA ServiceUsesLedger == Spec => Ledger!Spec
<1>1. Init => ReqType /\ Ledger!Init
  BY DEF Init, ReqType, HasRequest, Stage
<1>2. QED
  BY <1>1, ReqStep, LedgerUse, PTL DEF Spec, Ledger!Spec

LEMMA SameLedgerStep ==
    [Ledger!Next]_(Ledger!vars) => [LedgerProofs!Next]_(LedgerProofs!vars)
BY DEF Ledger!Next, LedgerProofs!Next, Ledger!vars, LedgerProofs!vars,
     Ledger!AppendEntry, LedgerProofs!AppendEntry, Ledger!AppendCutShort,
     LedgerProofs!AppendCutShort, Ledger!Tamper, LedgerProofs!Tamper, Ledger!Edit,
     LedgerProofs!Edit, Ledger!Delete, LedgerProofs!Delete, Ledger!Reorder,
     LedgerProofs!Reorder, Ledger!Damage,
     LedgerProofs!Damage, Ledger!Readable, LedgerProofs!Readable, Ledger!Extended,
     LedgerProofs!Extended, Ledger!NextEntry, LedgerProofs!NextEntry,
     Ledger!HeadHash, LedgerProofs!HeadHash, Ledger!EntryHash,
     LedgerProofs!EntryHash, Ledger!Edits, LedgerProofs!Edits, Ledger!Without,
     LedgerProofs!Without

LEMMA SameLedger == Ledger!Spec => LedgerProofs!Spec
<1>1. Ledger!Init => LedgerProofs!Init
  BY DEF Ledger!Init, LedgerProofs!Init
<1>2. QED
  BY <1>1, SameLedgerStep, PTL DEF Ledger!Spec, LedgerProofs!Spec

(* Under any number of concurrent scores, scrapes and attestations, a      *)
(* ledger nobody edited verifies whenever it can be read.                  *)
THEOREM ServiceKeepsChain ==
    Spec => []UndamagedVerifies
<1>1. LedgerProofs!Spec => []LedgerProofs!UndamagedVerifies
  BY LedgerConstants, LedgerProofs!NoFalseAlarm
<1>2. LedgerProofs!UndamagedVerifies => UndamagedVerifies
  BY DEF LedgerProofs!UndamagedVerifies, UndamagedVerifies, Ledger!UndamagedVerifies,
     LedgerProofs!Readable, Ledger!Readable, LedgerProofs!Verified, Ledger!Verified,
     LedgerProofs!Broken, Ledger!Broken, LedgerProofs!LinkOk, Ledger!LinkOk,
     LedgerProofs!EntryHash, Ledger!EntryHash
<1>3. QED
  BY <1>1, <1>2, SameLedger, ServiceUsesLedger, PTL

-----------------------------------------------------------------------------

(* What the ledger guarantees its callers.                                 *)
Kept == LedgerProofs!Shape /\ LedgerProofs!Told /\ LedgerProofs!Logged

LEMMA SameOperators ==
    /\ Ledger!Readable <=> LedgerProofs!Readable
    /\ Ledger!Readable' <=> LedgerProofs!Readable'
    /\ Ledger!Verified <=> LedgerProofs!Verified
    /\ \A b : Ledger!NextEntry(b) = LedgerProofs!NextEntry(b)
    /\ \A b : Ledger!AppendEntry(b) => LedgerProofs!AppendEntry(b)
    /\ \A e : Ledger!IsEntry(e) <=> LedgerProofs!IsEntry(e)
<1>1. (Ledger!Readable <=> LedgerProofs!Readable) /\ (Ledger!Readable' <=> LedgerProofs!Readable')
  BY DEF Ledger!Readable, LedgerProofs!Readable
<1>2. Ledger!Verified <=> LedgerProofs!Verified
  BY <1>1 DEF Ledger!Verified, LedgerProofs!Verified, LedgerProofs!Broken, Ledger!Broken,
     LedgerProofs!LinkOk, Ledger!LinkOk, LedgerProofs!EntryHash, Ledger!EntryHash
<1>3. \A b : Ledger!NextEntry(b) = LedgerProofs!NextEntry(b)
  BY DEF Ledger!NextEntry, LedgerProofs!NextEntry, Ledger!HeadHash, LedgerProofs!HeadHash,
     Ledger!EntryHash, LedgerProofs!EntryHash
<1>4. \A b : Ledger!AppendEntry(b) => LedgerProofs!AppendEntry(b)
  BY <1>1, <1>3 DEF Ledger!AppendEntry, LedgerProofs!AppendEntry, Ledger!Extended,
     LedgerProofs!Extended
<1>5. \A e : Ledger!IsEntry(e) <=> LedgerProofs!IsEntry(e)
  BY DEF Ledger!IsEntry, LedgerProofs!IsEntry
<1>6. QED
  BY <1>1, <1>2, <1>3, <1>4, <1>5

(* What a step of the service does to the file, whoever takes it.          *)
LEMMA FileSteps ==
    ASSUME LedgerProofs!LedgerAssumption, ReqType, Kept, [Next]_vars
    PROVE  /\ Kept' /\ written \subseteq written'
           /\ damaged' = 0 => damaged = 0 /\ Len(file) <= Len(file')
           /\ damaged' = 0 =>
                 \A e : LedgerProofs!Entered(e) => LedgerProofs!Entered(e)'
           /\ Ledger!Readable \/ UNCHANGED ledgerVars
<1>1. [LedgerProofs!Next]_(LedgerProofs!vars)
  BY LedgerUse, SameLedgerStep
<1>2. LedgerProofs!Shape' /\ LedgerProofs!Told'
  BY <1>1, LedgerProofs!LedgerStep DEF Kept
<1>3. LedgerProofs!Logged'
  BY <1>1, LedgerProofs!LoggedStep DEF Kept
<1>4. /\ written \subseteq written'
      /\ Ledger!Readable \/ UNCHANGED ledgerVars
  BY <1>1, SameOperators, LedgerProofs!WrittenStays DEF ledgerVars, LedgerProofs!vars
<1>5. ASSUME damaged' = 0
      PROVE  /\ damaged = 0 /\ Len(file) <= Len(file')
             /\ \A e : LedgerProofs!Entered(e) => LedgerProofs!Entered(e)'
  BY <1>1, <1>5, LedgerProofs!LedgerGrows DEF Kept
<1>6. QED
  BY <1>2, <1>3, <1>4, <1>5 DEF Kept

(* A file nobody edited, when it can be read.                              *)
LEMMA ReadableFile ==
    ASSUME Kept, Ledger!Readable
    PROVE  /\ Len(file) \in Nat /\ DOMAIN file = 1..Len(file)
           /\ \A i \in DOMAIN file : Ledger!IsEntry(file[i])
           /\ damaged = 0 =>
                 Ledger!Verified /\ \A i \in DOMAIN file : file[i] \in written /\ file[i].seq = i
<1>1. Len(file) \in Nat /\ DOMAIN file = 1..Len(file)
  BY LedgerProofs!SequenceDomain DEF Kept, LedgerProofs!Shape
<1>2. \A i \in DOMAIN file : file[i] # Torn
  BY DEF Ledger!Readable
<1>3. LedgerProofs!Readable
  BY SameOperators
<1>4. \A i \in DOMAIN file : Ledger!IsEntry(file[i])
  BY <1>2, SameOperators DEF Kept, LedgerProofs!Shape
<1>5. ASSUME damaged = 0
      PROVE  Ledger!Verified /\ \A i \in DOMAIN file : file[i] \in written /\ file[i].seq = i
  <2>1. LedgerProofs!Broken = {}
    BY <1>3, <1>5 DEF Kept, LedgerProofs!Told
  <2>2. \A i \in DOMAIN file : file[i] \in written
    BY <1>2, <1>5 DEF Kept, LedgerProofs!Logged
  <2>3. \A i \in DOMAIN file : file[i].seq = i
    BY <2>1 DEF LedgerProofs!Broken, LedgerProofs!LinkOk
  <2>4. QED
    BY <1>3, <2>1, <2>2, <2>3, SameOperators DEF LedgerProofs!Verified
<1>6. QED
  BY <1>1, <1>4, <1>5

-----------------------------------------------------------------------------

(* A set of line numbers has a greatest one.                               *)
Below == {p \in Nat \X Nat : p[1] < p[2]}

LEMMA Greatest ==
    ASSUME NEW n \in Nat, NEW S, S \subseteq 1..n, S # {}
    PROVE  \E m \in S : \A i \in S : i <= m
<1> DEFINE D == {n - i : i \in S}
<1>1. \A i \in S : i \in 1..n /\ n - i \in Nat
  OBVIOUS
<1>2. D \subseteq Nat /\ D # {}
  BY <1>1
<1>3. IsWellFoundedOn(Below, Nat)
  BY NatLessThanWellFounded DEF Below, OpToRel
<1>4. PICK d \in D : \A i \in D : <<i, d>> \notin Below
  <2> HIDE DEF D
  <2> QED
    BY <1>2, <1>3, WFMin
<1>5. PICK m \in S : d = n - m
  OBVIOUS
<1>6. ASSUME NEW i \in S
      PROVE  i <= m
  <2>1. <<n - i, n - m>> \notin Below
    BY <1>4, <1>5
  <2>2. ~(n - i < n - m)
    BY <1>1, <2>1 DEF Below
  <2> QED
    BY <1>1, <2>2
<1> QED
  BY <1>6

(* The last entry of a model is a line of the file.                        *)
LEMMA LastEntry ==
    ASSUME Kept, Ledger!Readable, NEW m
    PROVE  \/ LastOf(m) = NoEntry
           \/ \E i \in DOMAIN file : LastOf(m) = file[i] /\ file[i].body.model = m
<1>1. CASE OfModel(m) = {}
  BY <1>1 DEF LastOf
<1>2. CASE OfModel(m) # {}
  <2>1. OfModel(m) \subseteq 1..Len(file) /\ Len(file) \in Nat
    BY ReadableFile DEF OfModel
  <2>2. \E i \in OfModel(m) : \A j \in OfModel(m) : j <= i
    BY <1>2, <2>1, Greatest
  <2>3. \E i \in OfModel(m) : LastOf(m) = file[i]
    BY <1>2, <2>2 DEF LastOf
  <2>4. QED
    BY <2>3 DEF OfModel
<1>3. QED
  BY <1>1, <1>2

-----------------------------------------------------------------------------

(* What a thread holds when it has come to a stage.                        *)
Held ==
    /\ DOMAIN previous = Threads /\ DOMAIN recorded = Threads
    /\ DOMAIN checked = Threads /\ DOMAIN attested = Threads
    /\ \A t \in Threads :
        /\ stage[t] \in {"history", "append", "publish", "tag", "band"} =>
              req[t].kind = "score"
        /\ stage[t] \in {"verify", "gauge"} => req[t].kind \in {"score", "metrics", "verify"}
        /\ stage[t] = "attest" => req[t].kind \in {"verify", "health", "attestation"}
        /\ stage[t] = "latest" => req[t].kind = "attestation"
        /\ stage[t] \in {"tag", "band"} => req[t].record
        /\ stage[t] = "idle" => recorded[t] = NoEntry

LEMMA HeldStep == ASSUME ReqType, Held, [Next]_vars PROVE Held'
<1> USE DEF Held, ReqType, HasRequest, Stage, Goto
<1>1. ASSUME NEW t \in Threads, NEW r \in Requests, Receive(t, r)
      PROVE  Held'
  <2>1. r.kind \in {"score", "metrics", "verify", "health", "attestation"}
    BY TrustAssumption DEF TrustAssumption
  <2>2. /\ r.kind = "score" => stage' = [stage EXCEPT ![t] = "history"]
        /\ r.kind = "metrics" => stage' = [stage EXCEPT ![t] = "verify"]
        /\ r.kind \in {"verify", "health", "attestation"} =>
              stage' = [stage EXCEPT ![t] = "attest"]
    BY <1>1 DEF Receive
  <2>3. QED
    BY <1>1, <2>1, <2>2 DEF Receive
<1>2. ASSUME NEW t \in Threads, ReadFails(t) \/ ReadHistory(t)
      PROVE  Held'
  BY <1>2 DEF ReadFails, ReadHistory
<1>3. ASSUME NEW t \in Threads, Record(t) \/ RecordFails(t) \/ DryScore(t)
      PROVE  Held'
  BY <1>3 DEF Record, RecordFails, DryScore
<1>4. ASSUME NEW t \in Threads, Publish(t) \/ Verify(t) \/ SetGauge(t) \/ TagScore(t) \/ TagBand(t)
      PROVE  Held'
  BY <1>4 DEF Publish, Verify, SetGauge, TagScore, TagBand
<1>5. ASSUME NEW t \in Threads, Look(t) \/ AttestEntries(t) \/ Respond(t)
      PROVE  Held'
  BY <1>5 DEF Look, AttestEntries, Respond
<1>6. CASE Restart
  BY <1>6 DEF Restart
<1>7. CASE Tamper \/ Quiet \/ UNCHANGED vars
  BY <1>7 DEF Tamper, Quiet, vars, threadVars
<1>8. QED
  BY <1>1, <1>2, <1>3, <1>4, <1>5, <1>6, <1>7 DEF Next, Step

-----------------------------------------------------------------------------

(* The entry a thread recorded is the one of its request.                  *)
Own(t) == recorded[t] \in written /\ recorded[t].body = Body(req[t])

(* It is in the file for good, or the thread will find out.                *)
Acknowledged(t) ==
    /\ recorded[t] # NoEntry =>
        /\ Own(t)
        /\ damaged = 0 =>
            \/ LedgerProofs!Entered(recorded[t])
            \/ ~Ledger!Readable /\ stage[t] \in {"publish", "verify", "failed"}
    /\ stage[t] \in {"publish", "verify", "gauge", "tag", "band"} =>
          (req[t].kind = "score" /\ req[t].record => Own(t))

Acknowledgements == \A t \in Threads : Acknowledged(t)

LEMMA RecordOwns ==
    ASSUME LedgerProofs!LedgerAssumption, ReqType, Kept, NEW t \in Threads, Record(t)
    PROVE  \E e : /\ recorded' = [recorded EXCEPT ![t] = e]
                  /\ e \in written' /\ e.body = Body(req[t]) /\ e.seq = Len(file) + 1
                  /\ LedgerProofs!Entered(e)' \/ ~Ledger!Readable'
<1> DEFINE b == Body(req[t])
<1>1. b \in Bodies
  BY DEF ReqType, HasRequest, Record, Bodies
<1>2. LedgerProofs!AppendEntry(b) /\ recorded' = [recorded EXCEPT ![t] = Ledger!NextEntry(b)]
  BY SameOperators DEF Record
<1>3. Ledger!NextEntry(b).body = b /\ Ledger!NextEntry(b).seq = Len(file) + 1
  BY DEF Ledger!NextEntry
<1> HIDE DEF b
<1>4. PICK e : /\ e = LedgerProofs!NextEntry(b)
               /\ e \in written' /\ (LedgerProofs!Entered(e)' \/ ~LedgerProofs!Readable')
  BY <1>1, <1>2, LedgerProofs!AppendEnters DEF Kept
<1>5. e = Ledger!NextEntry(b)
  BY <1>4, SameOperators
<1>6. LedgerProofs!Entered(e)' \/ ~Ledger!Readable'
  BY <1>4, SameOperators
<1>7. QED
  BY <1>2, <1>3, <1>4, <1>5, <1>6 DEF b

LEMMA AcknowledgementsStep ==
    ASSUME LedgerProofs!LedgerAssumption, ReqType, Held, Kept, Acknowledgements, [Next]_vars
    PROVE  Acknowledgements'
<1>1. /\ written \subseteq written' /\ (damaged' = 0 => damaged = 0)
      /\ damaged' = 0 => \A e : LedgerProofs!Entered(e) => LedgerProofs!Entered(e)'
      /\ ~Ledger!Readable => ~Ledger!Readable'
  <2>1. UNCHANGED ledgerVars => (Ledger!Readable' <=> Ledger!Readable)
    BY DEF ledgerVars, Ledger!Readable
  <2>2. QED
    BY <2>1, FileSteps
<1>2. ASSUME NEW t \in Threads,
             recorded'[t] = recorded[t], req'[t] = req[t], stage'[t] = stage[t]
      PROVE  Acknowledged(t)'
  BY <1>1, <1>2 DEF Acknowledgements, Acknowledged, Own
<1> DEFINE Alone(t) == \A u \in Threads \ {t} :
                recorded'[u] = recorded[u] /\ req'[u] = req[u] /\ stage'[u] = stage[u]
<1>3. ASSUME NEW t \in Threads, Step(t) \/ \E r \in Requests : Receive(t, r)
      PROVE  Alone(t)
  BY <1>3 DEF ReqType, Held, Goto, Step, Receive, ReadFails, ReadHistory, Record, RecordFails,
     DryScore, Publish, Verify, SetGauge, TagScore, TagBand, Look, AttestEntries, Respond
<1>4. ASSUME NEW t \in Threads, Acknowledged(t)', Alone(t)
      PROVE  Acknowledgements'
  BY <1>2, <1>4 DEF Acknowledgements
<1> HIDE DEF Alone
<1>5. ASSUME NEW t \in Threads, NEW r \in Requests, Receive(t, r)
      PROVE  Acknowledged(t)'
  <2>1. recorded'[t] = NoEntry /\ req'[t] = r
    BY <1>5 DEF Held, ReqType, Receive
  <2>2. r.kind = "score" => stage'[t] = "history"
    BY <1>5 DEF ReqType, Goto, Receive
  <2>3. QED
    BY <2>1, <2>2 DEF Acknowledged
<1>6. ASSUME NEW t \in Threads, ReadFails(t) \/ ReadHistory(t) \/ RecordFails(t) \/ DryScore(t)
                               \/ Publish(t)
      PROVE  Acknowledged(t)'
  <2>1. recorded'[t] = recorded[t] /\ req'[t] = req[t]
    BY <1>6 DEF ReadFails, ReadHistory, RecordFails, DryScore, Publish
  <2>2. \/ stage[t] = "history" /\ stage'[t] = "append"
        \/ stage[t] = "append" /\ stage'[t] = "publish" /\ ~req[t].record
        \/ stage[t] = "publish" /\ stage'[t] = "verify"
        \/ stage'[t] = "failed"
    BY <1>6 DEF ReqType, Goto, ReadFails, ReadHistory, RecordFails, DryScore, Publish
  <2>3. QED
    BY <1>1, <2>1, <2>2 DEF Acknowledgements, Acknowledged, Own
<1>7. ASSUME NEW t \in Threads, Record(t)
      PROVE  Acknowledged(t)'
  <2>1. PICK e : /\ recorded' = [recorded EXCEPT ![t] = e]
                 /\ e \in written' /\ e.body = Body(req[t])
                 /\ LedgerProofs!Entered(e)' \/ ~Ledger!Readable'
    BY <1>7, RecordOwns
  <2>2. recorded'[t] = e /\ req'[t] = req[t] /\ stage'[t] = "publish"
    BY <1>7, <2>1 DEF ReqType, Held, Goto, Record
  <2>3. Own(t)'
    BY <2>1, <2>2 DEF Own, Body
  <2>4. QED
    BY <2>1, <2>2, <2>3 DEF Acknowledged
<1>8. ASSUME NEW t \in Threads, Verify(t) \/ SetGauge(t) \/ TagScore(t) \/ TagBand(t)
      PROVE  Acknowledged(t)'
  <2>1. recorded'[t] = recorded[t] /\ req'[t] = req[t]
    BY <1>8 DEF Verify, SetGauge, TagScore, TagBand
  <2>2. \/ stage[t] = "verify" /\ stage'[t] = "gauge" /\ Ledger!Readable
        \/ stage[t] \in {"gauge", "tag", "band"}
    BY <1>8 DEF ReqType, Goto, Verify, SetGauge, TagScore, TagBand
  <2>3. QED
    BY <1>1, <2>1, <2>2 DEF Acknowledgements, Acknowledged, Own
<1>9. ASSUME NEW t \in Threads, Look(t) \/ AttestEntries(t)
      PROVE  Acknowledged(t)'
  <2>1. recorded'[t] = recorded[t] /\ req'[t] = req[t]
    BY <1>9 DEF Look, AttestEntries
  <2>2. /\ stage[t] \in {"attest", "latest"} /\ stage'[t] \in {"latest", "verify", "done"}
        /\ req[t].kind # "score"
    BY <1>9 DEF ReqType, Held, Goto, Look, AttestEntries
  <2>3. QED
    BY <1>1, <2>1, <2>2 DEF Acknowledgements, Acknowledged, Own
<1>10. ASSUME NEW t \in Threads, Respond(t)
       PROVE  Acknowledged(t)'
  BY <1>10 DEF Respond, Goto, Acknowledged, ReqType, Held
<1>11. CASE Restart
  BY <1>11 DEF Restart, Acknowledgements, Acknowledged
<1>12. CASE Tamper \/ Quiet \/ UNCHANGED vars
  BY <1>2, <1>12 DEF Tamper, Quiet, vars, threadVars, Acknowledgements
<1>13. QED
  BY <1>3, <1>4, <1>5, <1>6, <1>7, <1>8, <1>9, <1>10, <1>11, <1>12 DEF Next, Step

-----------------------------------------------------------------------------

(* Tags are written back once their score is in the ledger.                *)
LEMMA TagsStep ==
    ASSUME LedgerProofs!LedgerAssumption, ReqType, Held, Kept, Acknowledgements,
           TagsAreRecorded, [Next]_vars
    PROVE  TagsAreRecorded'
<1>1. written \subseteq written'
  BY FileSteps
<1>2. ASSUME NEW t \in Threads, TagScore(t) \/ TagBand(t)
      PROVE  TagsAreRecorded'
  <2>1. Own(t)
    BY <1>2 DEF TagScore, TagBand, Held, Acknowledgements, Acknowledged
  <2>2. /\ recorded[t] \in written' /\ Version(recorded[t].body) = Version(req[t])
        /\ recorded[t].body.score = req[t].score
    BY <1>1, <2>1 DEF Own, Body, Version
  <2>3. /\ tags' \subseteq tags \cup {ScoreTag(req[t])}
        /\ bandTags' \subseteq bandTags \cup {BandTag(req[t])}
    BY <1>2 DEF TagScore, TagBand, Retagged
  <2>4. ASSUME NEW g \in tags'
        PROVE  \E e \in written' : Version(e.body) = g.of /\ e.body.score = g.score
    <3>1. CASE g \in tags
      BY <1>1, <3>1 DEF TagsAreRecorded
    <3>2. CASE g = ScoreTag(req[t])
      BY <2>2, <3>2 DEF ScoreTag
    <3>3. QED
      BY <2>3, <3>1, <3>2
  <2>5. ASSUME NEW g \in bandTags'
        PROVE  \E e \in written' : Version(e.body) = g.of /\ BandRank(e.body.score) = g.band
    <3>1. CASE g \in bandTags
      BY <1>1, <3>1 DEF TagsAreRecorded
    <3>2. CASE g = BandTag(req[t])
      BY <2>2, <3>2 DEF BandTag
    <3>3. QED
      BY <2>3, <3>1, <3>2
  <2>6. QED
    BY <2>4, <2>5 DEF TagsAreRecorded, Version, BandRank, BANDS
<1>3. ASSUME UNCHANGED <<tags, bandTags>>
      PROVE  TagsAreRecorded'
  <2>1. \A g \in tags' : \E e \in written' : Version(e.body) = g.of /\ e.body.score = g.score
    BY <1>1, <1>3 DEF TagsAreRecorded
  <2>2. \A g \in bandTags' :
           \E e \in written' : Version(e.body) = g.of /\ BandRank(e.body.score) = g.band
    BY <1>1, <1>3 DEF TagsAreRecorded
  <2>3. QED
    BY <2>1, <2>2 DEF TagsAreRecorded, Version, BandRank, BANDS
<1>4. ASSUME NEW t \in Threads, Step(t), ~TagScore(t), ~TagBand(t)
      PROVE  UNCHANGED mlflow
  BY <1>4 DEF Step, ReadFails, ReadHistory, Record, RecordFails, DryScore, Publish, Verify,
     SetGauge, Look, AttestEntries, Respond, published
<1>5. ASSUME \/ \E t \in Threads, r \in Requests : Receive(t, r)
             \/ Tamper \/ Quiet \/ UNCHANGED vars
      PROVE  UNCHANGED mlflow
  BY <1>5 DEF Receive, Tamper, Quiet, vars, published
<1>6. CASE Restart
  BY <1>3, <1>6 DEF Restart
<1>7. QED
  BY <1>2, <1>3, <1>4, <1>5, <1>6 DEF Next, mlflow

-----------------------------------------------------------------------------

(* The entry a score is compared with was written before it.               *)
Preceded(t) ==
    previous[t] # NoEntry =>
        /\ Ledger!IsEntry(previous[t])
        /\ damaged = 0 /\ stage[t] \in {"append", "publish"} =>
            /\ previous[t] \in written /\ previous[t].body.model = req[t].model
            /\ previous[t].seq <= Len(file)
            /\ stage[t] = "publish" /\ req[t].record => previous[t].seq < recorded[t].seq

Comparisons == CountedRegressionsAreReal /\ \A t \in Threads : Preceded(t)

(* An entry has a sequence number, whatever the state.                     *)
LEMMA EntryFrame == \A e : Ledger!IsEntry(e)' <=> Ledger!IsEntry(e)
BY DEF Ledger!IsEntry

LEMMA ComparisonsStep ==
    ASSUME LedgerProofs!LedgerAssumption, ReqType, Held, Kept, Acknowledgements, Comparisons,
           [Next]_vars
    PROVE  Comparisons'
<1>1. /\ written \subseteq written' /\ Len(file) \in Nat /\ Len(file') \in Nat
      /\ damaged' = 0 => damaged = 0 /\ Len(file) <= Len(file')
  <2>1. Kept'
    BY FileSteps
  <2>2. QED
    BY <2>1, FileSteps, LedgerProofs!SequenceDomain DEF Kept, LedgerProofs!Shape
<1>2. ASSUME NEW t \in Threads, previous'[t] = previous[t], recorded'[t] = recorded[t],
             req'[t] = req[t], \/ stage'[t] = stage[t]
                               \/ stage'[t] \notin {"append", "publish"}
                               \/ stage[t] = "append" /\ ~req[t].record
      PROVE  Preceded(t)'
  <2>1. CASE previous[t] = NoEntry
    BY <1>2, <2>1 DEF Preceded
  <2>2. CASE previous[t] # NoEntry
    <3>1. Ledger!IsEntry(previous[t]) /\ Ledger!IsEntry(previous[t])'
      BY <1>2, <2>2, EntryFrame DEF Comparisons, Preceded, Ledger!IsEntry
    <3>2. previous[t].seq \in Nat
      BY <3>1 DEF Ledger!IsEntry
    <3>3. QED
      BY <1>1, <1>2, <2>2, <3>1, <3>2 DEF Comparisons, Preceded
  <2>3. QED
    BY <2>1, <2>2
<1>3. ASSUME CountedRegressionsAreReal, flagged' = flagged \/ flagged' = {}
      PROVE  CountedRegressionsAreReal'
  <2> SUFFICES ASSUME damaged' = 0, NEW e \in flagged'
               PROVE  \E d \in written' : /\ d.body.model = e.body.model
                                         /\ d.seq < e.seq
                                         /\ Regression(e.body.score, d.body.score)
    BY DEF CountedRegressionsAreReal, Regression, BandRank, BANDS, REGRESSION_POINTS
  <2>1. e \in flagged /\ damaged = 0
    BY <1>1, <1>3
  <2>2. PICK d \in written : /\ d.body.model = e.body.model
                             /\ d.seq < e.seq
                             /\ Regression(e.body.score, d.body.score)
    BY <1>3, <2>1 DEF CountedRegressionsAreReal
  <2>3. QED
    BY <1>1, <2>2
<1> DEFINE Alone(t) == \A u \in Threads \ {t} :
                /\ previous'[u] = previous[u] /\ recorded'[u] = recorded[u]
                /\ req'[u] = req[u] /\ stage'[u] = stage[u]
<1>4. ASSUME NEW t \in Threads, Step(t) \/ \E r \in Requests : Receive(t, r)
      PROVE  Alone(t)
  BY <1>4 DEF ReqType, Held, Goto, Step, Receive, ReadFails, ReadHistory, Record, RecordFails,
     DryScore, Publish, Verify, SetGauge, TagScore, TagBand, Look, AttestEntries, Respond
<1>5. ASSUME NEW t \in Threads, Preceded(t)', Alone(t), CountedRegressionsAreReal'
      PROVE  Comparisons'
  BY <1>2, <1>5 DEF Comparisons
<1> HIDE DEF Alone
<1>6. ASSUME NEW t \in Threads, NEW r \in Requests, Receive(t, r)
      PROVE  Comparisons'
  <2>1. /\ previous'[t] = previous[t] /\ recorded'[t] = recorded[t] /\ flagged' = flagged
        /\ stage'[t] \notin {"append", "publish"}
    BY <1>6, TrustAssumption DEF TrustAssumption, ReqType, Goto, Receive, published
  <2>2. Preceded(t)'
    <3>1. CASE previous[t] = NoEntry
      BY <2>1, <3>1 DEF Preceded
    <3>2. CASE previous[t] # NoEntry
      BY <2>1, <3>2, EntryFrame DEF Comparisons, Preceded, Ledger!IsEntry
    <3>3. QED
      BY <3>1, <3>2
  <2>3. QED
    BY <1>3, <1>4, <1>5, <1>6, <2>1, <2>2 DEF Comparisons
<1>7. ASSUME NEW t \in Threads, ReadHistory(t)
      PROVE  Comparisons'
  <2>1. /\ previous'[t] = LastOf(req[t].model) /\ stage'[t] = "append" /\ req'[t] = req[t]
        /\ Ledger!Readable /\ UNCHANGED <<file, written, damaged, flagged>>
    BY <1>7 DEF Held, ReqType, Goto, ReadHistory, ledgerVars, published
  <2>2. ASSUME LastOf(req[t].model) = NoEntry
        PROVE  Preceded(t)'
    BY <2>1, <2>2 DEF Preceded
  <2>3. ASSUME LastOf(req[t].model) # NoEntry
        PROVE  Preceded(t)'
    <3>1. PICK i \in DOMAIN file : /\ previous'[t] = file[i]
                                   /\ file[i].body.model = req[t].model
      BY <2>1, <2>3, LastEntry
    <3>2. /\ Ledger!IsEntry(file[i]) /\ i <= Len(file)
          /\ damaged = 0 => file[i] \in written /\ file[i].seq = i
      BY <2>1, ReadableFile
    <3>3. Ledger!IsEntry(previous[t])'
      BY <3>1, <3>2 DEF Ledger!IsEntry
    <3>4. QED
      BY <2>1, <3>1, <3>2, <3>3 DEF Preceded
  <2>4. QED
    BY <1>3, <1>4, <1>5, <1>7, <2>1, <2>2, <2>3 DEF Comparisons, Step
<1>8. ASSUME NEW t \in Threads, Record(t)
      PROVE  Comparisons'
  <2>1. PICK e : recorded' = [recorded EXCEPT ![t] = e] /\ e.seq = Len(file) + 1
    BY <1>8, RecordOwns
  <2>2. /\ recorded'[t] = e /\ previous'[t] = previous[t] /\ req'[t] = req[t]
        /\ stage[t] = "append" /\ flagged' = flagged
    BY <1>8, <2>1 DEF Held, Record, published
  <2>3. Preceded(t)'
    <3>1. CASE previous[t] = NoEntry
      BY <2>2, <3>1 DEF Preceded
    <3>2. CASE previous[t] # NoEntry
      <4>1. Ledger!IsEntry(previous[t]) /\ Ledger!IsEntry(previous[t])'
        BY <2>2, <3>2 DEF Comparisons, Preceded, Ledger!IsEntry
      <4>2. previous[t].seq \in Nat
        BY <4>1 DEF Ledger!IsEntry
      <4>3. QED
        BY <1>1, <2>1, <2>2, <3>2, <4>1, <4>2 DEF Comparisons, Preceded
    <3>3. QED
      BY <3>1, <3>2
  <2>4. QED
    BY <1>3, <1>4, <1>5, <1>8, <2>2, <2>3 DEF Comparisons, Step
<1>9. ASSUME NEW t \in Threads, Publish(t)
      PROVE  Comparisons'
  <2>1. /\ recorded'[t] = recorded[t] /\ previous'[t] = previous[t] /\ req'[t] = req[t]
        /\ stage[t] = "publish" /\ stage'[t] = "verify"
        /\ UNCHANGED <<file, written, damaged>>
    BY <1>9 DEF ReqType, Goto, Publish, ledgerVars
  <2>2. CASE flagged' = flagged
    BY <1>2, <1>3, <1>4, <1>5, <1>9, <2>1, <2>2 DEF Comparisons, Step
  <2>3. CASE flagged' # flagged
    <3>1. /\ flagged' = flagged \cup {recorded[t]} /\ req[t].record /\ previous[t] # NoEntry
          /\ Regression(req[t].score, previous[t].body.score)
      BY <1>9, <2>3 DEF Publish
    <3>2. Own(t)
      BY <1>9, <2>1, <3>1 DEF Held, Acknowledgements, Acknowledged
    <3>3. /\ recorded[t].body.score = req[t].score
          /\ recorded[t].body.model = req[t].model
      BY <3>2 DEF Own, Body
    <3>4. damaged = 0 => /\ previous[t] \in written
                         /\ previous[t].body.model = req[t].model
                         /\ previous[t].seq < recorded[t].seq
      BY <2>1, <3>1 DEF Comparisons, Preceded
    <3>5. ASSUME damaged = 0, NEW e \in flagged'
          PROVE  \E d \in written : /\ d.body.model = e.body.model /\ d.seq < e.seq
                                    /\ Regression(e.body.score, d.body.score)
      <4>1. CASE e = recorded[t]
        BY <3>1, <3>3, <3>4, <3>5, <4>1
      <4>2. CASE e \in flagged
        BY <3>5, <4>2 DEF Comparisons, CountedRegressionsAreReal
      <4>3. QED
        BY <3>1, <4>1, <4>2
    <3>6. CountedRegressionsAreReal'
      BY <2>1, <3>5 DEF CountedRegressionsAreReal, Regression, BandRank, BANDS,
         REGRESSION_POINTS
    <3>7. QED
      BY <1>2, <1>4, <1>5, <1>9, <2>1, <3>6 DEF Step
  <2>4. QED
    BY <2>2, <2>3
<1>10. ASSUME NEW t \in Threads,
              ReadFails(t) \/ RecordFails(t) \/ DryScore(t) \/ Verify(t) \/ SetGauge(t)
                \/ TagScore(t) \/ TagBand(t) \/ Look(t) \/ AttestEntries(t)
       PROVE  Comparisons'
  <2>1. /\ recorded'[t] = recorded[t] /\ previous'[t] = previous[t] /\ req'[t] = req[t]
        /\ flagged' = flagged
    BY <1>10 DEF ReadFails, RecordFails, DryScore, Verify, SetGauge, TagScore, TagBand, Look,
       AttestEntries, published
  <2>2. \/ stage'[t] \notin {"append", "publish"}
        \/ stage[t] = "append" /\ ~req[t].record
    <3>1. CASE ReadFails(t) \/ RecordFails(t) \/ DryScore(t) \/ Verify(t) \/ SetGauge(t)
      BY <3>1 DEF ReqType, Goto, ReadFails, RecordFails, DryScore, Verify, SetGauge
    <3>2. CASE TagScore(t) \/ TagBand(t) \/ AttestEntries(t)
      BY <3>2 DEF ReqType, Goto, TagScore, TagBand, AttestEntries
    <3>3. CASE Look(t)
      BY <3>3 DEF ReqType, Goto, Look
    <3>4. QED
      BY <1>10, <3>1, <3>2, <3>3
  <2>3. QED
    BY <1>2, <1>3, <1>4, <1>5, <1>10, <2>1, <2>2 DEF Comparisons, Step
<1>11. ASSUME NEW t \in Threads, Respond(t)
       PROVE  Comparisons'
  <2>1. previous'[t] = NoEntry /\ flagged' = flagged
    BY <1>11 DEF Held, Respond, published
  <2>2. Preceded(t)'
    BY <2>1 DEF Preceded
  <2>3. QED
    BY <1>3, <1>4, <1>5, <1>11, <2>1, <2>2 DEF Comparisons, Step
<1>12. CASE Restart
  BY <1>3, <1>12 DEF Restart, Comparisons, Preceded
<1>13. CASE Tamper \/ Quiet \/ UNCHANGED vars
  BY <1>2, <1>3, <1>13 DEF Tamper, Quiet, vars, threadVars, published, Comparisons
<1>14. QED
  BY <1>6, <1>7, <1>8, <1>9, <1>10, <1>11, <1>12, <1>13 DEF Next, Step

-----------------------------------------------------------------------------

(* A thread about to set the gauge has found an unedited ledger in order.  *)
Gauges ==
    /\ \A t \in Threads : stage[t] = "gauge" /\ damaged = 0 => checked[t]
    /\ \A t \in Threads :
          stage[t] = "done" /\ req[t].kind = "metrics" /\ damaged = 0 => ledgerOk = 1

LEMMA GaugesStep ==
    ASSUME LedgerProofs!LedgerAssumption, ReqType, Held, Kept, Gauges, [Next]_vars
    PROVE  Gauges'
<1> USE DEF ReqType, Goto, Gauges
<1>1. damaged' = 0 => damaged = 0
  BY FileSteps
<1>2. ASSUME NEW t \in Threads, NEW r \in Requests, Receive(t, r)
      PROVE  Gauges'
  <2>1. r.kind \in {"score", "metrics", "verify", "health", "attestation"}
    BY TrustAssumption DEF TrustAssumption
  <2>2. \E s \in {"history", "verify", "attest"} : stage' = [stage EXCEPT ![t] = s]
    BY <1>2, <2>1 DEF Receive
  <2>3. QED
    BY <1>1, <1>2, <2>2 DEF Receive, published
<1>3. ASSUME NEW t \in Threads, Verify(t)
      PROVE  Gauges'
  <2>1. damaged = 0 => Ledger!Verified
    BY <1>3, ReadableFile DEF Verify
  <2>2. QED
    BY <1>1, <1>3, <2>1 DEF Held, Verify, published
<1>4. ASSUME NEW t \in Threads, SetGauge(t)
      PROVE  Gauges'
  BY <1>1, <1>4 DEF SetGauge
<1>5. ASSUME NEW t \in Threads, TagScore(t) \/ TagBand(t) \/ AttestEntries(t)
      PROVE  Gauges'
  BY <1>1, <1>5 DEF Held, TagScore, TagBand, AttestEntries, published
<1>6. ASSUME NEW t \in Threads, Respond(t)
      PROVE  Gauges'
  BY <1>1, <1>6 DEF Held, Respond, published
<1>7. ASSUME NEW t \in Threads, ReadFails(t) \/ ReadHistory(t) \/ Record(t) \/ RecordFails(t)
                                  \/ DryScore(t) \/ Publish(t) \/ Look(t)
      PROVE  Gauges'
  <2>1. UNCHANGED <<req, checked, ledgerOk>>
    BY <1>7 DEF ReadFails, ReadHistory, Record, RecordFails, DryScore, Publish, Look,
       published
  <2>2. CASE Look(t)
    <3>1. \/ stage' = [stage EXCEPT ![t] = "latest"] \/ stage' = [stage EXCEPT ![t] = "verify"]
          \/ stage' = [stage EXCEPT ![t] = "done"]
      BY <2>2 DEF Look
    <3>2. stage'[t] = "done" => req[t].kind # "metrics"
      BY <2>2 DEF Look, Held
    <3>3. QED
      BY <1>1, <2>1, <3>1, <3>2
  <2>3. CASE ~Look(t)
    <3>1. \E s \in {"failed", "append", "publish", "verify"} : stage' = [stage EXCEPT ![t] = s]
      BY <1>7, <2>3 DEF ReadFails, ReadHistory, Record, RecordFails, DryScore, Publish
    <3>2. QED
      BY <1>1, <2>1, <3>1
  <2>4. QED
    BY <2>2, <2>3
<1>8. CASE Restart
  BY <1>8 DEF Restart
<1>9. CASE Tamper \/ Quiet \/ UNCHANGED vars
  BY <1>1, <1>9 DEF Tamper, Quiet, vars, threadVars, published
<1>10. QED
  BY <1>2, <1>3, <1>4, <1>5, <1>6, <1>7, <1>8, <1>9 DEF Next, Step

-----------------------------------------------------------------------------

(* Between the two reads of an attestation the ledger only grew, and what  *)
(* a thread will say of an unedited ledger is that it is in order.         *)
Attesting(t) ==
    /\ DOMAIN attested[t] = {"ok", "entries", "covered"}
    /\ attested[t].entries \in Nat
    /\ /\ stage[t] \in {"latest", "verify", "gauge", "done"} /\ damaged = 0
       /\ req[t].kind \in {"verify", "health", "attestation"}
       => attested[t].ok
    /\ stage[t] = "latest" /\ damaged = 0 => attested[t].entries <= Len(file)
    /\ /\ stage[t] = "done" /\ req[t].kind = "attestation"
       /\ attested[t].entries > 0 /\ damaged = 0
       => \E e \in attested[t].covered : e.seq >= attested[t].entries

Attestations == \A t \in Threads : Attesting(t)

LEMMA AttestationsStep ==
    ASSUME LedgerProofs!LedgerAssumption, ReqType, Held, Kept, Attestations, [Next]_vars
    PROVE  Attestations'
<1>1. /\ Len(file) \in Nat /\ Len(file') \in Nat
      /\ damaged' = 0 => damaged = 0 /\ Len(file) <= Len(file')
  <2>1. Kept'
    BY FileSteps
  <2>2. QED
    BY <2>1, FileSteps, LedgerProofs!SequenceDomain DEF Kept, LedgerProofs!Shape
<1>2. ASSUME NEW t \in Threads, attested'[t] = attested[t], req'[t] = req[t],
             \/ stage'[t] = stage[t]
             \/ stage'[t] = "failed"
             \/ /\ stage[t] \in {"history", "append", "publish", "verify", "gauge", "tag", "band"}
                /\ stage'[t] # "latest"
      PROVE  Attesting(t)'
  BY <1>1, <1>2 DEF Held, Attestations, Attesting
<1> DEFINE Alone(t) == \A u \in Threads \ {t} :
                attested'[u] = attested[u] /\ req'[u] = req[u] /\ stage'[u] = stage[u]
<1>3. ASSUME NEW t \in Threads, Step(t) \/ \E r \in Requests : Receive(t, r)
      PROVE  Alone(t)
  BY <1>3 DEF ReqType, Held, Goto, Step, Receive, ReadFails, ReadHistory, Record, RecordFails,
     DryScore, Publish, Verify, SetGauge, TagScore, TagBand, Look, AttestEntries, Respond
<1>4. ASSUME NEW t \in Threads, Attesting(t)', Alone(t)
      PROVE  Attestations'
  BY <1>2, <1>4 DEF Attestations
<1> HIDE DEF Alone
<1>5. ASSUME NEW t \in Threads, NEW r \in Requests, Receive(t, r)
      PROVE  Attesting(t)'
  <2>1. /\ attested'[t] = attested[t] /\ req'[t] = r
        /\ stage'[t] \in {"history", "verify", "attest"}
        /\ stage'[t] = "verify" => r.kind = "metrics"
    BY <1>5, TrustAssumption DEF TrustAssumption, ReqType, Goto, Receive
  <2>2. QED
    BY <2>1 DEF Attestations, Attesting
<1>6. ASSUME NEW t \in Threads, ReadFails(t) \/ ReadHistory(t) \/ Record(t) \/ RecordFails(t)
                                  \/ DryScore(t) \/ Publish(t) \/ Verify(t) \/ SetGauge(t)
                                  \/ TagScore(t) \/ TagBand(t)
      PROVE  Attesting(t)'
  <2>1. /\ attested'[t] = attested[t] /\ req'[t] = req[t]
        /\ \/ stage'[t] = "failed"
           \/ /\ stage[t] \in {"history", "append", "publish", "verify", "gauge", "tag", "band"}
              /\ stage'[t] # "latest"
    BY <1>6 DEF ReqType, Goto, ReadFails, ReadHistory, Record, RecordFails, DryScore, Publish,
       Verify, SetGauge, TagScore, TagBand
  <2>2. QED
    BY <1>2, <2>1
<1>7. ASSUME NEW t \in Threads, Look(t)
      PROVE  Attesting(t)'
  <2>1. /\ attested'[t] = [ok |-> Ledger!Verified, entries |-> Len(file), covered |-> {}]
        /\ stage'[t] = "done" => req[t].kind # "attestation"
        /\ UNCHANGED <<file, damaged, req>>
    BY <1>7 DEF ReqType, Held, Goto, Look, ledgerVars
  <2>2. damaged = 0 => Ledger!Verified
    BY <1>7, ReadableFile DEF Look
  <2>3. QED
    BY <1>1, <2>1, <2>2 DEF Attesting
<1>8. ASSUME NEW t \in Threads, AttestEntries(t)
      PROVE  Attesting(t)'
  <2> DEFINE heads == {LastOf(m) : m \in {file[i].body.model : i \in DOMAIN file}}
  <2>1. /\ attested' = [attested EXCEPT ![t].covered = heads]
        /\ stage[t] = "latest" /\ stage'[t] = "done" /\ UNCHANGED <<file, damaged, req>>
        /\ Ledger!Readable
    BY <1>8 DEF ReqType, Held, Goto, AttestEntries, ledgerVars
  <2>2. ASSUME damaged = 0, attested[t].entries > 0
        PROVE  \E e \in heads : e.seq >= attested[t].entries
    <3>1. attested[t].entries <= Len(file) /\ attested[t].entries \in Nat
      BY <2>1, <2>2 DEF Attestations, Attesting
    <3>2. /\ Len(file) \in DOMAIN file /\ DOMAIN file = 1..Len(file)
          /\ file[Len(file)].seq = Len(file)
      BY <1>1, <2>1, <2>2, <3>1, ReadableFile
    <3> DEFINE m == file[Len(file)].body.model
    <3>3. Len(file) \in OfModel(m) /\ OfModel(m) \subseteq 1..Len(file)
      BY <3>2 DEF OfModel
    <3>4. \A i \in OfModel(m) : (\A j \in OfModel(m) : j <= i) => i = Len(file)
      BY <1>1, <3>3
    <3>5. \A j \in OfModel(m) : j <= Len(file)
      BY <1>1, <3>3
    <3>6. LastOf(m) = file[Len(file)]
      BY <3>3, <3>4, <3>5 DEF LastOf
    <3>7. LastOf(m) \in heads
      BY <3>2
    <3>8. QED
      BY <1>1, <3>1, <3>2, <3>6, <3>7
  <2> HIDE DEF heads
  <2>3. /\ DOMAIN attested[t] = {"ok", "entries", "covered"} /\ attested[t].entries \in Nat
        /\ damaged = 0 => attested[t].ok
    BY <2>1 DEF Held, Attestations, Attesting
  <2>4. attested'[t] = [attested[t] EXCEPT !.covered = heads]
    BY <2>1 DEF Held
  <2>5. /\ DOMAIN attested'[t] = {"ok", "entries", "covered"}
        /\ attested'[t].ok = attested[t].ok
        /\ attested'[t].entries = attested[t].entries /\ attested'[t].covered = heads
    BY <2>3, <2>4
  <2>6. QED
    BY <2>1, <2>2, <2>3, <2>5 DEF Attesting
<1>9. ASSUME NEW t \in Threads, Respond(t)
      PROVE  Attesting(t)'
  <2>1. /\ attested'[t] = [ok |-> FALSE, entries |-> 0, covered |-> {}] /\ stage'[t] = "idle"
    BY <1>9 DEF ReqType, Held, Goto, Respond
  <2>2. QED
    BY <2>1 DEF Attesting
<1>10. CASE Restart
  BY <1>10 DEF Restart, Attestations, Attesting
<1>11. CASE Tamper \/ Quiet \/ UNCHANGED vars
  BY <1>2, <1>11 DEF Tamper, Quiet, vars, threadVars, Attestations
<1>12. QED
  BY <1>3, <1>4, <1>5, <1>6, <1>7, <1>8, <1>9, <1>10, <1>11 DEF Next, Step

-----------------------------------------------------------------------------

(* The types of what the service publishes.                                *)
Published ==
    /\ checked \in [Threads -> BOOLEAN]
    /\ ledgerOk \in {0, 1}
    /\ \A s, u \in series : s.of = u.of /\ s.band = u.band => s = u
    /\ \A g, h \in tags : g.of = h.of => g = h
    /\ \A g, h \in bandTags : g.of = h.of => g = h
    /\ received \in 0..MaxReceived

LEMMA PublishedStep == ASSUME Published, [Next]_vars PROVE Published'
<1> USE DEF Published, published, mlflow
<1>1. ASSUME NEW t \in Threads, NEW r \in Requests, Receive(t, r)
      PROVE  Published'
  <2>1. received' \in 0..MaxReceived
    BY <1>1, TrustAssumption DEF TrustAssumption, Receive
  <2>2. QED
    BY <1>1, <2>1 DEF Receive
<1>2. ASSUME NEW t \in Threads, ReadFails(t) \/ ReadHistory(t) \/ Record(t) \/ RecordFails(t)
                                  \/ DryScore(t) \/ Look(t) \/ AttestEntries(t)
      PROVE  Published'
  BY <1>2 DEF ReadFails, ReadHistory, Record, RecordFails, DryScore, Look, AttestEntries
<1>3. ASSUME NEW t \in Threads, Publish(t)
      PROVE  Published'
  <2>1. \E b : series' = {s \in series : ~(s.of = Version(req[t]) /\ s.band = b)}
                   \cup {[of |-> Version(req[t]), band |-> b, score |-> req[t].score]}
    BY <1>3 DEF Publish
  <2>2. \A s, u \in series' : s.of = u.of /\ s.band = u.band => s = u
    BY <2>1
  <2>3. UNCHANGED <<checked, ledgerOk, tags, bandTags, received>>
    BY <1>3 DEF Publish
  <2>4. QED
    BY <2>2, <2>3
<1>4. ASSUME NEW t \in Threads, Verify(t)
      PROVE  Published'
  <2>1. Ledger!Verified \in BOOLEAN
    BY DEF Ledger!Verified
  <2>2. QED
    BY <1>4, <2>1 DEF Verify
<1>5. ASSUME NEW t \in Threads, SetGauge(t)
      PROVE  Published'
  BY <1>5 DEF SetGauge
<1>6. ASSUME NEW t \in Threads, TagScore(t) \/ TagBand(t)
      PROVE  Published'
  <2>1. /\ tags' = tags \/ tags' = Retagged(tags, ScoreTag(req[t]))
        /\ bandTags' = bandTags \/ bandTags' = Retagged(bandTags, BandTag(req[t]))
    BY <1>6 DEF TagScore, TagBand
  <2>2. \A g, h \in tags' : g.of = h.of => g = h
    BY <2>1 DEF Retagged
  <2>3. \A g, h \in bandTags' : g.of = h.of => g = h
    BY <2>1 DEF Retagged
  <2>4. UNCHANGED <<checked, ledgerOk, series, received>>
    BY <1>6 DEF TagScore, TagBand
  <2>5. QED
    BY <2>2, <2>3, <2>4
<1>7. ASSUME NEW t \in Threads, Respond(t)
      PROVE  Published'
  BY <1>7 DEF Respond
<1>8. CASE Restart
  BY <1>8 DEF Restart
<1>9. CASE Tamper \/ Quiet \/ UNCHANGED vars
  BY <1>9 DEF Tamper, Quiet, vars, threadVars
<1>10. QED
  BY <1>1, <1>2, <1>3, <1>4, <1>5, <1>6, <1>7, <1>8, <1>9 DEF Next, Step

-----------------------------------------------------------------------------

(* A write-back that is alone has set the score whose band it will set.    *)
Halfway(t) == stage[t] = "band" /\ Version(req[t]) \notin mixed

Tagging ==
    /\ TagsAgree
    /\ \A t \in Threads : Halfway(t) =>
        /\ ScoreTag(req[t]) \in tags
        /\ \A u \in Threads : stage[u] = "band" /\ Version(req[u]) = Version(req[t]) => u = t

LEMMA TaggingStep ==
    ASSUME ReqType, Published, Tagging, [Next]_vars
    PROVE  Tagging'
<1>1. ASSUME UNCHANGED mlflow,
             \A t \in Threads : stage'[t] = "band" <=> stage[t] = "band",
             \A t \in Threads : stage[t] = "band" => req'[t] = req[t]
      PROVE  Tagging'
  BY <1>1 DEF mlflow, Tagging, TagsAgree, BeingTagged, Halfway, ScoreTag, Version, BandRank, BANDS
<1>2. ASSUME NEW t \in Threads, TagScore(t)
      PROVE  Tagging'
  <2> DEFINE v == Version(req[t])
  <2>1. UNCHANGED <<req, bandTags>> /\ stage[t] = "tag"
    BY <1>2 DEF TagScore
  <2>2. CASE /\ tags' = Retagged(tags, ScoreTag(req[t])) /\ stage' = [stage EXCEPT ![t] = "band"]
             /\ mixed' = IF v \in HalfTagged(t) THEN mixed \cup {v} ELSE mixed \ {v}
    <3>1. v \notin mixed' => \A u \in Threads : stage[u] = "band" => Version(req[u]) # v
      BY <2>1, <2>2 DEF HalfTagged
    <3>2. /\ ScoreTag(req[t]) \in tags'
          /\ \A g \in tags' : g.of # v => g \in tags
          /\ \A g \in tags : g.of # v => g \in tags'
      BY <2>2 DEF Retagged, ScoreTag
    <3>3. \A w : w # v => (w \in mixed' <=> w \in mixed)
      BY <2>2
    <3>4. \A u \in Threads : stage'[u] = IF u = t THEN "band" ELSE stage[u]
      BY <2>2 DEF ReqType
    <3>5. ASSUME NEW g \in tags', g.of \notin mixed', ~BeingTagged(g.of)'
          PROVE  [of |-> g.of, band |-> BandRank(g.score)] \in bandTags'
      <4>1. g.of # v
        BY <2>1, <3>4, <3>5 DEF BeingTagged, Version
      <4>2. ~BeingTagged(g.of)
        BY <2>1, <3>4, <3>5 DEF BeingTagged, Version
      <4>3. QED
        BY <2>1, <3>2, <3>3, <3>5, <4>1, <4>2 DEF Tagging, TagsAgree
    <3>6. ASSUME NEW u \in Threads, Halfway(u)'
          PROVE  /\ ScoreTag(req[u]) \in tags'
                 /\ \A w \in Threads : stage'[w] = "band" /\ Version(req[w]) = Version(req[u]) => w = u
      <4>1. CASE u = t
        BY <2>1, <3>1, <3>2, <3>4, <3>6, <4>1 DEF Halfway, Version
      <4>2. CASE u # t
        <5>1. stage[u] = "band" /\ Version(req[u]) \notin mixed'
          BY <2>1, <3>4, <3>6, <4>2 DEF Halfway, Version
        <5>2. Version(req[u]) # v
          BY <3>1, <5>1
        <5>3. Halfway(u)
          BY <3>3, <5>1, <5>2 DEF Halfway
        <5>4. ScoreTag(req[u]).of # v
          BY <5>2 DEF ScoreTag
        <5>5. QED
          BY <3>2, <3>4, <5>2, <5>3, <5>4 DEF Tagging
      <4>3. QED
        BY <4>1, <4>2
    <3>7. TagsAgree'
      BY <3>5 DEF TagsAgree, BandRank, BANDS
    <3>8. QED
      BY <2>1, <3>6, <3>7 DEF Tagging, ScoreTag, Version
  <2>3. CASE /\ tags' = Retagged(tags, ScoreTag(req[t])) /\ stage' = [stage EXCEPT ![t] = "done"]
             /\ mixed' = mixed \cup {v}
    <3>1. /\ \A g \in tags' : g.of # v => g \in tags
          /\ \A g \in tags : g.of # v => g \in tags'
      BY <2>3 DEF Retagged, ScoreTag
    <3>2. \A u \in Threads : stage'[u] = "band" <=> stage[u] = "band"
      BY <2>1, <2>3 DEF ReqType
    <3>3. TagsAgree'
      <4>1. ASSUME NEW g \in tags', g.of \notin mixed', ~BeingTagged(g.of)'
            PROVE  [of |-> g.of, band |-> BandRank(g.score)] \in bandTags'
        <5>1. g \in tags /\ g.of \notin mixed
          BY <2>3, <3>1, <4>1
        <5>2. ~BeingTagged(g.of)
          BY <2>1, <3>2, <4>1 DEF BeingTagged, Version
        <5>3. QED
          BY <2>1, <5>1, <5>2 DEF Tagging, TagsAgree
      <4>2. QED
        BY <4>1 DEF TagsAgree, BandRank, BANDS
    <3>4. ASSUME NEW u \in Threads, Halfway(u)'
          PROVE  /\ ScoreTag(req[u]) \in tags'
                 /\ \A w \in Threads : stage'[w] = "band" /\ Version(req[w]) = Version(req[u]) => w = u
      <4>1. Halfway(u) /\ Version(req[u]) # v
        BY <2>1, <2>3, <3>2, <3>4 DEF Halfway, Version
      <4>2. ScoreTag(req[u]).of # v
        BY <4>1 DEF ScoreTag
      <4>3. QED
        BY <3>1, <3>2, <4>1, <4>2 DEF Tagging
    <3>5. QED
      BY <2>1, <3>3, <3>4 DEF Tagging, ScoreTag, Version
  <2>4. CASE UNCHANGED <<tags, mixed>> /\ stage' = [stage EXCEPT ![t] = "done"]
    BY <1>1, <2>1, <2>4 DEF ReqType, mlflow
  <2>5. QED
    BY <1>2, <2>2, <2>3, <2>4 DEF TagScore, Goto
<1>3. ASSUME NEW t \in Threads, TagBand(t)
      PROVE  Tagging'
  <2> DEFINE v == Version(req[t])
  <2>1. /\ UNCHANGED <<req, tags>> /\ stage[t] = "band"
        /\ \A u \in Threads : stage'[u] = IF u = t THEN "done" ELSE stage[u]
    BY <1>3 DEF TagBand, ReqType, Goto
  <2>2. mixed \subseteq mixed' /\ mixed' \subseteq mixed \cup {v}
    BY <1>3 DEF TagBand
  <2>3. \A b \in bandTags : b.of # v => b \in bandTags'
    BY <1>3 DEF TagBand, Retagged, BandTag
  <2>4. v \notin mixed' => BandTag(req[t]) \in bandTags'
    BY <1>3 DEF TagBand, Retagged
  <2>5. ASSUME NEW g \in tags', g.of \notin mixed', ~BeingTagged(g.of)'
        PROVE  [of |-> g.of, band |-> BandRank(g.score)] \in bandTags'
    <3>1. CASE g.of = v
      <4>1. Halfway(t)
        BY <2>1, <2>2, <2>5, <3>1 DEF Halfway
      <4>2. ScoreTag(req[t]) \in tags /\ g \in tags
        BY <2>1, <2>5, <4>1 DEF Tagging
      <4>3. g = ScoreTag(req[t])
        BY <3>1, <4>2 DEF Published, ScoreTag
      <4>4. QED
        BY <2>4, <2>5, <3>1, <4>3 DEF ScoreTag, BandTag
    <3>2. CASE g.of # v
      <4>1. ~BeingTagged(g.of)
        BY <2>1, <2>5, <3>2 DEF BeingTagged, Version
      <4>2. [of |-> g.of, band |-> BandRank(g.score)] \in bandTags
        BY <2>1, <2>2, <2>5, <4>1 DEF Tagging, TagsAgree
      <4>3. QED
        BY <2>3, <3>2, <4>2
    <3>3. QED
      BY <3>1, <3>2
  <2>6. TagsAgree'
    BY <2>5 DEF TagsAgree, BandRank, BANDS
  <2>7. ASSUME NEW u \in Threads, Halfway(u)'
        PROVE  /\ ScoreTag(req[u]) \in tags'
               /\ \A w \in Threads : stage'[w] = "band" /\ Version(req[w]) = Version(req[u]) => w = u
    <3>1. Halfway(u)
      BY <2>1, <2>2, <2>7 DEF Halfway, Version
    <3>2. QED
      BY <2>1, <3>1 DEF Tagging
  <2>8. QED
    BY <2>1, <2>6, <2>7 DEF Tagging, ScoreTag, Version
<1>4. ASSUME NEW t \in Threads, NEW r \in Requests, Receive(t, r)
      PROVE  Tagging'
  <2>1. stage[t] = "idle" /\ stage'[t] \in {"history", "verify", "attest"}
    BY <1>4, TrustAssumption DEF TrustAssumption, ReqType, Goto, Receive
  <2>2. QED
    BY <1>1, <1>4, <2>1 DEF ReqType, Goto, Receive, published
<1>5. ASSUME NEW t \in Threads, Step(t), ~TagScore(t), ~TagBand(t)
      PROVE  Tagging'
  <2>1. /\ stage[t] # "band" /\ UNCHANGED mlflow
        /\ \A u \in Threads \ {t} : req'[u] = req[u]
    BY <1>5 DEF ReqType, Step, ReadFails, ReadHistory, Record, RecordFails, DryScore, Publish,
       Verify, SetGauge, Look, AttestEntries, Respond, published
  <2>2. PICK s \in Stage \ {"band"} : stage' = [stage EXCEPT ![t] = s]
    <3>1. CASE ReadFails(t) \/ ReadHistory(t) \/ Record(t) \/ RecordFails(t) \/ DryScore(t)
      BY <3>1 DEF Stage, Goto, ReadFails, ReadHistory, Record, RecordFails, DryScore
    <3>2. CASE Publish(t) \/ Verify(t) \/ AttestEntries(t) \/ Respond(t)
      BY <3>2 DEF Stage, Goto, Publish, Verify, AttestEntries, Respond
    <3>3. CASE SetGauge(t)
      BY <3>3 DEF Stage, Goto, SetGauge
    <3>4. CASE Look(t)
      BY <3>4 DEF Stage, Goto, Look
    <3>5. QED
      BY <1>5, <3>1, <3>2, <3>3, <3>4 DEF Step
  <2>3. QED
    BY <1>1, <2>1, <2>2 DEF ReqType
<1>6. CASE Restart
  <2>1. /\ UNCHANGED <<tags, bandTags>> /\ \A t \in Threads : stage'[t] = "idle"
        /\ mixed' = mixed \cup {Version(req[t]) : t \in {t \in Threads : stage[t] = "band"}}
    BY <1>6 DEF Restart
  <2>2. \A w : w \notin mixed' => w \notin mixed /\ ~BeingTagged(w)
    BY <2>1 DEF BeingTagged
  <2>3. TagsAgree'
    BY <2>1, <2>2 DEF Tagging, TagsAgree, BandRank, BANDS
  <2>4. QED
    BY <2>1, <2>3 DEF Tagging, Halfway
<1>7. CASE Tamper \/ Quiet \/ UNCHANGED vars
  BY <1>1, <1>7 DEF Tamper, Quiet, vars, threadVars, published
<1>8. QED
  BY <1>2, <1>3, <1>4, <1>5, <1>6, <1>7 DEF Next

-----------------------------------------------------------------------------

IInv == ReqType /\ Held /\ Kept /\ Acknowledgements /\ TagsAreRecorded /\ Tagging /\ Comparisons
          /\ Gauges /\ Attestations /\ Published

LEMMA InitInv == ASSUME LedgerProofs!LedgerAssumption, Init PROVE IInv
<1>1. LedgerProofs!Init /\ Ledger!Init
  BY DEF Init, Ledger!Init, LedgerProofs!Init
<1>2. Kept
  BY <1>1, LedgerProofs!LedgerInit DEF Kept, LedgerProofs!Logged, LedgerProofs!Init
<1>3. ReqType /\ Held
  BY DEF Init, ReqType, HasRequest, Held, Stage
<1>4. Acknowledgements /\ TagsAreRecorded /\ Tagging
  BY DEF Init, Acknowledgements, Acknowledged, TagsAreRecorded, Tagging, TagsAgree, Halfway
<1>5. Comparisons /\ Gauges
  BY DEF Init, Comparisons, CountedRegressionsAreReal, Preceded, Gauges
<1>6. Attestations
  BY DEF Init, Attestations, Attesting
<1>7. Published
  BY TrustAssumption DEF TrustAssumption, Init, Published
<1>8. QED
  BY <1>2, <1>3, <1>4, <1>5, <1>6, <1>7 DEF IInv

LEMMA NextInv == ASSUME LedgerProofs!LedgerAssumption, IInv, [Next]_vars PROVE IInv'
BY ReqStep, HeldStep, FileSteps, AcknowledgementsStep, TagsStep, TaggingStep, ComparisonsStep, GaugesStep,
   AttestationsStep, PublishedStep DEF IInv

(* For any number of threads, requests and entries, under restarts, writes *)
(* cut short and edits of the file.                                        *)
THEOREM Invariance == Spec => []IInv
BY LedgerConstants, InitInv, NextInv, PTL DEF Spec

(* The types, with one series for a version and a band and one tag for a   *)
(* version.                                                                *)
THEOREM TypeCorrect == Spec => []TypeOK
<1>1. ASSUME IInv
      PROVE  TypeOK
  <2>1. Ledger!TypeOK
    BY <1>1 DEF IInv, Kept, LedgerProofs!Shape, Ledger!TypeOK, LedgerProofs!IsEntry, Ledger!IsEntry
  <2>2. \A t \in Threads : previous[t] = NoEntry \/ Ledger!IsEntry(previous[t])
    BY <1>1 DEF IInv, Comparisons, Preceded
  <2>3. \A t \in Threads : recorded[t] = NoEntry \/ recorded[t] \in written
    BY <1>1 DEF IInv, Acknowledgements, Acknowledged, Own
  <2>4. QED
    BY <1>1, <2>1, <2>2, <2>3 DEF IInv, ReqType, Published, TypeOK
<1>2. QED
  BY <1>1, Invariance, PTL

(* An answer that says an entry was recorded is about an entry in the      *)
(* file, whatever other threads append and whichever writes are cut short. *)
THEOREM AcknowledgedEntriesStay ==
    Spec => []AcknowledgedIsRecorded
<1>1. ASSUME IInv
      PROVE  AcknowledgedIsRecorded
  <2>1. Len(file) \in Nat
    BY <1>1, LedgerProofs!SequenceDomain DEF IInv, Kept, LedgerProofs!Shape
  <2>2. QED
    BY <1>1, <2>1 DEF IInv, Acknowledgements, Acknowledged, LedgerProofs!Entered,
       AcknowledgedIsRecorded
<1>2. QED
  BY <1>1, Invariance, PTL

(* A regression is counted only against an earlier entry of the model,     *)
(* although the history was read before the lock of the append.            *)
THEOREM RegressionsReal ==
    Spec => []CountedRegressionsAreReal
<1>1. IInv => CountedRegressionsAreReal
  BY DEF IInv, Comparisons
<1>2. QED
  BY <1>1, Invariance, PTL

(* MLflow is told only scores and bands that are in the ledger, whichever  *)
(* of the two calls fail and whatever other threads do between them.       *)
THEOREM TagsTrue == Spec => []TagsAreRecorded
<1>1. IInv => TagsAreRecorded
  BY DEF IInv
<1>2. QED
  BY <1>1, Invariance, PTL

(* The two tags of a version are of one score, but where write-backs of it *)
(* overlapped, failed or were killed half-way and none was whole since.    *)
THEOREM TagsOfOneScore == Spec => []TagsAgree
<1>1. IInv => TagsAgree
  BY DEF IInv, Tagging
<1>2. QED
  BY <1>1, Invariance, PTL

(* No scrape and no answer reports a broken chain of a ledger nobody       *)
(* edited.                                                                 *)
THEOREM NoFalseScrape == Spec => []NoFalseIntegrityAlarm
<1>1. IInv => NoFalseIntegrityAlarm
  BY DEF IInv, Gauges, Attestations, Attesting, NoFalseIntegrityAlarm
<1>2. QED
  BY <1>1, Invariance, PTL

(* An attestation covers the entry it names as the head, although the      *)
(* ledger may grow between its two reads.                                  *)
THEOREM HeadsCovered == Spec => []AttestationCoversHead
<1>1. IInv => AttestationCoversHead
  BY DEF IInv, Attestations, Attesting, AttestationCoversHead
<1>2. QED
  BY <1>1, Invariance, PTL
=============================================================================
