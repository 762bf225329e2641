----------------------------- MODULE TrustLedger -----------------------------
(***************************************************************************)
(* The trust ledger of services/model-trust/src/trust_engine.py: a JSONL   *)
(* file of entries chained by their hashes, what append() can leave in it  *)
(* when a write is cut short, what verify() finds, and what happens to the *)
(* file behind the service's back: a line edited, deleted or moved.        *)
(*                                                                         *)
(* Every method holds self._lock for its one read, or its read and write,  *)
(* and one process owns the file (replicas 1, strategy Recreate), so each  *)
(* of them is one step.  The newline that ends a line is part of the same  *)
(* write as the line and may be the part that is missing.                  *)
(***************************************************************************)
EXTENDS Integers, Sequences

CONSTANTS
    Bodies,         \* what a report contributes to an entry
    Genesis,        \* GENESIS_HASH
    Torn,           \* a line json.loads() cannot read
    Altered,        \* a hash no entry has
    DamageKinds,    \* what is done to the file from outside
    MaxEntries      \* bound: the number of lines of the file

ASSUME LedgerAssumption ==
    /\ MaxEntries \in Nat
    /\ DamageKinds \subseteq {"edit", "delete", "reorder"}

VARIABLES
    file,       \* the lines of the file
    ended,      \* the last line is terminated
    written,    \* history: the entries whose JSON was written to its end
    damaged     \* history: the line at which the file was damaged, else 0

vars == <<file, ended, written, damaged>>

Init ==
    /\ file = <<>>
    /\ ended = TRUE
    /\ written = {}
    /\ damaged = 0

(* _read_all returns: no line makes json.loads raise.                      *)
Readable == \A i \in DOMAIN file : file[i] # Torn

(* sha256 of the canonical JSON of everything but "hash": taken injective. *)
EntryHash(e) == <<e.seq, e.prev, e.body>>

HeadHash == IF file = <<>> THEN Genesis ELSE file[Len(file)].hash

(* Mutant: seq counts from zero.                                           *)
EntryFromZero(b) ==
    LET e == [seq |-> Len(file), prev |-> HeadHash, body |-> b]
    IN  [seq |-> e.seq, prev |-> e.prev, body |-> b, hash |-> EntryHash(e)]

NextEntry(b) ==
    LET e == [seq |-> Len(file) + 1, prev |-> HeadHash, body |-> b]
    IN  [seq |-> e.seq, prev |-> e.prev, body |-> b, hash |-> EntryHash(e)]

-----------------------------------------------------------------------------

(* The file after text has been written at its end: a new line, or more of *)
(* the last one when that one lacks its newline.                           *)
Extended(line) ==
    IF ended THEN Append(file, line) ELSE [file EXCEPT ![Len(file)] = Torn]

(* append(): the whole line is written.                                    *)
AppendEntry(b) ==
    /\ Readable
    /\ Len(file) < MaxEntries
    /\ file' = Extended(NextEntry(b))
    /\ ended' = TRUE
    /\ written' = written \cup {NextEntry(b)}
    /\ UNCHANGED damaged

(* append() raises: the disk is full or the host stops while the line is   *)
(* written.  Some of it is in the file, or all of it but the newline.      *)
AppendCutShort(b) ==
    /\ Readable
    /\ Len(file) < MaxEntries
    /\ \/ file' = Extended(Torn) /\ UNCHANGED written
       \/ file' = Extended(NextEntry(b)) /\ written' = written \cup {NextEntry(b)}
    /\ ended' = FALSE
    /\ UNCHANGED damaged

-----------------------------------------------------------------------------

(* Mutant: the hash of the entry itself is not recomputed.                 *)
LinkOkUnhashed(i) ==
    /\ file[i].seq = i
    /\ file[i].prev = IF i = 1 THEN Genesis ELSE file[i - 1].hash

(* Mutant: each entry is hashed, and its place in the chain not looked at. *)
LinkOkIsolated(i) == EntryHash(file[i]) = file[i].hash

LinkOk(i) ==
    /\ file[i].seq = i
    /\ file[i].prev = IF i = 1 THEN Genesis ELSE file[i - 1].hash
    /\ EntryHash(file[i]) = file[i].hash

Broken == {i \in DOMAIN file : ~LinkOk(i)}

(* verify(), of a readable file: the first line that is not the successor  *)
(* of the one before it, 0 when there is none.                             *)
FirstBad ==
    IF Broken = {} THEN 0
    ELSE CHOOSE i \in Broken : \A j \in Broken : i <= j

Verified == Readable /\ Broken = {}

-----------------------------------------------------------------------------

(* The file is changed once, in an editor that leaves it well-formed.      *)
Damage(kind, i) ==
    /\ kind \in DamageKinds
    /\ damaged = 0
    /\ Readable
    /\ damaged' = i
    /\ ended' = TRUE
    /\ UNCHANGED written

(* The entries that differ from e in one field.                            *)
Edits(e) ==
    ({[e EXCEPT !.body = b] : b \in Bodies}
       \cup {[e EXCEPT !.hash = Altered], [e EXCEPT !.prev = Altered],
             [e EXCEPT !.seq = 0]}) \ {e}

Edit(i) ==
    /\ Damage("edit", i)
    /\ \E e \in Edits(file[i]) : file' = [file EXCEPT ![i] = e]

Without(i) == SubSeq(file, 1, i - 1) \o SubSeq(file, i + 1, Len(file))

(* An entry that has a successor is deleted: without its newest entries    *)
(* the file still verifies, because nothing records how long it was.       *)
Delete(i) ==
    /\ Damage("delete", i)
    /\ i < Len(file)
    /\ file' = Without(i)

(* Two entries change places.                                              *)
Reorder(i, j) ==
    /\ Damage("reorder", i)
    /\ i < j
    /\ file' = [file EXCEPT ![i] = file[j], ![j] = file[i]]

Tamper ==
    \E i \in DOMAIN file :
        \/ Edit(i)
        \/ Delete(i)
        \/ \E j \in DOMAIN file : Reorder(i, j)

Next ==
    \/ \E b \in Bodies : AppendEntry(b) \/ AppendCutShort(b)
    \/ Tamper

Spec == Init /\ [][Next]_vars

-----------------------------------------------------------------------------

(* Types: a line is unreadable or an entry, and only the last one can lack *)
(* its newline.                                                            *)
IsEntry(e) ==
    /\ e = [seq |-> e.seq, prev |-> e.prev, body |-> e.body, hash |-> e.hash]
    /\ e.seq \in Nat
    /\ e.body \in Bodies

TypeOK ==
    /\ Len(file) <= MaxEntries
    /\ \A i \in DOMAIN file : file[i] = Torn \/ IsEntry(file[i])
    /\ ended \in BOOLEAN
    /\ file = <<>> => ended
    /\ \A e \in written : IsEntry(e)
    /\ damaged \in 0..MaxEntries

(* No false alarm: a file nobody damaged verifies whenever it can be read, *)
(* whichever appends were cut short on the way.                            *)
UndamagedVerifies == damaged = 0 /\ Readable => Verified

(* README.md:471: an entry that is edited, deleted or moved makes verify() *)
(* fail at that exact sequence number, now and after any later append.     *)
DamageLocated == damaged # 0 /\ Readable => FirstBad = damaged

(* A file that verifies still has every entry that was ever written.       *)
VerifiedIsComplete ==
    Verified => \A e \in written : \E i \in DOMAIN file : file[i] = e
=============================================================================
