----------------------------- MODULE RunbookIndex -----------------------------
(***************************************************************************)
(* services/runbook-agent/src/main.py: the runbooks cut into overlapping   *)
(* chunks and upserted into a Qdrant collection by background runs, while  *)
(* runbooks are edited, Qdrant fails, and questions are asked.             *)
(*                                                                         *)
(* A text is its length and the positions that are not blank; what is      *)
(* written there is told apart by the revision.  `points` is what Qdrant   *)
(* has accepted: it applies the upserts in their order, some time later.   *)
(***************************************************************************)
EXTENDS Integers, Sequences, FiniteSets

CONSTANTS
    Files,          \* the runbook files, in the order of the directory
    Texts,          \* the texts a file may have
    Runs,           \* the indexing runs that are started
    CHUNK_SIZE,     \* characters of a chunk: 400
    CHUNK_OVERLAP,  \* of which the next one repeats: 80
    Stride,         \* ids that are set aside for a file: 1000, for any text
    Wrap,           \* where base ids start again: 2^31 milliseconds
    MaxTime,        \* bound: milliseconds
    MaxEdits,       \* bound: edits of files
    MaxFailures     \* bound: files that cannot be read, requests that fail

Step == CHUNK_SIZE - CHUNK_OVERLAP

(* Mutant: a window that would reach beyond the text is left out.          *)
WindowsWhole(text) == {w \in 0..text.length - 1 : w * Step + CHUNK_SIZE <= text.length}

(* The windows are numbered from 0.                                        *)
Windows(text) == {w \in 0..text.length - 1 : w * Step < text.length}

InWindow(text, w) == w * Step .. (IF w * Step + CHUNK_SIZE < text.length
                                  THEN w * Step + CHUNK_SIZE ELSE text.length) - 1

(* _chunk_text: a window that is blank leaves no chunk.                    *)
Chunks(text) == {w \in Windows(text) : InWindow(text, w) \cap text.ink # {}}

ASSUME IndexAssumption ==
    /\ CHUNK_OVERLAP \in Nat /\ CHUNK_SIZE \in Nat /\ CHUNK_OVERLAP < CHUNK_SIZE
    /\ Files \in Seq(STRING) /\ Stride \in Nat /\ Wrap \in Nat \ {0}
    /\ {MaxTime, MaxEdits, MaxFailures} \subseteq Nat
    /\ \A t \in Texts : t.length \in Nat /\ t.ink \subseteq 0..t.length - 1

VARIABLES
    disk,           \* disk[f]: the text of a file and its revision
    points,         \* the accepted points: a function on ids
    created,        \* the collection exists
    run,            \* run[r]: where an indexing run is
    gauge,          \* COLLECTION_SIZE
    query,          \* where a question is
    clock,          \* time.time(), in milliseconds
    edits,          \* edits of files
    failures        \* files that could not be read, requests that failed

vars == <<disk, points, created, run, gauge, query, clock, edits, failures>>

(* What a run has: the base of its ids, the texts it has read, the number  *)
(* of files it is done with and of chunks it was told are stored, whether  *)
(* it has skipped a file, and whether no other run was active beside it or *)
(* has started since.                                                      *)
NotStarted == [at |-> "none", base |-> 0, read |-> <<>>, done |-> 0, total |-> 0,
               skipped |-> FALSE, undisturbed |-> FALSE]

Ended == {"none", "done", "given up"}
Active == {r \in Runs : run[r].at \notin Ended}

Merge(f, g) == [x \in DOMAIN f \cup DOMAIN g |-> IF x \in DOMAIN f THEN f[x] ELSE g[x]]

-----------------------------------------------------------------------------

(* index_runbooks: the run is a background task.                           *)
StartRun(r) ==
    /\ run[r].at = "none"
    /\ run' = [s \in Runs |->
                IF s = r THEN [run[r] EXCEPT !.at = "ensure", !.undisturbed = Active = {}]
                ELSE [run[s] EXCEPT !.undisturbed = FALSE]]
    /\ UNCHANGED <<disk, points, created, gauge, query, clock, edits, failures>>

(* _ensure_collection, first request.  The count it sets is of the points  *)
(* that have been applied: of all or, for those between, of none.          *)
Found == created /\ gauge' \in {0, Cardinality(DOMAIN points)}

Ensure(r) ==
    /\ run[r].at = "ensure"
    /\ \/ Found /\ run' = [run EXCEPT ![r].at = "list"]
       \/ ~created /\ run' = [run EXCEPT ![r].at = "create"] /\ UNCHANGED gauge
    /\ UNCHANGED <<disk, points, created, query, clock, edits, failures>>

(* Second request: a collection that was created meanwhile is a conflict,  *)
(* which counts as an outage.                                              *)
Create(r) ==
    /\ run[r].at = "create"
    /\ run' = [run EXCEPT ![r].at = IF created THEN "given up" ELSE "list"]
    /\ created' = TRUE
    /\ UNCHANGED <<disk, points, gauge, query, clock, edits, failures>>

EnsureFails(r) ==
    /\ run[r].at \in {"ensure", "create"}
    /\ failures < MaxFailures
    /\ failures' = failures + 1
    /\ run' = [run EXCEPT ![r].at = "given up"]
    /\ UNCHANGED <<disk, points, created, gauge, query, clock, edits>>

(* Mutant: the base does not start again.                                  *)
ListUnwrapped(r) ==
    /\ run[r].at = "list"
    /\ run' = [run EXCEPT ![r].at = "read", ![r].base = clock]
    /\ UNCHANGED <<disk, points, created, gauge, query, clock, edits, failures>>

(* The files are listed and the ids of the run based on the time.          *)
List(r) ==
    /\ run[r].at = "list"
    /\ run' = IF Files = <<>> THEN [run EXCEPT ![r].at = "done"]
              ELSE [run EXCEPT ![r].at = "read", ![r].base = clock % Wrap]
    /\ UNCHANGED <<disk, points, created, gauge, query, clock, edits, failures>>

(* The next file, read as it is now.                                       *)
Read(r) ==
    /\ run[r].at = "read" /\ run[r].done < Len(Files)
    /\ run' = [run EXCEPT ![r].at = "upsert",
                          ![r].read = Append(@, disk[Files[run[r].done + 1]])]
    /\ UNCHANGED <<disk, points, created, gauge, query, clock, edits, failures>>

(* What a run has of a file it cannot read.                                *)
Unread == [length |-> 0, ink |-> {}, rev |-> 0]

(* The file is gone by now, or cannot be read: it is skipped.              *)
ReadFails(r) ==
    /\ run[r].at = "read" /\ run[r].done < Len(Files)
    /\ failures < MaxFailures
    /\ failures' = failures + 1
    /\ run' = [run EXCEPT ![r].read = Append(@, Unread), ![r].done = @ + 1,
                          ![r].skipped = TRUE]
    /\ UNCHANGED <<disk, points, created, gauge, query, clock, edits>>

(* Mutant: every file has the ids of the first one.                        *)
IdOfFirst(r, i) == run[r].base + i

(* The id of the i-th chunk of the file.  Nothing keeps those of a text of *)
(* more than Stride chunks from the ids of the next file.                  *)
Id(r, i) == run[r].base + run[r].done * Stride + i

(* The chunks of the text, numbered from 0 as they come.                   *)
Points(r) ==
    LET text == run[r].read[run[r].done + 1]
        chunks == Chunks(text)
        Rank(w) == Cardinality({v \in chunks : v < w})
        ChunkAt(id) == CHOOSE w \in chunks : Id(r, Rank(w)) = id
    IN  [id \in {Id(r, Rank(w)) : w \in chunks} |->
            [source |-> Files[run[r].done + 1], rev |-> text.rev, chunk_idx |-> ChunkAt(id)]]

(* _index_document puts all points of the file in one request.             *)
Upsert(r) ==
    /\ run[r].at = "upsert"
    /\ points' = Merge(Points(r), points)
    /\ run' = [run EXCEPT ![r].at = "read", ![r].done = @ + 1,
                          ![r].total = @ + Cardinality(DOMAIN Points(r))]
    /\ UNCHANGED <<disk, created, gauge, query, clock, edits, failures>>

(* No answer: the points are stored or not, and the file is skipped.       *)
UpsertFails(r) ==
    /\ run[r].at = "upsert" /\ Points(r) # <<>>
    /\ failures < MaxFailures
    /\ failures' = failures + 1
    /\ points' \in {points, Merge(Points(r), points)}
    /\ run' = [run EXCEPT ![r].at = "read", ![r].done = @ + 1, ![r].skipped = TRUE]
    /\ UNCHANGED <<disk, created, gauge, query, clock, edits>>

Finish(r) ==
    /\ run[r].at = "read" /\ run[r].done = Len(Files)
    /\ gauge' = run[r].total
    /\ run' = [run EXCEPT ![r].at = "done"]
    /\ UNCHANGED <<disk, points, created, query, clock, edits, failures>>

-----------------------------------------------------------------------------

(* query(): a question that is empty once it is sanitized is answered 400. *)
(* One question is asked.                                                  *)
Ask ==
    /\ query = "none"
    /\ query' \in {"rejected_empty", "ensure"}
    /\ UNCHANGED <<disk, points, created, run, gauge, clock, edits, failures>>

QueryEnsure ==
    /\ query = "ensure"
    /\ \/ Found /\ query' = "search"
       \/ ~created /\ query' = "create" /\ UNCHANGED gauge
    /\ UNCHANGED <<disk, points, created, run, clock, edits, failures>>

QueryCreate ==
    /\ query = "create"
    /\ query' = IF created THEN "qdrant_unavailable" ELSE "search"
    /\ created' = TRUE
    /\ UNCHANGED <<disk, points, run, gauge, clock, edits, failures>>

(* Some of the points, or none when they are not applied yet.              *)
Search ==
    /\ query = "search"
    /\ query' \in IF points = <<>> THEN {"no_context"} ELSE {"no_context", "success"}
    /\ UNCHANGED <<disk, points, created, run, gauge, clock, edits, failures>>

QueryFails ==
    /\ query \in {"ensure", "create", "search"}
    /\ failures < MaxFailures
    /\ failures' = failures + 1
    /\ query' = IF query = "search" THEN "no_context" ELSE "qdrant_unavailable"
    /\ UNCHANGED <<disk, points, created, run, gauge, clock, edits>>

-----------------------------------------------------------------------------

Tick ==
    /\ clock < MaxTime
    /\ clock' = clock + 1
    /\ UNCHANGED <<disk, points, created, run, gauge, query, edits, failures>>

(* The text of a file at a revision.                                       *)
Text(text, rev) == [length |-> text.length, ink |-> text.ink, rev |-> rev]

Edit(f) ==
    /\ edits < MaxEdits /\ edits' = edits + 1
    /\ \E t \in Texts : disk' = [disk EXCEPT ![f] = Text(t, @.rev + 1)]
    /\ UNCHANGED <<points, created, run, gauge, query, clock, failures>>

Init ==
    /\ \E t \in [{Files[i] : i \in DOMAIN Files} -> Texts] :
            disk = [f \in DOMAIN t |-> Text(t[f], 0)]
    /\ points = <<>>
    /\ created = FALSE
    /\ run = [r \in Runs |-> NotStarted]
    /\ gauge = 0
    /\ query = "none"
    /\ clock = 0 /\ edits = 0 /\ failures = 0

RunStep(r) ==
    Ensure(r) \/ Create(r) \/ List(r) \/ Read(r) \/ Upsert(r) \/ Finish(r)

Next ==
    \/ \E r \in Runs :
        StartRun(r) \/ RunStep(r) \/ EnsureFails(r) \/ ReadFails(r) \/ UpsertFails(r)
    \/ Ask \/ QueryEnsure \/ QueryCreate \/ Search \/ QueryFails
    \/ Tick
    \/ \E f \in DOMAIN disk : Edit(f)

Spec == Init /\ [][Next]_vars

-----------------------------------------------------------------------------

Stage == {"none", "ensure", "create", "list", "read", "upsert", "done", "given up"}
Replies == {"rejected_empty", "qdrant_unavailable", "no_context", "success"}
AnyText == {Text(t, rev) : t \in Texts, rev \in 0..MaxEdits} \cup {Unread}

TypeOK ==
    /\ \A f \in DOMAIN disk : disk[f] \in AnyText
    /\ \A id \in DOMAIN points :
        /\ id \in Nat
        /\ points[id].source \in DOMAIN disk /\ points[id].rev \in 0..MaxEdits
        /\ points[id].chunk_idx \in Nat
    /\ points # <<>> => created
    /\ \A r \in Runs :
        /\ run[r].at \in Stage /\ run[r].base \in 0..Wrap - 1
        /\ run[r].read \in Seq(AnyText) /\ run[r].done \in 0..Len(Files)
        /\ Len(run[r].read) = run[r].done + (IF run[r].at = "upsert" THEN 1 ELSE 0)
        /\ run[r].total \in Nat
        /\ run[r].skipped \in BOOLEAN /\ run[r].undisturbed \in BOOLEAN
    /\ gauge \in Nat
    /\ query \in Replies \cup {"none", "ensure", "create", "search"}
    /\ clock \in 0..MaxTime /\ edits \in 0..MaxEdits /\ failures \in 0..MaxFailures

(* Every character that was read is in a chunk that is stored.             *)
Stored(source, text) ==
    \A p \in text.ink : \E id \in DOMAIN points :
        /\ points[id].source = source /\ points[id].rev = text.rev
        /\ p \in InWindow(text, points[id].chunk_idx)

(* The ids that are set aside for a file are enough for the text.          *)
Fits(text) == Cardinality(Chunks(text)) <= Stride

(* A run that skipped no file, with no other one beside it or after it,    *)
(* leaves every text it read and has ids for in the index, to the last     *)
(* character: its chunks overlap and its ids keep apart, though older      *)
(* points with ids of the same range are there, from a run moments ago or  *)
(* before the base ids started again, and though texts before and after    *)
(* this one have more chunks than ids.                                     *)
UndisturbedRunsComplete ==
    \A r \in Runs :
        run[r].at = "done" /\ run[r].undisturbed /\ ~run[r].skipped =>
            \A i \in DOMAIN run[r].read :
                Fits(run[r].read[i]) => Stored(Files[i], run[r].read[i])

(* No run has finished that did not have ids for all it read.              *)
Sized ==
    \A r \in Runs : run[r].at = "done" => \A i \in 1..run[r].done : Fits(run[r].read[i])

(* The size that is exported and returned with every answer is never more  *)
(* than the collection holds, whichever of two runs and a question writes  *)
(* it last, though runs overwrite points of each other and requests that   *)
(* are taken for failed have stored theirs.                                *)
GaugeNeverOverstates == Sized => gauge <= Cardinality(DOMAIN points)
=============================================================================
