-------------------------- MODULE RunbookIndex_proofs --------------------------
(***************************************************************************)
(* Proofs about the runbook index for any files and texts, any number of   *)
(* runs, any chunk size, overlap, stride and wrap, and any bounds.         *)
(***************************************************************************)
EXTENDS RunbookIndex, TLAPS, FiniteSetTheorems

-----------------------------------------------------------------------------
(* The state a run may be in.                                              *)

RunState ==
    [at : Stage, base : 0..Wrap - 1, read : Seq(AnyText), done : 0..Len(Files),
     total : Nat, skipped : BOOLEAN, undisturbed : BOOLEAN]

(* What is so of a run at each stage: one text more is read than stored    *)
(* while a file is under way; before the files are listed nothing is done; *)
(* from then on the collection exists.                                     *)
Orderly(b) ==
    /\ Len(b.read) = b.done + (IF b.at = "upsert" THEN 1 ELSE 0)
    /\ b.at = "upsert" => b.done < Len(Files)
    /\ b.at \in {"none", "ensure", "create", "list"} => b.done = 0 /\ b.total = 0
    /\ b.at \in {"list", "read", "upsert"} => created

(* The ids of the files a run is done with.                                *)
Own(b) == b.base..b.base + b.done * Stride - 1

PointType ==
    \A id \in DOMAIN points :
        /\ id \in Nat
        /\ points[id].source \in DOMAIN disk /\ points[id].rev \in 0..MaxEdits
        /\ points[id].chunk_idx \in Nat

DiskType ==
    /\ \A f \in DOMAIN disk : disk[f] \in AnyText /\ disk[f].rev <= edits
    /\ \A i \in 1..Len(Files) : Files[i] \in DOMAIN disk

Rest ==
    /\ created \in BOOLEAN
    /\ gauge \in Nat
    /\ query \in Replies \cup {"none", "ensure", "create", "search"}
    /\ clock \in 0..MaxTime /\ edits \in 0..MaxEdits /\ failures \in 0..MaxFailures

PointsInv ==
    /\ IsFiniteSet(DOMAIN points)
    /\ PointType
    /\ points # <<>> => created

RunInv == run \in [Runs -> RunState] /\ \A r \in Runs : Orderly(run[r])

TInv == DiskType /\ Rest /\ PointsInv /\ RunInv

(* While a run is undisturbed no other one is active.                      *)
Alone ==
    \A r \in Runs : run[r].undisturbed =>
        \A s \in Runs \ {r} : run[s].at \in Ended

(* The chunks of the i-th text of a run are among the points, below the    *)
(* ids of the files that follow, which what is stored of the files before  *)
(* may reach into.                                                         *)
FileStored(b, i) ==
    \A w \in Chunks(b.read[i]) : \E id \in DOMAIN points :
        /\ id < b.base + i * Stride
        /\ points[id].source = Files[i] /\ points[id].rev = b.read[i].rev
        /\ points[id].chunk_idx = w

Whole ==
    \A r \in Runs : run[r].undisturbed /\ ~run[r].skipped =>
        \A i \in 1..run[r].done : Fits(run[r].read[i]) => FileStored(run[r], i)

AllFit(b) == \A i \in 1..b.done : Fits(b.read[i])

(* A run that had ids enough has counted no more chunks than there are     *)
(* points with its ids.                                                    *)
Counted ==
    \A r \in Runs : AllFit(run[r]) =>
        run[r].total <= Cardinality(DOMAIN points \cap Own(run[r]))

IInv == TInv /\ Alone /\ Whole /\ Counted /\ GaugeNeverOverstates

-----------------------------------------------------------------------------
(* Facts about the constants, the numbers and the texts.                   *)

LEMMA Numbers ==
    /\ Step \in Nat \ {0} /\ CHUNK_SIZE \in Nat /\ Step <= CHUNK_SIZE
    /\ Stride \in Nat /\ Wrap \in Nat \ {0} /\ Len(Files) \in Nat
    /\ MaxTime \in Nat /\ MaxEdits \in Nat /\ MaxFailures \in Nat
    /\ Files \in Seq(STRING)
BY IndexAssumption DEF IndexAssumption, Step

LEMMA Times ==
    ASSUME NEW a \in Nat, NEW b \in Nat, NEW c \in Nat, a <= b
    PROVE  a * c \in Nat /\ a * c <= b * c
<1>1. b = a + (b - a) /\ b - a \in Nat
  OBVIOUS
<1> DEFINE d == b - a
<1>2. d * c \in Nat /\ a * c \in Nat /\ (a + d) * c = a * c + d * c
  BY <1>1
<1> HIDE DEF d
<1>3. b = a + d
  BY <1>1 DEF d
<1> QED BY <1>2, <1>3

LEMMA OneMore ==
    ASSUME NEW a \in Nat, NEW c \in Nat
    PROVE  (a + 1) * c = a * c + c /\ a * c \in Nat
OBVIOUS

(* The ids set aside for the file after the first n ones.                  *)
LEMMA Room ==
    ASSUME NEW base \in Nat, NEW n \in Nat, NEW m \in Nat, NEW c \in Nat, NEW wrap \in Nat
    PROVE  /\ n * c \in Nat /\ m * c \in Nat /\ (n + 1) * c \in Nat
           /\ base + n * c \in Nat /\ base + (n + 1) * c = base + n * c + c
           /\ base <= wrap - 1 /\ n + 1 <= m => base + n * c + c - 1 <= wrap + m * c - 1
<1>1. n * c \in Nat /\ m * c \in Nat /\ (n + 1) * c = n * c + c
  BY OneMore
<1>2. n + 1 <= m => (n + 1) * c <= m * c
  <2>1. n + 1 \in Nat
    OBVIOUS
  <2> QED BY <2>1, Times
<1> DEFINE p == n * c
           q == m * c
           s == (n + 1) * c
<1>3. p \in Nat /\ q \in Nat /\ s = p + c /\ (n + 1 <= m => s <= q)
  BY <1>1, <1>2
<1> HIDE DEF p, q, s
<1>4. /\ base + p \in Nat /\ s \in Nat /\ base + s = base + p + c
      /\ base <= wrap - 1 /\ n + 1 <= m => base + p + c - 1 <= wrap + q - 1
  BY <1>3
<1> QED BY <1>3, <1>4 DEF p, q, s

LEMMA TextFacts ==
    ASSUME NEW x \in AnyText
    PROVE  /\ x.length \in Nat /\ x.ink \subseteq 0..x.length - 1 /\ x.rev \in 0..MaxEdits
           /\ Chunks(x) \subseteq Nat /\ IsFiniteSet(Chunks(x))
<1>1. x.length \in Nat /\ x.ink \subseteq 0..x.length - 1 /\ x.rev \in 0..MaxEdits
  <2>1. CASE x = Unread
    BY <2>1, Numbers DEF Unread
  <2>2. ASSUME NEW t \in Texts, NEW rev \in 0..MaxEdits, x = Text(t, rev)
        PROVE  x.length \in Nat /\ x.ink \subseteq 0..x.length - 1 /\ x.rev \in 0..MaxEdits
    <3>1. x.length = t.length /\ x.ink = t.ink /\ x.rev = rev
      BY <2>2 DEF Text
    <3> QED BY <3>1, IndexAssumption DEF IndexAssumption
  <2> QED BY <2>1, <2>2 DEF AnyText
<1>5. Chunks(x) \subseteq 0..x.length - 1
  BY DEF Chunks, Windows
<1>6. x.length - 1 \in Int
  BY <1>1
<1>8. IsFiniteSet(0..x.length - 1)
  BY <1>6, FS_Interval
<1>7. IsFiniteSet(Chunks(x))
  BY <1>5, <1>8, FS_Subset
<1> QED BY <1>1, <1>5, <1>7

(* _chunk_text loses nothing: the step is not longer than a chunk, so      *)
(* every character is in a window, which is kept because it is not blank.  *)
LEMMA Covered ==
    ASSUME NEW x \in AnyText, NEW p \in x.ink
    PROVE  \E w \in Chunks(x) : p \in InWindow(x, w)
<1> DEFINE w == p \div Step
<1>1. x.length \in Nat /\ p \in 0..x.length - 1 /\ p \in Nat
  BY TextFacts
<1>2. w \in Nat /\ w * Step <= p /\ p < (w + 1) * Step
  BY <1>1, Numbers
<1>3. 1 <= Step /\ w * 1 <= w * Step /\ (w + 1) * Step = w * Step + Step
      /\ w * Step \in Nat
  BY <1>2, Numbers
<1>4. w <= p
  BY <1>1, <1>2, <1>3
<1> HIDE DEF w
<1>5. w \in Windows(x)
  BY <1>1, <1>2, <1>3, <1>4, Numbers DEF Windows
<1>6. p \in InWindow(x, w)
  BY <1>1, <1>2, <1>3, Numbers DEF InWindow
<1> QED BY <1>5, <1>6 DEF Chunks

-----------------------------------------------------------------------------
(* The rank of a chunk among those of its text.                            *)

RankIn(C, w) == Cardinality({v \in C : v < w})

LEMMA RankBelow ==
    ASSUME NEW C \in SUBSET Nat, IsFiniteSet(C), NEW w \in C
    PROVE  RankIn(C, w) \in 0..Cardinality(C) - 1
<1> DEFINE B == {v \in C : v < w}
<1>1. B \subseteq C /\ w \notin B
  OBVIOUS
<1>2. IsFiniteSet(B) /\ Cardinality(B) <= Cardinality(C) /\ B \cup {w} \subseteq C
  BY <1>1, FS_Subset
<1>3. Cardinality(B \cup {w}) = Cardinality(B) + 1 /\ IsFiniteSet(B \cup {w})
  BY <1>1, <1>2, FS_AddElement
<1>4. Cardinality(B \cup {w}) <= Cardinality(C)
  BY <1>2, FS_Subset
<1>5. Cardinality(B) \in Nat /\ Cardinality(C) \in Nat
  BY <1>2, FS_CardinalityType
<1> QED BY <1>3, <1>4, <1>5 DEF RankIn

LEMMA RankGrows ==
    ASSUME NEW C \in SUBSET Nat, IsFiniteSet(C), NEW v \in C, NEW w \in C, v < w
    PROVE  RankIn(C, v) < RankIn(C, w)
<1> DEFINE D == {u \in C : u < w}
<1>1. D \in SUBSET Nat /\ v \in D
  OBVIOUS
<1>6. \A u \in C : u < v => u < w
  OBVIOUS
<1>7. {u \in D : u < v} = {u \in C : u < v}
  BY <1>6
<1>2. IsFiniteSet(D)
  BY FS_Subset
<1>3. RankIn(D, v) = RankIn(C, v) /\ RankIn(C, w) = Cardinality(D)
  BY <1>7 DEF RankIn
<1>4. Cardinality(D) \in Nat
  BY <1>2, FS_CardinalityType
<1> HIDE DEF D
<1>5. RankIn(D, v) \in 0..Cardinality(D) - 1
  BY <1>1, <1>2, RankBelow
<1> QED BY <1>3, <1>4, <1>5

LEMMA RankTells ==
    ASSUME NEW C \in SUBSET Nat, IsFiniteSet(C), NEW v \in C, NEW w \in C,
           RankIn(C, v) = RankIn(C, w)
    PROVE  v = w
<1>1. RankIn(C, v) \in Int /\ RankIn(C, w) \in Int
  BY RankBelow
<1>2. ~(v < w) /\ ~(w < v)
  BY <1>1, RankGrows
<1> QED BY <1>2

LEMMA MoreIds ==
    ASSUME NEW S, NEW T, IsFiniteSet(T), S \subseteq T
    PROVE  /\ IsFiniteSet(S) /\ Cardinality(S) \in Nat /\ Cardinality(T) \in Nat
           /\ Cardinality(S) <= Cardinality(T)
BY FS_Subset, FS_CardinalityType

(* The points of the file that is under way: their ids are those set aside *)
(* for it, if they are enough, and every chunk has one.                    *)
LEMMA PointsFacts ==
    ASSUME TInv, NEW r \in Runs, run[r].at = "upsert"
    PROVE  LET b == run[r]
               x == b.read[b.done + 1]
               low == b.base + b.done * Stride
               new == Points(r)
           IN  /\ x \in AnyText /\ low \in Nat /\ b.done + 1 \in 1..Len(Files)
               /\ \A id \in DOMAIN new : id \in Nat /\ low <= id
               /\ IsFiniteSet(DOMAIN new)
               /\ Fits(x) => DOMAIN new \subseteq low..low + Stride - 1
               /\ \A id \in DOMAIN new :
                    /\ new[id].source = Files[b.done + 1] /\ new[id].rev = x.rev
                    /\ new[id].chunk_idx \in Chunks(x)
               /\ \A w \in Chunks(x) : \E id \in DOMAIN new : new[id].chunk_idx = w
<1> DEFINE b == run[r]
           x == b.read[b.done + 1]
           low == b.base + b.done * Stride
           new == Points(r)
           C == Chunks(x)
           ChunkAt(id) == CHOOSE w \in C : low + RankIn(C, w) = id
<1>1. b \in RunState /\ Orderly(b)
  BY DEF TInv, RunInv
<1>2. b.base \in Nat /\ b.done \in 0..Len(Files) /\ b.read \in Seq(AnyText)
  BY <1>1, Numbers DEF RunState
<1>3. b.done \in Nat /\ b.done + 1 \in 1..Len(Files) /\ Len(b.read) = b.done + 1
  BY <1>1, <1>2, Numbers DEF Orderly
<1>4. x \in AnyText
  BY <1>2, <1>3
<1>5. low \in Nat
  BY <1>2, <1>3, OneMore, Numbers
<1>6. C \in SUBSET Nat /\ IsFiniteSet(C) /\ Cardinality(C) \in Nat
  BY <1>4, TextFacts, FS_CardinalityType
<1>7. new = [id \in {low + RankIn(C, w) : w \in C} |->
                [source |-> Files[b.done + 1], rev |-> x.rev, chunk_idx |-> ChunkAt(id)]]
  BY DEF Points, Id, RankIn
<1>14. Fits(x) => Cardinality(C) <= Stride
  BY DEF Fits
<1> HIDE DEF new, low, C, x, b
<1>8. ASSUME NEW w \in C
      PROVE  /\ RankIn(C, w) \in 0..Cardinality(C) - 1
             /\ \A v \in C : low + RankIn(C, v) = low + RankIn(C, w) => v = w
  <2>1. RankIn(C, w) \in 0..Cardinality(C) - 1 /\ \A v \in C : RankIn(C, v) \in 0..Cardinality(C) - 1
    BY <1>6, RankBelow
  <2>2. \A v \in C : RankIn(C, v) = RankIn(C, w) => v = w
    BY <1>6, RankTells
  <2> QED BY <2>1, <2>2, <1>5, <1>6, Numbers
<1>9. DOMAIN new = {low + RankIn(C, w) : w \in C}
  BY <1>7
<1>10. \A id \in DOMAIN new : id \in low..low + Cardinality(C) - 1
  BY <1>5, <1>6, <1>8, <1>9
<1>15. /\ \A id \in DOMAIN new : id \in Nat /\ low <= id
       /\ Fits(x) => DOMAIN new \subseteq low..low + Stride - 1
  BY <1>5, <1>6, <1>10, <1>14, Numbers
<1>16. IsFiniteSet(DOMAIN new)
  <2>1. IsFiniteSet(low..low + Cardinality(C) - 1)
    BY <1>5, <1>6, FS_Interval
  <2> QED BY <1>10, <2>1, FS_Subset
<1>11. ASSUME NEW id \in DOMAIN new
       PROVE  /\ new[id].source = Files[b.done + 1] /\ new[id].rev = x.rev
              /\ new[id].chunk_idx \in C /\ low + RankIn(C, new[id].chunk_idx) = id
  <2>1. ChunkAt(id) \in C /\ low + RankIn(C, ChunkAt(id)) = id
    BY <1>9
  <2> HIDE DEF ChunkAt
  <2> QED BY <2>1, <1>7, <1>9
<1>12. ASSUME NEW w \in C
       PROVE  \E id \in DOMAIN new : new[id].chunk_idx = w
  <2> DEFINE id == low + RankIn(C, w)
  <2>1. id \in DOMAIN new
    BY <1>9
  <2>2. new[id].chunk_idx = w
    BY <1>8, <1>11, <2>1
  <2> QED BY <2>1, <2>2
<1>13. /\ x \in AnyText /\ low \in Nat /\ b.done + 1 \in 1..Len(Files)
       /\ \A id \in DOMAIN new : id \in Nat /\ low <= id
       /\ IsFiniteSet(DOMAIN new)
       /\ Fits(x) => DOMAIN new \subseteq low..low + Stride - 1
       /\ \A id \in DOMAIN new :
            new[id].source = Files[b.done + 1] /\ new[id].rev = x.rev /\ new[id].chunk_idx \in C
       /\ \A w \in C : \E id \in DOMAIN new : new[id].chunk_idx = w
  BY <1>3, <1>4, <1>5, <1>11, <1>12, <1>15, <1>16
<1> QED BY <1>13 DEF b, x, low, new, C

-----------------------------------------------------------------------------
(* The invariant holds at first.                                           *)

LEMMA Starts == Init => IInv
<1> SUFFICES ASSUME Init PROVE IInv
  OBVIOUS
<1>1. PICK t \in [{Files[i] : i \in DOMAIN Files} -> Texts] :
            disk = [f \in DOMAIN t |-> Text(t[f], 0)]
  BY DEF Init
<1>2. 0 \in 0..MaxEdits /\ 0 \in 0..MaxTime /\ 0 \in 0..MaxFailures /\ 0 \in 0..Wrap - 1
      /\ 0 \in 0..Len(Files)
  BY Numbers
<1>3. DiskType
  <2>1. DOMAIN disk = {Files[i] : i \in DOMAIN Files} /\ DOMAIN Files = 1..Len(Files)
    BY <1>1, Numbers
  <2>2. \A f \in DOMAIN disk : disk[f] = Text(t[f], 0) /\ t[f] \in Texts
    BY <1>1
  <2>3. \A f \in DOMAIN disk : disk[f] \in AnyText /\ disk[f].rev = 0
    BY <1>2, <2>2 DEF AnyText, Text
  <2>4. edits = 0
    BY DEF Init
  <2> QED BY <2>1, <2>3, <2>4 DEF DiskType
<1>4. Rest
  BY <1>2 DEF Init, Rest
<1>5. points = <<>> /\ DOMAIN points = {}
  BY DEF Init
<1>6. PointsInv
  BY <1>5, FS_EmptySet DEF PointsInv, PointType
<1>7. \A r \in Runs : run[r] = NotStarted
  BY DEF Init
<1>8. NotStarted \in RunState /\ Orderly(NotStarted)
  BY <1>2 DEF NotStarted, RunState, Orderly, Stage
<1>9. RunInv
  BY <1>7, <1>8 DEF Init, RunInv
<1>10. Alone /\ Whole
  BY <1>7 DEF Alone, Whole, NotStarted
<1>11. Counted
  <2>1. DOMAIN points = {} /\ \A r \in Runs : DOMAIN points \cap Own(run[r]) = {}
    BY <1>5
  <2> QED BY <2>1, <1>7, FS_EmptySet DEF Counted, NotStarted
<1>12. GaugeNeverOverstates
  BY <1>5, FS_EmptySet DEF Init, GaugeNeverOverstates
<1> QED BY <1>3, <1>4, <1>6, <1>9, <1>10, <1>11, <1>12 DEF IInv, TInv

-----------------------------------------------------------------------------
(* A step of an active run that stores nothing: what is known of the runs  *)
(* is kept when it changes neither what the run has stored and counted nor *)
(* whether it is undisturbed.                                              *)

Moves(r, b) == run' = [run EXCEPT ![r] = b]

LEMMA RunsKept ==
    ASSUME IInv, NEW r \in Runs, run[r].at \notin Ended, NEW b \in RunState, Moves(r, b),
           b.undisturbed = run[r].undisturbed, b.skipped = run[r].skipped,
           b.done = run[r].done, b.total = run[r].total,
           (b.done = 0 /\ b.total = 0) \/ b.base = run[r].base,
           \A i \in 1..b.done : b.read[i] = run[r].read[i],
           UNCHANGED points, created' \in BOOLEAN, created => created', Orderly(b)'
    PROVE  RunInv' /\ Alone' /\ Whole' /\ Counted' /\ (Sized' => Sized)
<1>1. run \in [Runs -> RunState] /\ \A s \in Runs : Orderly(run[s])
  BY DEF IInv, TInv, RunInv
<1>2. run'[r] = b /\ \A s \in Runs \ {r} : run'[s] = run[s]
  BY <1>1 DEF Moves
<1>8. Sized' => Sized
  BY <1>1, <1>2 DEF Sized, Ended
<1>3. RunInv'
  <2>1. run' \in [Runs -> RunState]
    BY <1>1 DEF Moves
  <2>2. \A s \in Runs \ {r} : Orderly(run[s])'
    BY <1>1, <1>2 DEF Orderly
  <2>3. Orderly(run[r])'
    BY <1>2 DEF Orderly
  <2> QED BY <2>1, <2>2, <2>3 DEF RunInv
<1>4. \A s \in Runs \ {r} : ~run[s].undisturbed
  BY DEF IInv, Alone
<1>5. Alone'
  BY <1>2, <1>4 DEF IInv, Alone, Ended
<1>6. Whole'
  <2> SUFFICES ASSUME b.undisturbed, ~b.skipped, NEW i \in 1..b.done, Fits(b.read[i])
               PROVE  FileStored(b, i)'
    BY <1>2, <1>4 DEF Whole, FileStored
  <2>2. b.done # 0 /\ b.base = run[r].base /\ b.read[i] = run[r].read[i]
    BY DEF RunState
  <2>1. FileStored(run[r], i)
    BY <2>2 DEF IInv, Whole
  <2> QED BY <2>1, <2>2 DEF FileStored
<1>7. Counted'
  <2>1. \A s \in Runs : AllFit(run[s]) =>
            run[s].total <= Cardinality(DOMAIN points \cap Own(run[s]))
    BY DEF IInv, Counted
  <2>4. AllFit(b) => AllFit(run[r])
    BY DEF AllFit
  <2>2. AllFit(b) => b.total <= Cardinality(DOMAIN points \cap Own(b))
    <3>1. CASE b.base = run[r].base
      BY <2>1, <2>4, <3>1 DEF Own
    <3>2. CASE b.total = 0
      <4>1. IsFiniteSet(DOMAIN points)
        BY DEF IInv, TInv, PointsInv
      <4>2. Cardinality(DOMAIN points \cap Own(b)) \in Nat
        BY <4>1, MoreIds
      <4> QED BY <3>2, <4>2
    <3> QED BY <3>1, <3>2
  <2>3. \A s \in Runs : AllFit(run'[s]) =>
            run'[s].total <= Cardinality(DOMAIN points \cap Own(run'[s]))
    BY <1>2, <2>1, <2>2
  <2> QED BY <2>3 DEF Counted, Own, AllFit
<1> QED BY <1>3, <1>5, <1>6, <1>7, <1>8

-----------------------------------------------------------------------------
(* Each step of a run.                                                     *)

LEMMA RunFacts ==
    ASSUME IInv, NEW r \in Runs
    PROVE  /\ run[r] \in RunState /\ Orderly(run[r])
           /\ run = [s \in Runs |-> run[s]]
BY DEF IInv, TInv, RunInv

(* The steps that leave the disk and the points alone.                     *)
LEMMA Quiet ==
    ASSUME IInv, UNCHANGED <<disk, points>>, created => created',
           edits <= edits', edits' \in Nat
    PROVE  DiskType' /\ PointsInv'
<1>1. DiskType'
  <2>1. /\ \A f \in DOMAIN disk : disk[f] \in AnyText /\ disk[f].rev <= edits
        /\ \A i \in 1..Len(Files) : Files[i] \in DOMAIN disk
    BY DEF IInv, TInv, DiskType
  <2>2. edits \in Int /\ \A f \in DOMAIN disk : disk[f].rev \in Int
    BY <2>1, TextFacts, Numbers DEF IInv, TInv, Rest
  <2>3. \A f \in DOMAIN disk : disk[f].rev <= edits'
    BY <2>1, <2>2
  <2> QED BY <2>1, <2>3 DEF DiskType
<1>2. PointsInv'
  BY DEF IInv, TInv, PointsInv, PointType
<1> QED BY <1>1, <1>2

LEMMA Finding ==
    ASSUME IInv, Found, UNCHANGED points
    PROVE  gauge' \in Nat /\ GaugeNeverOverstates'
<1>1. Cardinality(DOMAIN points) \in Nat
  BY FS_CardinalityType DEF IInv, TInv, PointsInv
<1> QED BY <1>1 DEF Found, GaugeNeverOverstates

(* A run goes on to another stage.                                         *)
LEMMA Turns ==
    ASSUME IInv, NEW r \in Runs, run[r].at \notin Ended, NEW to \in Stage \ {"upsert"},
           run[r].at # "upsert",
           to \in {"none", "ensure", "create", "list"} => run[r].done = 0 /\ run[r].total = 0,
           to \in {"list", "read"} => created',
           Moves(r, [run[r] EXCEPT !.at = to]),
           UNCHANGED points, created' \in BOOLEAN, created => created'
    PROVE  RunInv' /\ Alone' /\ Whole' /\ Counted' /\ (Sized' => Sized)
<1>1. run[r] \in RunState /\ Orderly(run[r])
  BY RunFacts
<1>2. PICK b \in RunState : b = [run[r] EXCEPT !.at = to]
  BY <1>1 DEF RunState
<1>3. /\ b.at = to /\ b.base = run[r].base /\ b.read = run[r].read /\ b.done = run[r].done
      /\ b.total = run[r].total /\ b.skipped = run[r].skipped
      /\ b.undisturbed = run[r].undisturbed
  BY <1>1, <1>2 DEF RunState
<1>4. Moves(r, b)
  BY <1>2
<1>5. Orderly(b)'
  BY <1>1, <1>3 DEF Orderly
<1> QED BY <1>2, <1>3, <1>4, <1>5, RunsKept

LEMMA EnsureStep ==
    ASSUME IInv, NEW r \in Runs, Ensure(r)
    PROVE  IInv'
<1>1. run[r].at = "ensure" /\ run[r].at \notin Ended
  BY DEF Ensure, Ended
<1>2. run[r].done = 0 /\ run[r].total = 0
  BY <1>1, RunFacts DEF Orderly
<1>3. UNCHANGED <<disk, points, created, query, clock, edits, failures>>
  BY DEF Ensure
<1>4. DiskType' /\ PointsInv'
  <2>1. edits \in Nat
    BY DEF IInv, TInv, Rest
  <2> QED BY <1>3, <2>1, Quiet
<1>5. PICK to \in {"list", "create"} :
        /\ Moves(r, [run[r] EXCEPT !.at = to])
        /\ to = "list" => Found
        /\ to = "create" => UNCHANGED gauge
  BY RunFacts DEF Ensure, Moves
<1>6. RunInv' /\ Alone' /\ Whole' /\ Counted' /\ (Sized' => Sized)
  <2>1. to \in Stage \ {"upsert"}
    BY DEF Stage
  <2>2. to = "list" => created'
    BY <1>3, <1>5 DEF Found
  <2>3. created' \in BOOLEAN
    BY <1>3 DEF IInv, TInv, Rest
  <2> QED BY <1>1, <1>2, <1>3, <1>5, <2>1, <2>2, <2>3, Turns
<1>7. gauge' \in Nat /\ GaugeNeverOverstates'
  <2>1. CASE to = "list"
    BY <1>3, <1>5, <2>1, Finding
  <2>2. CASE to = "create"
    BY <1>3, <1>5, <1>6, <2>2 DEF IInv, TInv, Rest, GaugeNeverOverstates
  <2> QED BY <2>1, <2>2
<1>8. Rest'
  BY <1>3, <1>7 DEF IInv, TInv, Rest
<1> QED BY <1>4, <1>6, <1>7, <1>8 DEF IInv, TInv

LEMMA CreateStep ==
    ASSUME IInv, NEW r \in Runs, Create(r)
    PROVE  IInv'
<1>1. run[r].at = "create" /\ run[r].at \notin Ended
  BY DEF Create, Ended
<1>2. run[r].done = 0 /\ run[r].total = 0
  BY <1>1, RunFacts DEF Orderly
<1>3. UNCHANGED <<disk, points, gauge, query, clock, edits, failures>> /\ created' = TRUE
  BY DEF Create
<1>4. DiskType' /\ PointsInv'
  <2>1. edits \in Nat
    BY DEF IInv, TInv, Rest
  <2> QED BY <1>3, <2>1, Quiet
<1>5. PICK to \in {"list", "given up"} : Moves(r, [run[r] EXCEPT !.at = to])
  BY RunFacts DEF Create, Moves
<1>6. RunInv' /\ Alone' /\ Whole' /\ Counted' /\ (Sized' => Sized)
  <2>1. to \in Stage \ {"upsert"}
    BY DEF Stage
  <2> QED BY <1>1, <1>2, <1>3, <1>5, <2>1, Turns
<1>7. Rest' /\ GaugeNeverOverstates'
  BY <1>3, <1>6 DEF IInv, TInv, Rest, GaugeNeverOverstates
<1> QED BY <1>4, <1>6, <1>7 DEF IInv, TInv

LEMMA EnsureFailsStep ==
    ASSUME IInv, NEW r \in Runs, EnsureFails(r)
    PROVE  IInv'
<1>1. run[r].at \in {"ensure", "create"} /\ run[r].at \notin Ended /\ run[r].at # "upsert"
  BY DEF EnsureFails, Ended
<1>3. UNCHANGED <<disk, points, created, gauge, query, clock, edits>>
  BY DEF EnsureFails
<1>4. DiskType' /\ PointsInv'
  <2>1. edits \in Nat
    BY DEF IInv, TInv, Rest
  <2> QED BY <1>3, <2>1, Quiet
<1>5. Moves(r, [run[r] EXCEPT !.at = "given up"])
  BY RunFacts DEF EnsureFails, Moves
<1>6. RunInv' /\ Alone' /\ Whole' /\ Counted' /\ (Sized' => Sized)
  <2>1. "given up" \in Stage \ {"upsert"}
    BY DEF Stage
  <2>2. created' \in BOOLEAN
    BY <1>3 DEF IInv, TInv, Rest
  <2> QED BY <1>1, <1>3, <1>5, <2>1, <2>2, Turns
<1>7. Rest' /\ GaugeNeverOverstates'
  <2>1. failures \in 0..MaxFailures /\ failures < MaxFailures /\ failures' = failures + 1
    BY DEF EnsureFails, IInv, TInv, Rest
  <2>2. failures' \in 0..MaxFailures
    BY <2>1, Numbers
  <2> QED BY <1>3, <1>6, <2>2 DEF IInv, TInv, Rest, GaugeNeverOverstates
<1> QED BY <1>4, <1>6, <1>7 DEF IInv, TInv

LEMMA FinishStep ==
    ASSUME IInv, NEW r \in Runs, Finish(r)
    PROVE  IInv'
<1>1. run[r].at = "read" /\ run[r].at \notin Ended
  BY DEF Finish, Ended
<1>3. UNCHANGED <<disk, points, created, query, clock, edits, failures>>
  BY DEF Finish
<1>4. DiskType' /\ PointsInv'
  <2>1. edits \in Nat
    BY DEF IInv, TInv, Rest
  <2> QED BY <1>3, <2>1, Quiet
<1>5. Moves(r, [run[r] EXCEPT !.at = "done"])
  BY RunFacts DEF Finish, Moves
<1>6. RunInv' /\ Alone' /\ Whole' /\ Counted' /\ (Sized' => Sized)
  <2>1. "done" \in Stage \ {"upsert"}
    BY DEF Stage
  <2>2. created' \in BOOLEAN
    BY <1>3 DEF IInv, TInv, Rest
  <2> QED BY <1>1, <1>3, <1>5, <2>1, <2>2, Turns
<1>7. gauge' \in Nat /\ GaugeNeverOverstates'
  <2> DEFINE own == DOMAIN points \cap Own(run[r])
  <2>1. /\ gauge' = run[r].total /\ run[r].total \in Nat
        /\ AllFit(run[r]) => run[r].total <= Cardinality(own)
    BY RunFacts DEF Finish, IInv, Counted, RunState
  <2>4. run' = [run EXCEPT ![r].at = "done"] /\ run = [s \in Runs |-> run[s]]
        /\ run[r] \in RunState
    BY RunFacts DEF Finish
  <2>5. run'[r] = [run[r] EXCEPT !.at = "done"]
    BY <2>4
  <2>6. run'[r].at = "done" /\ run'[r].done = run[r].done /\ run'[r].read = run[r].read
    BY <2>4, <2>5 DEF RunState
  <2>7. Sized' => AllFit(run[r])
    BY <2>6 DEF Sized, AllFit
  <2>2. own \subseteq DOMAIN points /\ IsFiniteSet(DOMAIN points)
    BY DEF IInv, TInv, PointsInv
  <2> HIDE DEF own
  <2>3. Cardinality(own) <= Cardinality(DOMAIN points) /\ Cardinality(own) \in Nat
        /\ Cardinality(DOMAIN points) \in Nat
    BY <2>2, MoreIds
  <2> QED BY <1>3, <2>1, <2>3, <2>7 DEF GaugeNeverOverstates
<1>8. Rest'
  BY <1>3, <1>7 DEF IInv, TInv, Rest
<1> QED BY <1>4, <1>6, <1>7, <1>8 DEF IInv, TInv

LEMMA ListStep ==
    ASSUME IInv, NEW r \in Runs, List(r)
    PROVE  IInv'
<1>1. run[r].at = "list" /\ run[r].at \notin Ended
  BY DEF List, Ended
<1>2. run[r] \in RunState /\ Orderly(run[r])
  BY RunFacts
<1>9. run[r].done = 0 /\ run[r].total = 0 /\ created
  BY <1>1, <1>2 DEF Orderly
<1>3. UNCHANGED <<disk, points, created, gauge, query, clock, edits, failures>>
  BY DEF List
<1>4. DiskType' /\ PointsInv'
  <2>1. edits \in Nat
    BY DEF IInv, TInv, Rest
  <2> QED BY <1>3, <2>1, Quiet
<1>5. created' \in BOOLEAN
  BY <1>3 DEF IInv, TInv, Rest
<1>6. RunInv' /\ Alone' /\ Whole' /\ Counted' /\ (Sized' => Sized)
  <2>1. CASE Files = <<>>
    <3>1. Moves(r, [run[r] EXCEPT !.at = "done"])
      BY <2>1, <1>2 DEF List, Moves
    <3>2. "done" \in Stage \ {"upsert"}
      BY DEF Stage
    <3> QED BY <1>1, <1>3, <1>5, <3>1, <3>2, Turns
  <2>2. CASE Files # <<>>
    <3> DEFINE base == clock % Wrap
    <3>1. base \in 0..Wrap - 1
      <4>1. clock \in Nat
        BY Numbers DEF IInv, TInv, Rest
      <4> QED BY <4>1, Numbers
    <3>2. Moves(r, [run[r] EXCEPT !.at = "read", !.base = base])
      BY <2>2, <1>2 DEF List, Moves
    <3> HIDE DEF base
    <3>3. PICK b \in RunState : b = [run[r] EXCEPT !.at = "read", !.base = base]
      BY <1>2, <3>1 DEF RunState, Stage
    <3>6. Moves(r, b)
      BY <3>2, <3>3
    <3>4. /\ b.at = "read" /\ b.read = run[r].read /\ b.done = run[r].done
          /\ b.total = run[r].total /\ b.skipped = run[r].skipped
          /\ b.undisturbed = run[r].undisturbed
      BY <1>2, <3>3 DEF RunState
    <3>5. Orderly(b)'
      BY <1>1, <1>2, <1>3, <1>9, <3>4 DEF Orderly
    <3> QED BY <1>1, <1>3, <1>5, <1>9, <3>6, <3>3, <3>4, <3>5, RunsKept
  <2> QED BY <2>1, <2>2
<1>7. Rest' /\ GaugeNeverOverstates'
  BY <1>3, <1>6 DEF IInv, TInv, Rest, GaugeNeverOverstates
<1> QED BY <1>4, <1>6, <1>7 DEF IInv, TInv

LEMMA ReadStep ==
    ASSUME IInv, NEW r \in Runs, Read(r)
    PROVE  IInv'
<1>1. run[r].at = "read" /\ run[r].at \notin Ended /\ run[r].done < Len(Files)
  BY DEF Read, Ended
<1>2. run[r] \in RunState /\ Orderly(run[r]) /\ run[r].read \in Seq(AnyText)
      /\ run[r].done \in 0..Len(Files)
  BY RunFacts DEF RunState
<1>3. UNCHANGED <<disk, points, created, gauge, query, clock, edits, failures>>
  BY DEF Read
<1>4. DiskType' /\ PointsInv'
  <2>1. edits \in Nat
    BY DEF IInv, TInv, Rest
  <2> QED BY <1>3, <2>1, Quiet
<1>5. created' \in BOOLEAN
  BY <1>3 DEF IInv, TInv, Rest
<1>6. RunInv' /\ Alone' /\ Whole' /\ Counted' /\ (Sized' => Sized)
  <2> DEFINE x == disk[Files[run[r].done + 1]]
             read == Append(run[r].read, x)
  <2>1. x \in AnyText
    <3>1. run[r].done + 1 \in 1..Len(Files)
      BY <1>1, <1>2, Numbers
    <3> QED BY <3>1 DEF IInv, TInv, DiskType
  <2>2. Len(run[r].read) = run[r].done
    BY <1>1, <1>2 DEF Orderly
  <2>3. Moves(r, [run[r] EXCEPT !.at = "upsert", !.read = read])
    BY <1>2 DEF Read, Moves
  <2> HIDE DEF x
  <2>4. read \in Seq(AnyText) /\ Len(read) = run[r].done + 1
        /\ \A i \in 1..run[r].done : read[i] = run[r].read[i]
    BY <1>2, <2>1, <2>2
  <2> HIDE DEF read
  <2>5. PICK b \in RunState : b = [run[r] EXCEPT !.at = "upsert", !.read = read]
    BY <1>2, <2>4 DEF RunState, Stage
  <2>8. Moves(r, b)
    BY <2>3, <2>5
  <2>6. /\ b.at = "upsert" /\ b.read = read /\ b.done = run[r].done /\ b.base = run[r].base
        /\ b.total = run[r].total /\ b.skipped = run[r].skipped
        /\ b.undisturbed = run[r].undisturbed
    BY <1>2, <2>5 DEF RunState
  <2>7. Orderly(b)'
    BY <1>1, <1>2, <1>3, <2>4, <2>6 DEF Orderly
  <2> QED BY <1>1, <1>3, <1>5, <2>4, <2>5, <2>6, <2>7, <2>8, RunsKept, ZenonT(40)
<1>7. Rest' /\ GaugeNeverOverstates'
  BY <1>3, <1>6 DEF IInv, TInv, Rest, GaugeNeverOverstates
<1> QED BY <1>4, <1>6, <1>7 DEF IInv, TInv

-----------------------------------------------------------------------------
(* A file is stored.  Its ids lie above those of the files before it, so   *)
(* no point of theirs is lost; older points with its ids are overwritten,  *)
(* but none of them is a point of another undisturbed run that is not      *)
(* finished, and a run that is finished keeps its promise no longer than   *)
(* it stays undisturbed.                                                   *)

LEMMA Merged ==
    ASSUME NEW f, NEW g
    PROVE  /\ DOMAIN Merge(f, g) = DOMAIN f \cup DOMAIN g
           /\ \A id \in DOMAIN f : Merge(f, g)[id] = f[id]
           /\ \A id \in DOMAIN g \ DOMAIN f : Merge(f, g)[id] = g[id]
BY DEF Merge

LEMMA StoredPoints ==
    ASSUME IInv, NEW r \in Runs, run[r].at = "upsert",
           points' = Merge(Points(r), points), UNCHANGED <<disk, created>>
    PROVE  PointsInv'
<1> DEFINE b == run[r]
           x == b.read[b.done + 1]
           low == b.base + b.done * Stride
           new == Points(r)
<1>1. b \in RunState /\ Orderly(b)
  BY RunFacts
<1>2. TInv
  BY DEF IInv
<1>3. /\ x \in AnyText /\ low \in Nat /\ b.done + 1 \in 1..Len(Files)
      /\ IsFiniteSet(DOMAIN new)
      /\ \A id \in DOMAIN new :
            /\ id \in Nat
            /\ new[id].source = Files[b.done + 1] /\ new[id].rev = x.rev
            /\ new[id].chunk_idx \in Chunks(x)
  BY <1>2, PointsFacts
<1>6. DOMAIN points' = DOMAIN new \cup DOMAIN points
      /\ (\A id \in DOMAIN new : points'[id] = new[id])
      /\ \A id \in DOMAIN points \ DOMAIN new : points'[id] = points[id]
  <2> DEFINE all == Merge(new, points)
  <2>1. points' = all
    OBVIOUS
  <2> HIDE DEF new
  <2>2. DOMAIN all = DOMAIN new \cup DOMAIN points
        /\ (\A id \in DOMAIN new : all[id] = new[id])
        /\ \A id \in DOMAIN points \ DOMAIN new : all[id] = points[id]
    BY ONLY Merged
  <2> HIDE DEF all
  <2> QED BY <2>1, <2>2
<1>7. PointsInv
  BY <1>2 DEF TInv
<1>8. Files[b.done + 1] \in DOMAIN disk
  BY <1>2, <1>3 DEF TInv, DiskType
<1>9. x.rev \in 0..MaxEdits /\ Chunks(x) \subseteq Nat
  BY <1>3, TextFacts
<1>10. created
  BY <1>1 DEF Orderly
<1> HIDE DEF b, x, low, new
<1>11. IsFiniteSet(DOMAIN points')
  BY <1>3, <1>6, <1>7, FS_Union DEF PointsInv
<1>12. ASSUME NEW id \in DOMAIN points'
       PROVE  /\ id \in Nat
              /\ points'[id].source \in DOMAIN disk /\ points'[id].rev \in 0..MaxEdits
              /\ points'[id].chunk_idx \in Nat
  <2>1. CASE id \in DOMAIN new
    <3>1. points'[id] = new[id]
      BY <1>6, <2>1
    <3> QED BY <1>3, <1>8, <1>9, <2>1, <3>1
  <2>2. CASE id \notin DOMAIN new
    <3>1. id \in DOMAIN points /\ points'[id] = points[id]
      BY <1>6, <2>2
    <3> QED BY <1>7, <3>1 DEF PointsInv, PointType
  <2> QED BY <2>1, <2>2
<1>13. PointType'
  BY <1>12 DEF PointType
<1> QED BY <1>10, <1>11, <1>13 DEF PointsInv

(* What has been stored of the files before stays, and this one is there.  *)
LEMMA StoredFiles ==
    ASSUME IInv, NEW r \in Runs, run[r].at = "upsert", NEW b, b = run[r],
           points' = Merge(Points(r), points),
           NEW c, c.base = b.base, c.read = b.read
    PROVE  /\ \A i \in 1..b.done : FileStored(b, i) => FileStored(c, i)'
           /\ Fits(b.read[b.done + 1]) => FileStored(c, b.done + 1)'
<1> DEFINE x == b.read[b.done + 1]
           low == b.base + b.done * Stride
           new == Points(r)
<1>1. b \in RunState
  BY RunFacts
<1>2. /\ x \in AnyText /\ low \in Nat
      /\ \A id \in DOMAIN new : id \in Nat /\ low <= id
      /\ Fits(x) => DOMAIN new \subseteq low..low + Stride - 1
      /\ \A id \in DOMAIN new : new[id].source = Files[b.done + 1] /\ new[id].rev = x.rev
      /\ \A w \in Chunks(x) : \E id \in DOMAIN new : new[id].chunk_idx = w
  <2>1. TInv
    BY DEF IInv
  <2> QED BY <2>1, PointsFacts
<1>3. b.base \in Nat /\ b.done \in Nat /\ Stride \in Nat
  BY <1>1, Numbers DEF RunState
<1>4. DOMAIN points' = DOMAIN new \cup DOMAIN points
      /\ (\A id \in DOMAIN new : points'[id] = new[id])
      /\ \A id \in DOMAIN points \ DOMAIN new : points'[id] = points[id]
  <2> DEFINE all == Merge(new, points)
  <2>1. points' = all
    OBVIOUS
  <2> HIDE DEF new
  <2>2. DOMAIN all = DOMAIN new \cup DOMAIN points
        /\ (\A id \in DOMAIN new : all[id] = new[id])
        /\ \A id \in DOMAIN points \ DOMAIN new : all[id] = points[id]
    BY ONLY Merged
  <2> HIDE DEF all
  <2> QED BY <2>1, <2>2
<1>5. PointType
  BY DEF IInv, TInv, PointsInv
<1> HIDE DEF new
<1>6. ASSUME NEW i \in 1..b.done, FileStored(b, i)
      PROVE  FileStored(c, i)'
  <2>1. SUFFICES ASSUME NEW w \in Chunks(b.read[i])
                 PROVE  \E id \in DOMAIN points' :
                            /\ id < b.base + i * Stride
                            /\ points'[id].source = Files[i]
                            /\ points'[id].rev = b.read[i].rev
                            /\ points'[id].chunk_idx = w
    BY DEF FileStored
  <2>2. PICK id \in DOMAIN points :
            /\ id < b.base + i * Stride
            /\ points[id].source = Files[i] /\ points[id].rev = b.read[i].rev
            /\ points[id].chunk_idx = w
    BY <1>6 DEF FileStored
  <2>3. i * Stride <= b.done * Stride /\ i * Stride \in Nat /\ b.done * Stride \in Nat
    BY <1>3, Times
  <2>4. id \in Int
    BY <1>5 DEF PointType
  <2>5. id < low
    BY <1>3, <2>2, <2>3, <2>4
  <2>6. id \notin DOMAIN new
    BY <1>2, <2>4, <2>5
  <2>7. id \in DOMAIN points' /\ points'[id] = points[id]
    BY <1>4, <2>6
  <2> QED BY <2>2, <2>7
<1>7. ASSUME Fits(x)
      PROVE  FileStored(c, b.done + 1)'
  <2>1. SUFFICES ASSUME NEW w \in Chunks(x)
                 PROVE  \E id \in DOMAIN points' :
                            /\ id < b.base + (b.done + 1) * Stride
                            /\ points'[id].source = Files[b.done + 1]
                            /\ points'[id].rev = x.rev
                            /\ points'[id].chunk_idx = w
    BY DEF FileStored
  <2>2. PICK id \in DOMAIN new : new[id].chunk_idx = w
    BY <1>2
  <2>3. (b.done + 1) * Stride = b.done * Stride + Stride /\ b.done * Stride \in Nat
    BY <1>3, OneMore
  <2>4. id < b.base + (b.done + 1) * Stride
    BY <1>2, <1>3, <1>7, <2>3
  <2>5. id \in DOMAIN points' /\ points'[id] = new[id]
    BY <1>4
  <2> QED BY <1>2, <2>2, <2>4, <2>5
<1> QED BY <1>6, <1>7

LEMMA PointsCount ==
    ASSUME IInv, NEW r \in Runs, run[r].at = "upsert"
    PROVE  Cardinality(DOMAIN Points(r)) \in Nat
<1>1. IsFiniteSet(DOMAIN Points(r))
  BY PointsFacts DEF IInv
<1> QED BY <1>1, FS_CardinalityType

(* The points of the file come on top of those with the ids before.        *)
LEMMA StoredCount ==
    ASSUME IInv, NEW r \in Runs, run[r].at = "upsert",
           points' = Merge(Points(r), points),
           NEW c, c.base = run[r].base, c.done = run[r].done + 1,
           Fits(run[r].read[run[r].done + 1])
    PROVE  /\ Cardinality(DOMAIN points \cap Own(run[r])) + Cardinality(DOMAIN Points(r))
                <= Cardinality(DOMAIN points' \cap Own(c))
<1> DEFINE b == run[r]
           low == b.base + b.done * Stride
           new == DOMAIN Points(r)
           old == DOMAIN points \cap Own(b)
           now == DOMAIN points' \cap Own(c)
<1>1. b \in RunState
  BY RunFacts
<1>2. low \in Nat /\ new \subseteq low..low + Stride - 1
  <2>1. TInv
    BY DEF IInv
  <2> QED BY <2>1, PointsFacts
<1>3. b.base \in Nat /\ b.done \in Nat /\ Stride \in Nat
  BY <1>1, Numbers DEF RunState
<1>4. DOMAIN points' = new \cup DOMAIN points
  BY Merged
<1>5. IsFiniteSet(DOMAIN points)
  BY DEF IInv, TInv, PointsInv
<1>6. c.base + c.done * Stride - 1 = low + Stride - 1 /\ b.base <= low
  <2>1. b.base + (b.done + 1) * Stride = low + Stride /\ b.done * Stride \in Nat
    BY <1>3, Room
  <2>2. c.base = b.base /\ c.done = b.done + 1
    OBVIOUS
  <2>3. b.base <= low
    BY <1>3, <2>1
  <2> HIDE DEF b, low
  <2> QED BY <2>1, <2>2, <2>3, <1>2, <1>3
<1>7. Own(b) = b.base..low - 1 /\ Own(c) = b.base..low + Stride - 1
  <2>1. Own(b) = b.base..low - 1
    <3> DEFINE p == b.done * Stride
    <3>1. p \in Nat /\ b.base \in Nat
      BY <1>3, Room
    <3>2. Own(b) = b.base..b.base + p - 1 /\ low = b.base + p
      BY DEF Own
    <3> HIDE DEF p, b, low
    <3> QED BY <3>1, <3>2
  <2>2. Own(c) = c.base..c.base + c.done * Stride - 1 /\ c.base = b.base
    BY DEF Own
  <2> HIDE DEF b, low
  <2> QED BY <1>6, <2>1, <2>2
<1> HIDE DEF b, low, new
<1>8. old \cap new = {}
  BY <1>2, <1>7
<1>9. old \cup new \subseteq now
  <2>1. Own(b) \subseteq Own(c) /\ new \subseteq Own(c)
    BY <1>2, <1>3, <1>6, <1>7
  <2> QED BY <1>4, <2>1
<1>10. IsFiniteSet(old) /\ IsFiniteSet(new) /\ IsFiniteSet(now)
  <2>1. IsFiniteSet(low..low + Stride - 1)
    BY <1>2, <1>3, FS_Interval
  <2>2. IsFiniteSet(new)
    BY <1>2, <2>1, FS_Subset
  <2>3. IsFiniteSet(DOMAIN points')
    BY <1>4, <1>5, <2>2, FS_Union
  <2> QED BY <1>5, <2>2, <2>3, FS_Subset
<1> HIDE DEF old, now
<1>11. Cardinality(old \cup new) = Cardinality(old) + Cardinality(new)
  <2>1. Cardinality(old \cup new)
            = Cardinality(old) + Cardinality(new) - Cardinality(old \cap new)
    BY <1>10, FS_Union
  <2>2. Cardinality(old) \in Nat /\ Cardinality(new) \in Nat
    BY <1>10, FS_CardinalityType
  <2>3. Cardinality(old \cap new) = 0
    BY <1>8, FS_EmptySet
  <2> QED BY <2>1, <2>2, <2>3
<1>12. Cardinality(old \cup new) <= Cardinality(now)
  BY <1>9, <1>10, MoreIds
<1> QED BY <1>11, <1>12 DEF old, now, new, b

(* Upsert and UpsertFails: what both do when the points are stored.  A run *)
(* counts them when it was told so, and has skipped the file otherwise.    *)
LEMMA Storing ==
    ASSUME IInv, NEW r \in Runs, run[r].at = "upsert", NEW b \in RunState, Moves(r, b),
           points' = Merge(Points(r), points), UNCHANGED <<disk, created, edits>>,
           b.at = "read", b.base = run[r].base, b.read = run[r].read,
           b.done = run[r].done + 1, b.undisturbed = run[r].undisturbed,
           \/ b.skipped = run[r].skipped
              /\ b.total = run[r].total + Cardinality(DOMAIN Points(r))
           \/ b.skipped /\ b.total = run[r].total
    PROVE  /\ DiskType' /\ PointsInv' /\ RunInv' /\ Alone' /\ Whole' /\ Counted'
           /\ DOMAIN points \subseteq DOMAIN points' /\ (Sized' => Sized)
<1>1. run[r] \in RunState /\ Orderly(run[r]) /\ run \in [Runs -> RunState]
      /\ \A s \in Runs : Orderly(run[s])
  BY DEF IInv, TInv, RunInv
<1>2. run'[r] = b /\ \A s \in Runs \ {r} : run'[s] = run[s]
  BY <1>1 DEF Moves
<1>3. DiskType'
  BY DEF IInv, TInv, DiskType
<1>11. Sized' => Sized
  BY <1>1, <1>2 DEF Sized
<1>4. PointsInv'
  BY StoredPoints
<1>5. RunInv'
  <2>1. run' \in [Runs -> RunState]
    BY <1>1 DEF Moves
  <2>2. \A s \in Runs \ {r} : Orderly(run[s])'
    BY <1>1, <1>2 DEF Orderly
  <2>3. Orderly(run[r])'
    BY <1>1, <1>2 DEF Orderly, RunState
  <2> QED BY <2>1, <2>2, <2>3 DEF RunInv
<1>6. \A s \in Runs \ {r} : ~run[s].undisturbed
  BY DEF IInv, Alone, Ended
<1>7. Alone'
  BY <1>2, <1>6 DEF IInv, Alone, Ended
<1>8. Whole'
  <2> SUFFICES ASSUME b.undisturbed, ~b.skipped, NEW i \in 1..b.done, Fits(b.read[i])
               PROVE  FileStored(b, i)'
    BY <1>2, <1>6 DEF Whole, FileStored
  <2>1. PICK a : a = run[r]
    OBVIOUS
  <2>2. /\ \A j \in 1..a.done : FileStored(a, j) => FileStored(b, j)'
        /\ Fits(a.read[a.done + 1]) => FileStored(b, a.done + 1)'
    BY <2>1, StoredFiles
  <2>3. ~run[r].skipped /\ run[r].undisturbed
    OBVIOUS
  <2>4. \A j \in 1..a.done : Fits(a.read[j]) => FileStored(a, j)
    BY <2>1, <2>3 DEF IInv, Whole
  <2>5. a.done \in Nat
    BY <1>1, <2>1, Numbers DEF RunState
  <2>6. (i \in 1..a.done \/ i = a.done + 1) /\ b.read = a.read
    BY <2>1, <2>5
  <2> QED BY <2>2, <2>4, <2>6
<1>9. DOMAIN points \subseteq DOMAIN points' /\ IsFiniteSet(DOMAIN points')
  BY <1>4, Merged DEF PointsInv
<1>10. Counted'
  <2> DEFINE held(s) == Cardinality(DOMAIN points \cap Own(run[s]))
             holds(s) == Cardinality(DOMAIN points' \cap Own(run'[s]))
  <2>1. \A s \in Runs : (AllFit(run[s]) => run[s].total <= held(s)) /\ run[s].total \in Nat
    BY <1>1 DEF IInv, Counted, RunState
  <2>2. ASSUME NEW s \in Runs \ {r}, AllFit(run'[s])
        PROVE  run'[s].total <= holds(s)
    <3>1. run'[s] = run[s]
      BY <1>2
    <3>2. DOMAIN points \cap Own(run[s]) \subseteq DOMAIN points' \cap Own(run[s])
          /\ IsFiniteSet(DOMAIN points' \cap Own(run[s]))
      BY <1>9, FS_Subset
    <3>3. held(s) <= holds(s) /\ held(s) \in Nat /\ holds(s) \in Nat
      BY <3>1, <3>2, MoreIds
    <3> HIDE DEF held, holds
    <3> QED BY <2>1, <2>2, <3>1, <3>3
  <2>3. ASSUME AllFit(b)
        PROVE  run'[r].total <= holds(r)
    <3> DEFINE more == Cardinality(DOMAIN Points(r))
    <3>5. run[r].done \in Nat
      BY <1>1, Numbers DEF RunState
    <3>6. Fits(run[r].read[run[r].done + 1]) /\ AllFit(run[r])
      BY <2>3, <3>5 DEF AllFit
    <3>7. more \in Nat
      BY PointsCount
    <3>1. held(r) + more <= Cardinality(DOMAIN points' \cap Own(b)) /\ more \in Nat
      BY <3>6, <3>7, StoredCount
    <3>2. held(r) \in Nat /\ holds(r) \in Nat
      <4>1. IsFiniteSet(DOMAIN points \cap Own(run[r]))
            /\ IsFiniteSet(DOMAIN points' \cap Own(run'[r]))
        BY <1>9, FS_Subset DEF IInv, TInv, PointsInv
      <4> QED BY <4>1, FS_CardinalityType
    <3>3. b.total = run[r].total + more \/ b.total = run[r].total
      OBVIOUS
    <3>4. holds(r) = Cardinality(DOMAIN points' \cap Own(b))
      BY <1>2
    <3> HIDE DEF held, holds, more
    <3> QED BY <1>2, <2>1, <3>1, <3>2, <3>3, <3>4, <3>6
  <2>4. Own(run[r])' = Own(run'[r]) /\ \A s \in Runs : Own(run[s])' = Own(run'[s])
    BY DEF Own
  <2>5. \A s \in Runs : AllFit(run[s])' => AllFit(run'[s])
    BY DEF AllFit
  <2> QED BY <1>2, <2>2, <2>3, <2>4, <2>5 DEF Counted
<1> QED BY <1>3, <1>4, <1>5, <1>7, <1>8, <1>9, <1>10, <1>11

(* The file is passed over, read or not: no point is stored.               *)
LEMMA Skipping ==
    ASSUME IInv, NEW r \in Runs, run[r].at \notin Ended, NEW b \in RunState, Moves(r, b),
           UNCHANGED <<disk, points, created, edits>>,
           b.at = "read", b.base = run[r].base, Orderly(b)',
           \A i \in 1..run[r].done : b.read[i] = run[r].read[i],
           b.done = run[r].done + 1, b.undisturbed = run[r].undisturbed,
           b.skipped, b.total = run[r].total
    PROVE  /\ DiskType' /\ PointsInv' /\ RunInv' /\ Alone' /\ Whole' /\ Counted'
           /\ Sized' => Sized
<1>1. run[r] \in RunState /\ run \in [Runs -> RunState]
      /\ \A s \in Runs : Orderly(run[s])
  BY DEF IInv, TInv, RunInv
<1>2. run'[r] = b /\ \A s \in Runs \ {r} : run'[s] = run[s]
  BY <1>1 DEF Moves
<1>8. Sized' => Sized
  BY <1>1, <1>2 DEF Sized, Ended
<1>3. DiskType' /\ PointsInv'
  BY DEF IInv, TInv, DiskType, PointsInv, PointType
<1>4. RunInv'
  <2>1. run' \in [Runs -> RunState]
    BY <1>1 DEF Moves
  <2>2. ASSUME NEW s \in Runs \ {r}
        PROVE  Orderly(run[s])'
    <3>1. run'[s] = run[s] /\ Orderly(run[s]) /\ created' = created
      BY <1>1, <1>2
    <3> QED BY <3>1 DEF Orderly
  <2>3. Orderly(run[r])'
    BY <1>2 DEF Orderly
  <2> QED BY <2>1, <2>2, <2>3 DEF RunInv
<1>5. \A s \in Runs \ {r} : ~run[s].undisturbed
  BY DEF IInv, Alone, Ended
<1>6. Alone' /\ Whole'
  BY <1>2, <1>5 DEF IInv, Alone, Whole, Ended
<1>7. Counted'
  <2>1. \A s \in Runs : AllFit(run[s]) =>
            run[s].total <= Cardinality(DOMAIN points \cap Own(run[s]))
    BY DEF IInv, Counted
  <2>2. Own(run[r]) \subseteq Own(b)
    <3>1. run[r].base \in Nat /\ run[r].done \in Nat /\ Stride \in Nat
      BY <1>1, Numbers DEF RunState
    <3> DEFINE p == run[r].done * Stride
               q == (run[r].done + 1) * Stride
    <3>2. p \in Nat /\ q = p + Stride
      BY <3>1, OneMore
    <3>3. Own(run[r]) = run[r].base..run[r].base + p - 1
          /\ Own(b) = run[r].base..run[r].base + q - 1
      BY DEF Own
    <3> HIDE DEF p, q
    <3> QED BY <3>1, <3>2, <3>3
  <2> DEFINE held == Cardinality(DOMAIN points \cap Own(run[r]))
             holds == Cardinality(DOMAIN points \cap Own(b))
  <2>3. held <= holds /\ held \in Nat /\ holds \in Nat
    <3>1. DOMAIN points \cap Own(run[r]) \subseteq DOMAIN points \cap Own(b)
      BY <2>2
    <3>2. IsFiniteSet(DOMAIN points \cap Own(b))
      BY FS_Subset DEF IInv, TInv, PointsInv
    <3> QED BY <3>1, <3>2, MoreIds
  <2>4. (AllFit(run[r]) => run[r].total <= held) /\ run[r].total \in Nat
    BY <1>1, <2>1 DEF RunState
  <2>7. AllFit(b) => AllFit(run[r])
    <3>1. run[r].done \in Nat
      BY <1>1, Numbers DEF RunState
    <3> QED BY <3>1 DEF AllFit
  <2> HIDE DEF held
  <2>5. AllFit(b) => b.total <= holds
    BY <2>3, <2>4, <2>7
  <2>6. \A s \in Runs : AllFit(run'[s]) =>
            run'[s].total <= Cardinality(DOMAIN points \cap Own(run'[s]))
    BY <1>2, <2>1, <2>5
  <2> QED BY <2>6 DEF Counted, Own, AllFit
<1> QED BY <1>3, <1>4, <1>6, <1>7, <1>8

LEMMA UpsertStep ==
    ASSUME IInv, NEW r \in Runs, Upsert(r)
    PROVE  IInv'
<1>1. run[r].at = "upsert" /\ points' = Merge(Points(r), points)
      /\ UNCHANGED <<disk, created, gauge, query, clock, edits, failures>>
  BY DEF Upsert
<1>2. run[r] \in RunState /\ Orderly(run[r])
  BY RunFacts
<1> DEFINE more == Cardinality(DOMAIN Points(r))
           done == run[r].done + 1
           total == run[r].total + more
<1>3. more \in Nat
  BY <1>1, PointsCount
<1>4. Moves(r, [run[r] EXCEPT !.at = "read", !.done = done, !.total = total])
  BY <1>2 DEF Upsert, Moves
<1> HIDE DEF more
<1>5. done \in 0..Len(Files) /\ total \in Nat
  BY <1>1, <1>2, <1>3, Numbers DEF Orderly, RunState
<1> HIDE DEF done, total
<1>6. PICK b \in RunState :
            b = [run[r] EXCEPT !.at = "read", !.done = done, !.total = total]
  BY <1>2, <1>5 DEF RunState, Stage
<1>7. /\ Moves(r, b) /\ b.at = "read" /\ b.base = run[r].base /\ b.read = run[r].read
      /\ b.done = done /\ b.undisturbed = run[r].undisturbed
      /\ b.skipped = run[r].skipped /\ b.total = total
  BY <1>2, <1>4, <1>6 DEF RunState
<1>8. /\ DiskType' /\ PointsInv' /\ RunInv' /\ Alone' /\ Whole' /\ Counted'
      /\ DOMAIN points \subseteq DOMAIN points' /\ (Sized' => Sized)
  BY <1>1, <1>7, Storing DEF done, total, more
<1>9. GaugeNeverOverstates'
  <2>1. Cardinality(DOMAIN points) <= Cardinality(DOMAIN points')
        /\ Cardinality(DOMAIN points) \in Nat /\ Cardinality(DOMAIN points') \in Nat
    BY <1>8, MoreIds DEF PointsInv
  <2> QED BY <1>1, <1>8, <2>1 DEF IInv, TInv, Rest, GaugeNeverOverstates
<1>10. Rest'
  BY <1>1 DEF IInv, TInv, Rest
<1> QED BY <1>8, <1>9, <1>10 DEF IInv, TInv

LEMMA ReadFailsStep ==
    ASSUME IInv, NEW r \in Runs, ReadFails(r)
    PROVE  IInv'
<1>1. run[r].at = "read" /\ run[r].at \notin Ended /\ run[r].done < Len(Files)
      /\ UNCHANGED <<disk, points, created, gauge, query, clock, edits>>
  BY DEF ReadFails, Ended
<1>2. run[r] \in RunState /\ Orderly(run[r]) /\ run[r].read \in Seq(AnyText)
      /\ run[r].done \in Nat
  BY RunFacts, Numbers DEF RunState
<1> DEFINE done == run[r].done + 1
           read == Append(run[r].read, Unread)
<1>3. Len(run[r].read) = run[r].done
  BY <1>1, <1>2 DEF Orderly
<1>4. Moves(r, [run[r] EXCEPT !.at = "read", !.read = read, !.done = done, !.skipped = TRUE])
  BY <1>1, <1>2 DEF ReadFails, Moves
<1>5. /\ done \in 0..Len(Files) /\ read \in Seq(AnyText) /\ Len(read) = done
      /\ \A i \in 1..run[r].done : read[i] = run[r].read[i]
  <2>1. Unread \in AnyText
    BY DEF AnyText
  <2> QED BY <1>1, <1>2, <1>3, <2>1, Numbers
<1> HIDE DEF read
<1>6. PICK b \in RunState :
            b = [run[r] EXCEPT !.at = "read", !.read = read, !.done = done, !.skipped = TRUE]
  <2> HIDE DEF done
  <2> QED BY <1>2, <1>5 DEF RunState, Stage
<1>7. /\ Moves(r, b) /\ b.at = "read" /\ b.base = run[r].base /\ b.read = read
      /\ b.done = done /\ b.undisturbed = run[r].undisturbed
      /\ b.skipped /\ b.total = run[r].total
  <2> HIDE DEF done
  <2> QED BY <1>2, <1>4, <1>6 DEF RunState
<1>8. Orderly(b)'
  BY <1>1, <1>2, <1>5, <1>7 DEF Orderly
<1>9. /\ DiskType' /\ PointsInv' /\ RunInv' /\ Alone' /\ Whole' /\ Counted'
      /\ Sized' => Sized
  BY <1>1, <1>5, <1>7, <1>8, Skipping
<1>10. GaugeNeverOverstates'
  BY <1>1, <1>9 DEF IInv, GaugeNeverOverstates
<1>11. Rest'
  <2>1. failures \in 0..MaxFailures /\ failures < MaxFailures /\ failures' = failures + 1
    BY DEF ReadFails, IInv, TInv, Rest
  <2>2. failures' \in 0..MaxFailures
    BY <2>1, Numbers
  <2> QED BY <1>1, <2>2 DEF IInv, TInv, Rest
<1> QED BY <1>9, <1>10, <1>11 DEF IInv, TInv

LEMMA UpsertFailsStep ==
    ASSUME IInv, NEW r \in Runs, UpsertFails(r)
    PROVE  IInv'
<1>1. run[r].at = "upsert" /\ points' \in {points, Merge(Points(r), points)}
      /\ UNCHANGED <<disk, created, gauge, query, clock, edits>>
  BY DEF UpsertFails
<1>2. run[r] \in RunState /\ Orderly(run[r])
  BY RunFacts
<1> DEFINE done == run[r].done + 1
<1>4. Moves(r, [run[r] EXCEPT !.at = "read", !.done = done, !.skipped = TRUE])
  BY <1>2 DEF UpsertFails, Moves
<1>5. done \in 0..Len(Files)
  BY <1>1, <1>2, Numbers DEF Orderly, RunState
<1> HIDE DEF done
<1>6. PICK b \in RunState :
            b = [run[r] EXCEPT !.at = "read", !.done = done, !.skipped = TRUE]
  BY <1>2, <1>5 DEF RunState, Stage
<1>7. /\ Moves(r, b) /\ b.at = "read" /\ b.base = run[r].base /\ b.read = run[r].read
      /\ b.done = done /\ b.undisturbed = run[r].undisturbed
      /\ b.skipped /\ b.total = run[r].total
  BY <1>2, <1>4, <1>6 DEF RunState
<1>8. /\ DiskType' /\ PointsInv' /\ RunInv' /\ Alone' /\ Whole' /\ Counted'
      /\ DOMAIN points \subseteq DOMAIN points' /\ (Sized' => Sized)
  <2>3. run[r].at \notin Ended /\ Orderly(b)'
    BY <1>1, <1>2, <1>7, Numbers DEF Ended, Orderly, done, RunState
  <2>1. CASE points' = points
    BY <1>1, <1>7, <2>1, <2>3, Skipping DEF done
  <2>2. CASE points' = Merge(Points(r), points)
    BY <1>1, <1>7, <2>2, Storing DEF done
  <2> QED BY <1>1, <2>1, <2>2
<1>9. GaugeNeverOverstates'
  <2>1. Cardinality(DOMAIN points) <= Cardinality(DOMAIN points')
        /\ Cardinality(DOMAIN points) \in Nat /\ Cardinality(DOMAIN points') \in Nat
    BY <1>8, MoreIds DEF PointsInv
  <2> QED BY <1>1, <1>8, <2>1 DEF IInv, TInv, Rest, GaugeNeverOverstates
<1>10. Rest'
  <2>1. failures \in 0..MaxFailures /\ failures < MaxFailures /\ failures' = failures + 1
    BY DEF UpsertFails, IInv, TInv, Rest
  <2>2. failures' \in 0..MaxFailures
    BY <2>1, Numbers
  <2> QED BY <1>1, <2>2 DEF IInv, TInv, Rest
<1> QED BY <1>8, <1>9, <1>10 DEF IInv, TInv

-----------------------------------------------------------------------------
(* A run starts, and the others are no longer undisturbed.                 *)

LEMMA StartStep ==
    ASSUME IInv, NEW r \in Runs, StartRun(r)
    PROVE  IInv'
<1>1. run[r].at = "none"
      /\ UNCHANGED <<disk, points, created, gauge, query, clock, edits, failures>>
  BY DEF StartRun
<1>2. run[r] \in RunState /\ Orderly(run[r]) /\ \A s \in Runs : run[s] \in RunState /\ Orderly(run[s])
  BY DEF IInv, TInv, RunInv
<1> DEFINE u == Active = {}
           b == [run[r] EXCEPT !.at = "ensure", !.undisturbed = u]
           other(s) == [run[s] EXCEPT !.undisturbed = FALSE]
<1>3. run' = [s \in Runs |-> IF s = r THEN b ELSE other(s)]
  BY DEF StartRun
<1>4. u \in BOOLEAN
  OBVIOUS
<1>5. u => \A s \in Runs : run[s].at \in Ended
  BY DEF Active
<1> HIDE DEF u
<1>6. /\ b \in RunState /\ b.at = "ensure" /\ b.base = run[r].base /\ b.read = run[r].read
      /\ b.done = run[r].done /\ b.total = run[r].total
      /\ b.undisturbed = u
  BY <1>2, <1>4 DEF RunState, Stage
<1>7. \A s \in Runs :
        /\ other(s) \in RunState /\ other(s).at = run[s].at /\ other(s).base = run[s].base
        /\ other(s).read = run[s].read /\ other(s).done = run[s].done
        /\ other(s).total = run[s].total /\ ~other(s).undisturbed
  BY <1>2 DEF RunState
<1> HIDE DEF b, other
<1>8. \A s \in Runs :
        /\ run'[s] \in RunState /\ run'[s].base = run[s].base /\ run'[s].read = run[s].read
        /\ run'[s].done = run[s].done /\ run'[s].total = run[s].total
        /\ s = r => run'[s].at = "ensure" /\ run'[s].undisturbed = u
        /\ s # r => run'[s].at = run[s].at /\ ~run'[s].undisturbed
  BY <1>3, <1>6, <1>7
<1>9. run[r].done = 0 /\ run[r].total = 0
  BY <1>1, <1>2 DEF Orderly
<1>10. RunInv'
  <2>1. run' \in [Runs -> RunState]
    BY <1>3, <1>6, <1>7
  <2>2. \A s \in Runs : Orderly(run[s])'
    BY <1>1, <1>2, <1>8 DEF Orderly
  <2> QED BY <2>1, <2>2 DEF RunInv
<1>11. Alone'
  BY <1>5, <1>8 DEF Alone, Ended
<1>12. Whole'
  BY <1>8, <1>9 DEF Whole
<1>13. Counted'
  <2>1. \A s \in Runs : Own(run[s])' = Own(run[s])
    BY <1>8 DEF Own
  <2>2. \A s \in Runs : AllFit(run[s])' => AllFit(run[s])
    BY <1>8 DEF AllFit
  <2> QED BY <1>1, <1>8, <2>1, <2>2 DEF IInv, Counted
<1>16. Sized' => Sized
  BY <1>1, <1>8 DEF Sized
<1>14. DiskType' /\ PointsInv'
  <2>1. edits \in Nat
    BY DEF IInv, TInv, Rest
  <2> QED BY <1>1, <2>1, Quiet
<1>15. Rest' /\ GaugeNeverOverstates'
  BY <1>1, <1>16 DEF IInv, TInv, Rest, GaugeNeverOverstates
<1> QED BY <1>10, <1>11, <1>12, <1>13, <1>14, <1>15 DEF IInv, TInv

-----------------------------------------------------------------------------
(* The steps that are not of a run.                                        *)

(* They leave the runs and the points alone.                               *)
LEMMA RunsAside ==
    ASSUME IInv, UNCHANGED <<run, points>>, created => created'
    PROVE  RunInv' /\ Alone' /\ Whole' /\ Counted' /\ (Sized' <=> Sized)
<1>1. RunInv'
  BY DEF IInv, TInv, RunInv, Orderly
<1>2. Alone'
  BY DEF IInv, Alone
<1>3. Whole'
  BY DEF IInv, Whole, FileStored
<1>4. Counted'
  BY DEF IInv, Counted, Own, AllFit
<1>5. Sized' <=> Sized
  BY DEF Sized
<1> QED BY <1>1, <1>2, <1>3, <1>4, <1>5

(* A question: whatever it finds, the size it exports is not too large.    *)
LEMMA QuestionSteps ==
    ASSUME IInv, Ask \/ QueryEnsure \/ QueryCreate \/ Search \/ QueryFails
    PROVE  IInv'
<1>1. UNCHANGED <<disk, points, run, clock, edits>>
  BY DEF Ask, QueryEnsure, QueryCreate, Search, QueryFails
<1>2. created' \in BOOLEAN /\ (created => created')
  BY DEF IInv, TInv, Rest, Ask, QueryEnsure, QueryCreate, Search, QueryFails
<1>3. DiskType' /\ PointsInv' /\ RunInv' /\ Alone' /\ Whole' /\ Counted' /\ (Sized' <=> Sized)
  <2>1. edits \in Nat
    BY DEF IInv, TInv, Rest
  <2> QED BY <1>1, <1>2, <2>1, Quiet, RunsAside
<1>4. gauge' \in Nat /\ GaugeNeverOverstates'
  <2>1. CASE Found
    BY <1>1, <2>1, Finding
  <2>2. CASE gauge' = gauge
    BY <1>1, <1>3, <2>2 DEF IInv, TInv, Rest, GaugeNeverOverstates
  <2> QED BY <2>1, <2>2 DEF Ask, QueryEnsure, QueryCreate, Search, QueryFails
<1>5. query' \in Replies \cup {"none", "ensure", "create", "search"}
  BY DEF Replies, Ask, QueryEnsure, QueryCreate, Search, QueryFails
<1>6. failures' \in 0..MaxFailures
  <2>1. failures \in 0..MaxFailures
    BY DEF IInv, TInv, Rest
  <2>2. failures' = failures \/ (failures < MaxFailures /\ failures' = failures + 1)
    BY DEF Ask, QueryEnsure, QueryCreate, Search, QueryFails
  <2> QED BY <2>1, <2>2, Numbers
<1>7. Rest'
  BY <1>1, <1>2, <1>4, <1>5, <1>6 DEF IInv, TInv, Rest
<1> QED BY <1>3, <1>4, <1>7 DEF IInv, TInv

LEMMA TickStep == IInv /\ Tick => IInv'
<1> SUFFICES ASSUME IInv, Tick PROVE IInv'
  OBVIOUS
<1>1. UNCHANGED <<disk, points, created, run, gauge, query, edits, failures>>
  BY DEF Tick
<1>2. clock' \in 0..MaxTime
  BY Numbers DEF IInv, TInv, Rest, Tick
<1>3. DiskType' /\ PointsInv' /\ RunInv' /\ Alone' /\ Whole' /\ Counted' /\ (Sized' <=> Sized)
  <2>1. edits \in Nat
    BY DEF IInv, TInv, Rest
  <2> QED BY <1>1, <2>1, Quiet, RunsAside
<1>4. Rest' /\ GaugeNeverOverstates'
  BY <1>1, <1>2, <1>3 DEF IInv, TInv, Rest, GaugeNeverOverstates
<1> QED BY <1>3, <1>4 DEF IInv, TInv

(* A runbook is edited: what the runs have read of it is not.              *)
LEMMA EditStep ==
    ASSUME IInv, NEW f \in DOMAIN disk, Edit(f)
    PROVE  IInv'
<1>1. UNCHANGED <<points, created, run, gauge, query, clock, failures>>
      /\ edits < MaxEdits /\ edits' = edits + 1
  BY DEF Edit
<1>2. PICK t \in Texts : disk' = [disk EXCEPT ![f] = Text(t, @.rev + 1)]
  BY DEF Edit
<1>3. edits \in 0..MaxEdits /\ edits' \in 0..MaxEdits
  BY <1>1, Numbers DEF IInv, TInv, Rest
<1>4. /\ \A g \in DOMAIN disk : disk[g] \in AnyText /\ disk[g].rev <= edits
      /\ \A i \in 1..Len(Files) : Files[i] \in DOMAIN disk
  BY DEF IInv, TInv, DiskType
<1>5. \A g \in DOMAIN disk : disk[g].rev \in Nat
  BY <1>4, TextFacts, Numbers
<1>6. DOMAIN disk' = DOMAIN disk
  BY <1>2
<1>7. ASSUME NEW g \in DOMAIN disk
      PROVE  disk'[g] \in AnyText /\ disk'[g].rev <= edits'
  <2>1. CASE g = f
    <3>1. disk'[g] = Text(t, disk[g].rev + 1)
      BY <1>2, <2>1
    <3>2. disk[g].rev + 1 \in 0..MaxEdits /\ disk[g].rev + 1 <= edits'
      BY <1>1, <1>3, <1>4, <1>5, Numbers
    <3>3. disk'[g].rev = disk[g].rev + 1
      BY <3>1 DEF Text
    <3> QED BY <3>1, <3>2, <3>3 DEF AnyText
  <2>2. CASE g # f
    <3>1. disk'[g] = disk[g]
      BY <1>2, <2>2
    <3>2. disk[g].rev <= edits'
      BY <1>1, <1>3, <1>4, <1>5
    <3> QED BY <1>4, <3>1, <3>2
  <2> QED BY <2>1, <2>2
<1>8. DiskType'
  BY <1>4, <1>6, <1>7 DEF DiskType
<1>9. PointsInv'
  BY <1>1, <1>6 DEF IInv, TInv, PointsInv, PointType
<1>10. RunInv' /\ Alone' /\ Whole' /\ Counted' /\ (Sized' <=> Sized)
  BY <1>1, RunsAside
<1>11. Rest' /\ GaugeNeverOverstates'
  BY <1>1, <1>3, <1>10 DEF IInv, TInv, Rest, GaugeNeverOverstates
<1> QED BY <1>8, <1>9, <1>10, <1>11 DEF IInv, TInv

-----------------------------------------------------------------------------

LEMMA Kept == IInv /\ [Next]_vars => IInv'
<1> SUFFICES ASSUME IInv, [Next]_vars PROVE IInv'
  OBVIOUS
<1>1. CASE UNCHANGED vars
  <2>1. UNCHANGED <<disk, points, created, run, gauge, query, clock, edits, failures>>
    BY <1>1 DEF vars
  <2>2. DiskType' /\ PointsInv' /\ RunInv' /\ Alone' /\ Whole' /\ Counted' /\ (Sized' <=> Sized)
    <3>1. edits \in Nat
      BY DEF IInv, TInv, Rest
    <3> QED BY <2>1, <3>1, Quiet, RunsAside
  <2>3. Rest' /\ GaugeNeverOverstates'
    BY <2>1, <2>2 DEF IInv, TInv, Rest, GaugeNeverOverstates
  <2> QED BY <2>2, <2>3 DEF IInv, TInv
<1>2. CASE \E r \in Runs :
            StartRun(r) \/ RunStep(r) \/ EnsureFails(r) \/ ReadFails(r) \/ UpsertFails(r)
  BY <1>2, StartStep, EnsureStep, CreateStep, ListStep, ReadStep, UpsertStep, FinishStep,
     EnsureFailsStep, ReadFailsStep, UpsertFailsStep DEF RunStep
<1>3. CASE Ask \/ QueryEnsure \/ QueryCreate \/ Search \/ QueryFails
  BY <1>3, QuestionSteps
<1>4. CASE Tick
  BY <1>4, TickStep
<1>5. CASE \E f \in DOMAIN disk : Edit(f)
  BY <1>5, EditStep
<1> QED BY <1>1, <1>2, <1>3, <1>4, <1>5 DEF Next

LEMMA Invariant == Spec => []IInv
<1>1. Init => IInv
  BY Starts
<1>2. IInv /\ [Next]_vars => IInv'
  BY Kept
<1> QED BY <1>1, <1>2, PTL DEF Spec

(* Types; a run has read one text more than it is done with just while one *)
(* is under way.                                                           *)
THEOREM TypeCorrect == Spec => []TypeOK
<1>1. IInv => TypeOK
  BY DEF IInv, TInv, TypeOK, DiskType, Rest, PointsInv, PointType, RunInv, RunState, Orderly
<1> QED BY <1>1, Invariant, PTL

(* index_runbooks and _chunk_text: a run that had the collection to itself *)
(* and skipped no file has every character of the texts it read and had    *)
(* ids for stored.                                                         *)
THEOREM UndisturbedComplete == Spec => []UndisturbedRunsComplete
<1>1. IInv => UndisturbedRunsComplete
  <2> SUFFICES ASSUME IInv, NEW r \in Runs, run[r].at = "done", run[r].undisturbed,
                      ~run[r].skipped, NEW i \in DOMAIN run[r].read, Fits(run[r].read[i]),
                      NEW p \in run[r].read[i].ink
               PROVE  \E id \in DOMAIN points :
                        /\ points[id].source = Files[i]
                        /\ points[id].rev = run[r].read[i].rev
                        /\ p \in InWindow(run[r].read[i], points[id].chunk_idx)
    BY DEF UndisturbedRunsComplete, Stored
  <2> DEFINE x == run[r].read[i]
  <2>1. run[r].read \in Seq(AnyText) /\ Len(run[r].read) = run[r].done
    BY RunFacts, Numbers DEF RunState, Orderly
  <2>2. i \in 1..run[r].done /\ x \in AnyText
    BY <2>1
  <2>3. FileStored(run[r], i)
    BY <2>2 DEF IInv, Whole
  <2>4. PICK w \in Chunks(x) : p \in InWindow(x, w)
    BY <2>2, Covered
  <2> QED BY <2>3, <2>4 DEF FileStored
<1> QED BY <1>1, Invariant, PTL

(* COLLECTION_SIZE: as long as no run has finished without ids for all it  *)
(* read, neither a count that is taken before the points are applied nor   *)
(* the sum of a run is more than the collection holds.                     *)
THEOREM GaugeHonest == Spec => []GaugeNeverOverstates
<1>1. IInv => GaugeNeverOverstates
  BY DEF IInv
<1> QED BY <1>1, Invariant, PTL
=============================================================================
